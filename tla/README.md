# A formal model of AnyWorld

AnyWorld is a multiplayer role-playing server: players join a session over
WebSockets, act in turn, and an LLM resolves each complete round. This directory
holds TLA+ models of the server, TLC configurations that check them on small
parties, and proofs, checked by TLAPS, of the properties that matter most.

    tlc -config SessionEnd.cfg MCSession      # model-check one configuration
    tlapm SessionTheorems.tla                 # check the proofs of one module

## The system

| Part | State | Operations | Talks to |
|---|---|---|---|
| Game engine (`logic/engine.py`) | `state`, `turn_queue`, `round_buffer`, `active_player_id`, `pending_resolution`, `round_counter`, `accepted_actions`, `generation`, `inference_task`, `pending_delivery` | `_submit_action`, `handle_disconnect`, `_retry_round`, `_run_job`, `_resolve_round`, `shutdown` | resolver (awaited calls), sender (broadcasts), transcript |
| Lobby (`logic/lobby.py`, a mixin of the engine) | `players`, `join_order`, presence flags | `_authenticate`, `_initialize_scenario`, `_start_game`, `_end_game`, `process_payload` | the same state, under the same locks |
| WebSocket endpoint (`api/server.py`) | one task per socket, the current engine | authenticate, route one payload at a time, disconnect, `start_new_game` | engine, connection manager, budgets |
| Connection manager (`api/server.py`) | `active_connections`, `pending`, one bounded queue and writer task per socket | `connect`, `promote`, `_forget`, `_enqueue`, `_write`, `_fail`, `close` | endpoint, engine (`on_disconnect`) |
| Journal and publication (`logic/journal.py`, `engine._broadcast`) | event log, cursor, published cursor, `publication_lock` | `record`, `page`, `_publish_recorded` | engine, connection manager, clients |
| Transcript (`logic/transcript.py`) | path, finalized flag, I/O lock, file | `start`, `append_round`, `discard_uncommitted`, `finalize` | engine (under `effects_lock`), threads |
| Admission (`api/admission.py`) | sliding windows per source, player and purpose | `blocked`, `record`, `accept`, `retry_after` | endpoint |
| LLM context manager (`logic/llm_manager.py`, `logic/llm/`) | memory, history, revision, usage, token caches | stage, commit, compact, count, request | engine, provider |
| Browser client (`static/js/`) | cursor, live events, pending action | reconnect, replay the journal, resend an action | server |
| Configuration, TLS, tunnel, logging, Docker, benchmarks | start-up and platform | | |

What is hard: one event loop runs a task per socket, a task per inference job,
clean-up tasks of failed sockets and shutdown, all on the same engine. `lock` is
held only for computations that do not suspend; `effects_lock` is held over
archive writes and deliveries, so that outcomes and the end of the game come in
order. Between the two lock blocks of an action, during inference, during a
delivery, while waiting for a finishing task: anybody may leave, return, be
replaced, act, retry or end. A deadline (`asyncio.timeout`) can interrupt a job at
each of its awaits, and cancellation can arrive late.

What makes each part correct:

- *engine and lobby*: the turn is always one that can be taken, in join order; an
  action counts once, in its own round, and is never lost; dice are rolled once; a
  session never waits for work nobody does; a committed outcome is shown, once
  and before the end; the end is final; departures and returns are narrated;
- *connection manager*: one owner per client, queues within their limits, a failed
  socket is reported once and never on behalf of its successor;
- *publication and client*: every client sees every public event once, in order,
  across cancellation, reconnects and replay;
- *transcript*: what is committed is written once and nothing follows the end;
- *admission*: no more than `capacity` per window, and no lock-out beyond it;
- *LLM memory*: a resolution is committed to the memory it was made from.

The hazards in `PROJECT.json` name the lines where these can go wrong.

## Modules

| Module | Contents |
|---|---|
| `TurnOrder` | `_next_turn_locked` and `_take_complete_round_locked` as operators on queue, presence and buffer |
| `Session` | engine, lobby and presence: variables, one action per handler step, properties, fairness, the refinement mapping |
| `RoundTable` | what a session promises, without sockets, locks and jobs; `Session` implements it |
| `SessionInvariants` | the parts of the inductive invariant `SessionInv`, and what single promises need besides |
| `MCSession` | symmetry, and the start of play as an initial state |
| `SessionProofs` | lemmas on rotating the queue and choosing the next turn; type correctness, and that `SessionInv` is inductive, one lemma per action |
| `SessionTheorems` | the safety and step properties that follow; join order, the refinement of `RoundTable`, transitions, the delivery lock, announcements |
| `Publication` | from a committed event to the journal and the queue of a socket |
| `Replay` | a browser that loses its socket, returns and catches up, composed with `Publication` |
| `PublicLog` | what publication promises a reader: one growing log, read in order; `Replay` implements it |
| `MCReplay` | the start of play as an initial state |
| `ReplayProofs` | the journal is in order, every request is answered, the refinement of `PublicLog` |
| `ViewProofs` | once all has arrived, the page shows the state of the game |
| `Memory` | what the storyteller remembers: compaction, the attempts of a request, staging and commit |
| `Transcript` | the archive on disk and the threads that write it |
| `Chronicle` | the inference jobs of one game between `Memory` and `Transcript` |
| `TokenCounts` | the cache of token counts and the measurements that callers share |
| `Chance` | what one dice plan authorizes: triggers, events, hidden checks |
| `MCChronicle` | small values for the three; a behaviour is one of `Chronicle`, `TokenCounts` or `Chance` |
| `ChronicleProofs` | types, the completeness of the memory, the bound on calls; the archive on disk tells the game as it was committed |
| `StorytellerProofs` | the cache of token counts is accounted for; a round rolls only what is authorized; the composition `MCChronicle` |
| `Connections` | sockets, logins, replacement, failure, and the game that replaces an ended one |
| `Budgets` | sliding windows of recorded uses, and what they promise |
| `MCGateway` | symmetry of sockets; a behaviour is one of `Connections` or `Budgets` |
| `ConnectionsProofs` | types, ownership and presence across games, successors |
| `BudgetProofs` | the times a budget keeps are those of the uses its window counts; the composition `MCGateway` |

### How `Session` corresponds to the code

A step is what the code does between two suspension points. Each
`async with self.lock` block is one step, because nothing suspends inside it.
`effects_lock` is the variable `effects`: "job" while a job commits and delivers,
"ending" while `shutdown` delivers, "finalizing" until `game_ended` is out. A
handler that mutates the state and then only broadcasts under `effects_lock`
(`_submit_action`'s second block, `handle_disconnect`, the failure message of
`_run_job`) is one step: nobody who needs `effects_lock` can come between, and who
does not need it sees the mutated state either way.

- *Players*: `connected`, `version`, `departed`, `returned` are the fields of
  `Player`; `live` is the set of clients in `active_connections`. `LoseSocket`
  creates a pending `handle_disconnect` call (`leavers`), with the version the
  endpoint's `finally` block saw or without one when the manager's `_fail` lost
  it. `StillLost` is the guard that call applies when it finally gets
  `effects_lock`. A replaced or lost socket makes its own running requests
  ownerless (`Disown`): `CURRENT_OWNER` is false for them. When a returning player finds
  nobody holding the turn, `Reconnect` selects one in the lock block of `_authenticate`; its
  directive waits in `greetings` and is broadcast by `AnnounceReturn`, after `auth_ok` and a
  `system_msg` and without `effects_lock`, so anything may be broadcast before it.
- *Actions*: `Submit` is the first lock block, `AcceptAction` the second; the
  submission between them carries what the first block read (epoch,
  participants, round). `RejectAction` is a refusal by `preflight_round` or by the
  checks after it, `RestoreTurn` the directive `process_payload` then sends. An
  entry of the buffer is the number of the round the player meant, which is what
  tells a stray action from a right one.
- *Jobs*: a record with epoch, kind, attempt and the stage reached in `_run_job`:
  "opening" (waiting to broadcast `dm_thinking`), "working" (outside every lock),
  "archiving" (a start job's opening archive), "delivering", "failing" (waiting for
  the handler's `effects_lock`), "recovering", "finishing". `DiceOutcomes` stands
  for what a plan and its rolls may produce. `FailWork` is any exception or the
  deadline; `MissDeadline` the deadline after the commit; `CancelJob` a
  cancellation that is delivered. A cancellation may also be swallowed, so a job
  of an ended game may go on to its next check.
- *Delivery*: `pendingDelivery` is the deque; `shown` and `announced` are the last
  outcome and the last directive broadcast to everyone. `announced.late` marks a login's
  directive whose turn had passed when it was broadcast.
- *Shutdown*: `StopServer` and `RequestEnd` make calls, `BeginShutdown` ..
  `AnnounceEnd` are one call's way through `effects_lock`.

Left out of `Session`: passwords, tokens and names, chat, snapshots, usage reports
and the private debug summary (no decision of the game reads them); the text of
scenarios, actions and narratives; payloads without an action id (they skip the
round check of `_submit_action`). A client has one action per round, so a repeated
payload is a repeat of an accepted one and is only acknowledged again.

### How `Publication` and `Replay` correspond to the code

`Session` says which events a game commits; these two modules say how they reach a
page. `journal.record` never suspends, and a broadcast suspends once, in the
`sleep(0)` after the message is in every queue. `Publish` is everything up to there
(record, stamp the id, enqueue) and `Published` the rest (move the published cursor,
release `publication_lock`); between them `publishing` names the broadcast that
holds the lock, and everything else may move.

- *The game* is reduced to the events it commits: an opening or an outcome, the next
  `round_start` and a directive. `effects` says what `effects_lock` is held for: a
  job's delivery, its recovery, a notice, or the end. `notices` are the broadcasts a
  job or a shutdown still owes and that nobody repeats (`dm_thinking`, the error of a
  pause, `game_ended`).
- *Deadlines*: `DeadlineBetween` strikes outside a broadcast, `DeadlineInside` in
  one. There, an event that has an id is published a second time before the
  cancellation goes on (`again`), one without is given up. Either way the event stays
  first in `pendingDelivery`, and `cut` is the `except` branch that waits to recover
  it; a shutdown or the next job may come first. `SkipPassed` is the early return of
  `_publish_recorded` for an id the published cursor has passed.
- *One socket* is followed: `attached` and its queue, which fails when full. In a
  broadcast sockets are independent, so one stands for each. `stream` is the queue
  with the network behind it; losing the socket loses all of it.
- *The browser*: `screen` holds the cursor, the ids shown, and the parts of the view
  that tell the state of the game (thinking, retry offered, ended, opening present).
  A message is handled in the step that takes it off the stream. `ReceiveAuth`
  applies the snapshot and asks for a page if the journal is ahead; `HoldEvent` is
  the hold-back in `handleMessage`; `Finish` is `finishJournalReplay`; `GiveUp` is
  the 30 s timer, `AskAgain` the timer after a refusal by the budget, `NoticeClose`
  the close handler. Between a close frame or the page's own `close()` and that handler
  the socket is "closing" (`StartClosing`, `HoldTooMany`): still authenticated, no longer
  OPEN. `send` refuses then, so `AskAgain` gives the catch-up up (`GivenUp`) and shows what
  was held back. `outrun` and `gaveUp` are history variables of the properties.

Left out: `journal_request_failed`, which the server sends for a malformed request and never
for the page's own; the sender's own copy of an action (`action_echo`), preparations that fail, the
byte limits of a page and of a queue, search and export of the history, usage reports,
the display of the round number, reloading the page (a new page starts with an empty
log), and jobs launched by an authentication (`Session` has them).

### How `Memory`, `Transcript` and `Chronicle` correspond to the code

`Session` treats the resolver and the archive as an outcome; these three say what
happens inside a job.

- *Conversation*: a list of exchanges (a prompt and an answer), named by the number
  of the exchange in the game. `memory.covers` is the history the durable memory
  stands for, a fact the code does not store: it is what a summary must not lose.
  A request is measured (`Measure`), which also chooses the prefix to summarize, a
  summary is written and audited (`WriteSummary`, `RefuseSummary`, `LoseSummary`), the
  request with it is measured again (`VerifySummary`), and so on until it fits.
  `Abandon` is the outer `except` of `compact`, `GoOn` each early return. A count is
  `Total` or `Total + Excess`, chosen each time: the tokenizer may stop answering
  between two counts, and this is what makes a verification fail.
- *Requests*: `RetryCall` is a transient error inside `provider.execute`,
  `RepairOutput` an answer that a schema, `check_semantics`, an audit or the privacy
  check refuses, `FailRequest` an error that ends the request. An output may need audits,
  each a provider call with attempts of its own (`NextAudit`): one of the events of a
  round, one of every hidden roll of a dice plan; a repair starts them over.
  `request.calls` counts the calls of outputs and audits, not those made for summaries. `staged` requests
  (`_stage`) put the conversation back on every way out, `Unwind` and `PutBack`;
  others keep a compaction that was completed.
- *Archive*: every write holds `_io_lock` until its thread ends, and the thread ends
  by itself (`Finish`), also when the task that waits for it is cancelled
  (`CancelWrite`). A failed append may leave a torn section.
- *Jobs*: `Ask` takes the request the job is at: title, opening, trigger pass, dice,
  resolution. `CommitRound` commits and starts the append in the step that holds
  both locks; `StartArchive` writes the opening first and `OpeningArchived` commits
  it. `Expire` and `Interrupt` are the deadline before and during a write,
  `Shutdown` is `end_game`, the new game's or the server's. Automatic and host
  retries are new launches; players and turns are `Session`'s.

`TokenCounts` is `input_tokens` with its tasks: `Miss` joins or creates a measurement,
`Measured` ends it, `Resume` stores the count and evicts, `CancelCaller` leaves the
task to the others. `Chance` is one round's plan: the answer of the trigger pass is any
short list of names, `PlanDice` any set of marks with any hidden names and sources, and
`WellFormed` is what `_request` and `check_semantics` accept.

### How `Connections` and `Budgets` correspond to the code

A handler is at one of the places where it can wait: accepting, waiting for a message,
waiting for the lock of the game it remembers, sending the snapshot, serving, starting
a new game, in its `finally` block, or reporting. `games` are the engines ever created,
reduced to a phase and the presence of players; the last is current. `Enter` is the
lock block of `_authenticate` with `activate` inside it, `RemoveSocket` the lock block
of the `finally` block, `Report` and `CleanReported` what `handle_disconnect` does when it
gets `effects_lock`: the first checks the version its endpoint read, both check
`active_connections`. `CleanNoticed` takes the engine at the moment the `clean()` task
runs. `NewGame` is `start_new_game` up to the publication of the new engine, which
suspends nowhere. A client's transport may close whenever its handler reads, so closing
one (`close_socket`) has no step of its own. Whether a budget blocks is a free choice.

`Budgets` splits the `OrderedDict` of the code: `records` is the order of its keys, `times`
the deque of each. It keeps besides every use ever recorded: what is promised is told from
the uses alone.

## What the runs check

`Session*` runs use `MCSession`, `Chronicle*` runs `MCChronicle`, `Gateway`
`MCGateway`, `Replay*` runs `MCReplay`. Bounds of the first: `MaxRounds` stops submissions after so many rounds,
`MaxChanges` limits presence changes of all players together, `MaxGeneration` the
jobs the host launches, `MaxShutdowns` the shutdown calls waiting. `Attempts` is 3 in
the code; 1 or 2 is enough for "there is another attempt" and "there is none".
Deadlock checking is off: a session whose players do nothing, or that has ended,
really stops. Players and dice are symmetric.

Bounds of the last: `MaxRounds`, `MaxPauses` and `MaxChats` end the game's flow of
events, `MaxLosses` and `MaxRefusals` that of failures (a full queue loses a socket
without limit). `QueueLimit`, `PageLimit` and `HoldLimit` are 2 or 3 for the 128
(`send_queue_messages`), 100 (`journal.js`) and 512 (`app.js`) of the code: one commit
fills the queue or the hold-back, and a catch-up takes two pages. Where a page or the
hold-back should not interfere its limit is 10.

Bounds of `Chronicle`: an exchange is 2 tokens and a request 4 or 12 besides the
conversation, in a window of 14 with a target of 9; a summary takes 1 or 3. With that
every branch of compaction is taken: nothing to do, due by the history limit, due by
the window, no prefix small enough, a second pass for the target, a memory that does
not help. Five exchanges let a memory be summarized again. One failure, one retry and
two shutdowns meet every step; with up to two hidden rolls (`MaxHidden`) a dice plan is
audited twice. `TokenCounts` has 2 callers, 3 keys of 1, 2 and 3 bytes
in a cache of 2 keys and 4 bytes, so both limits evict; `Chance` 2 participants, one of
whom may have a reserved name, 4 rules that differ in cadence, scope and eligibility,
and answers of up to 2 names.

Bounds of `Gateway`: 3 sockets for 2 clients let one replace another whose end is still
on its way while a third logs in; 2 games are one replacement; 2 pending sockets and 2
attempts let both limits bite. The budget has 3 keys for 2 places, 2 uses per window of
2 ticks, 5 uses in 4 ticks: a key is evicted, returns, and its window passes.

| Run | Shows | Bounds |
|---|---|---|
| `SessionEnd` | the whole life of a session, an end at any point: `SessionInv` with the types, no outcome lost, one job at a time, the end final, `RoundTable` implemented | 2 players, 1 round, 1 change, 3 jobs, 1 shutdown, deadlines |
| `SessionParty` | players act, leave, lose sockets and return in every order: join order, announced and playable turns, no ghosts, no stray action, no transition forgotten | 3 players, one away at first, 1 round, 4 changes, sockets fail |
| `SessionRounds` | failures, automatic and host retries: nothing accepted is lost, no stuck round, dice rolled once | 2 players, 2 rounds, 1 change, sockets close, 4 jobs, 2 attempts, 2 dice, deadlines |
| `SessionLive` | the four liveness properties | 2 players, 1 round, 1 change, 3 jobs, 1 shutdown, deadlines |
| `SessionStaleTurn` | finding: a superseded directive is delivered last | as `SessionParty`, 2 players, deadlines |
| `SessionTwiceDeparted` | finding: a departure is narrated twice | 2 players, 1 round, 2 changes |
| `Chronicle` | a whole game told: memory complete, calls bounded, archive faithful; token cache accounted; dice plans authorized | 5 exchanges, 1 failure, 1 retry, 2 shutdowns; see above |
| `ChronicleOptional` | finding: an optional summary fails a request that fits | no history limit, one size of request, no failures or shutdowns |
| `Gateway` | two games in succession: owners play, ghosts are noticed, successors spared; budgets exact | 2 clients, 3 sockets, 2 games; see above |
| `ReplayRounds` | rounds, pauses and the end: each committed event recorded once, outcomes before later rounds and the end last, a catch-up is served, its answer is under way, and the view ends up current | 1 round, 1 pause, 1 loss, 1 refusal, queue, page and hold-back of 2, both kinds of deadline |
| `ReplayCatchUp` | from the lobby: `PublicLog` implemented, the browser catches up again and again | opening, chat and end, 2 losses, 1 refusal, queue of 3, deadlines, no request timeouts |
| `ReplayStaleEnd` | finding: an old snapshot hides the end of the game | no round, 1 loss |

`Session*` runs other than `SessionEnd` start from `PlayInit`, the state the opening leaves
when delivered with everybody present (in `SessionEnd` it is reached from `Init`), to
spend their bounds on rounds. `SessionParty` starts from `AwayInit`, where the last to
join left the lobby before the start: with three players the run needs a departure and
a return at once, and this spares it one change. Two players suffice for every interaction of one
player with "the others"; three are used where order among the others matters. Two
rounds suffice because nothing of a round but `accepted_actions` and pending
transitions survives its commit, and those look back one round.

`TurnAnnounced` is checked as a pass with `DeliveryDeadlines` off and violated with it on.
It allows one outdated directive, a login's (`announced.late`); without this disjunct TLC
violates it in `SessionParty` after six states: a player returns to an empty table and gets
the turn, its socket fails, another returns, the disconnect of the first passes the turn and
announces that, and the first one's login then broadcasts its directive. So a directive is
outdated in two ways: a login's by its broadcast outside the lock, any other only by the
recovery of the finding.

Fairness (`FairSpec`): each job, each client's disconnects, submissions,
rejections and late directives, the retries, and the shutdown make progress when they can. The code
justifies it: the event loop runs every ready task, `asyncio.Lock` serves waiters in
order, and `asyncio.timeout` bounds every call to the resolver. Players, sockets and
the host owe nothing: they may stay silent or leave. `OutcomesAreDelivered` ends in
"or paused" because a superseded failing job may leave its delivery to the next
holder of `effects_lock`, and a paused round has none until the host acts.

`ReplayRounds` and `ReplayStaleEnd` start from the `PlayInit` of `MCReplay`, after the
opening, with nobody watching yet. `ReplayCatchUp` has no request timeouts because a
request given up after 30 s may be refused only then: nothing asks again, and the page catches
up only with the next live event or login, so `CatchesUp` fails. The held events move the
cursor past what a catch-up given up should have brought: those events are shown only by the
history dialog. `ReadsTheLog` says so with `gaveUp`, and the run gives catch-ups up without
timers, on a closing socket. `ViewIsCurrent` excludes with `outrun` the catch-ups that
brought news younger than their snapshot (the third finding, a page ahead of the snapshot or
an error shown during the replay) and pages that arrive after their catch-up was given up.

The fairness of `Replay` is the browser's and the endpoint's: the browser reconnects
(its timer always does while a player is signed in), handles the messages that
arrived and repeats refused requests; the server answers the requests of a socket it
has. Nothing is assumed of the game, and deadlines, losses and refusals owe nothing.

### Findings

- `SessionStaleTurn`: after a deadline in the middle of a delivery, a disconnect may
  be handled before the recovery; its directive is then followed by the older one
  still in `pending_delivery`, and every client shows the wrong active player.
- `SessionTwiceDeparted`: a departure already reported by a round is reported again
  by the next one if the player returns before that round commits.
- `ReplayStaleEnd`: a catch-up ends by applying the snapshot of `auth_ok` once more,
  which may be older than the pages just read; an ended game then looks running, and
  an opening or a retry button may be missing, until the next reconnect.
- `ChronicleOptional`: a compaction pass made only to reach the target is verified like
  a necessary one, and its failure undoes the earlier pass too; the request, which
  fitted, fails, and the round pauses.

## What is proved

For every set of players and every value of the bounds:

- `TypeCorrect`: `Spec => []TypeOK`, the first conjunct of `SessionInv`.
- `SessionCorrect`: `Spec => []SessionInv`, the inductive invariant.
- `TurnStaysPlayable`, `ActionsKeepTheirRound`, `AcknowledgementsAreHonoured`,
  `PendingStaysComplete`, `PausesCanBeRetried`, `WaitingHasAJob`, `OneJobAtATime`: the
  invariants of the runs, from `SessionInv`.
- `NoGhostStays`: presence, inductive by itself with `TypeOK`.
- `OutcomesReachPlayers`: every committed round is shown or queued, whatever deadline cuts
  a delivery short, and the game ends once with nothing left to deliver. (That the queue is
  in the order of the rounds is a part of its invariant.)
- `AcceptedActionsSurvive`, `DiceStand`, `TheEndIsFinal`: step properties, from
  `SessionInv` and a lemma that says what each action does to the round.
- `PlayersActInOrder`: the queue is the join order turned by those who have an entry.
- `SessionPlaysRounds`: `Spec => PlaysRounds`, `Session` implements `RoundTable`.
- `TransitionsAreTold`: departures and returns are forgotten only once reported.
- `LockHasOneHolder`: `effects_lock` has one holder, and the end is announced only with
  nothing left to deliver. No run has it as a property; the proofs below rest on it.
- `TurnsAreAnnounced`: the last directive sent names the player whose turn it is, or the
  login that selected the turn will announce it, or that last directive is the outdated one
  of a login, *if no deadline cuts a delivery after its commit* (`DeliveryDeadlines =
  FALSE`). With them it is false: that is the finding of `SessionStaleTurn`.

- `ReplayAlwaysServed`: while a browser with a live or closing socket holds events back, one of
  its requests waits for an answer or for a timer; inductive by itself, because every
  handler that keeps holding back asks again, and every one that drops the request
  releases the events or closes the socket.
- `ReplayTyped`: types of publication, sockets and browser.
- `EventsAreRecordedOnce`, `EventsAreRecordedInOrder`: the journal holds every committed
  event once, outcomes before the next round and the end last, whatever deadline or
  shutdown interrupts its publication.
- `AnswersAreComing`: while its socket lives, a request of the browser is on its way, or
  its answer is.
- `BrowserReadsTheLog`: `Spec => ReadsTheLog`, `Replay` implements `PublicLog`: the page
  shows public events but the opening in order and once, for any number of lost sockets,
  any timers and any limit of queues, pages and held-back events; and it leaves none out
  as long as no catch-up has been given up. After that events may be missing from the page
  for good, as its cursor has passed them.
- `ViewsAreCurrent`: for any limits, bounds and timers, once nothing is on its way the
  page shows the state of the game (thinking or idle, a paused round, the end, the opening),
  unless its catch-up outran its snapshot, which is the finding of `ReplayStaleEnd`.

- `ChronicleTyped`, `MemoryCompletes`, `CallsBounded`: types of storyteller, archive
  and jobs; memory and history hold every exchange once and in order, and a staged
  resolution extends the conversation it will be committed to; a request never sends
  more than `2 * MaxRetries + 1` calls for its output and for each audit of it. For every
  window, size, limit and retry count.
- `ArchiveFaithful`: the archive is faithful for any number of rounds, failures,
  cancellations and shutdowns.
- `CacheAccounted`: for any lists, sizes and limits, the cache of token counts holds each
  list once, `_cache_bytes` is what they weigh, and both limits hold.
- `OnlyAuthorizedRolls`: whatever the provider answers and however often it is repaired, a
  planned round rolls chance only under the host's rule and about its subjects, once each,
  and hides only checks it requires. For any participants, rules and reserved names.
- `ConnectionsTyped`, `OwnersPlaying`, `GhostsNoticed`, `SuccessorsSpared`: types and the
  limit of pending sockets; presence and ownership agree up to reports on their way,
  across games; an old socket's end spares its successor. For every number of clients,
  sockets, attempts and games.
- `BudgetsAreExact`: for any number of keys, any capacity, window and limit of keys, a key is
  blocked exactly while its window is full, no window is ever overfull, and `retry_after`
  names the end of the block. `BudgetsStaySmall`: types, never more keys than the limit, and
  the keys in the order of their last use, so the one evicted is the least recently used.
- `GatewayTyped`, `StorytellerTyped`: the type invariants of the runs `Gateway` and
  `Chronicle`.

Assumptions: `NoOneAssumption` (`NoOne` is not a player), `BoundsAssumption`,
`PublicationAssumption`, `ReplayAssumption`, `MemoryAssumption`, `ChronicleAssumption`
(bounds and limits are numbers, limits and summaries positive, a history limit of at
least 2, as the settings require), `ConnectionsAssumption` (the host is a client,
`Nobody` is neither client nor socket), `BudgetAssumption` (capacity, window and limit of
keys are positive), `CountsAssumption` (lists have a positive size, the cache has room for an
entry) and `ChanceAssumption` (rules have the fields of `StructuredChanceRule`, no participant
is called "shared", participants are distinct); TLC checks them in every run of their modules.

The argument for `Session`. None of the properties is inductive alone. That the turn is playable
after a change of turn rests on two lemmas of `TurnOrder`: `NextTurnType` (seats
are kept, only missing entries become idle ones) and `NextTurnChooses` (if someone
connected can act, such a player is chosen; if not, the buffer is complete, so the
round is launched). `ResumeTurnsEffect` combines them: a change of turn either
launches the round or passes the turn. That a launch is safe needs `NoneUnsettled`:
in a turn phase, or when paused, no job can commit any more. This follows from
`UnsettledIsCurrent`: the unsettled job is the current one, and the session waits
for it. `KindMatchesPending` ties the waiting job to the pending round, so that a
rollback of a round pauses it and a rollback of a preparation finds the buffer
empty (`PreparationIsEmpty`). `SubmissionsAreFresh` carries the round check of an
action's first block to its second: a commit needs a job, and a job needs a new
generation. `EndIsQuiet` is what keeps the end final. `SessionProofs` has one lemma
per action, built from lemmas for the kinds of step: a change of turn, a launch, a
move of a job, a settled phase, a fresh round, and steps that leave a part alone.

`OutcomesReachPlayers` has an inductive invariant of its own beside `SessionInv`:
`InOrder` and `NoneMissing` say that the outcomes queued are in the order of their rounds,
none before one already shown, and that every committed round is shown or queued;
`EndingInv`, that the end is announced at most once and by a shutdown only. While a game
is prepared (`NothingTold`) no round is committed, so the opening is round 0. A step appends to the queue, takes its head or leaves it, so a lemma for each
of the three serves every action.

The other promises of `Session` need invariants beside `SessionInv`; TLC checked each
on the instances of `SessionParty`, `SessionEnd` and `SessionRounds` first (the last with
`DeliveryDeadlines` off). `OrderInv`: seats are
distinct, until the opening the queue is the join order, entries are those of members,
and in a turn phase somebody has none.
Two rotations are one (`RotateTwice`), so choosing the next turn turns the queue past
exactly the players that got an entry (`NextTurnInOrder`); the refinement of `RoundTable`
follows action by action. `TransitionInv`: the version of a player moves with every
departure and return, so a pending round that froze the present version froze the present
marks, and what a commit drops it has reported. `LockInv` says who holds `effects_lock`;
`AnnouncementInv`, that a directive that waits in the queue names the active player and that
one waits there or in a login when the last one sent does not and is not itself a late one.

The argument for `Replay`. `RecordInv`: an event without an id is in `pendingDelivery`
once and in the journal not at all, no outcome waits behind a later `round_start`, the
head stays queued while it is published, and no end is announced before the queue is
empty. So recovery, the next job and a shutdown, which all start from the queue's head,
find an event that has an id and skip it, or one that has none and record it. `PlacesInv`:
nothing the server sends or the browser holds is ahead of the journal. `ReadInv` is what a
reader needs to know of messages on their way. `Leads(sent, j, from, to)` says that after
its message `j` a socket brings every event after `from` up to `to`, each only after
the one before it. A live page's socket leads from its cursor to the end of the journal
(`LiveLeads`); what follows a snapshot leads from where the snapshot was taken, what follows the last
page of a catch-up from where the page ends (`SnapshotsLead`, `PagesLead`); a page and a
request start no later than where the browser stands (`PagesFit`, `RequestsFit`). With it
the page has shown exactly the first events of the log (`Reads`), until a catch-up is given
up. From then on `ShowsInOrder` remains: what is shown grows in order and never goes beyond
the cursor, whatever pages and events arrive. A full queue closes the
socket and empties the stream, so nothing is ever left out of one. TLC checked it on the
instances of `ReplayCatchUp` and `ReplayRounds`. A page and the events held
back are handled one by one by the recursive function `HandleAll`; what it ends with is
proved with sets of numbers (a set of naturals that is not empty has a least member), as
induction over data is not available.

The argument for `ViewIsCurrent`. The page may show anything old; what matters is what it
will show. `Tells(due, view, cursor, messages)` says that a page with this view and cursor,
once it has handled these messages, shows all of `due`: for each claim, the view
makes it and no message takes it back, or some message makes it and none after it takes it
back; an opening or an end among them is not dropped for its id. `Due` is what the
phase of the game claims, less what its broadcasts still owed (`notices`) will claim. The
invariant `ViewInv` is `Tells(Due, Base, Reach, Coming)`. `Coming` is the events held back
and the queue of the socket; `Base` and `Reach` are the view and the cursor of the page, or,
while a snapshot is still to be applied (authenticating, or replaying), that snapshot and the
further of the two positions: so pages need not be trusted for the view, only not to go
beyond the snapshot, and this is exactly where `outrun` comes in. A step of the game makes
nothing due, or says what it makes due in the same step (`Silently`, `Aloud`), which rests on
`GameFits`: which notices each phase can still owe, and who holds the locks while one is
sent. A handler of the browser takes one message from `Coming` (`TellsHandled`,
`DroppedTells`) or ends a catch-up (`FinishTells`). `KnownInv` is the other direction for
the opening: wherever it is told, the game has it. TLC checked every part on the instances of
`ReplayRounds`, `ReplayCatchUp` and `ReplayStaleEnd` first.

The argument for `Chronicle`. `MemoryIsComplete` needs to know what the two copies of
the conversation are worth. `Told`: memory and history together are the exchanges
told. `CheckpointKept`: so is the checkpoint, while a request is under way, so putting it back
is safe. `Chosen`: the prefix selected is not longer than the history, also after it
was halved, so `VerifySummary` moves exchanges and loses none. `Ready`: what is
prepared has one exchange more and the current revision; it holds because nothing
commits while a request is under way, which is what `JobInv` says of the stages of a
job, and `SetGenesis` comes before anything is told. `Metered` bounds the calls by
the repair, the audit and the attempt reached.

The argument for `ArchiveIsFaithful`. A thread that ends writes to whatever file there is
then, so the proof needs to know which write can be in progress and what it finds.
`HeldInv`: at most one thread runs, the one `_io_lock` is held for, until the task takes
its result; which write it is follows from what `effects_lock` is held for (`Assigned`).
`TurnInv` ties `effects_lock` to the stage of the job and the kind of job to the progress
of the game. `FileInv` says what `path` and `_finalized` know of the file: a creation
finds none, the last section is added once, an opening is removed only before it is
committed. `OrderInv` and `KeptInv` are then kept by every write that succeeds, fails
or leaves a torn section. This is where waiting out a cancelled write matters: with the
lock given up early (the mutant `LetGo`), `HeldInv` is the first to fail.

The argument for `Connections`. Ownership changes in three ways (login, `_forget`, a new
game) and presence in three others, at different moments. `Linked`: a registered socket
is that of its handler's client, and one that is reported, over or being cleaned up is
registered no longer. `Owned`: an owner is registered for its client, and its handler is
past its login and remembers the current game. `Reportable`: reports are made to games
that exist. `Bounded` bounds games, pending sockets and attempts, for the types.
`OwnersPlay` and `GhostsAreNoticed` are then inductive: every step that takes a socket
from a player leaves a report that names the player's version in the current game, and a
report is used up only when it takes effect or the player owns a socket again.
`SuccessorsSpared` follows from `Linked`, `Owned` and the guard of `_forget`.

The argument for `Budgets`. `BudgetIsExact` compares what is stored with the uses ever made,
so the invariant says which use each stored time is. `LeastRecentFirst`: each key kept has a
last use, and the keys used since are exactly those behind it in `records`. A key at the
head of an overfull order therefore has been followed by `MaxKeys` others, which is when its
uses cease to be `Remembered` (`EvictedAreForgotten`), and one that stays keeps them.
`ClockAscends`: uses are in the order of time, so what `Pruned` drops from the front is
everything outside the window and nothing else. `TimesAreListed`: the deque of a key lists, in order, remembered uses
that took a place, and misses none inside the window; the length of the pruned deque is then
the number of `Counted` uses. `NeverOverfull` is kept because a use takes a place only if the
window that ends with it has one left, and no later window counts more of the past.

The argument for `TokenCounts`. `CacheIsAccounted` is inductive with the types. It rests on
what a weight is: a recursive sum, so appending a key adds its bytes (`WeightAppended`) and
taking one out subtracts them (`WeightOfRest`); and on the eviction: the longest suffix that
fits exists because the empty one fits (`KeptFits`). A key is added only when it is not there:
the callers that share a measurement find it added by the first (the mutant `AddsAlways`
breaks exactly this). Sums and scans are followed place by place, with sets of numbers in
place of induction over data.

The argument for `Chance`. `MatchedByRule` carries the trigger pass to the dice plan: without
a rule nothing is matched, under an unconditional one everybody is. The events match once
more what was matched; `FirstOfOnce` says that matching names subjects only, each once, and
`FirstOfAll` that matching all participants again gives all of them, in order.

Only model-checked: the liveness properties (`InferenceSettles`, `OutcomesAreDelivered`,
`TurnMovesOn`, `EndIsReached`, `CatchesUp`), as fairness is out of the prover's reach. Every
safety property of a passing run is proved. The four findings are what TLC refutes.

## Not modelled

- *Queues of the connection manager beyond one socket*: byte budgets, retired writers and
  `close()`. A queue at its limit is `Publication`'s full queue whichever limit it is;
  retired writers and `close()` end tasks at the end of a server and change neither
  ownership nor presence of a game that goes on.
- *The end of the server with sockets open*: `shutdown` itself is in `Session` and
  `Chronicle`; what follows closes transports.
- *Credentials*: passwords, digests and reconnect tokens decide whether a login is valid;
  a login is valid or not, freely.
- *Admission besides budgets*: message parsing, size, depth, origin and proxy rules are
  functions of one request without state.
- *Discovery of the context window and of the tokenizer*: the window is a constant of
  `Memory`. The server discovers it once, before the first count of a request, and keeps
  it; that a count may come from either method is modelled.
- *`preflight_round`*: it measures and changes nothing; `Session` has its refusal.
- *Freeform percentage rules*: `combine_private_guidance` refuses a guidance with a
  percentage, so the branches for them cannot be reached by a game.
- *Prompts, schemas, rendering, usage totals and debug logs*: text, or numbers no decision
  reads. Refused output is a repair or a failure wherever it comes from.
- *Browser dialogs, drafts, identities and export*: they show what `Replay`'s view holds.
- *Start-up, TLS, tunnel, consoles, Docker and benchmarks*: I/O around the session.
