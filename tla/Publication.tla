---------------------------- MODULE Publication ----------------------------
(***************************************************************************)
(* How a committed event of the game reaches the public journal and the    *)
(* sockets: PublicJournal (logic/journal.py), pending_delivery,            *)
(* publication_lock and the published cursor (logic/engine.py), and the    *)
(* bounded queue of one player's socket (api/server.py).                   *)
(*                                                                         *)
(* journal.record never suspends, and a broadcast suspends once, after the *)
(* message is in every queue: recording and queueing are one step, which   *)
(* leaves publication_lock held (publishing) until the next.  The game     *)
(* itself is reduced to the events it commits; Session has the rest of it. *)
(***************************************************************************)
EXTENDS Integers, Sequences, FiniteSets

CONSTANTS
    QueueLimit,       \* settings.server.send_queue_messages
    Deadlines,        \* whether the deadline of a job may strike after its commit
    MaxRounds,        \* bound: rounds launched
    MaxPauses,        \* bound: rounds paused
    MaxChats          \* bound: chat messages

ASSUME PublicationAssumption ==
    /\ QueueLimit \in Nat \ {0} /\ Deadlines \in BOOLEAN
    /\ MaxRounds \in Nat /\ MaxPauses \in Nat /\ MaxChats \in Nat

VARIABLES
    phase,            \* GameEngine.state; "paused" is AWAITING_LLM with round_paused
    rounds,           \* round_counter
    pauses,           \* rounds paused so far
    effects,          \* what effects_lock is held for
    cut,              \* a job whose delivery was cut short waits to recover it
    pendingDelivery,
    notices,          \* broadcasts the current job or shutdown still has to make
    journal,          \* events recorded, in order; the id of each is its place
    publishing,       \* the broadcast that holds publication_lock
    publishedCursor,  \* _published_cursor
    attached,         \* the player's socket is in manager.active_connections
    stream            \* its queue, with what the network has not delivered yet

game   == <<phase, rounds, pauses, effects, cut, pendingDelivery, notices>>
record == <<journal, publishing, publishedCursor>>
socket == <<attached, stream>>

Phases  == {"lobby", "preparing", "turn", "thinking", "paused", "ended"}
PublicTypes == {"opening", "outcome", "round_start", "game_ended", "chat"}
OtherTypes  == {"directive", "thinking_on", "thinking_off", "paused"}

\* id 0: the payload has no event_id (yet)
Event == [type : PublicTypes \cup OtherTypes, round : Nat, id : Nat]
Entry == [type : PublicTypes, round : Nat]

\* Mutant: rounds are numbered from the one before.
SaidLate(type, n) == [type |-> type, round |-> n - 1, id |-> 0]
Said(type, n) == [type |-> type, round |-> n, id |-> 0]

Silence == [by |-> "nobody", event |-> Said("chat", 0), again |-> FALSE]

\* What auth_ok, a journal page and a refused request carry.
Snapshot == [type : {"auth_ok"}, latest : Nat, phase : Phases, opened : BOOLEAN]
Page     == [type : {"journal_page"}, after : Nat, upto : Nat, more : BOOLEAN]
Refusal  == [type : {"refused"}, after : Nat]

PublicationTypeOK ==
    /\ phase \in Phases /\ rounds \in Nat /\ pauses \in Nat
    /\ effects \in {"free", "job", "recovery", "notice", "ending"}
    /\ cut \in BOOLEAN
    /\ pendingDelivery \in Seq(Event) /\ notices \in Seq(Event)
    /\ journal \in Seq(Entry)
    /\ publishing \in [by : {"nobody", "delivery", "notice", "chat"},
                       event : Event, again : BOOLEAN]
    /\ publishedCursor \in Nat
    /\ attached \in BOOLEAN
    /\ stream \in Seq(Event \cup Snapshot \cup Page \cup Refusal)

PublicationInit ==
    /\ phase = "lobby" /\ rounds = 0 /\ pauses = 0
    /\ effects = "free" /\ cut = FALSE
    /\ pendingDelivery = <<>> /\ notices = <<>>
    /\ journal = <<>> /\ publishing = Silence /\ publishedCursor = 0
    /\ attached = FALSE /\ stream = <<>>

-----------------------------------------------------------------------------
(* Recording and sending *)

\* A full queue fails the socket, and what was queued is lost with it.
Enqueue(m) ==
    \/ ~attached /\ UNCHANGED socket
    \/ /\ attached /\ Len(stream) < QueueLimit
       /\ stream' = Append(stream, m) /\ UNCHANGED attached
    \/ /\ attached /\ Len(stream) >= QueueLimit
       /\ attached' = FALSE /\ stream' = <<>>

IsNew(e) == e.type \in PublicTypes /\ e.id = 0

\* record() gives the event its id, in the event itself as well.
Recorded(e) == IF IsNew(e) THEN [e EXCEPT !.id = Len(journal) + 1] ELSE e

\* Mutant: record() stamps only the copy it returns.
StampCopy(e) == e
Stamped(e) == Recorded(e)

\* The id of the event has been passed: _publish_recorded returns at once.
Passed(e) == e.id # 0 /\ e.id <= publishedCursor

\* The first half of _broadcast, up to the suspension of the sender.
Publish(by, e) ==
    /\ publishing = Silence
    /\ ~Passed(e)
    /\ journal' = IF IsNew(e) THEN Append(journal, [type |-> e.type, round |-> e.round])
                  ELSE journal
    /\ publishing' = [by |-> by, event |-> Recorded(e), again |-> FALSE]
    /\ Enqueue(Recorded(e))
    /\ UNCHANGED publishedCursor

\* The second half: the cursor moves and the lock is released.
Published(by) ==
    /\ publishing.by = by
    /\ publishedCursor' =
          IF publishing.event.id # 0 THEN publishing.event.id ELSE publishedCursor
    /\ publishing' = Silence
    /\ UNCHANGED <<journal, socket>>

-----------------------------------------------------------------------------
(* _deliver_pending, its interruption and its recovery *)

Delivering == effects \in {"job", "recovery", "ending"} /\ pendingDelivery # <<>>

\* popleft; the lock goes with the last event, except for a shutdown, which has more to do.
PopDelivered ==
    /\ pendingDelivery' = Tail(pendingDelivery)
    /\ effects' = IF Tail(pendingDelivery) = <<>> /\ effects # "ending"
                  THEN "free" ELSE effects
    /\ UNCHANGED <<phase, rounds, pauses, cut, notices>>

Deliver ==
    /\ Delivering
    /\ Publish("delivery", Head(pendingDelivery))
    /\ pendingDelivery' = [pendingDelivery EXCEPT ![1] = Stamped(@)]
    /\ UNCHANGED <<phase, rounds, pauses, effects, cut, notices>>

Delivered ==
    /\ Published("delivery") /\ ~publishing.again
    /\ PopDelivered

SkipPassed ==
    /\ Delivering /\ publishing = Silence
    /\ Passed(Head(pendingDelivery))
    /\ PopDelivered
    /\ UNCHANGED <<record, socket>>

\* The job leaves its delivery to the except branch, which recovers it only while
\* the job is current, that is, unless a round has been launched since.
LeaveDelivery ==
    /\ effects' = "free" /\ cut' = (phase = "turn")
    /\ UNCHANGED <<phase, rounds, pauses, pendingDelivery, notices>>

\* The deadline strikes between the commit and the delivery, or while the job waits
\* for publication_lock.
DeadlineBetween ==
    /\ Deadlines /\ effects = "job" /\ publishing.by # "delivery"
    /\ LeaveDelivery
    /\ UNCHANGED <<record, socket>>

\* It strikes while a broadcast is suspended: an event without an id is given up; a
\* recorded one is published again, because the cursor has not moved yet.
DeadlineInside ==
    /\ Deadlines /\ effects = "job"
    /\ publishing.by = "delivery" /\ ~publishing.again
    /\ \/ /\ publishing.event.id = 0
          /\ publishing' = Silence
          /\ LeaveDelivery
          /\ UNCHANGED <<journal, publishedCursor, socket>>
       \/ /\ publishing.event.id # 0
          /\ publishing' = [publishing EXCEPT !.again = TRUE]
          /\ Enqueue(publishing.event)
          /\ UNCHANGED <<journal, publishedCursor, game>>

\* The second publication ends, and the cancellation goes on.
DeliveryCut ==
    /\ Published("delivery") /\ publishing.again
    /\ LeaveDelivery

\* When nothing is left the code broadcasts the directive of now, as in Session.
Recover ==
    /\ cut /\ effects = "free"
    /\ cut' = FALSE
    /\ effects' = IF pendingDelivery = <<>> THEN "free" ELSE "recovery"
    /\ UNCHANGED <<phase, rounds, pauses, pendingDelivery, notices, record, socket>>

-----------------------------------------------------------------------------
(* Broadcasts that nobody repeats, each under effects_lock *)

\* The lock a notice needs: its own, or the one its job or shutdown already holds.
MaySay(e) ==
    CASE e.type = "paused"       -> effects = "notice"
      [] e.type = "game_ended"   -> effects = "ending"
      [] e.type = "thinking_off" -> effects = "free" /\ ~cut
      [] OTHER                   -> effects = "free"

SendNotice ==
    /\ notices # <<>> /\ MaySay(Head(notices))
    /\ Publish("notice", Head(notices))
    /\ notices' = Tail(notices)
    /\ effects' = IF effects = "free" THEN "notice" ELSE effects
    /\ UNCHANGED <<phase, rounds, pauses, cut, pendingDelivery>>

NoticeSent ==
    /\ Published("notice")
    /\ effects' = "free"
    /\ UNCHANGED <<phase, rounds, pauses, cut, pendingDelivery, notices>>

\* Chat waits for publication_lock only.
Chats == Cardinality({i \in DOMAIN journal : journal[i].type = "chat"})

SendChat ==
    /\ Chats < MaxChats
    /\ Publish("chat", Said("chat", 0))
    /\ UNCHANGED game

ChatSent == Published("chat") /\ UNCHANGED game

-----------------------------------------------------------------------------
(* The game, as the events it commits *)

\* A launch supersedes the job before it, which says no more.
Launch(stage) ==
    /\ phase' = stage
    /\ notices' = <<Said("thinking_on", 0)>>
    /\ cut' = FALSE

StartGame ==
    /\ phase = "lobby"
    /\ Launch("preparing")
    /\ UNCHANGED <<rounds, pauses, effects, pendingDelivery, record, socket>>

LaunchRound ==
    /\ phase = "turn" /\ rounds < MaxRounds
    /\ Launch("thinking")
    /\ UNCHANGED <<rounds, pauses, effects, pendingDelivery, record, socket>>

RetryRound ==
    /\ phase = "paused" /\ notices = <<>> /\ effects = "free"
    /\ Launch("thinking")
    /\ UNCHANGED <<rounds, pauses, effects, pendingDelivery, record, socket>>

\* A job commits what it worked for and starts its delivery in the same lock.
Commit(first, n) ==
    /\ notices = <<>> /\ effects = "free"
    /\ phase' = "turn" /\ rounds' = n
    /\ effects' = "job"
    /\ pendingDelivery' = pendingDelivery \o
          <<Said(first, n), Said("round_start", n + 1), Said("directive", 0)>>
    /\ notices' = <<Said("thinking_off", 0)>>
    /\ UNCHANGED <<pauses, cut, record, socket>>

OpenGame    == phase = "preparing" /\ Commit("opening", 0)
CommitRound == phase = "thinking" /\ Commit("outcome", rounds + 1)

PauseRound ==
    /\ phase = "thinking" /\ notices = <<>> /\ effects = "free"
    /\ pauses < MaxPauses /\ pauses' = pauses + 1
    /\ phase' = "paused" /\ effects' = "notice"
    /\ notices' = <<Said("paused", 0), Said("thinking_off", 0)>>
    /\ UNCHANGED <<rounds, cut, pendingDelivery, record, socket>>

\* shutdown: what is committed is delivered first, then the end.
BeginEnd ==
    /\ phase \in {"preparing", "turn", "thinking", "paused"} /\ effects = "free"
    /\ effects' = "ending"
    /\ UNCHANGED <<phase, rounds, pauses, cut, pendingDelivery, notices, record, socket>>

\* Mutant: the end does not wait for the delivery.
EndAtOnce ==
    /\ effects = "ending" /\ phase # "ended"
    /\ phase' = "ended" /\ cut' = FALSE
    /\ notices' = <<Said("game_ended", 0)>>
    /\ UNCHANGED <<rounds, pauses, effects, pendingDelivery, record, socket>>

FinishEnd ==
    /\ effects = "ending" /\ phase # "ended" /\ pendingDelivery = <<>>
    /\ phase' = "ended" /\ cut' = FALSE
    /\ notices' = <<Said("game_ended", 0)>>
    /\ UNCHANGED <<rounds, pauses, effects, pendingDelivery, record, socket>>

-----------------------------------------------------------------------------
Deliveries == \/ Deliver \/ Delivered \/ SkipPassed
              \/ DeadlineBetween \/ DeadlineInside \/ DeliveryCut \/ Recover
Notices    == SendNotice \/ NoticeSent \/ SendChat \/ ChatSent
Game       == \/ StartGame \/ OpenGame \/ LaunchRound \/ CommitRound
              \/ PauseRound \/ RetryRound \/ BeginEnd \/ FinishEnd

PublicationNext == Deliveries \/ Notices \/ Game
=============================================================================
