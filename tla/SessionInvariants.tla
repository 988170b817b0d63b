------------------------- MODULE SessionInvariants -------------------------
(***************************************************************************)
(* The inductive invariant of Session: the safety invariants together with *)
(* what the handlers rely on to preserve them.  Each part is a relation    *)
(* the code keeps implicitly.                                              *)
(***************************************************************************)
EXTENDS Session

\* Stages in which a job may still commit: its work has not ended.
Unsettled == {"opening", "working", "archiving"}

\* Everybody connected has joined, and the turn queue seats exactly those who joined.
SeatsKept ==
    /\ connected \subseteq Joined
    /\ Range(turnQueue) = Joined

\* With nobody connected the turn is nobody's, so that the next return selects one.
EmptyTableWaits == phase = "ACTIVE_TURN" /\ connected = {} => active = NoOne

\* Until a round is pending nobody has acted outside of a turn phase: preparing the
\* scenario or the opening, and rolling it back, leaves the buffer empty.
PreparationIsEmpty ==
    phase \notin {"ACTIVE_TURN", "ENDED"} /\ pending = NoRound => buffer = EmptyBuffer

\* A pending round has an action in it.
PendingHasActions == pending # NoRound => pending.actions # EmptyBuffer

\* A generation belongs to one job.
GenerationsAreUnique ==
    /\ \A j \in jobs : j.epoch <= generation
    /\ \A i, j \in jobs : i.epoch = j.epoch => i = j

\* At most one job is unsettled; unless the game has ended, it is the current one and the
\* session waits for it.
UnsettledIsCurrent ==
    /\ \A i, j \in jobs : i.stage \in Unsettled /\ j.stage \in Unsettled => i = j
    /\ \A j \in jobs : j.stage \in Unsettled /\ phase # "ENDED" =>
          j.epoch = generation /\ phase = "AWAITING_LLM" /\ ~paused

\* The job the session waits for works on a round exactly if a round is pending.
KindMatchesPending ==
    /\ \A j \in jobs : j.stage = "archiving" => j.kind = "start"
    /\ \A j \in jobs : j.stage \in Unsettled /\ j.kind = "round" => pending # NoRound
    /\ \A j \in jobs : Current(j.epoch) /\ phase = "AWAITING_LLM" =>
          (j.kind = "round" <=> pending # NoRound)

\* A job that delivers has committed: the session no longer waits for it.
DeliveryFollowsCommit ==
    \A j \in jobs : Current(j.epoch) /\ j.stage \in {"delivering", "recovering"} =>
        phase # "AWAITING_LLM"

\* After the end nothing is left that could be taken up again.
EndIsQuiet ==
    phase = "ENDED" => active = NoOne /\ ~paused /\ pendingDelivery = <<>>

\* A submission of the current generation is one of the open round.
SubmissionsAreFresh ==
    \A s \in submissions :
        /\ s.epoch <= generation
        /\ s.epoch = generation => s.round = roundCounter + 1 /\ phase = "ACTIVE_TURN"

TurnInv  == SeatsKept /\ EmptyTableWaits /\ TurnIsPlayable
EntryInv == ActionsOfThisRound /\ AcknowledgedIsCounted /\ SubmissionsAreFresh
RoundInv == PendingIsComplete /\ PendingHasActions /\ PreparationIsEmpty
JobInv   ==
    /\ GenerationsAreUnique /\ UnsettledIsCurrent /\ KindMatchesPending
    /\ DeliveryFollowsCommit /\ PausedIsRetryable /\ SomeoneResolves

\* The inductive invariant.
SessionInv == TypeOK /\ TurnInv /\ EntryInv /\ RoundInv /\ JobInv /\ EndIsQuiet

-----------------------------------------------------------------------------
(* What single promises need besides SessionInv *)

\* The game is being prepared: the opening has not been committed.
NothingTold ==
    \/ phase \in {"AWAITING_HOST", "SCENARIO_INJECTION", "AWAITING_PLAYERS"}
    \/ phase = "AWAITING_LLM" /\ pending = NoRound

\* Nobody joins twice, and nobody plays at an empty table.
SeatsAreDistinct == \A i, j \in 1..Len(joinOrder) : joinOrder[i] = joinOrder[j] => i = j
TableIsLaid == phase \notin {"AWAITING_HOST", "ENDED"} => joinOrder # <<>>

\* Until the opening the queue is the order of joining.
LobbyIsInOrder == NothingTold => turnQueue = joinOrder

\* A turn phase waits for somebody, also when nobody is connected.
SomeoneToAct == phase = "ACTIVE_TURN" => \E p \in Joined : buffer[p] = Blank

EntriesOfMembers == \A p \in Players : buffer[p] # Blank => p \in Joined

\* Players act in the order they joined (for JoinOrderKept and PlaysRounds).
OrderInv ==
    /\ SeatsAreDistinct /\ TableIsLaid /\ LobbyIsInOrder
    /\ JoinOrderKept /\ SomeoneToAct /\ EntriesOfMembers

\* What a pending round froze of a player is still so, unless the version has moved on.
FrozenIsCurrent ==
    \A x \in pending.participants :
        /\ x.version <= version[x.player]
        /\ x.version = version[x.player] =>
            /\ x.departed = (x.player \in departed)
            /\ x.returned = (x.player \in returned)

\* Departures are kept until they are told (for TransitionsSurvive).
TransitionInv ==
    /\ FrozenIsCurrent
    /\ departed \subseteq Joined
    /\ NothingTold => shown = -1 /\ pendingDelivery = <<>>

\* effects_lock has one holder, which no other job and no shutdown takes for its own; the
\* end is announced when nothing is left to deliver.
Holds(j) == j.stage \in {"archiving", "delivering", "recovering"}
LockInv ==
    /\ \A i, j \in jobs : Holds(i) /\ Holds(j) => i = j
    /\ \A j \in jobs : Holds(j) => effects = "job"
    /\ effects = "finalizing" => pendingDelivery = <<>>

Directs(event) == event.type = "turn_directive"

\* Without deadlines after a commit, events wait only under effects_lock, and a directive
\* that waits names the player whose turn it is (for TurnAnnounced).
AnnouncementInv ==
    /\ effects = "free" => pendingDelivery = <<>>
    /\ phase = "ACTIVE_TURN" =>
          /\ \A i \in 1..Len(pendingDelivery) : Directs(pendingDelivery[i]) =>
                connected # {} /\ pendingDelivery[i].player = active
          /\ connected # {} =>
                \/ TurnHeard
                \/ \E i \in 1..Len(pendingDelivery) : Directs(pendingDelivery[i])
=============================================================================
