-------------------------- MODULE SessionTheorems --------------------------
(***************************************************************************)
(* What every session promises, for every party, every bound and every     *)
(* schedule: the properties the runs check on small instances.  Some       *)
(* follow from the inductive invariant of SessionProofs; those about the   *)
(* order of players, the refinement of RoundTable, departures and          *)
(* announcements need invariants beside it.                                *)
(***************************************************************************)
EXTENDS SessionProofs

\* The turn belongs to a connected player who can act, whatever disconnects, returns,
\* rejections and commits happened (_next_turn_locked and its callers).
THEOREM TurnStaysPlayable == Spec => []TurnIsPlayable
<1>1. SessionInv => TurnIsPlayable
  BY DEF SessionInv, TurnInv
<1> QED
  BY <1>1, SessionCorrect, PTL

\* No action is counted in a round it was not meant for (_submit_action).
THEOREM ActionsKeepTheirRound == Spec => []ActionsOfThisRound
<1>1. SessionInv => ActionsOfThisRound
  BY DEF SessionInv, EntryInv
<1> QED
  BY <1>1, SessionCorrect, PTL

\* Every action acknowledged in the open round is in the buffer (accepted_actions).
THEOREM AcknowledgementsAreHonoured == Spec => []AcknowledgedIsCounted
<1>1. SessionInv => AcknowledgedIsCounted
  BY DEF SessionInv, EntryInv
<1> QED
  BY <1>1, SessionCorrect, PTL

\* A pending round is complete and is the buffer's round (_launch_round_locked).
THEOREM PendingStaysComplete == Spec => []PendingIsComplete
<1>1. SessionInv => PendingIsComplete
  BY DEF SessionInv, RoundInv
<1> QED
  BY <1>1, SessionCorrect, PTL

\* A paused round can be retried: nothing else may still settle it (_run_job).
THEOREM PausesCanBeRetried == Spec => []PausedIsRetryable
<1>1. SessionInv => PausedIsRetryable
  BY DEF SessionInv, JobInv
<1> QED
  BY <1>1, SessionCorrect, PTL

\* The session never waits for inference without a current job that has to settle it.
THEOREM WaitingHasAJob == Spec => []SomeoneResolves
<1>1. SessionInv => SomeoneResolves
  BY DEF SessionInv, JobInv
<1> QED
  BY <1>1, SessionCorrect, PTL

\* The resolver never works for two jobs at once (_launch_job_locked, _retry_round).
THEOREM OneJobAtATime == Spec => []OneJobWorks
<1>1. SessionInv => OneJobWorks
  BY DEF SessionInv, JobInv, UnsettledIsCurrent, OneJobWorks, Unsettled
<1> QED
  BY <1>1, SessionCorrect, PTL

-----------------------------------------------------------------------------
(* Presence *)

LEMMA PresenceUnchanged ==
    ASSUME NoGhosts, UNCHANGED <<connected, live, version, leavers>>
    PROVE  NoGhosts'
BY DEF NoGhosts, StillLost

LEMMA PresenceNext ==
    ASSUME TypeOK, NoGhosts, [Next]_vars
    PROVE  NoGhosts'
<1> USE DEF party, requests
<1>1. ASSUME NEW p \in Players, Join(p)
      PROVE  NoGhosts'
  BY <1>1 DEF Join, NoGhosts, StillLost
<1>2. ASSUME NEW p \in Players, Reconnect(p)
      PROVE  NoGhosts'
  <2>1. /\ connected' = connected \cup {p} /\ live' = live \cup {p} /\ leavers' = leavers
        /\ version' = IF p \in connected THEN version ELSE [version EXCEPT ![p] = @ + 1]
    BY <1>2 DEF Reconnect
  <2>2. \A q \in Players : q # p => version'[q] = version[q]
    BY <2>1 DEF TypeOK
  <2>3. connected \subseteq Players
    BY DEF TypeOK
  <2> QED
    BY <2>1, <2>2, <2>3 DEF NoGhosts, StillLost
<1>3. ASSUME NEW p \in Players, NEW how \in Losses, LoseSocket(p, how)
      PROVE  NoGhosts'
  <2> DEFINE d == [client |-> p,
                   version |-> IF how = "closed" THEN version[p] ELSE Unchecked]
  <2>1. /\ p \in live /\ live' = live \ {p} /\ leavers' = leavers \cup {d}
        /\ UNCHANGED <<connected, version>>
    BY <1>3 DEF LoseSocket
  <2>2. d.client = p /\ d.version \in {Unchecked, version[p]}
    OBVIOUS
  <2> HIDE DEF d
  <2> QED
    BY <2>1, <2>2 DEF NoGhosts, StillLost
<1>4. ASSUME NEW d \in leavers, Disconnect(d)
      PROVE  NoGhosts'
  <2>1. /\ StillLost(d) /\ leavers' = leavers \ {d} /\ live' = live
        /\ connected' = connected \ {d.client}
        /\ version' = [version EXCEPT ![d.client] = @ + 1]
    BY <1>4 DEF Disconnect
  <2>2. \A q \in Players : q # d.client => version'[q] = version[q]
    BY <2>1 DEF TypeOK
  <2>3. connected \subseteq Players
    BY DEF TypeOK
  <2> QED
    BY <2>1, <2>2, <2>3 DEF NoGhosts, StillLost
<1>5. ASSUME NEW d \in leavers, IgnoreDisconnect(d)
      PROVE  NoGhosts'
  BY <1>5 DEF IgnoreDisconnect, NoGhosts, StillLost
<1>6. ASSUME NEW p \in Players,
             \/ \E n \in {roundCounter, roundCounter + 1} \ {0} : Submit(p, n)
             \/ InitializeScenario(p) \/ StartGame(p) \/ RequestRetry(p) \/ RequestEnd(p)
             \/ RestoreTurn(p)
      PROVE  NoGhosts'
  BY <1>6, PresenceUnchanged DEF Submit, InitializeScenario, StartGame, RequestRetry,
                                 RequestEnd, RestoreTurn
<1>7. ASSUME NEW s \in submissions, AcceptAction(s) \/ RejectAction(s) \/ AbandonAction(s)
      PROVE  NoGhosts'
  BY <1>7, PresenceUnchanged DEF AcceptAction, RejectAction, AbandonAction
<1>8. ASSUME NEW r \in retries, RelaunchRound(r) \/ RefuseRetry(r)
      PROVE  NoGhosts'
  BY <1>8, PresenceUnchanged DEF RelaunchRound, RefuseRetry
<1>9. ASSUME NEW j \in jobs, JobStep(j)
      PROVE  NoGhosts'
  <2>1. UNCHANGED <<connected, live, version, leavers>>
    BY <1>9 DEF JobStep, OpenJob, RetryAttempt, FailWork, CancelJob, PlanDice, DropResult,
                OpenLobby, BeginArchive, CommitStart, FailArchive, CommitRound, Deliver,
                FinishDelivery, MissDeadline, Rollback, Recover, AbandonFailure, EndJob
  <2> QED
    BY <2>1, PresenceUnchanged
<1>10. ASSUME ShutdownStep
       PROVE  NoGhosts'
  BY <1>10, PresenceUnchanged DEF ShutdownStep, StopServer, BeginShutdown,
                                  DeliverBeforeEnd, EndSession, AnnounceEnd
<1>11. ASSUME UNCHANGED vars
       PROVE  NoGhosts'
  BY <1>11, PresenceUnchanged DEF vars
<1>12. ASSUME NEW g \in greetings, AnnounceReturn(g)
       PROVE  NoGhosts'
  BY <1>12, PresenceUnchanged DEF AnnounceReturn
<1> QED
  BY <1>1, <1>2, <1>3, <1>4, <1>5, <1>6, <1>7, <1>8, <1>9, <1>10, <1>11, <1>12
     DEF Next, ClientStep, RequestStep

\* A player without a socket is not left marked as connected, whichever of the endpoint,
\* a replacing socket and a failed send comes first (handle_disconnect, promote).
THEOREM NoGhostStays == Spec => []NoGhosts
<1>1. Init => NoGhosts
  BY DEF Init, NoGhosts
<1>2. TypeOK /\ NoGhosts /\ [Next]_vars => NoGhosts'
  BY PresenceNext
<1> QED
  BY <1>1, <1>2, TypeCorrect, PTL DEF Spec

-----------------------------------------------------------------------------
(* What a step may never do *)

\* A commit, of the opening or of a round.
CommitStep == \E j \in jobs : CommitStart(j) \/ CommitRound(j)

\* Entries stay, and a pending round changes only before its dice are rolled.
RoundKept ==
    /\ \A p \in Players : buffer[p] # Blank => buffer'[p] = buffer[p]
    /\ pending' = pending \/ pending.dice = NoDice

LEMMA RoundUnchanged ==
    ASSUME UNCHANGED <<buffer, pending>>
    PROVE  RoundKept
BY DEF RoundKept

LEMMA ResumeKeepsRound ==
    ASSUME SessionInv, NEW queue \in Seq(Players), NEW buf \in [Players -> Entry],
           phase = "ACTIVE_TURN", Range(queue) = Joined, joinOrder' = joinOrder,
           connected' \in SUBSET Joined,
           \A p \in Players : buffer[p] # Blank => buf[p] = buffer[p],
           ResumeTurns(queue, buf)
    PROVE  RoundKept
<1>1. \A p \in Players : buf[p] # Blank => buffer'[p] = buf[p]
  BY ResumeTurnsEffect DEF SessionInv, TypeOK
<1>2. pending = NoRound
  BY DEF SessionInv, RoundInv, PendingIsComplete
<1> QED
  BY <1>1, <1>2 DEF RoundKept, NoRound, NoDice

LEMMA AdvanceKeepsRound ==
    ASSUME SessionInv, pending' = pending,
           NEW next, next = NextTurn(turnQueue, connected, buffer), buffer' = next.buffer
    PROVE  RoundKept
<1>1. OnlyTurns(turnQueue, connected, buffer, next)
  BY NextTurnType DEF SessionInv, TypeOK
<1> QED
  BY <1>1 DEF OnlyTurns, RoundKept

LEMMA ReconnectKeepsRound ==
    ASSUME SessionInv, NEW p \in Players, Reconnect(p)
    PROVE  RoundKept
<1> USE DEF SessionInv
<1>1. p \in Joined /\ connected' = connected \cup {p} /\ joinOrder' = joinOrder
  BY DEF Reconnect
<1>2. CASE TurnStalled
  <2>1. phase = "ACTIVE_TURN" /\ ResumeTurns(turnQueue, buffer)
    BY <1>2 DEF Reconnect, TurnStalled
  <2>2. /\ turnQueue \in Seq(Players) /\ buffer \in [Players -> Entry]
        /\ Range(turnQueue) = Joined /\ connected' \in SUBSET Joined
    BY <1>1 DEF TypeOK, TurnInv, SeatsKept
  <2> QED
    BY <1>1, <2>1, <2>2, ResumeKeepsRound
<1>3. CASE ~TurnStalled
  BY <1>3, RoundUnchanged DEF Reconnect, turn
<1> QED
  BY <1>2, <1>3

LEMMA DisconnectKeepsRound ==
    ASSUME SessionInv, NEW d \in leavers, Disconnect(d)
    PROVE  RoundKept
<1> DEFINE p == d.client
           queue == Rotate(turnQueue, 1)
           buf == [buffer EXCEPT ![p] = Idle]
<1> USE DEF SessionInv
<1>1. connected' = connected \ {p} /\ joinOrder' = joinOrder
  BY DEF Disconnect
<1>2. connected' \in SUBSET Joined /\ Range(turnQueue) = Joined
  BY <1>1 DEF TurnInv, SeatsKept
<1>3. turnQueue \in Seq(Players) /\ buffer \in [Players -> Entry] /\ p \in Players
  BY DEF TypeOK, Leaver
<1>4. CASE phase = "ACTIVE_TURN" /\ IdlesLeaver(p)
  <2>1. ResumeTurns(queue, buf)
    BY <1>4 DEF Disconnect
  <2>2. queue \in Seq(Players)
    BY <1>3, RotateOnce
  <2>3. Range(queue) = Joined
    BY <1>2, <1>3, RotateOnce
  <2>4. buf \in [Players -> Entry]
    BY <1>3 DEF Entry, Idle
  <2>5. buffer[p] = Blank
    BY <1>1, <1>4 DEF IdlesLeaver, TurnInv, TurnIsPlayable
  <2>6. \A q \in Players : buffer[q] # Blank => buf[q] = buffer[q]
    BY <1>3, <2>5
  <2> HIDE DEF queue, buf
  <2> QED
    BY <1>1, <1>2, <1>4, <2>1, <2>2, <2>3, <2>4, <2>6, ResumeKeepsRound
<1>5. CASE phase = "ACTIVE_TURN" /\ ~IdlesLeaver(p)
  <2>1. ResumeTurns(turnQueue, buffer)
    BY <1>5 DEF Disconnect
  <2> QED
    BY <1>1, <1>2, <1>3, <1>5, <2>1, ResumeKeepsRound
<1>6. CASE phase # "ACTIVE_TURN"
  BY <1>6, RoundUnchanged DEF Disconnect, turn
<1> QED
  BY <1>4, <1>5, <1>6

LEMMA AcceptKeepsRound ==
    ASSUME SessionInv, NEW s \in submissions, AcceptAction(s)
    PROVE  RoundKept
<1> DEFINE p == s.client
           queue == Rotate(turnQueue, 1)
           buf == [buffer EXCEPT ![p] = s.round]
<1> USE DEF SessionInv
<1>1. /\ phase = "ACTIVE_TURN" /\ p \in connected /\ p = active
      /\ UNCHANGED <<joinOrder, connected>> /\ ResumeTurns(queue, buf)
  BY DEF AcceptAction, ActionAllowed, party
<1>2. connected' \in SUBSET Joined /\ Range(turnQueue) = Joined
  BY <1>1 DEF TurnInv, SeatsKept
<1>3. /\ turnQueue \in Seq(Players) /\ buffer \in [Players -> Entry] /\ p \in Players
      /\ s.round \in Nat \ {0}
  BY DEF TypeOK, Submission
<1>4. queue \in Seq(Players)
  BY <1>3, RotateOnce
<1>5. Range(queue) = Joined
  BY <1>2, <1>3, RotateOnce
<1>6. buf \in [Players -> Entry]
  <2>1. s.round \in Entry
    BY <1>3 DEF Entry
  <2> QED
    BY <1>3, <2>1
<1>7. buffer[p] = Blank
  BY <1>1 DEF TurnInv, TurnIsPlayable
<1>8. \A q \in Players : buffer[q] # Blank => buf[q] = buffer[q]
  BY <1>3, <1>7
<1> HIDE DEF queue, buf
<1> QED
  BY <1>1, <1>2, <1>4, <1>5, <1>6, <1>8, ResumeKeepsRound

LEMMA JobKeepsRound ==
    ASSUME SessionInv, NEW j \in jobs, JobStep(j)
    PROVE  RoundKept \/ CommitStep
<1> USE DEF turn, round
<1>1. ASSUME \/ OpenJob(j) \/ RetryAttempt(j) \/ FailWork(j) \/ CancelJob(j)
             \/ DropResult(j) \/ OpenLobby(j) \/ BeginArchive(j) \/ FailArchive(j)
             \/ Deliver(j) \/ FinishDelivery(j) \/ MissDeadline(j) \/ Rollback(j)
             \/ AbandonFailure(j) \/ EndJob(j)
      PROVE  RoundKept
  BY <1>1, RoundUnchanged
     DEF OpenJob, RetryAttempt, FailWork, CancelJob, DropResult, OpenLobby, BeginArchive,
         FailArchive, Deliver, FinishDelivery, MissDeadline, Rollback, AbandonFailure, EndJob
<1>2. ASSUME NEW outcome \in DiceOutcomes, PlanDice(j, outcome)
      PROVE  RoundKept
  BY <1>2 DEF PlanDice, NeedsDice, RoundKept
<1>3. ASSUME Recover(j)
      PROVE  RoundKept
  <2>1. CASE phase = "ACTIVE_TURN"
    BY <1>3, <2>1, AdvanceKeepsRound DEF Recover
  <2>2. CASE phase # "ACTIVE_TURN"
    BY <1>3, <2>2, RoundUnchanged DEF Recover
  <2> QED
    BY <2>1, <2>2
<1>4. CASE CommitStart(j) \/ CommitRound(j)
  BY <1>4 DEF CommitStep
<1> QED
  BY <1>1, <1>2, <1>3, <1>4 DEF JobStep

\* Every step keeps the round, except the commits.
LEMMA StepKeepsRound ==
    ASSUME SessionInv, [Next]_vars
    PROVE  RoundKept \/ CommitStep
<1> USE DEF turn, round
<1>1. ASSUME NEW p \in Players, ClientStep(p)
      PROVE  RoundKept
  <2>1. CASE Reconnect(p)
    BY <2>1, ReconnectKeepsRound
  <2>2. CASE ~Reconnect(p)
    BY <1>1, <2>2, RoundUnchanged DEF ClientStep, Join, LoseSocket, Submit,
          InitializeScenario, StartGame, RequestRetry, RequestEnd
  <2> QED
    BY <2>1, <2>2
<1>2. ASSUME NEW d \in leavers, Disconnect(d)
      PROVE  RoundKept
  BY <1>2, DisconnectKeepsRound
<1>3. ASSUME NEW s \in submissions, AcceptAction(s)
      PROVE  RoundKept
  BY <1>3, AcceptKeepsRound
<1>4. ASSUME NEW p \in Players, RestoreTurn(p)
      PROVE  RoundKept
  <2>1. CASE active = p /\ phase = "ACTIVE_TURN"
    BY <1>4, <2>1, AdvanceKeepsRound DEF RestoreTurn
  <2>2. CASE ~(active = p /\ phase = "ACTIVE_TURN")
    BY <1>4, <2>2, RoundUnchanged DEF RestoreTurn
  <2> QED
    BY <2>1, <2>2
<1>5. ASSUME \/ \E g \in greetings : AnnounceReturn(g)
             \/ \E d \in leavers : IgnoreDisconnect(d)
             \/ \E s \in submissions : RejectAction(s) \/ AbandonAction(s)
             \/ \E r \in retries : RelaunchRound(r) \/ RefuseRetry(r)
      PROVE  RoundKept
  BY <1>5, RoundUnchanged DEF AnnounceReturn, IgnoreDisconnect, RejectAction, AbandonAction,
                              RelaunchRound, RefuseRetry
<1>6. ASSUME ShutdownStep
      PROVE  RoundKept
  BY <1>6, RoundUnchanged DEF ShutdownStep, StopServer, BeginShutdown, DeliverBeforeEnd,
                              EndSession, AnnounceEnd
<1>7. ASSUME UNCHANGED vars
      PROVE  RoundKept
  BY <1>7, RoundUnchanged DEF vars
<1> QED
  BY <1>1, <1>2, <1>3, <1>4, <1>5, <1>6, <1>7, JobKeepsRound DEF Next, RequestStep

\* What a commit does to the round: the opening has none, a round's commit closes it.
LEMMA CommitEffect ==
    ASSUME SessionInv, CommitStep
    PROVE  \/ buffer = EmptyBuffer /\ pending = NoRound /\ pending' = pending
           \/ /\ pending # NoRound /\ pending' = NoRound
              /\ roundCounter' = roundCounter + 1
<1>1. ASSUME NEW j \in jobs, CommitStart(j)
      PROVE  buffer = EmptyBuffer /\ pending = NoRound /\ pending' = pending
  <2>1. j.stage = "archiving" /\ j.stage \in Unsettled /\ Current(j.epoch)
    BY <1>1 DEF CommitStart, Unsettled
  <2>2. phase = "AWAITING_LLM" /\ j.kind = "start"
    BY <2>1, CommitterIsCurrent DEF SessionInv, JobInv, KindMatchesPending
  <2>3. pending = NoRound
    BY <2>1, <2>2 DEF SessionInv, JobInv, KindMatchesPending
  <2>4. buffer = EmptyBuffer
    BY <2>2, <2>3 DEF SessionInv, RoundInv, PreparationIsEmpty
  <2> QED
    BY <1>1, <2>3, <2>4 DEF CommitStart, round
<1>2. ASSUME NEW j \in jobs, CommitRound(j)
      PROVE  pending # NoRound /\ pending' = NoRound /\ roundCounter' = roundCounter + 1
  <2>1. j.stage \in Unsettled /\ j.kind = "round"
    BY <1>2 DEF CommitRound, Committing, Unsettled
  <2> QED
    BY <1>2, <2>1 DEF CommitRound, SessionInv, JobInv, KindMatchesPending
<1> QED
  BY <1>1, <1>2 DEF CommitStep

LEMMA EntriesSurvive ==
    ASSUME SessionInv, [Next]_vars, NEW p \in Players,
           buffer[p] > 0, buffer'[p] # buffer[p]
    PROVE  roundCounter' = buffer[p] /\ pending.actions[p] = buffer[p]
<1>1. buffer[p] # Blank /\ buffer[p] # Idle
  BY DEF Blank, Idle
<1>2. CommitStep
  BY <1>1, StepKeepsRound DEF RoundKept
<1>3. buffer # EmptyBuffer
  BY <1>1, EmptyBufferIsBlank
<1>4. pending # NoRound /\ roundCounter' = roundCounter + 1
  BY <1>2, <1>3, CommitEffect
<1>5. pending.actions = buffer
  BY <1>4 DEF SessionInv, RoundInv, PendingIsComplete
<1>6. buffer[p] = roundCounter + 1
  BY <1>1 DEF SessionInv, EntryInv, ActionsOfThisRound
<1> QED
  BY <1>4, <1>5, <1>6

\* An accepted action leaves the buffer only with the commit of its own round, whatever
\* disconnects, failures and retries come between (_resolve_round_work).
THEOREM AcceptedActionsSurvive == Spec => ActionsSurvive
<1>1. SessionInv /\ [Next]_vars =>
        [\A p \in Players :
            buffer[p] > 0 /\ buffer'[p] # buffer[p] =>
                roundCounter' = buffer[p] /\ pending.actions[p] = buffer[p]]_vars
  BY EntriesSurvive
<1> QED
  BY <1>1, SessionCorrect, PTL DEF Spec, ActionsSurvive

LEMMA DiceStay ==
    ASSUME SessionInv, [Next]_vars, pending.dice # NoDice, pending' # pending
    PROVE  pending' = NoRound /\ roundCounter' = roundCounter + 1
<1>1. CommitStep
  BY StepKeepsRound DEF RoundKept
<1> QED
  BY <1>1, CommitEffect

\* Rolled dice stand until the round commits: no retry rolls again (PendingRound.dice).
THEOREM DiceStand == Spec => DiceAreFinal
<1>1. SessionInv /\ [Next]_vars =>
        [pending.dice # NoDice /\ pending' # pending =>
            pending' = NoRound /\ roundCounter' = roundCounter + 1]_vars
  BY DiceStay
<1> QED
  BY <1>1, SessionCorrect, PTL DEF Spec, DiceAreFinal

\* What the players of an ended game can still see or have decided.
Decided == <<buffer, active, paused, roundCounter, pendingDelivery, shown>>

LEMMA EndStays ==
    ASSUME SessionInv, [Next]_vars, phase = "ENDED"
    PROVE  phase' = "ENDED" /\ UNCHANGED Decided
<1> USE DEF party, turn, round, output, Decided
<1>1. active = NoOne /\ pendingDelivery = <<>>
  BY DEF SessionInv, EndIsQuiet
<1>2. ~paused
  BY DEF SessionInv, EndIsQuiet
<1>3. ASSUME NEW p \in Players, ClientStep(p)
      PROVE  phase' = "ENDED" /\ UNCHANGED Decided
  <2>1. CASE Reconnect(p)
    BY <2>1 DEF Reconnect, TurnStalled
  <2>2. CASE ~Reconnect(p)
    BY <1>2, <1>3, <2>2 DEF ClientStep, Join, LoseSocket, Submit, InitializeScenario,
                            StartGame, RequestRetry, RequestEnd
  <2> QED
    BY <2>1, <2>2
<1>4. ASSUME RequestStep
      PROVE  phase' = "ENDED" /\ UNCHANGED Decided
  BY <1>2, <1>4 DEF RequestStep, AnnounceReturn, Disconnect, IgnoreDisconnect, AcceptAction, ActionAllowed,
                    RejectAction, AbandonAction, RestoreTurn, RelaunchRound, Relaunchable,
                    RefuseRetry
<1>5. ASSUME NEW j \in jobs, JobStep(j)
      PROVE  phase' = "ENDED" /\ UNCHANGED Decided
  BY <1>1, <1>5 DEF JobStep, OpenJob, RetryAttempt, FailWork, CancelJob, PlanDice,
                    DropResult, OpenLobby, BeginArchive, CommitStart, FailArchive,
                    CommitRound, Deliver, DeliverHead, FinishDelivery, MissDeadline,
                    Rollback, Recover, AbandonFailure, EndJob, Current
<1>6. ASSUME ShutdownStep
      PROVE  phase' = "ENDED" /\ UNCHANGED Decided
  <2>1. CASE EndSession
    <3>1. paused' = FALSE
      BY <2>1 DEF EndSession
    <3>2. paused = FALSE
      BY <1>2 DEF SessionInv, TypeOK
    <3>3. paused' = paused
      BY <3>1, <3>2
    <3>4. phase' = "ENDED" /\ UNCHANGED <<buffer, active, roundCounter, pendingDelivery, shown>>
      BY <1>1, <2>1 DEF EndSession
    <3> QED
      BY <3>3, <3>4
  <2>2. CASE ~EndSession
    BY <1>1, <1>6, <2>2 DEF ShutdownStep, StopServer, BeginShutdown, DeliverBeforeEnd,
                            DeliverHead, AnnounceEnd
  <2> QED
    BY <2>1, <2>2
<1>7. CASE UNCHANGED vars
  BY <1>7 DEF vars
<1> QED
  BY <1>3, <1>4, <1>5, <1>6, <1>7 DEF Next

\* An ended game stays ended, and no late task changes what it decided (shutdown, the
\* generation checks).
THEOREM TheEndIsFinal == Spec => EndedIsFinal
<1>1. SessionInv /\ [Next]_vars =>
        [phase = "ENDED" =>
            /\ phase' = "ENDED"
            /\ UNCHANGED <<buffer, active, paused, roundCounter, pendingDelivery, shown>>]_vars
  BY EndStays DEF Decided
<1> QED
  BY <1>1, SessionCorrect, PTL DEF Spec, EndedIsFinal

-----------------------------------------------------------------------------
(* Outcomes reach the players *)

\* An event that tells the players of a round.
Tells(event) == event.type = "state_update"

\* Outcomes wait in the order of their rounds, and none before one that was shown.
InOrder(queue, last, told) ==
    /\ last <= told
    /\ \A i \in 1..Len(queue) :
          Tells(queue[i]) => last <= queue[i].round /\ queue[i].round <= told
    /\ \A i, j \in 1..Len(queue) :
          i < j /\ Tells(queue[i]) /\ Tells(queue[j]) => queue[i].round <= queue[j].round

NoneMissing(queue, last, told) ==
    \A n \in 1..told : n <= last \/ \E i \in 1..Len(queue) : queue[i] = Outcome(n)

DeliveryInv ==
    /\ InOrder(pendingDelivery, shown, roundCounter)
    /\ NoneMissing(pendingDelivery, shown, roundCounter)

\* The end is announced once, by the shutdown that ended the game.
EndingInv ==
    /\ phase # "ENDED" => endings = 0 /\ effects # "finalizing"
    /\ effects = "finalizing" => endings = 0
    /\ endings \in {0, 1}

\* No round has been committed while the game is prepared.
OutcomeInv == DeliveryInv /\ EndingInv /\ (NothingTold => roundCounter = 0)

\* Events that tell nothing are queued behind the outcomes.
LEMMA QuietQueued ==
    ASSUME NEW q \in Seq(Event), NEW t \in Seq(Event), NEW last \in Int, NEW told \in Nat,
           InOrder(q, last, told), NoneMissing(q, last, told),
           \A i \in 1..Len(t) : ~Tells(t[i])
    PROVE  InOrder(q \o t, last, told) /\ NoneMissing(q \o t, last, told)
<1>1. PICK n \in Nat, m \in Nat : n = Len(q) /\ m = Len(t)
  OBVIOUS
<1>2. /\ Len(q \o t) = n + m
      /\ \A i \in 1..n : (q \o t)[i] = q[i]
      /\ \A i \in (n + 1)..(n + m) : (q \o t)[i] = t[i - n] /\ i - n \in 1..m
  BY <1>1
<1>3. \A i \in 1..(n + m) : Tells((q \o t)[i]) => i \in 1..n
  BY <1>1, <1>2
<1>4. InOrder(q \o t, last, told)
  BY <1>1, <1>2, <1>3 DEF InOrder
<1>5. NoneMissing(q \o t, last, told)
  BY <1>1, <1>2 DEF NoneMissing
<1> QED
  BY <1>4, <1>5

\* The outcome of the newest round is queued behind the others.
LEMMA OutcomeQueued ==
    ASSUME NEW q \in Seq(Event), NEW last \in Int, NEW told \in Nat, NEW next \in Nat,
           next \in {told, told + 1}, InOrder(q, last, told), NoneMissing(q, last, told)
    PROVE  /\ InOrder(q \o <<Outcome(next)>>, last, next)
           /\ NoneMissing(q \o <<Outcome(next)>>, last, next)
<1> DEFINE r == q \o <<Outcome(next)>>
<1>1. PICK n \in Nat : n = Len(q)
  OBVIOUS
<1>2. Len(r) = n + 1 /\ r[n + 1] = Outcome(next) /\ \A i \in 1..n : r[i] = q[i]
  BY <1>1
<1>3. Outcome(next).round = next /\ told <= next
  BY DEF Outcome
<1>4. \A i \in 1..n : q[i].round \in Nat
  <2>1. \A i \in 1..n : q[i] \in Event
    BY <1>1
  <2> QED
    BY <2>1 DEF Event
<1> HIDE DEF r
<1>5. last <= next
  BY <1>3 DEF InOrder
<1>6. ASSUME NEW i \in 1..Len(r), Tells(r[i])
      PROVE  last <= r[i].round /\ r[i].round <= next
  <2>1. CASE i \in 1..n
    BY <1>1, <1>2, <1>3, <1>4, <1>6, <2>1 DEF InOrder
  <2>2. CASE i = n + 1
    BY <1>2, <1>3, <1>5, <2>2
  <2> QED
    BY <1>2, <2>1, <2>2
<1>7. ASSUME NEW i \in 1..Len(r), NEW j \in 1..Len(r), i < j, Tells(r[i]), Tells(r[j])
      PROVE  r[i].round <= r[j].round
  <2>1. CASE j \in 1..n
    BY <1>1, <1>2, <1>7, <2>1 DEF InOrder
  <2>2. CASE j = n + 1
    BY <1>2, <1>3, <1>6, <1>7, <2>2
  <2> QED
    BY <1>2, <2>1, <2>2
<1>8. NoneMissing(r, last, next)
  BY <1>1, <1>2, <1>3 DEF NoneMissing
<1> QED
  BY <1>5, <1>6, <1>7, <1>8 DEF InOrder, r

\* The event at the head is shown; it may stay in the queue, and be shown again.
LEMMA HeadShown ==
    ASSUME NEW q \in Seq(Event), NEW last \in Int, NEW told \in Nat, q # <<>>,
           InOrder(q, last, told), NoneMissing(q, last, told),
           NEW now, now = IF Tells(Head(q)) THEN Head(q).round ELSE last
    PROVE  /\ InOrder(q, now, told) /\ NoneMissing(q, now, told)
           /\ InOrder(Tail(q), now, told) /\ NoneMissing(Tail(q), now, told)
<1>1. PICK n \in Nat : n = Len(q) - 1
  <2>1. Len(q) \in Nat /\ Len(q) # 0
    BY EmptySeq
  <2>2. Len(q) - 1 \in Nat
    BY <2>1
  <2> QED
    BY <2>2
<1>2. /\ Len(q) = n + 1 /\ Len(Tail(q)) = n /\ Head(q) = q[1]
      /\ \A i \in 1..n : Tail(q)[i] = q[i + 1] /\ i + 1 \in 1..Len(q)
  BY <1>1
<1>3. \A i \in 1..Len(q) : q[i].round \in Nat
  <2>1. \A i \in 1..Len(q) : q[i] \in Event
    OBVIOUS
  <2> QED
    BY <2>1 DEF Event
<1>4. 1 \in 1..Len(q)
  BY <1>2
<1>5. now \in Int /\ last <= now /\ now <= told
  BY <1>2, <1>3, <1>4 DEF InOrder
<1>6. \A i \in 1..Len(q) : Tells(q[i]) => now <= q[i].round
  <2> SUFFICES ASSUME NEW i \in 1..Len(q), Tells(q[i])
               PROVE  now <= q[i].round
    OBVIOUS
  <2>1. CASE ~Tells(q[1])
    BY <1>2, <2>1 DEF InOrder
  <2>2. CASE Tells(q[1]) /\ i = 1
    BY <1>2, <1>3, <2>2
  <2>3. CASE Tells(q[1]) /\ i # 1
    <3>1. now = q[1].round /\ 1 < i
      BY <1>2, <2>3
    <3> QED
      BY <1>4, <2>3, <3>1 DEF InOrder
  <2> QED
    BY <2>1, <2>2, <2>3
<1>7. InOrder(q, now, told)
  BY <1>5, <1>6 DEF InOrder
<1>8. NoneMissing(q, now, told)
  BY <1>5 DEF NoneMissing
<1>9. InOrder(Tail(q), now, told)
  <2>1. \A i \in 1..Len(Tail(q)) :
          Tells(Tail(q)[i]) => now <= Tail(q)[i].round /\ Tail(q)[i].round <= told
    BY <1>2, <1>7 DEF InOrder
  <2>2. ASSUME NEW i \in 1..Len(Tail(q)), NEW j \in 1..Len(Tail(q)), i < j,
               Tells(Tail(q)[i]), Tells(Tail(q)[j])
        PROVE  Tail(q)[i].round <= Tail(q)[j].round
    <3>1. i + 1 < j + 1 /\ Tail(q)[i] = q[i + 1] /\ Tail(q)[j] = q[j + 1]
          /\ i + 1 \in 1..Len(q) /\ j + 1 \in 1..Len(q)
      BY <1>2, <2>2
    <3> QED
      BY <2>2, <3>1 DEF InOrder
  <2> QED
    BY <1>5, <2>1, <2>2 DEF InOrder
<1>10. NoneMissing(Tail(q), now, told)
  <2> SUFFICES ASSUME NEW k \in 1..told, ~(k <= now)
               PROVE  \E i \in 1..Len(Tail(q)) : Tail(q)[i] = Outcome(k)
    BY DEF NoneMissing
  <2>1. PICK i \in 1..Len(q) : q[i] = Outcome(k)
    BY <1>8 DEF NoneMissing
  <2>2. i # 1
    <3>1. Tells(Outcome(k)) /\ Outcome(k).round = k
      BY DEF Outcome, Tells
    <3>2. SUFFICES ASSUME i = 1 PROVE FALSE
      OBVIOUS
    <3>3. now = k
      BY <1>2, <2>1, <3>1, <3>2
    <3> QED
      BY <3>3
  <2>3. i - 1 \in 1..n /\ Tail(q)[i - 1] = q[(i - 1) + 1]
    BY <1>2, <2>2
  <2> QED
    BY <1>2, <2>1, <2>3
<1> QED
  BY <1>7, <1>8, <1>9, <1>10

\* Steps that neither commit nor deliver nor end.
LEMMA NothingDelivered ==
    ASSUME OutcomeInv, UNCHANGED <<pendingDelivery, shown, roundCounter, endings>>,
           effects' = effects \/ effects' \in {"free", "job", "ending"},
           phase = "ENDED" => phase' = "ENDED", NothingTold' => roundCounter = 0
    PROVE  OutcomeInv'
<1>1. DeliveryInv'
  BY DEF OutcomeInv, DeliveryInv
<1>2. EndingInv'
  BY DEF OutcomeInv, EndingInv
<1> QED
  BY <1>1, <1>2 DEF OutcomeInv

LEMMA SamePhase ==
    ASSUME OutcomeInv,
           UNCHANGED <<phase, pending, pendingDelivery, shown, roundCounter, endings>>,
           effects' = effects \/ effects' \in {"free", "job", "ending"}
    PROVE  OutcomeInv'
<1>1. NothingTold' => roundCounter = 0
  BY DEF OutcomeInv, NothingTold
<1> QED
  BY <1>1, NothingDelivered

\* A launched round is pending, and nothing is prepared any longer.
LEMMA ResumeDelivers ==
    ASSUME SessionInv, SessionInv', OutcomeInv, NEW queue, NEW buf, ResumeTurns(queue, buf),
           phase = "ACTIVE_TURN",
           UNCHANGED <<effects, pendingDelivery, shown, roundCounter, endings>>
    PROVE  OutcomeInv'
<1>1. CASE UNCHANGED <<phase, pending>>
  BY <1>1, SamePhase
<1>2. CASE LaunchJob("round")
  <2> DEFINE j == [epoch |-> generation + 1, kind |-> "round", attempt |-> 0,
                   stage |-> "opening"]
  <2>1. j \in jobs' /\ phase' = "AWAITING_LLM" /\ generation' = generation + 1
    BY <1>2 DEF LaunchJob
  <2>2. j.stage \in Unsettled /\ j.kind = "round"
    BY DEF Unsettled
  <2>3. pending' # NoRound
    BY <2>1, <2>2 DEF SessionInv, JobInv, KindMatchesPending
  <2>4. ~NothingTold'
    BY <2>1, <2>3 DEF NothingTold
  <2> QED
    BY <2>4, NothingDelivered
<1> QED
  BY <1>1, <1>2 DEF ResumeTurns

LEMMA ClientDelivers ==
    ASSUME SessionInv, SessionInv', OutcomeInv, NEW p \in Players, ClientStep(p)
    PROVE  OutcomeInv'
<1> USE DEF party, turn, round, work, output, requests
<1>1. CASE Reconnect(p)
  <2>1. UNCHANGED <<effects, pendingDelivery, shown, roundCounter, endings>>
    BY <1>1 DEF Reconnect
  <2>2. CASE TurnStalled
    BY <1>1, <2>1, <2>2, ResumeDelivers DEF Reconnect, TurnStalled
  <2>3. CASE ~TurnStalled
    BY <1>1, <2>1, <2>3, SamePhase DEF Reconnect
  <2> QED
    BY <2>2, <2>3
<1>2. CASE Join(p)
  <2>1. UNCHANGED <<effects, pendingDelivery, shown, roundCounter, endings, pending>>
    BY <1>2 DEF Join
  <2>2. phase \in {"AWAITING_HOST", "AWAITING_PLAYERS"}
    BY <1>2 DEF Join
  <2>3. roundCounter = 0
    BY <2>2 DEF OutcomeInv, NothingTold
  <2> QED
    BY <2>1, <2>2, <2>3, NothingDelivered
<1>3. CASE InitializeScenario(p) \/ StartGame(p)
  <2>1. UNCHANGED <<effects, pendingDelivery, shown, roundCounter, endings, pending>>
    BY <1>3 DEF InitializeScenario, StartGame
  <2>2. phase \in {"SCENARIO_INJECTION", "AWAITING_PLAYERS"}
    BY <1>3 DEF InitializeScenario, StartGame
  <2>3. roundCounter = 0
    BY <2>2 DEF OutcomeInv, NothingTold
  <2> QED
    BY <2>1, <2>2, <2>3, NothingDelivered
<1>4. CASE \/ \E how \in Losses : LoseSocket(p, how)
           \/ \E n \in {roundCounter, roundCounter + 1} \ {0} : Submit(p, n)
           \/ RequestRetry(p) \/ RequestEnd(p)
  BY <1>4, SamePhase DEF LoseSocket, Submit, RequestRetry, RequestEnd
<1> QED
  BY <1>1, <1>2, <1>3, <1>4 DEF ClientStep

LEMMA RequestDelivers ==
    ASSUME SessionInv, SessionInv', OutcomeInv, RequestStep
    PROVE  OutcomeInv'
<1> USE DEF party, turn, round, work, output, requests
<1>1. ASSUME NEW d \in leavers, Disconnect(d)
      PROVE  OutcomeInv'
  <2>1. UNCHANGED <<effects, pendingDelivery, shown, roundCounter, endings>>
    BY <1>1 DEF Disconnect
  <2>2. CASE phase = "ACTIVE_TURN"
    <3>1. \E queue, buf : ResumeTurns(queue, buf)
      BY <1>1, <2>2 DEF Disconnect
    <3> QED
      BY <2>1, <2>2, <3>1, ResumeDelivers
  <2>3. CASE phase # "ACTIVE_TURN"
    BY <1>1, <2>1, <2>3, SamePhase DEF Disconnect
  <2> QED
    BY <2>2, <2>3
<1>2. ASSUME NEW s \in submissions, AcceptAction(s)
      PROVE  OutcomeInv'
  <2>1. UNCHANGED <<effects, pendingDelivery, shown, roundCounter, endings>>
        /\ phase = "ACTIVE_TURN"
    BY <1>2 DEF AcceptAction, ActionAllowed
  <2>2. \E queue, buf : ResumeTurns(queue, buf)
    BY <1>2 DEF AcceptAction
  <2> QED
    BY <2>1, <2>2, ResumeDelivers
<1>3. ASSUME NEW r \in retries, RelaunchRound(r)
      PROVE  OutcomeInv'
  <2>1. /\ UNCHANGED <<effects, pendingDelivery, shown, roundCounter, endings, pending>>
        /\ pending # NoRound /\ phase' = "AWAITING_LLM" /\ paused
    BY <1>3 DEF RelaunchRound, Relaunchable, LaunchJob
  <2>2. ~NothingTold'
    BY <2>1 DEF NothingTold
  <2>3. phase # "ENDED"
    BY <2>1 DEF SessionInv, EndIsQuiet
  <2> QED
    BY <2>1, <2>2, <2>3, NothingDelivered
<1>4. CASE \/ \E g \in greetings : AnnounceReturn(g)
           \/ \E d \in leavers : IgnoreDisconnect(d)
           \/ \E s \in submissions : RejectAction(s) \/ AbandonAction(s)
           \/ \E p \in Players : RestoreTurn(p)
           \/ \E r \in retries : RefuseRetry(r)
  BY <1>4, SamePhase DEF AnnounceReturn, IgnoreDisconnect, RejectAction, AbandonAction, RestoreTurn,
                         RefuseRetry
<1> QED
  BY <1>1, <1>2, <1>3, <1>4 DEF RequestStep

\* The loop of _deliver_pending, and a broadcast that is cut short.
LEMMA HeadDelivers ==
    ASSUME SessionInv, OutcomeInv, pendingDelivery # <<>>, PublishHead,
           pendingDelivery' \in {pendingDelivery, Tail(pendingDelivery)},
           UNCHANGED <<phase, pending, roundCounter, endings>>,
           effects' = effects \/ effects' = "free"
    PROVE  OutcomeInv'
<1>1. /\ pendingDelivery \in Seq(Event) /\ shown \in Int /\ roundCounter \in Nat
  BY DEF SessionInv, TypeOK
<1>2. shown' = IF Tells(Head(pendingDelivery)) THEN Head(pendingDelivery).round ELSE shown
  BY DEF PublishHead, Tells
<1>3. InOrder(pendingDelivery, shown, roundCounter) /\ NoneMissing(pendingDelivery, shown, roundCounter)
  BY DEF OutcomeInv, DeliveryInv
<1>4. /\ InOrder(pendingDelivery, shown', roundCounter)
      /\ NoneMissing(pendingDelivery, shown', roundCounter)
      /\ InOrder(Tail(pendingDelivery), shown', roundCounter)
      /\ NoneMissing(Tail(pendingDelivery), shown', roundCounter)
  BY <1>1, <1>2, <1>3, HeadShown
<1>5. DeliveryInv'
  <2>1. CASE pendingDelivery' = pendingDelivery
    BY <1>4, <2>1 DEF DeliveryInv
  <2>2. CASE pendingDelivery' = Tail(pendingDelivery)
    BY <1>4, <2>2 DEF DeliveryInv
  <2> QED
    BY <2>1, <2>2
<1>6. EndingInv' /\ (NothingTold' => roundCounter' = 0)
  BY DEF OutcomeInv, EndingInv, NothingTold
<1> QED
  BY <1>5, <1>6 DEF OutcomeInv

LEMMA ShutdownDelivers ==
    ASSUME SessionInv, OutcomeInv, ShutdownStep
    PROVE  OutcomeInv'
<1> USE DEF party, turn, round, work, output, requests
<1>1. CASE StopServer \/ BeginShutdown
  BY <1>1, SamePhase DEF StopServer, BeginShutdown
<1>2. CASE DeliverBeforeEnd
  BY <1>2, HeadDelivers DEF DeliverBeforeEnd, DeliverHead
<1>3. CASE EndSession
  <2>1. /\ pendingDelivery = <<>> /\ pendingDelivery' = <<>> /\ phase' = "ENDED"
        /\ effects' = (IF phase = "ENDED" THEN "free" ELSE "finalizing")
        /\ UNCHANGED <<shown, roundCounter, endings>>
    BY <1>3 DEF EndSession, Drained
  <2>2. DeliveryInv'
    BY <2>1 DEF OutcomeInv, DeliveryInv
  <2>3. EndingInv' /\ ~NothingTold'
    BY <2>1 DEF OutcomeInv, EndingInv, NothingTold
  <2> QED
    BY <2>2, <2>3 DEF OutcomeInv
<1>4. CASE AnnounceEnd
  <2>1. /\ effects = "finalizing" /\ endings' = endings + 1 /\ effects' = "free"
        /\ UNCHANGED <<phase, pending, pendingDelivery, shown, roundCounter>>
    BY <1>4 DEF AnnounceEnd
  <2>2. phase = "ENDED" /\ endings' = 1
    BY <2>1 DEF OutcomeInv, EndingInv
  <2>3. DeliveryInv'
    BY <2>1 DEF OutcomeInv, DeliveryInv
  <2>4. EndingInv' /\ ~NothingTold'
    BY <2>1, <2>2 DEF EndingInv, NothingTold
  <2> QED
    BY <2>3, <2>4 DEF OutcomeInv
<1> QED
  BY <1>1, <1>2, <1>3, <1>4 DEF ShutdownStep

\* A commit queues the outcome, and then what follows from it.
LEMMA CommitDelivers ==
    ASSUME SessionInv, OutcomeInv, NEW follow \in Seq(Event),
           roundCounter' \in {roundCounter, roundCounter + 1},
           \A i \in 1..Len(follow) : ~Tells(follow[i]),
           pendingDelivery' = (pendingDelivery \o <<Outcome(roundCounter')>>) \o follow,
           shown' = shown, endings' = endings, effects' \in {effects, "job"},
           phase # "ENDED", phase' = "ACTIVE_TURN"
    PROVE  OutcomeInv'
<1>1. /\ pendingDelivery \in Seq(Event) /\ shown \in Int /\ roundCounter \in Nat
  BY DEF SessionInv, TypeOK
<1>2. roundCounter' \in Nat
  BY <1>1
<1>3. Outcome(roundCounter') \in Event /\ <<Outcome(roundCounter')>> \in Seq(Event)
  BY <1>2, EventTypes
<1>4. PICK q : q = pendingDelivery \o <<Outcome(roundCounter')>>
  OBVIOUS
<1>5. q \in Seq(Event)
  BY <1>1, <1>3, <1>4, ConcatProperties
<1>6. /\ InOrder(pendingDelivery, shown, roundCounter)
      /\ NoneMissing(pendingDelivery, shown, roundCounter)
  BY DEF OutcomeInv, DeliveryInv
<1>7. InOrder(q, shown, roundCounter') /\ NoneMissing(q, shown, roundCounter')
  BY <1>1, <1>2, <1>4, <1>6, OutcomeQueued
<1>8. /\ InOrder(q \o follow, shown, roundCounter')
      /\ NoneMissing(q \o follow, shown, roundCounter')
  BY <1>1, <1>2, <1>5, <1>7, QuietQueued
<1>9. DeliveryInv'
  BY <1>4, <1>8 DEF DeliveryInv
<1>10. EndingInv' /\ ~NothingTold'
  BY DEF OutcomeInv, EndingInv, NothingTold
<1> QED
  BY <1>9, <1>10 DEF OutcomeInv

\* What follows an outcome tells nothing of a round.
LEMMA FollowUps ==
    /\ ~Tells(Started)
    /\ \A n : ~Tells(RoundStart(n))
    /\ \A n, p : ~Tells(Directive(n, p))
BY DEF Tells, Started, RoundStart, Directive

LEMMA ShortQueues ==
    ASSUME NEW a \in Event, NEW b \in Event, NEW c \in Event,
           ~Tells(a), ~Tells(b), ~Tells(c)
    PROVE  /\ <<a, b>> \in Seq(Event) /\ <<a, b, c>> \in Seq(Event) /\ <<>> \in Seq(Event)
           /\ \A i \in 1..Len(<<a, b>>) : ~Tells(<<a, b>>[i])
           /\ \A i \in 1..Len(<<a, b, c>>) : ~Tells(<<a, b, c>>[i])
           /\ \A i \in 1..Len(<<>>) : ~Tells(<<>>[i])
<1>1. /\ <<a, b>> \in Seq(Event) /\ <<a, b, c>> \in Seq(Event) /\ <<>> \in Seq(Event)
      /\ Len(<<a, b>>) = 2 /\ Len(<<a, b, c>>) = 3 /\ Len(<<>>) = 0
  OBVIOUS
<1>2. \A i \in 1..2 : <<a, b>>[i] \in {a, b}
  OBVIOUS
<1>3. \A i \in 1..3 : <<a, b, c>>[i] \in {a, b, c}
  OBVIOUS
<1>4. 1..0 = {}
  OBVIOUS
<1> QED
  BY <1>1, <1>2, <1>3, <1>4

LEMMA NextPlayerType ==
    ASSUME NEW q \in Seq(Players), NEW c \in SUBSET Players, NEW b \in [Players -> Entry]
    PROVE  NextTurn(q, c, b).active \in Players \cup {NoOne}
BY NextTurnType DEF OnlyTurns

LEMMA CommitRoundDelivers ==
    ASSUME SessionInv, OutcomeInv, NEW j \in jobs, CommitRound(j)
    PROVE  OutcomeInv'
<1>1. /\ joinOrder \in Seq(Players) /\ connected \in SUBSET Players /\ roundCounter \in Nat
  BY DEF SessionInv, TypeOK
<1>2. PICK a : a = NewRound.active
  OBVIOUS
<1>3. a \in Players \cup {NoOne}
  BY <1>1, <1>2, NextPlayerType, EmptyBufferType DEF NewRound
<1>4. /\ roundCounter' = roundCounter + 1 /\ phase' = "ACTIVE_TURN" /\ effects' = "job"
      /\ shown' = shown /\ endings' = endings /\ Current(j.epoch)
  BY DEF CommitRound
<1>5. pendingDelivery' = (pendingDelivery \o <<Outcome(roundCounter + 1)>>)
         \o (IF a = NoOne THEN <<>>
             ELSE <<RoundStart((roundCounter + 1) + 1), Directive((roundCounter + 1) + 1, a)>>)
  BY <1>2 DEF CommitRound
<1>6. phase # "ENDED"
  BY <1>4 DEF Current
<1>7. CASE a = NoOne
  <2>1. <<>> \in Seq(Event) /\ \A i \in 1..Len(<<>>) : ~Tells(<<>>[i])
    BY EventTypes, FollowUps, ShortQueues
  <2>2. pendingDelivery' = (pendingDelivery \o <<Outcome(roundCounter')>>) \o <<>>
    BY <1>4, <1>5, <1>7
  <2> QED
    BY <1>4, <1>6, <2>1, <2>2, CommitDelivers
<1>8. CASE a # NoOne
  <2> DEFINE n == (roundCounter + 1) + 1
             follow == <<RoundStart(n), Directive(n, a)>>
  <2>1. n \in Nat /\ a \in Players
    BY <1>1, <1>3, <1>8
  <2>2. RoundStart(n) \in Event /\ Directive(n, a) \in Event
    BY <2>1, EventTypes
  <2>3. follow \in Seq(Event) /\ \A i \in 1..Len(follow) : ~Tells(follow[i])
    BY <2>2, FollowUps, ShortQueues
  <2>4. pendingDelivery' = (pendingDelivery \o <<Outcome(roundCounter')>>) \o follow
    BY <1>4, <1>5, <1>8
  <2> HIDE DEF follow
  <2> QED
    BY <1>4, <1>6, <2>3, <2>4, CommitDelivers
<1> QED
  BY <1>7, <1>8

LEMMA OpeningQueue ==
    ASSUME NEW q \in Seq(Event), NEW a \in Event, NEW b \in Event, NEW c \in Event
    PROVE  (q \o <<a, b, c>>) \o <<>> = (q \o <<a>>) \o <<b, c>>
<1>1. <<>> \in Seq(Event) /\ <<a>> \in Seq(Event) /\ <<b, c>> \in Seq(Event)
      /\ <<a, b, c>> \in Seq(Event)
  OBVIOUS
<1>2. <<a, b, c>> \o <<>> = <<a>> \o <<b, c>>
  OBVIOUS
<1>3. /\ (q \o <<a, b, c>>) \o <<>> = q \o (<<a, b, c>> \o <<>>)
      /\ (q \o <<a>>) \o <<b, c>> = q \o (<<a>> \o <<b, c>>)
  BY <1>1, ConcatAssociative
<1> QED
  BY <1>2, <1>3

\* the queue of a game that opens on somebody's turn
LEMMA OpeningTurnQueue ==
    ASSUME NEW q \in Seq(Event), NEW a \in Event, NEW b \in Event, NEW c \in Event,
           NEW d \in Event
    PROVE  (q \o <<a, b, c>>) \o <<d>> = (q \o <<a>>) \o <<b, c, d>>
<1> DEFINE left == (q \o <<a, b, c>>) \o <<d>>
           right == (q \o <<a>>) \o <<b, c, d>>
<1>1. left \in Seq(Event) /\ Len(left) = Len(q) + 4
  OBVIOUS
<1>2. right \in Seq(Event) /\ Len(right) = Len(q) + 4
  OBVIOUS
<1>3. ASSUME NEW i \in 1..(Len(q) + 4)
      PROVE  left[i] = right[i]
  <2>1. CASE i <= Len(q)
    BY <2>1
  <2>2. CASE i = Len(q) + 1
    BY <2>2
  <2>3. CASE i = Len(q) + 2
    BY <2>3
  <2>4. CASE i = Len(q) + 3
    BY <2>4
  <2>5. CASE i = Len(q) + 4
    BY <2>5
  <2> QED
    BY <2>1, <2>2, <2>3, <2>4, <2>5
<1> HIDE DEF left, right
<1>4. left = right
  BY <1>1, <1>2, <1>3, SeqEqual
<1> QED
  BY <1>4 DEF left, right

LEMMA CommitStartDelivers ==
    ASSUME SessionInv, OutcomeInv, NEW j \in jobs, CommitStart(j)
    PROVE  OutcomeInv'
<1>1. /\ turnQueue \in Seq(Players) /\ connected \in SUBSET Players
      /\ buffer \in [Players -> Entry] /\ pendingDelivery \in Seq(Event)
  BY DEF SessionInv, TypeOK
<1>2. PICK a : a = NextTurn(turnQueue, connected, buffer).active
  OBVIOUS
<1>3. a \in Players \cup {NoOne}
  BY <1>1, <1>2, NextPlayerType
<1>4. /\ phase' = "ACTIVE_TURN" /\ Current(j.epoch) /\ j.stage = "archiving"
      /\ UNCHANGED <<roundCounter, shown, endings, effects>>
  BY DEF CommitStart, round
<1>5. phase = "AWAITING_LLM" /\ phase # "ENDED"
  BY <1>4, CommitterIsCurrent DEF SessionInv, Unsettled, Current
<1>6. roundCounter = 0
  <2>1. j.kind = "start"
    BY <1>4 DEF SessionInv, JobInv, KindMatchesPending
  <2>2. pending = NoRound
    BY <1>4, <1>5, <2>1 DEF SessionInv, JobInv, KindMatchesPending
  <2> QED
    BY <1>5, <2>2 DEF OutcomeInv, NothingTold
<1>7. pendingDelivery' = (pendingDelivery \o <<Outcome(0), Started, RoundStart(1)>>)
         \o (IF a = NoOne THEN <<>> ELSE <<Directive(1, a)>>)
  BY <1>2 DEF CommitStart
<1>8. Outcome(0) \in Event /\ Started \in Event /\ RoundStart(1) \in Event
  BY EventTypes
<1>9. CASE a = NoOne
  <2> DEFINE follow == <<Started, RoundStart(1)>>
  <2>1. follow \in Seq(Event) /\ \A i \in 1..Len(follow) : ~Tells(follow[i])
    BY <1>8, FollowUps, ShortQueues
  <2>2. pendingDelivery' = (pendingDelivery \o <<Outcome(0)>>) \o follow
    BY <1>1, <1>7, <1>8, <1>9, OpeningQueue
  <2> HIDE DEF follow
  <2> QED
    BY <1>4, <1>5, <1>6, <2>1, <2>2, CommitDelivers
<1>10. CASE a # NoOne
  <2> DEFINE follow == <<Started, RoundStart(1), Directive(1, a)>>
  <2>1. Directive(1, a) \in Event
    BY <1>3, <1>10, EventTypes
  <2>2. follow \in Seq(Event) /\ \A i \in 1..Len(follow) : ~Tells(follow[i])
    BY <1>8, <2>1, FollowUps, ShortQueues
  <2>3. pendingDelivery' = (pendingDelivery \o <<Outcome(0)>>) \o follow
    <3>1. pendingDelivery' = (pendingDelivery \o <<Outcome(0), Started, RoundStart(1)>>)
             \o <<Directive(1, a)>>
      BY <1>7, <1>10
    <3>2. (pendingDelivery \o <<Outcome(0), Started, RoundStart(1)>>) \o <<Directive(1, a)>>
             = (pendingDelivery \o <<Outcome(0)>>) \o follow
      <4>1. \A x, y, z, w \in Event :
               (pendingDelivery \o <<x, y, z>>) \o <<w>> = (pendingDelivery \o <<x>>) \o <<y, z, w>>
        BY <1>1, OpeningTurnQueue
      <4> QED
        BY <1>8, <2>1, <4>1
    <3> QED
      BY <3>1, <3>2
  <2> HIDE DEF follow
  <2> QED
    BY <1>4, <1>5, <1>6, <2>2, <2>3, CommitDelivers
<1> QED
  BY <1>9, <1>10

LEMMA JobDelivers ==
    ASSUME SessionInv, SessionInv', OutcomeInv, NEW j \in jobs, JobStep(j)
    PROVE  OutcomeInv'
<1> USE DEF party, turn, round, output, requests
<1>1. CASE \/ OpenJob(j) \/ RetryAttempt(j) \/ FailWork(j) \/ CancelJob(j) \/ DropResult(j)
           \/ BeginArchive(j) \/ FailArchive(j) \/ FinishDelivery(j) \/ Recover(j)
           \/ AbandonFailure(j) \/ EndJob(j)
  BY <1>1, SamePhase
     DEF OpenJob, RetryAttempt, FailWork, CancelJob, DropResult, BeginArchive, FailArchive,
         FinishDelivery, Recover, AbandonFailure, EndJob
<1>2. ASSUME NEW outcome \in DiceOutcomes, PlanDice(j, outcome)
      PROVE  OutcomeInv'
  <2>1. /\ pending' = [pending EXCEPT !.dice = outcome]
        /\ UNCHANGED <<phase, pendingDelivery, shown, roundCounter, endings, effects>>
    BY <1>2 DEF PlanDice
  <2>2. pending # NoRound => pending' # NoRound
    <3>1. pending # NoRound => pending.actions # EmptyBuffer
      BY DEF SessionInv, RoundInv, PendingHasActions
    <3>2. pending'.actions = pending.actions
      BY <2>1 DEF SessionInv, TypeOK, Round
    <3> QED
      BY <3>1, <3>2 DEF NoRound
  <2>3. NothingTold' => NothingTold
    BY <2>1, <2>2 DEF NothingTold
  <2> QED
    BY <2>1, <2>3, NothingDelivered DEF OutcomeInv
<1>3. CASE OpenLobby(j)
  <2>1. /\ j.stage = "working" /\ j.kind = "scenario" /\ Current(j.epoch)
        /\ UNCHANGED <<pendingDelivery, shown, roundCounter, endings>> /\ effects' = "job"
    BY <1>3 DEF OpenLobby, Committing
  <2>2. phase = "AWAITING_LLM"
    BY <2>1, CommitterIsCurrent DEF SessionInv, Unsettled
  <2>3. pending = NoRound
    BY <2>1, <2>2 DEF SessionInv, JobInv, KindMatchesPending
  <2>4. roundCounter = 0
    BY <2>2, <2>3 DEF OutcomeInv, NothingTold
  <2> QED
    BY <2>1, <2>2, <2>4, NothingDelivered
<1>4. CASE Rollback(j)
  <2>1. /\ Current(j.epoch) /\ phase = "AWAITING_LLM"
        /\ UNCHANGED <<pending, pendingDelivery, shown, roundCounter, endings, effects>>
    BY <1>4 DEF Rollback
  <2>2. CASE j.kind = "round"
    <3>1. pending # NoRound
      BY <2>1, <2>2 DEF SessionInv, JobInv, KindMatchesPending
    <3>2. phase' = "AWAITING_LLM"
      BY <1>4, <2>2 DEF Rollback
    <3> QED
      BY <2>1, <3>1, <3>2, SamePhase
  <2>3. CASE j.kind # "round"
    <3>1. pending = NoRound
      BY <2>1, <2>3 DEF SessionInv, JobInv, KindMatchesPending
    <3>2. roundCounter = 0
      BY <2>1, <3>1 DEF OutcomeInv, NothingTold
    <3> QED
      BY <2>1, <3>2, NothingDelivered
  <2> QED
    BY <2>2, <2>3
<1>5. CASE Deliver(j)
  BY <1>5, HeadDelivers DEF Deliver, DeliverHead
<1>6. CASE MissDeadline(j)
  <2>1. CASE UNCHANGED <<shown, announced>>
    BY <1>6, <2>1, SamePhase DEF MissDeadline
  <2>2. CASE pendingDelivery # <<>> /\ PublishHead
    BY <1>6, <2>2, HeadDelivers DEF MissDeadline
  <2> QED
    BY <1>6, <2>1, <2>2 DEF MissDeadline
<1> QED
  BY <1>1, <1>2, <1>3, <1>4, <1>5, <1>6, CommitStartDelivers, CommitRoundDelivers DEF JobStep

LEMMA OutcomeNext ==
    ASSUME SessionInv, SessionInv', OutcomeInv, [Next]_vars
    PROVE  OutcomeInv'
<1>1. CASE UNCHANGED vars
  BY <1>1, SamePhase DEF vars, round, output
<1>2. CASE Next
  BY <1>2, ClientDelivers, RequestDelivers, JobDelivers, ShutdownDelivers DEF Next
<1> QED
  BY <1>1, <1>2

\* Every committed round reaches the players, or is queued for them, whatever deadline
\* cuts a delivery short; and the game ends once, with nothing left to deliver
\* (_deliver_pending, _run_job's recovery, shutdown).
THEOREM OutcomesReachPlayers == Spec => []NoOutcomeLost
<1>1. Init => OutcomeInv
  <2> SUFFICES ASSUME Init PROVE OutcomeInv
    OBVIOUS
  <2>1. /\ pendingDelivery = <<>> /\ shown = -1 /\ roundCounter = 0 /\ endings = 0
        /\ effects = "free" /\ phase = "AWAITING_HOST"
    BY DEF Init
  <2>2. DeliveryInv
    BY <2>1 DEF DeliveryInv, InOrder, NoneMissing
  <2> QED
    BY <2>1, <2>2 DEF OutcomeInv, EndingInv
<1>2. SessionInv /\ SessionInv' /\ OutcomeInv /\ [Next]_vars => OutcomeInv'
  BY OutcomeNext
<1>3. SessionInv /\ OutcomeInv => NoOutcomeLost
  BY DEF SessionInv, EndIsQuiet, OutcomeInv, DeliveryInv, NoneMissing, EndingInv, NoOutcomeLost
<1> QED
  BY <1>1, <1>2, <1>3, SessionCorrect, PTL DEF Spec

-----------------------------------------------------------------------------
(* Turns and the table *)

\* A step of the session, as RoundTable sees it.
TableStep == [Table!TableNext]_(Table!tableVars)

\* The players who have an entry.
Acted == {p \in Players : buffer[p] # Blank}

\* Nothing that the table knows of changes.
SameTable ==
    /\ UNCHANGED <<phase, joinOrder, turnQueue, buffer, roundCounter>>
    /\ pending' = NoRound <=> pending = NoRound

LEMMA TableStutters ==
    ASSUME UNCHANGED <<joinOrder, buffer, roundCounter>>, TableStage' = TableStage
    PROVE  TableStep
BY DEF TableStep, Table!tableVars, Joined

LEMMA SameTableKeeps ==
    ASSUME OrderInv, SameTable
    PROVE  OrderInv' /\ TableStep
<1>1. OrderInv'
  BY DEF OrderInv, SameTable, SeatsAreDistinct, TableIsLaid, LobbyIsInOrder, NothingTold,
         JoinOrderKept, SomeoneToAct, EntriesOfMembers, Joined
<1>2. TableStage' = TableStage
  BY DEF SameTable, TableStage
<1> QED
  BY <1>1, <1>2, TableStutters DEF SameTable

LEMMA LaidTable ==
    ASSUME joinOrder \in Seq(Players), joinOrder # <<>>
    PROVE  Joined # {}
<1>1. Range(joinOrder) = {joinOrder[i] : i \in 1..Len(joinOrder)}
  BY RangeOfSequence
<1>2. 1 \in 1..Len(joinOrder)
  BY EmptySeq
<1> QED
  BY <1>1, <1>2 DEF Joined

\* _next_turn_locked has nothing to do in a turn phase that is already settled.
LEMMA TurnIsSettled ==
    ASSUME SessionInv, phase = "ACTIVE_TURN"
    PROVE  LET next == NextTurn(turnQueue, connected, buffer)
           IN  next.queue = turnQueue /\ next.buffer = buffer /\ next.active = active
<1>1. /\ turnQueue \in Seq(Players) /\ connected \in SUBSET Players
      /\ buffer \in [Players -> Entry]
  BY DEF SessionInv, TypeOK
<1>2. CASE connected = {}
  BY <1>2 DEF NextTurn, SessionInv, TurnInv, EmptyTableWaits
<1>3. CASE connected # {}
  <2>1. /\ turnQueue # <<>> /\ turnQueue[1] = active /\ active \in connected
        /\ buffer[active] = Blank
    BY <1>3 DEF SessionInv, TurnInv, TurnIsPlayable
  <2> QED
    BY <1>1, <2>1, NextTurnHolds
<1> QED
  BY <1>2, <1>3

\* A change of turn keeps the order, and is a turn of the table: whoever acted or was
\* idled gets an entry, and the round is resolved exactly when all have one.
LEMMA ResumeKeepsOrder ==
    ASSUME SessionInv, OrderInv, NEW queue \in Seq(Players), NEW buf \in [Players -> Entry],
           phase = "ACTIVE_TURN", joinOrder' = joinOrder, connected' \in SUBSET Joined,
           Range(queue) = Joined, ActedInOrder(queue, buf, joinOrder),
           \A p \in Players : buf[p] # Blank => p \in Joined,
           \A p \in Players : buffer[p] # Blank => buf[p] # Blank,
           roundCounter' = roundCounter, ResumeTurns(queue, buf)
    PROVE  OrderInv' /\ TableStep
<1> DEFINE next == NextTurn(queue, connected', buf)
<1>1. joinOrder \in Seq(Players) /\ Joined \in SUBSET Players /\ Joined' = Joined
  BY RangeOfSequence DEF SessionInv, TypeOK, Joined
<1>2. joinOrder # <<>> /\ Distinct(joinOrder)
  BY DEF OrderInv, TableIsLaid, SeatsAreDistinct, Distinct
<1>3. Joined # {}
  BY <1>1, <1>2, LaidTable
<1>4. turnQueue' = next.queue /\ buffer' = next.buffer /\ active' = next.active
  BY DEF ResumeTurns
<1>5. connected' \in SUBSET Players
  BY <1>1
<1>6. /\ \A p \in Players : buffer'[p] \in {buf[p], Idle}
      /\ \A p \in Players : buf[p] # Blank => buffer'[p] = buf[p]
      /\ RoundLaunched \/ TurnPassed
  BY <1>1, ResumeTurnsEffect
<1>7. OnlyTurns(queue, connected', buf, next)
  BY <1>5, NextTurnType
<1>8. \A p \in Players \ Joined : buffer'[p] = buf[p]
  BY <1>4, <1>5, NextTurnSeats
<1>9. EntriesOfMembers'
  BY <1>1, <1>8 DEF EntriesOfMembers
<1>10. SeatsAreDistinct' /\ TableIsLaid'
  BY <1>2 DEF SeatsAreDistinct, TableIsLaid, OrderInv
<1>11. Complete(buffer', Joined) <=> phase' = "AWAITING_LLM"
  BY <1>4 DEF ResumeTurns, LaunchJob
<1>12. pending = NoRound
  BY DEF SessionInv, RoundInv, PendingIsComplete
<1> HIDE DEF next
<1>13. \/ /\ phase' = "AWAITING_LLM" /\ pending' # NoRound
          /\ Complete(buffer', Joined)
       \/ /\ phase' = "ACTIVE_TURN" /\ TurnPassed
          /\ ~Complete(buffer', Joined)
  <2>1. CASE RoundLaunched
    <3>1. phase' = "AWAITING_LLM" /\ pending'.actions # EmptyBuffer
      BY <2>1 DEF RoundLaunched, LaunchJob
    <3> QED
      BY <1>11, <3>1 DEF NoRound
  <2>2. CASE TurnPassed
    BY <1>11, <2>2 DEF TurnPassed
  <2> QED
    BY <1>6, <2>1, <2>2
<1>14. OrderInv'
  <2>1. LobbyIsInOrder'
    BY <1>12, <1>13 DEF LobbyIsInOrder, NothingTold
  <2>2. SomeoneToAct'
    BY <1>1, <1>3, <1>13 DEF SomeoneToAct, Complete
  <2>3. JoinOrderKept'
    <3> SUFFICES ASSUME phase' = "ACTIVE_TURN" PROVE JoinOrderKept'
      BY DEF JoinOrderKept
    <3>1. TurnPassed
      BY <1>13
    <3>2. connected' = {} \/ \E p \in connected' \cap Range(queue) : buf[p] = Blank
      BY <1>5, <1>6, <3>1 DEF TurnPassed
    <3>3. ActedInOrder(next.queue, next.buffer, joinOrder)
      BY <1>1, <1>2, <1>5, <3>2, NextTurnInOrder DEF next
    <3> QED
      BY <1>4, <3>3 DEF JoinOrderKept, ActedInOrder
  <2> QED
    BY <1>9, <1>10, <2>1, <2>2, <2>3 DEF OrderInv
<1>15. TableStep
  <2>1. TableStage = "acting"
    BY DEF TableStage
  <2>2. TableStage' = IF Complete(buffer', Joined) THEN "resolving" ELSE "acting"
    BY <1>13 DEF TableStage
  <2>3. Acted' \subseteq Joined /\ Acted \subseteq Acted'
    BY <1>6, <1>9, <1>1 DEF Acted, EntriesOfMembers
  <2>4. Complete(buffer', Joined) <=> Acted' = Joined
    BY <1>1, <1>3, <2>3 DEF Complete, Acted
  <2>5. CASE Acted' = Acted
    <3>1. ~Complete(buffer', Joined)
      BY <1>1, <2>4, <2>5 DEF OrderInv, SomeoneToAct, Acted
    <3> QED
      BY <1>1, <2>1, <2>2, <2>5, <3>1 DEF TableStep, Table!tableVars, Acted
  <2>6. CASE Acted' # Acted
    <3>1. /\ Acted' \ Acted \in SUBSET (Joined \ Acted) /\ Acted' \ Acted # {}
          /\ Acted' = Acted \cup (Acted' \ Acted)
      BY <2>3, <2>6
    <3>2. Table!Act
      BY <1>1, <2>1, <2>2, <2>4, <3>1 DEF Table!Act, Acted
    <3> QED
      BY <3>2 DEF TableStep, Table!TableNext
  <2> QED
    BY <2>5, <2>6
<1> QED
  BY <1>14, <1>15

\* A fresh round starts in order; at a table that is not all absent somebody can act.
LEMMA FreshRoundInOrder ==
    ASSUME SessionInv, OrderInv, TableIsLaid', UNCHANGED <<joinOrder, connected>>,
           phase' = "ACTIVE_TURN",
           NEW next, next = NextTurn(joinOrder, connected, EmptyBuffer),
           turnQueue' = next.queue, buffer' = next.buffer
    PROVE  OrderInv' /\ Acted' \in (SUBSET Joined) \ {Joined}
<1>1. /\ joinOrder \in Seq(Players) /\ Joined \in SUBSET Players /\ Joined' = Joined
      /\ connected \in SUBSET Joined
  BY RangeOfSequence DEF SessionInv, TypeOK, Joined, TurnInv, SeatsKept
<1>2. joinOrder # <<>> /\ Distinct(joinOrder)
  BY DEF OrderInv, TableIsLaid, SeatsAreDistinct, Distinct
<1>3. Joined # {}
  BY <1>1, <1>2, LaidTable
<1>4. EmptyBuffer \in [Players -> Entry] /\ \A p \in Players : EmptyBuffer[p] = Blank
  BY EmptyBufferType, EmptyBufferIsBlank
<1>5. ActedInOrder(joinOrder, EmptyBuffer, joinOrder)
  BY <1>1, <1>4, FreshInOrder
<1>6. connected = {} \/ \E p \in connected \cap Range(joinOrder) : EmptyBuffer[p] = Blank
  BY <1>1, <1>4 DEF Joined
<1>7. ActedInOrder(next.queue, next.buffer, joinOrder)
  BY <1>1, <1>2, <1>4, <1>5, <1>6, NextTurnInOrder
<1>8. OnlyTurns(joinOrder, connected, EmptyBuffer, next)
      /\ Chooses(joinOrder, connected, EmptyBuffer, next)
  BY <1>1, <1>4, NextTurnType, NextTurnChooses
<1>9. \E p \in Joined : buffer'[p] = Blank
  <2>1. CASE connected = {}
    BY <1>1, <1>3, <1>4, <1>8, <2>1 DEF OnlyTurns
  <2>2. CASE connected # {}
    BY <1>1, <1>6, <1>8, <2>2 DEF Chooses
  <2> QED
    BY <2>1, <2>2
<1>10. \A p \in Players \ Joined : buffer'[p] = Blank
  BY <1>1, <1>4, NextTurnSeats DEF Joined
<1>11. OrderInv'
  <2>1. JoinOrderKept'
    BY <1>7 DEF JoinOrderKept, ActedInOrder
  <2>2. SomeoneToAct' /\ EntriesOfMembers'
    BY <1>1, <1>9, <1>10 DEF SomeoneToAct, EntriesOfMembers
  <2>3. SeatsAreDistinct' /\ LobbyIsInOrder'
    BY DEF OrderInv, SeatsAreDistinct, LobbyIsInOrder, NothingTold
  <2> QED
    BY <2>1, <2>2, <2>3 DEF OrderInv
<1> QED
  BY <1>1, <1>9, <1>10, <1>11 DEF Acted

-----------------------------------------------------------------------------
(* The actions *)

LEMMA JoinAtTable ==
    ASSUME SessionInv, OrderInv, NEW p \in Players, Join(p)
    PROVE  OrderInv' /\ TableStep
<1>1. /\ p \notin Joined /\ joinOrder' = Append(joinOrder, p)
      /\ turnQueue' = Append(turnQueue, p)
      /\ phase \in {"AWAITING_HOST", "AWAITING_PLAYERS"}
      /\ phase' \in {"SCENARIO_INJECTION", "AWAITING_PLAYERS"}
      /\ UNCHANGED <<buffer, pending, roundCounter>>
  BY DEF Join, round
<1>2. joinOrder \in Seq(Players) /\ Joined' = Joined \cup {p}
  BY <1>1, RangeAppend DEF SessionInv, TypeOK, Joined
<1>3. /\ Len(Append(joinOrder, p)) = Len(joinOrder) + 1
      /\ \A i \in 1..Len(joinOrder) :
            Append(joinOrder, p)[i] = joinOrder[i] /\ joinOrder[i] # p
      /\ Append(joinOrder, p)[Len(joinOrder) + 1] = p
      /\ Append(joinOrder, p) # <<>> /\ Len(joinOrder) \in Nat
  BY <1>1, <1>2, AppendProperties, RangeOfSequence DEF Joined
<1>4. SeatsAreDistinct'
  <2> SUFFICES ASSUME NEW i \in 1..(Len(joinOrder) + 1), NEW j \in 1..(Len(joinOrder) + 1),
                      Append(joinOrder, p)[i] = Append(joinOrder, p)[j]
               PROVE  i = j
    BY <1>1, <1>3 DEF SeatsAreDistinct
  <2>1. \A n \in 1..(Len(joinOrder) + 1) : n \in 1..Len(joinOrder) \/ n = Len(joinOrder) + 1
    BY <1>3
  <2> QED
    BY <1>3, <2>1 DEF OrderInv, SeatsAreDistinct
<1>5. TableIsLaid'
  BY <1>1, <1>3 DEF TableIsLaid
<1>6. LobbyIsInOrder'
  BY <1>1 DEF LobbyIsInOrder, NothingTold, OrderInv
<1>7. /\ JoinOrderKept' /\ SomeoneToAct' /\ EntriesOfMembers'
  BY <1>1, <1>2 DEF OrderInv, JoinOrderKept, SomeoneToAct, EntriesOfMembers
<1>8. TableStage = "lobby" /\ TableStage' = "lobby"
  BY <1>1 DEF TableStage
<1>9. p \in Players \ Joined /\ Acted' = Acted
  BY <1>1 DEF Acted
<1>10. Table!Gather
  BY <1>1, <1>2, <1>8, <1>9 DEF Table!Gather, Acted
<1> QED
  BY <1>4, <1>5, <1>6, <1>7, <1>10 DEF OrderInv, TableStep, Table!TableNext

LEMMA ReconnectAtTable ==
    ASSUME SessionInv, OrderInv, NEW p \in Players, Reconnect(p)
    PROVE  OrderInv' /\ TableStep
<1>1. UNCHANGED <<joinOrder, roundCounter>> /\ connected' = connected \cup {p} /\ p \in Joined
  BY DEF Reconnect
<1>2. CASE TurnStalled
  <2>1. ResumeTurns(turnQueue, buffer) /\ phase = "ACTIVE_TURN"
    BY <1>2 DEF Reconnect, TurnStalled
  <2>2. /\ turnQueue \in Seq(Players) /\ buffer \in [Players -> Entry]
        /\ Range(turnQueue) = Joined /\ connected' \in SUBSET Joined
    BY <1>1 DEF SessionInv, TypeOK, TurnInv, SeatsKept
  <2>3. /\ ActedInOrder(turnQueue, buffer, joinOrder)
        /\ \A q \in Players : buffer[q] # Blank => q \in Joined
    BY <2>1 DEF OrderInv, JoinOrderKept, ActedInOrder, EntriesOfMembers
  <2> QED
    BY <1>1, <2>1, <2>2, <2>3, ResumeKeepsOrder
<1>3. CASE ~TurnStalled
  <2>1. SameTable
    BY <1>1, <1>3 DEF Reconnect, SameTable, turn
  <2> QED
    BY <2>1, SameTableKeeps
<1> QED
  BY <1>2, <1>3

LEMMA DisconnectAtTable ==
    ASSUME SessionInv, OrderInv, NEW d \in leavers, Disconnect(d)
    PROVE  OrderInv' /\ TableStep
<1> DEFINE p == d.client
<1>1. /\ UNCHANGED <<joinOrder, roundCounter>> /\ connected' = connected \ {p}
      /\ p \in connected
  BY DEF Disconnect, StillLost
<1>2. /\ turnQueue \in Seq(Players) /\ buffer \in [Players -> Entry]
      /\ joinOrder \in Seq(Players)
      /\ Range(turnQueue) = Joined /\ connected \subseteq Joined
      /\ connected' \in SUBSET Joined /\ p \in Players
  BY <1>1 DEF SessionInv, TypeOK, TurnInv, SeatsKept
<1>3. CASE phase = "ACTIVE_TURN"
  <2>1. /\ ActedInOrder(turnQueue, buffer, joinOrder)
        /\ \A q \in Players : buffer[q] # Blank => q \in Joined
    BY <1>3 DEF OrderInv, JoinOrderKept, ActedInOrder, EntriesOfMembers
  <2>2. CASE IdlesLeaver(p)
    <3> DEFINE buf == [buffer EXCEPT ![p] = Idle]
    <3>1. ResumeTurns(Rotate(turnQueue, 1), buf)
      BY <1>3, <2>2 DEF Disconnect
    <3>2. turnQueue # <<>> /\ turnQueue[1] = p /\ buffer[p] = Blank
      BY <1>1, <1>3, <2>2 DEF SessionInv, TurnInv, TurnIsPlayable, IdlesLeaver
    <3>3. Distinct(joinOrder)
      BY DEF OrderInv, SeatsAreDistinct, Distinct
    <3>4. Idle # Blank
      BY DEF Idle, Blank
    <3>5. ActedInOrder(Rotate(turnQueue, 1), buf, joinOrder)
      BY <1>2, <2>1, <3>2, <3>3, <3>4, ActInOrder
    <3>6. /\ Rotate(turnQueue, 1) \in Seq(Players)
          /\ Range(Rotate(turnQueue, 1)) = Joined
      BY <1>2, RotateOnce
    <3>7. /\ buf \in [Players -> Entry]
          /\ \A q \in Players : buf[q] # Blank => q \in Joined
          /\ \A q \in Players : buffer[q] # Blank => buf[q] # Blank
      BY <1>1, <1>2, <2>1, <3>2, <3>4 DEF Entry
    <3> HIDE DEF buf
    <3> QED
      BY <1>1, <1>2, <1>3, <3>1, <3>5, <3>6, <3>7, ResumeKeepsOrder
  <2>3. CASE ~IdlesLeaver(p)
    <3>1. ResumeTurns(turnQueue, buffer)
      BY <1>3, <2>3 DEF Disconnect
    <3> QED
      BY <1>1, <1>2, <1>3, <2>1, <3>1, ResumeKeepsOrder
  <2> QED
    BY <2>2, <2>3
<1>4. CASE phase # "ACTIVE_TURN"
  <2>1. SameTable
    BY <1>1, <1>4 DEF Disconnect, SameTable, turn
  <2> QED
    BY <2>1, SameTableKeeps
<1> QED
  BY <1>3, <1>4

LEMMA AcceptAtTable ==
    ASSUME SessionInv, OrderInv, NEW s \in submissions, AcceptAction(s)
    PROVE  OrderInv' /\ TableStep
<1> DEFINE p == s.client
           buf == [buffer EXCEPT ![p] = s.round]
<1>1. /\ UNCHANGED <<joinOrder, connected, roundCounter>> /\ phase = "ACTIVE_TURN"
      /\ p = active /\ p \in connected
      /\ ResumeTurns(Rotate(turnQueue, 1), buf)
  BY DEF AcceptAction, ActionAllowed, party
<1>2. /\ turnQueue \in Seq(Players) /\ buffer \in [Players -> Entry]
      /\ joinOrder \in Seq(Players) /\ s \in Submission
      /\ Range(turnQueue) = Joined /\ connected \subseteq Joined
      /\ connected' \in SUBSET Joined /\ p \in Players
  BY <1>1 DEF SessionInv, TypeOK, TurnInv, SeatsKept
<1>3. s.round \in Entry /\ s.round # Blank
  BY <1>2 DEF Submission, Entry, Blank
<1>4. /\ ActedInOrder(turnQueue, buffer, joinOrder)
      /\ \A q \in Players : buffer[q] # Blank => q \in Joined
  BY <1>1 DEF OrderInv, JoinOrderKept, ActedInOrder, EntriesOfMembers
<1>5. turnQueue # <<>> /\ turnQueue[1] = p /\ buffer[p] = Blank
  BY <1>1 DEF SessionInv, TurnInv, TurnIsPlayable
<1>6. Distinct(joinOrder)
  BY DEF OrderInv, SeatsAreDistinct, Distinct
<1>7. ActedInOrder(Rotate(turnQueue, 1), buf, joinOrder)
  BY <1>2, <1>3, <1>4, <1>5, <1>6, ActInOrder
<1>8. Rotate(turnQueue, 1) \in Seq(Players) /\ Range(Rotate(turnQueue, 1)) = Joined
  BY <1>2, RotateOnce
<1>9. /\ buf \in [Players -> Entry]
      /\ \A q \in Players : buf[q] # Blank => q \in Joined
      /\ \A q \in Players : buffer[q] # Blank => buf[q] # Blank
  BY <1>1, <1>2, <1>3, <1>4
<1> HIDE DEF buf
<1> QED
  BY <1>1, <1>2, <1>7, <1>8, <1>9, ResumeKeepsOrder

\* The opening: the lobby becomes the first round.
LEMMA CommitStartAtTable ==
    ASSUME SessionInv, OrderInv, NEW j \in jobs, CommitStart(j)
    PROVE  OrderInv' /\ TableStep
<1> DEFINE next == NextTurn(turnQueue, connected, buffer)
<1>1. /\ phase' = "ACTIVE_TURN" /\ turnQueue' = next.queue /\ buffer' = next.buffer
      /\ Current(j.epoch) /\ j.stage = "archiving"
      /\ UNCHANGED <<joinOrder, connected, pending, roundCounter>>
  BY DEF CommitStart, round
<1>2. phase = "AWAITING_LLM" /\ pending = NoRound
  <2>1. phase = "AWAITING_LLM"
    BY <1>1, CommitterIsCurrent DEF SessionInv, Unsettled
  <2>2. j.kind = "start"
    BY <1>1 DEF SessionInv, JobInv, KindMatchesPending
  <2> QED
    BY <1>1, <2>1, <2>2 DEF SessionInv, JobInv, KindMatchesPending
<1>3. turnQueue = joinOrder /\ buffer = EmptyBuffer
  BY <1>2 DEF OrderInv, LobbyIsInOrder, NothingTold, SessionInv, RoundInv,
              PreparationIsEmpty
<1>4. TableIsLaid'
  BY <1>1, <1>2 DEF OrderInv, TableIsLaid
<1>5. OrderInv' /\ Acted' \in (SUBSET Joined) \ {Joined}
  BY <1>1, <1>3, <1>4, FreshRoundInOrder
<1>6. TableStage = "lobby" /\ TableStage' = "acting" /\ Joined' = Joined
  BY <1>1, <1>2 DEF TableStage, Joined
<1>7. Table!Open
  BY <1>1, <1>5, <1>6 DEF Table!Open, Table!Deal, Acted
<1> QED
  BY <1>5, <1>7 DEF TableStep, Table!TableNext

\* The commit of a round resolves it and deals the next.
LEMMA CommitRoundAtTable ==
    ASSUME SessionInv, OrderInv, NEW j \in jobs, CommitRound(j)
    PROVE  OrderInv' /\ TableStep
<1>1. /\ phase' = "ACTIVE_TURN" /\ turnQueue' = NewRound.queue /\ buffer' = NewRound.buffer
      /\ Current(j.epoch) /\ j.stage = "working" /\ j.kind = "round"
      /\ UNCHANGED <<joinOrder, connected>> /\ roundCounter' = roundCounter + 1
  BY DEF CommitRound, Committing
<1>2. phase = "AWAITING_LLM" /\ pending # NoRound
  BY <1>1, CommitterIsCurrent DEF SessionInv, Unsettled, JobInv, KindMatchesPending
<1>3. TableIsLaid'
  BY <1>1, <1>2 DEF OrderInv, TableIsLaid
<1>4. OrderInv' /\ Acted' \in (SUBSET Joined) \ {Joined}
  BY <1>1, <1>3, FreshRoundInOrder DEF NewRound
<1>5. TableStage = "resolving" /\ TableStage' = "acting" /\ Joined' = Joined
  BY <1>1, <1>2 DEF TableStage, Joined
<1>6. Table!Resolve
  BY <1>1, <1>4, <1>5 DEF Table!Resolve, Table!Deal, Acted
<1> QED
  BY <1>4, <1>6 DEF TableStep, Table!TableNext

\* Steps between the phases before the opening, and the relaunch of a paused round.
LEMMA PreparationKeepsTable ==
    ASSUME OrderInv, UNCHANGED <<joinOrder, turnQueue, buffer, roundCounter, pending>>,
           phase \notin {"AWAITING_HOST", "ACTIVE_TURN", "ENDED"},
           phase' \notin {"AWAITING_HOST", "ACTIVE_TURN", "ENDED"}, phase' \in Phases,
           phase \in Phases,
           \/ pending = NoRound
           \/ phase = "AWAITING_LLM" /\ phase' = "AWAITING_LLM"
    PROVE  OrderInv' /\ TableStep
<1>1. OrderInv'
  BY DEF OrderInv, SeatsAreDistinct, TableIsLaid, LobbyIsInOrder, NothingTold,
         JoinOrderKept, SomeoneToAct, EntriesOfMembers, Joined, Phases
<1>2. TableStage' = TableStage
  BY DEF TableStage, Phases
<1> QED
  BY <1>1, <1>2, TableStutters

LEMMA ClientAtTable ==
    ASSUME SessionInv, OrderInv, NEW p \in Players, ClientStep(p)
    PROVE  OrderInv' /\ TableStep
<1>1. CASE Join(p)
  BY <1>1, JoinAtTable
<1>2. CASE Reconnect(p)
  BY <1>2, ReconnectAtTable
<1>3. CASE \/ \E how \in Losses : LoseSocket(p, how)
           \/ \E n \in {roundCounter, roundCounter + 1} \ {0} : Submit(p, n)
           \/ RequestRetry(p) \/ RequestEnd(p)
  <2>1. SameTable
    BY <1>3 DEF LoseSocket, Submit, RequestRetry, RequestEnd, SameTable, party, turn, round
  <2> QED
    BY <2>1, SameTableKeeps
<1>4. CASE InitializeScenario(p) \/ StartGame(p)
  <2>1. /\ UNCHANGED <<joinOrder, turnQueue, buffer, roundCounter, pending>>
        /\ phase \in {"SCENARIO_INJECTION", "AWAITING_PLAYERS"}
        /\ phase' = "AWAITING_LLM"
    BY <1>4 DEF InitializeScenario, StartGame, LaunchJob, party, turn
  <2>2. pending = NoRound
    BY <2>1 DEF SessionInv, RoundInv, PendingIsComplete
  <2> QED
    BY <2>1, <2>2, PreparationKeepsTable DEF Phases
<1> QED
  BY <1>1, <1>2, <1>3, <1>4 DEF ClientStep

LEMMA RequestAtTable ==
    ASSUME SessionInv, OrderInv, RequestStep
    PROVE  OrderInv' /\ TableStep
<1>1. ASSUME NEW d \in leavers, Disconnect(d)
      PROVE  OrderInv' /\ TableStep
  BY <1>1, DisconnectAtTable
<1>2. ASSUME NEW s \in submissions, AcceptAction(s)
      PROVE  OrderInv' /\ TableStep
  BY <1>2, AcceptAtTable
<1>3. CASE \/ \E g \in greetings : AnnounceReturn(g)
           \/ \E d \in leavers : IgnoreDisconnect(d)
           \/ \E s \in submissions : RejectAction(s) \/ AbandonAction(s)
           \/ \E r \in retries : RefuseRetry(r)
  <2>1. SameTable
    BY <1>3 DEF AnnounceReturn, IgnoreDisconnect, RejectAction, AbandonAction, RefuseRetry, SameTable,
                party, turn, round
  <2> QED
    BY <2>1, SameTableKeeps
<1>4. ASSUME NEW p \in Players, RestoreTurn(p)
      PROVE  OrderInv' /\ TableStep
  <2>1. UNCHANGED <<turnQueue, buffer>>
    <3>1. CASE active = p /\ phase = "ACTIVE_TURN"
      BY <1>4, <3>1, TurnIsSettled DEF RestoreTurn
    <3>2. CASE ~(active = p /\ phase = "ACTIVE_TURN")
      BY <1>4, <3>2 DEF RestoreTurn, turn
    <3> QED
      BY <3>1, <3>2
  <2>2. SameTable
    BY <1>4, <2>1 DEF RestoreTurn, SameTable, party, round
  <2> QED
    BY <2>2, SameTableKeeps
<1>5. ASSUME NEW r \in retries, RelaunchRound(r)
      PROVE  OrderInv' /\ TableStep
  <2>1. /\ UNCHANGED <<joinOrder, turnQueue, buffer, roundCounter, pending>>
        /\ paused /\ phase' = "AWAITING_LLM"
    BY <1>5 DEF RelaunchRound, Relaunchable, LaunchJob, party, turn
  <2>2. phase = "AWAITING_LLM"
    BY <2>1 DEF SessionInv, JobInv, PausedIsRetryable
  <2> QED
    BY <2>1, <2>2, PreparationKeepsTable DEF Phases
<1> QED
  BY <1>1, <1>2, <1>3, <1>4, <1>5 DEF RequestStep

LEMMA JobAtTable ==
    ASSUME SessionInv, OrderInv, NEW j \in jobs, JobStep(j)
    PROVE  OrderInv' /\ TableStep
<1>1. CASE \/ OpenJob(j) \/ RetryAttempt(j) \/ FailWork(j) \/ CancelJob(j) \/ DropResult(j)
           \/ BeginArchive(j) \/ FailArchive(j) \/ Deliver(j) \/ FinishDelivery(j)
           \/ MissDeadline(j) \/ AbandonFailure(j) \/ EndJob(j)
  <2>1. SameTable
    BY <1>1 DEF OpenJob, RetryAttempt, FailWork, CancelJob, DropResult, BeginArchive,
                FailArchive, Deliver, FinishDelivery, MissDeadline, AbandonFailure, EndJob,
                SameTable, party, turn, round
  <2> QED
    BY <2>1, SameTableKeeps
<1>2. ASSUME NEW outcome \in DiceOutcomes, PlanDice(j, outcome)
      PROVE  OrderInv' /\ TableStep
  <2>1. /\ UNCHANGED <<phase, joinOrder, turnQueue, buffer, roundCounter>>
        /\ pending' = [pending EXCEPT !.dice = outcome]
    BY <1>2 DEF PlanDice, party, turn
  <2>2. pending # NoRound
    <3>1. j.stage = "working" /\ j.kind = "round"
      BY <1>2 DEF PlanDice
    <3> QED
      BY <3>1 DEF SessionInv, JobInv, KindMatchesPending, Unsettled
  <2>3. pending.actions # EmptyBuffer /\ pending'.actions = pending.actions
    BY <2>1, <2>2 DEF SessionInv, TypeOK, Round, RoundInv, PendingHasActions
  <2>4. SameTable
    BY <2>1, <2>2, <2>3 DEF SameTable, NoRound
  <2> QED
    BY <2>4, SameTableKeeps
<1>3. CASE OpenLobby(j)
  <2>1. /\ UNCHANGED <<joinOrder, turnQueue, buffer, roundCounter, pending>>
        /\ phase' = "AWAITING_PLAYERS" /\ Current(j.epoch)
        /\ j.stage = "working" /\ j.kind = "scenario"
    BY <1>3 DEF OpenLobby, Committing, party, turn, round
  <2>2. phase = "AWAITING_LLM" /\ pending = NoRound
    BY <2>1, CommitterIsCurrent DEF SessionInv, Unsettled, JobInv, KindMatchesPending
  <2> QED
    BY <2>1, <2>2, PreparationKeepsTable DEF Phases
<1>4. CASE CommitStart(j)
  BY <1>4, CommitStartAtTable
<1>5. CASE CommitRound(j)
  BY <1>5, CommitRoundAtTable
<1>6. CASE Rollback(j)
  <2>1. /\ UNCHANGED <<joinOrder, turnQueue, buffer, roundCounter, pending>>
        /\ phase = "AWAITING_LLM" /\ Current(j.epoch)
        /\ phase' = CASE j.kind = "scenario" -> "SCENARIO_INJECTION"
                      [] j.kind = "start"    -> "AWAITING_PLAYERS"
                      [] j.kind = "round"    -> "AWAITING_LLM"
    BY <1>6 DEF Rollback, party, turn
  <2>2. j.kind \in {"scenario", "start", "round"}
    BY DEF SessionInv, TypeOK, Job
  <2>3. j.kind # "round" => pending = NoRound
    BY <2>1 DEF SessionInv, JobInv, KindMatchesPending
  <2>4. CASE j.kind = "round"
    BY <2>1, <2>4, PreparationKeepsTable DEF Phases
  <2>5. CASE j.kind # "round"
    <3>1. phase' \in {"SCENARIO_INJECTION", "AWAITING_PLAYERS"}
      BY <2>1, <2>2, <2>5
    <3> QED
      BY <2>1, <2>3, <2>5, <3>1, PreparationKeepsTable DEF Phases
  <2> QED
    BY <2>4, <2>5
<1>7. CASE Recover(j)
  <2>1. UNCHANGED <<turnQueue, buffer>>
    <3>1. CASE phase = "ACTIVE_TURN"
      BY <1>7, <3>1, TurnIsSettled DEF Recover
    <3>2. CASE phase # "ACTIVE_TURN"
      BY <1>7, <3>2 DEF Recover
    <3> QED
      BY <3>1, <3>2
  <2>2. SameTable
    BY <1>7, <2>1 DEF Recover, SameTable, party, round
  <2> QED
    BY <2>2, SameTableKeeps
<1> QED
  BY <1>1, <1>2, <1>3, <1>4, <1>5, <1>6, <1>7 DEF JobStep

LEMMA ShutdownAtTable ==
    ASSUME SessionInv, OrderInv, ShutdownStep
    PROVE  OrderInv' /\ TableStep
<1>1. CASE StopServer \/ BeginShutdown \/ DeliverBeforeEnd \/ AnnounceEnd
  <2>1. SameTable
    BY <1>1 DEF StopServer, BeginShutdown, DeliverBeforeEnd, AnnounceEnd, SameTable,
                party, turn, round
  <2> QED
    BY <2>1, SameTableKeeps
<1>2. CASE EndSession
  <2>1. /\ UNCHANGED <<joinOrder, turnQueue, buffer, pending, roundCounter>>
        /\ phase' = "ENDED"
    BY <1>2 DEF EndSession, party
  <2>2. OrderInv'
    BY <2>1 DEF OrderInv, SeatsAreDistinct, TableIsLaid, LobbyIsInOrder, NothingTold,
                JoinOrderKept, SomeoneToAct, EntriesOfMembers, Joined
  <2>3. TableStage' = "over"
    BY <2>1 DEF TableStage
  <2>4. CASE phase = "ENDED"
    BY <2>1, <2>2, <2>3, <2>4, TableStutters DEF TableStage
  <2>5. CASE phase # "ENDED"
    <3>1. TableStage # "over"
      BY <2>5 DEF TableStage
    <3>2. Table!End
      BY <2>1, <2>3, <3>1 DEF Table!End, Joined
    <3> QED
      BY <2>2, <3>2 DEF TableStep, Table!TableNext
  <2> QED
    BY <2>4, <2>5
<1> QED
  BY <1>1, <1>2 DEF ShutdownStep

LEMMA StepAtTable ==
    ASSUME SessionInv, OrderInv, [Next]_vars
    PROVE  OrderInv' /\ TableStep
<1>1. CASE UNCHANGED vars
  <2>1. SameTable
    BY <1>1 DEF vars, SameTable, party, turn, round
  <2> QED
    BY <2>1, SameTableKeeps
<1> QED
  BY <1>1, ClientAtTable, RequestAtTable, JobAtTable, ShutdownAtTable DEF Next

LEMMA InitAtTable == Init => OrderInv /\ Table!TableInit
<1> SUFFICES ASSUME Init PROVE OrderInv /\ Table!TableInit
  OBVIOUS
<1>1. /\ phase = "AWAITING_HOST" /\ joinOrder = <<>> /\ turnQueue = <<>>
      /\ buffer = EmptyBuffer /\ roundCounter = 0
  BY DEF Init
<1>2. Joined = {}
  BY <1>1 DEF Joined, Range
<1>3. OrderInv
  BY <1>1, EmptyBufferIsBlank
     DEF OrderInv, SeatsAreDistinct, TableIsLaid, LobbyIsInOrder, JoinOrderKept,
         SomeoneToAct, EntriesOfMembers
<1>4. Table!TableInit
  BY <1>1, <1>2, EmptyBufferIsBlank DEF Table!TableInit, TableStage
<1> QED
  BY <1>3, <1>4

\* Players act in the order they joined: the queue is join_order turned past exactly those
\* who have an entry, whoever leaves, returns or is idled (_next_turn_locked).
THEOREM PlayersActInOrder == Spec => []JoinOrderKept
<1>1. Init => OrderInv
  BY InitAtTable
<1>2. SessionInv /\ OrderInv /\ [Next]_vars => OrderInv'
  BY StepAtTable
<1>3. OrderInv => JoinOrderKept
  BY DEF OrderInv
<1> QED
  BY <1>1, <1>2, <1>3, SessionCorrect, PTL DEF Spec

\* The session implements RoundTable: every step of the engine, its jobs and its players
\* is a step of the table or changes nothing the table knows of.
THEOREM SessionPlaysRounds == Spec => PlaysRounds
<1>1. Init => OrderInv /\ Table!TableInit
  BY InitAtTable
<1>2. SessionInv /\ OrderInv /\ [Next]_vars => OrderInv'
  BY StepAtTable
<1>3. SessionInv /\ OrderInv /\ [Next]_vars => [Table!TableNext]_(Table!tableVars)
  BY StepAtTable DEF TableStep
<1> QED
  BY <1>1, <1>2, <1>3, SessionCorrect, PTL DEF Spec, PlaysRounds, Table!TableSpec

-----------------------------------------------------------------------------
(* Departures and returns are told *)

\* What TransitionsSurvive says of a step.
TransitionsTold ==
    \A p \in Players :
        /\ p \in departed \ departed' =>
              phase' = "ACTIVE_TURN" /\
              (roundCounter' = roundCounter => shown = -1 /\ p \in connected)
        /\ p \in (departed \ departed') \cup (returned \ returned') /\ roundCounter' # roundCounter
              => [player |-> p, departed |-> p \in departed,
                  returned |-> p \in returned, version |-> version[p]]
                      \in pending.participants

\* Preparing goes on without an outcome, or has not begun again.
StillUntold ==
    NothingTold' =>
        /\ NothingTold
        /\ UNCHANGED <<shown, pendingDelivery>> \/ pendingDelivery # <<>>

LEMMA StillNothingTold ==
    ASSUME TransitionInv, StillUntold
    PROVE  NothingTold' => shown' = -1 /\ pendingDelivery' = <<>>
BY DEF TransitionInv, StillUntold

\* Steps that neither change a player's presence nor what is frozen of it.
LEMMA TransitionsKept ==
    ASSUME TransitionInv, StillUntold, UNCHANGED <<version, departed, returned>>,
           Joined \subseteq Joined', pending'.participants = pending.participants
    PROVE  TransitionInv' /\ TransitionsTold
<1>1. FrozenIsCurrent' /\ departed' \subseteq Joined'
  BY DEF TransitionInv, FrozenIsCurrent
<1>2. TransitionInv'
  BY <1>1, StillNothingTold DEF TransitionInv
<1>3. TransitionsTold
  BY DEF TransitionsTold
<1> QED
  BY <1>2, <1>3

\* No step after the opening goes back to preparing.
LEMMA PlayGoesOn ==
    ASSUME ~NothingTold, UNCHANGED <<phase, pending>>
    PROVE  StillUntold
BY DEF NothingTold, StillUntold

LEMMA SamePhaseUntold ==
    ASSUME UNCHANGED <<phase, pending>>,
           UNCHANGED <<shown, pendingDelivery>> \/ pendingDelivery # <<>>
    PROVE  StillUntold
BY DEF NothingTold, StillUntold

\* A launched round freezes what is true of the players then.
LEMMA ResumeFreezes ==
    ASSUME SessionInv, NEW queue \in Seq(Players), NEW buf \in [Players -> Entry],
           phase = "ACTIVE_TURN", joinOrder' = joinOrder, connected' \in SUBSET Joined,
           Range(queue) = Joined, version' \in [Players -> Nat], ResumeTurns(queue, buf)
    PROVE  StillUntold /\ FrozenIsCurrent'
<1>1. joinOrder \in Seq(Players) /\ Joined' = Joined /\ Joined \in SUBSET Players
  BY RangeOfSequence DEF SessionInv, TypeOK, Joined
<1>2. pending = NoRound
  BY DEF SessionInv, RoundInv, PendingIsComplete
<1>3. RoundLaunched \/ TurnPassed
  BY <1>1, ResumeTurnsEffect
<1>4. StillUntold
  <2>1. CASE RoundLaunched
    <3>1. phase' = "AWAITING_LLM" /\ pending'.actions # EmptyBuffer
      BY <2>1 DEF RoundLaunched, LaunchJob
    <3> QED
      BY <3>1 DEF StillUntold, NothingTold, NoRound
  <2>2. CASE TurnPassed
    BY <2>2 DEF TurnPassed, StillUntold, NothingTold
  <2> QED
    BY <1>3, <2>1, <2>2
<1>5. pending'.participants = {} \/ pending'.participants = Participants'
  BY <1>2 DEF ResumeTurns, NoRound
<1>6. ASSUME NEW x \in Participants'
      PROVE  /\ x.version <= version'[x.player]
             /\ x.departed = (x.player \in departed') /\ x.returned = (x.player \in returned')
  <2>1. PICK p \in Joined : x = [player |-> p, departed |-> p \in departed',
                                 returned |-> p \in returned', version |-> version'[p]]
    BY <1>1 DEF Participants
  <2>2. version'[p] \in Nat
    BY <1>1
  <2>3. x.player = p /\ x.version = version'[p]
    BY <2>1
  <2>4. x.departed = (p \in departed') /\ x.returned = (p \in returned')
    BY <2>1, Zenon
  <2> QED
    BY <2>2, <2>3, <2>4
<1>7. FrozenIsCurrent'
  BY <1>5, <1>6 DEF FrozenIsCurrent
<1> QED
  BY <1>4, <1>7

\* A change of presence outdates what is frozen of that player only.
LEMMA NewVersionFreezes ==
    ASSUME TypeOK, FrozenIsCurrent, pending' = pending, NEW p \in Players,
           version' = [version EXCEPT ![p] = @ + 1],
           \A q \in Players \ {p} : /\ q \in departed' <=> q \in departed
                                    /\ q \in returned' <=> q \in returned
    PROVE  FrozenIsCurrent'
<1>1. version \in [Players -> Nat]
  BY DEF TypeOK
<1>2. \A x \in pending.participants : x.player \in Players /\ x.version \in Nat
  BY DEF TypeOK, Round, Participant
<1>3. ASSUME NEW x \in pending.participants
      PROVE  /\ x.version <= version'[x.player]
             /\ x.version = version'[x.player] =>
                   /\ x.departed = (x.player \in departed')
                   /\ x.returned = (x.player \in returned')
  <2>1. CASE x.player = p
    <3>1. version'[p] = version[p] + 1 /\ x.version <= version[p]
      BY <1>1, <2>1 DEF FrozenIsCurrent
    <3> QED
      BY <1>1, <1>2, <2>1, <3>1
  <2>2. CASE x.player # p
    <3>1. version'[x.player] = version[x.player] /\ x.player \in Players \ {p}
      BY <1>1, <1>2, <2>2
    <3>2. /\ (x.player \in departed') = (x.player \in departed)
          /\ (x.player \in returned') = (x.player \in returned)
      BY <3>1
    <3> QED
      BY <3>1, <3>2 DEF FrozenIsCurrent
  <2> QED
    BY <2>1, <2>2
<1> QED
  BY <1>3 DEF FrozenIsCurrent

LEMMA ReconnectTransitions ==
    ASSUME SessionInv, SessionInv', TransitionInv, NEW p \in Players, Reconnect(p)
    PROVE  TransitionInv' /\ TransitionsTold
<1>1. /\ UNCHANGED <<joinOrder, departed, roundCounter, shown, pendingDelivery>>
      /\ returned \subseteq returned' /\ p \in Joined
      /\ connected' = connected \cup {p}
      /\ IF p \in connected THEN version' = version /\ returned' = returned
         ELSE /\ version' = [version EXCEPT ![p] = @ + 1]
              /\ returned' \in {returned, returned \cup {p}}
  BY DEF Reconnect, output
<1>2. /\ TypeOK /\ turnQueue \in Seq(Players) /\ buffer \in [Players -> Entry]
      /\ Range(turnQueue) = Joined /\ connected' \in SUBSET Joined
      /\ version' \in [Players -> Nat]
  BY <1>1 DEF SessionInv, TypeOK, TurnInv, SeatsKept
<1>3. StillUntold /\ FrozenIsCurrent'
  <2>1. CASE TurnStalled
    <3>1. ResumeTurns(turnQueue, buffer) /\ phase = "ACTIVE_TURN"
      BY <2>1 DEF Reconnect, TurnStalled
    <3> QED
      BY <1>1, <1>2, <3>1, ResumeFreezes
  <2>2. CASE ~TurnStalled
    <3>1. UNCHANGED <<phase, pending>>
      BY <2>2 DEF Reconnect
    <3>2. StillUntold
      BY <1>1, <3>1, SamePhaseUntold
    <3>3. FrozenIsCurrent
      BY DEF TransitionInv
    <3>4. ASSUME p \in connected PROVE FrozenIsCurrent'
      <4>1. UNCHANGED <<version, returned, departed, pending>>
        BY <1>1, <3>1, <3>4
      <4> QED
        BY <3>3, <4>1 DEF FrozenIsCurrent
    <3>5. ASSUME p \notin connected PROVE FrozenIsCurrent'
      <4>1. version' = [version EXCEPT ![p] = @ + 1] /\ UNCHANGED <<departed, pending>>
        BY <1>1, <3>1, <3>5
      <4>2. /\ version'[p] = version[p] + 1
            /\ \A q \in Players \ {p} :
                  /\ version'[q] = version[q]
                  /\ q \in departed' <=> q \in departed
                  /\ q \in returned' <=> q \in returned
        BY <1>1, <1>2, <3>5, <4>1 DEF TypeOK
      <4> QED
        BY <1>2, <3>3, <4>1, <4>2, NewVersionFreezes
    <3> QED
      BY <3>2, <3>4, <3>5
  <2> QED
    BY <2>1, <2>2
<1>4. departed' \subseteq Joined'
  BY <1>1 DEF TransitionInv, Joined
<1> QED
  BY <1>1, <1>3, <1>4, StillNothingTold DEF TransitionInv, TransitionsTold

LEMMA DisconnectTransitions ==
    ASSUME SessionInv, SessionInv', TransitionInv, NEW d \in leavers, Disconnect(d)
    PROVE  TransitionInv' /\ TransitionsTold
<1> DEFINE p == d.client
<1>1. /\ UNCHANGED <<joinOrder, roundCounter, shown, pendingDelivery>>
      /\ connected' = connected \ {p} /\ p \in connected
      /\ version' = [version EXCEPT ![p] = @ + 1]
      /\ departed' = departed \cup {p} /\ returned' = returned \ {p}
  BY DEF Disconnect, StillLost
<1>2. /\ TypeOK /\ turnQueue \in Seq(Players) /\ buffer \in [Players -> Entry]
      /\ Range(turnQueue) = Joined /\ connected \subseteq Joined
      /\ connected' \in SUBSET Joined /\ version' \in [Players -> Nat] /\ p \in Players
  BY <1>1 DEF SessionInv, TypeOK, TurnInv, SeatsKept
<1>3. StillUntold /\ FrozenIsCurrent'
  <2>1. CASE phase = "ACTIVE_TURN" /\ IdlesLeaver(p)
    <3>1. ResumeTurns(Rotate(turnQueue, 1), [buffer EXCEPT ![p] = Idle])
      BY <2>1 DEF Disconnect
    <3>2. /\ Rotate(turnQueue, 1) \in Seq(Players)
          /\ Range(Rotate(turnQueue, 1)) = Joined
          /\ [buffer EXCEPT ![p] = Idle] \in [Players -> Entry]
      BY <1>2, RotateOnce DEF Entry
    <3> QED
      BY <1>1, <1>2, <2>1, <3>1, <3>2, ResumeFreezes
  <2>2. CASE phase = "ACTIVE_TURN" /\ ~IdlesLeaver(p)
    <3>1. ResumeTurns(turnQueue, buffer)
      BY <2>2 DEF Disconnect
    <3> QED
      BY <1>1, <1>2, <2>2, <3>1, ResumeFreezes
  <2>3. CASE phase # "ACTIVE_TURN"
    <3>1. UNCHANGED <<phase, pending>>
      BY <2>3 DEF Disconnect
    <3>2. StillUntold
      BY <1>1, <3>1, SamePhaseUntold
    <3>3. FrozenIsCurrent
      BY DEF TransitionInv
    <3> QED
      BY <1>1, <1>2, <3>1, <3>2, <3>3, NewVersionFreezes
  <2> QED
    BY <2>1, <2>2, <2>3
<1>4. departed' \subseteq Joined'
  BY <1>1, <1>2 DEF TransitionInv, Joined
<1>5. TransitionsTold
  BY <1>1 DEF TransitionsTold
<1> QED
  BY <1>3, <1>4, <1>5, StillNothingTold DEF TransitionInv

\* The opening tells everybody who is there; who is away is still to be told.
LEMMA CommitStartTransitions ==
    ASSUME SessionInv, TransitionInv, NEW j \in jobs, CommitStart(j)
    PROVE  TransitionInv' /\ TransitionsTold
<1>1. /\ departed' = Joined \ connected /\ phase' = "ACTIVE_TURN" /\ Current(j.epoch)
      /\ j.stage = "archiving"
      /\ UNCHANGED <<joinOrder, connected, version, pending, roundCounter>>
  BY DEF CommitStart, round
<1>2. phase = "AWAITING_LLM" /\ pending = NoRound
  <2>1. phase = "AWAITING_LLM"
    BY <1>1, CommitterIsCurrent DEF SessionInv, Unsettled
  <2>2. j.kind = "start"
    BY <1>1 DEF SessionInv, JobInv, KindMatchesPending
  <2> QED
    BY <1>1, <2>1, <2>2 DEF SessionInv, JobInv, KindMatchesPending
<1>3. shown = -1 /\ departed \subseteq Joined
  BY <1>2 DEF TransitionInv, NothingTold
<1>4. TransitionInv'
  BY <1>1, <1>2 DEF TransitionInv, FrozenIsCurrent, NothingTold, NoRound, Joined
<1>5. TransitionsTold
  BY <1>1, <1>3 DEF TransitionsTold
<1> QED
  BY <1>4, <1>5

\* A round forgets only what it froze, as it was when it was frozen.
LEMMA CommitRoundTransitions ==
    ASSUME SessionInv, TransitionInv, NEW j \in jobs, CommitRound(j)
    PROVE  TransitionInv' /\ TransitionsTold
<1>1. /\ phase' = "ACTIVE_TURN" /\ pending' = NoRound /\ joinOrder' = joinOrder
      /\ departed' = {p \in departed : ~Reported(p, "departed")}
      /\ returned' = {p \in returned : ~Reported(p, "returned")}
      /\ roundCounter' = roundCounter + 1 /\ roundCounter \in Nat
  BY DEF CommitRound, SessionInv, TypeOK
<1>2. TransitionInv'
  BY <1>1 DEF TransitionInv, FrozenIsCurrent, NothingTold, NoRound, Joined
<1>3. ASSUME NEW p \in Players, NEW x \in pending.participants,
             x.player = p, x.version = version[p]
      PROVE  x = [player |-> p, departed |-> p \in departed,
                  returned |-> p \in returned, version |-> version[p]]
  <2>1. x \in Participant
    BY DEF SessionInv, TypeOK, Round
  <2>2. x = [player |-> x.player, departed |-> x.departed, returned |-> x.returned,
             version |-> x.version]
    BY <2>1 DEF Participant
  <2>3. x.departed = (p \in departed) /\ x.returned = (p \in returned)
    BY <1>3 DEF TransitionInv, FrozenIsCurrent
  <2> QED
    BY <1>3, <2>2, <2>3
<1>4. ASSUME NEW p \in Players, p \in (departed \ departed') \cup (returned \ returned')
      PROVE  \E x \in pending.participants : x.player = p /\ x.version = version[p]
  BY <1>1, <1>4 DEF Reported
<1>5. TransitionsTold
  BY <1>1, <1>3, <1>4 DEF TransitionsTold
<1> QED
  BY <1>2, <1>5

LEMMA ClientTransitions ==
    ASSUME SessionInv, SessionInv', TransitionInv, NEW p \in Players, ClientStep(p)
    PROVE  TransitionInv' /\ TransitionsTold
<1>1. CASE Reconnect(p)
  BY <1>1, ReconnectTransitions
<1>2. CASE Join(p)
  <2>1. /\ UNCHANGED <<version, departed, returned, pending, shown, pendingDelivery>>
        /\ joinOrder' = Append(joinOrder, p)
        /\ phase \in {"AWAITING_HOST", "AWAITING_PLAYERS"}
    BY <1>2 DEF Join, round, output
  <2>2. Joined \subseteq Joined'
    BY <2>1, RangeAppend DEF SessionInv, TypeOK, Joined
  <2>3. StillUntold
    BY <2>1 DEF StillUntold, NothingTold
  <2> QED
    BY <2>1, <2>2, <2>3, TransitionsKept
<1>3. CASE \/ \E how \in Losses : LoseSocket(p, how)
           \/ \E n \in {roundCounter, roundCounter + 1} \ {0} : Submit(p, n)
           \/ RequestRetry(p) \/ RequestEnd(p)
  <2>1. UNCHANGED <<phase, joinOrder, version, departed, returned, pending, shown,
                    pendingDelivery>>
    BY <1>3 DEF LoseSocket, Submit, RequestRetry, RequestEnd, party, round, output
  <2> QED
    BY <2>1, SamePhaseUntold, TransitionsKept DEF Joined
<1>4. CASE InitializeScenario(p) \/ StartGame(p)
  <2>1. /\ UNCHANGED <<joinOrder, version, departed, returned, pending, shown,
                       pendingDelivery>>
        /\ phase \in {"SCENARIO_INJECTION", "AWAITING_PLAYERS"}
    BY <1>4 DEF InitializeScenario, StartGame, party, output
  <2>2. StillUntold
    BY <2>1 DEF StillUntold, NothingTold
  <2> QED
    BY <2>1, <2>2, TransitionsKept DEF Joined
<1> QED
  BY <1>1, <1>2, <1>3, <1>4 DEF ClientStep

LEMMA RequestTransitions ==
    ASSUME SessionInv, SessionInv', TransitionInv, RequestStep
    PROVE  TransitionInv' /\ TransitionsTold
<1>1. ASSUME NEW d \in leavers, Disconnect(d)
      PROVE  TransitionInv' /\ TransitionsTold
  BY <1>1, DisconnectTransitions
<1>2. ASSUME NEW s \in submissions, AcceptAction(s)
      PROVE  TransitionInv' /\ TransitionsTold
  <2> DEFINE buf == [buffer EXCEPT ![s.client] = s.round]
  <2>1. /\ UNCHANGED <<joinOrder, connected, version, departed, returned, shown,
                       pendingDelivery>>
        /\ phase = "ACTIVE_TURN" /\ ResumeTurns(Rotate(turnQueue, 1), buf)
    BY <1>2 DEF AcceptAction, ActionAllowed, party
  <2>2. /\ turnQueue \in Seq(Players) /\ buffer \in [Players -> Entry]
        /\ Range(turnQueue) = Joined /\ connected' \in SUBSET Joined
        /\ version' \in [Players -> Nat] /\ s \in Submission
    BY <2>1 DEF SessionInv, TypeOK, TurnInv, SeatsKept
  <2>3. /\ Rotate(turnQueue, 1) \in Seq(Players) /\ Range(Rotate(turnQueue, 1)) = Joined
        /\ buf \in [Players -> Entry]
    BY <2>2, RotateOnce DEF Submission, Entry
  <2> HIDE DEF buf
  <2>4. StillUntold /\ FrozenIsCurrent'
    BY <2>1, <2>2, <2>3, ResumeFreezes
  <2>5. departed' \subseteq Joined'
    BY <2>1 DEF TransitionInv, Joined
  <2> QED
    BY <2>1, <2>4, <2>5, StillNothingTold DEF TransitionInv, TransitionsTold
<1>3. CASE \/ \E g \in greetings : AnnounceReturn(g)
           \/ \E d \in leavers : IgnoreDisconnect(d)
           \/ \E s \in submissions : RejectAction(s) \/ AbandonAction(s)
           \/ \E p \in Players : RestoreTurn(p)
           \/ \E r \in retries : RefuseRetry(r)
  <2>1. UNCHANGED <<phase, joinOrder, version, departed, returned, pending, shown,
                    pendingDelivery>>
    BY <1>3 DEF AnnounceReturn, IgnoreDisconnect, RejectAction, AbandonAction, RestoreTurn, RefuseRetry,
                party, round, output
  <2> QED
    BY <2>1, SamePhaseUntold, TransitionsKept DEF Joined
<1>4. ASSUME NEW r \in retries, RelaunchRound(r)
      PROVE  TransitionInv' /\ TransitionsTold
  <2>1. /\ UNCHANGED <<joinOrder, version, departed, returned, pending, shown,
                       pendingDelivery>>
        /\ phase' = "AWAITING_LLM" /\ pending # NoRound
    BY <1>4 DEF RelaunchRound, Relaunchable, LaunchJob, party, output
  <2>2. StillUntold
    BY <2>1 DEF StillUntold, NothingTold
  <2> QED
    BY <2>1, <2>2, TransitionsKept DEF Joined
<1> QED
  BY <1>1, <1>2, <1>3, <1>4 DEF RequestStep

LEMMA JobTransitions ==
    ASSUME SessionInv, TransitionInv, NEW j \in jobs, JobStep(j)
    PROVE  TransitionInv' /\ TransitionsTold
<1>1. CASE \/ OpenJob(j) \/ RetryAttempt(j) \/ FailWork(j) \/ CancelJob(j) \/ DropResult(j)
           \/ BeginArchive(j) \/ FailArchive(j) \/ FinishDelivery(j)
           \/ Recover(j) \/ AbandonFailure(j) \/ EndJob(j)
  <2>1. UNCHANGED <<phase, joinOrder, version, departed, returned, pending, shown,
                    pendingDelivery>>
    BY <1>1 DEF OpenJob, RetryAttempt, FailWork, CancelJob, DropResult, BeginArchive,
                FailArchive, FinishDelivery, Recover, AbandonFailure, EndJob,
                party, round, output
  <2> QED
    BY <2>1, SamePhaseUntold, TransitionsKept DEF Joined
<1>2. CASE Deliver(j) \/ MissDeadline(j)
  <2>1. /\ UNCHANGED <<phase, joinOrder, version, departed, returned, pending>>
        /\ UNCHANGED <<shown, pendingDelivery>> \/ pendingDelivery # <<>>
    BY <1>2 DEF Deliver, DeliverHead, MissDeadline, party, round
  <2> QED
    BY <2>1, SamePhaseUntold, TransitionsKept DEF Joined
<1>3. ASSUME NEW outcome \in DiceOutcomes, PlanDice(j, outcome)
      PROVE  TransitionInv' /\ TransitionsTold
  <2>1. /\ UNCHANGED <<phase, joinOrder, version, departed, returned, shown,
                       pendingDelivery>>
        /\ pending' = [pending EXCEPT !.dice = outcome]
    BY <1>3 DEF PlanDice, party, output
  <2>2. pending # NoRound
    <3>1. j.stage = "working" /\ j.kind = "round"
      BY <1>3 DEF PlanDice
    <3> QED
      BY <3>1 DEF SessionInv, JobInv, KindMatchesPending, Unsettled
  <2>3. /\ pending.actions # EmptyBuffer /\ pending'.actions = pending.actions
        /\ pending'.participants = pending.participants
    BY <2>1, <2>2 DEF SessionInv, TypeOK, Round, RoundInv, PendingHasActions
  <2>4. StillUntold
    BY <2>1, <2>2, <2>3 DEF StillUntold, NothingTold, NoRound
  <2> QED
    BY <2>1, <2>3, <2>4, TransitionsKept DEF Joined
<1>4. CASE OpenLobby(j)
  <2>1. /\ UNCHANGED <<joinOrder, version, departed, returned, pending, shown,
                       pendingDelivery>>
        /\ j.stage = "working" /\ j.kind = "scenario" /\ Current(j.epoch)
    BY <1>4 DEF OpenLobby, Committing, party, round, output
  <2>2. phase = "AWAITING_LLM" /\ pending = NoRound
    BY <2>1, CommitterIsCurrent DEF SessionInv, Unsettled, JobInv, KindMatchesPending
  <2>3. StillUntold
    BY <2>1, <2>2 DEF StillUntold, NothingTold
  <2> QED
    BY <2>1, <2>3, TransitionsKept DEF Joined
<1>5. CASE CommitStart(j)
  BY <1>5, CommitStartTransitions
<1>6. CASE CommitRound(j)
  BY <1>6, CommitRoundTransitions
<1>7. CASE Rollback(j)
  <2>1. /\ UNCHANGED <<joinOrder, version, departed, returned, pending, shown,
                       pendingDelivery>>
        /\ phase = "AWAITING_LLM" /\ Current(j.epoch)
        /\ j.kind = "round" => phase' = "AWAITING_LLM"
    BY <1>7 DEF Rollback, party, output
  <2>2. j.kind # "round" => pending = NoRound
    BY <2>1 DEF SessionInv, JobInv, KindMatchesPending
  <2>3. StillUntold
    BY <2>1, <2>2 DEF StillUntold, NothingTold
  <2> QED
    BY <2>1, <2>3, TransitionsKept DEF Joined
<1> QED
  BY <1>1, <1>2, <1>3, <1>4, <1>5, <1>6, <1>7 DEF JobStep

LEMMA ShutdownTransitions ==
    ASSUME SessionInv, TransitionInv, ShutdownStep
    PROVE  TransitionInv' /\ TransitionsTold
<1>1. CASE StopServer \/ BeginShutdown \/ AnnounceEnd \/ DeliverBeforeEnd
  <2>1. /\ UNCHANGED <<phase, joinOrder, version, departed, returned, pending>>
        /\ UNCHANGED <<shown, pendingDelivery>> \/ pendingDelivery # <<>>
    BY <1>1 DEF StopServer, BeginShutdown, AnnounceEnd, DeliverBeforeEnd, DeliverHead,
                party, round, output
  <2> QED
    BY <2>1, SamePhaseUntold, TransitionsKept DEF Joined
<1>2. CASE EndSession
  <2>1. /\ UNCHANGED <<joinOrder, version, departed, returned, pending>> /\ phase' = "ENDED"
    BY <1>2 DEF EndSession, party
  <2>2. StillUntold
    BY <2>1 DEF StillUntold, NothingTold
  <2> QED
    BY <2>1, <2>2, TransitionsKept DEF Joined
<1> QED
  BY <1>1, <1>2 DEF ShutdownStep

LEMMA StepTransitions ==
    ASSUME SessionInv, SessionInv', TransitionInv, [Next]_vars
    PROVE  TransitionInv' /\ TransitionsTold
<1>1. CASE UNCHANGED vars
  <2>1. UNCHANGED <<phase, joinOrder, version, departed, returned, pending, shown,
                    pendingDelivery>>
    BY <1>1 DEF vars, party, round, output
  <2> QED
    BY <2>1, SamePhaseUntold, TransitionsKept DEF Joined
<1> QED
  BY <1>1, ClientTransitions, RequestTransitions, JobTransitions, ShutdownTransitions
  DEF Next

\* A departure or return is forgotten only once it was told: by the opening, or by the
\* round that froze it while it was the player's latest change (_resolve_round_work).
THEOREM TransitionsAreTold == Spec => TransitionsSurvive
<1>1. Init => TransitionInv
  BY DEF Init, TransitionInv, FrozenIsCurrent, NoRound, Joined
<1>2. SessionInv /\ SessionInv' /\ TransitionInv /\ [Next]_vars =>
         TransitionInv' /\ [TransitionsTold]_vars
  BY StepTransitions
<1>3. [TransitionsTold]_vars => [\A p \in Players :
          /\ p \in departed \ departed' =>
                phase' = "ACTIVE_TURN" /\
                (roundCounter' = roundCounter => shown = -1 /\ p \in connected)
          /\ p \in (departed \ departed') \cup (returned \ returned') /\ roundCounter' # roundCounter
                => [player |-> p, departed |-> p \in departed,
                    returned |-> p \in returned, version |-> version[p]]
                        \in pending.participants]_vars
  BY DEF TransitionsTold
<1> QED
  BY <1>1, <1>2, <1>3, SessionCorrect, PTL DEF Spec, TransitionsSurvive

-----------------------------------------------------------------------------
(* effects_lock has one holder *)

\* Steps that hand the lock to nobody.
LEMMA LockUntouched ==
    ASSUME LockInv, \A k \in jobs' : Holds(k) => k \in jobs, effects' = effects,
           pendingDelivery' = pendingDelivery \/ pendingDelivery' = <<>>
                \/ effects # "finalizing"
    PROVE  LockInv'
BY DEF LockInv, Holds

\* A job that waited for the lock takes it, or goes on under it.
LEMMA LockTaken ==
    ASSUME LockInv, NEW j \in jobs, NEW k, jobs' = (jobs \ {j}) \cup {k},
           effects = "free" \/ Holds(j), effects' = "job"
    PROVE  LockInv'
<1>1. \A i \in jobs \ {j} : ~Holds(i)
  BY DEF LockInv
<1> QED
  BY <1>1 DEF LockInv, Holds

\* The holder lets go.
LEMMA LockReleased ==
    ASSUME LockInv, NEW j \in jobs, NEW k, jobs' = (jobs \ {j}) \cup {k},
           Holds(j), ~Holds(k), effects' = "free"
    PROVE  LockInv'
<1>1. \A i \in jobs \ {j} : ~Holds(i)
  BY DEF LockInv
<1> QED
  BY <1>1 DEF LockInv, Holds

LEMMA LaunchHoldsNothing ==
    ASSUME NEW kind, LaunchJob(kind)
    PROVE  \A k \in jobs' : Holds(k) => k \in jobs
BY DEF LaunchJob, Holds

LEMMA ResumeHoldsNothing ==
    ASSUME NEW queue, NEW buf, ResumeTurns(queue, buf)
    PROVE  \A k \in jobs' : Holds(k) => k \in jobs
<1>1. LaunchJob("round") \/ jobs' = jobs
  BY DEF ResumeTurns, work
<1> QED
  BY <1>1, LaunchHoldsNothing

LEMMA ClientLocks ==
    ASSUME LockInv, NEW p \in Players, ClientStep(p)
    PROVE  LockInv'
<1>1. effects' = effects /\ pendingDelivery' = pendingDelivery
  BY DEF ClientStep, Join, Reconnect, LoseSocket, Submit, InitializeScenario, StartGame,
         RequestRetry, RequestEnd, output
<1>2. \A k \in jobs' : Holds(k) => k \in jobs
  <2>1. CASE Reconnect(p)
    <3>1. ResumeTurns(turnQueue, buffer) \/ jobs' = jobs
      BY <2>1 DEF Reconnect, work
    <3> QED
      BY <3>1, ResumeHoldsNothing
  <2>2. CASE InitializeScenario(p) \/ StartGame(p)
    BY <2>2, LaunchHoldsNothing DEF InitializeScenario, StartGame
  <2>3. CASE \/ Join(p) \/ \E how \in Losses : LoseSocket(p, how)
             \/ \E n \in {roundCounter, roundCounter + 1} \ {0} : Submit(p, n)
             \/ RequestRetry(p) \/ RequestEnd(p)
    BY <2>3 DEF Join, LoseSocket, Submit, RequestRetry, RequestEnd, work
  <2> QED
    BY <2>1, <2>2, <2>3 DEF ClientStep
<1> QED
  BY <1>1, <1>2, LockUntouched

LEMMA RequestLocks ==
    ASSUME LockInv, RequestStep
    PROVE  LockInv'
<1>1. effects' = effects /\ pendingDelivery' = pendingDelivery
  BY DEF RequestStep, AnnounceReturn, Disconnect, IgnoreDisconnect, AcceptAction, RejectAction,
         AbandonAction, RestoreTurn, RelaunchRound, RefuseRetry, output
<1>2. \A k \in jobs' : Holds(k) => k \in jobs
  <2>1. ASSUME NEW d \in leavers, Disconnect(d)
        PROVE  \A k \in jobs' : Holds(k) => k \in jobs
    <3>1. \/ ResumeTurns(Rotate(turnQueue, 1), [buffer EXCEPT ![d.client] = Idle])
          \/ ResumeTurns(turnQueue, buffer)
          \/ jobs' = jobs
      BY <2>1 DEF Disconnect, work
    <3> QED
      BY <3>1, ResumeHoldsNothing
  <2>2. ASSUME NEW s \in submissions, AcceptAction(s)
        PROVE  \A k \in jobs' : Holds(k) => k \in jobs
    BY <2>2, ResumeHoldsNothing DEF AcceptAction
  <2>3. ASSUME NEW r \in retries, RelaunchRound(r)
        PROVE  \A k \in jobs' : Holds(k) => k \in jobs
    BY <2>3, LaunchHoldsNothing DEF RelaunchRound
  <2>4. CASE \/ \E g \in greetings : AnnounceReturn(g)
             \/ \E d \in leavers : IgnoreDisconnect(d)
             \/ \E s \in submissions : RejectAction(s) \/ AbandonAction(s)
             \/ \E p \in Players : RestoreTurn(p)
             \/ \E r \in retries : RefuseRetry(r)
    BY <2>4 DEF AnnounceReturn, IgnoreDisconnect, RejectAction, AbandonAction, RestoreTurn, RefuseRetry,
                work
  <2> QED
    BY <2>1, <2>2, <2>3, <2>4 DEF RequestStep
<1> QED
  BY <1>1, <1>2, LockUntouched

LEMMA JobLocks ==
    ASSUME TypeOK, LockInv, NEW j \in jobs, JobStep(j)
    PROVE  LockInv'
<1>1. ASSUME NEW stage, Stage(j, stage)
      PROVE  \E k : jobs' = (jobs \ {j}) \cup {k} /\ k.stage = stage
  BY <1>1, StageEffect
<1>2. CASE \/ OpenJob(j) \/ FailWork(j) \/ CancelJob(j) \/ DropResult(j) \/ Rollback(j)
           \/ AbandonFailure(j) \/ EndJob(j) \/ RetryAttempt(j)
           \/ \E outcome \in DiceOutcomes : PlanDice(j, outcome)
  <2>1. effects' = effects /\ pendingDelivery' = pendingDelivery
    BY <1>2 DEF OpenJob, FailWork, CancelJob, DropResult, Rollback, AbandonFailure, EndJob,
                RetryAttempt, PlanDice, output
  <2>2. \A k \in jobs' : Holds(k) => k \in jobs
    <3>1. CASE EndJob(j) \/ \E outcome \in DiceOutcomes : PlanDice(j, outcome)
      BY <3>1 DEF EndJob, PlanDice, work
    <3>2. CASE RetryAttempt(j)
      <4>1. [j EXCEPT !.attempt = @ + 1].stage = "working"
        BY <3>2 DEF RetryAttempt, TypeOK, Job
      <4> QED
        BY <3>2, <4>1 DEF RetryAttempt, Holds
    <3>3. CASE \/ OpenJob(j) \/ FailWork(j) \/ CancelJob(j) \/ DropResult(j) \/ Rollback(j)
               \/ AbandonFailure(j)
      <4>1. \E stage \in {"working", "failing", "finishing"} : Stage(j, stage)
        BY <3>3 DEF OpenJob, FailWork, CancelJob, DropResult, Rollback, AbandonFailure
      <4> QED
        BY <1>1, <4>1 DEF Holds
    <3> QED
      BY <1>2, <3>1, <3>2, <3>3
  <2> QED
    BY <2>1, <2>2, LockUntouched
<1>3. CASE OpenLobby(j) \/ BeginArchive(j) \/ CommitRound(j) \/ Recover(j)
  <2>1. /\ effects = "free" /\ effects' = "job"
        /\ \E stage \in {"archiving", "delivering", "recovering"} : Stage(j, stage)
    BY <1>3 DEF OpenLobby, BeginArchive, CommitRound, Recover, Committing
  <2> QED
    BY <1>1, <2>1, LockTaken
<1>4. CASE CommitStart(j)
  <2>1. Holds(j) /\ effects' = effects /\ Stage(j, "delivering")
    BY <1>4 DEF CommitStart, Holds
  <2>2. effects = "job"
    BY <2>1 DEF LockInv
  <2> QED
    BY <1>1, <2>1, <2>2, LockTaken
<1>5. CASE Deliver(j)
  <2>1. Delivers(j) /\ jobs' = jobs /\ effects' = effects
    BY <1>5 DEF Deliver, work
  <2>2. effects = "job"
    BY <2>1 DEF Delivers, LockInv, Holds
  <2> QED
    BY <2>1, <2>2, LockUntouched
<1>6. CASE FailArchive(j) \/ FinishDelivery(j) \/ MissDeadline(j)
  <2>1. /\ Holds(j) /\ effects' = "free"
        /\ \E stage \in {"failing", "finishing"} : Stage(j, stage)
    BY <1>6 DEF FailArchive, FinishDelivery, MissDeadline, Delivers, Holds
  <2> QED
    BY <1>1, <2>1, LockReleased DEF Holds
<1> QED
  BY <1>2, <1>3, <1>4, <1>5, <1>6 DEF JobStep

LEMMA ShutdownLocks ==
    ASSUME LockInv, ShutdownStep
    PROVE  LockInv'
<1>1. jobs' = jobs
  BY DEF ShutdownStep, StopServer, BeginShutdown, DeliverBeforeEnd, EndSession, AnnounceEnd,
         work
<1>2. CASE StopServer
  BY <1>1, <1>2, LockUntouched DEF StopServer, output
<1>3. CASE BeginShutdown \/ DeliverBeforeEnd \/ EndSession \/ AnnounceEnd
  <2>1. /\ effects # "job"
        /\ effects' = "finalizing" => pendingDelivery' = <<>>
    BY <1>3 DEF BeginShutdown, DeliverBeforeEnd, EndSession, AnnounceEnd
  <2> QED
    BY <1>1, <2>1 DEF LockInv, Holds
<1> QED
  BY <1>2, <1>3 DEF ShutdownStep

LEMMA StepLocks == SessionInv /\ LockInv /\ [Next]_vars => LockInv'
<1> SUFFICES ASSUME SessionInv, LockInv, [Next]_vars PROVE LockInv'
  OBVIOUS
<1>1. CASE UNCHANGED vars
  BY <1>1, LockUntouched DEF vars, work, output
<1>2. CASE Next
  BY <1>2, ClientLocks, RequestLocks, JobLocks, ShutdownLocks DEF Next, SessionInv
<1> QED
  BY <1>1, <1>2

\* effects_lock is never held twice: a job that commits or delivers excludes every other
\* and the shutdown, and the end waits until nothing is left to deliver.
THEOREM LockHasOneHolder == Spec => []LockInv
<1>1. Init => LockInv
  BY DEF Init, LockInv
<1> QED
  BY <1>1, StepLocks, SessionCorrect, PTL DEF Spec

-----------------------------------------------------------------------------
(* The turn is announced *)

NoDirective == \A i \in 1..Len(pendingDelivery) : ~Directs(pendingDelivery[i])

\* Without missed deadlines the lock is free only when everything is delivered.
LEMMA FreeIsDelivered ==
    ASSUME AnnouncementInv, effects = "free"
    PROVE  pendingDelivery = <<>> /\ NoDirective
<1>1. pendingDelivery = <<>>
  BY DEF AnnouncementInv
<1> QED
  BY <1>1 DEF NoDirective

\* A job that archives the opening has nothing to deliver yet.
LEMMA ArchivingIsSilent ==
    ASSUME SessionInv, TransitionInv, NEW j \in jobs, j.stage = "archiving"
    PROVE  pendingDelivery = <<>>
<1>1. CASE phase = "ENDED"
  BY <1>1 DEF SessionInv, EndIsQuiet
<1>2. CASE phase # "ENDED"
  <2>1. Current(j.epoch) /\ phase = "AWAITING_LLM"
    BY <1>2 DEF SessionInv, JobInv, UnsettledIsCurrent, Unsettled, Current
  <2>2. j.kind = "start" /\ pending = NoRound
    BY <2>1 DEF SessionInv, JobInv, KindMatchesPending
  <2> QED
    BY <2>1, <2>2 DEF TransitionInv, NothingTold
<1> QED
  BY <1>1, <1>2

\* What is heard of a turn stays heard when nothing is said.
LEMMA SameHeard ==
    ASSUME TurnHeard, UNCHANGED <<active, announced, greetings>>
    PROVE  TurnHeard'
BY DEF TurnHeard

\* Nor does it matter whether the login that will say it still owns its player.
LEMMA DisownedHeard ==
    ASSUME TurnHeard, UNCHANGED <<active, announced>>,
           NEW p, Disown(greetings, p) \subseteq greetings',
           greetings \in SUBSET Greeting
    PROVE  TurnHeard'
<1>1. ASSUME NEW g \in greetings, g.player = active
      PROVE  \E h \in greetings' : h.player = active
  <2> DEFINE h == IF g.client = p THEN [g EXCEPT !.owned = FALSE] ELSE g
  <2>1. h \in Disown(greetings, p)
    BY DEF Disown
  <2>2. g \in Greeting
    OBVIOUS
  <2>3. h.player = g.player
    BY <2>2 DEF Greeting
  <2> HIDE DEF h
  <2> QED
    BY <1>1, <2>1, <2>3
<1> QED
  BY <1>1 DEF TurnHeard

\* A login that broadcasts its directive tells of the turn, or late of a past one.
LEMMA ReturnHeard ==
    ASSUME NEW g \in greetings, AnnounceReturn(g)
    PROVE  TurnHeard'
<1>1. announced' = [player |-> g.player, late |-> g.player # active] /\ active' = active
  BY DEF AnnounceReturn, turn
<1>2. announced'.player = g.player /\ announced'.late = (g.player # active)
  BY <1>1
<1> QED
  BY <1>1, <1>2 DEF TurnHeard

\* Steps that neither move the turn nor deliver.
LEMMA NothingAnnounced ==
    ASSUME AnnouncementInv, pendingDelivery' = pendingDelivery,
           effects' = "free" => effects = "free" \/ pendingDelivery = <<>>,
           phase' = "ACTIVE_TURN" =>
               UNCHANGED <<phase, connected, active>> /\ (TurnHeard => TurnHeard')
    PROVE  AnnouncementInv'
BY DEF AnnouncementInv

\* A change of turn broadcasts the directive itself, after the queued ones are delivered,
\* or the login that made it has yet to.
LEMMA ResumeAnnounces ==
    ASSUME SessionInv, SessionInv', AnnouncementInv, NoDirective,
           UNCHANGED <<effects, pendingDelivery>>,
           \/ announced' = Announcing(active')
           \/ active' # NoOne => \E g \in greetings' : g.player = active'
    PROVE  AnnouncementInv'
<1>1. ASSUME phase' = "ACTIVE_TURN", connected' # {}
      PROVE  TurnHeard'
  <2>1. active' \in Players
    BY <1>1 DEF SessionInv, TypeOK, TurnInv, TurnIsPlayable
  <2>2. active' # NoOne
    BY <2>1, NoOneAssumption
  <2>3. CASE announced' = Announcing(active')
    BY <2>2, <2>3 DEF Announcing, Told, TurnHeard
  <2>4. CASE \E g \in greetings' : g.player = active'
    BY <2>4 DEF TurnHeard
  <2> QED
    BY <2>2, <2>3, <2>4
<1> QED
  BY <1>1 DEF AnnouncementInv, NoDirective

\* A commit queues the directive of the turn it chose.
LEMMA CommitAnnounces ==
    ASSUME SessionInv', pendingDelivery = <<>>, effects' # "free", phase' = "ACTIVE_TURN",
           NEW front \in Seq(Event), NEW number \in Nat,
           \A i \in 1..Len(front) : ~Directs(front[i]),
           \/ active' = NoOne /\ pendingDelivery' = front
           \/ active' # NoOne /\ pendingDelivery' = front \o <<Directive(number, active')>>
    PROVE  AnnouncementInv'
<1>1. CASE active' = NoOne
  <2>1. connected' = {}
    BY <1>1, NoOneAssumption DEF SessionInv, TypeOK, TurnInv, TurnIsPlayable
  <2> QED
    BY <1>1, <2>1 DEF AnnouncementInv
<1>2. CASE active' # NoOne
  <2>1. connected' # {}
    BY <1>2 DEF SessionInv, TurnInv, EmptyTableWaits
  <2> DEFINE queue == front \o <<Directive(number, active')>>
             n == Len(front)
  <2>2. /\ Len(queue) = n + 1 /\ n \in Nat
        /\ \A i \in 1..n : queue[i] = front[i]
        /\ queue[n + 1] = Directive(number, active')
    OBVIOUS
  <2>3. Directs(Directive(number, active')) /\ Directive(number, active').player = active'
    BY DEF Directs, Directive
  <2> HIDE DEF queue
  <2>4. \A i \in 1..Len(queue) : Directs(queue[i]) => queue[i].player = active'
    BY <2>2, <2>3
  <2>5. \E i \in 1..Len(queue) : Directs(queue[i])
    BY <2>2, <2>3
  <2>6. pendingDelivery' = queue
    BY <1>2 DEF queue
  <2> QED
    BY <2>1, <2>4, <2>5, <2>6 DEF AnnouncementInv
<1> QED
  BY <1>1, <1>2

\* Delivering a directive makes it the last one the clients saw.
LEMMA HeadAnnounces ==
    ASSUME SessionInv, AnnouncementInv, DeliverHead,
           UNCHANGED <<phase, connected, active, greetings>>,
           effects' = "free" => effects = "free"
    PROVE  AnnouncementInv'
<1>1. /\ pendingDelivery \in Seq(Event) /\ pendingDelivery # <<>>
      /\ pendingDelivery' = Tail(pendingDelivery)
  BY DEF SessionInv, TypeOK, DeliverHead
<1> DEFINE n == Len(pendingDelivery)
<1>2. /\ n \in Nat \ {0} /\ Len(pendingDelivery') = n - 1
      /\ \A i \in 1..(n - 1) : pendingDelivery'[i] = pendingDelivery[i + 1]
      /\ Head(pendingDelivery) = pendingDelivery[1]
  BY <1>1
<1>3. announced' = IF Directs(pendingDelivery[1]) THEN Told(pendingDelivery[1].player)
                   ELSE announced
  BY <1>2 DEF DeliverHead, PublishHead, Directs
<1>4. effects' # "free"
  BY <1>1 DEF AnnouncementInv
<1>5. ASSUME phase' = "ACTIVE_TURN"
      PROVE  /\ \A i \in 1..Len(pendingDelivery') : Directs(pendingDelivery'[i]) =>
                   connected' # {} /\ pendingDelivery'[i].player = active'
             /\ connected' # {} =>
                   \/ TurnHeard'
                   \/ \E i \in 1..Len(pendingDelivery') : Directs(pendingDelivery'[i])
  <2>1. \A i \in 1..n : Directs(pendingDelivery[i]) =>
            connected # {} /\ pendingDelivery[i].player = active
    BY <1>5 DEF AnnouncementInv
  <2>2. ASSUME NEW i \in 1..(n - 1), Directs(pendingDelivery'[i])
        PROVE  connected' # {} /\ pendingDelivery'[i].player = active'
    <3>1. i + 1 \in 1..n /\ pendingDelivery'[i] = pendingDelivery[i + 1]
      BY <1>2
    <3> QED
      BY <2>1, <2>2, <3>1
  <2>3. ASSUME connected' # {}, ~TurnHeard'
        PROVE  \E i \in 1..(n - 1) : Directs(pendingDelivery'[i])
    <3>1. 1 \in 1..n
      BY <1>2
    <3>2. ~Directs(pendingDelivery[1]) /\ ~TurnHeard
      <4>1. CASE Directs(pendingDelivery[1])
        <5>1. announced' = Told(active')
          BY <1>3, <2>1, <3>1, <4>1
        <5> QED
          BY <2>3, <5>1 DEF Told, TurnHeard
      <4>2. CASE ~Directs(pendingDelivery[1])
        BY <1>3, <2>3, <4>2, SameHeard
      <4> QED
        BY <4>1, <4>2
    <3>3. PICK i \in 1..n : Directs(pendingDelivery[i])
      BY <1>5, <2>3, <3>2 DEF AnnouncementInv
    <3>4. i # 1
      BY <3>2, <3>3
    <3>5. i - 1 \in 1..(n - 1) /\ pendingDelivery'[i - 1] = pendingDelivery[i]
      BY <1>2, <3>4
    <3> QED
      BY <3>3, <3>5
  <2> QED
    BY <1>2, <2>2, <2>3
<1> QED
  BY <1>4, <1>5 DEF AnnouncementInv

\* What commits queue on an empty queue.
LEMMA CommitQueues ==
    ASSUME NEW a \in Event, NEW b \in Event, NEW c \in Event, NEW d \in Event
    PROVE  /\ (<<>> \o <<a, b, c>>) \o <<>> = <<a, b, c>>
           /\ (<<>> \o <<a, b, c>>) \o <<d>> = <<a, b, c>> \o <<d>>
           /\ (<<>> \o <<a>>) \o <<>> = <<a>>
           /\ (<<>> \o <<a>>) \o <<b, c>> = <<a, b>> \o <<c>>
<1>1. <<>> \o <<a, b, c>> = <<a, b, c>> /\ <<>> \o <<a>> = <<a>>
  OBVIOUS
<1>2. <<a, b, c>> \o <<>> = <<a, b, c>> /\ <<a>> \o <<>> = <<a>>
  OBVIOUS
<1>3. <<a>> \o <<b, c>> = <<a, b>> \o <<c>>
  <2> DEFINE left == <<a>> \o <<b, c>>
             right == <<a, b>> \o <<c>>
  <2>1. left \in Seq(Event) /\ Len(left) = 3
    OBVIOUS
  <2>2. right \in Seq(Event) /\ Len(right) = 3
    OBVIOUS
  <2>3. \A i \in 1..3 : left[i] = right[i]
    OBVIOUS
  <2> HIDE DEF left, right
  <2>4. left = right
    BY <2>1, <2>2, <2>3, SeqEqual
  <2> QED
    BY <2>4 DEF left, right
<1> QED
  BY <1>1, <1>2, <1>3

LEMMA NoFrontDirects ==
    ASSUME NEW n \in Nat
    PROVE  /\ ~Directs(Outcome(n)) /\ ~Directs(RoundStart(n)) /\ ~Directs(Started)
           /\ Outcome(n) \in Event /\ RoundStart(n) \in Event /\ Started \in Event
BY EventTypes DEF Directs, Outcome, RoundStart, Started

LEMMA CommitStartAnnounces ==
    ASSUME SessionInv, SessionInv', TransitionInv, LockInv, NEW j \in jobs, CommitStart(j)
    PROVE  AnnouncementInv'
<1> DEFINE front == <<Outcome(0), Started, RoundStart(1)>>
<1>1. /\ j.stage = "archiving" /\ phase' = "ACTIVE_TURN" /\ effects' = effects
      /\ active' = NextTurn(turnQueue, connected, buffer).active
      /\ active' = NoOne => pendingDelivery' = (pendingDelivery \o front) \o <<>>
      /\ active' # NoOne => pendingDelivery' = (pendingDelivery \o front)
                                                  \o <<Directive(1, active')>>
  BY DEF CommitStart
<1>2. pendingDelivery = <<>> /\ effects' # "free"
  BY <1>1, ArchivingIsSilent DEF LockInv, Holds
<1>3. /\ Outcome(0) \in Event /\ Started \in Event /\ RoundStart(1) \in Event
      /\ ~Directs(Outcome(0)) /\ ~Directs(Started) /\ ~Directs(RoundStart(1))
  BY NoFrontDirects
<1>4. front \in Seq(Event) /\ \A i \in 1..Len(front) : ~Directs(front[i])
  <2>1. front \in Seq(Event) /\ Len(front) = 3
    BY <1>3
  <2>2. \A i \in 1..3 : front[i] \in {Outcome(0), Started, RoundStart(1)}
    OBVIOUS
  <2> QED
    BY <1>3, <2>1, <2>2
<1>5. /\ active' = NoOne => pendingDelivery' = front
      /\ active' # NoOne => pendingDelivery' = front \o <<Directive(1, active')>>
  <2>1. active' # NoOne => Directive(1, active') \in Event
    BY EventTypes DEF SessionInv, TypeOK
  <2> QED
    BY <1>1, <1>2, <1>3, <2>1, CommitQueues
<1> HIDE DEF front
<1> QED
  BY <1>1, <1>2, <1>4, <1>5, CommitAnnounces

LEMMA CommitRoundAnnounces ==
    ASSUME SessionInv, SessionInv', AnnouncementInv, NEW j \in jobs, CommitRound(j)
    PROVE  AnnouncementInv'
<1> DEFINE n == roundCounter + 1
<1>1. /\ phase' = "ACTIVE_TURN" /\ effects' = "job" /\ effects = "free"
      /\ active' = NewRound.active
      /\ active' = NoOne => pendingDelivery' = (pendingDelivery \o <<Outcome(n)>>) \o <<>>
      /\ active' # NoOne =>
            pendingDelivery' = (pendingDelivery \o <<Outcome(n)>>)
                                  \o <<RoundStart(n + 1), Directive(n + 1, active')>>
  BY DEF CommitRound, Committing
<1>2. pendingDelivery = <<>>
  BY <1>1, FreeIsDelivered
<1>3. /\ n \in Nat /\ n + 1 \in Nat
      /\ Outcome(n) \in Event /\ RoundStart(n + 1) \in Event
      /\ ~Directs(Outcome(n)) /\ ~Directs(RoundStart(n + 1))
  <2>1. n \in Nat /\ n + 1 \in Nat
    BY DEF SessionInv, TypeOK
  <2> QED
    BY <2>1, NoFrontDirects
<1> HIDE DEF n
<1>4. CASE active' = NoOne
  <2> DEFINE front == <<Outcome(n)>>
  <2>1. front \in Seq(Event) /\ \A i \in 1..Len(front) : ~Directs(front[i])
    BY <1>3
  <2>2. pendingDelivery' = front
    BY <1>1, <1>2, <1>3, <1>4, CommitQueues
  <2> HIDE DEF front
  <2> QED
    BY <1>1, <1>2, <1>3, <1>4, <2>1, <2>2, CommitAnnounces
<1>5. CASE active' # NoOne
  <2> DEFINE front == <<Outcome(n), RoundStart(n + 1)>>
  <2>1. front \in Seq(Event) /\ \A i \in 1..Len(front) : ~Directs(front[i])
    <3>1. front \in Seq(Event) /\ Len(front) = 2
      BY <1>3
    <3>2. \A i \in 1..2 : front[i] \in {Outcome(n), RoundStart(n + 1)}
      OBVIOUS
    <3> QED
      BY <1>3, <3>1, <3>2
  <2>2. Directive(n + 1, active') \in Event
    BY <1>3, <1>5, EventTypes DEF SessionInv, TypeOK
  <2>3. pendingDelivery' = front \o <<Directive(n + 1, active')>>
    BY <1>1, <1>2, <1>3, <1>5, <2>2, CommitQueues
  <2> HIDE DEF front
  <2> QED
    BY <1>1, <1>2, <1>3, <1>5, <2>1, <2>3, CommitAnnounces
<1> QED
  BY <1>4, <1>5

LEMMA RecoverAnnounces ==
    ASSUME SessionInv, AnnouncementInv, NEW j \in jobs, Recover(j)
    PROVE  AnnouncementInv'
<1>1. /\ UNCHANGED <<phase, connected, pendingDelivery>> /\ effects = "free"
      /\ effects' = "job"
  BY DEF Recover, party
<1>2. pendingDelivery = <<>> /\ NoDirective
  BY <1>1, FreeIsDelivered
<1>3. CASE phase = "ACTIVE_TURN"
  <2>1. active' = active
    BY <1>3, TurnIsSettled DEF Recover
  <2>2. active # NoOne => TurnHeard'
    <3>1. active # NoOne => announced' = Told(active')
      BY <1>2, <1>3, TurnIsSettled DEF Recover
    <3> QED
      BY <2>1, <3>1 DEF Told, TurnHeard
  <2>3. connected # {} => active # NoOne
    BY <1>3, NoOneAssumption DEF SessionInv, TypeOK, TurnInv, TurnIsPlayable
  <2> QED
    BY <1>1, <1>2, <2>1, <2>2, <2>3 DEF AnnouncementInv, NoDirective
<1>4. CASE phase # "ACTIVE_TURN"
  BY <1>1, <1>4, NothingAnnounced
<1> QED
  BY <1>3, <1>4

LEMMA ClientAnnounces ==
    ASSUME SessionInv, SessionInv', AnnouncementInv, NEW p \in Players, ClientStep(p)
    PROVE  AnnouncementInv'
<1>1. UNCHANGED <<effects, pendingDelivery>>
  BY DEF ClientStep, Join, Reconnect, LoseSocket, Submit, InitializeScenario, StartGame,
         RequestRetry, RequestEnd, output
<1>2. CASE Reconnect(p)
  <2>1. connected' = connected \cup {p}
    BY <1>2 DEF Reconnect
  <2>2. CASE TurnStalled
    <3>1. ResumeTurns(turnQueue, buffer) /\ phase = "ACTIVE_TURN" /\ active \notin connected'
      BY <1>2, <2>2 DEF Reconnect, TurnStalled
    <3>2. connected = {}
      BY <2>1, <3>1 DEF SessionInv, TurnInv, TurnIsPlayable
    <3>3. NoDirective
      BY <3>1, <3>2 DEF AnnouncementInv, NoDirective
    <3>4. ASSUME active' # NoOne PROVE \E g \in greetings' : g.player = active'
      <4> DEFINE g == [client |-> p, owned |-> TRUE, version |-> version'[p],
                       player |-> active']
      <4>1. g \in greetings'
        BY <1>2, <2>2, <3>4 DEF Reconnect
      <4>2. g.player = active'
        OBVIOUS
      <4> HIDE DEF g
      <4> QED
        BY <4>1, <4>2
    <3> QED
      BY <1>1, <3>3, <3>4, ResumeAnnounces
  <2>3. CASE ~TurnStalled
    <3>1. UNCHANGED <<phase, active, announced>> /\ Disown(greetings, p) \subseteq greetings'
      BY <1>2, <2>3 DEF Reconnect, turn, output
    <3>2. phase = "ACTIVE_TURN" => connected # {}
      BY <2>1, <2>3, NoOneAssumption DEF TurnStalled, SessionInv, TurnInv, EmptyTableWaits
    <3>3. TurnHeard => TurnHeard'
      BY <3>1, DisownedHeard DEF SessionInv, TypeOK
    <3> QED
      BY <1>1, <2>1, <3>1, <3>2, <3>3 DEF AnnouncementInv
  <2> QED
    BY <2>2, <2>3
<1>3. CASE Join(p)
  <2>1. phase' # "ACTIVE_TURN"
    BY <1>3 DEF Join
  <2> QED
    BY <1>1, <2>1, NothingAnnounced
<1>4. CASE InitializeScenario(p) \/ StartGame(p)
  <2>1. phase' # "ACTIVE_TURN"
    BY <1>4 DEF InitializeScenario, StartGame, LaunchJob
  <2> QED
    BY <1>1, <2>1, NothingAnnounced
<1>5. CASE \/ \E n \in {roundCounter, roundCounter + 1} \ {0} : Submit(p, n)
           \/ RequestRetry(p) \/ RequestEnd(p)
  <2>1. UNCHANGED <<phase, connected, active, announced, greetings>>
    BY <1>5 DEF Submit, RequestRetry, RequestEnd, party, turn, output
  <2> QED
    BY <1>1, <2>1, SameHeard, NothingAnnounced
<1>6. CASE \E how \in Losses : LoseSocket(p, how)
  <2>1. UNCHANGED <<phase, connected, active, announced>> /\ greetings' = Disown(greetings, p)
    BY <1>6 DEF LoseSocket, turn, output
  <2>2. TurnHeard => TurnHeard'
    BY <2>1, DisownedHeard DEF SessionInv, TypeOK
  <2> QED
    BY <1>1, <2>1, <2>2, NothingAnnounced
<1> QED
  BY <1>2, <1>3, <1>4, <1>5, <1>6 DEF ClientStep

LEMMA RequestAnnounces ==
    ASSUME SessionInv, SessionInv', AnnouncementInv, RequestStep
    PROVE  AnnouncementInv'
<1>1. UNCHANGED <<effects, pendingDelivery>>
  BY DEF RequestStep, AnnounceReturn, Disconnect, IgnoreDisconnect, AcceptAction, RejectAction,
         AbandonAction, RestoreTurn, RelaunchRound, RefuseRetry, output
<1>3. ASSUME NEW d \in leavers, Disconnect(d)
      PROVE  AnnouncementInv'
  <2>1. NoDirective
    BY <1>3, FreeIsDelivered DEF Disconnect
  <2>2. CASE phase = "ACTIVE_TURN"
    <3>1. announced' = Announcing(active')
      BY <1>3, <2>2 DEF Disconnect
    <3> QED
      BY <1>1, <2>1, <3>1, ResumeAnnounces
  <2>3. CASE phase # "ACTIVE_TURN"
    <3>1. phase' # "ACTIVE_TURN"
      BY <1>3, <2>3 DEF Disconnect
    <3> QED
      BY <1>1, <3>1, SameHeard, NothingAnnounced
  <2> QED
    BY <2>2, <2>3
<1>4. ASSUME NEW s \in submissions, AcceptAction(s)
      PROVE  AnnouncementInv'
  <2>1. NoDirective
    BY <1>4, FreeIsDelivered DEF AcceptAction
  <2>2. announced' = Announcing(active')
    BY <1>4 DEF AcceptAction
  <2> QED
    BY <1>1, <2>1, <2>2, ResumeAnnounces
<1>5. ASSUME NEW p \in Players, RestoreTurn(p)
      PROVE  AnnouncementInv'
  <2>1. UNCHANGED <<phase, connected, announced, greetings>>
    BY <1>5 DEF RestoreTurn, party, output
  <2>2. active' = active
    BY <1>5, TurnIsSettled DEF RestoreTurn, turn
  <2> QED
    BY <1>1, <2>1, <2>2, SameHeard, NothingAnnounced
<1>6. ASSUME NEW r \in retries, RelaunchRound(r)
      PROVE  AnnouncementInv'
  <2>1. phase' # "ACTIVE_TURN"
    BY <1>6 DEF RelaunchRound, LaunchJob
  <2> QED
    BY <1>1, <2>1, SameHeard, NothingAnnounced
<1>7. CASE \/ \E d \in leavers : IgnoreDisconnect(d)
           \/ \E s \in submissions : RejectAction(s) \/ AbandonAction(s)
           \/ \E r \in retries : RefuseRetry(r)
  <2>1. UNCHANGED <<phase, connected, active, announced, greetings>>
    BY <1>7 DEF IgnoreDisconnect, RejectAction, AbandonAction, RefuseRetry, party, turn,
                output
  <2> QED
    BY <1>1, <2>1, SameHeard, NothingAnnounced
<1>8. ASSUME NEW g \in greetings, AnnounceReturn(g)
      PROVE  AnnouncementInv'
  <2>1. UNCHANGED <<phase, connected, active>>
    BY <1>8 DEF AnnounceReturn, turn
  <2> QED
    BY <1>1, <1>8, <2>1, ReturnHeard, NothingAnnounced
<1> QED
  BY <1>3, <1>4, <1>5, <1>6, <1>7, <1>8 DEF RequestStep

LEMMA JobAnnounces ==
    ASSUME SessionInv, SessionInv', TransitionInv, LockInv, AnnouncementInv,
           DeliveryDeadlines = FALSE, NEW j \in jobs, JobStep(j)
    PROVE  AnnouncementInv'
<1>1. CASE \/ OpenJob(j) \/ RetryAttempt(j) \/ FailWork(j) \/ CancelJob(j) \/ DropResult(j)
           \/ BeginArchive(j) \/ FinishDelivery(j) \/ AbandonFailure(j) \/ EndJob(j)
           \/ \E outcome \in DiceOutcomes : PlanDice(j, outcome)
  <2>1. /\ UNCHANGED <<phase, connected, active, announced, greetings,
                     pendingDelivery>>
        /\ effects' = "free" => effects = "free" \/ pendingDelivery = <<>>
    BY <1>1 DEF OpenJob, RetryAttempt, FailWork, CancelJob, DropResult, BeginArchive,
                FinishDelivery, Drained, AbandonFailure, EndJob, PlanDice, party, turn, output
  <2> QED
    BY <2>1, SameHeard, NothingAnnounced
<1>2. CASE FailArchive(j)
  <2>1. /\ UNCHANGED <<phase, connected, active, announced, greetings,
                     pendingDelivery>>
        /\ pendingDelivery = <<>>
    BY <1>2, ArchivingIsSilent DEF FailArchive, party, turn, output
  <2> QED
    BY <2>1, SameHeard, NothingAnnounced
<1>3. CASE OpenLobby(j) \/ Rollback(j)
  <2>1. /\ phase' # "ACTIVE_TURN" /\ pendingDelivery' = pendingDelivery
        /\ effects' = "free" => effects = "free"
    BY <1>3 DEF OpenLobby, Rollback, output, SessionInv, TypeOK, Job
  <2> QED
    BY <2>1, SameHeard, NothingAnnounced
<1>4. CASE CommitStart(j)
  BY <1>4, CommitStartAnnounces
<1>5. CASE CommitRound(j)
  BY <1>5, CommitRoundAnnounces
<1>6. CASE Deliver(j)
  <2>1. DeliverHead /\ UNCHANGED <<phase, connected, active, greetings, effects>>
    BY <1>6 DEF Deliver, party, turn
  <2> QED
    BY <2>1, HeadAnnounces
<1>7. CASE MissDeadline(j)
  BY <1>7 DEF MissDeadline
<1>8. CASE Recover(j)
  BY <1>8, RecoverAnnounces
<1> QED
  BY <1>1, <1>2, <1>3, <1>4, <1>5, <1>6, <1>7, <1>8 DEF JobStep

LEMMA ShutdownAnnounces ==
    ASSUME SessionInv, LockInv, AnnouncementInv, ShutdownStep
    PROVE  AnnouncementInv'
<1>1. CASE StopServer \/ BeginShutdown \/ AnnounceEnd
  <2>1. /\ UNCHANGED <<phase, connected, active, announced, greetings,
                     pendingDelivery>>
        /\ effects' = "free" => effects = "free" \/ pendingDelivery = <<>>
    BY <1>1 DEF StopServer, BeginShutdown, AnnounceEnd, party, turn, output, LockInv
  <2> QED
    BY <2>1, SameHeard, NothingAnnounced
<1>2. CASE DeliverBeforeEnd
  <2>1. DeliverHead /\ UNCHANGED <<phase, connected, active, greetings, effects>>
    BY <1>2 DEF DeliverBeforeEnd, party, turn
  <2> QED
    BY <2>1, HeadAnnounces
<1>3. CASE EndSession
  BY <1>3 DEF EndSession, AnnouncementInv
<1> QED
  BY <1>1, <1>2, <1>3 DEF ShutdownStep

LEMMA StepAnnounces ==
    ASSUME SessionInv, SessionInv', TransitionInv, LockInv, AnnouncementInv,
           DeliveryDeadlines = FALSE, [Next]_vars
    PROVE  AnnouncementInv'
<1>1. CASE UNCHANGED vars
  BY <1>1, SameHeard, NothingAnnounced DEF vars, party, turn, output
<1> QED
  BY <1>1, ClientAnnounces, RequestAnnounces, JobAnnounces, ShutdownAnnounces DEF Next

\* As long as no job's deadline strikes between its commit and the end of its delivery,
\* the clients hear whose turn it is: the last directive they saw, one that waits under
\* effects_lock, or that of a login still in progress names the active player, unless the
\* last one was a login's whose turn had passed (_next_turn_locked's callers).
THEOREM TurnsAreAnnounced ==
    ASSUME DeliveryDeadlines = FALSE
    PROVE  Spec => []TurnAnnounced
<1>1. Init => LockInv /\ TransitionInv /\ AnnouncementInv
  BY DEF Init, LockInv, TransitionInv, FrozenIsCurrent, NoRound, Joined, AnnouncementInv
<1>2. SessionInv /\ SessionInv' /\ TransitionInv /\ [Next]_vars => TransitionInv'
  BY StepTransitions
<1>3. SessionInv /\ LockInv /\ [Next]_vars => LockInv'
  BY StepLocks
<1>4. SessionInv /\ SessionInv' /\ TransitionInv /\ LockInv /\ AnnouncementInv
         /\ [Next]_vars => AnnouncementInv'
  BY StepAnnounces
<1>5. AnnouncementInv => TurnAnnounced
  BY DEF AnnouncementInv, TurnAnnounced
<1> QED
  BY <1>1, <1>2, <1>3, <1>4, <1>5, SessionCorrect, PTL DEF Spec
=============================================================================
