---------------------------- MODULE ReplayProofs ----------------------------
(***************************************************************************)
(* The public journal and the browser that reads it: every committed event *)
(* is recorded once and in order; nothing the browser or the server says   *)
(* is ahead of the journal; no catch-up waits for an answer or a timer     *)
(* that never comes; and, unless a catch-up is given up, the browser reads *)
(* the journal as PublicLog promises, across lost sockets and full queues. *)
(***************************************************************************)
EXTENDS Replay, SequenceTheorems, WellFoundedInduction, TLAPS

\* No step of the game touches the browser.
LEMMA ElsewhereIsElsewhere ==
    Elsewhere => UNCHANGED <<conn, replaying, request>>
BY DEF Elsewhere, client, tab

LEMMA InitServed == Init => ReplayIsServed
BY DEF Init, ReplayIsServed

\* Each handler that starts or keeps holding live events back leaves a request with
\* a timer behind; each that drops the request releases them or closes the socket.
LEMMA StepServed == ReplayIsServed /\ [Next]_vars => ReplayIsServed'
<1> SUFFICES ASSUME ReplayIsServed, [Next]_vars PROVE ReplayIsServed'
  OBVIOUS
<1> USE DEF ReplayIsServed
<1>1. CASE Elsewhere
  BY <1>1, ElsewhereIsElsewhere
<1>2. CASE Authenticate
  BY <1>2 DEF Authenticate
<1>3. CASE LoseSocket
  BY <1>3 DEF LoseSocket, tab
<1>4. CASE AnswerPage \/ RefusePage
  BY <1>4 DEF AnswerPage, RefusePage, Answer, tab
<1>5. CASE ReceiveAuth
  <2>1. CASE Head(stream).latest > screen.cursor
    <3>1. request'.status = "sent"
      BY <1>5, <2>1 DEF ReceiveAuth, Ask
    <3> QED
      BY <3>1
  <2>2. CASE ~(Head(stream).latest > screen.cursor)
    <3>1. ~replaying'
      BY <1>5, <2>2, Zenon DEF ReceiveAuth
    <3> QED
      BY <3>1
  <2> QED
    BY <2>1, <2>2
<1>6. CASE ReceivePage
  <2>1. CASE Head(stream).more
    <3>1. request'.status = "sent"
      BY <1>6, <2>1 DEF ReceivePage, Ask
    <3> QED
      BY <3>1
  <2>2. CASE ~Head(stream).more
    <3>1. replaying' = FALSE
      BY <1>6, <2>2 DEF ReceivePage
    <3> QED
      BY <3>1
  <2> QED
    BY <2>1, <2>2
<1>7. CASE ReceiveRefusal
  <2>1. UNCHANGED <<conn, replaying>>
    BY <1>7 DEF ReceiveRefusal
  <2>2. request.status # "none" => request'.status # "none"
    BY <1>7 DEF ReceiveRefusal
  <2> QED
    BY <2>1, <2>2
<1>8. CASE ShowEvent \/ HoldEvent
  BY <1>8 DEF ShowEvent, HoldEvent
<1>9. CASE HoldTooMany \/ StartClosing \/ NoticeClose
  BY <1>9 DEF HoldTooMany, StartClosing, NoticeClose, Closed
<1>10. CASE AskAgain
  <2>1. request'.status = "sent" \/ ~replaying'
    BY <1>10 DEF AskAgain, Ask, GivenUp
  <2> QED
    BY <2>1
<1>11. CASE GiveUp
  BY <1>11 DEF GiveUp, GivenUp
<1>12. CASE UNCHANGED vars
  BY <1>12 DEF vars, client, tab
<1> QED
  BY <1>1, <1>2, <1>3, <1>4, <1>5, <1>6, <1>7, <1>8, <1>9, <1>10, <1>11, <1>12
  DEF Next, Server, Browser, Receive

\* Live events are never held back for ever: while a browser replays, until its socket
\* is closed, one of its requests is waiting for an answer or for its timer.
THEOREM ReplayAlwaysServed == Spec => []ReplayIsServed
BY InitServed, StepServed, PTL DEF Spec

-----------------------------------------------------------------------------
(* Every committed event is recorded once, in order *)

\* Events that are committed and have no place in the journal yet.
Waiting == {i \in DOMAIN pendingDelivery : IsNew(pendingDelivery[i])}
EntryOf(e) == [type |-> e.type, round |-> e.round]

RecordTypes ==
    /\ phase \in Phases /\ rounds \in Nat
    /\ pendingDelivery \in Seq(Event) /\ notices \in Seq(Event)
    /\ journal \in Seq(Entry)

\* Delivery queues what commits queue, and notices never commit anything but the end.
QueuesAreSorted ==
    /\ \A i \in DOMAIN pendingDelivery :
          pendingDelivery[i].type \in {"opening", "outcome", "round_start", "directive"}
    /\ \A i \in DOMAIN notices :
          /\ notices[i].type \in OtherTypes \cup {"game_ended"}
          /\ notices[i].id = 0 /\ notices[i].round = 0

\* What waits is recorded once: it is neither queued twice nor recorded already.
WaitsOnce ==
    /\ \A i, j \in Waiting :
          EntryOf(pendingDelivery[i]) = EntryOf(pendingDelivery[j]) => i = j
    /\ \A i \in Waiting, k \in DOMAIN journal : journal[k] # EntryOf(pendingDelivery[i])

\* No outcome waits behind the start of a later round.
WaitsInOrder ==
    /\ \A i \in Waiting, k \in DOMAIN journal :
          pendingDelivery[i].type = "outcome" /\ journal[k].type = "round_start" =>
              journal[k].round <= pendingDelivery[i].round
    /\ \A i, j \in Waiting :
          /\ i < j
          /\ pendingDelivery[i].type = "round_start" /\ pendingDelivery[j].type = "outcome"
          => pendingDelivery[i].round <= pendingDelivery[j].round

\* The events of a round exist once the round has begun, those of the game once it has.
Begun(e) ==
    /\ phase \notin {"lobby", "preparing"}
    /\ e.type = "outcome" => e.round <= rounds
    /\ e.type = "round_start" => e.round <= rounds + 1

NothingBeforehand ==
    /\ \A i \in DOMAIN pendingDelivery : Begun(pendingDelivery[i])
    /\ \A k \in Committed : Begun(journal[k]) \/ journal[k].type = "game_ended"

\* The end is recorded by the notice that announces it, once nothing else waits.
EndComesLast ==
    /\ phase = "ended" => pendingDelivery = <<>>
    /\ \A k \in DOMAIN journal : journal[k].type = "game_ended" =>
          /\ phase = "ended"
          /\ \A i \in DOMAIN notices : notices[i].type # "game_ended"
    /\ \A i \in DOMAIN notices : notices[i].type = "game_ended" =>
          phase = "ended" /\ Len(notices) = 1

\* A delivery under way is of the head of the queue, which stays there meanwhile.
DeliversSomething == publishing.by = "delivery" => pendingDelivery # <<>>

RecordInv ==
    /\ RecordTypes /\ DeliversSomething /\ QueuesAreSorted /\ WaitsOnce /\ WaitsInOrder
    /\ NothingBeforehand /\ EndComesLast
    /\ RecordedOnce /\ RecordedInOrder


\* What the invariant says of the places of the queues.
LEMMA QueueLengths ==
    ASSUME RecordInv
    PROVE  /\ DOMAIN pendingDelivery = 1..Len(pendingDelivery) /\ Len(pendingDelivery) \in Nat
           /\ DOMAIN notices = 1..Len(notices) /\ Len(notices) \in Nat
           /\ DOMAIN journal = 1..Len(journal) /\ Len(journal) \in Nat
           /\ \A i \in DOMAIN pendingDelivery : pendingDelivery[i] \in Event
           /\ \A k \in DOMAIN journal : journal[k] \in Entry
BY DEF RecordInv, RecordTypes

\* Steps that record nothing and queue nothing.
LEMMA NothingRecorded ==
    ASSUME RecordInv, UNCHANGED <<rounds, pendingDelivery, journal>>, DeliversSomething',
           \/ UNCHANGED <<phase, notices>>
           \/ /\ phase # "ended" /\ phase' \in Phases \ {"ended"}
              /\ phase' \in {"lobby", "preparing"} => phase \in {"lobby", "preparing"}
              /\ notices' \in Seq(Event)
              /\ \A i \in DOMAIN notices' :
                    notices'[i].type \in OtherTypes /\ notices'[i].id = 0 /\ notices'[i].round = 0
    PROVE  RecordInv'
<1>1. RecordTypes' /\ QueuesAreSorted'
  BY DEF RecordInv, RecordTypes, QueuesAreSorted
<1>2. Waiting' = Waiting
  BY DEF Waiting
<1>3. WaitsOnce' /\ WaitsInOrder'
  BY <1>2 DEF RecordInv, WaitsOnce, WaitsInOrder
<1>4. Committed' = Committed
  BY DEF Committed
<1>5. NothingBeforehand'
  BY <1>4 DEF RecordInv, NothingBeforehand, Begun
<1>6. EndComesLast'
  BY DEF RecordInv, EndComesLast, OtherTypes
<1>7. RecordedOnce' /\ RecordedInOrder'
  BY <1>4 DEF RecordInv, RecordedOnce, RecordedInOrder
<1> QED
  BY <1>1, <1>3, <1>5, <1>6, <1>7 DEF RecordInv

\* The head of the queue leaves it.
LEMMA HeadPopped ==
    ASSUME RecordInv, pendingDelivery # <<>>, pendingDelivery' = Tail(pendingDelivery),
           UNCHANGED <<phase, rounds, notices, journal>>, DeliversSomething'
    PROVE  RecordInv'
<1> DEFINE n == Len(pendingDelivery)
<1>1. /\ n \in Nat \ {0} /\ DOMAIN pendingDelivery = 1..n
      /\ pendingDelivery' \in Seq(Event) /\ DOMAIN pendingDelivery' = 1..(n - 1)
      /\ \A i \in 1..(n - 1) :
            i + 1 \in 1..n /\ pendingDelivery'[i] = pendingDelivery[i + 1]
  BY DEF RecordInv, RecordTypes
<1>2. \A i \in Waiting' : i \in Nat /\ i + 1 \in Waiting
                          /\ pendingDelivery'[i] = pendingDelivery[i + 1]
  BY <1>1 DEF Waiting
<1>3. RecordTypes' /\ QueuesAreSorted'
  BY <1>1 DEF RecordInv, RecordTypes, QueuesAreSorted
<1>4. WaitsOnce'
  <2>1. ASSUME NEW i \in Waiting', NEW j \in Waiting',
               EntryOf(pendingDelivery'[i]) = EntryOf(pendingDelivery'[j])
        PROVE  i = j
    <3>1. i + 1 = j + 1
      BY <1>2, <2>1 DEF RecordInv, WaitsOnce
    <3> QED
      BY <1>2, <3>1
  <2>2. ASSUME NEW i \in Waiting', NEW k \in DOMAIN journal
        PROVE  journal[k] # EntryOf(pendingDelivery'[i])
    BY <1>2 DEF RecordInv, WaitsOnce
  <2> QED
    BY <2>1, <2>2 DEF WaitsOnce, EntryOf
<1>5. WaitsInOrder'
  <2>1. ASSUME NEW i \in Waiting', NEW k \in DOMAIN journal,
               pendingDelivery'[i].type = "outcome", journal[k].type = "round_start"
        PROVE  journal[k].round <= pendingDelivery'[i].round
    BY <1>2, <2>1 DEF RecordInv, WaitsInOrder
  <2>2. ASSUME NEW i \in Waiting', NEW j \in Waiting', i < j,
               pendingDelivery'[i].type = "round_start",
               pendingDelivery'[j].type = "outcome"
        PROVE  pendingDelivery'[i].round <= pendingDelivery'[j].round
    <3>1. i + 1 < j + 1
      BY <1>2, <2>2
    <3> QED
      BY <1>2, <2>2, <3>1 DEF RecordInv, WaitsInOrder
  <2> QED
    BY <2>1, <2>2 DEF WaitsInOrder
<1>6. Committed' = Committed
  BY DEF Committed
<1>7. NothingBeforehand'
  BY <1>1, <1>6 DEF RecordInv, NothingBeforehand, Begun
<1>8. EndComesLast'
  BY <1>1 DEF RecordInv, EndComesLast
<1>9. RecordedOnce' /\ RecordedInOrder'
  BY <1>6, <1>8 DEF RecordInv, RecordedOnce, RecordedInOrder, EndComesLast, Committed
<1> QED
  BY <1>3, <1>4, <1>5, <1>7, <1>8, <1>9 DEF RecordInv

\* One entry more in the journal.
LEMMA JournalGrows ==
    ASSUME RecordInv, NEW entry \in Entry, journal' = Append(journal, entry)
    PROVE  /\ journal' \in Seq(Entry) /\ DOMAIN journal' = 1..(Len(journal) + 1)
           /\ \A k \in 1..Len(journal) : journal'[k] = journal[k]
           /\ journal'[Len(journal) + 1] = entry
           /\ Committed' = IF entry.type = "chat" THEN Committed
                           ELSE Committed \cup {Len(journal) + 1}
<1> DEFINE n == Len(journal)
<1>1. /\ n \in Nat /\ DOMAIN journal = 1..n
      /\ journal' \in Seq(Entry) /\ DOMAIN journal' = 1..(n + 1)
      /\ \A k \in 1..n : journal'[k] = journal[k]
      /\ journal'[n + 1] = entry
  BY DEF RecordInv, RecordTypes
<1>2. Committed' = {k \in 1..(n + 1) : journal'[k].type # "chat"}
  BY <1>1 DEF Committed
<1>3. Committed = {k \in 1..n : journal[k].type # "chat"}
  BY <1>1 DEF Committed
<1>4. 1..(n + 1) = (1..n) \cup {n + 1}
  BY <1>1
<1> QED
  BY <1>1, <1>2, <1>3, <1>4

\* A chat message is recorded between the events of the game.
LEMMA ChatRecorded ==
    ASSUME RecordInv, NEW entry \in Entry, entry.type = "chat",
           journal' = Append(journal, entry),
           UNCHANGED <<phase, rounds, pendingDelivery, notices>>, DeliversSomething'
    PROVE  RecordInv'
<1> DEFINE n == Len(journal)
<1>1. /\ journal' \in Seq(Entry) /\ DOMAIN journal' = 1..(n + 1)
      /\ DOMAIN journal = 1..n /\ n \in Nat
      /\ \A k \in 1..n : journal'[k] = journal[k]
      /\ journal'[n + 1] = entry /\ Committed' = Committed
  BY JournalGrows, QueueLengths
<1>2. Waiting' = Waiting /\ Committed \subseteq 1..n
  BY <1>1 DEF Waiting, Committed
<1>3. RecordTypes' /\ QueuesAreSorted'
  BY <1>1 DEF RecordInv, RecordTypes, QueuesAreSorted
<1>4. \A i \in Waiting : pendingDelivery[i].type # "chat"
  BY DEF RecordInv, QueuesAreSorted, Waiting
<1>5. WaitsOnce'
  <2>1. \A i \in Waiting : EntryOf(pendingDelivery[i]) # entry
    BY <1>4 DEF EntryOf
  <2> QED
    BY <1>1, <1>2, <2>1 DEF RecordInv, WaitsOnce
<1>6. WaitsInOrder'
  BY <1>1, <1>2 DEF RecordInv, WaitsInOrder
<1>7. NothingBeforehand'
  BY <1>1, <1>2 DEF RecordInv, NothingBeforehand, Begun
<1>8. EndComesLast'
  BY <1>1 DEF RecordInv, EndComesLast
<1>9. RecordedOnce' /\ RecordedInOrder'
  BY <1>1, <1>2 DEF RecordInv, RecordedOnce, RecordedInOrder
<1> QED
  BY <1>3, <1>5, <1>6, <1>7, <1>8, <1>9 DEF RecordInv

\* The head of the queue is recorded where it waits.
LEMMA HeadRecorded ==
    ASSUME RecordInv, pendingDelivery # <<>>, IsNew(pendingDelivery[1]),
           journal' = Append(journal, EntryOf(pendingDelivery[1])),
           pendingDelivery' = [pendingDelivery EXCEPT ![1] = [@ EXCEPT !.id = Len(journal) + 1]],
           UNCHANGED <<phase, rounds, notices>>, DeliversSomething'
    PROVE  RecordInv'
<1> DEFINE n == Len(journal)
           m == Len(pendingDelivery)
           e == pendingDelivery[1]
           entry == EntryOf(e)
<1>1. /\ m \in Nat \ {0} /\ DOMAIN pendingDelivery = 1..m /\ n \in Nat
      /\ DOMAIN journal = 1..n /\ e \in Event /\ 1 \in 1..m
  BY QueueLengths DEF RecordInv, RecordTypes
<1>2. /\ e.type \in {"opening", "outcome", "round_start"} /\ e.round \in Nat
      /\ entry \in Entry /\ entry.type = e.type /\ entry.round = e.round
  BY <1>1 DEF RecordInv, QueuesAreSorted, IsNew, PublicTypes, EntryOf, Event, Entry
<1>3. 1 \in Waiting
  BY <1>1 DEF Waiting
<1>4. /\ journal' \in Seq(Entry) /\ DOMAIN journal' = 1..(n + 1)
      /\ \A k \in 1..n : journal'[k] = journal[k]
      /\ journal'[n + 1] = entry /\ Committed' = Committed \cup {n + 1}
  BY <1>2, JournalGrows
<1>5. /\ pendingDelivery' \in Seq(Event) /\ DOMAIN pendingDelivery' = 1..m
      /\ \A i \in 2..m : pendingDelivery'[i] = pendingDelivery[i]
      /\ pendingDelivery'[1].type = e.type /\ pendingDelivery'[1].round = e.round
      /\ pendingDelivery'[1].id = n + 1
  <2>1. [e EXCEPT !.id = n + 1] \in Event
    BY <1>1 DEF Event
  <2>2. /\ [e EXCEPT !.id = n + 1].type = e.type /\ [e EXCEPT !.id = n + 1].round = e.round
        /\ [e EXCEPT !.id = n + 1].id = n + 1
    BY <1>1 DEF Event
  <2> QED
    BY <1>1, <2>1, <2>2 DEF RecordInv, RecordTypes
<1> HIDE DEF entry, e, n, m
<1>6. Waiting' = Waiting \ {1}
  BY <1>1, <1>5 DEF Waiting, IsNew
<1>7. /\ Waiting \subseteq 1..m /\ Committed \subseteq 1..n
      /\ \A i \in Waiting \ {1} : i \in 2..m /\ pendingDelivery'[i] = pendingDelivery[i]
  BY <1>1, <1>5 DEF Waiting, Committed
<1>8. RecordTypes' /\ QueuesAreSorted'
  <2>1. \A i \in 1..m : pendingDelivery'[i].type = pendingDelivery[i].type
    BY <1>1, <1>5 DEF e
  <2> QED
    BY <1>1, <1>4, <1>5, <2>1 DEF RecordInv, RecordTypes, QueuesAreSorted
<1>9. WaitsOnce'
  <2>1. \A i \in Waiting \ {1} : EntryOf(pendingDelivery[i]) # entry
    BY <1>3 DEF RecordInv, WaitsOnce, entry, e
  <2> QED
    BY <1>1, <1>4, <1>6, <1>7, <2>1 DEF RecordInv, WaitsOnce
<1>10. WaitsInOrder'
  <2>1. ASSUME NEW i \in Waiting \ {1}, pendingDelivery[i].type = "outcome",
               e.type = "round_start"
        PROVE  e.round <= pendingDelivery[i].round
    <3>1. 1 < i
      BY <1>1, <1>7
    <3> QED
      BY <1>3, <2>1, <3>1 DEF RecordInv, WaitsInOrder, e
  <2>2. ASSUME NEW i \in Waiting', NEW k \in 1..(n + 1), pendingDelivery'[i].type = "outcome",
               journal'[k].type = "round_start"
        PROVE  journal'[k].round <= pendingDelivery'[i].round
    <3>1. CASE k \in 1..n
      BY <1>1, <1>4, <1>6, <1>7, <2>2, <3>1 DEF RecordInv, WaitsInOrder
    <3>2. CASE k = n + 1
      BY <1>2, <1>4, <1>6, <1>7, <2>1, <2>2, <3>2
    <3> QED
      BY <1>1, <3>1, <3>2
  <2>3. ASSUME NEW i \in Waiting', NEW j \in Waiting', i < j,
               pendingDelivery'[i].type = "round_start",
               pendingDelivery'[j].type = "outcome"
        PROVE  pendingDelivery'[i].round <= pendingDelivery'[j].round
    BY <1>6, <1>7, <2>3 DEF RecordInv, WaitsInOrder
  <2> QED
    BY <1>4, <2>2, <2>3 DEF WaitsInOrder
<1>11. NothingBeforehand'
  <2>1. Begun(e)
    BY <1>1 DEF RecordInv, NothingBeforehand, e
  <2>2. \A i \in 1..m : Begun(pendingDelivery'[i])
    BY <1>1, <1>5, <2>1 DEF RecordInv, NothingBeforehand, Begun
  <2>3. \A k \in Committed' : Begun(journal'[k]) \/ journal'[k].type = "game_ended"
    BY <1>2, <1>4, <1>7, <2>1 DEF RecordInv, NothingBeforehand, Begun
  <2> QED
    BY <1>5, <2>2, <2>3 DEF NothingBeforehand, Begun
<1>12. phase # "ended"
  BY DEF RecordInv, EndComesLast
<1>13. EndComesLast'
  BY <1>1, <1>2, <1>4, <1>12 DEF RecordInv, EndComesLast
<1>14. RecordedOnce'
  <2>1. \A k \in Committed : journal[k] # entry
    BY <1>1, <1>3, <1>7 DEF RecordInv, WaitsOnce, entry, e
  <2> QED
    BY <1>1, <1>4, <1>7, <2>1 DEF RecordInv, RecordedOnce
<1>15. RecordedInOrder'
  <2>1. \A k \in Committed' : journal'[k].type # "game_ended"
    BY <1>2, <1>4, <1>7, <1>12, <1>1 DEF RecordInv, EndComesLast
  <2>2. \A k \in Committed : k < n + 1 /\ k \in Nat
    BY <1>1, <1>7
  <2>3. ASSUME NEW k \in Committed, e.type = "outcome", journal[k].type = "round_start"
        PROVE  ~(e.round < journal[k].round)
    <3>1. journal[k].round <= e.round /\ journal[k].round \in Nat
      BY <1>1, <1>3, <1>7, <2>3, QueueLengths DEF RecordInv, WaitsInOrder, e, Entry
    <3> QED
      BY <1>2, <3>1
  <2>4. ASSUME NEW i \in Committed', NEW j \in Committed', journal'[i].type = "outcome",
               journal'[j].type = "round_start", journal'[i].round < journal'[j].round
        PROVE  i < j
    <3>1. CASE i \in Committed /\ j \in Committed
      BY <1>4, <1>7, <2>4, <3>1 DEF RecordInv, RecordedInOrder
    <3>2. CASE i \in Committed /\ j = n + 1
      BY <2>2, <3>2
    <3>3. CASE i = n + 1
      BY <1>2, <1>4, <1>7, <2>3, <2>4, <3>3
    <3> QED
      BY <1>4, <3>1, <3>2, <3>3
  <2> QED
    BY <2>1, <2>4 DEF RecordedInOrder
<1> QED
  BY <1>8, <1>9, <1>10, <1>11, <1>13, <1>14, <1>15 DEF RecordInv

\* A notice that is not an event of the journal is said.
LEMMA NoticePopped ==
    ASSUME RecordInv, notices # <<>>, notices' = Tail(notices),
           UNCHANGED <<phase, rounds, pendingDelivery, journal>>, DeliversSomething'
    PROVE  RecordInv'
<1> DEFINE n == Len(notices)
<1>1. /\ n \in Nat \ {0} /\ DOMAIN notices = 1..n
      /\ notices' \in Seq(Event) /\ DOMAIN notices' = 1..(n - 1)
      /\ \A i \in 1..(n - 1) : i + 1 \in 1..n /\ notices'[i] = notices[i + 1]
  BY DEF RecordInv, RecordTypes
<1>2. RecordTypes' /\ QueuesAreSorted'
  BY <1>1 DEF RecordInv, RecordTypes, QueuesAreSorted
<1>3. Waiting' = Waiting /\ Committed' = Committed
  BY DEF Waiting, Committed
<1>4. WaitsOnce' /\ WaitsInOrder'
  BY <1>3 DEF RecordInv, WaitsOnce, WaitsInOrder
<1>5. NothingBeforehand'
  BY <1>3 DEF RecordInv, NothingBeforehand, Begun
<1>6. \A i \in DOMAIN notices' : notices'[i].type # "game_ended"
  <2>1. ASSUME NEW i \in 1..(n - 1), notices[i + 1].type = "game_ended"
        PROVE  FALSE
    <3>1. n = 1
      BY <1>1, <2>1 DEF RecordInv, EndComesLast
    <3> QED
      BY <3>1
  <2> QED
    BY <1>1, <2>1
<1>7. EndComesLast'
  BY <1>6 DEF RecordInv, EndComesLast
<1>8. RecordedOnce' /\ RecordedInOrder'
  BY <1>3 DEF RecordInv, RecordedOnce, RecordedInOrder
<1> QED
  BY <1>2, <1>4, <1>5, <1>7, <1>8 DEF RecordInv

\* The end is recorded when it is said.
LEMMA EndRecorded ==
    ASSUME RecordInv, notices # <<>>, notices[1].type = "game_ended",
           notices' = Tail(notices), NEW entry \in Entry, entry.type = "game_ended",
           journal' = Append(journal, entry),
           UNCHANGED <<phase, rounds, pendingDelivery>>, DeliversSomething'
    PROVE  RecordInv'
<1> DEFINE n == Len(journal)
<1>1. /\ Len(notices) = 1 /\ phase = "ended" /\ pendingDelivery = <<>>
      /\ \A k \in DOMAIN journal : journal[k].type # "game_ended"
  <2>1. 1 \in DOMAIN notices
    BY DEF RecordInv, RecordTypes
  <2> QED
    BY <2>1 DEF RecordInv, EndComesLast
<1>2. notices' \in Seq(Event) /\ DOMAIN notices' = {}
  BY <1>1 DEF RecordInv, RecordTypes
<1>3. /\ journal' \in Seq(Entry) /\ DOMAIN journal' = 1..(n + 1)
      /\ DOMAIN journal = 1..n /\ n \in Nat
      /\ \A k \in 1..n : journal'[k] = journal[k]
      /\ journal'[n + 1] = entry /\ Committed' = Committed \cup {n + 1}
  BY JournalGrows, QueueLengths
<1>4. Waiting' = {} /\ Committed \subseteq 1..n /\ DOMAIN pendingDelivery = {}
  BY <1>1, <1>3 DEF Waiting, Committed
<1>5. RecordTypes' /\ QueuesAreSorted'
  BY <1>2, <1>3, <1>4 DEF RecordInv, RecordTypes, QueuesAreSorted
<1>6. WaitsOnce' /\ WaitsInOrder'
  BY <1>4 DEF WaitsOnce, WaitsInOrder
<1>7. NothingBeforehand'
  BY <1>3, <1>4 DEF RecordInv, NothingBeforehand, Begun
<1>8. EndComesLast'
  BY <1>1, <1>2 DEF EndComesLast
<1>9. RecordedOnce'
  <2>1. \A k \in Committed : journal[k] # entry
    BY <1>1, <1>3, <1>4
  <2> QED
    BY <1>3, <1>4, <2>1 DEF RecordInv, RecordedOnce
<1>10. RecordedInOrder'
  <2>1. \A i \in Committed' : i <= n + 1
    BY <1>3, <1>4
  <2>2. \A j \in Committed' : journal'[j].type = "game_ended" => j = n + 1
    BY <1>1, <1>3, <1>4
  <2>3. \A i, j \in Committed' :
           journal'[i].type = "outcome" /\ journal'[j].type = "round_start"
             /\ journal'[i].round < journal'[j].round => i < j
    BY <1>3, <1>4 DEF RecordInv, RecordedInOrder
  <2> QED
    BY <1>1, <2>1, <2>2, <2>3 DEF RecordedInOrder
<1> QED
  BY <1>5, <1>6, <1>7, <1>8, <1>9, <1>10 DEF RecordInv

\* The end follows when everything committed is delivered.
LEMMA EndCommitted ==
    ASSUME RecordInv, phase # "ended", phase' = "ended", pendingDelivery = <<>>,
           notices' = <<Said("game_ended", 0)>>,
           UNCHANGED <<rounds, pendingDelivery, journal>>, DeliversSomething'
    PROVE  RecordInv'
<1>1. /\ notices' \in Seq(Event) /\ DOMAIN notices' = {1} /\ Len(notices') = 1
      /\ notices'[1] = [type |-> "game_ended", round |-> 0, id |-> 0]
  BY DEF Said, Event, PublicTypes
<1>2. RecordTypes' /\ QueuesAreSorted'
  BY <1>1 DEF RecordInv, RecordTypes, QueuesAreSorted, Phases
<1>3. Waiting' = {} /\ Committed' = Committed /\ DOMAIN pendingDelivery = {}
  BY DEF Waiting, Committed
<1>4. WaitsOnce' /\ WaitsInOrder'
  BY <1>3 DEF WaitsOnce, WaitsInOrder
<1>5. NothingBeforehand'
  BY <1>3 DEF RecordInv, NothingBeforehand, Begun
<1>6. EndComesLast'
  BY <1>1 DEF RecordInv, EndComesLast
<1>7. RecordedOnce' /\ RecordedInOrder'
  BY <1>3 DEF RecordInv, RecordedOnce, RecordedInOrder
<1> QED
  BY <1>2, <1>4, <1>5, <1>6, <1>7 DEF RecordInv

LEMMA ThreeMore ==
    ASSUME NEW m \in Nat
    PROVE  1..(m + 3) = (1..m) \cup {m + 1, m + 2, m + 3}
<1>1. \A i \in 1..(m + 3) : i \in 1..m \/ i = m + 1 \/ i = m + 2 \/ i = m + 3
  OBVIOUS
<1>2. \A i \in 1..m : i \in 1..(m + 3)
  OBVIOUS
<1>3. m + 1 \in 1..(m + 3) /\ m + 2 \in 1..(m + 3) /\ m + 3 \in 1..(m + 3)
  OBVIOUS
<1> QED
  BY <1>1, <1>2, <1>3

\* A commit queues the events of its round behind what is left of earlier ones.
LEMMA CommitQueued ==
    ASSUME RecordInv, NEW first, NEW n \in Nat,
           \/ first = "opening" /\ n = 0 /\ phase = "preparing"
           \/ first = "outcome" /\ n = rounds + 1 /\ phase = "thinking",
           phase' = "turn", rounds' = n, journal' = journal,
           notices' = <<Said("thinking_off", 0)>>,
           pendingDelivery' = pendingDelivery \o
               <<Said(first, n), Said("round_start", n + 1), Said("directive", 0)>>
    PROVE  RecordInv'
<1> DEFINE m == Len(pendingDelivery)
           a == Said(first, n)
           b == Said("round_start", n + 1)
           c == Said("directive", 0)
<1>1. /\ a = [type |-> first, round |-> n, id |-> 0]
      /\ b = [type |-> "round_start", round |-> n + 1, id |-> 0]
      /\ c = [type |-> "directive", round |-> 0, id |-> 0]
      /\ a \in Event /\ b \in Event /\ c \in Event
  BY DEF Said, Event, PublicTypes, OtherTypes
<1> HIDE DEF a, b, c
<1>2. /\ m \in Nat /\ DOMAIN pendingDelivery = 1..m /\ rounds \in Nat
      /\ pendingDelivery \in Seq(Event)
      /\ \A i \in 1..m : pendingDelivery[i] \in Event
  BY QueueLengths DEF RecordInv, RecordTypes
<1>3. /\ pendingDelivery' \in Seq(Event) /\ DOMAIN pendingDelivery' = 1..(m + 3)
      /\ \A i \in 1..m : pendingDelivery'[i] = pendingDelivery[i]
      /\ pendingDelivery'[m + 1] = a /\ pendingDelivery'[m + 2] = b
      /\ pendingDelivery'[m + 3] = c
  <2>1. pendingDelivery' = pendingDelivery \o <<a, b, c>>
    BY DEF a, b, c
  <2>2. <<a, b, c>> \in Seq(Event) /\ Len(<<a, b, c>>) = 3
    BY <1>1
  <2> QED
    BY <1>2, <2>1, <2>2
<1> HIDE DEF m
<1>4. 1..(m + 3) = (1..m) \cup {m + 1, m + 2, m + 3} /\ m \in Nat
  BY <1>2, ThreeMore
<1>15. /\ a.type = first /\ a.round = n /\ a.id = 0
       /\ b.type = "round_start" /\ b.round = n + 1 /\ b.id = 0
       /\ c.type = "directive" /\ c.round = 0 /\ c.id = 0
  BY <1>1
<1>5. Waiting' = Waiting \cup {m + 1, m + 2} /\ Waiting \subseteq 1..m
  <2>1. IsNew(a) /\ IsNew(b) /\ ~IsNew(c)
    BY <1>1 DEF IsNew, PublicTypes
  <2>2. Waiting' = {i \in 1..(m + 3) : IsNew(pendingDelivery'[i])}
    BY <1>3 DEF Waiting, IsNew
  <2>3. Waiting = {i \in 1..m : IsNew(pendingDelivery[i])}
    BY <1>2 DEF Waiting
  <2>4. \A i \in 1..m : IsNew(pendingDelivery'[i]) <=> IsNew(pendingDelivery[i])
    BY <1>3
  <2>5. \A i \in 1..m : i # m + 1 /\ i # m + 2 /\ i # m + 3
    BY <1>4
  <2> QED
    BY <1>3, <1>4, <2>1, <2>2, <2>3, <2>4, <2>5
<1>6. ASSUME NEW i \in 1..m
      PROVE  /\ pendingDelivery[i].type = "outcome" => pendingDelivery[i].round < n
             /\ pendingDelivery[i].type = "round_start" => pendingDelivery[i].round <= n
             /\ pendingDelivery[i].type = "opening" => first # "opening"
  <2>1. pendingDelivery[i].round \in Nat /\ Begun(pendingDelivery[i])
    BY <1>2 DEF RecordInv, NothingBeforehand, Event
  <2> QED
    BY <1>2, <2>1 DEF Begun
<1>7. ASSUME NEW k \in DOMAIN journal
      PROVE  /\ journal[k].type = "outcome" => journal[k].round < n
             /\ journal[k].type = "round_start" => journal[k].round <= n
             /\ journal[k].type = "opening" => first # "opening"
  <2>1. journal[k].type = "game_ended" => phase = "ended"
    BY DEF RecordInv, EndComesLast
  <2>2. journal[k].round \in Nat
    BY QueueLengths DEF Entry
  <2>3. journal[k].type \notin {"chat", "game_ended"} => Begun(journal[k])
    BY DEF RecordInv, NothingBeforehand, Committed
  <2> QED
    BY <1>2, <2>1, <2>2, <2>3 DEF Begun
<1>8. RecordTypes' /\ QueuesAreSorted'
  <2>1. /\ notices' \in Seq(Event) /\ DOMAIN notices' = {1}
        /\ notices'[1] = [type |-> "thinking_off", round |-> 0, id |-> 0]
    BY DEF Said, Event, OtherTypes
  <2>2. RecordTypes'
    BY <1>3, <2>1 DEF RecordInv, RecordTypes, Phases
  <2>3. ASSUME NEW i \in 1..(m + 3)
        PROVE  pendingDelivery'[i].type \in {"opening", "outcome", "round_start", "directive"}
    <3>1. CASE i \in 1..m
      BY <1>2, <1>3, <3>1 DEF RecordInv, QueuesAreSorted
    <3>2. CASE i \in {m + 1, m + 2, m + 3}
      BY <1>3, <1>15, <3>2
    <3> QED
      BY <1>4, <3>1, <3>2
  <2>5. \A i \in DOMAIN notices' : /\ notices'[i].type \in OtherTypes \cup {"game_ended"}
                                   /\ notices'[i].id = 0 /\ notices'[i].round = 0
    BY <2>1 DEF OtherTypes
  <2>4. QueuesAreSorted'
    BY <1>3, <2>3, <2>5 DEF QueuesAreSorted, OtherTypes
  <2> QED
    BY <2>2, <2>4
<1>9. /\ \A i \in Waiting : EntryOf(pendingDelivery[i]) \notin {EntryOf(a), EntryOf(b)}
      /\ \A k \in DOMAIN journal : journal[k] \notin {EntryOf(a), EntryOf(b)}
      /\ EntryOf(a) # EntryOf(b)
  <2>1. /\ EntryOf(a) = [type |-> first, round |-> n]
        /\ EntryOf(b) = [type |-> "round_start", round |-> n + 1]
    BY <1>1 DEF EntryOf
  <2>2. \A i \in Waiting : /\ EntryOf(pendingDelivery[i]).type = pendingDelivery[i].type
                           /\ EntryOf(pendingDelivery[i]).round = pendingDelivery[i].round
    BY DEF EntryOf
  <2>3. \A i \in Waiting : EntryOf(pendingDelivery[i]) \notin {EntryOf(a), EntryOf(b)}
    BY <1>5, <1>6, <2>1, <2>2
  <2>4. \A k \in DOMAIN journal : journal[k] \notin {EntryOf(a), EntryOf(b)}
    BY <1>7, <2>1
  <2> QED
    BY <2>1, <2>3, <2>4
<1>10. WaitsOnce'
  <2>1. /\ \A i \in Waiting : pendingDelivery'[i] = pendingDelivery[i]
        /\ pendingDelivery'[m + 1] = a /\ pendingDelivery'[m + 2] = b
        /\ Waiting' = Waiting \cup {m + 1, m + 2}
    BY <1>3, <1>5
  <2>2. \A i, j \in Waiting :
           EntryOf(pendingDelivery[i]) = EntryOf(pendingDelivery[j]) => i = j
    BY DEF RecordInv, WaitsOnce
  <2>3. ASSUME NEW i \in Waiting', NEW j \in Waiting',
               EntryOf(pendingDelivery'[i]) = EntryOf(pendingDelivery'[j])
        PROVE  i = j
    <3>1. CASE i \in Waiting /\ j \in Waiting
      <4>1. EntryOf(pendingDelivery[i]) = EntryOf(pendingDelivery[j])
        BY <2>1, <2>3, <3>1
      <4> QED
        BY <2>2, <3>1, <4>1
    <3>2. CASE i \in Waiting /\ j \notin Waiting
      <4>1. EntryOf(pendingDelivery[i]) \in {EntryOf(a), EntryOf(b)}
        BY <2>1, <2>3, <3>2
      <4> QED
        BY <1>9, <3>2, <4>1
    <3>3. CASE i \notin Waiting /\ j \in Waiting
      <4>1. EntryOf(pendingDelivery[j]) \in {EntryOf(a), EntryOf(b)}
        BY <2>1, <2>3, <3>3
      <4> QED
        BY <1>9, <3>3, <4>1
    <3>4. CASE i \notin Waiting /\ j \notin Waiting
      <4>1. i \in {m + 1, m + 2} /\ j \in {m + 1, m + 2}
        BY <2>1, <3>4
      <4>2. ~(i = m + 1 /\ j = m + 2) /\ ~(i = m + 2 /\ j = m + 1)
        BY <1>9, <2>1, <2>3
      <4> QED
        BY <4>1, <4>2
    <3> QED
      BY <3>1, <3>2, <3>3, <3>4
  <2>4. \A i \in Waiting, k \in DOMAIN journal : journal[k] # EntryOf(pendingDelivery[i])
    BY DEF RecordInv, WaitsOnce
  <2>5. \A i \in Waiting', k \in DOMAIN journal' :
           journal'[k] # EntryOf(pendingDelivery'[i])
    BY <1>9, <2>1, <2>4
  <2> QED
    BY <2>3, <2>5 DEF WaitsOnce, EntryOf
<1>11. WaitsInOrder'
  <2>1. ASSUME NEW i \in Waiting', NEW k \in DOMAIN journal,
               pendingDelivery'[i].type = "outcome", journal[k].type = "round_start"
        PROVE  journal[k].round <= pendingDelivery'[i].round
    <3>1. CASE i \in Waiting
      BY <1>3, <1>5, <2>1, <3>1 DEF RecordInv, WaitsInOrder
    <3>2. CASE i = m + 1
      BY <1>3, <1>7, <1>15, <2>1, <3>2
    <3>3. CASE i = m + 2
      BY <1>3, <1>15, <2>1, <3>3
    <3> QED
      BY <1>5, <3>1, <3>2, <3>3
  <2>2. ASSUME NEW i \in Waiting', NEW j \in Waiting', i < j,
               pendingDelivery'[i].type = "round_start",
               pendingDelivery'[j].type = "outcome"
        PROVE  pendingDelivery'[i].round <= pendingDelivery'[j].round
    <3>1. CASE i \in Waiting /\ j \in Waiting
      BY <1>3, <1>5, <2>2, <3>1 DEF RecordInv, WaitsInOrder
    <3>2. CASE i \in Waiting /\ j = m + 1
      BY <1>3, <1>5, <1>6, <1>15, <2>2, <3>2
    <3>3. CASE j = m + 2
      BY <1>3, <1>15, <2>2, <3>3
    <3>4. CASE i = m + 1
      BY <1>3, <1>15, <2>2, <3>4
    <3>5. CASE i = m + 2 /\ (j \in Waiting \/ j = m + 1)
      BY <1>2, <1>5, <2>2, <3>5
    <3> QED
      BY <1>5, <3>1, <3>2, <3>3, <3>4, <3>5
  <2> QED
    BY <2>1, <2>2 DEF WaitsInOrder
<1>12. NothingBeforehand'
  <2>1. \A i \in 1..m : Begun(pendingDelivery[i])'
    <3>1. ASSUME NEW i \in 1..m
          PROVE  /\ pendingDelivery[i].type = "outcome" => pendingDelivery[i].round <= n
                 /\ pendingDelivery[i].type = "round_start" => pendingDelivery[i].round <= n + 1
      <4>1. pendingDelivery[i].round \in Nat
        BY <1>2 DEF Event
      <4> QED
        BY <1>6, <4>1
    <3> QED
      BY <1>3, <3>1 DEF Begun
  <2>2. \A i \in {m + 1, m + 2, m + 3} : Begun(pendingDelivery[i])'
    <3>1. ASSUME NEW i \in {m + 1, m + 2, m + 3}
          PROVE  /\ pendingDelivery'[i].type = "outcome" => pendingDelivery'[i].round <= n
                 /\ pendingDelivery'[i].type = "round_start" =>
                       pendingDelivery'[i].round <= n + 1
      <4>1. n <= n /\ n <= n + 1 /\ n + 1 <= n + 1
        OBVIOUS
      <4>2. CASE i = m + 1
        <5>1. pendingDelivery'[i].type \in {"opening", "outcome"} /\ pendingDelivery'[i].round = n
          BY <1>3, <1>15, <4>2
        <5> QED
          BY <4>1, <5>1
      <4>3. CASE i = m + 2
        BY <1>3, <1>15, <4>1, <4>3
      <4>4. CASE i = m + 3
        BY <1>3, <1>15, <4>4
      <4> QED
        BY <4>2, <4>3, <4>4
    <3> QED
      BY <3>1 DEF Begun
  <2>3. \A k \in Committed : Begun(journal[k])' \/ journal[k].type = "game_ended"
    <3>1. ASSUME NEW k \in DOMAIN journal
          PROVE  /\ journal[k].type = "outcome" => journal[k].round <= n
                 /\ journal[k].type = "round_start" => journal[k].round <= n + 1
      <4>1. journal[k].round \in Nat
        BY QueueLengths DEF Entry
      <4> QED
        BY <1>7, <4>1
    <3> QED
      BY <3>1 DEF Begun, Committed
  <2>4. Committed' = Committed
    BY DEF Committed
  <2> QED
    BY <1>3, <1>4, <2>1, <2>2, <2>3, <2>4 DEF NothingBeforehand
<1>13. EndComesLast'
  <2>1. \A k \in DOMAIN journal : journal[k].type # "game_ended"
    BY DEF RecordInv, EndComesLast
  <2>2. DOMAIN notices' = {1} /\ notices'[1].type # "game_ended"
    BY DEF Said
  <2> QED
    BY <2>1, <2>2 DEF EndComesLast
<1>14. RecordedOnce' /\ RecordedInOrder'
  <2>1. Committed' = Committed /\ \A k \in Committed : journal[k].type # "game_ended"
    BY DEF RecordInv, EndComesLast, Committed
  <2> QED
    BY <2>1 DEF RecordInv, RecordedOnce, RecordedInOrder
<1>16. DeliversSomething'
  <2>1. m + 3 \in 1..(m + 3)
    BY <1>4
  <2>2. pendingDelivery' # <<>>
    BY <1>3, <2>1
  <2> QED
    BY <2>2 DEF DeliversSomething
<1> QED
  BY <1>8, <1>10, <1>11, <1>12, <1>13, <1>14, <1>16 DEF RecordInv

\* The broadcasts of deliveries record the head of the queue or nothing.
LEMMA DeliverRecords ==
    ASSUME RecordInv, Deliver
    PROVE  RecordInv'
<1> DEFINE e == pendingDelivery[1]
<1>1. /\ pendingDelivery # <<>> /\ Head(pendingDelivery) = e
      /\ pendingDelivery' = [pendingDelivery EXCEPT ![1] = Stamped(@)]
      /\ UNCHANGED <<phase, rounds, notices>>
      /\ journal' = IF IsNew(e) THEN Append(journal, [type |-> e.type, round |-> e.round])
                    ELSE journal
      /\ pendingDelivery \in Seq(Event)
  BY DEF Deliver, Delivering, Publish, RecordInv, RecordTypes
<1>2. DeliversSomething'
  BY <1>1 DEF DeliversSomething
<1>3. CASE IsNew(e)
  BY <1>1, <1>2, <1>3, HeadRecorded DEF Stamped, Recorded, EntryOf
<1>4. CASE ~IsNew(e)
  <2>1. pendingDelivery' = pendingDelivery
    BY <1>1, <1>4 DEF Stamped, Recorded
  <2> QED
    BY <1>1, <1>2, <1>4, <2>1, NothingRecorded
<1> QED
  BY <1>3, <1>4

LEMMA DeliveriesRecord ==
    ASSUME RecordInv, Deliveries
    PROVE  RecordInv'
<1>1. CASE Deliver
  BY <1>1, DeliverRecords
<1>2. CASE Delivered \/ SkipPassed
  <2>1. pendingDelivery # <<>>
    BY <1>2 DEF Delivered, SkipPassed, Published, Delivering, RecordInv, DeliversSomething
  <2>2. /\ pendingDelivery' = Tail(pendingDelivery)
        /\ UNCHANGED <<phase, rounds, notices, journal>> /\ publishing' = Silence
    BY <1>2 DEF Delivered, SkipPassed, Published, PopDelivered, record
  <2>3. DeliversSomething'
    BY <2>2 DEF DeliversSomething, Silence
  <2> QED
    BY <2>1, <2>2, <2>3, HeadPopped
<1>3. CASE DeadlineBetween \/ DeadlineInside \/ DeliveryCut \/ Recover
  <2>1. UNCHANGED <<phase, rounds, pendingDelivery, notices, journal>>
    BY <1>3 DEF DeadlineBetween, DeadlineInside, DeliveryCut, Recover, Published,
                LeaveDelivery, record, game
  <2>2. publishing' = publishing \/ publishing' = Silence \/ publishing.by = "delivery"
    BY <1>3 DEF DeadlineBetween, DeadlineInside, DeliveryCut, Published, Recover, record
  <2>3. DeliversSomething'
    BY <2>1, <2>2 DEF RecordInv, DeliversSomething, Silence
  <2> QED
    BY <2>1, <2>3, NothingRecorded
<1> QED
  BY <1>1, <1>2, <1>3 DEF Deliveries

LEMMA SendNoticeRecords ==
    ASSUME RecordInv, SendNotice
    PROVE  RecordInv'
<1> DEFINE e == notices[1]
<1>1. /\ notices # <<>> /\ Head(notices) = e /\ notices' = Tail(notices)
      /\ 1 \in DOMAIN notices
      /\ UNCHANGED <<phase, rounds, pendingDelivery>>
      /\ journal' = IF IsNew(e) THEN Append(journal, [type |-> e.type, round |-> e.round])
                    ELSE journal
      /\ publishing' = [by |-> "notice", event |-> Recorded(e), again |-> FALSE]
  BY DEF SendNotice, Publish, RecordInv, RecordTypes
<1>2. DeliversSomething'
  BY <1>1 DEF DeliversSomething
<1>3. e.id = 0 /\ e.round = 0 /\ e.type \in OtherTypes \cup {"game_ended"}
  BY <1>1 DEF RecordInv, QueuesAreSorted
<1>4. CASE e.type = "game_ended"
  <2>1. [type |-> e.type, round |-> e.round] \in Entry
    BY <1>3, <1>4 DEF Entry, PublicTypes
  <2>2. IsNew(e)
    BY <1>3, <1>4 DEF IsNew, PublicTypes
  <2> QED
    BY <1>1, <1>2, <1>4, <2>1, <2>2, EndRecorded
<1>5. CASE e.type # "game_ended"
  <2>1. ~IsNew(e)
    BY <1>3, <1>5 DEF IsNew, PublicTypes, OtherTypes
  <2> QED
    BY <1>1, <1>2, <2>1, NoticePopped
<1> QED
  BY <1>4, <1>5

LEMMA NoticesRecord ==
    ASSUME RecordInv, Notices
    PROVE  RecordInv'
<1>1. CASE SendNotice
  BY <1>1, SendNoticeRecords
<1>2. CASE NoticeSent \/ ChatSent
  <2>1. /\ UNCHANGED <<phase, rounds, pendingDelivery, notices, journal>>
        /\ publishing' = Silence
    BY <1>2 DEF NoticeSent, ChatSent, Published, game
  <2>2. DeliversSomething'
    BY <2>1 DEF DeliversSomething, Silence
  <2> QED
    BY <2>1, <2>2, NothingRecorded
<1>3. CASE SendChat
  <2>1. Said("chat", 0) = [type |-> "chat", round |-> 0, id |-> 0] /\ IsNew(Said("chat", 0))
    BY DEF Said, IsNew, PublicTypes
  <2>2. /\ journal' = Append(journal, [type |-> "chat", round |-> 0])
        /\ publishing'.by = "chat"
        /\ UNCHANGED <<phase, rounds, pendingDelivery, notices>>
    BY <1>3, <2>1 DEF SendChat, Publish, game
  <2>3. [type |-> "chat", round |-> 0] \in Entry /\ DeliversSomething'
    BY <2>2 DEF Entry, PublicTypes, DeliversSomething
  <2> QED
    BY <2>2, <2>3, ChatRecorded
<1> QED
  BY <1>1, <1>2, <1>3 DEF Notices

LEMMA GameRecords ==
    ASSUME RecordInv, Game
    PROVE  RecordInv'
<1>1. journal' = journal /\ publishing' = publishing
  BY DEF Game, StartGame, OpenGame, LaunchRound, CommitRound, Commit, PauseRound, RetryRound,
         BeginEnd, FinishEnd, record
<1>2. CASE StartGame \/ LaunchRound \/ RetryRound \/ PauseRound
  <2>1. /\ UNCHANGED <<rounds, pendingDelivery>>
        /\ phase # "ended" /\ phase' \in {"preparing", "thinking", "paused"}
        /\ phase' = "preparing" => phase = "lobby"
    BY <1>2 DEF StartGame, LaunchRound, RetryRound, PauseRound, Launch
  <2>2. notices' \in {<<Said("thinking_on", 0)>>,
                      <<Said("paused", 0), Said("thinking_off", 0)>>}
    BY <1>2 DEF StartGame, LaunchRound, RetryRound, PauseRound, Launch
  <2>3. /\ notices' \in Seq(Event)
        /\ \A i \in DOMAIN notices' :
              notices'[i].type \in OtherTypes /\ notices'[i].id = 0 /\ notices'[i].round = 0
    <3> DEFINE on == Said("thinking_on", 0)
               off == Said("thinking_off", 0)
               pause == Said("paused", 0)
    <3>1. \A e \in {on, off, pause} :
             e \in Event /\ e.type \in OtherTypes /\ e.id = 0 /\ e.round = 0
      BY DEF Said, Event, OtherTypes
    <3> HIDE DEF on, off, pause
    <3>2. /\ <<on>> \in Seq(Event) /\ DOMAIN <<on>> = {1} /\ <<on>>[1] = on
          /\ <<pause, off>> \in Seq(Event) /\ DOMAIN <<pause, off>> = {1, 2}
          /\ <<pause, off>>[1] = pause /\ <<pause, off>>[2] = off
      BY <3>1
    <3>3. notices' = <<on>> \/ notices' = <<pause, off>>
      BY <2>2 DEF on, off, pause
    <3> QED
      BY <3>1, <3>2, <3>3
  <2>4. DeliversSomething'
    BY <1>1, <2>1 DEF RecordInv, DeliversSomething
  <2> QED
    BY <1>1, <2>1, <2>3, <2>4, NothingRecorded DEF Phases
<1>3. CASE BeginEnd
  <2>1. UNCHANGED <<phase, rounds, pendingDelivery, notices>>
    BY <1>3 DEF BeginEnd
  <2>2. DeliversSomething'
    BY <1>1, <2>1 DEF RecordInv, DeliversSomething
  <2> QED
    BY <1>1, <2>1, <2>2, NothingRecorded
<1>4. CASE FinishEnd
  <2>1. DeliversSomething'
    BY <1>1, <1>4 DEF FinishEnd, RecordInv, DeliversSomething
  <2> QED
    BY <1>1, <1>4, <2>1, EndCommitted DEF FinishEnd
<1>5. ASSUME NEW first, NEW n \in Nat, Commit(first, n),
             \/ first = "opening" /\ n = 0 /\ phase = "preparing"
             \/ first = "outcome" /\ n = rounds + 1 /\ phase = "thinking"
      PROVE  RecordInv'
  <2> DEFINE queued == <<Said(first, n), Said("round_start", n + 1), Said("directive", 0)>>
  <2>1. /\ pendingDelivery' = pendingDelivery \o queued
        /\ phase' = "turn" /\ rounds' = n /\ notices' = <<Said("thinking_off", 0)>>
    BY <1>5 DEF Commit
  <2> QED
    BY <1>1, <1>5, <2>1, CommitQueued
<1>6. CASE OpenGame
  BY <1>5, <1>6 DEF OpenGame
<1>7. CASE CommitRound
  <2>1. rounds + 1 \in Nat
    BY DEF RecordInv, RecordTypes
  <2> QED
    BY <1>5, <1>7, <2>1 DEF CommitRound
<1> QED
  BY <1>2, <1>3, <1>4, <1>6, <1>7 DEF Game

LEMMA StepRecords ==
    ASSUME RecordInv, [Next]_vars
    PROVE  RecordInv'
<1>1. CASE Elsewhere
  BY <1>1, DeliveriesRecord, NoticesRecord, GameRecords DEF Elsewhere, PublicationNext
<1>2. CASE Server \/ Browser \/ UNCHANGED vars
  <2>1. UNCHANGED <<game, record>>
    BY <1>2 DEF Server, Authenticate, LoseSocket, AnswerPage, RefusePage, Answer,
                Browser, Receive, ReceiveAuth, ReceivePage, ReceiveRefusal, ShowEvent,
                HoldEvent, HoldTooMany, StartClosing, NoticeClose, Closed, AskAgain, GiveUp, vars
  <2>2. DeliversSomething'
    BY <2>1 DEF RecordInv, DeliversSomething, game, record
  <2> QED
    BY <2>1, <2>2, NothingRecorded DEF game, record
<1> QED
  BY <1>1, <1>2 DEF Next

LEMMA InitRecords == Init => RecordInv
<1> SUFFICES ASSUME Init PROVE RecordInv
  OBVIOUS
<1>1. /\ phase = "lobby" /\ rounds = 0 /\ pendingDelivery = <<>> /\ notices = <<>>
      /\ journal = <<>> /\ publishing = Silence
  BY DEF Init, PublicationInit
<1>2. Waiting = {} /\ Committed = {}
  BY <1>1 DEF Waiting, Committed
<1>3. RecordTypes
  BY <1>1 DEF RecordTypes, Phases
<1>4. QueuesAreSorted /\ EndComesLast /\ DeliversSomething
  BY <1>1 DEF QueuesAreSorted, EndComesLast, DeliversSomething, Silence
<1>5. WaitsOnce /\ WaitsInOrder /\ RecordedOnce /\ RecordedInOrder
  BY <1>2 DEF WaitsOnce, WaitsInOrder, RecordedOnce, RecordedInOrder
<1>6. NothingBeforehand
  BY <1>1, <1>2 DEF NothingBeforehand
<1> QED
  BY <1>3, <1>4, <1>5, <1>6 DEF RecordInv

\* A committed event gets one place in the journal, whatever deadline cuts its delivery
\* and whoever finishes it (_publish_recorded, _deliver_pending).
THEOREM EventsAreRecordedOnce == Spec => []RecordedOnce
<1>1. RecordInv => RecordedOnce
  BY DEF RecordInv
<1> QED
  BY <1>1, InitRecords, StepRecords, PTL DEF Spec

\* Outcomes are recorded before the rounds that follow them, and the end after everything.
THEOREM EventsAreRecordedInOrder == Spec => []RecordedInOrder
<1>1. RecordInv => RecordedInOrder
  BY DEF RecordInv
<1> QED
  BY <1>1, InitRecords, StepRecords, PTL DEF Spec

-----------------------------------------------------------------------------
(* A request never loses its answer *)

IsSequence(s) == \E S : s \in Seq(S)

Answers(m, after) == m.type \in {"journal_page", "refused"} /\ m.after = after

OnItsWay(after, asked, sent) ==
    \/ \E i \in DOMAIN asked : asked[i] = after
    \/ \E i \in DOMAIN sent : Answers(sent[i], after)

IsRequest(r) == r = [status |-> r.status, after |-> r.after]

\* A page that has noticed its socket is gone asks for nothing.
AnswerInv ==
    /\ IsSequence(upstream) /\ IsSequence(stream)
    /\ conn = "closed" => request.status = "none"
    /\ IsRequest(request)
    /\ AnswerIsComing

LEMMA Appended ==
    ASSUME NEW s, IsSequence(s), NEW x
    PROVE  /\ IsSequence(Append(s, x)) /\ IsSequence(<<x>>)
           /\ \A i \in DOMAIN s : i \in DOMAIN Append(s, x) /\ Append(s, x)[i] = s[i]
           /\ \E i \in DOMAIN Append(s, x) : Append(s, x)[i] = x
<1>1. PICK S : s \in Seq(S)
  BY DEF IsSequence
<1> DEFINE T == S \cup {x}
<1>2. s \in Seq(T)
  BY <1>1
<1>3. x \in T
  OBVIOUS
<1> HIDE DEF T
<1>4. Append(s, x) \in Seq(T) /\ <<x>> \in Seq(T)
  BY <1>2, <1>3
<1>5. /\ DOMAIN s = 1..Len(s) /\ Len(s) \in Nat
      /\ DOMAIN Append(s, x) = 1..(Len(s) + 1)
      /\ \A i \in 1..Len(s) : Append(s, x)[i] = s[i]
      /\ Append(s, x)[Len(s) + 1] = x
  BY <1>2, <1>3
<1>6. \A i \in 1..Len(s) : i \in 1..(Len(s) + 1)
  BY <1>5
<1>7. Len(s) + 1 \in 1..(Len(s) + 1)
  BY <1>5
<1> QED
  BY <1>4, <1>5, <1>6, <1>7 DEF IsSequence

LEMMA Taken ==
    ASSUME NEW s, IsSequence(s), s # <<>>
    PROVE  /\ IsSequence(Tail(s)) /\ Head(s) = s[1]
           /\ \A i \in DOMAIN s : i = 1 \/ \E j \in DOMAIN Tail(s) : Tail(s)[j] = s[i]
<1>1. PICK S : s \in Seq(S)
  BY DEF IsSequence
<1>2. /\ DOMAIN s = 1..Len(s) /\ Len(s) \in Nat \ {0} /\ Tail(s) \in Seq(S)
      /\ Head(s) = s[1] /\ DOMAIN Tail(s) = 1..(Len(s) - 1)
      /\ \A i \in 1..(Len(s) - 1) : Tail(s)[i] = s[i + 1]
  BY <1>1
<1>3. ASSUME NEW i \in 1..Len(s), i # 1
      PROVE  \E j \in DOMAIN Tail(s) : Tail(s)[j] = s[i]
  <2>1. i - 1 \in 1..(Len(s) - 1) /\ Tail(s)[i - 1] = s[i]
    BY <1>2, <1>3
  <2> QED
    BY <1>2, <2>1
<1> QED
  BY <1>2, <1>3 DEF IsSequence

\* Steps that take nothing from either direction, except with the socket.
LEMMA NothingTaken ==
    ASSUME AnswerInv, IsSequence(upstream'), IsSequence(stream'),
           UNCHANGED request, conn' = "closed" => conn = "closed",
           attached' => attached,
           attached' => \A after : OnItsWay(after, upstream, stream)
                                     => OnItsWay(after, upstream', stream')
    PROVE  AnswerInv'
<1>1. AnswerIsComing = (request.status = "sent" /\ attached =>
                           OnItsWay(request.after, upstream, stream))
  BY DEF AnswerIsComing, OnItsWay, Answers
<1>2. AnswerIsComing' = (request'.status = "sent" /\ attached' =>
                           OnItsWay(request'.after, upstream', stream'))
  BY DEF AnswerIsComing, OnItsWay, Answers
<1> QED
  BY <1>1, <1>2 DEF AnswerInv

\* What the server queues goes behind the rest, or the socket is given up.
LEMMA EnqueueKeeps ==
    ASSUME IsSequence(stream), NEW m, Enqueue(m)
    PROVE  /\ IsSequence(stream') /\ (attached' => attached)
           /\ attached' /\ attached => stream' = Append(stream, m)
<1>1. IsSequence(<<>>)
  <2>1. <<>> \in Seq({})
    OBVIOUS
  <2> QED
    BY <2>1 DEF IsSequence
<1>2. IsSequence(Append(stream, m))
  BY Appended
<1>3. CASE ~attached
  BY <1>3 DEF Enqueue, socket
<1>4. CASE attached /\ stream' = Append(stream, m) /\ UNCHANGED attached
  BY <1>2, <1>4
<1>5. CASE attached /\ attached' = FALSE /\ stream' = <<>>
  BY <1>1, <1>5
<1> QED
  BY <1>3, <1>4, <1>5 DEF Enqueue

LEMMA ElsewhereAnswers ==
    ASSUME AnswerInv, Elsewhere
    PROVE  AnswerInv'
<1>1. UNCHANGED <<conn, request, upstream>>
  BY DEF Elsewhere, client, tab
<1>2. UNCHANGED socket \/ \E m : Enqueue(m)
  BY DEF Elsewhere, PublicationNext, Deliveries, Deliver, Delivered, SkipPassed,
         DeadlineBetween, DeadlineInside, DeliveryCut, Recover, Notices, SendNotice,
         NoticeSent, SendChat, ChatSent, Game, StartGame, OpenGame, LaunchRound,
         CommitRound, Commit, PauseRound, RetryRound, BeginEnd, FinishEnd, Publish, Published
<1>3. CASE UNCHANGED socket
  BY <1>1, <1>3, NothingTaken DEF socket, AnswerInv
<1>4. ASSUME NEW m, Enqueue(m)
      PROVE  AnswerInv'
  <2>1. /\ IsSequence(stream') /\ (attached' => attached)
        /\ attached' => stream' = Append(stream, m)
    BY <1>4, EnqueueKeeps DEF AnswerInv
  <2>2. ASSUME attached', NEW after, OnItsWay(after, upstream, stream)
        PROVE  OnItsWay(after, upstream', stream')
    <3>1. \A i \in DOMAIN stream : i \in DOMAIN stream' /\ stream'[i] = stream[i]
      BY <2>1, <2>2, Appended DEF AnswerInv
    <3> QED
      BY <1>1, <2>2, <3>1 DEF OnItsWay
  <2> QED
    BY <1>1, <2>1, <2>2, NothingTaken DEF AnswerInv
<1> QED
  BY <1>2, <1>3, <1>4

LEMMA ServerAnswers ==
    ASSUME AnswerInv, Server
    PROVE  AnswerInv'
<1>1. CASE Authenticate
  <2>1. conn = "closed" /\ request' = request /\ conn' = "open"
        /\ stream' = <<TakeSnapshot>> /\ upstream' = <<>>
    BY <1>1 DEF Authenticate
  <2>2. IsSequence(stream') /\ IsSequence(upstream')
    <3>1. <<>> \in Seq({})
      OBVIOUS
    <3> QED
      BY <2>1, <3>1, Appended DEF IsSequence
  <2>3. request'.status # "sent"
    BY <2>1 DEF AnswerInv
  <2> QED
    BY <2>1, <2>2, <2>3 DEF AnswerInv, AnswerIsComing
<1>2. CASE LoseSocket
  <2>1. UNCHANGED <<conn, request, upstream>> /\ attached' = FALSE /\ stream' = <<>>
    BY <1>2 DEF LoseSocket, tab
  <2>2. IsSequence(<<>>)
    <3>1. <<>> \in Seq({})
      OBVIOUS
    <3> QED
      BY <3>1 DEF IsSequence
  <2> QED
    BY <2>1, <2>2, NothingTaken DEF AnswerInv
<1>3. ASSUME NEW m, Answer(m), Answers(m, Head(upstream))
      PROVE  AnswerInv'
  <2>1. /\ UNCHANGED <<conn, request>> /\ upstream # <<>> /\ upstream' = Tail(upstream)
        /\ Enqueue(m)
    BY <1>3 DEF Answer, tab
  <2>2. /\ IsSequence(stream') /\ (attached' => attached)
        /\ attached' => stream' = Append(stream, m)
    BY <2>1, EnqueueKeeps DEF AnswerInv
  <2>3. /\ IsSequence(upstream') /\ Head(upstream) = upstream[1]
        /\ \A i \in DOMAIN upstream :
              i = 1 \/ \E j \in DOMAIN upstream' : upstream'[j] = upstream[i]
    BY <2>1, Taken DEF AnswerInv
  <2>4. ASSUME attached', NEW after, OnItsWay(after, upstream, stream)
        PROVE  OnItsWay(after, upstream', stream')
    <3>1. /\ \A i \in DOMAIN stream : i \in DOMAIN stream' /\ stream'[i] = stream[i]
          /\ \E i \in DOMAIN stream' : stream'[i] = m
      BY <2>2, <2>4, Appended DEF AnswerInv
    <3>2. CASE \E i \in DOMAIN upstream : upstream[i] = after
      BY <1>3, <2>3, <3>1, <3>2 DEF OnItsWay
    <3>3. CASE \E i \in DOMAIN stream : Answers(stream[i], after)
      BY <3>1, <3>3 DEF OnItsWay
    <3> QED
      BY <2>4, <3>2, <3>3 DEF OnItsWay
  <2> QED
    BY <2>1, <2>2, <2>3, <2>4, NothingTaken
<1>4. CASE AnswerPage
  BY <1>3, <1>4 DEF AnswerPage, PageAfter, Answers
<1>5. CASE RefusePage
  BY <1>3, <1>5 DEF RefusePage, Answers
<1> QED
  BY <1>1, <1>2, <1>4, <1>5 DEF Server

\* A request that is made anew is on its way.
LEMMA Asked ==
    ASSUME AnswerInv, NEW after, Ask(after), IsSequence(stream'), conn' # "closed"
    PROVE  AnswerInv'
<1>1. request'.after = after /\ upstream' = Append(upstream, after)
  BY DEF Ask
<1>2. IsSequence(upstream)
  BY DEF AnswerInv
<1>3. /\ IsSequence(Append(upstream, after))
      /\ \E i \in DOMAIN Append(upstream, after) : Append(upstream, after)[i] = after
  BY <1>2, Appended
<1>4. IsSequence(upstream') /\ \E i \in DOMAIN upstream' : upstream'[i] = after
  BY <1>1, <1>3
<1>5. IsRequest(request')
  BY DEF Ask, IsRequest
<1> QED
  BY <1>1, <1>4, <1>5 DEF AnswerInv, AnswerIsComing

\* Nobody waits for an answer.
LEMMA NoneAwaited ==
    ASSUME AnswerInv, IsSequence(upstream'), IsSequence(stream'), IsRequest(request'),
           request'.status # "sent", conn' = "closed" => request'.status = "none"
    PROVE  AnswerInv'
BY DEF AnswerInv, AnswerIsComing

\* The browser takes what arrives, and only an answer to its request ends the wait.
LEMMA MessageTaken ==
    ASSUME AnswerInv, stream # <<>>, stream' = Tail(stream),
           UNCHANGED <<attached, upstream, request>>, conn' # "closed",
           request.status = "sent" => ~Answers(Head(stream), request.after)
    PROVE  AnswerInv'
<1>1. /\ IsSequence(stream') /\ Head(stream) = stream[1]
      /\ \A i \in DOMAIN stream :
            i = 1 \/ \E j \in DOMAIN stream' : stream'[j] = stream[i]
  BY Taken DEF AnswerInv
<1>2. ASSUME request'.status = "sent", attached'
      PROVE  OnItsWay(request'.after, upstream', stream')
  <2>1. OnItsWay(request.after, upstream, stream)
    BY <1>2 DEF AnswerInv, AnswerIsComing, OnItsWay, Answers
  <2>2. CASE \E i \in DOMAIN upstream : upstream[i] = request.after
    BY <2>2 DEF OnItsWay
  <2>3. CASE \E i \in DOMAIN stream : Answers(stream[i], request.after)
    BY <1>1, <1>2, <2>3 DEF OnItsWay
  <2> QED
    BY <2>1, <2>2, <2>3 DEF OnItsWay
<1> QED
  BY <1>1, <1>2 DEF AnswerInv, AnswerIsComing, OnItsWay, Answers

LEMMA BrowserAnswers ==
    ASSUME AnswerInv, Browser
    PROVE  AnswerInv'
<1>1. ASSUME NEW types, Arrives(types)
      PROVE  /\ stream # <<>> /\ stream' = Tail(stream) /\ IsSequence(stream')
             /\ Head(stream).type \in types /\ attached' = attached /\ conn # "closed"
  BY <1>1, Taken DEF Arrives, AnswerInv
<1>2. CASE ReceiveAuth
  <2>1. /\ stream # <<>> /\ stream' = Tail(stream) /\ IsSequence(stream')
        /\ Head(stream).type = "auth_ok" /\ attached' = attached /\ conn' = "live"
    BY <1>1, <1>2 DEF ReceiveAuth
  <2>2. Ask(screen.cursor) \/ UNCHANGED <<request, upstream>>
    BY <1>2 DEF ReceiveAuth
  <2>3. CASE Ask(screen.cursor)
    BY <2>1, <2>3, Asked
  <2>4. CASE UNCHANGED <<request, upstream>>
    BY <2>1, <2>4, MessageTaken DEF Answers
  <2> QED
    BY <2>2, <2>3, <2>4
<1>3. CASE ReceivePage
  <2>1. IsSequence(stream') /\ conn # "closed" /\ conn' = conn
    BY <1>1, <1>3 DEF ReceivePage
  <2>2. Ask(Head(stream).upto) \/ (request' = NoRequest /\ upstream' = upstream)
    BY <1>3 DEF ReceivePage
  <2>3. CASE Ask(Head(stream).upto)
    BY <2>1, <2>3, Asked
  <2>4. CASE request' = NoRequest /\ upstream' = upstream
    BY <2>1, <2>4, NoneAwaited DEF NoRequest, AnswerInv, IsRequest
  <2> QED
    BY <2>2, <2>3, <2>4
<1>4. CASE ReceiveRefusal
  <2>1. /\ stream # <<>> /\ stream' = Tail(stream) /\ IsSequence(stream')
        /\ attached' = attached /\ conn # "closed" /\ UNCHANGED <<conn, upstream>>
    BY <1>1, <1>4 DEF ReceiveRefusal
  <2>2. request' = IF request = [status |-> "sent", after |-> Head(stream).after]
                   THEN [request EXCEPT !.status = "backoff"] ELSE request
    BY <1>4 DEF ReceiveRefusal
  <2>3. CASE request = [status |-> "sent", after |-> Head(stream).after]
    <3>1. request'.status = "backoff" /\ IsRequest(request')
      BY <2>2, <2>3 DEF IsRequest
    <3> QED
      BY <2>1, <3>1, NoneAwaited DEF AnswerInv
  <2>4. CASE request # [status |-> "sent", after |-> Head(stream).after]
    <3>1. request' = request
      BY <2>2, <2>4
    <3> QED
      BY <2>1, <2>4, <3>1, MessageTaken DEF Answers, AnswerInv, IsRequest
  <2> QED
    BY <2>3, <2>4
<1>5. CASE ShowEvent \/ HoldEvent
  <2>1. /\ stream # <<>> /\ stream' = Tail(stream) /\ attached' = attached
        /\ Head(stream).type \in GameEvents /\ conn # "closed"
        /\ UNCHANGED <<conn, upstream, request>>
    BY <1>1, <1>5 DEF ShowEvent, HoldEvent
  <2>2. Head(stream).type \notin {"journal_page", "refused"}
    BY <2>1 DEF GameEvents, PublicTypes, OtherTypes
  <2> QED
    BY <2>1, <2>2, MessageTaken DEF Answers
<1>6. CASE NoticeClose
  BY <1>6, NoneAwaited DEF NoticeClose, Closed, socket, NoRequest, AnswerInv, IsRequest
<1>7. CASE HoldTooMany \/ StartClosing
  <2>1. /\ request' = request /\ ~attached' /\ conn # "closed"
        /\ (stream' = stream \/ stream' = <<>>)
    BY <1>7 DEF HoldTooMany, StartClosing, socket
  <2>2. <<>> \in Seq({})
    OBVIOUS
  <2>3. IsSequence(stream')
    BY <2>1, <2>2 DEF AnswerInv, IsSequence
  <2> QED
    BY <1>7, <2>1, <2>3 DEF AnswerInv, AnswerIsComing, HoldTooMany, StartClosing
<1>8. CASE GivenUp /\ UNCHANGED <<socket, conn>>
  BY <1>8, NoneAwaited DEF GivenUp, NoRequest, socket, AnswerInv, IsRequest
<1>9. CASE conn = "live" /\ Ask(request.after) /\ UNCHANGED <<socket, conn>>
  BY <1>9, Asked DEF socket, AnswerInv
<1>10. CASE AskAgain \/ GiveUp
  BY <1>8, <1>9, <1>10 DEF AskAgain, GiveUp
<1> QED
  BY <1>2, <1>3, <1>4, <1>5, <1>6, <1>7, <1>10 DEF Browser, Receive

LEMMA StepAnswers ==
    ASSUME AnswerInv, [Next]_vars
    PROVE  AnswerInv'
<1>1. CASE UNCHANGED vars
  BY <1>1, NothingTaken DEF vars, client, tab, socket, AnswerInv
<1> QED
  BY <1>1, ElsewhereAnswers, ServerAnswers, BrowserAnswers DEF Next

LEMMA InitAnswers == Init => AnswerInv
<1>1. <<>> \in Seq({})
  OBVIOUS
<1> QED
  BY <1>1 DEF Init, PublicationInit, AnswerInv, AnswerIsComing, IsSequence, IsRequest, NoRequest

\* While its socket lives, a journal request or its answer is on the way: no page and no
\* refusal is lost, and none is taken for another (journal.js, requestJournal).
THEOREM AnswersAreComing == Spec => []AnswerIsComing
<1>1. AnswerInv => AnswerIsComing
  BY DEF AnswerInv
<1> QED
  BY <1>1, InitAnswers, StepAnswers, PTL DEF Spec

-----------------------------------------------------------------------------
(* Messages handled one after another *)

\* The library's induction takes a predicate; a set of numbers does as well.
LEMMA Counting ==
    ASSUME NEW S \in SUBSET Nat, 0 \in S, \A n \in S : n + 1 \in S
    PROVE  \A n \in Nat : n \in S
<1> DEFINE missing == Nat \ S
           less == OpToRel(<, Nat)
<1>1. SUFFICES ASSUME missing # {}
               PROVE  FALSE
  OBVIOUS
<1>2. \A i, j \in Nat : i < j => <<i, j>> \in less
  BY DEF OpToRel
<1>3. IsWellFoundedOn(less, Nat)
  BY NatLessThanWellFounded
<1>4. missing \subseteq Nat
  OBVIOUS
<1> HIDE DEF less, missing
<1>5. PICK x \in missing : \A y \in missing : ~(<<y, x>> \in less)
  BY <1>1, <1>3, <1>4, WFMin
<1>6. x \in Nat /\ x # 0 /\ x \notin S
  BY <1>5 DEF missing
<1>7. x - 1 \in Nat /\ x - 1 < x /\ (x - 1) + 1 = x
  BY <1>6
<1>8. x - 1 \in S
  BY <1>2, <1>5, <1>6, <1>7 DEF missing
<1> QED
  BY <1>6, <1>7, <1>8

Runs(S, base, step, N) ==
    \E f \in [0..N -> S] :
        /\ f[0] = base
        /\ \A n \in 1..N : f[n] = step[<<f[n - 1], n>>]

\* A step that stays in a set can be repeated any number of times.
LEMMA Iteration ==
    ASSUME NEW S, NEW base \in S, NEW step \in [S \X Nat -> S], NEW N \in Nat
    PROVE  Runs(S, base, step, N)
<1> DEFINE Good(f, m) == f[0] = base /\ \A n \in 1..m : f[n] = step[<<f[n - 1], n>>]
           reached == {m \in Nat : \E f \in [0..m -> S] : Good(f, m)}
<1>1. 0 \in reached
  <2>1. [n \in 0..0 |-> base] \in [0..0 -> S] /\ Good([n \in 0..0 |-> base], 0)
    OBVIOUS
  <2> QED
    BY <2>1
<1>2. ASSUME NEW m \in reached
      PROVE  m + 1 \in reached
  <2>1. PICK f \in [0..m -> S] : Good(f, m)
    BY <1>2
  <2> DEFINE g == [n \in 0..(m + 1) |-> IF n \in 0..m THEN f[n] ELSE step[<<f[m], m + 1>>]]
  <2>2. m \in Nat /\ m \in 0..m /\ f[m] \in S /\ step[<<f[m], m + 1>>] \in S
    BY <1>2
  <2>3. g \in [0..(m + 1) -> S]
    BY <2>1, <2>2
  <2>4. ASSUME NEW n \in 1..(m + 1)
        PROVE  g[n] = step[<<g[n - 1], n>>]
    <3>1. CASE n \in 1..m
      <4>1. n \in 0..m /\ n - 1 \in 0..m /\ n \in 0..(m + 1) /\ n - 1 \in 0..(m + 1)
        BY <2>2, <3>1
      <4>2. g[n] = f[n] /\ g[n - 1] = f[n - 1]
        BY <4>1
      <4> QED
        BY <2>1, <3>1, <4>2
    <3>2. CASE n = m + 1
      <4>1. n \notin 0..m /\ n - 1 = m /\ n \in 0..(m + 1) /\ m \in 0..(m + 1)
        BY <2>2, <3>2
      <4> QED
        BY <2>2, <3>2, <4>1
    <3> QED
      BY <2>2, <3>1, <3>2
  <2>5. g[0] = base
    BY <2>1, <2>2
  <2>6. Good(g, m + 1)
    BY <2>4, <2>5
  <2> HIDE DEF g, Good
  <2> QED
    BY <2>2, <2>3, <2>6
<1> HIDE DEF reached
<1>3. N \in reached
  <2>1. reached \in SUBSET Nat
    BY DEF reached
  <2> QED
    BY <1>1, <1>2, <2>1, Counting
<1> QED
  BY <1>3 DEF reached, Runs

LEMMA HandleTyped ==
    ASSUME NEW s \in Screen, NEW e, e.id \in Nat, NEW replayed \in BOOLEAN
    PROVE  /\ Handle(s, e, replayed) \in Screen
           /\ Handle(s, e, replayed).cursor \in {s.cursor, e.id}
<1>1. EventView(s.view, e, replayed) \in View
  BY DEF EventView, View, Screen
<1>2. s.cursor \in Nat /\ s.shown \in Seq(Nat) /\ Append(s.shown, e.id) \in Seq(Nat)
  BY DEF Screen
<1> QED
  BY <1>1, <1>2 DEF Handle, Screen

LEMMA HandleReplayedTyped ==
    ASSUME NEW s \in Screen, NEW e, e.id \in Nat
    PROVE  /\ HandleReplayed(s, e) \in Screen
           /\ HandleReplayed(s, e).cursor \in {s.cursor, e.id}
<1>1. CASE e.type = "opening"
  BY <1>1 DEF HandleReplayed, Screen
<1>2. CASE e.type # "opening"
  BY <1>2, HandleTyped DEF HandleReplayed
<1> QED
  BY <1>1, <1>2

\* One of the events that are handled one after another.
Step(s, e, replayed) == IF replayed THEN HandleReplayed(s, e) ELSE Handle(s, e, FALSE)

LEMMA StepTyped ==
    ASSUME NEW s \in Screen, NEW e, e.id \in Nat, NEW replayed \in BOOLEAN
    PROVE  Step(s, e, replayed) \in Screen /\ Step(s, e, replayed).cursor \in {s.cursor, e.id}
BY HandleTyped, HandleReplayedTyped DEF Step

LEMMA AllAreHandled ==
    ASSUME NEW s \in Screen, NEW events, Len(events) \in Nat, NEW replayed \in BOOLEAN,
           \A n \in 1..Len(events) : events[n].id \in Nat
    PROVE  \E after \in [0..Len(events) -> Screen] :
              /\ after[0] = s
              /\ \A n \in 1..Len(events) : after[n] = Step(after[n - 1], events[n], replayed)
              /\ HandleAll(s, events, replayed) = after[Len(events)]
<1> DEFINE N == Len(events)
           step == [p \in Screen \X Nat |->
                       IF p[2] \in 1..N THEN Step(p[1], events[p[2]], replayed) ELSE p[1]]
           Handles(f) == f = [n \in 0..N |->
                                IF n = 0 THEN s
                                ELSE IF replayed THEN HandleReplayed(f[n - 1], events[n])
                                ELSE Handle(f[n - 1], events[n], FALSE)]
           after == CHOOSE f : Handles(f)
<1>1. N \in Nat
  OBVIOUS
<1>2. step \in [Screen \X Nat -> Screen]
  <2>1. \A t \in Screen, n \in 1..N : Step(t, events[n], replayed) \in Screen
    BY StepTyped
  <2> QED
    BY <2>1
<1>3. \A t \in Screen, n \in 1..N : step[<<t, n>>] = Step(t, events[n], replayed)
  OBVIOUS
<1>4. HandleAll(s, events, replayed) = after[N]
  BY DEF HandleAll
<1> HIDE DEF step, N
<1>5. PICK g \in [0..N -> Screen] : g[0] = s /\ \A n \in 1..N : g[n] = step[<<g[n - 1], n>>]
  <2>1. Runs(Screen, s, step, N)
    BY <1>1, <1>2, Iteration
  <2> QED
    BY <2>1 DEF Runs
<1>6. Handles(g)
  <2>1. ASSUME NEW n \in 0..N
        PROVE  g[n] = IF n = 0 THEN s
                      ELSE IF replayed THEN HandleReplayed(g[n - 1], events[n])
                      ELSE Handle(g[n - 1], events[n], FALSE)
    <3>1. CASE n \in 1..N
      <4>1. n \in Nat /\ n # 0 /\ n - 1 \in 0..N
        BY <1>1, <3>1
      <4> QED
        BY <1>3, <1>5, <3>1, <4>1 DEF Step
    <3>2. CASE n = 0
      BY <1>5, <3>2
    <3>3. n = 0 \/ n \in 1..N
      BY <1>1
    <3> QED
      BY <3>1, <3>2, <3>3
  <2>2. g = [n \in 0..N |-> g[n]]
    OBVIOUS
  <2> QED
    BY <2>1, <2>2
<1>7. Handles(after)
  <2>1. \E f : Handles(f)
    BY <1>6
  <2> HIDE DEF Handles
  <2> QED
    BY <2>1, Zenon
<1> HIDE DEF after
<1>8. after[0] = s /\ \A n \in 1..N : after[n] = Step(after[n - 1], events[n], replayed)
  <2>1. \A n \in 0..N : after[n] = IF n = 0 THEN s
                                  ELSE IF replayed THEN HandleReplayed(after[n - 1], events[n])
                                  ELSE Handle(after[n - 1], events[n], FALSE)
    BY <1>7
  <2>2. 0 \in 0..N /\ \A n \in 1..N : n \in 0..N /\ n # 0
    BY <1>1
  <2> QED
    BY <2>1, <2>2 DEF Step
<1> DEFINE typed == {n \in Nat : n \in 0..N => after[n] \in Screen}
<1>9. \A n \in Nat : n \in typed
  <2>1. 0 \in typed
    BY <1>8
  <2>2. ASSUME NEW n \in typed
        PROVE  n + 1 \in typed
    <3>1. CASE n + 1 \in 0..N
      <4>1. n \in 0..N /\ n + 1 \in 1..N /\ (n + 1) - 1 = n
        BY <1>1, <3>1
      <4>2. after[n + 1] = Step(after[n], events[n + 1], replayed)
        BY <1>8, <4>1
      <4> QED
        BY <4>1, <4>2, StepTyped DEF N
    <3> QED
      BY <3>1
  <2> HIDE DEF typed
  <2>3. typed \in SUBSET Nat
    BY DEF typed
  <2> QED
    BY <2>1, <2>2, <2>3, Counting
<1>10. after \in [0..N -> Screen]
  <2>1. after = [n \in 0..N |-> after[n]]
    BY <1>7
  <2>2. \A n \in 0..N : after[n] \in Screen
    BY <1>1, <1>9
  <2> QED
    BY <2>1, <2>2
<1> QED
  BY <1>4, <1>8, <1>10 DEF N

-----------------------------------------------------------------------------
(* Nobody is ahead of the journal *)

TruePlace(e) == e.id # 0 => e.id \in DOMAIN journal /\ journal[e.id].type = e.type

TrueEvents == {e \in Event : TruePlace(e)}
TrueMessages ==
    TrueEvents \cup {m \in Snapshot : m.latest <= Len(journal)}
               \cup {m \in Page : m.after <= m.upto /\ m.upto <= Len(journal)}
               \cup {m \in Refusal : m.after <= Len(journal)}

\* What has an id has it from the journal, and a browser asks for no more than there is.
PlacesInv ==
    /\ TypeOK
    /\ pendingDelivery \in Seq(TrueEvents) /\ publishing.event \in TrueEvents
    /\ stream \in Seq(TrueMessages) /\ held \in Seq(TrueEvents)
    /\ upstream \in Seq(0..Len(journal))
    /\ request.after <= Len(journal) /\ screen.cursor <= Len(journal)

Grows == journal' = journal \/ \E entry \in Entry : journal' = Append(journal, entry)

LEMMA PlacesStay ==
    ASSUME journal \in Seq(Entry), Grows
    PROVE  /\ journal' \in Seq(Entry)
           /\ Len(journal) \in Nat /\ Len(journal') \in Nat /\ Len(journal) <= Len(journal')
           /\ DOMAIN journal = 1..Len(journal) /\ DOMAIN journal' = 1..Len(journal')
           /\ \A k \in DOMAIN journal : k \in DOMAIN journal' /\ journal'[k] = journal[k]
           /\ TrueEvents \subseteq TrueEvents' /\ TrueMessages \subseteq TrueMessages'
           /\ Seq(TrueEvents) \subseteq Seq(TrueEvents')
           /\ Seq(TrueMessages) \subseteq Seq(TrueMessages')
           /\ Seq(0..Len(journal)) \subseteq Seq(0..Len(journal'))
<1>1. /\ journal' \in Seq(Entry)
      /\ Len(journal) \in Nat /\ Len(journal') \in Nat /\ Len(journal) <= Len(journal')
      /\ DOMAIN journal = 1..Len(journal) /\ DOMAIN journal' = 1..Len(journal')
      /\ \A k \in DOMAIN journal : k \in DOMAIN journal' /\ journal'[k] = journal[k]
  BY DEF Grows
<1>2. TrueEvents \subseteq TrueEvents'
  BY <1>1 DEF TrueEvents, TruePlace
<1>3. TrueMessages \subseteq TrueMessages'
  <2>1. \A m \in Snapshot : m.latest <= Len(journal) => m.latest <= Len(journal')
    BY <1>1 DEF Snapshot
  <2>2. \A m \in Page : m.upto <= Len(journal) => m.upto <= Len(journal')
    BY <1>1 DEF Page
  <2>3. \A m \in Refusal : m.after <= Len(journal) => m.after <= Len(journal')
    BY <1>1 DEF Refusal
  <2> QED
    BY <1>2, <2>1, <2>2, <2>3 DEF TrueMessages
<1>4. 0..Len(journal) \subseteq 0..Len(journal')
  BY <1>1
<1> HIDE DEF TrueEvents, TrueMessages
<1>5. /\ Seq(TrueEvents) \subseteq Seq(TrueEvents')
      /\ Seq(TrueMessages) \subseteq Seq(TrueMessages')
      /\ Seq(0..Len(journal)) \subseteq Seq(0..Len(journal'))
  BY <1>2, <1>3, <1>4, SeqMonotonic
<1> QED
  BY <1>1, <1>2, <1>3, <1>5

\* The queue of the socket takes a message, or the socket is given up.
LEMMA EnqueueTyped ==
    ASSUME NEW M, stream \in Seq(M), attached \in BOOLEAN, NEW m \in M, Enqueue(m)
    PROVE  stream' \in Seq(M) /\ attached' \in BOOLEAN
<1>1. CASE ~attached /\ UNCHANGED socket
  BY <1>1 DEF socket
<1>2. CASE stream' = Append(stream, m) /\ UNCHANGED attached
  BY <1>2
<1>3. CASE attached' = FALSE /\ stream' = <<>>
  <2>1. <<>> \in Seq(M)
    OBVIOUS
  <2> QED
    BY <1>3, <2>1
<1> QED
  BY <1>1, <1>2, <1>3 DEF Enqueue

\* Steps of the game leave the browser as it is.
LEMMA ClientStays ==
    ASSUME PlacesInv, UNCHANGED client, Grows
    PROVE  /\ conn' \in {"closed", "open", "live", "closing"} /\ screen' \in Screen
           /\ replaying' \in BOOLEAN /\ snapshot' \in Snapshot /\ held' \in Seq(Event)
           /\ request' \in [status : {"none", "sent", "backoff"}, after : Nat]
           /\ upstream' \in Seq(Nat) /\ losses' \in Nat /\ refusals' \in Nat
           /\ outrun' \in BOOLEAN /\ gaveUp' \in BOOLEAN
           /\ held' \in Seq(TrueEvents') /\ upstream' \in Seq(0..Len(journal'))
           /\ request'.after <= Len(journal') /\ screen'.cursor <= Len(journal')
<1>1. /\ TypeOK /\ journal \in Seq(Entry) /\ held \in Seq(TrueEvents)
      /\ upstream \in Seq(0..Len(journal))
      /\ request.after \in Nat /\ request.after <= Len(journal)
      /\ screen.cursor \in Nat /\ screen.cursor <= Len(journal)
  BY DEF PlacesInv, TypeOK, PublicationTypeOK, Screen
<1>2. /\ Len(journal) \in Nat /\ Len(journal') \in Nat /\ Len(journal) <= Len(journal')
      /\ Seq(TrueEvents) \subseteq Seq(TrueEvents')
      /\ Seq(0..Len(journal)) \subseteq Seq(0..Len(journal'))
  BY <1>1, PlacesStay
<1>3. UNCHANGED <<conn, screen, replaying, snapshot, held, request, upstream, losses, refusals,
                  outrun, gaveUp>>
  BY DEF client, tab
<1> QED
  BY <1>1, <1>2, <1>3 DEF TypeOK

\* What is said without an id says nothing about the journal.
LEMMA SaidIsTrue ==
    ASSUME NEW type \in PublicTypes \cup OtherTypes, NEW n \in Nat
    PROVE  Said(type, n) \in TrueEvents /\ Said(type, n) \in TrueEvents'
<1>1. Said(type, n) \in Event /\ Said(type, n).id = 0
  BY DEF Said, Event
<1> QED
  BY <1>1 DEF TrueEvents, TruePlace

LEMMA TrueNow ==
    ASSUME NEW r \in Event,
           r.id # 0 => r.id \in DOMAIN journal' /\ journal'[r.id].type = r.type
    PROVE  r \in TrueEvents'
BY DEF TrueEvents, TruePlace

LEMMA PublishPlaces ==
    ASSUME PlacesInv, NEW by \in {"delivery", "notice", "chat"}, NEW e \in TrueEvents,
           Publish(by, e)
    PROVE  /\ Grows
           /\ Recorded(e) \in TrueEvents'
           /\ publishing' \in [by : {"nobody", "delivery", "notice", "chat"},
                               event : Event, again : BOOLEAN]
           /\ publishing'.event \in TrueEvents'
           /\ publishedCursor' \in Nat
           /\ stream' \in Seq(TrueMessages') /\ attached' \in BOOLEAN
<1>1. /\ journal \in Seq(Entry) /\ publishedCursor \in Nat /\ attached \in BOOLEAN
      /\ stream \in Seq(TrueMessages) /\ e \in Event /\ TruePlace(e)
  BY DEF PlacesInv, TypeOK, PublicationTypeOK, TrueEvents
<1>2. ASSUME IsNew(e)
      PROVE  Grows /\ Recorded(e) \in TrueEvents'
  <2>1. [type |-> e.type, round |-> e.round] \in Entry
    BY <1>1, <1>2 DEF IsNew, Entry, Event
  <2>2. journal' = Append(journal, [type |-> e.type, round |-> e.round])
    BY <1>2 DEF Publish
  <2>3. /\ Grows /\ Len(journal) + 1 \in DOMAIN journal' /\ Len(journal) \in Nat
        /\ journal'[Len(journal) + 1].type = e.type
    BY <1>1, <2>1, <2>2 DEF Grows
  <2>4. /\ Recorded(e) \in Event /\ Recorded(e).id = Len(journal) + 1
        /\ Recorded(e).type = e.type
    BY <1>1, <1>2, <2>3 DEF Recorded, Event
  <2>5. Recorded(e) \in TrueEvents'
    BY <2>3, <2>4, TrueNow
  <2> QED
    BY <2>3, <2>5
<1>3. ASSUME ~IsNew(e)
      PROVE  Grows /\ Recorded(e) \in TrueEvents'
  <2>1. Recorded(e) = e /\ journal' = journal
    BY <1>3 DEF Recorded, Publish
  <2>2. e \in TrueEvents'
    BY <1>1, <2>1, TrueNow DEF TruePlace
  <2> QED
    BY <2>1, <2>2 DEF Grows
<1>4. Grows /\ Recorded(e) \in TrueEvents' /\ Recorded(e) \in Event
  <2>1. Grows /\ Recorded(e) \in TrueEvents'
    BY <1>2, <1>3
  <2> QED
    BY <2>1 DEF TrueEvents
<1>5. /\ publishing' = [by |-> by, event |-> Recorded(e), again |-> FALSE]
      /\ Enqueue(Recorded(e)) /\ publishedCursor' = publishedCursor
  BY DEF Publish
<1>6. stream \in Seq(TrueMessages') /\ Recorded(e) \in TrueMessages'
  BY <1>1, <1>4, PlacesStay DEF TrueMessages
<1>7. stream' \in Seq(TrueMessages') /\ attached' \in BOOLEAN
  BY <1>1, <1>5, <1>6, EnqueueTyped
<1> QED
  BY <1>1, <1>4, <1>5, <1>7

\* What a step of the game has to keep of the journal's side.
GamePlaces ==
    /\ pauses \in Nat /\ effects \in {"free", "job", "recovery", "notice", "ending"}
    /\ cut \in BOOLEAN
    /\ publishing \in [by : {"nobody", "delivery", "notice", "chat"},
                       event : Event, again : BOOLEAN]
    /\ publishing.event \in TrueEvents
    /\ publishedCursor \in Nat /\ attached \in BOOLEAN
    /\ stream \in Seq(TrueMessages) /\ pendingDelivery \in Seq(TrueEvents)

LEMMA ElsewherePlaced ==
    ASSUME PlacesInv, RecordInv', UNCHANGED client, Grows, GamePlaces'
    PROVE  PlacesInv'
<1>1. PublicationTypeOK'
  <2>1. stream' \in Seq(Event \cup Snapshot \cup Page \cup Refusal)
    <3>1. stream' \in Seq(TrueMessages')
      BY DEF GamePlaces
    <3>2. TrueMessages' \subseteq Event \cup Snapshot \cup Page \cup Refusal
      BY DEF TrueMessages, TrueEvents
    <3> QED
      BY <3>1, <3>2, SeqMonotonic
  <2> QED
    BY <2>1 DEF PublicationTypeOK, GamePlaces, RecordInv, RecordTypes
<1>2. TypeOK'
  BY <1>1, ClientStays DEF TypeOK
<1> QED
  BY <1>2, ClientStays DEF PlacesInv, GamePlaces

\* Steps that say nothing.
LEMMA NothingSaid ==
    ASSUME PlacesInv, UNCHANGED <<journal, socket>>,
           pauses' \in Nat, effects' \in {"free", "job", "recovery", "notice", "ending"},
           cut' \in BOOLEAN, publishing' \in {publishing, Silence}, publishedCursor' \in Nat,
           pendingDelivery' \in Seq(TrueEvents')
    PROVE  Grows /\ GamePlaces'
<1>1. Grows
  BY DEF Grows
<1>2. Silence \in [by : {"nobody", "delivery", "notice", "chat"},
                   event : Event, again : BOOLEAN] /\ Silence.event \in TrueEvents'
  <2>1. Said("chat", 0) \in TrueEvents' /\ Said("chat", 0) \in Event
    BY SaidIsTrue DEF PublicTypes, TrueEvents
  <2> QED
    BY <2>1 DEF Silence
<1>3. /\ publishing \in [by : {"nobody", "delivery", "notice", "chat"},
                         event : Event, again : BOOLEAN]
      /\ publishing.event \in TrueEvents' /\ stream' \in Seq(TrueMessages')
      /\ attached' \in BOOLEAN
  BY <1>1, PlacesStay DEF PlacesInv, TypeOK, PublicationTypeOK, socket
<1> QED
  BY <1>1, <1>2, <1>3 DEF GamePlaces

LEMMA PendingStays ==
    ASSUME PlacesInv, Grows
    PROVE  /\ pendingDelivery \in Seq(TrueEvents')
           /\ pendingDelivery # <<>> =>
                 /\ Tail(pendingDelivery) \in Seq(TrueEvents')
                 /\ pendingDelivery[1] \in TrueEvents
                 /\ Head(pendingDelivery) = pendingDelivery[1]
<1>1. pendingDelivery \in Seq(TrueEvents') /\ pendingDelivery \in Seq(TrueEvents)
  BY PlacesStay DEF PlacesInv, TypeOK, PublicationTypeOK
<1> QED
  BY <1>1

LEMMA DeliverPlaces ==
    ASSUME PlacesInv, Deliver
    PROVE  Grows /\ GamePlaces'
<1> DEFINE e == pendingDelivery[1]
<1>1. /\ pendingDelivery # <<>> /\ pendingDelivery \in Seq(TrueEvents)
      /\ Head(pendingDelivery) = e /\ e \in TrueEvents
      /\ pendingDelivery' = [pendingDelivery EXCEPT ![1] = Recorded(e)]
      /\ UNCHANGED <<pauses, effects, cut>>
      /\ Publish("delivery", e)
  BY DEF Deliver, Delivering, PlacesInv, Stamped
<1> HIDE DEF e
<1>2. /\ Grows /\ Recorded(e) \in TrueEvents'
      /\ publishing' \in [by : {"nobody", "delivery", "notice", "chat"},
                          event : Event, again : BOOLEAN]
      /\ publishing'.event \in TrueEvents' /\ publishedCursor' \in Nat
      /\ stream' \in Seq(TrueMessages') /\ attached' \in BOOLEAN
  BY <1>1, PublishPlaces
<1>3. pendingDelivery \in Seq(TrueEvents')
  BY <1>2, PendingStays
<1>4. pendingDelivery' \in Seq(TrueEvents')
  BY <1>1, <1>2, <1>3
<1> QED
  BY <1>1, <1>2, <1>4 DEF GamePlaces, PlacesInv, TypeOK, PublicationTypeOK

\* A recorded event is queued once more.
LEMMA AgainPlaces ==
    ASSUME PlacesInv, DeadlineInside
    PROVE  Grows /\ GamePlaces'
<1>1. /\ UNCHANGED <<pauses, pendingDelivery, journal, publishedCursor>>
      /\ effects' \in {"free", effects} /\ cut' \in BOOLEAN
  BY DEF DeadlineInside, LeaveDelivery, game, PlacesInv, TypeOK, PublicationTypeOK
<1>2. Grows /\ pendingDelivery' \in Seq(TrueEvents')
  BY <1>1, PendingStays DEF Grows
<1>3. CASE publishing' = Silence /\ UNCHANGED socket
  BY <1>1, <1>2, <1>3, NothingSaid DEF PlacesInv, TypeOK, PublicationTypeOK
<1>4. CASE publishing' = [publishing EXCEPT !.again = TRUE] /\ Enqueue(publishing.event)
  <2>1. /\ publishing \in [by : {"nobody", "delivery", "notice", "chat"},
                           event : Event, again : BOOLEAN]
        /\ publishing.event \in TrueEvents /\ attached \in BOOLEAN
        /\ stream \in Seq(TrueMessages')
    BY <1>2, PlacesStay DEF PlacesInv, TypeOK, PublicationTypeOK
  <2>2. publishing.event \in TrueEvents' /\ publishing.event \in TrueMessages'
    BY <1>2, <2>1, PlacesStay DEF PlacesInv, TypeOK, PublicationTypeOK, TrueMessages
  <2>3. stream' \in Seq(TrueMessages') /\ attached' \in BOOLEAN
    BY <1>4, <2>1, <2>2, EnqueueTyped
  <2>4. publishing' \in [by : {"nobody", "delivery", "notice", "chat"},
                         event : Event, again : BOOLEAN]
        /\ publishing'.event = publishing.event
    BY <1>4, <2>1
  <2> QED
    BY <1>1, <1>2, <2>2, <2>3, <2>4 DEF GamePlaces, PlacesInv, TypeOK, PublicationTypeOK
<1> QED
  BY <1>3, <1>4 DEF DeadlineInside

LEMMA DeliveriesPlaced ==
    ASSUME PlacesInv, RecordInv, Deliveries
    PROVE  Grows /\ GamePlaces'
<1>1. CASE Deliver
  BY <1>1, DeliverPlaces
<1>2. CASE DeadlineInside
  BY <1>2, AgainPlaces
<1>3. CASE Delivered \/ SkipPassed
  <2>1. /\ pendingDelivery' = Tail(pendingDelivery)
        /\ UNCHANGED <<pauses, cut, journal, socket>>
        /\ effects' \in {"free", effects} /\ publishing' \in {publishing, Silence}
        /\ publishedCursor' \in {publishedCursor, publishing.event.id}
    BY <1>3 DEF Delivered, SkipPassed, Published, PopDelivered, record
  <2>2. pendingDelivery # <<>>
    BY <1>3 DEF Delivered, SkipPassed, Published, Delivering, RecordInv, DeliversSomething
  <2>3. Grows
    BY <2>1 DEF Grows
  <2>4. publishing.event.id \in Nat /\ publishedCursor \in Nat
    BY DEF PlacesInv, TypeOK, PublicationTypeOK, Event
  <2>5. pendingDelivery' \in Seq(TrueEvents')
    BY <2>1, <2>2, <2>3, PendingStays
  <2> QED
    BY <2>1, <2>4, <2>5, NothingSaid DEF PlacesInv, TypeOK, PublicationTypeOK
<1>4. CASE DeadlineBetween \/ DeliveryCut \/ Recover
  <2>1. /\ UNCHANGED <<pauses, pendingDelivery, journal, socket>>
        /\ effects' \in {"free", "recovery"} /\ cut' \in BOOLEAN
        /\ publishing' \in {publishing, Silence}
        /\ publishedCursor' \in {publishedCursor, publishing.event.id}
    BY <1>4 DEF DeadlineBetween, DeliveryCut, Recover, LeaveDelivery, Published, record
  <2>2. Grows
    BY <2>1 DEF Grows
  <2>3. publishing.event.id \in Nat /\ publishedCursor \in Nat
    BY DEF PlacesInv, TypeOK, PublicationTypeOK, Event
  <2>4. pendingDelivery' \in Seq(TrueEvents')
    BY <2>1, <2>2, PendingStays
  <2> QED
    BY <2>1, <2>3, <2>4, NothingSaid DEF PlacesInv, TypeOK, PublicationTypeOK
<1> QED
  BY <1>1, <1>2, <1>3, <1>4 DEF Deliveries

LEMMA NoticesPlaced ==
    ASSUME PlacesInv, RecordInv, Notices
    PROVE  Grows /\ GamePlaces'
<1>1. CASE SendNotice
  <2> DEFINE e == Head(notices)
  <2>1. /\ Publish("notice", e) /\ UNCHANGED <<pauses, cut, pendingDelivery>>
        /\ effects' \in {effects, "notice"}
    BY <1>1 DEF SendNotice
  <2>2. e \in Event /\ e.id = 0
    BY <1>1 DEF SendNotice, RecordInv, RecordTypes, QueuesAreSorted
  <2>3. e \in TrueEvents
    BY <2>2 DEF TrueEvents, TruePlace
  <2>4. /\ Grows
        /\ publishing' \in [by : {"nobody", "delivery", "notice", "chat"},
                            event : Event, again : BOOLEAN]
        /\ publishing'.event \in TrueEvents' /\ publishedCursor' \in Nat
        /\ stream' \in Seq(TrueMessages') /\ attached' \in BOOLEAN
    BY <2>1, <2>3, PublishPlaces
  <2>5. pendingDelivery' \in Seq(TrueEvents')
    BY <2>1, <2>4, PendingStays
  <2> QED
    BY <2>1, <2>4, <2>5 DEF GamePlaces, PlacesInv, TypeOK, PublicationTypeOK
<1>2. CASE SendChat
  <2>1. Publish("chat", Said("chat", 0)) /\ UNCHANGED <<pauses, cut, pendingDelivery, effects>>
    BY <1>2 DEF SendChat, game
  <2>2. Said("chat", 0) \in TrueEvents
    BY SaidIsTrue DEF PublicTypes
  <2>3. /\ Grows
        /\ publishing' \in [by : {"nobody", "delivery", "notice", "chat"},
                            event : Event, again : BOOLEAN]
        /\ publishing'.event \in TrueEvents' /\ publishedCursor' \in Nat
        /\ stream' \in Seq(TrueMessages') /\ attached' \in BOOLEAN
    BY <2>1, <2>2, PublishPlaces
  <2>4. pendingDelivery' \in Seq(TrueEvents')
    BY <2>1, <2>3, PendingStays
  <2> QED
    BY <2>1, <2>3, <2>4 DEF GamePlaces, PlacesInv, TypeOK, PublicationTypeOK
<1>3. CASE NoticeSent \/ ChatSent
  <2>1. /\ UNCHANGED <<pauses, cut, pendingDelivery, journal, socket>>
        /\ effects' \in {"free", effects} /\ publishing' = Silence
        /\ publishedCursor' \in {publishedCursor, publishing.event.id}
    BY <1>3 DEF NoticeSent, ChatSent, Published, game
  <2>2. publishing.event.id \in Nat /\ publishedCursor \in Nat
    BY DEF PlacesInv, TypeOK, PublicationTypeOK, Event
  <2>3. pendingDelivery' \in Seq(TrueEvents')
    BY <2>1, PendingStays DEF Grows
  <2> QED
    BY <2>1, <2>2, <2>3, NothingSaid DEF PlacesInv, TypeOK, PublicationTypeOK
<1> QED
  BY <1>1, <1>2, <1>3 DEF Notices

LEMMA GamePlaced ==
    ASSUME PlacesInv, RecordInv, Game
    PROVE  Grows /\ GamePlaces'
<1>1. /\ UNCHANGED <<journal, publishing, publishedCursor, socket>>
      /\ effects' \in {"job", "notice", "ending", effects} /\ cut' \in {FALSE, cut}
      /\ pauses' \in {pauses, pauses + 1}
  BY DEF Game, StartGame, OpenGame, LaunchRound, CommitRound, Commit, Launch, PauseRound,
         RetryRound, BeginEnd, FinishEnd, record
<1>2. pendingDelivery' \in Seq(TrueEvents')
  <2>1. CASE UNCHANGED pendingDelivery
    BY <1>1, <2>1, PendingStays DEF Grows
  <2>2. ASSUME NEW first \in {"opening", "outcome"}, NEW n \in Nat, Commit(first, n)
        PROVE  pendingDelivery' \in Seq(TrueEvents')
    <3> DEFINE a == Said(first, n)
               b == Said("round_start", n + 1)
               c == Said("directive", 0)
    <3>1. a \in TrueEvents' /\ b \in TrueEvents' /\ c \in TrueEvents'
      BY SaidIsTrue DEF PublicTypes, OtherTypes
    <3>2. pendingDelivery \in Seq(TrueEvents')
      BY <1>1, PendingStays DEF Grows
    <3>3. pendingDelivery' = pendingDelivery \o <<a, b, c>>
      BY <2>2 DEF Commit
    <3> HIDE DEF a, b, c
    <3>4. <<a, b, c>> \in Seq(TrueEvents')
      BY <3>1
    <3> QED
      BY <3>2, <3>3, <3>4
  <2>3. rounds + 1 \in Nat
    BY DEF RecordInv, RecordTypes
  <2>4. CASE OpenGame \/ CommitRound
    BY <2>2, <2>3, <2>4 DEF OpenGame, CommitRound
  <2> QED
    BY <2>1, <2>4 DEF Game, StartGame, LaunchRound, PauseRound, RetryRound, BeginEnd, FinishEnd
<1>3. /\ pauses \in Nat /\ effects \in {"free", "job", "recovery", "notice", "ending"}
      /\ cut \in BOOLEAN /\ publishedCursor \in Nat
  BY DEF PlacesInv, TypeOK, PublicationTypeOK
<1>4. /\ pauses' \in Nat /\ effects' \in {"free", "job", "recovery", "notice", "ending"}
      /\ cut' \in BOOLEAN /\ publishing' \in {publishing, Silence} /\ publishedCursor' \in Nat
  <2>1. pauses' \in Nat
    BY <1>1, <1>3
  <2>2. effects' \in {"free", "job", "recovery", "notice", "ending"}
    BY <1>1, <1>3
  <2>3. cut' \in BOOLEAN
    BY <1>1, <1>3
  <2> QED
    BY <1>1, <1>3, <2>1, <2>2, <2>3
<1> QED
  BY <1>1, <1>2, <1>4, NothingSaid

LEMMA ElsewherePlaces ==
    ASSUME PlacesInv, RecordInv, RecordInv', Elsewhere
    PROVE  PlacesInv'
<1>1. Grows /\ GamePlaces'
  BY DeliveriesPlaced, NoticesPlaced, GamePlaced DEF Elsewhere, PublicationNext
<1> QED
  BY <1>1, ElsewherePlaced DEF Elsewhere

LEMMA NoneIsAhead ==
    ASSUME NEW s \in Screen, NEW events, Len(events) \in Nat, NEW replayed \in BOOLEAN,
           NEW limit \in Nat, s.cursor <= limit,
           \A n \in 1..Len(events) : events[n].id \in 0..limit
    PROVE  /\ HandleAll(s, events, replayed) \in Screen
           /\ HandleAll(s, events, replayed).cursor <= limit
<1> DEFINE N == Len(events)
<1>1. \A n \in 1..N : events[n].id \in Nat
  OBVIOUS
<1>2. PICK after \in [0..N -> Screen] :
         /\ after[0] = s
         /\ \A n \in 1..N : after[n] = Step(after[n - 1], events[n], replayed)
         /\ HandleAll(s, events, replayed) = after[N]
  BY <1>1, AllAreHandled
<1> DEFINE bounded == {n \in Nat : n \in 0..N => after[n].cursor <= limit}
<1>3. 0 \in bounded
  BY <1>2
<1>4. ASSUME NEW n \in bounded
      PROVE  n + 1 \in bounded
  <2>1. CASE n + 1 \in 0..N
    <3>1. n \in 0..N /\ n + 1 \in 1..N /\ (n + 1) - 1 = n
      BY <2>1
    <3>2. after[n + 1] = Step(after[n], events[n + 1], replayed) /\ after[n] \in Screen
      BY <1>2, <3>1
    <3>3. after[n + 1].cursor \in {after[n].cursor, events[n + 1].id}
      BY <1>1, <3>1, <3>2, StepTyped
    <3> QED
      BY <3>1, <3>3
  <2> QED
    BY <2>1
<1>5. bounded \in SUBSET Nat
  OBVIOUS
<1> HIDE DEF bounded
<1>6. \A n \in Nat : n \in bounded
  BY <1>3, <1>4, <1>5, Counting
<1> QED
  BY <1>2, <1>6 DEF bounded

LEMMA SnapshotApplied ==
    ASSUME NEW s \in Screen, NEW m \in Snapshot
    PROVE  /\ [s EXCEPT !.view = ApplySnapshot(@, m)] \in Screen
           /\ [s EXCEPT !.view = ApplySnapshot(@, m)].cursor = s.cursor
           /\ [s EXCEPT !.view = ApplySnapshot(@, m)].shown = s.shown
<1>1. ApplySnapshot(s.view, m) \in View
  BY DEF ApplySnapshot, View, Screen, Snapshot
<1> QED
  BY <1>1 DEF Screen

LEMMA HeldIsTrue ==
    ASSUME PlacesInv
    PROVE  /\ Len(held) \in Nat /\ Len(journal) \in Nat
           /\ \A n \in 1..Len(held) : held[n] \in TrueEvents /\ held[n].id \in 0..Len(journal)
<1>1. journal \in Seq(Entry) /\ held \in Seq(TrueEvents)
  BY DEF PlacesInv, TypeOK, PublicationTypeOK
<1>2. \A n \in 1..Len(held) : held[n] \in TrueEvents
  BY <1>1
<1>3. \A e \in TrueEvents : e.id \in 0..Len(journal)
  BY <1>1 DEF TrueEvents, TruePlace, Event
<1> QED
  BY <1>1, <1>2, <1>3

LEMMA FinishPlaced ==
    ASSUME PlacesInv, NEW s \in Screen, s.cursor <= Len(journal)
    PROVE  Finish(s) \in Screen /\ Finish(s).cursor <= Len(journal)
<1> DEFINE fresh == [s EXCEPT !.view = ApplySnapshot(@, snapshot)]
<1>1. fresh \in Screen /\ fresh.cursor <= Len(journal)
  BY SnapshotApplied DEF PlacesInv, TypeOK
<1> HIDE DEF fresh
<1>2. HandleAll(fresh, held, FALSE) \in Screen /\ HandleAll(fresh, held, FALSE).cursor <= Len(journal)
  BY <1>1, HeldIsTrue, NoneIsAhead
<1> QED
  BY <1>2 DEF Finish, fresh

\* The events of a page.
PageEvents(page) ==
    [i \in 1..(page.upto - page.after) |->
        [type |-> journal[page.after + i].type,
         round |-> journal[page.after + i].round, id |-> page.after + i]]

LEMMA PageLength ==
    ASSUME NEW page, page.after \in Nat, page.upto \in Nat, page.after <= page.upto
    PROVE  /\ Len(PageEvents(page)) = page.upto - page.after
           /\ page.upto - page.after \in Nat
           /\ \A i \in 1..(page.upto - page.after) :
                 /\ PageEvents(page)[i].id = page.after + i
                 /\ PageEvents(page)[i].type = journal[page.after + i].type
<1>1. page.upto - page.after \in Nat
  OBVIOUS
<1>2. DOMAIN PageEvents(page) = 1..(page.upto - page.after)
  BY DEF PageEvents
<1> QED
  BY <1>1, <1>2 DEF PageEvents

LEMMA PagePlaced ==
    ASSUME journal \in Seq(Entry), NEW s \in Screen, s.cursor <= Len(journal),
           NEW page, page.after \in Nat, page.upto \in Nat, page.after <= page.upto,
           page.upto <= Len(journal)
    PROVE  HandlePage(s, page) \in Screen /\ HandlePage(s, page).cursor <= Len(journal)
<1>1. /\ Len(PageEvents(page)) \in Nat /\ Len(journal) \in Nat
      /\ \A n \in 1..Len(PageEvents(page)) : PageEvents(page)[n].id \in 0..Len(journal)
  BY PageLength
<1>2. HandlePage(s, page) = HandleAll(s, PageEvents(page), TRUE)
  BY DEF HandlePage, PageEvents
<1> QED
  BY <1>1, <1>2, NoneIsAhead

\* What a step that records nothing has to keep.
ClientPlaces ==
    /\ attached \in BOOLEAN /\ stream \in Seq(TrueMessages)
    /\ conn \in {"closed", "open", "live", "closing"}
    /\ screen \in Screen /\ screen.cursor <= Len(journal)
    /\ replaying \in BOOLEAN /\ snapshot \in Snapshot /\ held \in Seq(TrueEvents)
    /\ request \in [status : {"none", "sent", "backoff"}, after : Nat]
    /\ request.after <= Len(journal)
    /\ upstream \in Seq(0..Len(journal))
    /\ losses \in Nat /\ refusals \in Nat /\ outrun \in BOOLEAN /\ gaveUp \in BOOLEAN

LEMMA ClientPlaced ==
    ASSUME PlacesInv, UNCHANGED <<game, record>>, ClientPlaces'
    PROVE  PlacesInv'
<1>1. UNCHANGED <<phase, rounds, pauses, effects, cut, pendingDelivery, notices, journal,
                  publishing, publishedCursor>>
  BY DEF game, record
<1>2. TrueEvents' = TrueEvents /\ TrueMessages' = TrueMessages
  BY <1>1 DEF TrueEvents, TruePlace, TrueMessages
<1>3. /\ TrueMessages \subseteq Event \cup Snapshot \cup Page \cup Refusal
      /\ TrueEvents \subseteq Event /\ 0..Len(journal) \subseteq Nat
  BY DEF TrueMessages, TrueEvents
<1> HIDE DEF TrueMessages, TrueEvents
<1>4. /\ stream' \in Seq(Event \cup Snapshot \cup Page \cup Refusal)
      /\ held' \in Seq(Event) /\ upstream' \in Seq(Nat)
  BY <1>1, <1>2, <1>3, SeqMonotonic DEF ClientPlaces
<1>5. PublicationTypeOK'
  BY <1>1, <1>4 DEF PlacesInv, TypeOK, PublicationTypeOK, ClientPlaces
<1>6. TypeOK'
  BY <1>4, <1>5 DEF TypeOK, ClientPlaces
<1> QED
  BY <1>1, <1>2, <1>6 DEF PlacesInv, ClientPlaces

LEMMA ClientIsPlaced ==
    ASSUME PlacesInv
    PROVE  ClientPlaces /\ journal \in Seq(Entry) /\ Len(journal) \in Nat
BY DEF PlacesInv, TypeOK, PublicationTypeOK, ClientPlaces

LEMMA UnrecordedStays ==
    ASSUME UNCHANGED <<game, record>>
    PROVE  journal' = journal /\ TrueEvents' = TrueEvents /\ TrueMessages' = TrueMessages
BY DEF game, record, TrueEvents, TruePlace, TrueMessages

LEMMA ServerPlaces ==
    ASSUME PlacesInv, Server
    PROVE  PlacesInv'
<1>1. UNCHANGED <<game, record>>
  BY DEF Server, Authenticate, LoseSocket, AnswerPage, RefusePage, Answer
<1>2. /\ journal' = journal /\ TrueEvents' = TrueEvents /\ TrueMessages' = TrueMessages
      /\ ClientPlaces /\ journal \in Seq(Entry) /\ Len(journal) \in Nat
  BY <1>1, UnrecordedStays, ClientIsPlaced
<1>3. CASE Authenticate
  <2>1. TakeSnapshot \in TrueMessages
    <3>1. TakeSnapshot \in Snapshot /\ TakeSnapshot.latest = Len(journal)
      BY <1>2 DEF TakeSnapshot, Snapshot, PlacesInv, TypeOK, PublicationTypeOK, Opened,
                  OpeningPending
    <3> QED
      BY <1>2, <3>1 DEF TrueMessages
  <2>2. /\ conn' = "open" /\ attached' = TRUE /\ stream' = <<TakeSnapshot>> /\ upstream' = <<>>
        /\ UNCHANGED <<screen, replaying, snapshot, held, request, losses, refusals, outrun,
                       gaveUp>>
    BY <1>3 DEF Authenticate
  <2>3. stream' \in Seq(TrueMessages) /\ upstream' \in Seq(0..Len(journal))
    BY <2>1, <2>2
  <2>4. ClientPlaces'
    BY <1>2, <2>2, <2>3 DEF ClientPlaces
  <2> QED
    BY <1>1, <2>4, ClientPlaced
<1>4. CASE LoseSocket
  <2>1. /\ attached' = FALSE /\ stream' = <<>> /\ losses' = losses + 1
        /\ UNCHANGED <<conn, screen, replaying, snapshot, held, request, upstream, refusals,
                       outrun, gaveUp>>
    BY <1>4 DEF LoseSocket, tab
  <2>2. stream' \in Seq(TrueMessages) /\ losses' \in Nat
    BY <1>2, <2>1 DEF ClientPlaces
  <2>3. ClientPlaces'
    BY <1>2, <2>1, <2>2 DEF ClientPlaces
  <2> QED
    BY <1>1, <2>3, ClientPlaced
<1>5. ASSUME NEW m \in TrueMessages, Answer(m), refusals' \in Nat
      PROVE  PlacesInv'
  <2>1. /\ upstream # <<>> /\ upstream' = Tail(upstream) /\ Enqueue(m)
        /\ UNCHANGED <<conn, screen, replaying, snapshot, held, request, losses, outrun,
                       gaveUp>>
    BY <1>5 DEF Answer, tab
  <2>2. upstream' \in Seq(0..Len(journal))
    BY <1>2, <2>1 DEF ClientPlaces
  <2>3. stream' \in Seq(TrueMessages) /\ attached' \in BOOLEAN
    BY <1>2, <1>5, <2>1, EnqueueTyped DEF ClientPlaces
  <2>4. ClientPlaces'
    BY <1>2, <1>5, <2>1, <2>2, <2>3 DEF ClientPlaces
  <2> QED
    BY <1>1, <2>4, ClientPlaced
<1>6. upstream # <<>> => Head(upstream) \in 0..Len(journal)
  BY <1>2 DEF ClientPlaces
<1>7. CASE AnswerPage
  <2>1. Answer(PageAfter(Head(upstream))) /\ upstream # <<>> /\ refusals' = refusals
    BY <1>7 DEF AnswerPage, Answer
  <2>2. PageAfter(Head(upstream)) \in TrueMessages
    <3> DEFINE after == Head(upstream)
               m == PageAfter(after)
    <3>1. after \in 0..Len(journal) /\ PageLimit \in Nat
      BY <1>6, <2>1, ReplayAssumption
    <3> HIDE DEF after
    <3>2. /\ m \in Page /\ m.after <= m.upto /\ m.upto <= Len(journal)
      BY <1>2, <3>1 DEF PageAfter, Page
    <3> QED
      BY <3>2 DEF TrueMessages, after
  <2> QED
    BY <1>2, <1>5, <2>1, <2>2 DEF ClientPlaces
<1>8. CASE RefusePage
  <2> DEFINE m == [type |-> "refused", after |-> Head(upstream)]
  <2>1. Answer(m) /\ upstream # <<>> /\ refusals' = refusals + 1
    BY <1>8 DEF RefusePage, Answer
  <2>2. m \in TrueMessages
    BY <1>2, <1>6, <2>1 DEF TrueMessages, Refusal
  <2>3. refusals' \in Nat
    BY <1>2, <2>1 DEF ClientPlaces
  <2> QED
    BY <1>5, <2>1, <2>2, <2>3
<1> QED
  BY <1>3, <1>4, <1>7, <1>8 DEF Server

LEMMA ArrivedIsTrue ==
    ASSUME ClientPlaces, NEW types, Arrives(types)
    PROVE  /\ stream' \in Seq(TrueMessages) /\ attached' \in BOOLEAN
           /\ Head(stream) \in TrueMessages /\ Head(stream).type \in types
           /\ conn # "closed"
BY DEF ClientPlaces, Arrives

\* The kind of a message tells what it carries.
LEMMA KindsOfMessages ==
    ASSUME NEW m \in TrueMessages, Len(journal) \in Nat
    PROVE  /\ m.type = "auth_ok" => m \in Snapshot /\ m.latest \in 0..Len(journal)
           /\ m.type = "journal_page" =>
                 /\ m.after \in Nat /\ m.upto \in Nat /\ m.more \in BOOLEAN
                 /\ m.after <= m.upto /\ m.upto <= Len(journal)
           /\ m.type = "refused" => m.after \in 0..Len(journal)
           /\ m.type \in GameEvents => m \in TrueEvents
BY DEF TrueMessages, TrueEvents, Event, Snapshot, Page, Refusal, GameEvents, PublicTypes,
       OtherTypes

LEMMA AskPlaces ==
    ASSUME ClientPlaces, UNCHANGED journal, NEW after \in 0..Len(journal), Ask(after),
           Len(journal) \in Nat
    PROVE  /\ request' \in [status : {"none", "sent", "backoff"}, after : Nat]
           /\ request'.after <= Len(journal')
           /\ upstream' \in Seq(0..Len(journal'))
BY DEF Ask, ClientPlaces

LEMMA Emptied ==
    ASSUME NEW S
    PROVE  <<>> \in Seq(S)
OBVIOUS

LEMMA ClosedPlaces ==
    ASSUME PlacesInv, UNCHANGED <<game, record>>, Closed,
           stream' \in Seq(TrueMessages), attached' \in BOOLEAN
    PROVE  PlacesInv'
<1>1. /\ journal' = journal /\ TrueEvents' = TrueEvents /\ TrueMessages' = TrueMessages
      /\ ClientPlaces /\ journal \in Seq(Entry) /\ Len(journal) \in Nat
  BY UnrecordedStays, ClientIsPlaced
<1>2. /\ conn' = "closed" /\ request' = NoRequest
      /\ UNCHANGED <<snapshot, outrun, upstream, losses, refusals, gaveUp>>
  BY DEF Closed
<1>3. /\ screen' \in {FinishClosed(screen), screen} /\ replaying' \in {FALSE, replaying}
      /\ held' \in {<<>>, held}
  BY DEF Closed
<1>4. /\ FinishClosed(screen) \in Screen /\ FinishClosed(screen).cursor = screen.cursor
  BY <1>1, SnapshotApplied DEF FinishClosed, ClientPlaces
<1>5. held' \in Seq(TrueEvents)
  <2>1. CASE held' = <<>>
    BY <2>1, Emptied
  <2>2. CASE held' = held
    BY <1>1, <2>2 DEF ClientPlaces
  <2> QED
    BY <1>3, <2>1, <2>2
<1>6. ClientPlaces'
  <2>1. screen' \in Screen /\ screen'.cursor <= Len(journal)
    BY <1>1, <1>3, <1>4 DEF ClientPlaces
  <2>2. replaying' \in BOOLEAN
    BY <1>1, <1>3 DEF ClientPlaces
  <2>3. NoRequest \in [status : {"none", "sent", "backoff"}, after : Nat] /\ NoRequest.after = 0
    BY DEF NoRequest
  <2> QED
    BY <1>1, <1>2, <1>5, <2>1, <2>2, <2>3 DEF ClientPlaces
<1> QED
  BY <1>6, ClientPlaced

LEMMA BrowserPlaces ==
    ASSUME PlacesInv, Browser
    PROVE  PlacesInv'
<1>1. UNCHANGED <<game, record>>
  BY DEF Browser, Receive, ReceiveAuth, ReceivePage, ReceiveRefusal, ShowEvent, HoldEvent,
         HoldTooMany, StartClosing, NoticeClose, Closed, AskAgain, GiveUp
<1>2. /\ journal' = journal /\ TrueEvents' = TrueEvents /\ TrueMessages' = TrueMessages
      /\ ClientPlaces /\ journal \in Seq(Entry) /\ Len(journal) \in Nat
  BY <1>1, UnrecordedStays, ClientIsPlaced
<1> DEFINE m == Head(stream)
<1>3. CASE ReceiveAuth
  <2>1. /\ stream' \in Seq(TrueMessages) /\ attached' \in BOOLEAN
        /\ m \in Snapshot /\ m.latest \in 0..Len(journal)
    <3>1. Arrives({"auth_ok"})
      BY <1>3 DEF ReceiveAuth
    <3> QED
      BY <1>2, <3>1, ArrivedIsTrue, KindsOfMessages
  <2>2. /\ conn' = "live" /\ held' = <<>> /\ snapshot' = m /\ outrun' = FALSE
        /\ screen' = [screen EXCEPT !.view = ApplySnapshot(@, m)]
        /\ UNCHANGED <<losses, refusals, gaveUp>>
    BY <1>3 DEF ReceiveAuth
  <2>3. replaying' \in BOOLEAN
    <3>1. replaying' = (m.latest > screen.cursor)
      BY <1>3 DEF ReceiveAuth
    <3> QED
      BY <3>1
  <2>4. screen' \in Screen /\ screen'.cursor <= Len(journal)
    BY <1>2, <2>1, <2>2, SnapshotApplied DEF ClientPlaces
  <2>5. Ask(screen.cursor) \/ UNCHANGED <<request, upstream>>
    BY <1>3 DEF ReceiveAuth
  <2>6. /\ request' \in [status : {"none", "sent", "backoff"}, after : Nat]
        /\ request'.after <= Len(journal')
        /\ upstream' \in Seq(0..Len(journal'))
    <3>1. screen.cursor \in 0..Len(journal)
      BY <1>2 DEF ClientPlaces, Screen
    <3> QED
      BY <1>2, <2>5, <3>1, AskPlaces DEF ClientPlaces
  <2>7. held' \in Seq(TrueEvents)
    BY <2>2
  <2>8. ClientPlaces'
    BY <1>2, <2>1, <2>2, <2>3, <2>4, <2>6, <2>7 DEF ClientPlaces
  <2> QED
    BY <1>1, <2>8, ClientPlaced
<1>4. CASE ReceivePage
  <2>1. /\ stream' \in Seq(TrueMessages) /\ attached' \in BOOLEAN
        /\ m.after \in Nat /\ m.upto \in Nat /\ m.more \in BOOLEAN
        /\ m.after <= m.upto /\ m.upto <= Len(journal)
    <3>1. Arrives({"journal_page"})
      BY <1>4 DEF ReceivePage
    <3> QED
      BY <1>2, <3>1, ArrivedIsTrue, KindsOfMessages
  <2>2. UNCHANGED <<conn, snapshot, losses, refusals, gaveUp>>
    BY <1>4 DEF ReceivePage
  <2>3. outrun' \in BOOLEAN
    <3>1. outrun' = (outrun \/ m.upto > snapshot.latest \/ ~replaying)
      BY <1>4 DEF ReceivePage
    <3> QED
      BY <3>1
  <2> DEFINE read == HandlePage(screen, m)
             end == [read EXCEPT !.cursor = IF m.upto > @ THEN m.upto ELSE @]
  <2>4. read \in Screen /\ read.cursor <= Len(journal)
    BY <1>2, <2>1, PagePlaced DEF ClientPlaces
  <2>5. \/ Ask(m.upto) /\ screen' = read /\ UNCHANGED <<replaying, held>>
        \/ /\ request' = NoRequest /\ UNCHANGED upstream
           /\ screen' = Finish(end) /\ replaying' = FALSE /\ held' = <<>>
    BY <1>4 DEF ReceivePage
  <2> HIDE DEF read, m
  <2>6. end \in Screen /\ end.cursor <= Len(journal)
    BY <2>1, <2>4 DEF Screen
  <2> HIDE DEF end
  <2>7. CASE Ask(m.upto) /\ screen' = read /\ UNCHANGED <<replaying, held>>
    <3>1. m.upto \in 0..Len(journal)
      BY <1>2, <2>1
    <3>2. /\ request' \in [status : {"none", "sent", "backoff"}, after : Nat]
          /\ request'.after <= Len(journal')
          /\ upstream' \in Seq(0..Len(journal'))
      BY <1>2, <2>7, <3>1, AskPlaces
    <3>3. ClientPlaces'
      BY <1>2, <2>1, <2>2, <2>3, <2>4, <2>7, <3>2 DEF ClientPlaces
    <3> QED
      BY <1>1, <3>3, ClientPlaced
  <2>8. CASE /\ request' = NoRequest /\ UNCHANGED upstream
             /\ screen' = Finish(end) /\ replaying' = FALSE /\ held' = <<>>
    <3>1. screen' \in Screen /\ screen'.cursor <= Len(journal)
      BY <2>6, <2>8, FinishPlaced
    <3>2. /\ request' \in [status : {"none", "sent", "backoff"}, after : Nat]
          /\ request'.after <= Len(journal)
      BY <1>2, <2>8 DEF NoRequest
    <3>3. held' \in Seq(TrueEvents)
      BY <2>8, Emptied
    <3>4. upstream' \in Seq(0..Len(journal)) /\ replaying' \in BOOLEAN
      BY <1>2, <2>8 DEF ClientPlaces
    <3>5. /\ conn' \in {"closed", "open", "live", "closing"} /\ snapshot' \in Snapshot
          /\ losses' \in Nat /\ refusals' \in Nat /\ gaveUp' \in BOOLEAN
      BY <1>2, <2>2 DEF ClientPlaces
    <3>6. ClientPlaces'
      BY <1>2, <2>1, <2>3, <3>1, <3>2, <3>3, <3>4, <3>5 DEF ClientPlaces
    <3> QED
      BY <1>1, <3>6, ClientPlaced
  <2> QED
    BY <2>5, <2>7, <2>8
<1>5. CASE ReceiveRefusal
  <2>1. stream' \in Seq(TrueMessages) /\ attached' \in BOOLEAN
    BY <1>2, <1>5, ArrivedIsTrue DEF ReceiveRefusal
  <2>2. UNCHANGED <<conn, screen, replaying, snapshot, held, outrun, upstream, losses, refusals,
                    gaveUp>>
    BY <1>5 DEF ReceiveRefusal
  <2>3. request' \in {[request EXCEPT !.status = "backoff"], request}
    BY <1>5 DEF ReceiveRefusal
  <2>4. /\ request' \in [status : {"none", "sent", "backoff"}, after : Nat]
        /\ request'.after = request.after
    BY <1>2, <2>3 DEF ClientPlaces
  <2>5. ClientPlaces'
    BY <1>2, <2>1, <2>2, <2>4 DEF ClientPlaces
  <2> QED
    BY <1>1, <2>5, ClientPlaced
<1>6. ASSUME Arrives(GameEvents)
      PROVE  stream' \in Seq(TrueMessages) /\ attached' \in BOOLEAN
             /\ m \in TrueEvents /\ m.id \in 0..Len(journal)
  <2>1. stream' \in Seq(TrueMessages) /\ attached' \in BOOLEAN /\ m \in TrueEvents
    BY <1>2, <1>6, ArrivedIsTrue, KindsOfMessages
  <2>2. m.id \in 0..Len(journal)
    BY <1>2, <2>1 DEF TrueEvents, TruePlace, Event
  <2> QED
    BY <2>1, <2>2
<1>7. CASE ShowEvent
  <2>1. /\ stream' \in Seq(TrueMessages) /\ attached' \in BOOLEAN
        /\ m \in TrueEvents /\ m.id \in 0..Len(journal)
    BY <1>6, <1>7 DEF ShowEvent
  <2>2. /\ screen' = Handle(screen, m, FALSE) /\ outrun' = (outrun \/ replaying)
        /\ UNCHANGED <<conn, replaying, snapshot, held, request, upstream, losses, refusals,
                       gaveUp>>
    BY <1>7 DEF ShowEvent
  <2>3. screen' \in Screen /\ screen'.cursor <= Len(journal)
    <3>1. screen \in Screen /\ screen.cursor <= Len(journal) /\ m.id \in Nat /\ FALSE \in BOOLEAN
      BY <1>2, <2>1 DEF ClientPlaces
    <3> HIDE DEF m
    <3>2. /\ Handle(screen, m, FALSE) \in Screen
          /\ Handle(screen, m, FALSE).cursor \in {screen.cursor, m.id}
      BY <3>1, HandleTyped
    <3>3. m.id <= Len(journal)
      BY <2>1
    <3>4. Handle(screen, m, FALSE).cursor <= Len(journal)
      BY <3>1, <3>2, <3>3
    <3>5. screen' = Handle(screen, m, FALSE)
      BY <2>2
    <3> QED
      BY <3>2, <3>4, <3>5
  <2>4. outrun' \in BOOLEAN
    BY <2>2
  <2>5. ClientPlaces'
    BY <1>2, <2>1, <2>2, <2>3, <2>4 DEF ClientPlaces
  <2> QED
    BY <1>1, <2>5, ClientPlaced
<1>8. CASE HoldEvent
  <2>1. stream' \in Seq(TrueMessages) /\ attached' \in BOOLEAN /\ m \in TrueEvents
    BY <1>6, <1>8 DEF HoldEvent
  <2>2. /\ held' = Append(held, m)
        /\ UNCHANGED <<conn, screen, replaying, snapshot, request, outrun, upstream, losses,
                       refusals, gaveUp>>
    BY <1>8 DEF HoldEvent
  <2>3. held' \in Seq(TrueEvents)
    BY <1>2, <2>1, <2>2 DEF ClientPlaces
  <2>4. ClientPlaces'
    BY <1>2, <2>1, <2>2, <2>3 DEF ClientPlaces
  <2> QED
    BY <1>1, <2>4, ClientPlaced
<1>9. CASE HoldTooMany \/ StartClosing
  <2>1. /\ stream' \in {<<>>, stream} /\ attached' \in {FALSE, attached} /\ conn' = "closing"
        /\ UNCHANGED <<screen, replaying, snapshot, held, request, outrun, upstream, losses,
                       refusals, gaveUp>>
    BY <1>9 DEF HoldTooMany, StartClosing, socket
  <2>2. stream' \in Seq(TrueMessages) /\ attached' \in BOOLEAN
    BY <1>2, <2>1, Emptied DEF ClientPlaces
  <2>3. ClientPlaces'
    BY <1>2, <2>1, <2>2 DEF ClientPlaces
  <2> QED
    BY <1>1, <2>3, ClientPlaced
<1>10. CASE NoticeClose
  <2>1. stream' \in Seq(TrueMessages) /\ attached' \in BOOLEAN /\ Closed
    BY <1>2, <1>10 DEF NoticeClose, socket, ClientPlaces
  <2> QED
    BY <1>1, <2>1, ClosedPlaces
<1>11. CASE /\ Ask(request.after)
            /\ UNCHANGED <<socket, conn, screen, replaying, snapshot, held, outrun, losses,
                           refusals, gaveUp>>
  <2>2. request.after \in 0..Len(journal)
    BY <1>2 DEF ClientPlaces
  <2>3. /\ request' \in [status : {"none", "sent", "backoff"}, after : Nat]
        /\ request'.after <= Len(journal')
        /\ upstream' \in Seq(0..Len(journal'))
    BY <1>2, <1>11, <2>2, AskPlaces
  <2>4. ClientPlaces'
    BY <1>2, <1>11, <2>3 DEF ClientPlaces, socket
  <2> QED
    BY <1>1, <2>4, ClientPlaced
<1>12. CASE GivenUp /\ UNCHANGED <<socket, conn, snapshot, outrun, losses, refusals>>
  <2>1. /\ request' = NoRequest /\ replaying' = FALSE /\ gaveUp' = (gaveUp \/ replaying)
        /\ screen' \in {Finish(screen), screen} /\ held' \in {<<>>, held}
        /\ UNCHANGED <<socket, conn, snapshot, outrun, upstream, losses, refusals>>
    BY <1>12 DEF GivenUp
  <2>2. Finish(screen) \in Screen /\ Finish(screen).cursor <= Len(journal)
    BY <1>2, FinishPlaced DEF ClientPlaces
  <2>3. screen' \in Screen /\ screen'.cursor <= Len(journal)
    BY <1>2, <2>1, <2>2 DEF ClientPlaces
  <2>4. held' \in Seq(TrueEvents)
    <3>1. CASE held' = <<>>
      BY <3>1, Emptied
    <3>2. CASE held' = held
      BY <1>2, <3>2 DEF ClientPlaces
    <3> QED
      BY <2>1, <3>1, <3>2
  <2>5. /\ request' \in [status : {"none", "sent", "backoff"}, after : Nat]
        /\ request'.after <= Len(journal) /\ replaying' \in BOOLEAN /\ gaveUp' \in BOOLEAN
    <3>1. request' = NoRequest /\ Len(journal) \in Nat
      BY <1>2, <2>1
    <3>2. /\ NoRequest \in [status : {"none", "sent", "backoff"}, after : Nat]
          /\ NoRequest.after = 0
      BY DEF NoRequest
    <3>3. replaying' \in BOOLEAN /\ gaveUp' \in BOOLEAN
      BY <2>1
    <3> QED
      BY <3>1, <3>2, <3>3
  <2>6. ClientPlaces'
    BY <1>2, <2>1, <2>3, <2>4, <2>5 DEF ClientPlaces, socket
  <2> QED
    BY <1>1, <2>6, ClientPlaced
<1>13. CASE AskAgain \/ GiveUp
  BY <1>11, <1>12, <1>13 DEF AskAgain, GiveUp
<1> QED
  BY <1>3, <1>4, <1>5, <1>7, <1>8, <1>9, <1>10, <1>13 DEF Browser, Receive

LEMMA StepPlaces ==
    ASSUME PlacesInv, RecordInv, RecordInv', [Next]_vars
    PROVE  PlacesInv'
<1>1. CASE UNCHANGED vars
  <2>1. UNCHANGED <<game, record>> /\ UNCHANGED <<socket, client>>
    BY <1>1 DEF vars
  <2>2. ClientPlaces'
    BY <2>1, UnrecordedStays, ClientIsPlaced DEF ClientPlaces, socket, client, tab
  <2> QED
    BY <2>1, <2>2, ClientPlaced
<1> QED
  BY <1>1, ElsewherePlaces, ServerPlaces, BrowserPlaces DEF Next

LEMMA InitPlaces == Init => PlacesInv
<1> SUFFICES ASSUME Init PROVE PlacesInv
  OBVIOUS
<1>1. Silence \in [by : {"nobody", "delivery", "notice", "chat"}, event : Event, again : BOOLEAN]
      /\ Silence.event \in TrueEvents
  <2>1. Said("chat", 0) \in TrueEvents /\ Said("chat", 0) \in Event
    BY SaidIsTrue DEF PublicTypes, TrueEvents
  <2> QED
    BY <2>1 DEF Silence
<1>2. PublicationTypeOK
  <2>1. /\ pendingDelivery = <<>> /\ notices = <<>> /\ journal = <<>> /\ stream = <<>>
        /\ publishing = Silence /\ phase = "lobby" /\ effects = "free" /\ cut = FALSE
        /\ rounds = 0 /\ pauses = 0 /\ publishedCursor = 0 /\ attached = FALSE
    BY DEF Init, PublicationInit
  <2>2. /\ pendingDelivery \in Seq(Event) /\ journal \in Seq(Entry)
        /\ stream \in Seq(Event \cup Snapshot \cup Page \cup Refusal)
    BY <2>1, Emptied
  <2>3. \A S : notices \in Seq(S)
    BY <2>1, Emptied
  <2> QED
    BY <1>1, <2>1, <2>2, <2>3 DEF PublicationTypeOK, Phases
<1>3. Blank \in View /\ NoSnapshot \in Snapshot
  BY DEF Blank, View, NoSnapshot, Snapshot, Phases
<1>4. screen \in Screen /\ screen.cursor = 0
  BY <1>3 DEF Init, Screen
<1>5. /\ request \in [status : {"none", "sent", "backoff"}, after : Nat] /\ request.after = 0
      /\ Len(journal) = 0
  BY DEF Init, PublicationInit, NoRequest
<1>6. /\ \A S : held \in Seq(S) /\ upstream \in Seq(S) /\ stream \in Seq(S)
      /\ pendingDelivery \in Seq(TrueEvents)
  BY Emptied DEF Init, PublicationInit
<1>7. TypeOK
  BY <1>2, <1>3, <1>4, <1>5, <1>6 DEF Init, TypeOK
<1> QED
  BY <1>1, <1>4, <1>5, <1>6, <1>7 DEF Init, PublicationInit, PlacesInv

LEMMA PlacesKept == Spec => []PlacesInv
BY InitRecords, StepRecords, InitPlaces, StepPlaces, PTL DEF Spec

\* Page and server exchange what their types say, and neither is ever ahead of the journal:
\* no event id, cursor, request or page names a place that is not recorded.
THEOREM ReplayTyped == Spec => []TypeOK
<1>1. PlacesInv => TypeOK
  BY DEF PlacesInv
<1> QED
  BY <1>1, PlacesKept, PTL

-----------------------------------------------------------------------------
(* What is on its way continues where the browser stands *)

Number(m) == IF m.type \in GameEvents THEN m.id ELSE 0

\* Read after its message j, `sent` brings every event from `from` to `to`, in order.
Leads(sent, j, from, to) ==
    /\ \A n \in (from + 1)..to : \E k \in (j + 1)..Len(sent) : Number(sent[k]) = n
    /\ \A k \in (j + 1)..Len(sent) : Number(sent[k]) > from + 1 =>
          \E i \in (j + 1)..(k - 1) : Number(sent[i]) = Number(sent[k]) - 1

LEMMA LeadsNowhere ==
    ASSUME NEW M, NEW sent \in Seq(M), NEW n \in Nat
    PROVE  Leads(sent, Len(sent), n, n)
BY DEF Leads

LEMMA LeadsFurther ==
    ASSUME NEW M, NEW sent \in Seq(M), NEW j \in 0..Len(sent), NEW from \in Nat, NEW to \in Nat,
           from <= to, Leads(sent, j, from, to),
           NEW m \in M, Number(m) \in Nat, NEW after \in {to, to + 1},
           Number(m) <= after, after = to + 1 => Number(m) = after
    PROVE  Leads(Append(sent, m), j, from, after)
<1> DEFINE N == Len(sent)
           more == Append(sent, m)
<1>1. /\ N \in Nat /\ Len(more) = N + 1 /\ more[N + 1] = m
      /\ \A k \in 1..N : more[k] = sent[k]
  OBVIOUS
<1> HIDE DEF more
<1>2. \A k \in (j + 1)..N : k \in 1..N /\ k \in (j + 1)..(N + 1) /\ more[k] = sent[k]
  BY <1>1
<1>3. N + 1 \in (j + 1)..(N + 1)
  BY <1>1
<1>4. ASSUME NEW n \in (from + 1)..after
      PROVE  \E k \in (j + 1)..(N + 1) : Number(more[k]) = n
  <2>1. CASE n \in (from + 1)..to
    <3>1. PICK k \in (j + 1)..N : Number(sent[k]) = n
      BY <2>1 DEF Leads
    <3> QED
      BY <1>2, <3>1
  <2>2. CASE n = to + 1
    <3>1. Number(m) = n
      BY <1>4, <2>2
    <3> QED
      BY <1>1, <1>3, <3>1
  <2> QED
    BY <1>4, <2>1, <2>2
<1>5. ASSUME NEW k \in (j + 1)..(N + 1), Number(more[k]) > from + 1
      PROVE  \E i \in (j + 1)..(k - 1) : Number(more[i]) = Number(more[k]) - 1
  <2>1. CASE k \in (j + 1)..N
    <3>1. PICK i \in (j + 1)..(k - 1) : Number(sent[i]) = Number(sent[k]) - 1
      BY <1>2, <1>5, <2>1 DEF Leads
    <3>2. i \in (j + 1)..N
      BY <1>1, <2>1
    <3> QED
      BY <1>2, <2>1, <3>1, <3>2
  <2>2. CASE k = N + 1
    <3>1. Number(m) - 1 \in (from + 1)..to
      BY <1>1, <1>5, <2>2
    <3>2. PICK i \in (j + 1)..N : Number(sent[i]) = Number(m) - 1
      BY <3>1 DEF Leads
    <3> QED
      BY <1>1, <1>2, <2>2, <3>2
  <2> QED
    BY <1>1, <1>5, <2>1, <2>2
<1> QED
  BY <1>1, <1>4, <1>5 DEF Leads, more

LEMMA LeadsLess ==
    ASSUME NEW M, NEW sent \in Seq(M), sent # <<>>, NEW j \in 1..Len(sent),
           NEW from \in Nat, NEW to \in Nat, Leads(sent, j, from, to)
    PROVE  Leads(Tail(sent), j - 1, from, to)
<1> DEFINE N == Len(sent)
           rest == Tail(sent)
<1>1. /\ N \in Nat \ {0} /\ Len(rest) = N - 1
      /\ \A k \in 1..(N - 1) : rest[k] = sent[k + 1]
  OBVIOUS
<1> HIDE DEF rest
<1>2. \A k \in (j + 1)..N : k - 1 \in j..(N - 1) /\ rest[k - 1] = sent[k]
  BY <1>1
<1>3. \A k \in j..(N - 1) : k + 1 \in (j + 1)..N /\ rest[k] = sent[k + 1]
  BY <1>1
<1>4. (j - 1) + 1 = j
  OBVIOUS
<1>5. ASSUME NEW n \in (from + 1)..to
      PROVE  \E k \in j..(N - 1) : Number(rest[k]) = n
  BY <1>2 DEF Leads
<1>6. ASSUME NEW k \in j..(N - 1), Number(rest[k]) > from + 1
      PROVE  \E i \in j..(k - 1) : Number(rest[i]) = Number(rest[k]) - 1
  <2>1. PICK i \in (j + 1)..((k + 1) - 1) : Number(sent[i]) = Number(sent[k + 1]) - 1
    BY <1>3, <1>6 DEF Leads
  <2>2. i \in (j + 1)..N /\ i - 1 \in j..(k - 1)
    BY <1>1, <2>1
  <2> QED
    BY <1>2, <1>3, <2>1, <2>2
<1> QED
  BY <1>1, <1>4, <1>5, <1>6 DEF Leads, rest

\* Who has read further is led as well.
LEMMA LeadsOn ==
    ASSUME NEW M, NEW sent \in Seq(M), NEW j \in Nat, NEW from \in Nat, NEW to \in Nat,
           NEW there \in Nat, from <= there, Leads(sent, j, from, to),
           \A k \in DOMAIN sent : Number(sent[k]) \in Nat
    PROVE  Leads(sent, j, there, to)
<1>1. (there + 1)..to \subseteq (from + 1)..to
  OBVIOUS
<1>2. \A k \in (j + 1)..Len(sent) : k \in DOMAIN sent
  OBVIOUS
<1>3. \A k \in (j + 1)..Len(sent) : Number(sent[k]) > there + 1 => Number(sent[k]) > from + 1
  BY <1>2
<1> QED
  BY <1>1, <1>3 DEF Leads

\* The next message is the next event, or one already read, or no event at all.
LEMMA LeadsByOne ==
    ASSUME NEW M, NEW sent \in Seq(M), sent # <<>>, NEW from \in Nat, NEW to \in Nat,
           Leads(sent, 0, from, to), \A k \in DOMAIN sent : Number(sent[k]) \in Nat,
           NEW there \in Nat, from <= there, Number(Head(sent)) <= there
    PROVE  /\ Number(Head(sent)) <= from + 1
           /\ Leads(Tail(sent), 0, there, to)
<1> DEFINE N == Len(sent)
           rest == Tail(sent)
           m == Head(sent)
<1>1. /\ N \in Nat \ {0} /\ Len(rest) = N - 1 /\ m = sent[1] /\ DOMAIN sent = 1..N
      /\ \A k \in 1..(N - 1) : rest[k] = sent[k + 1]
  OBVIOUS
<1> HIDE DEF rest, m
<1>2. 1 \in (0 + 1)..N /\ Number(m) \in Nat /\ 0 + 1 = 1
  BY <1>1
<1>3. Number(m) <= from + 1
  <2>1. SUFFICES ASSUME Number(m) > from + 1
                 PROVE  FALSE
    BY <1>2
  <2>2. PICK i \in (0 + 1)..(1 - 1) : TRUE
    BY <1>1, <1>2, <2>1 DEF Leads
  <2> QED
    BY <2>2
<1>4. \A k \in 2..N : k - 1 \in 1..(N - 1) /\ rest[k - 1] = sent[k]
  BY <1>1
<1>5. ASSUME NEW n \in (there + 1)..to
      PROVE  \E k \in 1..(N - 1) : Number(rest[k]) = n
  <2>1. n \in (from + 1)..to
    OBVIOUS
  <2>2. PICK k \in 1..N : Number(sent[k]) = n
    BY <2>1, <1>2 DEF Leads
  <2>3. k # 1
    BY <1>1, <1>2, <1>5, <2>2 DEF m
  <2>4. k \in 2..N
    BY <2>3
  <2> QED
    BY <1>4, <2>2, <2>4
<1>6. ASSUME NEW k \in 1..(N - 1), Number(rest[k]) > there + 1
      PROVE  \E i \in 1..(k - 1) : Number(rest[i]) = Number(rest[k]) - 1
  <2>1. k + 1 \in 1..N /\ rest[k] = sent[k + 1] /\ Number(sent[k + 1]) \in Nat
    BY <1>1
  <2>2. Number(sent[k + 1]) > from + 1
    BY <1>6, <2>1
  <2>3. PICK i \in 1..((k + 1) - 1) : Number(sent[i]) = Number(sent[k + 1]) - 1
    BY <1>2, <2>1, <2>2 DEF Leads
  <2>4. i # 1
    BY <1>1, <1>2, <1>6, <2>1, <2>3
  <2>5. i \in 2..N /\ i - 1 \in 1..(k - 1)
    BY <1>1, <2>3, <2>4
  <2> QED
    BY <1>4, <2>1, <2>3, <2>5
<1> QED
  BY <1>1, <1>2, <1>3, <1>5, <1>6 DEF Leads, rest, m

-----------------------------------------------------------------------------
(* What the browser has shown *)

OpenedBy(c) == \E k \in 1..c : journal[k].type = "opening"

\* How many of the first c events the page shows: the opening is in its snapshot.
Place(c) == IF OpenedBy(c) THEN c - 1 ELSE c

Reads(s) ==
    /\ s.cursor \in 0..Len(journal)
    /\ s.shown = [i \in 1..Place(s.cursor) |-> PublicIds[i]]

\* There is one opening, so PublicIds leaves out no more than that.
OneOpening ==
    \A i, k \in DOMAIN journal : journal[i].type = "opening" /\ journal[k].type = "opening" => i = k

LEMMA PublicPlaces ==
    ASSUME journal \in Seq(Entry), OneOpening
    PROVE  /\ Len(PublicIds) = Place(Len(journal)) /\ Len(PublicIds) \in Nat
           /\ PublicIds = [i \in 1..Len(PublicIds) |-> PublicIds[i]]
           /\ \A c \in 0..Len(journal) : Place(c) \in 0..Len(PublicIds)
           /\ \A c, d \in 0..Len(journal) : c <= d => Place(c) <= Place(d)
           /\ \A c \in 1..Len(journal) :
                 IF journal[c].type = "opening" THEN Place(c) = Place(c - 1)
                 ELSE Place(c) = Place(c - 1) + 1 /\ PublicIds[Place(c)] = c
           /\ PublicIds \in Seq(Nat)
<1> DEFINE n == Len(journal)
           opening == CHOOSE i \in DOMAIN journal : journal[i].type = "opening"
<1>1. n \in Nat /\ DOMAIN journal = 1..n
  OBVIOUS
<1>2. CASE Opened
  <2>1. opening \in 1..n /\ journal[opening].type = "opening"
    BY <1>1, <1>2 DEF Opened
  <2>2. PublicIds = [i \in 1..(n - 1) |-> IF i < opening THEN i ELSE i + 1]
    BY <1>2 DEF PublicIds
  <2> HIDE DEF opening
  <2>3. \A k \in 1..n : journal[k].type = "opening" <=> k = opening
    BY <1>1, <2>1 DEF OneOpening
  <2>4. \A c \in 0..n : OpenedBy(c) <=> opening <= c
    <3>1. \A c \in 0..n : \A k \in 1..c : k \in 1..n
      BY <1>1
    <3> QED
      BY <1>1, <2>1, <2>3, <3>1 DEF OpenedBy
  <2>5. \A c \in 0..n : Place(c) = IF opening <= c THEN c - 1 ELSE c
    BY <2>4 DEF Place
  <2>6. Len(PublicIds) = n - 1 /\ n - 1 \in Nat
    BY <1>1, <2>1, <2>2
  <2>7. PublicIds = [i \in 1..(n - 1) |-> PublicIds[i]]
    BY <2>2
  <2>8. PublicIds \in Seq(Nat)
    BY <1>1, <2>1, <2>2, <2>6
  <2>9. ASSUME NEW c \in 1..n, c # opening
        PROVE  Place(c) = Place(c - 1) + 1 /\ PublicIds[Place(c)] = c
    <3>1. c - 1 \in 0..n /\ c \in 0..n
      BY <1>1
    <3>2. CASE opening < c
      <4>1. Place(c) = c - 1 /\ Place(c - 1) = (c - 1) - 1
        BY <1>1, <2>1, <2>5, <3>1, <3>2
      <4>2. c - 1 \in 1..(n - 1) /\ ~(c - 1 < opening)
        BY <1>1, <2>1, <3>2
      <4>3. PublicIds[c - 1] = (c - 1) + 1
        BY <2>2, <4>2
      <4> QED
        BY <4>1, <4>3
    <3>3. CASE c < opening
      <4>1. Place(c) = c /\ Place(c - 1) = c - 1
        BY <1>1, <2>1, <2>5, <3>1, <3>3
      <4>2. c \in 1..(n - 1)
        BY <1>1, <2>1, <3>3
      <4>3. PublicIds[c] = c
        BY <2>2, <3>3, <4>2
      <4> QED
        BY <4>1, <4>3
    <3> QED
      BY <1>1, <2>1, <2>9, <3>2, <3>3
  <2>10. Place(opening) = Place(opening - 1)
    BY <1>1, <2>1, <2>5
  <2>11. \A c \in 0..n : Place(c) \in 0..(n - 1)
    BY <1>1, <2>1, <2>5
  <2>12. \A c, d \in 0..n : c <= d => Place(c) <= Place(d)
    BY <1>1, <2>1, <2>5
  <2>13. Place(n) = n - 1
    BY <1>1, <2>1, <2>5
  <2> QED
    BY <2>3, <2>6, <2>7, <2>8, <2>9, <2>10, <2>11, <2>12, <2>13
<1>3. CASE ~Opened
  <2>1. PublicIds = [i \in 1..n |-> i]
    BY <1>3 DEF PublicIds
  <2>2. \A k \in 1..n : journal[k].type # "opening"
    BY <1>1, <1>3 DEF Opened
  <2>3. \A c \in 0..n : Place(c) = c
    <3>1. \A c \in 0..n : \A k \in 1..c : k \in 1..n
      BY <1>1
    <3> QED
      BY <2>2, <3>1 DEF Place, OpenedBy
  <2>4. Len(PublicIds) = n
    BY <1>1, <2>1
  <2>5. PublicIds \in Seq(Nat)
    BY <1>1, <2>1
  <2>6. \A c \in 1..n : Place(c) = Place(c - 1) + 1 /\ PublicIds[Place(c)] = c
    BY <1>1, <2>1, <2>3
  <2> QED
    BY <1>1, <2>1, <2>2, <2>3, <2>4, <2>5, <2>6
<1> QED
  BY <1>2, <1>3

\* Handling the event after the cursor shows it, unless it is the opening.
LEMMA StepReads ==
    ASSUME journal \in Seq(Entry), OneOpening, NEW s \in Screen, Reads(s),
           NEW e \in TrueEvents, e.id <= s.cursor + 1, NEW replayed \in BOOLEAN
    PROVE  /\ Reads(Step(s, e, replayed))
           /\ Step(s, e, replayed).cursor = IF e.id > s.cursor THEN e.id ELSE s.cursor
<1> DEFINE c == s.cursor
           t == Step(s, e, replayed)
<1>1. /\ c \in 0..Len(journal) /\ Len(journal) \in Nat /\ s.shown = [i \in 1..Place(c) |-> PublicIds[i]]
      /\ e.id \in Nat
  BY DEF Reads, TrueEvents, Event
<1>2. s = [cursor |-> s.cursor, shown |-> s.shown, view |-> s.view]
  BY DEF Screen
<1>3. CASE e.id <= c
  <2>1. t.cursor = c /\ t.shown = s.shown
    <3>1. \A r : Handle(s, e, r).cursor = c /\ Handle(s, e, r).shown = s.shown
      BY <1>3 DEF Handle
    <3>2. ~(e.id > c)
      BY <1>1, <1>3
    <3>3. e.type = "opening" => HandleReplayed(s, e).cursor = c /\ HandleReplayed(s, e).shown = s.shown
      BY <1>2, <3>2 DEF HandleReplayed
    <3> QED
      BY <3>1, <3>3 DEF Step, HandleReplayed
  <2>2. ~(e.id > c)
    BY <1>1, <1>3
  <2> QED
    BY <1>1, <2>1, <2>2 DEF Reads
<1>4. CASE e.id = c + 1
  <2>1. c + 1 \in 1..Len(journal) /\ journal[c + 1].type = e.type /\ e.id # 0 /\ ~(e.id <= c)
    BY <1>1, <1>4 DEF TrueEvents, TruePlace
  <2>2. /\ (c + 1) - 1 = c
        /\ IF e.type = "opening" THEN Place(c + 1) = Place(c)
           ELSE Place(c + 1) = Place(c) + 1 /\ PublicIds[Place(c) + 1] = c + 1
        /\ Place(c) \in Nat
    <3>1. /\ c + 1 \in 1..Len(journal) /\ c \in 0..Len(journal) /\ (c + 1) - 1 = c
          /\ journal[c + 1].type = e.type
      BY <1>1, <2>1
    <3> HIDE DEF c
    <3>2. /\ IF journal[c + 1].type = "opening" THEN Place(c + 1) = Place((c + 1) - 1)
             ELSE Place(c + 1) = Place((c + 1) - 1) + 1 /\ PublicIds[Place(c + 1)] = c + 1
          /\ Place(c) \in 0..Len(PublicIds) /\ Len(PublicIds) \in Nat
      BY <3>1, PublicPlaces
    <3> QED
      BY <3>1, <3>2
  <2>3. t.cursor = c + 1
    BY <1>1, <1>2, <1>4, <2>1 DEF Step, HandleReplayed, Handle
  <2>4. t.shown = [i \in 1..Place(c + 1) |-> PublicIds[i]]
    <3>1. CASE e.type = "opening"
      <4>1. t.shown = s.shown
        BY <1>2, <2>1, <3>1 DEF Step, HandleReplayed, Handle
      <4> QED
        BY <1>1, <2>2, <3>1, <4>1
    <3>2. CASE e.type # "opening"
      <4>1. t.shown = Append(s.shown, e.id)
        BY <1>2, <2>1, <3>2 DEF Step, HandleReplayed, Handle
      <4> DEFINE p == Place(c)
      <4>2. s.shown = [i \in 1..p |-> PublicIds[i]] /\ p \in Nat /\ PublicIds[p + 1] = e.id
        BY <1>1, <1>4, <2>2, <3>2
      <4> HIDE DEF p
      <4>3. Append(s.shown, e.id) = [i \in 1..(p + 1) |-> PublicIds[i]]
        <5>1. Len(s.shown) = p
          BY <4>2
        <5>2. Append(s.shown, e.id) = [i \in 1..(p + 1) |-> IF i = p + 1 THEN e.id ELSE s.shown[i]]
          BY <5>1
        <5>3. \A i \in 1..(p + 1) : i # p + 1 => s.shown[i] = PublicIds[i]
          BY <4>2
        <5> QED
          BY <4>2, <5>2, <5>3
      <4> QED
        BY <2>2, <3>2, <4>1, <4>3 DEF p
    <3> QED
      BY <3>1, <3>2
  <2> QED
    BY <1>1, <1>4, <2>1, <2>3, <2>4 DEF Reads
<1> QED
  BY <1>1, <1>3, <1>4

\* Events without a gap after the cursor, one after another, leave none out.
LEMMA NothingSkipped ==
    ASSUME journal \in Seq(Entry), OneOpening, NEW s \in Screen, Reads(s),
           NEW events, Len(events) \in Nat, NEW replayed \in BOOLEAN,
           \A n \in 1..Len(events) :
              /\ events[n] \in TrueEvents
              /\ \/ events[n].id <= s.cursor + 1
                 \/ n > 1 /\ events[n].id = events[n - 1].id + 1
    PROVE  LET t == HandleAll(s, events, replayed)
           IN  /\ t \in Screen /\ Reads(t) /\ s.cursor <= t.cursor
               /\ \A n \in 1..Len(events) : events[n].id <= t.cursor
<1> DEFINE N == Len(events)
<1>1. \A n \in 1..N : events[n] \in TrueEvents /\ events[n].id \in Nat
  BY DEF TrueEvents, Event
<1>2. PICK after \in [0..N -> Screen] :
         /\ after[0] = s
         /\ \A n \in 1..N : after[n] = Step(after[n - 1], events[n], replayed)
         /\ HandleAll(s, events, replayed) = after[N]
  BY <1>1, AllAreHandled
<1> DEFINE Fine(n) == /\ Reads(after[n]) /\ s.cursor <= after[n].cursor
                      /\ \A m \in 1..n : events[m].id <= after[n].cursor
           fine == {n \in Nat : n \in 0..N => Fine(n)}
<1>3. s.cursor \in Nat
  BY DEF Screen
<1>4. 0 \in fine
  BY <1>2, <1>3
<1>5. ASSUME NEW n \in fine
      PROVE  n + 1 \in fine
  <2>1. CASE n + 1 \in 0..N
    <3>1. n \in 0..N /\ n + 1 \in 1..N /\ (n + 1) - 1 = n /\ n \in Nat
      BY <2>1
    <3>2. /\ after[n + 1] = Step(after[n], events[n + 1], replayed)
          /\ after[n] \in Screen /\ after[n].cursor \in Nat
      BY <1>2, <3>1 DEF Screen
    <3>3. Fine(n)
      BY <1>5, <3>1
    <3>4. events[n + 1].id <= after[n].cursor + 1
      <4>1. events[n + 1].id \in Nat
        BY <1>1, <3>1
      <4>2. CASE events[n + 1].id <= s.cursor + 1
        BY <1>3, <3>2, <3>3, <4>1, <4>2
      <4>3. CASE n + 1 > 1 /\ events[n + 1].id = events[n].id + 1
        <5>1. n \in 1..n
          BY <3>1, <4>3
        <5>2. events[n].id <= after[n].cursor /\ events[n].id \in Nat
          BY <1>1, <3>1, <3>3, <5>1
        <5> QED
          BY <3>2, <4>3, <5>2
      <4>4. \/ events[n + 1].id <= s.cursor + 1
            \/ n + 1 > 1 /\ events[n + 1].id = events[n].id + 1
        BY <3>1
      <4> QED
        BY <4>2, <4>3, <4>4
    <3>5. /\ Reads(after[n + 1])
          /\ after[n + 1].cursor = IF events[n + 1].id > after[n].cursor
                                   THEN events[n + 1].id ELSE after[n].cursor
      BY <1>1, <3>1, <3>2, <3>3, <3>4, StepReads
    <3>6. after[n].cursor <= after[n + 1].cursor /\ events[n + 1].id <= after[n + 1].cursor
          /\ after[n + 1].cursor \in Nat
      BY <1>1, <3>1, <3>2, <3>5
    <3>7. s.cursor <= after[n + 1].cursor
      BY <1>3, <3>2, <3>3, <3>6
    <3>8. ASSUME NEW m \in 1..(n + 1)
          PROVE  events[m].id <= after[n + 1].cursor
      <4>1. CASE m \in 1..n
        <5>1. m \in 1..N /\ events[m].id \in Nat /\ events[m].id <= after[n].cursor
          BY <1>1, <3>1, <3>3, <4>1
        <5> QED
          BY <3>2, <3>6, <5>1
      <4>2. CASE m = n + 1
        BY <3>6, <4>2
      <4> QED
        BY <3>1, <4>1, <4>2
    <3> QED
      BY <3>1, <3>5, <3>7, <3>8
  <2> QED
    BY <2>1
<1>6. fine \in SUBSET Nat
  OBVIOUS
<1> HIDE DEF fine
<1>7. \A n \in Nat : n \in fine
  BY <1>4, <1>5, <1>6, Counting
<1>8. Fine(N)
  BY <1>7 DEF fine
<1> QED
  BY <1>2, <1>8

LEMMA FinishReads ==
    ASSUME PlacesInv, OneOpening, NEW s \in Screen, Reads(s),
           \A i \in DOMAIN held : held[i].id <= s.cursor
    PROVE  Finish(s) \in Screen /\ Reads(Finish(s)) /\ s.cursor <= Finish(s).cursor
<1> DEFINE fresh == [s EXCEPT !.view = ApplySnapshot(@, snapshot)]
<1>1. fresh \in Screen /\ fresh.cursor = s.cursor /\ fresh.shown = s.shown
  BY SnapshotApplied DEF PlacesInv, TypeOK
<1> HIDE DEF fresh
<1>2. Reads(fresh) /\ s.cursor \in Nat
  BY <1>1 DEF Reads, Screen
<1>3. journal \in Seq(Entry) /\ DOMAIN held = 1..Len(held)
  BY DEF PlacesInv, TypeOK, PublicationTypeOK
<1>4. \A n \in 1..Len(held) : held[n] \in TrueEvents /\ held[n].id \in Nat
                              /\ held[n].id <= fresh.cursor
  BY <1>1, <1>3, HeldIsTrue
<1>5. \A n \in 1..Len(held) : held[n].id <= fresh.cursor + 1
  BY <1>1, <1>2, <1>4
<1>6. /\ HandleAll(fresh, held, FALSE) \in Screen /\ Reads(HandleAll(fresh, held, FALSE))
      /\ fresh.cursor <= HandleAll(fresh, held, FALSE).cursor
  BY <1>1, <1>2, <1>3, <1>4, <1>5, HeldIsTrue, NothingSkipped
<1> QED
  BY <1>1, <1>6 DEF Finish, fresh

LEMMA PageIsTrue ==
    ASSUME journal \in Seq(Entry), NEW page, page.after \in Nat, page.upto \in Nat,
           page.after <= page.upto, page.upto <= Len(journal),
           NEW n \in 1..(page.upto - page.after)
    PROVE  PageEvents(page)[n] \in TrueEvents
<1> DEFINE N == page.upto - page.after
           events == PageEvents(page)
<1>1. /\ Len(journal) \in Nat /\ N \in Nat /\ events[n].id = page.after + n
  BY PageLength
<1>2. page.after + n \in 1..Len(journal) /\ DOMAIN journal = 1..Len(journal)
  BY <1>1
<1>3. journal[page.after + n] \in Entry
  BY <1>2
<1>4. events[n] = [type |-> journal[page.after + n].type,
                   round |-> journal[page.after + n].round, id |-> page.after + n]
  BY DEF PageEvents
<1>5. events[n] \in Event /\ events[n].id = page.after + n
      /\ events[n].type = journal[page.after + n].type
  BY <1>2, <1>3, <1>4 DEF Entry, Event
<1>6. events[n] \in TrueEvents
  <2> HIDE DEF events, N
  <2> QED
    BY <1>2, <1>5 DEF TrueEvents, TruePlace
<1> QED
  BY <1>6

LEMMA PageReads ==
    ASSUME journal \in Seq(Entry), OneOpening, NEW s \in Screen, Reads(s),
           NEW page, page.after \in Nat, page.upto \in Nat, page.after <= page.upto,
           page.upto <= Len(journal), page.after <= s.cursor
    PROVE  LET t == HandlePage(s, page)
           IN  t \in Screen /\ Reads(t) /\ s.cursor <= t.cursor /\ page.upto <= t.cursor
<1> DEFINE N == page.upto - page.after
           events == PageEvents(page)
           t == HandlePage(s, page)
<1>1. /\ Len(events) = N /\ N \in Nat /\ Len(journal) \in Nat /\ s.cursor \in Nat
      /\ \A n \in 1..N : events[n].id = page.after + n
  BY PageLength DEF Screen
<1>2. ASSUME NEW n \in 1..N
      PROVE  events[n] \in TrueEvents
  BY <1>1, <1>2, PageIsTrue
<1>3. ASSUME NEW n \in 1..N
      PROVE  \/ events[n].id <= s.cursor + 1
             \/ n > 1 /\ events[n].id = events[n - 1].id + 1
  <2>1. CASE n = 1
    BY <1>1, <2>1
  <2>2. CASE n > 1
    <3>1. n - 1 \in 1..N
      BY <1>1, <2>2
    <3>2. events[n].id = page.after + n /\ events[n - 1].id = page.after + (n - 1)
      BY <1>1, <3>1
    <3> QED
      BY <2>2, <3>2
  <2> QED
    BY <1>1, <2>1, <2>2
<1>4. t = HandleAll(s, events, TRUE)
  BY DEF HandlePage, PageEvents
<1> HIDE DEF events, t
<1>5. /\ t \in Screen /\ Reads(t) /\ s.cursor <= t.cursor
      /\ \A n \in 1..N : events[n].id <= t.cursor
  <2> HIDE DEF N
  <2> QED
    BY <1>1, <1>2, <1>3, <1>4, NothingSkipped
<1>6. page.upto <= t.cursor
  <2>1. t.cursor \in Nat
    BY <1>5 DEF Screen
  <2>2. CASE N = 0
    BY <1>1, <1>5, <2>1, <2>2
  <2>3. CASE N # 0
    BY <1>1, <1>5, <2>1, <2>3
  <2> QED
    BY <2>2, <2>3
<1> QED
  BY <1>5, <1>6 DEF t

-----------------------------------------------------------------------------
(* The log only grows *)

OpeningRounds ==
    /\ \A k \in DOMAIN journal : journal[k].type = "opening" => journal[k].round = 0
    /\ \A i \in DOMAIN pendingDelivery :
          pendingDelivery[i].type = "opening" => pendingDelivery[i].round = 0

\* The same of the journal: openings are alike, and RecordedOnce allows one of them.
LEMMA Alike ==
    ASSUME NEW x \in Entry, NEW y \in Entry, x.type = "opening", y.type = "opening",
           x.round = 0, y.round = 0
    PROVE  x = y
BY DEF Entry

LEMMA OpenedOnce ==
    ASSUME RecordTypes, RecordedOnce, OpeningRounds
    PROVE  OneOpening
<1>1. \A k \in DOMAIN journal : journal[k] \in Entry
  BY DEF RecordTypes
<1>2. \A i, k \in DOMAIN journal :
          journal[i].type = "opening" /\ journal[k].type = "opening" => journal[i] = journal[k]
  BY <1>1, Alike DEF OpeningRounds
<1>3. \A i \in DOMAIN journal : journal[i].type = "opening" => i \in Committed
  BY DEF Committed
<1> QED
  BY <1>2, <1>3 DEF RecordedOnce, OneOpening

LEMMA OpenedOnceNext ==
    ASSUME RecordTypes', RecordedOnce', OpeningRounds'
    PROVE  OneOpening'
<1>1. \A k \in DOMAIN journal' : journal'[k] \in Entry
  BY DEF RecordTypes
<1>2. \A i, k \in DOMAIN journal' :
          journal'[i].type = "opening" /\ journal'[k].type = "opening" => journal'[i] = journal'[k]
  BY <1>1, Alike DEF OpeningRounds
<1>3. \A i \in DOMAIN journal' : journal'[i].type = "opening" => i \in Committed'
  BY DEF Committed
<1> QED
  BY <1>2, <1>3 DEF RecordedOnce, OneOpening

\* Steps that record nothing but what waits or has no opening.
LEMMA OpeningsKept ==
    ASSUME RecordInv, OpeningRounds,
           \/ journal' = journal
           \/ \E entry \in Entry : /\ journal' = Append(journal, entry)
                                   /\ entry.type = "opening" => entry.round = 0,
           \A i \in DOMAIN pendingDelivery' :
              \/ \E k \in DOMAIN pendingDelivery : /\ pendingDelivery'[i].type = pendingDelivery[k].type
                                                   /\ pendingDelivery'[i].round = pendingDelivery[k].round
              \/ pendingDelivery'[i].type = "opening" => pendingDelivery'[i].round = 0
    PROVE  OpeningRounds'
<1>1. \A i \in DOMAIN pendingDelivery' :
          pendingDelivery'[i].type = "opening" => pendingDelivery'[i].round = 0
  BY DEF OpeningRounds
<1>2. CASE journal' = journal
  BY <1>1, <1>2 DEF OpeningRounds
<1>3. ASSUME NEW entry \in Entry, journal' = Append(journal, entry),
             entry.type = "opening" => entry.round = 0
      PROVE  OpeningRounds'
  <2>1. /\ DOMAIN journal' = 1..(Len(journal) + 1) /\ Len(journal) \in Nat
        /\ DOMAIN journal = 1..Len(journal)
        /\ \A k \in 1..Len(journal) : journal'[k] = journal[k]
        /\ journal'[Len(journal) + 1] = entry
    BY <1>3, JournalGrows, QueueLengths
  <2>2. ASSUME NEW k \in 1..(Len(journal) + 1), journal'[k].type = "opening"
        PROVE  journal'[k].round = 0
    <3>1. CASE k \in 1..Len(journal)
      BY <2>1, <2>2, <3>1 DEF OpeningRounds
    <3>2. CASE k = Len(journal) + 1
      BY <1>3, <2>1, <2>2, <3>2
    <3> QED
      BY <2>1, <3>1, <3>2
  <2> QED
    BY <1>1, <2>1, <2>2 DEF OpeningRounds
<1> QED
  BY <1>2, <1>3

LEMMA PublishOpenings ==
    ASSUME NEW by, NEW e \in Event, Publish(by, e), e.type = "opening" => e.round = 0
    PROVE  \/ journal' = journal
           \/ \E entry \in Entry : /\ journal' = Append(journal, entry)
                                   /\ entry.type = "opening" => entry.round = 0
<1>1. CASE IsNew(e)
  <2> DEFINE entry == [type |-> e.type, round |-> e.round]
  <2>1. entry \in Entry /\ entry.type = e.type /\ entry.round = e.round
    BY <1>1 DEF IsNew, Entry, Event
  <2>2. journal' = Append(journal, entry)
    BY <1>1 DEF Publish
  <2> HIDE DEF entry
  <2> QED
    BY <2>1, <2>2
<1>2. CASE ~IsNew(e)
  BY <1>2 DEF Publish
<1> QED
  BY <1>1, <1>2

LEMMA StepOpenings ==
    ASSUME RecordInv, OpeningRounds, [Next]_vars
    PROVE  OpeningRounds'
<1>1. CASE UNCHANGED <<journal, pendingDelivery>>
  BY <1>1 DEF OpeningRounds
<1>2. CASE Deliver
  <2> DEFINE e == pendingDelivery[1]
  <2>1. /\ pendingDelivery # <<>> /\ Head(pendingDelivery) = e /\ 1 \in DOMAIN pendingDelivery
        /\ DOMAIN pendingDelivery = 1..Len(pendingDelivery)
        /\ e \in Event
    BY <1>2 DEF Deliver, Delivering, RecordInv, RecordTypes
  <2>2. /\ Publish("delivery", e)
        /\ pendingDelivery' = [pendingDelivery EXCEPT ![1] = Recorded(e)]
    BY <1>2, <2>1 DEF Deliver, Stamped
  <2>3. e.type = "opening" => e.round = 0
    BY <2>1 DEF OpeningRounds
  <2>4. Recorded(e).type = e.type /\ Recorded(e).round = e.round
    BY <2>1 DEF Recorded, Event
  <2> HIDE DEF e
  <2>5. \/ journal' = journal
        \/ \E entry \in Entry : /\ journal' = Append(journal, entry)
                                /\ entry.type = "opening" => entry.round = 0
    BY <2>1, <2>2, <2>3, PublishOpenings
  <2>6. \A i \in DOMAIN pendingDelivery' :
           /\ i \in DOMAIN pendingDelivery
           /\ pendingDelivery'[i] = IF i = 1 THEN Recorded(e) ELSE pendingDelivery[i]
    BY <2>2
  <2>7. \A i \in DOMAIN pendingDelivery' :
           \E k \in DOMAIN pendingDelivery : /\ pendingDelivery'[i].type = pendingDelivery[k].type
                                             /\ pendingDelivery'[i].round = pendingDelivery[k].round
    BY <2>4, <2>6 DEF e
  <2> QED
    BY <2>5, <2>7, OpeningsKept
<1>3. CASE SendNotice
  <2>1. Publish("notice", Head(notices)) /\ pendingDelivery' = pendingDelivery
    BY <1>3 DEF SendNotice
  <2>2. Head(notices) \in Event /\ Head(notices).type # "opening"
    <3>1. notices # <<>>
      BY <1>3 DEF SendNotice
    <3>2. 1 \in DOMAIN notices /\ Head(notices) = notices[1] /\ notices[1] \in Event
      BY <3>1 DEF RecordInv, RecordTypes
    <3> QED
      BY <3>2 DEF RecordInv, QueuesAreSorted, OtherTypes
  <2> QED
    BY <2>1, <2>2, PublishOpenings, OpeningsKept
<1>4. CASE SendChat
  <2>1. /\ Publish("chat", Said("chat", 0)) /\ pendingDelivery' = pendingDelivery
        /\ Said("chat", 0) \in Event /\ Said("chat", 0).type = "chat"
    BY <1>4 DEF SendChat, game, Said, Event, PublicTypes
  <2> QED
    BY <2>1, PublishOpenings, OpeningsKept
<1>5. CASE Delivered \/ SkipPassed
  <2>1. journal' = journal /\ pendingDelivery' = Tail(pendingDelivery)
    BY <1>5 DEF Delivered, SkipPassed, Published, PopDelivered, record
  <2>2. pendingDelivery # <<>>
    BY <1>5 DEF Delivered, SkipPassed, Published, Delivering, RecordInv, DeliversSomething
  <2>3. \A i \in DOMAIN Tail(pendingDelivery) :
           i + 1 \in DOMAIN pendingDelivery /\ Tail(pendingDelivery)[i] = pendingDelivery[i + 1]
    BY <2>2 DEF RecordInv, RecordTypes
  <2> QED
    BY <2>1, <2>3, OpeningsKept
<1>6. ASSUME NEW first \in {"opening", "outcome"}, NEW n, Commit(first, n),
             first = "opening" => n = 0
      PROVE  OpeningRounds'
  <2> DEFINE a == Said(first, n)
             b == Said("round_start", n + 1)
             c == Said("directive", 0)
             m == Len(pendingDelivery)
  <2>1. journal' = journal /\ pendingDelivery' = pendingDelivery \o <<a, b, c>>
    BY <1>6 DEF Commit, record
  <2>2. \A e \in {a, b, c} : e.type = "opening" => e.round = 0
    BY <1>6 DEF Said
  <2> HIDE DEF a, b, c
  <2>3. /\ m \in Nat /\ DOMAIN pendingDelivery = 1..m
        /\ DOMAIN (pendingDelivery \o <<a, b, c>>) = 1..(m + 3)
        /\ \A i \in 1..m : (pendingDelivery \o <<a, b, c>>)[i] = pendingDelivery[i]
        /\ \A i \in (m + 1)..(m + 3) : (pendingDelivery \o <<a, b, c>>)[i] \in {a, b, c}
    <3>1. pendingDelivery \in Seq(Event)
      BY DEF RecordInv, RecordTypes
    <3> QED
      BY <3>1
  <2>4. \A i \in DOMAIN pendingDelivery' :
           \/ i \in DOMAIN pendingDelivery /\ pendingDelivery'[i] = pendingDelivery[i]
           \/ pendingDelivery'[i] \in {a, b, c}
    BY <2>1, <2>3
  <2> QED
    BY <2>1, <2>2, <2>4, OpeningsKept
<1>7. CASE OpenGame \/ CommitRound
  BY <1>6, <1>7 DEF OpenGame, CommitRound
<1> QED
  BY <1>1, <1>2, <1>3, <1>4, <1>5, <1>7
     DEF Next, vars, game, record, Elsewhere, PublicationNext, Deliveries, Notices, Game,
         DeadlineBetween, DeadlineInside, DeliveryCut, Recover, LeaveDelivery, Published,
         NoticeSent, ChatSent, StartGame, LaunchRound, PauseRound, RetryRound, BeginEnd,
         FinishEnd, Server, Authenticate, LoseSocket, AnswerPage, RefusePage, Answer,
         Browser, Receive, ReceiveAuth, ReceivePage, ReceiveRefusal, ShowEvent, HoldEvent,
         HoldTooMany, StartClosing, AskAgain, GiveUp, NoticeClose, Closed

LEMMA PublicGrows ==
    ASSUME journal \in Seq(Entry), Grows, OneOpening, OneOpening'
    PROVE  /\ \/ PublicIds' = PublicIds
              \/ Len(PublicIds') = Len(PublicIds) + 1
           /\ \A i \in 1..Len(PublicIds) : PublicIds'[i] = PublicIds[i]
           /\ \A c \in 0..Len(journal) : Place(c)' = Place(c)
           /\ journal' = journal => PublicIds' = PublicIds
<1> DEFINE n == Len(journal)
           o == CHOOSE i \in DOMAIN journal : journal[i].type = "opening"
           p == CHOOSE i \in DOMAIN journal' : journal'[i].type = "opening"
<1>1. n \in Nat /\ DOMAIN journal = 1..n
  OBVIOUS
<1>2. \A c \in 0..n : Place(c)' = Place(c)
  <2>1. ASSUME NEW c \in 0..n
        PROVE  OpenedBy(c)' = OpenedBy(c)
    <3>1. \A k \in 1..c : journal'[k] = journal[k]
      BY <1>1, PlacesStay
    <3> QED
      BY <3>1 DEF OpenedBy
  <2> QED
    BY <2>1 DEF Place
<1>3. CASE journal' = journal
  <2>1. PublicIds' = PublicIds
    BY <1>3 DEF PublicIds, Opened
  <2> QED
    BY <1>2, <2>1
<1>4. ASSUME NEW entry \in Entry, journal' = Append(journal, entry)
      PROVE  /\ \/ PublicIds' = PublicIds
                \/ Len(PublicIds') = Len(PublicIds) + 1
             /\ \A i \in 1..Len(PublicIds) : PublicIds'[i] = PublicIds[i]
  <2>1. /\ Len(journal') = n + 1 /\ DOMAIN journal' = 1..(n + 1)
        /\ \A k \in 1..n : journal'[k] = journal[k]
        /\ journal'[n + 1] = entry
    BY <1>4
  <2>2. CASE Opened
    <3>1. o \in 1..n /\ journal[o].type = "opening"
      BY <1>1, <2>2 DEF Opened
    <3>2. PublicIds = [i \in 1..(n - 1) |-> IF i < o THEN i ELSE i + 1]
      BY <2>2 DEF PublicIds
    <3>3. Opened'
      BY <2>1, <3>1 DEF Opened
    <3>4. p \in 1..(n + 1) /\ journal'[p].type = "opening"
      BY <2>1, <3>3 DEF Opened
    <3>5. PublicIds' = [i \in 1..(Len(journal') - 1) |-> IF i < p THEN i ELSE i + 1]
      BY <3>3 DEF PublicIds
    <3> HIDE DEF o, p
    <3>6. p = o
      BY <2>1, <3>1, <3>4 DEF OneOpening
    <3>7. Len(journal') - 1 = n
      BY <1>1, <2>1
    <3>8. PublicIds' = [i \in 1..n |-> IF i < o THEN i ELSE i + 1]
      BY <3>5, <3>6, <3>7
    <3>9. Len(PublicIds) = n - 1 /\ Len(PublicIds') = (n - 1) + 1 /\ n - 1 \in Nat
      BY <1>1, <3>1, <3>2, <3>8
    <3>10. \A i \in 1..(n - 1) : i \in 1..n
      BY <1>1
    <3>11. \A i \in 1..(n - 1) : PublicIds'[i] = PublicIds[i]
      BY <3>2, <3>8, <3>10
    <3> QED
      BY <3>9, <3>11
  <2>3. CASE ~Opened /\ entry.type = "opening"
    <3>1. PublicIds = [i \in 1..n |-> i]
      BY <2>3 DEF PublicIds
    <3>2. Opened'
      BY <1>1, <2>1, <2>3 DEF Opened
    <3>3. p \in 1..(n + 1) /\ journal'[p].type = "opening"
      BY <2>1, <3>2 DEF Opened
    <3>4. PublicIds' = [i \in 1..(Len(journal') - 1) |-> IF i < p THEN i ELSE i + 1]
      BY <3>2 DEF PublicIds
    <3> HIDE DEF p
    <3>5. p = n + 1
      BY <1>1, <2>1, <2>3, <3>3 DEF Opened
    <3>6. Len(journal') - 1 = n /\ \A i \in 1..n : i < p
      BY <1>1, <2>1, <3>5
    <3>7. PublicIds' = PublicIds
      BY <3>1, <3>4, <3>6
    <3> QED
      BY <3>7
  <2>4. CASE ~Opened /\ entry.type # "opening"
    <3>1. ~Opened'
      BY <1>1, <2>1, <2>4 DEF Opened
    <3>2. PublicIds = [i \in 1..n |-> i] /\ PublicIds' = [i \in 1..Len(journal') |-> i]
      BY <2>4, <3>1 DEF PublicIds
    <3>3. Len(PublicIds) = n /\ Len(PublicIds') = n + 1
      BY <1>1, <2>1, <3>2
    <3>4. \A i \in 1..n : i \in 1..(n + 1)
      BY <1>1
    <3> QED
      BY <2>1, <3>2, <3>3, <3>4
  <2> QED
    BY <2>2, <2>3, <2>4
<1> HIDE DEF n, o, p
<1> QED
  BY <1>2, <1>3, <1>4 DEF Grows, n

\* What is recorded does not change what has been shown.
LEMMA ShownStays ==
    ASSUME journal \in Seq(Entry), Grows, OneOpening, OneOpening', Reads(screen),
           UNCHANGED screen
    PROVE  Reads(screen)'
<1>1. /\ screen.cursor \in 0..Len(journal)
      /\ screen.shown = [i \in 1..Place(screen.cursor) |-> PublicIds[i]]
  BY DEF Reads
<1> DEFINE c == screen.cursor
<1>2. /\ Place(c)' = Place(c) /\ Place(c) \in 0..Len(PublicIds) /\ Len(PublicIds) \in Nat
      /\ \A i \in 1..Len(PublicIds) : PublicIds'[i] = PublicIds[i]
      /\ Len(journal) \in Nat /\ Len(journal') \in Nat /\ Len(journal) <= Len(journal')
  <2>1. c \in 0..Len(journal) /\ c' = c
    BY <1>1
  <2>2. \A d \in 0..Len(journal) : Place(d)' = Place(d)
    BY PublicGrows
  <2>3. Place(c)' = Place(c)
    BY <2>1, <2>2 DEF Place, OpenedBy
  <2> QED
    BY <2>1, <2>3, PublicGrows, PublicPlaces, PlacesStay
<1>3. screen'.cursor \in 0..Len(journal')
  BY <1>1, <1>2
<1>4. screen'.shown = [i \in 1..Place(c)' |-> PublicIds'[i]]
  BY <1>1, <1>2
<1> QED
  BY <1>3, <1>4 DEF Reads

LEMMA ReadsStay ==
    ASSUME journal' = journal, NEW s
    PROVE  OneOpening' = OneOpening /\ PublicIds' = PublicIds
           /\ (\A c : Place(c)' = Place(c))
           /\ (screen' = s => Reads(screen)' = Reads(s))
<1>1. OneOpening' = OneOpening /\ PublicIds' = PublicIds
  BY DEF OneOpening, PublicIds, Opened
<1>2. \A c : Place(c)' = Place(c)
  BY DEF Place, OpenedBy
<1>3. screen' = s => Reads(screen)' = Reads(s)
  BY <1>1 DEF Reads, Place, OpenedBy
<1> QED
  BY <1>1, <1>2, <1>3

-----------------------------------------------------------------------------
(* Nothing is missing between the page and what comes to it *)

FinalPage(m) == m.type = "journal_page" /\ ~m.more

\* A page that is not catching up has everything but what its socket brings.
LiveLeads == conn = "live" /\ attached /\ ~replaying =>
                 Leads(stream, 0, screen.cursor, Len(journal))

\* What follows a snapshot or the last page of a replay continues it.
SnapshotsLead == \A j \in DOMAIN stream : stream[j].type = "auth_ok" =>
                     Leads(stream, j, stream[j].latest, Len(journal))
PagesLead == \A j \in DOMAIN stream : FinalPage(stream[j]) =>
    /\ Leads(stream, j, stream[j].upto, Len(journal))
    /\ \A i \in 1..(j - 1) : Number(stream[i]) <= stream[j].upto
    /\ \A i \in DOMAIN held : held[i].id <= stream[j].upto

\* A page of the journal starts no later than where the browser stands.
PagesFit == \A j \in DOMAIN stream : stream[j].type = "journal_page" =>
                stream[j].after <= screen.cursor
RequestsFit ==
    /\ \A i \in DOMAIN upstream : upstream[i] <= screen.cursor
    /\ request.after <= screen.cursor

SocketInv ==
    /\ ~attached => stream = <<>>
    /\ conn = "open" /\ attached => stream # <<>> /\ stream[1].type = "auth_ok"

ReadInv ==
    /\ SocketInv /\ LiveLeads /\ SnapshotsLead /\ PagesLead /\ PagesFit /\ RequestsFit
    /\ Reads(screen)

LEMMA NumberBound ==
    ASSUME NEW m \in TrueMessages, Len(journal) \in Nat
    PROVE  Number(m) \in 0..Len(journal)
<1>1. CASE m.type \in GameEvents
  <2>1. m \in TrueEvents
    BY <1>1, KindsOfMessages
  <2> QED
    BY <1>1, <2>1 DEF Number, TrueEvents, TruePlace, Event
<1>2. CASE m.type \notin GameEvents
  BY <1>2 DEF Number
<1> QED
  BY <1>1, <1>2

LEMMA StreamKinds ==
    ASSUME PlacesInv
    PROVE  /\ stream \in Seq(TrueMessages) /\ DOMAIN stream = 1..Len(stream) /\ Len(stream) \in Nat
           /\ journal \in Seq(Entry) /\ Len(journal) \in Nat
           /\ screen \in Screen /\ screen.cursor \in 0..Len(journal)
           /\ \A j \in DOMAIN stream :
                 /\ stream[j] \in TrueMessages /\ Number(stream[j]) \in 0..Len(journal)
                 /\ stream[j].type = "auth_ok" => stream[j].latest \in 0..Len(journal)
                 /\ stream[j].type = "journal_page" =>
                       /\ stream[j].after \in Nat /\ stream[j].upto \in 0..Len(journal)
                       /\ stream[j].after <= stream[j].upto /\ stream[j].more \in BOOLEAN
<1>1. /\ stream \in Seq(TrueMessages) /\ journal \in Seq(Entry) /\ Len(journal) \in Nat
      /\ screen \in Screen /\ screen.cursor <= Len(journal)
  BY DEF PlacesInv, TypeOK, PublicationTypeOK
<1>2. screen.cursor \in 0..Len(journal)
  BY <1>1 DEF Screen
<1>3. ASSUME NEW j \in DOMAIN stream
      PROVE  /\ stream[j] \in TrueMessages /\ Number(stream[j]) \in 0..Len(journal)
             /\ stream[j].type = "auth_ok" => stream[j].latest \in 0..Len(journal)
             /\ stream[j].type = "journal_page" =>
                   /\ stream[j].after \in Nat /\ stream[j].upto \in 0..Len(journal)
                   /\ stream[j].after <= stream[j].upto /\ stream[j].more \in BOOLEAN
  <2> DEFINE m == stream[j]
  <2>1. m \in TrueMessages
    BY <1>1
  <2> HIDE DEF m
  <2>2. Number(m) \in 0..Len(journal)
    BY <1>1, <2>1, NumberBound
  <2> QED
    BY <1>1, <2>1, <2>2, KindsOfMessages DEF m
<1> QED
  BY <1>1, <1>2, <1>3

\* The socket takes one more message.
LEMMA StreamGrows ==
    ASSUME PlacesInv, ReadInv, attached, NEW m, stream' = Append(stream, m), attached',
           NEW total \in {Len(journal), Len(journal) + 1}, Len(journal') = total,
           Number(m) \in 0..total, total = Len(journal) + 1 => Number(m) = total,
           UNCHANGED <<conn, screen, replaying, held, request>>,
           m.type # "auth_ok",
           m.type = "journal_page" => m.after <= screen.cursor,
           FinalPage(m) => m.upto = total,
           \A i \in DOMAIN upstream' : upstream'[i] <= screen.cursor,
           \A i \in DOMAIN held : held[i].id <= total,
           Reads(screen)'
    PROVE  ReadInv'
<1> DEFINE N == Len(stream)
           M == TrueMessages \cup {m}
<1>1. /\ N \in Nat /\ DOMAIN stream = 1..N /\ Len(journal) \in Nat /\ stream \in Seq(M)
      /\ Len(stream') = N + 1 /\ DOMAIN stream' = 1..(N + 1)
      /\ \A j \in 1..N : stream'[j] = stream[j]
      /\ stream'[N + 1] = m /\ m \in M /\ screen.cursor \in 0..Len(journal)
  <2>1. stream \in Seq(TrueMessages) /\ TrueMessages \subseteq M /\ m \in M
    BY StreamKinds
  <2> HIDE DEF M
  <2>2. stream \in Seq(M)
    BY <2>1, SeqMonotonic
  <2> QED
    BY <2>1, <2>2, StreamKinds
<1> HIDE DEF M
<1>2. ASSUME NEW j \in 0..N, NEW from \in 0..Len(journal), Leads(stream, j, from, Len(journal))
      PROVE  Leads(stream', j, from, Len(journal'))
  <2>1. from \in Nat /\ from <= Len(journal) /\ total \in {Len(journal), Len(journal) + 1}
        /\ Number(m) \in Nat /\ Number(m) <= total
    BY <1>1
  <2>2. Leads(Append(stream, m), j, from, total)
    BY <1>1, <1>2, <2>1, LeadsFurther
  <2> QED
    BY <2>2
<1>3. SocketInv'
  BY <1>1 DEF ReadInv, SocketInv
<1>4. LiveLeads'
  BY <1>1, <1>2 DEF ReadInv, LiveLeads
<1>5. SnapshotsLead'
  <2>1. ASSUME NEW j \in 1..(N + 1), stream'[j].type = "auth_ok"
        PROVE  Leads(stream', j, stream'[j].latest, Len(journal'))
    <3>1. j \in 1..N
      BY <1>1, <2>1
    <3>2. stream'[j] = stream[j] /\ stream[j].latest \in 0..Len(journal) /\ j \in 0..N
      BY <1>1, <2>1, <3>1, StreamKinds
    <3>3. Leads(stream, j, stream[j].latest, Len(journal))
      BY <1>1, <2>1, <3>1, <3>2 DEF ReadInv, SnapshotsLead
    <3> QED
      BY <1>2, <3>2, <3>3
  <2> QED
    BY <1>1, <2>1 DEF SnapshotsLead
<1>6. PagesLead'
  <2>1. ASSUME NEW j \in 1..N, FinalPage(stream[j])
        PROVE  /\ Leads(stream', j, stream[j].upto, Len(journal'))
               /\ \A i \in 1..(j - 1) : Number(stream'[i]) <= stream[j].upto
               /\ \A i \in DOMAIN held : held[i].id <= stream[j].upto
    <3>1. stream[j].upto \in 0..Len(journal) /\ j \in 0..N
      BY <1>1, <2>1, StreamKinds DEF FinalPage
    <3>2. /\ Leads(stream, j, stream[j].upto, Len(journal))
          /\ \A i \in 1..(j - 1) : Number(stream[i]) <= stream[j].upto
          /\ \A i \in DOMAIN held : held[i].id <= stream[j].upto
      BY <1>1, <2>1 DEF ReadInv, PagesLead
    <3>3. \A i \in 1..(j - 1) : stream'[i] = stream[i]
      BY <1>1
    <3> QED
      BY <1>2, <3>1, <3>2, <3>3
  <2>2. ASSUME FinalPage(m)
        PROVE  /\ Leads(stream', N + 1, total, Len(journal'))
               /\ \A i \in 1..N : Number(stream'[i]) <= total
               /\ \A i \in DOMAIN held : held[i].id <= total
    <3>1. stream' \in Seq(M) /\ total \in Nat
      BY <1>1
    <3>2. Leads(stream', N + 1, total, total)
      BY <1>1, <3>1, LeadsNowhere
    <3>3. \A i \in 1..N : Number(stream'[i]) <= total
      <4>1. \A i \in 1..N : Number(stream[i]) \in 0..Len(journal)
        BY <1>1, StreamKinds
      <4> QED
        BY <1>1, <4>1
    <3> QED
      BY <3>2, <3>3
  <2>3. ASSUME NEW j \in 1..(N + 1), FinalPage(stream'[j])
        PROVE  /\ Leads(stream', j, stream'[j].upto, Len(journal'))
               /\ \A i \in 1..(j - 1) : Number(stream'[i]) <= stream'[j].upto
               /\ \A i \in DOMAIN held' : held'[i].id <= stream'[j].upto
    <3>1. CASE j \in 1..N
      BY <1>1, <2>1, <2>3, <3>1
    <3>2. CASE j = N + 1
      <4>1. FinalPage(m) /\ stream'[j] = m /\ m.upto = total /\ j - 1 = N
        BY <1>1, <2>3, <3>2
      <4> QED
        BY <2>2, <3>2, <4>1
    <3> QED
      BY <1>1, <3>1, <3>2
  <2> QED
    BY <1>1, <2>3 DEF PagesLead, FinalPage
<1>7. PagesFit'
  BY <1>1 DEF ReadInv, PagesFit
<1>8. RequestsFit'
  BY DEF ReadInv, RequestsFit
<1> QED
  BY <1>3, <1>4, <1>5, <1>6, <1>7, <1>8 DEF ReadInv

\* A socket that is gone brings nothing.
LEMMA StreamGone ==
    ASSUME ReadInv, stream' = <<>>, conn' = "open" => ~attached', conn' = "live" => ~attached',
           screen.cursor = screen'.cursor, Reads(screen)',
           UNCHANGED upstream, request'.after \in {0, request.after}, screen.cursor \in Nat
    PROVE  ReadInv'
<1>1. DOMAIN stream' = {}
  OBVIOUS
<1>2. SocketInv' /\ LiveLeads' /\ SnapshotsLead' /\ PagesLead' /\ PagesFit'
  BY <1>1 DEF SocketInv, LiveLeads, SnapshotsLead, PagesLead, PagesFit
<1>3. RequestsFit'
  BY DEF ReadInv, RequestsFit
<1> QED
  BY <1>2, <1>3 DEF ReadInv

\* A message to the socket brings what its step recorded, or nothing new.
Brings(m) ==
    \E total \in {Len(journal), Len(journal) + 1} :
        /\ Len(journal') = total /\ Number(m) \in 0..total
        /\ total = Len(journal) + 1 => Number(m) = total

LEMMA PublishBrings ==
    ASSUME PlacesInv, NEW by, NEW e \in TrueEvents, Publish(by, e)
    PROVE  /\ Enqueue(Recorded(e)) /\ Recorded(e) \in Event /\ Brings(Recorded(e))
<1>1. /\ journal \in Seq(Entry) /\ Len(journal) \in Nat /\ e \in Event /\ e.id \in 0..Len(journal)
  BY DEF PlacesInv, TypeOK, PublicationTypeOK, TrueEvents, TruePlace, Event
<1>2. Enqueue(Recorded(e))
  BY DEF Publish
<1>3. CASE IsNew(e)
  <2>1. Recorded(e) \in Event /\ Recorded(e).id = Len(journal) + 1
    BY <1>1, <1>3 DEF Recorded, Event
  <2>2. Number(Recorded(e)) = Len(journal) + 1
    BY <2>1 DEF Number, Event, GameEvents
  <2>3. [type |-> e.type, round |-> e.round] \in Entry
    BY <1>1, <1>3 DEF IsNew, Entry, Event
  <2>4. journal' = Append(journal, [type |-> e.type, round |-> e.round])
    BY <1>3 DEF Publish
  <2>5. Len(journal') = Len(journal) + 1
    BY <1>1, <2>3, <2>4
  <2> QED
    BY <1>1, <1>2, <2>1, <2>2, <2>5 DEF Brings
<1>4. CASE ~IsNew(e)
  <2>1. Recorded(e) = e /\ journal' = journal
    BY <1>4 DEF Recorded, Publish
  <2>2. Number(e) = e.id
    BY <1>1 DEF Number, Event, GameEvents
  <2> QED
    BY <1>1, <1>2, <2>1, <2>2 DEF Brings
<1> QED
  BY <1>3, <1>4

LEMMA ElsewhereBrings ==
    ASSUME PlacesInv, RecordInv, Elsewhere
    PROVE  UNCHANGED <<journal, socket>> \/ \E m \in Event : Enqueue(m) /\ Brings(m)
<1>1. CASE Deliver
  <2> DEFINE e == pendingDelivery[1]
  <2>1. Publish("delivery", e) /\ e \in TrueEvents
    BY <1>1 DEF Deliver, Delivering, PlacesInv
  <2> HIDE DEF e
  <2> QED
    BY <2>1, PublishBrings
<1>2. CASE SendNotice
  <2> DEFINE e == Head(notices)
  <2>1. Publish("notice", e)
    BY <1>2 DEF SendNotice
  <2>2. e \in Event /\ e.id = 0
    BY <1>2 DEF SendNotice, RecordInv, RecordTypes, QueuesAreSorted
  <2>3. e \in TrueEvents
    BY <2>2 DEF TrueEvents, TruePlace
  <2> HIDE DEF e
  <2> QED
    BY <2>1, <2>3, PublishBrings
<1>3. CASE SendChat
  <2>1. Publish("chat", Said("chat", 0))
    BY <1>3 DEF SendChat
  <2>2. Said("chat", 0) \in TrueEvents
    BY SaidIsTrue DEF PublicTypes
  <2> QED
    BY <2>1, <2>2, PublishBrings
<1>4. CASE DeadlineInside
  <2>1. journal' = journal /\ (UNCHANGED socket \/ Enqueue(publishing.event))
    BY <1>4 DEF DeadlineInside
  <2>2. /\ publishing.event \in TrueEvents /\ journal \in Seq(Entry)
    BY DEF PlacesInv, TypeOK, PublicationTypeOK
  <2>3. /\ publishing.event \in Event /\ publishing.event.id \in 0..Len(journal)
        /\ Len(journal) \in Nat
    BY <2>2 DEF TrueEvents, TruePlace, Event
  <2>4. Number(publishing.event) = publishing.event.id
    BY <2>3 DEF Number, Event, GameEvents
  <2>5. Brings(publishing.event)
    BY <2>1, <2>3, <2>4 DEF Brings
  <2> QED
    BY <2>1, <2>3, <2>5
<1> QED
  BY <1>1, <1>2, <1>3, <1>4
     DEF Elsewhere, PublicationNext, Deliveries, Notices, Game, Delivered, SkipPassed,
         DeadlineBetween, DeliveryCut, Recover, Published, record, NoticeSent, ChatSent,
         StartGame, OpenGame, LaunchRound, CommitRound, Commit, PauseRound, RetryRound,
         BeginEnd, FinishEnd

LEMMA HeldBound ==
    ASSUME PlacesInv, NEW total, total \in {Len(journal), Len(journal) + 1}
    PROVE  \A i \in DOMAIN held : held[i].id <= total
<1>1. /\ Len(journal) \in Nat /\ DOMAIN held = 1..Len(held)
      /\ \A n \in 1..Len(held) : held[n].id \in 0..Len(journal)
  BY HeldIsTrue DEF PlacesInv, TypeOK
<1> QED
  BY <1>1

LEMMA ElsewhereReads ==
    ASSUME PlacesInv, RecordInv, ReadInv, Elsewhere, OneOpening, OneOpening'
    PROVE  ReadInv'
<1>1. Grows
  BY DeliveriesPlaced, NoticesPlaced, GamePlaced DEF Elsewhere, PublicationNext
<1>2. UNCHANGED <<conn, screen, replaying, held, request, upstream>>
  BY DEF Elsewhere, client, tab
<1>3. Reads(screen)'
  BY <1>1, <1>2, StreamKinds, ShownStays DEF ReadInv
<1>4. CASE UNCHANGED <<journal, socket>>
  BY <1>2, <1>3, <1>4
     DEF ReadInv, SocketInv, LiveLeads, SnapshotsLead, PagesLead, PagesFit, RequestsFit, socket
<1>5. ASSUME NEW m \in Event, Enqueue(m), Brings(m)
      PROVE  ReadInv'
  <2>1. m.type \in GameEvents /\ m.type # "auth_ok" /\ m.type # "journal_page"
    BY DEF Event, GameEvents, PublicTypes, OtherTypes
  <2>2. PICK total \in {Len(journal), Len(journal) + 1} :
           /\ Len(journal') = total /\ Number(m) \in 0..total
           /\ total = Len(journal) + 1 => Number(m) = total
    BY <1>5 DEF Brings
  <2>3. screen.cursor \in Nat /\ \A i \in DOMAIN upstream : upstream[i] <= screen.cursor
    BY StreamKinds DEF ReadInv, RequestsFit
  <2>4. CASE attached /\ stream' = Append(stream, m) /\ UNCHANGED attached
    BY <1>2, <1>3, <2>1, <2>2, <2>3, <2>4, HeldBound, StreamGrows DEF FinalPage
  <2>5. CASE ~attached' /\ stream' = <<>>
    BY <1>2, <1>3, <2>3, <2>5, StreamGone
  <2>6. ~attached => stream = <<>>
    BY DEF ReadInv, SocketInv
  <2> QED
    BY <1>5, <2>4, <2>5, <2>6 DEF Enqueue, socket
<1> QED
  BY <1>4, <1>5, ElsewhereBrings

LEMMA ServerReads ==
    ASSUME PlacesInv, ReadInv, Server
    PROVE  ReadInv'
<1>1. journal' = journal /\ UNCHANGED <<screen, replaying, held, request>>
  BY DEF Server, Authenticate, LoseSocket, AnswerPage, RefusePage, Answer, record, tab
<1>2. /\ Reads(screen)' /\ screen.cursor \in Nat /\ Len(journal) \in Nat
      /\ DOMAIN stream = 1..Len(stream) /\ screen.cursor \in 0..Len(journal)
  BY <1>1, ReadsStay, StreamKinds DEF ReadInv
<1>3. CASE Authenticate
  <2> DEFINE m == TakeSnapshot
  <2>1. conn' = "open" /\ attached' /\ stream' = <<m>> /\ upstream' = <<>>
    BY <1>3 DEF Authenticate
  <2>2. m.type = "auth_ok" /\ m.latest = Len(journal)
    BY DEF TakeSnapshot
  <2> HIDE DEF m
  <2>3. /\ DOMAIN stream' = {1} /\ stream'[1] = m /\ Len(stream') = 1 /\ stream' \in Seq({m})
        /\ stream' # <<>>
    BY <2>1
  <2>4. Leads(stream', 1, Len(journal), Len(journal))
    BY <1>2, <2>3, LeadsNowhere
  <2>5. SocketInv' /\ LiveLeads'
    BY <2>1, <2>2, <2>3 DEF SocketInv, LiveLeads
  <2>6. SnapshotsLead'
    BY <1>1, <2>2, <2>3, <2>4 DEF SnapshotsLead
  <2>7. PagesLead' /\ PagesFit'
    BY <2>2, <2>3 DEF PagesLead, PagesFit, FinalPage
  <2>8. RequestsFit'
    BY <1>1, <2>1 DEF ReadInv, RequestsFit
  <2> QED
    BY <1>2, <2>5, <2>6, <2>7, <2>8 DEF ReadInv
<1>4. CASE LoseSocket
  <2>1. attached' = FALSE /\ stream' = <<>> /\ UNCHANGED upstream
    BY <1>4 DEF LoseSocket
  <2> QED
    BY <1>1, <1>2, <2>1, StreamGone
<1>5. ASSUME NEW m, Answer(m), m.type \in {"journal_page", "refused"},
             m.type = "journal_page" => m.after <= screen.cursor,
             FinalPage(m) => m.upto = Len(journal)
      PROVE  ReadInv'
  <2>1. /\ Enqueue(m) /\ attached /\ upstream # <<>> /\ upstream' = Tail(upstream)
        /\ UNCHANGED conn
    BY <1>5 DEF Answer, tab
  <2>2. Number(m) = 0 /\ m.type # "auth_ok"
    BY <1>5 DEF Number, GameEvents, PublicTypes, OtherTypes
  <2>3. \A i \in DOMAIN upstream' : upstream'[i] <= screen.cursor
    <3>1. \A i \in DOMAIN Tail(upstream) :
             i + 1 \in DOMAIN upstream /\ Tail(upstream)[i] = upstream[i + 1]
      BY <2>1 DEF PlacesInv
    <3> QED
      BY <2>1, <3>1 DEF ReadInv, RequestsFit
  <2>4. CASE stream' = Append(stream, m) /\ UNCHANGED attached
    <3>1. Len(journal') = Len(journal) /\ 0 \in 0..Len(journal) /\ Len(journal) # Len(journal) + 1
      BY <1>1, <1>2
    <3> QED
      BY <1>1, <1>2, <1>5, <2>1, <2>2, <2>3, <2>4, <3>1, HeldBound, StreamGrows
  <2>5. CASE ~attached' /\ stream' = <<>>
    <3>1. /\ SocketInv' /\ LiveLeads' /\ SnapshotsLead' /\ PagesLead' /\ PagesFit'
      BY <2>5 DEF SocketInv, LiveLeads, SnapshotsLead, PagesLead, PagesFit
    <3>2. RequestsFit'
      BY <1>1, <2>3 DEF ReadInv, RequestsFit
    <3> QED
      BY <1>2, <3>1, <3>2 DEF ReadInv
  <2> QED
    BY <2>1, <2>4, <2>5 DEF Enqueue
<1>6. ASSUME upstream # <<>>
      PROVE  Head(upstream) \in 0..Len(journal) /\ Head(upstream) <= screen.cursor
  <2>1. 1 \in DOMAIN upstream /\ Head(upstream) = upstream[1] /\ upstream[1] \in 0..Len(journal)
    BY <1>6 DEF PlacesInv
  <2> QED
    BY <2>1 DEF ReadInv, RequestsFit
<1>7. CASE AnswerPage
  <2>1. Answer(PageAfter(Head(upstream))) /\ upstream # <<>>
    BY <1>7 DEF AnswerPage, Answer
  <2> DEFINE after == Head(upstream)
             m == PageAfter(after)
  <2>2. after \in 0..Len(journal) /\ after <= screen.cursor /\ PageLimit \in Nat \ {0}
    BY <1>6, <2>1, ReplayAssumption
  <2> HIDE DEF after
  <2>3. /\ m.type = "journal_page" /\ m.after <= screen.cursor
        /\ FinalPage(m) => m.upto = Len(journal)
    BY <1>2, <2>2 DEF PageAfter, FinalPage
  <2> QED
    BY <1>5, <2>1, <2>3 DEF after
<1>8. CASE RefusePage
  <2> DEFINE m == [type |-> "refused", after |-> Head(upstream)]
  <2>1. Answer(m) /\ m.type = "refused"
    BY <1>8 DEF RefusePage
  <2> HIDE DEF m
  <2> QED
    BY <1>5, <2>1 DEF FinalPage
<1> QED
  BY <1>3, <1>4, <1>7, <1>8 DEF Server

\* The browser takes a message; what follows still fits.
LEMMA MessageRead ==
    ASSUME PlacesInv, ReadInv, stream # <<>>, stream' = Tail(stream), journal' = journal,
           screen'.cursor \in Nat, screen.cursor <= screen'.cursor,
           \/ held' = <<>> \/ held' = held
           \/ /\ held' = Append(held, Head(stream)) /\ held \in Seq(TrueEvents)
              /\ Head(stream) \in TrueEvents /\ Head(stream).type \in GameEvents
    PROVE  SnapshotsLead' /\ PagesLead' /\ PagesFit'
<1> DEFINE N == Len(stream)
<1>1. /\ N \in Nat \ {0} /\ DOMAIN stream = 1..N /\ Len(journal) \in Nat
      /\ DOMAIN stream' = 1..(N - 1) /\ stream \in Seq(TrueMessages)
      /\ \A j \in 1..(N - 1) : stream'[j] = stream[j + 1] /\ j + 1 \in 1..N /\ (j + 1) - 1 = j
      /\ Head(stream) = stream[1] /\ screen.cursor \in Nat
  BY StreamKinds
<1>2. ASSUME NEW j \in 1..(N - 1), NEW from \in Nat, Leads(stream, j + 1, from, Len(journal))
      PROVE  Leads(stream', j, from, Len(journal'))
  <2>1. Leads(Tail(stream), (j + 1) - 1, from, Len(journal))
    BY <1>1, <1>2, LeadsLess
  <2> QED
    BY <1>1, <2>1
<1>3. SnapshotsLead'
  <2>1. ASSUME NEW j \in 1..(N - 1), stream'[j].type = "auth_ok"
        PROVE  Leads(stream', j, stream'[j].latest, Len(journal'))
    <3>1. stream'[j] = stream[j + 1] /\ j + 1 \in DOMAIN stream
      BY <1>1
    <3>2. stream[j + 1].latest \in Nat /\ Leads(stream, j + 1, stream[j + 1].latest, Len(journal))
      BY <1>1, <2>1, <3>1, StreamKinds DEF ReadInv, SnapshotsLead
    <3> QED
      BY <1>2, <3>1, <3>2
  <2> QED
    BY <1>1, <2>1 DEF SnapshotsLead
<1>4. PagesLead'
  <2>1. ASSUME NEW j \in 1..(N - 1), FinalPage(stream'[j])
        PROVE  /\ Leads(stream', j, stream'[j].upto, Len(journal'))
               /\ \A i \in 1..(j - 1) : Number(stream'[i]) <= stream'[j].upto
               /\ \A i \in DOMAIN held' : held'[i].id <= stream'[j].upto
    <3>1. stream'[j] = stream[j + 1] /\ j + 1 \in DOMAIN stream /\ FinalPage(stream[j + 1])
      BY <1>1, <2>1
    <3>2. /\ stream[j + 1].upto \in Nat
          /\ Leads(stream, j + 1, stream[j + 1].upto, Len(journal))
          /\ \A i \in 1..j : Number(stream[i]) <= stream[j + 1].upto
          /\ \A i \in DOMAIN held : held[i].id <= stream[j + 1].upto
      BY <1>1, <3>1, StreamKinds DEF ReadInv, PagesLead, FinalPage
    <3>3. Leads(stream', j, stream'[j].upto, Len(journal'))
      BY <1>2, <3>1, <3>2
    <3>4. \A i \in 1..(j - 1) : Number(stream'[i]) <= stream'[j].upto
      <4>1. \A i \in 1..(j - 1) : stream'[i] = stream[i + 1] /\ i + 1 \in 1..j
        BY <1>1
      <4> QED
        BY <3>1, <3>2, <4>1
    <3>5. \A i \in DOMAIN held' : held'[i].id <= stream'[j].upto
      <4>1. CASE held' = <<>>
        BY <4>1
      <4>2. CASE held' = held
        BY <3>1, <3>2, <4>2
      <4>3. CASE /\ held' = Append(held, Head(stream)) /\ held \in Seq(TrueEvents)
                 /\ Head(stream) \in TrueEvents /\ Head(stream).type \in GameEvents
        <5>1. Number(stream[1]) = Head(stream).id /\ 1 \in 1..j
          BY <1>1, <4>3 DEF Number
        <5>2. Head(stream).id <= stream[j + 1].upto
          BY <3>2, <5>1
        <5>3. /\ DOMAIN held' = 1..(Len(held) + 1) /\ DOMAIN held = 1..Len(held) /\ Len(held) \in Nat
              /\ \A i \in 1..Len(held) : held'[i] = held[i]
              /\ held'[Len(held) + 1] = Head(stream)
          BY <4>3
        <5> QED
          BY <3>1, <3>2, <5>2, <5>3
      <4> QED
        BY <4>1, <4>2, <4>3
    <3> QED
      BY <3>3, <3>4, <3>5
  <2> QED
    BY <1>1, <2>1 DEF PagesLead, FinalPage
<1>5. PagesFit'
  <2>1. ASSUME NEW j \in 1..(N - 1), stream'[j].type = "journal_page"
        PROVE  stream'[j].after <= screen'.cursor
    <3>1. stream'[j] = stream[j + 1] /\ j + 1 \in DOMAIN stream
      BY <1>1
    <3>2. stream[j + 1].after \in Nat /\ stream[j + 1].after <= screen.cursor
      BY <2>1, <3>1, StreamKinds DEF ReadInv, PagesFit
    <3> QED
      BY <1>1, <3>1, <3>2
  <2> QED
    BY <1>1, <2>1 DEF PagesFit
<1> QED
  BY <1>3, <1>4, <1>5

\* Where the stream leads from its first message on.
LEMMA NextMessage ==
    ASSUME PlacesInv, ReadInv, stream # <<>>, NEW there \in Nat
    PROVE  /\ attached /\ 1 \in DOMAIN stream /\ Head(stream) = stream[1]
           /\ /\ conn = "live" /\ ~replaying
              /\ screen.cursor <= there /\ Number(Head(stream)) <= there
              => /\ Number(Head(stream)) <= screen.cursor + 1
                 /\ Leads(Tail(stream), 0, there, Len(journal))
           /\ Head(stream).type = "auth_ok" /\ Head(stream).latest <= there =>
                 Leads(Tail(stream), 0, there, Len(journal))
           /\ FinalPage(Head(stream)) /\ Head(stream).upto <= there =>
                 /\ Leads(Tail(stream), 0, there, Len(journal))
                 /\ \A i \in DOMAIN held : held[i].id <= Head(stream).upto
<1> DEFINE m == Head(stream)
           T == TrueMessages
<1>1. attached
  BY DEF ReadInv, SocketInv
<1>2. /\ stream \in Seq(T) /\ 1 \in DOMAIN stream /\ m = stream[1] /\ Len(journal) \in Nat
      /\ 1 \in 1..Len(stream) /\ screen.cursor \in Nat /\ 1 - 1 = 0
      /\ Tail(stream) \in Seq(T)
      /\ \A j \in DOMAIN stream : Number(stream[j]) \in Nat
      /\ \A j \in DOMAIN Tail(stream) : Number(Tail(stream)[j]) \in Nat
      /\ m.type = "auth_ok" => m.latest \in Nat
      /\ m.type = "journal_page" => m.upto \in Nat
  <2>1. /\ stream \in Seq(T) /\ DOMAIN stream = 1..Len(stream) /\ Len(journal) \in Nat
        /\ screen.cursor \in Nat /\ \A j \in DOMAIN stream : Number(stream[j]) \in Nat
    BY StreamKinds
  <2> HIDE DEF T, m
  <2>2. 1 \in DOMAIN stream /\ m = stream[1] /\ 1 \in 1..Len(stream) /\ Tail(stream) \in Seq(T)
        /\ \A j \in DOMAIN Tail(stream) :
              Tail(stream)[j] = stream[j + 1] /\ j + 1 \in DOMAIN stream
    BY <2>1 DEF m
  <2>3. /\ m.type = "auth_ok" => m.latest \in Nat
        /\ m.type = "journal_page" => m.upto \in Nat
    BY <2>2, StreamKinds
  <2> QED
    BY <2>1, <2>2, <2>3
<1> HIDE DEF T, m
<1>3. ASSUME conn = "live", ~replaying, screen.cursor <= there, Number(m) <= there
      PROVE  Number(m) <= screen.cursor + 1 /\ Leads(Tail(stream), 0, there, Len(journal))
  <2>1. Leads(stream, 0, screen.cursor, Len(journal))
    BY <1>1, <1>3 DEF ReadInv, LiveLeads
  <2> QED
    BY <1>2, <1>3, <2>1, LeadsByOne DEF m
<1>4. ASSUME NEW from \in Nat, Leads(stream, 1, from, Len(journal)), from <= there
      PROVE  Leads(Tail(stream), 0, there, Len(journal))
  <2>1. Leads(Tail(stream), 1 - 1, from, Len(journal))
    BY <1>2, <1>4, LeadsLess
  <2>2. Leads(Tail(stream), 0, from, Len(journal))
    BY <1>2, <2>1
  <2> QED
    BY <1>2, <1>4, <2>2, LeadsOn
<1>5. ASSUME m.type = "auth_ok", m.latest <= there
      PROVE  Leads(Tail(stream), 0, there, Len(journal))
  <2>1. Leads(stream, 1, m.latest, Len(journal)) /\ m.latest \in Nat
    BY <1>2, <1>5 DEF ReadInv, SnapshotsLead
  <2> QED
    BY <1>4, <1>5, <2>1
<1>6. ASSUME FinalPage(m), m.upto <= there
      PROVE  /\ Leads(Tail(stream), 0, there, Len(journal))
             /\ \A i \in DOMAIN held : held[i].id <= m.upto
  <2>1. /\ Leads(stream, 1, m.upto, Len(journal)) /\ m.upto \in Nat
        /\ \A i \in DOMAIN held : held[i].id <= m.upto
    BY <1>2, <1>6 DEF ReadInv, PagesLead, FinalPage
  <2> QED
    BY <1>4, <1>6, <2>1
<1> QED
  BY <1>1, <1>2, <1>3, <1>5, <1>6 DEF m

LEMMA RequestsKept ==
    ASSUME PlacesInv, ReadInv, screen'.cursor \in Nat, screen.cursor <= screen'.cursor,
           \/ UNCHANGED upstream /\ request'.after \in {0, request.after}
           \/ \E after \in Nat : after <= screen'.cursor /\ Ask(after)
    PROVE  RequestsFit'
<1>1. /\ upstream \in Seq(Nat) /\ request.after \in Nat /\ screen.cursor \in Nat
      /\ \A i \in DOMAIN upstream : upstream[i] \in Nat /\ upstream[i] <= screen.cursor
      /\ request.after <= screen.cursor
  BY StreamKinds DEF PlacesInv, TypeOK, ReadInv, RequestsFit
<1>2. CASE UNCHANGED upstream /\ request'.after \in {0, request.after}
  BY <1>1, <1>2 DEF RequestsFit
<1>3. ASSUME NEW after \in Nat, after <= screen'.cursor, Ask(after)
      PROVE  RequestsFit'
  <2>1. upstream' = Append(upstream, after) /\ request'.after = after
    BY <1>3 DEF Ask
  <2>2. /\ DOMAIN upstream = 1..Len(upstream) /\ DOMAIN upstream' = 1..(Len(upstream) + 1)
        /\ Len(upstream) \in Nat /\ upstream'[Len(upstream) + 1] = after
        /\ \A i \in 1..Len(upstream) : upstream'[i] = upstream[i]
    BY <1>1, <2>1
  <2>3. ASSUME NEW i \in 1..(Len(upstream) + 1)
        PROVE  upstream'[i] <= screen'.cursor
    <3>1. CASE i \in 1..Len(upstream)
      <4>1. upstream'[i] = upstream[i] /\ upstream[i] \in Nat /\ upstream[i] <= screen.cursor
        BY <1>1, <2>2, <3>1
      <4> QED
        BY <1>1, <4>1
    <3>2. CASE i = Len(upstream) + 1
      BY <1>3, <2>2, <3>2
    <3> QED
      BY <2>2, <3>1, <3>2
  <2> QED
    BY <1>3, <2>1, <2>2, <2>3 DEF RequestsFit
<1> QED
  BY <1>2, <1>3

LEMMA ReadOn ==
    ASSUME PlacesInv, ReadInv, stream # <<>>, stream' = Tail(stream), UNCHANGED attached,
           journal' = journal, screen'.cursor \in Nat, screen.cursor <= screen'.cursor,
           \/ held' = <<>> \/ held' = held
           \/ /\ held' = Append(held, Head(stream)) /\ held \in Seq(TrueEvents)
              /\ Head(stream) \in TrueEvents /\ Head(stream).type \in GameEvents,
           \/ UNCHANGED upstream /\ request'.after \in {0, request.after}
           \/ \E after \in Nat : after <= screen'.cursor /\ Ask(after),
           conn' = "live", Reads(screen)',
           ~replaying' => Leads(Tail(stream), 0, screen'.cursor, Len(journal))
    PROVE  ReadInv' /\ screen.cursor <= screen'.cursor
<1>1. SnapshotsLead' /\ PagesLead' /\ PagesFit'
  BY MessageRead
<1>2. RequestsFit'
  BY RequestsKept
<1>3. LiveLeads'
  BY DEF LiveLeads
<1>4. attached
  BY DEF ReadInv, SocketInv
<1>5. SocketInv'
  BY <1>4 DEF SocketInv
<1> QED
  BY <1>1, <1>2, <1>3, <1>5 DEF ReadInv

\* Only an authenticated page gets anything but its snapshot.
LEMMA LiveBefore ==
    ASSUME ReadInv, NEW types, Arrives(types), "auth_ok" \notin types
    PROVE  conn = "live"
<1>1. conn \in {"open", "live"} /\ stream # <<>> /\ Head(stream).type \in types
  BY DEF Arrives
<1>2. Head(stream) = stream[1]
  OBVIOUS
<1> QED
  BY <1>1, <1>2 DEF ReadInv, SocketInv

LEMMA ClosedReads ==
    ASSUME PlacesInv, ReadInv, journal' = journal, Closed, stream' = <<>>
    PROVE  ReadInv' /\ screen.cursor <= screen'.cursor
<1>1. /\ conn' = "closed" /\ request' = NoRequest /\ UNCHANGED upstream
      /\ screen' \in {FinishClosed(screen), screen}
  BY DEF Closed
<1>2. screen \in Screen /\ screen.cursor \in Nat /\ snapshot \in Snapshot
  BY DEF PlacesInv, TypeOK, Screen
<1>3. /\ FinishClosed(screen).cursor = screen.cursor /\ FinishClosed(screen).shown = screen.shown
  BY <1>2, SnapshotApplied DEF FinishClosed
<1>4. screen'.cursor = screen.cursor /\ screen'.shown = screen.shown
  BY <1>1, <1>3
<1>5. Reads(screen)'
  <2>1. PublicIds' = PublicIds /\ \A c : Place(c)' = Place(c)
    BY ReadsStay
  <2>2. OpenedBy(screen.cursor)' = OpenedBy(screen.cursor)
    BY <1>4 DEF OpenedBy
  <2>3. Place(screen.cursor)' = Place(screen.cursor)
    BY <1>4, <2>2 DEF Place
  <2> QED
    BY <1>4, <2>1, <2>3 DEF ReadInv, Reads
<1>6. request'.after = 0
  BY <1>1 DEF NoRequest
<1>7. ReadInv'
  BY <1>1, <1>2, <1>4, <1>5, <1>6, StreamGone
<1> QED
  BY <1>2, <1>4, <1>7

LEMMA ClosingReads ==
    ASSUME PlacesInv, ReadInv, journal' = journal, HoldTooMany \/ StartClosing
    PROVE  ReadInv' /\ screen.cursor <= screen'.cursor
<1>1. /\ conn' = "closing" /\ stream' = <<>> /\ UNCHANGED <<screen, request, upstream>>
  BY DEF HoldTooMany, StartClosing, socket, ReadInv, SocketInv
<1>2. screen.cursor \in Nat /\ Reads(screen)'
  BY <1>1, ReadsStay, StreamKinds DEF ReadInv
<1>3. ReadInv'
  BY <1>1, <1>2, StreamGone
<1> QED
  BY <1>1, <1>2, <1>3

\* Giving up a request that no catch-up waits for changes nothing else.
LEMMA GivenUpReads ==
    ASSUME PlacesInv, ReadInv, journal' = journal, GivenUp, ~gaveUp', UNCHANGED <<socket, conn>>
    PROVE  ReadInv' /\ screen.cursor <= screen'.cursor
<1>1. ~replaying
  BY DEF GivenUp
<1>2. /\ ~replaying' /\ request'.after = 0
      /\ UNCHANGED <<attached, stream, conn, screen, held, upstream>>
  BY <1>1 DEF GivenUp, NoRequest, socket
<1>3. screen.cursor \in Nat /\ Reads(screen)'
  BY <1>2, ReadsStay, StreamKinds DEF ReadInv
<1>4. SocketInv' /\ LiveLeads' /\ SnapshotsLead' /\ PagesLead' /\ PagesFit'
  BY <1>1, <1>2 DEF ReadInv, SocketInv, LiveLeads, SnapshotsLead, PagesLead, PagesFit
<1>5. RequestsFit'
  BY <1>2, <1>3 DEF ReadInv, RequestsFit
<1> QED
  BY <1>2, <1>3, <1>4, <1>5 DEF ReadInv

LEMMA BrowserReads ==
    ASSUME ~gaveUp', PlacesInv, ReadInv, OneOpening, Browser
    PROVE  ReadInv' /\ screen.cursor <= screen'.cursor
<1>1. journal' = journal
  BY DEF Browser, Receive, ReceiveAuth, ReceivePage, ReceiveRefusal, ShowEvent, HoldEvent,
         HoldTooMany, StartClosing, NoticeClose, Closed, AskAgain, GiveUp, record
<1>2. /\ screen \in Screen /\ screen.cursor \in Nat /\ screen.cursor <= Len(journal)
      /\ Len(journal) \in Nat /\ journal \in Seq(Entry) /\ held \in Seq(TrueEvents)
      /\ Reads(screen) /\ ClientPlaces
  BY StreamKinds, ClientIsPlaced DEF PlacesInv, ReadInv
<1> DEFINE m == Head(stream)
<1>3. ASSUME NEW types, Arrives(types)
      PROVE  /\ stream # <<>> /\ stream' = Tail(stream) /\ UNCHANGED attached
             /\ m \in TrueMessages /\ m.type \in types
  BY <1>2, <1>3, ArrivedIsTrue DEF Arrives
<1>4. CASE ReceiveAuth
  <2>1. Arrives({"auth_ok"})
    BY <1>4 DEF ReceiveAuth
  <2>2. /\ stream # <<>> /\ stream' = Tail(stream) /\ UNCHANGED attached
        /\ m.type = "auth_ok" /\ m \in Snapshot /\ m.latest \in Nat
    BY <1>2, <1>3, <2>1, KindsOfMessages DEF Snapshot
  <2>3. /\ conn' = "live" /\ held' = <<>>
        /\ replaying' = (m.latest > screen.cursor)
        /\ screen' = [screen EXCEPT !.view = ApplySnapshot(@, m)]
        /\ Ask(screen.cursor) \/ UNCHANGED <<request, upstream>>
    BY <1>4 DEF ReceiveAuth
  <2>4. screen'.cursor = screen.cursor /\ screen'.shown = screen.shown
    BY <1>2, <2>2, <2>3, SnapshotApplied
  <2>5. Reads(screen)'
    <3>1. PublicIds' = PublicIds
      BY <1>1, ReadsStay
    <3>2. OpenedBy(screen.cursor)' = OpenedBy(screen.cursor)
      BY <1>1, <2>4 DEF OpenedBy
    <3>3. Place(screen.cursor)' = Place(screen.cursor)
      BY <2>4, <3>2 DEF Place
    <3> QED
      BY <1>1, <1>2, <2>4, <3>1, <3>3 DEF Reads
  <2> HIDE DEF m
  <2>6. ~replaying' => Leads(Tail(stream), 0, screen'.cursor, Len(journal))
    <3>1. ASSUME ~replaying'
          PROVE  m.latest <= screen.cursor
      <4>1. ~(m.latest > screen.cursor)
        BY <2>3, <3>1, Zenon
      <4> QED
        BY <1>2, <2>2, <4>1
    <3> QED
      BY <1>2, <2>2, <2>4, <3>1, NextMessage DEF m
  <2>7. \/ UNCHANGED upstream /\ request'.after \in {0, request.after}
        \/ \E after \in Nat : after <= screen'.cursor /\ Ask(after)
    BY <1>2, <2>3, <2>4
  <2> QED
    BY <1>1, <1>2, <2>2, <2>3, <2>4, <2>5, <2>6, <2>7, ReadOn
<1>5. CASE ReceivePage
  <2> DEFINE read == HandlePage(screen, m)
             end == [read EXCEPT !.cursor = IF m.upto > @ THEN m.upto ELSE @]
  <2>1. Arrives({"journal_page"})
    BY <1>5 DEF ReceivePage
  <2>2. /\ stream # <<>> /\ stream' = Tail(stream) /\ UNCHANGED attached /\ conn = "live"
        /\ m.type = "journal_page" /\ m.after \in Nat /\ m.upto \in Nat
        /\ m.after <= m.upto /\ m.upto <= Len(journal) /\ m.more \in BOOLEAN
    BY <1>2, <1>3, <2>1, LiveBefore, KindsOfMessages
  <2>3. m.after <= screen.cursor /\ Number(m) = 0
    <3>1. m = stream[1] /\ 1 \in DOMAIN stream
      BY <1>2, <2>2, NextMessage
    <3> QED
      BY <2>2, <3>1 DEF ReadInv, PagesFit, Number, GameEvents, PublicTypes, OtherTypes
  <2>4. UNCHANGED conn
    BY <1>5 DEF ReceivePage
  <2>5. \/ /\ m.more /\ Ask(m.upto) /\ screen' = read /\ UNCHANGED <<replaying, held>>
        \/ /\ ~m.more /\ request' = NoRequest /\ UNCHANGED upstream
           /\ screen' = Finish(end) /\ replaying' = FALSE /\ held' = <<>>
    BY <1>5 DEF ReceivePage
  <2> HIDE DEF m
  <2>6. read \in Screen /\ Reads(read) /\ screen.cursor <= read.cursor /\ m.upto <= read.cursor
    BY <1>2, <2>2, <2>3, PageReads
  <2> HIDE DEF read
  <2>7. CASE m.more /\ Ask(m.upto) /\ screen' = read /\ UNCHANGED <<replaying, held>>
    <3>1. Reads(screen)' /\ screen'.cursor \in Nat
      BY <1>1, <2>6, <2>7, ReadsStay DEF Screen
    <3>2. ~replaying' => Leads(Tail(stream), 0, screen'.cursor, Len(journal))
      BY <1>2, <2>2, <2>3, <2>6, <2>7, <3>1, NextMessage DEF m
    <3>3. \E after \in Nat : after <= screen'.cursor /\ Ask(after)
      BY <2>2, <2>6, <2>7
    <3> QED
      BY <1>1, <1>2, <2>2, <2>4, <2>6, <2>7, <3>1, <3>2, <3>3, ReadOn
  <2>8. CASE /\ ~m.more /\ request' = NoRequest /\ UNCHANGED upstream
             /\ screen' = Finish(end) /\ replaying' = FALSE /\ held' = <<>>
    <3>1. read.cursor \in Nat
      BY <2>6 DEF Screen
    <3>2. end \in Screen /\ end.cursor = read.cursor /\ end.shown = read.shown
      BY <2>2, <2>6, <3>1 DEF Screen
    <3> HIDE DEF end
    <3>3. Reads(end)
      BY <2>6, <3>2 DEF Reads
    <3>4. FinalPage(m)
      BY <2>2, <2>8 DEF FinalPage
    <3>5. \A i \in DOMAIN held : held[i].id <= m.upto
      BY <2>2, <3>4, NextMessage DEF m
    <3>6. \A i \in DOMAIN held : held[i].id <= end.cursor
      <4>1. \A i \in DOMAIN held : held[i].id \in Nat
        BY <1>2 DEF TrueEvents, Event
      <4> QED
        BY <2>2, <2>6, <3>1, <3>2, <3>5, <4>1
    <3>7. Finish(end) \in Screen /\ Reads(Finish(end)) /\ end.cursor <= Finish(end).cursor
      BY <1>2, <3>2, <3>3, <3>6, FinishReads
    <3>8. /\ Reads(screen)' /\ screen'.cursor \in Nat /\ screen.cursor <= screen'.cursor
          /\ m.upto <= screen'.cursor
      <4>1. Reads(screen)'
        BY <1>1, <2>8, <3>7, ReadsStay
      <4>2. screen'.cursor = Finish(end).cursor /\ Finish(end).cursor \in Nat
        BY <2>8, <3>7 DEF Screen
      <4> QED
        BY <1>2, <2>2, <2>6, <3>1, <3>2, <3>7, <4>1, <4>2
    <3>9. Leads(Tail(stream), 0, screen'.cursor, Len(journal))
      BY <2>2, <3>4, <3>8, NextMessage DEF m
    <3>10. request'.after = 0
      BY <2>8 DEF NoRequest
    <3> QED
      BY <1>1, <2>2, <2>4, <2>8, <3>8, <3>9, <3>10, ReadOn
  <2> QED
    BY <2>5, <2>7, <2>8
<1>6. CASE ReceiveRefusal
  <2>1. Arrives({"refused"})
    BY <1>6 DEF ReceiveRefusal
  <2>2. /\ stream # <<>> /\ stream' = Tail(stream) /\ UNCHANGED attached /\ conn = "live"
        /\ m.type = "refused"
    BY <1>3, <2>1, LiveBefore
  <2>3. UNCHANGED <<conn, screen, replaying, held, upstream>>
    BY <1>6 DEF ReceiveRefusal
  <2>4. request'.after = request.after
    <3>1. request' \in {[request EXCEPT !.status = "backoff"], request}
      BY <1>6 DEF ReceiveRefusal
    <3>2. request \in [status : {"none", "sent", "backoff"}, after : Nat]
      BY <1>2 DEF ClientPlaces
    <3> QED
      BY <3>1, <3>2
  <2>5. Number(m) = 0
    BY <2>2 DEF Number, GameEvents, PublicTypes, OtherTypes
  <2> HIDE DEF m
  <2>6. ~replaying' => Leads(Tail(stream), 0, screen'.cursor, Len(journal))
    BY <1>2, <2>2, <2>3, <2>5, NextMessage DEF m
  <2>7. Reads(screen)' /\ screen'.cursor \in Nat /\ screen.cursor <= screen'.cursor
    <3>1. screen' = screen
      BY <2>3
    <3>2. Reads(screen)'
      BY <1>1, <1>2, <3>1, ReadsStay
    <3> QED
      BY <1>2, <3>1, <3>2
  <2> QED
    BY <1>1, <2>2, <2>3, <2>4, <2>6, <2>7, ReadOn
<1>7. ASSUME Arrives(GameEvents)
      PROVE  /\ stream # <<>> /\ stream' = Tail(stream) /\ UNCHANGED attached /\ conn = "live"
             /\ m \in TrueEvents /\ Number(m) = m.id /\ m.id \in 0..Len(journal)
             /\ m.type \in GameEvents
  <2>1. "auth_ok" \notin GameEvents
    BY DEF GameEvents, PublicTypes, OtherTypes
  <2>2. /\ stream # <<>> /\ stream' = Tail(stream) /\ UNCHANGED attached /\ conn = "live"
        /\ m \in TrueEvents /\ m.type \in GameEvents
    BY <1>2, <1>3, <1>7, <2>1, LiveBefore, KindsOfMessages
  <2> HIDE DEF m
  <2>3. Number(m) = m.id /\ m.id \in 0..Len(journal)
    BY <1>2, <2>2 DEF Number, TrueEvents, TruePlace, Event
  <2> QED
    BY <2>2, <2>3
<1>8. CASE ShowEvent
  <2>1. Arrives(GameEvents) /\ ~HeldBack(m)
    BY <1>8 DEF ShowEvent
  <2>2. /\ stream # <<>> /\ stream' = Tail(stream) /\ UNCHANGED attached /\ conn = "live"
        /\ m \in TrueEvents /\ Number(m) = m.id /\ m.id \in 0..Len(journal)
    BY <1>7, <2>1
  <2>3. /\ screen' = Handle(screen, m, FALSE)
        /\ UNCHANGED <<conn, replaying, held, request, upstream>>
    BY <1>8 DEF ShowEvent
  <2>4. ~replaying \/ m.id = 0
    <3>1. CASE m.type = "paused"
      <4>1. m.id # 0 => m.id \in DOMAIN journal /\ journal[m.id].type = "paused"
        BY <2>2, <3>1 DEF TrueEvents, TruePlace
      <4>2. \A k \in DOMAIN journal : journal[k].type # "paused"
        <5>1. \A k \in DOMAIN journal : journal[k] \in Entry
          BY <1>2
        <5> QED
          BY <5>1 DEF Entry, PublicTypes
      <4> QED
        BY <4>1, <4>2
    <3> QED
      BY <2>1, <3>1 DEF HeldBack
  <2> DEFINE there == IF m.id > screen.cursor THEN m.id ELSE screen.cursor
  <2> HIDE DEF m
  <2>5. there \in Nat /\ screen.cursor <= there /\ m.id <= there
    BY <1>2, <2>2
  <2>6. /\ m.id <= screen.cursor + 1
        /\ ~replaying => Leads(Tail(stream), 0, there, Len(journal))
    <3> HIDE DEF there
    <3>1. CASE ~replaying
      BY <1>2, <2>2, <2>5, <3>1, NextMessage DEF m
    <3>2. CASE replaying
      BY <1>2, <2>4, <3>2
    <3> QED
      BY <3>1, <3>2
  <2>7. Reads(Step(screen, m, FALSE)) /\ Step(screen, m, FALSE).cursor = there
    BY <1>2, <2>2, <2>6, StepReads
  <2>8. screen' = Step(screen, m, FALSE)
    BY <2>3 DEF Step
  <2> HIDE DEF there
  <2>9. Reads(screen)' /\ screen'.cursor = there
    BY <1>1, <2>7, <2>8, ReadsStay
  <2> QED
    BY <1>1, <1>2, <2>2, <2>3, <2>5, <2>6, <2>9, ReadOn
<1>9. CASE HoldEvent
  <2>1. Arrives(GameEvents) /\ HeldBack(m)
    BY <1>9 DEF HoldEvent
  <2>2. /\ stream # <<>> /\ stream' = Tail(stream) /\ UNCHANGED attached /\ conn = "live"
        /\ m \in TrueEvents /\ m.type \in GameEvents
    BY <1>7, <2>1
  <2>3. /\ held' = Append(held, m)
        /\ UNCHANGED <<conn, screen, replaying, request, upstream>>
    BY <1>9 DEF HoldEvent
  <2>4. replaying'
    BY <2>1, <2>3 DEF HeldBack
  <2>5. Reads(screen)' /\ screen'.cursor \in Nat /\ screen.cursor <= screen'.cursor
    <3>1. screen' = screen
      BY <2>3
    <3>2. Reads(screen)'
      BY <1>1, <1>2, <3>1, ReadsStay
    <3> QED
      BY <1>2, <3>1, <3>2
  <2> QED
    BY <1>1, <1>2, <2>2, <2>3, <2>4, <2>5, ReadOn
<1>10. CASE HoldTooMany \/ StartClosing
  BY <1>1, <1>10, ClosingReads
<1>11. CASE NoticeClose
  <2>1. stream' = <<>> /\ Closed
    BY <1>11 DEF NoticeClose, socket, ReadInv, SocketInv
  <2> QED
    BY <1>1, <2>1, ClosedReads
<1>12. CASE Ask(request.after) /\ UNCHANGED <<socket, conn, screen, replaying, held>>
  <2>1. /\ Ask(request.after)
        /\ UNCHANGED <<attached, stream, conn, screen, replaying, held>>
    BY <1>12 DEF socket
  <2>2. request.after \in Nat /\ request.after <= screen.cursor
    BY <1>2 DEF ReadInv, RequestsFit, ClientPlaces
  <2>3. RequestsFit'
    BY <1>2, <2>1, <2>2, RequestsKept
  <2>4. Reads(screen)'
    BY <1>1, <1>2, <2>1, ReadsStay
  <2> QED
    BY <1>1, <1>2, <2>1, <2>3, <2>4
       DEF ReadInv, SocketInv, LiveLeads, SnapshotsLead, PagesLead, PagesFit
<1>13. CASE AskAgain \/ GiveUp
  BY <1>1, <1>12, <1>13, GivenUpReads DEF AskAgain, GiveUp
<1> QED
  BY <1>4, <1>5, <1>6, <1>8, <1>9, <1>10, <1>11, <1>12, <1>13 DEF Browser, Receive

-----------------------------------------------------------------------------
(* Nothing is shown twice or out of order, even by a browser that gave up *)

ShowsInOrder(s) ==
    \A j \in 1..Len(s.shown) :
       /\ s.shown[j] \in 1..s.cursor /\ journal[s.shown[j]].type # "opening"
       /\ \A i \in 1..(j - 1) : s.shown[i] < s.shown[j]

Follows(t, s) ==
    /\ Len(s.shown) <= Len(t.shown)
    /\ \A i \in 1..Len(s.shown) : t.shown[i] = s.shown[i]

LEMMA FollowsOn ==
    ASSUME NEW s \in Screen, NEW t \in Screen, NEW u \in Screen, Follows(t, s), Follows(u, t)
    PROVE  Follows(u, s)
<1>1. Len(s.shown) \in Nat /\ Len(t.shown) \in Nat /\ Len(u.shown) \in Nat
  BY DEF Screen
<1>2. \A i \in 1..Len(s.shown) : i \in 1..Len(t.shown)
  BY <1>1 DEF Follows
<1> QED
  BY <1>1, <1>2 DEF Follows

LEMMA StepShows ==
    ASSUME NEW s \in Screen, ShowsInOrder(s), NEW e \in TrueEvents, NEW replayed \in BOOLEAN
    PROVE  ShowsInOrder(Step(s, e, replayed)) /\ Follows(Step(s, e, replayed), s)
<1> DEFINE t == Step(s, e, replayed)
           n == Len(s.shown)
<1>1. /\ s.cursor \in Nat /\ s.shown \in Seq(Nat) /\ n \in Nat /\ e.id \in Nat
      /\ s = [cursor |-> s.cursor, shown |-> s.shown, view |-> s.view]
  BY DEF Screen, TrueEvents, Event
<1>2. \/ t.shown = s.shown /\ t.cursor \in {s.cursor, e.id} /\ s.cursor <= t.cursor
      \/ /\ t.shown = Append(s.shown, e.id) /\ t.cursor = e.id /\ e.id > s.cursor
         /\ e.id # 0 /\ e.type # "opening"
  <2>1. CASE e.id = 0
    BY <1>1, <2>1 DEF Step, Handle, HandleReplayed
  <2>2. CASE e.id # 0 /\ e.id <= s.cursor
    <3>1. ~(e.id > s.cursor)
      BY <1>1, <2>2
    <3> QED
      BY <1>1, <2>2, <3>1 DEF Step, Handle, HandleReplayed
  <2>3. CASE e.id # 0 /\ ~(e.id <= s.cursor)
    <3>1. e.id > s.cursor
      BY <1>1, <2>3
    <3> QED
      BY <1>1, <2>3, <3>1 DEF Step, Handle, HandleReplayed
  <2> QED
    BY <2>1, <2>2, <2>3
<1> HIDE DEF t
<1>3. CASE t.shown = s.shown /\ t.cursor \in {s.cursor, e.id} /\ s.cursor <= t.cursor
  <2>1. s.cursor <= t.cursor /\ t.cursor \in Nat
    BY <1>1, <1>3
  <2>2. \A k \in 1..s.cursor : k \in 1..t.cursor
    BY <1>1, <2>1
  <2> QED
    BY <1>1, <1>3, <2>2 DEF ShowsInOrder, Follows, t
<1>4. CASE /\ t.shown = Append(s.shown, e.id) /\ t.cursor = e.id /\ e.id > s.cursor
           /\ e.id # 0 /\ e.type # "opening"
  <2>1. journal[e.id].type # "opening" /\ e.id \in 1..t.cursor
    BY <1>1, <1>4 DEF TrueEvents, TruePlace
  <2>2. /\ Len(t.shown) = n + 1 /\ t.shown[n + 1] = e.id
        /\ \A j \in 1..n : t.shown[j] = s.shown[j]
    BY <1>1, <1>4
  <2>3. \A j \in 1..n : s.shown[j] \in 1..t.cursor /\ s.shown[j] < e.id
    BY <1>1, <1>4 DEF ShowsInOrder
  <2>4. ASSUME NEW j \in 1..(n + 1)
        PROVE  /\ t.shown[j] \in 1..t.cursor /\ journal[t.shown[j]].type # "opening"
               /\ \A i \in 1..(j - 1) : t.shown[i] < t.shown[j]
    <3>1. CASE j = n + 1
      <4>1. \A i \in 1..(j - 1) : i \in 1..n
        BY <1>1, <3>1
      <4> QED
        BY <2>1, <2>2, <2>3, <3>1, <4>1
    <3>2. CASE j \in 1..n
      <4>1. \A i \in 1..(j - 1) : i \in 1..n
        BY <1>1, <3>2
      <4> QED
        BY <2>2, <2>3, <3>2, <4>1 DEF ShowsInOrder
    <3> QED
      BY <1>1, <3>1, <3>2
  <2>5. n <= n + 1
    BY <1>1
  <2> QED
    BY <2>2, <2>4, <2>5 DEF ShowsInOrder, Follows, t
<1> QED
  BY <1>2, <1>3, <1>4

LEMMA AllShow ==
    ASSUME NEW s \in Screen, ShowsInOrder(s), NEW events, Len(events) \in Nat,
           NEW replayed \in BOOLEAN, \A n \in 1..Len(events) : events[n] \in TrueEvents
    PROVE  LET t == HandleAll(s, events, replayed)
           IN  t \in Screen /\ ShowsInOrder(t) /\ Follows(t, s)
<1> DEFINE N == Len(events)
<1>1. \A n \in 1..N : events[n].id \in Nat
  BY DEF TrueEvents, Event
<1>2. PICK after \in [0..N -> Screen] :
         /\ after[0] = s
         /\ \A n \in 1..N : after[n] = Step(after[n - 1], events[n], replayed)
         /\ HandleAll(s, events, replayed) = after[N]
  BY <1>1, AllAreHandled
<1> DEFINE fine == {n \in Nat : n \in 0..N => ShowsInOrder(after[n]) /\ Follows(after[n], s)}
<1>3. 0 \in fine
  <2>1. Follows(s, s)
    <3>1. Len(s.shown) \in Nat
      BY DEF Screen
    <3> QED
      BY <3>1 DEF Follows
  <2> QED
    BY <1>2, <2>1
<1>4. ASSUME NEW n \in fine
      PROVE  n + 1 \in fine
  <2>1. CASE n + 1 \in 0..N
    <3>1. n \in 0..N /\ n + 1 \in 1..N /\ (n + 1) - 1 = n /\ n + 1 \in Nat
      BY <2>1
    <3>2. /\ after[n + 1] = Step(after[n], events[n + 1], replayed)
          /\ after[n] \in Screen /\ after[n + 1] \in Screen /\ events[n + 1] \in TrueEvents
      BY <1>2, <2>1, <3>1
    <3>3. ShowsInOrder(after[n]) /\ Follows(after[n], s)
      BY <1>4, <3>1
    <3>4. ShowsInOrder(after[n + 1]) /\ Follows(after[n + 1], after[n])
      BY <3>2, <3>3, StepShows
    <3>5. Follows(after[n + 1], s)
      BY <3>2, <3>3, <3>4, FollowsOn
    <3> QED
      BY <3>1, <3>4, <3>5
  <2> QED
    BY <2>1
<1>5. fine \in SUBSET Nat
  OBVIOUS
<1> HIDE DEF fine
<1>6. \A n \in Nat : n \in fine
  BY <1>3, <1>4, <1>5, Counting
<1>7. ShowsInOrder(after[N]) /\ Follows(after[N], s) /\ after[N] \in Screen
  BY <1>2, <1>6 DEF fine
<1> QED
  BY <1>2, <1>7

\* A new view, or a cursor moved on, shows nothing.
LEMMA NothingShown ==
    ASSUME NEW s \in Screen, ShowsInOrder(s), NEW t \in Screen,
           t.shown = s.shown, s.cursor <= t.cursor
    PROVE  ShowsInOrder(t) /\ Follows(t, s)
<1>1. s.cursor \in Nat /\ t.cursor \in Nat /\ Len(s.shown) \in Nat
  BY DEF Screen
<1>2. \A k \in 1..s.cursor : k \in 1..t.cursor
  BY <1>1
<1> QED
  BY <1>1, <1>2 DEF ShowsInOrder, Follows

LEMMA FinishShows ==
    ASSUME PlacesInv, NEW s \in Screen, ShowsInOrder(s)
    PROVE  Finish(s) \in Screen /\ ShowsInOrder(Finish(s)) /\ Follows(Finish(s), s)
<1> DEFINE fresh == [s EXCEPT !.view = ApplySnapshot(@, snapshot)]
<1>1. fresh \in Screen /\ fresh.cursor = s.cursor /\ fresh.shown = s.shown /\ s.cursor \in Nat
  BY SnapshotApplied DEF PlacesInv, TypeOK, Screen
<1> HIDE DEF fresh
<1>2. ShowsInOrder(fresh) /\ Follows(fresh, s)
  BY <1>1, NothingShown
<1>3. Len(held) \in Nat /\ \A n \in 1..Len(held) : held[n] \in TrueEvents
  BY HeldIsTrue
<1> DEFINE t == HandleAll(fresh, held, FALSE)
<1>4. t \in Screen /\ ShowsInOrder(t) /\ Follows(t, fresh)
  BY <1>1, <1>2, <1>3, AllShow
<1>5. Finish(s) = t
  BY DEF Finish, fresh
<1> HIDE DEF t
<1> QED
  BY <1>1, <1>2, <1>4, <1>5, FollowsOn

LEMMA PageShows ==
    ASSUME journal \in Seq(Entry), NEW s \in Screen, ShowsInOrder(s),
           NEW page, page.after \in Nat, page.upto \in Nat, page.after <= page.upto,
           page.upto <= Len(journal)
    PROVE  LET t == HandlePage(s, page)
           IN  t \in Screen /\ ShowsInOrder(t) /\ Follows(t, s)
<1> DEFINE N == page.upto - page.after
           events == PageEvents(page)
<1>1. Len(events) = N /\ N \in Nat /\ Len(journal) \in Nat
  BY PageLength
<1>2. ASSUME NEW n \in 1..N
      PROVE  events[n] \in TrueEvents
  BY <1>1, <1>2, PageIsTrue
<1>3. HandlePage(s, page) = HandleAll(s, events, TRUE)
  BY DEF HandlePage, PageEvents
<1> HIDE DEF events, N
<1> QED
  BY <1>1, <1>2, <1>3, AllShow

LEMMA BrowserShows ==
    ASSUME PlacesInv, ShowsInOrder(screen), Browser
    PROVE  ShowsInOrder(screen)' /\ Follows(screen', screen)
<1>1. /\ journal' = journal /\ screen \in Screen /\ ClientPlaces /\ journal \in Seq(Entry)
      /\ Len(journal) \in Nat
  BY ClientIsPlaced
     DEF ClientPlaces, Browser, Receive, ReceiveAuth, ReceivePage, ReceiveRefusal, ShowEvent,
         HoldEvent, HoldTooMany, StartClosing, NoticeClose, Closed, AskAgain, GiveUp, record
<1>2. ASSUME NEW t, screen' = t, ShowsInOrder(t), Follows(t, screen)
      PROVE  ShowsInOrder(screen)' /\ Follows(screen', screen)
  BY <1>1, <1>2 DEF ShowsInOrder
<1>3. ShowsInOrder(screen) /\ Follows(screen, screen)
  <2>1. screen.cursor <= screen.cursor
    BY <1>1 DEF Screen
  <2> QED
    BY <1>1, <2>1, NothingShown
<1>4. CASE screen' = screen
  BY <1>2, <1>3, <1>4
<1> DEFINE m == Head(stream)
<1>5. ASSUME NEW x \in Snapshot, screen' = [screen EXCEPT !.view = ApplySnapshot(@, x)]
      PROVE  ShowsInOrder(screen)' /\ Follows(screen', screen)
  <2> DEFINE t == [screen EXCEPT !.view = ApplySnapshot(@, x)]
  <2>1. t \in Screen /\ t.shown = screen.shown /\ t.cursor = screen.cursor
        /\ screen.cursor \in Nat
    BY <1>1, <1>5, SnapshotApplied DEF Screen
  <2>2. screen' = t
    BY <1>5
  <2> HIDE DEF t
  <2>3. ShowsInOrder(t) /\ Follows(t, screen)
    BY <1>1, <2>1, NothingShown
  <2> QED
    BY <1>2, <2>2, <2>3
<1>6. CASE ReceiveAuth
  <2>1. Arrives({"auth_ok"}) /\ screen' = [screen EXCEPT !.view = ApplySnapshot(@, m)]
    BY <1>6 DEF ReceiveAuth
  <2>2. m \in Snapshot
    BY <1>1, <2>1, ArrivedIsTrue, KindsOfMessages
  <2> HIDE DEF m
  <2> QED
    BY <1>5, <2>1, <2>2
<1>7. CASE ReceivePage
  <2> DEFINE read == HandlePage(screen, m)
             end == [read EXCEPT !.cursor = IF m.upto > @ THEN m.upto ELSE @]
  <2>1. /\ m.after \in Nat /\ m.upto \in Nat /\ m.after <= m.upto /\ m.upto <= Len(journal)
    <3>1. Arrives({"journal_page"})
      BY <1>7 DEF ReceivePage
    <3> QED
      BY <1>1, <3>1, ArrivedIsTrue, KindsOfMessages
  <2>2. screen' \in {read, Finish(end)}
    BY <1>7 DEF ReceivePage
  <2> HIDE DEF m
  <2>3. read \in Screen /\ ShowsInOrder(read) /\ Follows(read, screen)
    BY <1>1, <2>1, PageShows
  <2> HIDE DEF read
  <2>4. end \in Screen /\ end.shown = read.shown /\ read.cursor <= end.cursor
    BY <2>1, <2>3 DEF Screen
  <2> HIDE DEF end
  <2>5. ShowsInOrder(end) /\ Follows(end, read)
    BY <2>3, <2>4, NothingShown
  <2>6. /\ Finish(end) \in Screen /\ ShowsInOrder(Finish(end)) /\ Follows(Finish(end), end)
    BY <2>4, <2>5, FinishShows
  <2>7. Follows(end, screen)
    BY <1>1, <2>3, <2>4, <2>5, FollowsOn
  <2>8. Follows(Finish(end), screen)
    BY <1>1, <2>4, <2>6, <2>7, FollowsOn
  <2> QED
    BY <1>2, <2>2, <2>3, <2>6, <2>8
<1>8. CASE ShowEvent
  <2>1. Arrives(GameEvents) /\ screen' = Handle(screen, m, FALSE)
    BY <1>8 DEF ShowEvent
  <2>2. m \in TrueEvents
    BY <1>1, <2>1, ArrivedIsTrue, KindsOfMessages
  <2> HIDE DEF m
  <2>3. screen' = Step(screen, m, FALSE)
    BY <2>1 DEF Step
  <2> DEFINE t == Step(screen, m, FALSE)
  <2>4. ShowsInOrder(t) /\ Follows(t, screen)
    BY <1>1, <2>2, StepShows
  <2> HIDE DEF t
  <2>5. screen' = t
    BY <2>3 DEF t
  <2> QED
    BY <1>2, <2>4, <2>5
<1>9. ShowsInOrder(Finish(screen)) /\ Follows(Finish(screen), screen)
  BY <1>1, FinishShows
<1>10. CASE GivenUp
  <2>1. screen' \in {Finish(screen), screen}
    BY <1>10 DEF GivenUp
  <2> QED
    BY <1>2, <1>3, <1>9, <2>1
<1>11. CASE NoticeClose
  <2>1. \/ screen' = [screen EXCEPT !.view = ApplySnapshot(@, snapshot)]
        \/ screen' = screen
    BY <1>11 DEF NoticeClose, Closed, FinishClosed
  <2>2. snapshot \in Snapshot
    BY <1>1 DEF ClientPlaces
  <2> QED
    BY <1>4, <1>5, <2>1, <2>2
<1> QED
  BY <1>4, <1>6, <1>7, <1>8, <1>10, <1>11
     DEF Browser, Receive, ReceiveRefusal, HoldEvent, HoldTooMany, StartClosing, AskAgain, GiveUp

-----------------------------------------------------------------------------
(* A browser reads the log *)

LogInv ==
    /\ PlacesInv /\ RecordInv /\ OpeningRounds
    /\ ShowsInOrder(screen)
    /\ ~gaveUp => ReadInv

LEMMA InitReads == Init => OpeningRounds /\ ShowsInOrder(screen) /\ ReadInv
<1> SUFFICES ASSUME Init PROVE OpeningRounds /\ ShowsInOrder(screen) /\ ReadInv
  OBVIOUS
<1>1. /\ journal = <<>> /\ pendingDelivery = <<>> /\ stream = <<>> /\ held = <<>>
      /\ upstream = <<>> /\ attached = FALSE /\ conn = "closed"
      /\ screen.cursor = 0 /\ screen.shown = <<>> /\ request.after = 0
  BY DEF Init, PublicationInit, NoRequest
<1>2. Place(0) = 0 /\ Len(journal) = 0
  BY <1>1 DEF Place, OpenedBy
<1>3. Reads(screen)
  <2>1. [i \in 1..0 |-> PublicIds[i]] = <<>>
    OBVIOUS
  <2> QED
    BY <1>1, <1>2, <2>1 DEF Reads
<1>4. OpeningRounds
  BY <1>1 DEF OpeningRounds
<1>5. SocketInv /\ LiveLeads /\ SnapshotsLead /\ PagesLead /\ PagesFit /\ RequestsFit
  BY <1>1 DEF SocketInv, LiveLeads, SnapshotsLead, PagesLead, PagesFit, RequestsFit
<1>6. ShowsInOrder(screen)
  BY <1>1 DEF ShowsInOrder
<1> QED
  BY <1>3, <1>4, <1>5, <1>6 DEF ReadInv

\* What is shown stays in order while the journal grows.
LEMMA ShowsStill ==
    ASSUME PlacesInv, Grows, ShowsInOrder(screen), screen' = screen
    PROVE  ShowsInOrder(screen)' /\ Follows(screen', screen)
<1>1. /\ journal \in Seq(Entry) /\ screen.cursor \in 0..Len(journal) /\ Len(journal) \in Nat
      /\ Len(screen.shown) \in Nat
  BY StreamKinds DEF Screen
<1>2. \A k \in 1..screen.cursor : journal'[k] = journal[k]
  <2>1. \A k \in 1..screen.cursor : k \in 1..Len(journal)
    BY <1>1
  <2>2. CASE journal' = journal
    BY <2>2
  <2>3. ASSUME NEW entry \in Entry, journal' = Append(journal, entry)
        PROVE  \A k \in 1..screen.cursor : journal'[k] = journal[k]
    BY <1>1, <2>1, <2>3
  <2> QED
    BY <2>2, <2>3 DEF Grows
<1> QED
  BY <1>1, <1>2 DEF ShowsInOrder, Follows

LEMMA StepReadsOn ==
    ASSUME LogInv, [Next]_vars
    PROVE  /\ LogInv' /\ Follows(screen', screen)
           /\ \/ journal' = journal /\ (gaveUp => gaveUp')
              \/ Grows /\ UNCHANGED <<screen, gaveUp>>
<1>1. RecordInv' /\ OpeningRounds' /\ PlacesInv'
  BY StepRecords, StepOpenings, StepPlaces DEF LogInv
<1>2. OneOpening /\ OneOpening'
  BY <1>1, OpenedOnce, OpenedOnceNext DEF LogInv, RecordInv
<1>3. CASE Elsewhere
  <2>1. Grows /\ UNCHANGED <<screen, gaveUp>>
    BY <1>3, DeliveriesPlaced, NoticesPlaced, GamePlaced
       DEF LogInv, Elsewhere, PublicationNext, client, tab
  <2> QED
    BY <1>1, <1>2, <1>3, <2>1, ElsewhereReads, ShowsStill DEF LogInv
<1>4. CASE Server
  <2>1. Grows /\ UNCHANGED <<screen, gaveUp>>
    BY <1>4 DEF Server, Authenticate, LoseSocket, AnswerPage, RefusePage, Answer, record, tab,
                Grows
  <2> QED
    BY <1>1, <1>4, <2>1, ServerReads, ShowsStill DEF LogInv
<1>5. CASE Browser
  <2>1. journal' = journal
    BY <1>5 DEF Browser, Receive, ReceiveAuth, ReceivePage, ReceiveRefusal, ShowEvent,
                HoldEvent, HoldTooMany, StartClosing, NoticeClose, Closed, AskAgain, GiveUp,
                record
  <2>2. gaveUp => gaveUp'
    BY <1>5, Zenon
       DEF Browser, Receive, ReceiveAuth, ReceivePage, ReceiveRefusal, ShowEvent,
           HoldEvent, HoldTooMany, StartClosing, NoticeClose, Closed, AskAgain, GiveUp, GivenUp
  <2>3. ~gaveUp' => ReadInv'
    BY <1>2, <1>5, <2>2, BrowserReads DEF LogInv
  <2> QED
    BY <1>1, <1>5, <2>1, <2>2, <2>3, BrowserShows DEF LogInv
<1>6. CASE UNCHANGED vars
  <2>1. ReadInv => ReadInv'
    BY <1>6, ReadsStay
       DEF ReadInv, SocketInv, LiveLeads, SnapshotsLead, PagesLead, PagesFit,
           RequestsFit, vars, record, socket, client, tab
  <2>2. Grows /\ UNCHANGED <<screen, gaveUp>>
    BY <1>6 DEF Grows, vars, record, client, tab
  <2> QED
    BY <1>1, <2>1, <2>2, ShowsStill DEF LogInv
<1> QED
  BY <1>3, <1>4, <1>5, <1>6 DEF Next

\* What the page shows is of the log, and all of it up to its place while nothing was given up.
LEMMA ShownIsLogged ==
    ASSUME LogInv
    PROVE  /\ PublicIds \in Seq(Nat) /\ screen.shown \in Seq(Nat)
           /\ Log!InOrder(screen.shown)
           /\ ~gaveUp => Log!Extends(PublicIds, screen.shown)
<1>1. /\ journal \in Seq(Entry) /\ OneOpening /\ screen.cursor \in 0..Len(journal)
      /\ Len(journal) \in Nat /\ screen.shown \in Seq(Nat)
  BY OpenedOnce, StreamKinds DEF LogInv, RecordInv, Screen
<1>2. PublicIds \in Seq(Nat) /\ Len(PublicIds) \in Nat
  BY <1>1, PublicPlaces
<1>3. ASSUME NEW j \in 1..Len(screen.shown)
      PROVE  /\ \E k \in 1..Len(PublicIds) : PublicIds[k] = screen.shown[j]
             /\ \A i \in 1..(j - 1) : screen.shown[i] < screen.shown[j]
  <2> DEFINE c == screen.shown[j]
  <2>1. /\ c \in 1..screen.cursor /\ journal[c].type # "opening"
        /\ \A i \in 1..(j - 1) : screen.shown[i] < screen.shown[j]
    BY <1>3 DEF LogInv, ShowsInOrder
  <2>2. c \in 1..Len(journal) /\ c \in 0..Len(journal) /\ c - 1 \in 0..Len(journal)
    BY <1>1, <2>1
  <2> HIDE DEF c
  <2>3. /\ Place(c) = Place(c - 1) + 1 /\ PublicIds[Place(c)] = c
        /\ Place(c) \in 0..Len(PublicIds) /\ Place(c - 1) \in 0..Len(PublicIds)
    BY <1>1, <2>1, <2>2, PublicPlaces
  <2>4. Place(c) \in 1..Len(PublicIds)
    BY <1>2, <2>3
  <2> QED
    BY <2>1, <2>3, <2>4 DEF c
<1>4. Log!InOrder(screen.shown)
  BY <1>3 DEF Log!InOrder
<1>5. ASSUME ~gaveUp
      PROVE  Log!Extends(PublicIds, screen.shown)
  <2> DEFINE p == Place(screen.cursor)
  <2>1. /\ p \in 0..Len(PublicIds) /\ screen.shown = [i \in 1..p |-> PublicIds[i]]
    BY <1>1, <1>5, PublicPlaces DEF LogInv, ReadInv, Reads
  <2> HIDE DEF p
  <2>2. Len(screen.shown) = p /\ p <= Len(PublicIds)
    BY <1>2, <2>1
  <2>3. SubSeq(PublicIds, 1, p) = [i \in 1..p |-> PublicIds[i]]
    BY <1>2, <2>1
  <2> QED
    BY <2>1, <2>2, <2>3 DEF Log!Extends
<1> QED
  BY <1>1, <1>2, <1>4, <1>5

LEMMA ShownIsLoggedNext ==
    LogInv' => /\ (PublicIds \in Seq(Nat))' /\ (screen.shown \in Seq(Nat))'
               /\ Log!InOrder(screen.shown)'
               /\ (~gaveUp => Log!Extends(PublicIds, screen.shown))'
BY ShownIsLogged, PTL

LEMMA Prefixed ==
    ASSUME NEW s \in Seq(Nat), NEW t \in Seq(Nat), Len(s) <= Len(t),
           \A i \in 1..Len(s) : t[i] = s[i]
    PROVE  SubSeq(t, 1, Len(s)) = s
<1>1. Len(s) \in Nat /\ Len(t) \in Nat /\ \A i \in 1..Len(s) : i \in 1..Len(t)
  OBVIOUS
<1>2. SubSeq(t, 1, Len(s)) = [i \in 1..Len(s) |-> t[i]]
  BY <1>1
<1>3. s = [i \in 1..Len(s) |-> s[i]]
  OBVIOUS
<1> QED
  BY <1>2, <1>3

\* What a step of the game records is written to the log; what the browser shows is read.
LEMMA StepOfTheLog ==
    ASSUME LogInv, LogInv', Follows(screen', screen),
           \/ journal' = journal /\ (gaveUp => gaveUp')
           \/ Grows /\ UNCHANGED <<screen, gaveUp>>
    PROVE  \/ Log!Write \/ Log!Read
           \/ UNCHANGED <<PublicIds, screen.shown, ~gaveUp>>
<1>1. /\ PublicIds \in Seq(Nat) /\ screen.shown \in Seq(Nat) /\ screen'.shown \in Seq(Nat)
      /\ journal \in Seq(Entry) /\ OneOpening /\ OneOpening'
  BY ShownIsLogged, ShownIsLoggedNext, OpenedOnce, OpenedOnceNext, StreamKinds
     DEF LogInv, RecordInv
<1>2. CASE journal' = journal /\ (gaveUp => gaveUp')
  <2>1. PublicIds' = PublicIds
    BY <1>2, ReadsStay
  <2>2. Log!InOrder(screen'.shown)
    BY <2>1, ShownIsLoggedNext DEF Log!InOrder
  <2>3. Log!Extends(screen'.shown, screen.shown)
    BY <1>1, Prefixed DEF Follows, Log!Extends
  <2>4. ~gaveUp' => Log!Extends(PublicIds, screen'.shown)
    BY <2>1, ShownIsLoggedNext DEF Log!Extends
  <2> QED
    BY <1>2, <2>1, <2>2, <2>3, <2>4 DEF Log!Read
<1>3. CASE Grows /\ UNCHANGED <<screen, gaveUp>>
  <2> DEFINE n == Len(PublicIds)
  <2>1. \/ PublicIds' = PublicIds
        \/ /\ Len(PublicIds') = n + 1
           /\ \A i \in 1..n : PublicIds'[i] = PublicIds[i]
    BY <1>1, <1>3, PublicGrows
  <2>2. CASE PublicIds' = PublicIds
    BY <1>3, <2>2
  <2>3. CASE Len(PublicIds') = n + 1 /\ \A i \in 1..n : PublicIds'[i] = PublicIds[i]
    <3>1. PublicIds' \in Seq(Nat) /\ n \in Nat /\ n <= Len(PublicIds')
      BY <1>1, <2>3, ShownIsLoggedNext
    <3>2. Log!Extends(PublicIds', PublicIds)
      BY <1>1, <2>3, <3>1, Prefixed DEF Log!Extends
    <3> QED
      BY <1>3, <2>3, <3>2 DEF Log!Write
  <2> QED
    BY <2>1, <2>2, <2>3
<1> QED
  BY <1>2, <1>3

\* A browser shows the public events the game records, but the opening, each once and in
\* order, whatever sockets it loses on the way, and leaves none out before it has given a
\* catch-up up.
THEOREM BrowserReadsTheLog == Spec => ReadsTheLog
<1>1. Init => LogInv
  BY InitReads, InitPlaces, InitRecords DEF LogInv
<1>2. LogInv /\ [Next]_vars => LogInv'
  BY StepReadsOn
<1>3. LogInv /\ LogInv' /\ [Next]_vars => [Log!Write \/ Log!Read]_(Log!logVars)
  <2> SUFFICES ASSUME LogInv, LogInv', [Next]_vars
               PROVE  [Log!Write \/ Log!Read]_(Log!logVars)
    OBVIOUS
  <2>1. Log!Write \/ Log!Read \/ UNCHANGED <<PublicIds, screen.shown, ~gaveUp>>
    BY StepReadsOn, StepOfTheLog
  <2> QED
    BY <2>1 DEF Log!logVars
<1>4. Init => Log!LogInit
  <2> SUFFICES ASSUME Init PROVE Log!LogInit
    OBVIOUS
  <2>1. journal = <<>> /\ screen.shown = <<>> /\ gaveUp = FALSE
    BY DEF Init, PublicationInit
  <2>2. PublicIds = <<>>
    <3>1. ~Opened /\ Len(journal) = 0
      BY <2>1 DEF Opened
    <3>2. PublicIds = [i \in 1..0 |-> i]
      BY <3>1 DEF PublicIds
    <3>3. [i \in 1..0 |-> i] = <<>>
      OBVIOUS
    <3> QED
      BY <3>2, <3>3
  <2> QED
    BY <2>1, <2>2 DEF Log!LogInit
<1> QED
  BY <1>1, <1>2, <1>3, <1>4, PTL DEF Spec, ReadsTheLog, Log!LogSpec
=============================================================================
