------------------------------- MODULE Replay -------------------------------
(***************************************************************************)
(* A player's browser that loses its socket, comes back and catches up     *)
(* from the journal while live events arrive: static/js/app.js, journal.js *)
(* and transport.js, against Publication.                                  *)
(*                                                                         *)
(* A message is handled in the step that takes it off the stream.  Of the  *)
(* page the model keeps the position in the journal, the public events     *)
(* shown, and the parts of the view that tell the state of the game.       *)
(***************************************************************************)
EXTENDS Publication

CONSTANTS
    PageLimit,        \* limit of a journal request
    HoldLimit,        \* live events held back while replaying
    Timeouts,         \* whether the 30 s timer of a request may fire
    MaxLosses,        \* bound: sockets lost by the network
    MaxRefusals       \* bound: requests refused by the history budget

ASSUME ReplayAssumption ==
    /\ PageLimit \in Nat \ {0} /\ HoldLimit \in Nat \ {0} /\ Timeouts \in BOOLEAN
    /\ MaxLosses \in Nat /\ MaxRefusals \in Nat

VARIABLES
    conn,         \* "closed"; "open": authenticating; "live": authenticated;
                  \* "closing": still authenticated, but the socket no longer OPEN
    screen,       \* clientSession.cursor, what the log shows, and the view
    replaying,
    snapshot,     \* replaySnapshot
    held,         \* liveEvents
    request,      \* the replay entry of journalRequests and its timer
    upstream,     \* journal requests on their way to the server
    losses, refusals,
    outrun,       \* history: this catch-up brought what its snapshot does not know
    gaveUp        \* history: some catch-up has been given up

tab     == <<conn, screen, replaying, snapshot, held, request, outrun, gaveUp>>
client  == <<tab, upstream, losses, refusals>>
vars    == <<game, record, socket, client>>

View    == [thinking : BOOLEAN, retry : BOOLEAN, ended : BOOLEAN, opening : BOOLEAN]
Blank   == [thinking |-> FALSE, retry |-> FALSE, ended |-> FALSE, opening |-> FALSE]
Screen  == [cursor : Nat, shown : Seq(Nat), view : View]
NoRequest == [status |-> "none", after |-> 0]
NoSnapshot == [type |-> "auth_ok", latest |-> 0, phase |-> "lobby", opened |-> FALSE]

TypeOK ==
    /\ PublicationTypeOK
    /\ conn \in {"closed", "open", "live", "closing"}
    /\ screen \in Screen
    /\ replaying \in BOOLEAN
    /\ snapshot \in Snapshot
    /\ held \in Seq(Event)
    /\ request \in [status : {"none", "sent", "backoff"}, after : Nat]
    /\ upstream \in Seq(Nat)
    /\ losses \in Nat /\ refusals \in Nat
    /\ outrun \in BOOLEAN /\ gaveUp \in BOOLEAN

Init ==
    /\ PublicationInit
    /\ conn = "closed"
    /\ screen = [cursor |-> 0, shown |-> <<>>, view |-> Blank]
    /\ replaying = FALSE /\ snapshot = NoSnapshot /\ held = <<>>
    /\ request = NoRequest /\ upstream = <<>>
    /\ losses = 0 /\ refusals = 0 /\ outrun = FALSE /\ gaveUp = FALSE

-----------------------------------------------------------------------------
(* The server's side of the socket *)

\* The opening is in the snapshot from its commit on.
Opened == \E i \in DOMAIN journal : journal[i].type = "opening"
OpeningPending == \E i \in DOMAIN pendingDelivery : pendingDelivery[i].type = "opening"

\* The first message of a socket, queued in the step that makes it the active one.
TakeSnapshot ==
    [type |-> "auth_ok", latest |-> Len(journal), phase |-> phase,
     opened |-> Opened \/ OpeningPending]

Authenticate ==
    /\ conn = "closed"
    /\ conn' = "open"
    /\ attached' = TRUE /\ stream' = <<TakeSnapshot>> /\ upstream' = <<>>
    /\ UNCHANGED <<game, record, screen, replaying, snapshot, held, request, losses,
                   refusals, outrun, gaveUp>>

\* The server or the network loses the socket, with what was on its way.
LoseSocket ==
    /\ attached /\ losses < MaxLosses
    /\ attached' = FALSE /\ stream' = <<>>
    /\ losses' = losses + 1
    /\ UNCHANGED <<game, record, tab, upstream, refusals>>

\* Mutant: a page starts one event late.
ShortPage(after) ==
    LET upto == IF after + PageLimit < Len(journal) THEN after + PageLimit ELSE Len(journal)
    IN  [type |-> "journal_page", after |-> after + 1, upto |-> upto,
         more |-> upto < Len(journal)]

\* Mutant: every page says it is the last.
LastPage(after) ==
    LET upto == IF after + PageLimit < Len(journal) THEN after + PageLimit ELSE Len(journal)
    IN  [type |-> "journal_page", after |-> after, upto |-> upto, more |-> FALSE]

\* journal.page for a replay: the next events, up to the limit.
PageAfter(after) ==
    LET upto == IF after + PageLimit < Len(journal) THEN after + PageLimit ELSE Len(journal)
    IN  [type |-> "journal_page", after |-> after, upto |-> upto,
         more |-> upto < Len(journal)]

\* Only the socket that owns the player is answered.
Answer(m) ==
    /\ attached /\ upstream # <<>>
    /\ upstream' = Tail(upstream)
    /\ Enqueue(m)
    /\ UNCHANGED <<game, record, tab, losses>>

AnswerPage == Answer(PageAfter(Head(upstream))) /\ UNCHANGED refusals

RefusePage ==
    /\ refusals < MaxRefusals /\ refusals' = refusals + 1
    /\ Answer([type |-> "refused", after |-> Head(upstream)])

-----------------------------------------------------------------------------
(* What messages do to the page *)

\* applySnapshot
ApplySnapshot(v, s) ==
    [thinking |-> s.phase \in {"preparing", "thinking"}, retry |-> s.phase = "paused",
     ended |-> s.phase = "ended", opening |-> v.opening \/ s.opened]

\* The branches of handleMessage for game events.
EventView(v, e, replayed) ==
    CASE e.type = "thinking_on"  -> [v EXCEPT !.thinking = TRUE, !.retry = FALSE]
      [] e.type = "thinking_off" -> [v EXCEPT !.thinking = FALSE]
      [] e.type = "opening"      -> [v EXCEPT !.thinking = FALSE, !.opening = TRUE]
      [] e.type = "outcome"      -> [v EXCEPT !.thinking = @ /\ replayed]
      [] e.type = "paused"       -> [v EXCEPT !.thinking = FALSE, !.retry = TRUE]
      [] e.type = "game_ended"   ->
            [v EXCEPT !.thinking = FALSE, !.retry = FALSE, !.ended = TRUE]
      [] OTHER                   -> v

\* handleMessage past the hold-back: an event whose id the cursor has passed is dropped.
Handle(s, e, replayed) ==
    IF e.id # 0 /\ e.id <= s.cursor THEN s
    ELSE [cursor |-> IF e.id = 0 THEN s.cursor ELSE e.id,
          shown  |-> IF e.id = 0 \/ e.type = "opening" THEN s.shown
                     ELSE Append(s.shown, e.id),
          view   |-> EventView(s.view, e, replayed)]

\* A replayed opening only moves the cursor: "the snapshot already supplies" it.
HandleReplayed(s, e) ==
    IF e.type = "opening"
    THEN [s EXCEPT !.cursor = IF e.id > @ THEN e.id ELSE @]
    ELSE Handle(s, e, TRUE)

\* The events of a page, or those held back, one after another.
HandleAll(s, events, replayed) ==
    LET after[n \in 0..Len(events)] ==
            IF n = 0 THEN s
            ELSE IF replayed THEN HandleReplayed(after[n - 1], events[n])
            ELSE Handle(after[n - 1], events[n], FALSE)
    IN  after[Len(events)]

HandlePage(s, page) ==
    LET events == [i \in 1..(page.upto - page.after) |->
                      [type |-> journal[page.after + i].type,
                       round |-> journal[page.after + i].round, id |-> page.after + i]]
    IN  HandleAll(s, events, TRUE)

\* The close handler has cleared `authenticated`: what was held back is dropped.
\* (As a mutant of Finish: the held events are lost.)
FinishClosed(s) == [s EXCEPT !.view = ApplySnapshot(@, snapshot)]

\* finishJournalReplay: the snapshot once more, then what was held back.
Finish(s) == HandleAll([s EXCEPT !.view = ApplySnapshot(@, snapshot)], held, FALSE)

-----------------------------------------------------------------------------
(* Handlers of the browser *)

\* The next message for this tab, when its socket still delivers.
Arrives(types) ==
    /\ conn \in {"open", "live"} /\ stream # <<>> /\ Head(stream).type \in types
    /\ stream' = Tail(stream) /\ UNCHANGED attached

Ask(after) ==
    /\ request' = [status |-> "sent", after |-> after]
    /\ upstream' = Append(upstream, after)

ReceiveAuth ==
    /\ Arrives({"auth_ok"})
    /\ LET m == Head(stream) IN
          /\ conn' = "live" /\ held' = <<>> /\ snapshot' = m
          /\ replaying' = (m.latest > screen.cursor)
          /\ screen' = [screen EXCEPT !.view = ApplySnapshot(@, m)]
          /\ IF m.latest > screen.cursor THEN Ask(screen.cursor)
             ELSE UNCHANGED <<request, upstream>>
    /\ outrun' = FALSE
    /\ UNCHANGED <<game, record, losses, refusals, gaveUp>>

\* An answer is taken for the replay even when its request has been given up.
ReceivePage ==
    /\ Arrives({"journal_page"})
    /\ LET page == Head(stream)
           read == HandlePage(screen, page)
       IN  IF page.more
           THEN /\ Ask(page.upto) /\ screen' = read
                /\ UNCHANGED <<replaying, held>>
           ELSE /\ request' = NoRequest /\ UNCHANGED upstream
                /\ screen' = Finish([read EXCEPT
                                        !.cursor = IF page.upto > @ THEN page.upto ELSE @])
                /\ replaying' = FALSE /\ held' = <<>>
    /\ outrun' = (outrun \/ Head(stream).upto > snapshot.latest \/ ~replaying)
    /\ UNCHANGED <<game, record, conn, snapshot, losses, refusals, gaveUp>>

\* handleJournalError: the timer now waits for the budget, then the request is repeated.
ReceiveRefusal ==
    /\ Arrives({"refused"})
    /\ request' = IF request = [status |-> "sent", after |-> Head(stream).after]
                  THEN [request EXCEPT !.status = "backoff"] ELSE request
    /\ UNCHANGED <<game, record, conn, screen, replaying, snapshot, held, outrun,
                   upstream, losses, refusals, gaveUp>>

\* Mutant: the retry timer marks the request as sent but sends nothing.
AskInVain ==
    /\ conn = "live" /\ request.status = "backoff"
    /\ request' = [request EXCEPT !.status = "sent"]
    /\ UNCHANGED <<game, record, socket, conn, screen, replaying, snapshot, held, outrun,
                   upstream, losses, refusals, gaveUp>>

\* failJournalRequest: a catch-up under way ends with what was held back.
GivenUp ==
    /\ request' = NoRequest /\ UNCHANGED upstream
    /\ screen' = IF replaying THEN Finish(screen) ELSE screen
    /\ held' = IF replaying THEN <<>> ELSE held
    /\ gaveUp' = (gaveUp \/ replaying)
    /\ replaying' = FALSE

\* The timer of a refused request.  On a socket that is no longer OPEN nothing is sent,
\* and requestJournal gives up at once.
AskAgain ==
    /\ request.status = "backoff"
    /\ \/ conn = "live" /\ Ask(request.after) /\ UNCHANGED <<screen, replaying, held, gaveUp>>
       \/ conn = "closing" /\ GivenUp
    /\ UNCHANGED <<game, record, socket, conn, snapshot, outrun, losses, refusals>>

\* Mutant: the timer forgets the request only.
ForgetRequest ==
    /\ Timeouts /\ conn = "live" /\ request.status = "sent"
    /\ request' = NoRequest
    /\ UNCHANGED <<game, record, socket, conn, screen, replaying, held, snapshot, outrun,
                   upstream, losses, refusals, gaveUp>>

\* The 30 s timer of a request.
GiveUp ==
    /\ Timeouts /\ conn \in {"live", "closing"} /\ request.status = "sent"
    /\ GivenUp
    /\ UNCHANGED <<game, record, socket, conn, snapshot, outrun, losses, refusals>>

\* Errors are never held back.
GameEvents == PublicTypes \cup OtherTypes
HeldBack(e) == replaying /\ e.type # "paused"

ShowEvent ==
    /\ Arrives(GameEvents) /\ ~HeldBack(Head(stream))
    /\ screen' = Handle(screen, Head(stream), FALSE)
    /\ outrun' = (outrun \/ replaying)
    /\ UNCHANGED <<game, record, conn, replaying, snapshot, held, request, upstream,
                   losses, refusals, gaveUp>>

HoldEvent ==
    /\ Arrives(GameEvents) /\ HeldBack(Head(stream))
    /\ Len(held) < HoldLimit
    /\ held' = Append(held, Head(stream))
    /\ UNCHANGED <<game, record, conn, screen, replaying, snapshot, request, outrun,
                   upstream, losses, refusals, gaveUp>>

\* Too many events: the browser closes the socket, which delivers nothing from then on;
\* what the page holds and asks for waits for the close handler.
HoldTooMany ==
    /\ conn = "live" /\ stream # <<>> /\ Head(stream).type \in GameEvents
    /\ HeldBack(Head(stream)) /\ Len(held) >= HoldLimit
    /\ conn' = "closing" /\ attached' = FALSE /\ stream' = <<>>
    /\ UNCHANGED <<game, record, screen, replaying, snapshot, held, request, outrun,
                   upstream, losses, refusals, gaveUp>>

\* The server's close frame arrives before the closing is complete.
StartClosing ==
    /\ conn = "live" /\ ~attached
    /\ conn' = "closing"
    /\ UNCHANGED <<game, record, socket, screen, replaying, snapshot, held, request, outrun,
                   upstream, losses, refusals, gaveUp>>

\* The close handler of the socket; connectSocket comes with Authenticate.
Closed ==
    /\ conn' = "closed"
    /\ request' = NoRequest
    /\ IF request # NoRequest /\ replaying
       THEN screen' = FinishClosed(screen) /\ replaying' = FALSE /\ held' = <<>>
       ELSE UNCHANGED <<screen, replaying, held>>
    /\ UNCHANGED <<game, record, snapshot, outrun, upstream, losses, refusals, gaveUp>>

NoticeClose ==
    /\ conn # "closed" /\ ~attached
    /\ Closed
    /\ UNCHANGED socket

-----------------------------------------------------------------------------
Receive == \/ ReceiveAuth \/ ReceivePage \/ ReceiveRefusal
           \/ ShowEvent \/ HoldEvent \/ HoldTooMany
Browser == Receive \/ AskAgain \/ GiveUp \/ StartClosing \/ NoticeClose
Server  == Authenticate \/ LoseSocket \/ AnswerPage \/ RefusePage

Elsewhere == PublicationNext /\ UNCHANGED client

Next == Elsewhere \/ Server \/ Browser

Spec == Init /\ [][Next]_vars

\* The browser reconnects and handles what arrives, the server answers requests.
Fairness ==
    /\ WF_vars(Authenticate) /\ WF_vars(AnswerPage \/ RefusePage)
    /\ WF_vars(Receive) /\ WF_vars(AskAgain) /\ WF_vars(NoticeClose)

FairSpec == Spec /\ Fairness

-----------------------------------------------------------------------------
(* Properties *)

\* An event the game committed gets one place in the journal, whatever deadline cuts
\* its delivery and whoever finishes it.
Committed == {i \in DOMAIN journal : journal[i].type # "chat"}
RecordedOnce == \A i, j \in Committed : journal[i] = journal[j] => i = j

\* A round's outcome is recorded before the start of the next round, and the end last,
\* with nothing committed left behind it.
RecordedInOrder ==
    \A i, j \in Committed :
       /\ journal[i].type = "outcome" /\ journal[j].type = "round_start"
             /\ journal[i].round < journal[j].round => i < j
       /\ journal[j].type = "game_ended" => i <= j /\ pendingDelivery = <<>>

\* A browser that holds live events back has a request that will release them, also
\* while its socket closes.
ReplayIsServed == replaying /\ conn \in {"live", "closing"} => request.status # "none"

\* A request waits for its answer somewhere, or its socket is gone.
AnswerIsComing ==
    request.status = "sent" /\ attached =>
       \/ \E i \in DOMAIN upstream : upstream[i] = request.after
       \/ \E i \in DOMAIN stream :
             /\ stream[i].type \in {"journal_page", "refused"}
             /\ stream[i].after = request.after

\* Nothing is under way between the game and this browser.
Quiet ==
    /\ conn = "live" /\ attached /\ ~replaying /\ stream = <<>>
    /\ publishing = Silence /\ pendingDelivery = <<>> /\ notices = <<>>
    /\ effects = "free" /\ ~cut

ViewMatches ==
    /\ screen.view.thinking = (phase \in {"preparing", "thinking"})
    /\ screen.view.retry = (phase = "paused")
    /\ screen.view.ended = (phase = "ended")
    /\ screen.view.opening = Opened

\* Once all is delivered the page shows the state of the game, unless its catch-up
\* brought news that is younger than the snapshot applied after it.
ViewIsCurrent == Quiet /\ ~outrun => ViewMatches

\* INSTALL.md: "Rejoining restores the opening and current state".
RejoinRestoresState == Quiet => ViewMatches

\* The browser shows every public event but the opening, in order and once, and leaves
\* some out only after it has given a catch-up up.
PublicIds ==
    IF Opened
    THEN LET opening == CHOOSE i \in DOMAIN journal : journal[i].type = "opening"
         IN  [i \in 1..(Len(journal) - 1) |-> IF i < opening THEN i ELSE i + 1]
    ELSE [i \in 1..Len(journal) |-> i]
Log == INSTANCE PublicLog
          WITH log <- PublicIds, seen <- screen.shown, patient <- ~gaveUp
ReadsTheLog == Log!LogSpec

\* Across lost sockets, full queues and refused requests the browser comes to see
\* everything recorded, each time something is.
CatchesUp == []<>(screen.cursor = Len(journal))
=============================================================================
