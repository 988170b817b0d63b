----------------------------- MODULE Chronicle -----------------------------
(***************************************************************************)
(* How one game is told: the inference jobs of the engine (_run_job with   *)
(* _prepare_scenario, _prepare_start and _resolve_round_work) between the  *)
(* storyteller's Memory and the Transcript on disk.                        *)
(*                                                                         *)
(* Session has these jobs with the players around them; here a job is      *)
(* reduced to what it asks, stages, commits and archives, and to the three *)
(* ways it can be interrupted: its deadline, the shutdown of the game, and *)
(* an error of the disk.                                                   *)
(***************************************************************************)
EXTENDS Memory, Transcript

CONSTANTS
    Triggered,      \* whether the scenario has a conditional chance rule
    MaxExchanges,   \* bound: exchanges told
    MaxFailures,    \* bound: jobs that fail
    MaxShutdowns    \* bound: calls of shutdown

ASSUME ChronicleAssumption ==
    /\ Triggered \in BOOLEAN
    /\ MaxExchanges \in Nat /\ MaxFailures \in Nat /\ MaxShutdowns \in Nat

VARIABLES
    job,         \* the task in inference_task
    scene,       \* a scenario is ready: the lobby is open
    planned,     \* pending_resolution has its dice
    effects,     \* what effects_lock is held for
    ended,       \* the game is ENDED
    lost,        \* rounds whose archiving failed; 0 is an opening that was not removed
    failures, shutdowns

gameVars == <<job, scene, planned, effects, ended, lost, failures, shutdowns>>
chronicleVars == <<memoryVars, transcriptVars, gameVars>>

Idle == [kind |-> "none", step |-> "idle", asked |-> 0, late |-> FALSE]

GameTypeOK ==
    /\ job \in [kind : {"none", "scenario", "start", "round"},
                step : {"idle", "asking", "committing", "archiving", "discarding"},
                asked : Nat, late : BOOLEAN]
    /\ scene \in BOOLEAN /\ planned \in BOOLEAN /\ ended \in BOOLEAN
    /\ effects \in {"free", "job", "ending"}
    /\ lost \subseteq Nat /\ failures \in Nat /\ shutdowns \in Nat

ChronicleTypeOK == MemoryTypeOK /\ TranscriptTypeOK /\ GameTypeOK

ChronicleInit ==
    /\ MemoryInit /\ TranscriptInit
    /\ job = Idle /\ scene = FALSE /\ planned = FALSE
    /\ effects = "free" /\ ended = FALSE /\ lost = {}
    /\ failures = 0 /\ shutdowns = 0

-----------------------------------------------------------------------------
(* Jobs *)

Launched(kind) == job' = [Idle EXCEPT !.kind = kind, !.step = "asking"]

\* scenario_init, start_game, the last action of a round, a retry of a paused round and the
\* automatic retries of _run_job all begin here.
LaunchScenario ==
    /\ job = Idle /\ ~ended /\ ~scene
    /\ SetGenesis /\ Launched("scenario")
    /\ UNCHANGED <<transcriptVars, scene, planned, effects, ended, lost, failures, shutdowns>>

Launch ==
    /\ job = Idle /\ ~ended /\ scene
    /\ told < MaxExchanges
    /\ Launched(IF told = 0 THEN "start" ELSE "round")
    /\ UNCHANGED <<memoryVars, transcriptVars, scene, planned, effects, ended, lost,
                   failures, shutdowns>>

\* Audits the output of a request may need: one of the events for a round, one of each hidden
\* roll for its dice, none for a title, an opening and a trigger pass.
Audits ==
    IF job.kind # "round" \/ (~planned /\ Triggered /\ job.asked = 0) THEN 0
    ELSE IF planned THEN 1 ELSE MaxHidden

\* generate_scenario_title, stage_start_state, plan_dice and stage_resolution.
Ask(prompt) ==
    /\ job.step = "asking"
    /\ BeginRequest(job.kind = "start" \/ (job.kind = "round" /\ planned), prompt,
                    job.kind # "scenario", Audits)
    /\ UNCHANGED <<transcriptVars, gameVars>>

Work ==
    /\ RequestStep
    /\ UNCHANGED <<transcriptVars, gameVars>>

\* The title opens the lobby.
OpenLobby ==
    /\ job.kind = "scenario" /\ effects = "free"
    /\ EndRequest("done")
    /\ job' = Idle /\ scene' = TRUE
    /\ UNCHANGED <<transcriptVars, planned, effects, ended, lost, failures, shutdowns>>

\* The trigger pass of a conditional rule comes before the dice; the dice are then kept for
\* every later attempt at the round.
Plan ==
    /\ job.kind = "round" /\ ~planned
    /\ EndRequest("done")
    /\ job' = [job EXCEPT !.asked = @ + 1]
    /\ planned' = (Triggered => job.asked = 1)
    /\ UNCHANGED <<transcriptVars, scene, effects, ended, lost, failures, shutdowns>>

Staged ==
    /\ job.kind = "start" \/ (job.kind = "round" /\ planned)
    /\ job.step = "asking"
    /\ EndRequest("done")
    /\ job' = [job EXCEPT !.step = "committing"]
    /\ UNCHANGED <<transcriptVars, scene, planned, effects, ended, lost, failures, shutdowns>>

FailJob ==
    /\ failures < MaxFailures
    /\ job' = Idle /\ failures' = failures + 1

\* The request fails, and the job with it.
GiveUp ==
    /\ EndRequest("failed")
    /\ FailJob
    /\ UNCHANGED <<transcriptVars, scene, planned, effects, ended, lost, shutdowns>>

\* The deadline of the job strikes while it asks, or waits for effects_lock.
Expire ==
    /\ job.step \in {"asking", "committing"}
    /\ FailJob
    /\ CancelRequest
    /\ UNCHANGED <<transcriptVars, scene, planned, effects, ended, lost, shutdowns>>

-----------------------------------------------------------------------------
(* Committing a round, and archiving it *)

CommitRound ==
    /\ job.kind = "round" /\ job.step = "committing" /\ effects = "free"
    /\ Commit
    /\ planned' = FALSE
    /\ IF CannotAppend
       THEN lost' = lost \cup {told} /\ job' = Idle /\ UNCHANGED <<transcriptVars, effects>>
       ELSE /\ AppendRound(told)
            /\ effects' = "job" /\ job' = [job EXCEPT !.step = "archiving"]
            /\ UNCHANGED lost
    /\ UNCHANGED <<scene, ended, failures, shutdowns>>

\* An error is logged and the round delivered all the same; so is a round whose deadline
\* struck, by the recovery of _run_job.
RoundArchived(r) ==
    /\ job.kind = "round" /\ job.step = "archiving"
    /\ Take(r)
    /\ lost' = IF r = "error" THEN lost \cup {told - 1} ELSE lost
    /\ job' = Idle /\ effects' = "free"
    /\ UNCHANGED <<memoryVars, scene, planned, ended, failures, shutdowns>>

-----------------------------------------------------------------------------
(* Archiving the opening, and committing it *)

\* transcript.start; when it raises, discard_uncommitted removes what path names.
StartArchive ==
    /\ job.kind = "start" /\ job.step = "committing" /\ effects = "free"
    /\ effects' = "job"
    /\ IF CannotCreate
       THEN Discard /\ job' = [job EXCEPT !.step = "discarding"]
       ELSE Create /\ job' = [job EXCEPT !.step = "archiving"]
    /\ UNCHANGED <<memoryVars, scene, planned, ended, lost, failures, shutdowns>>

OpeningArchived ==
    /\ job.kind = "start" /\ job.step = "archiving"
    /\ Take("ok")
    /\ Commit
    /\ job' = Idle /\ effects' = "free"
    /\ UNCHANGED <<scene, planned, ended, lost, failures, shutdowns>>

\* Nothing was created.
OpeningFailed ==
    /\ job.kind = "start" /\ job.step = "archiving"
    /\ Take("error")
    /\ Drop /\ FailJob /\ effects' = "free"
    /\ UNCHANGED <<scene, planned, ended, lost, shutdowns>>

\* The file exists and the job was cancelled: the finally block discards it.
DiscardOpening ==
    /\ result = "cancelled" /\ result' = "none"
    /\ lock' = [state |-> "held", for |-> Removing] /\ threads' = threads \cup {Removing}
    /\ job' = [job EXCEPT !.step = "discarding"]
    /\ UNCHANGED <<memoryVars, started, finalized, archive, effects, failures>>

OpeningInterrupted ==
    /\ job.kind = "start" /\ job.step = "archiving"
    /\ DiscardOpening
    /\ UNCHANGED <<scene, planned, ended, lost, shutdowns>>

OpeningDiscarded(r) ==
    /\ job.step = "discarding"
    /\ Take(r)
    /\ lost' = IF r = "error" THEN lost \cup {0} ELSE lost
    /\ Drop /\ FailJob /\ effects' = "free"
    /\ UNCHANGED <<scene, planned, ended, shutdowns>>

-----------------------------------------------------------------------------
(* The disk, the deadline of a write, shutdown *)

Disk ==
    /\ \E w \in threads, ok \in BOOLEAN : Finish(w, ok)
    /\ UNCHANGED <<memoryVars, gameVars>>

\* The deadline cancels a job once; the request of a shutdown can be cancelled as well.
Interrupt ==
    /\ CancelWrite
    /\ \/ effects = "job" /\ ~job.late /\ job' = [job EXCEPT !.late = TRUE]
       \/ effects = "ending" /\ UNCHANGED job
    /\ UNCHANGED <<memoryVars, scene, planned, effects, ended, lost, failures, shutdowns>>

\* end_game, a new game after this one, or the end of the server.
Shutdown ==
    /\ effects = "free" /\ shutdowns < MaxShutdowns
    /\ shutdowns' = shutdowns + 1
    /\ ended' = TRUE /\ job' = Idle /\ CancelRequest
    /\ IF CannotAppend THEN UNCHANGED <<transcriptVars, effects>>
                       ELSE Finalize /\ effects' = "ending"
    /\ UNCHANGED <<scene, planned, lost, failures>>

ShutdownDone(r) ==
    /\ effects = "ending"
    /\ Take(r)
    /\ effects' = "free"
    /\ UNCHANGED <<memoryVars, job, scene, planned, ended, lost, failures, shutdowns>>

ChronicleNext ==
    \/ LaunchScenario \/ Launch
    \/ \E prompt \in PromptSizes : Ask(prompt)
    \/ Work
    \/ OpenLobby \/ Plan \/ Staged \/ GiveUp \/ Expire
    \/ CommitRound \/ StartArchive \/ OpeningArchived \/ OpeningFailed \/ OpeningInterrupted
    \/ \E r \in {"ok", "error", "cancelled"} :
          RoundArchived(r) \/ OpeningDiscarded(r) \/ ShutdownDone(r)
    \/ Disk \/ Interrupt \/ Shutdown

ChronicleSpec == ChronicleInit /\ [][ChronicleNext]_chronicleVars

-----------------------------------------------------------------------------
(* Properties *)

Exchanges(n) == [i \in 1..n |-> i - 1]

\* Memory and history together hold every exchange told, once and in order, at every moment:
\* while summaries are tried, refused and rolled back, and whoever is cancelled.  What a job
\* staged extends exactly the conversation it will be committed to.
MemoryIsComplete ==
    /\ memory.covers \o history = Exchanges(told)
    /\ prepared.ready =>
          /\ prepared.memory.covers \o prepared.history = Exchanges(told + 1)
          /\ prepared.revision = revision

\* The output of a request and the audits of it cost no more calls than this: the output and
\* each audit have the retries once, and one call for each repair, where every repair could
\* have started the retries again.
CallsAreBounded == request.calls <= (request.audits + 1) * (2 * MaxRetries + 1)

\* Its thread runs, or its error is about to be reported.
InFlight(n) ==
    \/ Appending(n) \in threads
    \/ job.step = "archiving" /\ result = "error" /\ n = told - 1

Rounds == {i \in 1..Len(archive) : archive[i].part = "round"}

\* The archive tells the game as it was committed: the opening first, rounds in order and
\* once, nothing after the footer; a committed round is in it, is being written, or its
\* error was reported; and the file of a start that failed is gone.
ArchiveIsFaithful ==
    /\ started = (archive # <<>>)
    /\ \A i \in 1..Len(archive) : archive[i].part = "opening" <=> i = 1
    /\ \A i \in 1..Len(archive) : archive[i].part = "footer" => i = Len(archive)
    /\ \A i, j \in Rounds : i < j => archive[i].round < archive[j].round
    /\ \A i \in Rounds : archive[i].round < told
    /\ \A n \in 1..(told - 1) :
          n \in lost \/ InFlight(n) \/ \E i \in Rounds : archive[i].round = n
    /\ (told = 0 /\ job = Idle /\ archive # <<>>) => 0 \in lost

\* A checkpoint tried although the request fits does not fail the request.
OptionalCheckpoint ==
    [][request.step \in Compacting \ {"measuring"} /\ request'.step = "failed"
         => ~request.fits]_chronicleVars
=============================================================================
