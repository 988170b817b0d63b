----------------------------- MODULE Transcript -----------------------------
(***************************************************************************)
(* The archive of one game on disk: GameTranscript (logic/transcript.py).  *)
(*                                                                         *)
(* Every write runs in a worker thread that a cancellation does not stop;  *)
(* _io_lock is held until the thread has ended.  The document is the       *)
(* sequence of its sections; a write that fails may leave a torn one.      *)
(***************************************************************************)
EXTENDS Integers, Sequences

VARIABLES
    started,     \* path is set
    finalized,   \* _finalized
    archive,     \* the sections of the newest file, <<>> when there is none
    lock,        \* _io_lock, with the write it is held for
    threads,     \* writes running in worker threads
    result       \* what the last holder of the lock has to act on

transcriptVars == <<started, finalized, archive, lock, threads, result>>

Section == [part : {"opening", "round", "footer", "torn"}, round : Nat]
Opening == [part |-> "opening", round |-> 0]
Article(n) == [part |-> "round", round |-> n]
Footer == [part |-> "footer", round |-> 0]
Torn == [part |-> "torn", round |-> 0]

Write == [op : {"create", "unlink", "append", "finish"}, section : Section]
Creating == [op |-> "create", section |-> Opening]
Removing == [op |-> "unlink", section |-> Opening]
Appending(n) == [op |-> "append", section |-> Article(n)]
Finishing == [op |-> "finish", section |-> Footer]

Lock == [state : {"free", "held", "cancelled"}, for : Write]
Free == [state |-> "free", for |-> Creating]

TranscriptTypeOK ==
    /\ started \in BOOLEAN /\ finalized \in BOOLEAN
    /\ archive \in Seq(Section)
    /\ lock \in Lock /\ threads \in SUBSET Write
    /\ result \in {"none", "ok", "error", "cancelled"}

TranscriptInit ==
    /\ started = FALSE /\ finalized = FALSE /\ archive = <<>>
    /\ lock = Free /\ threads = {} /\ result = "none"

-----------------------------------------------------------------------------

\* Takes _io_lock and starts the thread.
Begin(w) ==
    /\ lock.state = "free"
    /\ lock' = [state |-> "held", for |-> w]
    /\ threads' = threads \cup {w}
    /\ UNCHANGED <<started, finalized, archive, result>>

\* start raises; append_round raises; finalize returns.
CannotCreate == started \/ finalized
CannotAppend == finalized \/ ~started

Create == ~CannotCreate /\ Begin(Creating)
Discard == started /\ Begin(Removing)
AppendRound(n) == ~CannotAppend /\ Begin(Appending(n))
Finalize == ~CannotAppend /\ Begin(Finishing)

\* What a thread does to the disk.  One that fails leaves it alone (_create removes the
\* file it could not fill), but may have appended part of its section.
OnDisk(w) == CASE w.op = "create" -> <<Opening>>
               [] w.op = "unlink" -> <<>>
               [] OTHER -> Append(archive, w.section)
AfterError(w) == {archive} \cup (IF w.op \in {"append", "finish"} THEN {Append(archive, Torn)}
                                 ELSE {})

\* The thread ends; the task that waits for it sets path or _finalized, cancelled or not,
\* and frees the lock.
Finish(w, ok) ==
    /\ w \in threads
    /\ threads' = threads \ {w}
    /\ IF ok THEN archive' = OnDisk(w) ELSE archive' \in AfterError(w)
    /\ started' = IF ok THEN w.op # "unlink" ELSE started
    /\ finalized' = (finalized \/ (ok /\ w.op = "finish"))
    /\ lock' = IF lock.for = w THEN Free ELSE lock
    /\ result' = IF lock.state = "free" \/ lock.for # w THEN result
                 ELSE IF ~ok THEN "error"
                 ELSE IF lock.state = "cancelled" THEN "cancelled" ELSE "ok"

\* Mutant: a cancelled write gives up the lock and leaves its thread to itself.
LetGo == lock' = Free /\ result' = "cancelled"
WaitOut == lock' = [lock EXCEPT !.state = "cancelled"] /\ UNCHANGED result

\* The task that waits for the thread is cancelled; it goes on waiting.
CancelWrite ==
    /\ lock.state = "held"
    /\ WaitOut
    /\ UNCHANGED <<started, finalized, archive, threads>>

\* The task goes on with the result.
Take(r) == result = r /\ result' = "none" /\ UNCHANGED <<started, finalized, archive, lock, threads>>
=============================================================================
