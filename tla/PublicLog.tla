----------------------------- MODULE PublicLog -----------------------------
(***************************************************************************)
(* What publication promises a player's browser, without sockets, queues,  *)
(* locks or reconnections: one log that only grows, and a reader who sees  *)
(* its entries in order, each once, and leaves none out while patient.     *)
(***************************************************************************)
EXTENDS Sequences, Naturals

VARIABLES
    log,     \* public events of the game, by their growing numbers
    seen,    \* what the reader has seen of them
    patient  \* no catch-up has been given up

logVars == <<log, seen, patient>>

LogInit == log = <<>> /\ seen = <<>> /\ patient = TRUE

Extends(longer, shorter) ==
    Len(shorter) <= Len(longer) /\ SubSeq(longer, 1, Len(shorter)) = shorter

\* Entries of the log, each once and in order.
InOrder(entries) ==
    \A j \in 1..Len(entries) :
       /\ \E k \in 1..Len(log) : log[k] = entries[j]
       /\ \A i \in 1..(j - 1) : entries[i] < entries[j]

Write == /\ Len(log') = Len(log) + 1 /\ Extends(log', log)
         /\ UNCHANGED <<seen, patient>>

\* Whoever gives up may leave entries out from then on, but never goes back.
Read == /\ Extends(seen', seen) /\ InOrder(seen')
        /\ patient' => patient /\ Extends(log, seen')
        /\ log' = log

LogSpec == LogInit /\ [][Write \/ Read]_logVars
=============================================================================
