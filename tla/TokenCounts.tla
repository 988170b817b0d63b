---------------------------- MODULE TokenCounts ----------------------------
(***************************************************************************)
(* The counts of formatted requests: TokenBudget.input_tokens and its      *)
(* cache (logic/llm/tokenization.py).  Callers that ask for the same       *)
(* messages share one measuring task and are shielded from each other's    *)
(* cancellation; only counts of a real tokenizer are remembered.           *)
(***************************************************************************)
EXTENDS Integers, Sequences, SequencesExt

CONSTANTS
    Callers,      \* requests, preflights and usage reports that count tokens
    Keys,         \* message lists under one tokenizer identity
    Bytes,        \* of each, in UTF-8
    MaxEntries,   \* 128 in the code
    MaxBytes,     \* 4 MiB in the code
    MaxTasks      \* bound: measuring tasks created

ASSUME CountsAssumption ==
    /\ Keys # {} /\ Bytes \in [Keys -> Nat \ {0}]
    /\ MaxEntries \in Nat \ {0} /\ MaxBytes \in Nat /\ MaxTasks \in Nat

VARIABLES
    cache,        \* keys of _request_counts, the least recently used first
    cacheBytes,   \* _cache_bytes
    inflight,     \* _inflight: the task of each key, 0 for none
    tasks,        \* the tasks ever created, with how they ended
    waiting       \* the key and the task each caller awaits, task 0 for none

countVars == <<cache, cacheBytes, inflight, tasks, waiting>>

Idling == [key |-> CHOOSE k \in Keys : TRUE, task |-> 0]

CountsTypeOK ==
    /\ cache \in Seq(Keys) /\ cacheBytes \in Int
    /\ inflight \in [Keys -> 0..MaxTasks]
    /\ tasks \in Seq({"running", "exact", "estimate", "cancelled"})
    /\ waiting \in [Callers -> [key : Keys, task : 0..MaxTasks]]

CountsInit ==
    /\ cache = <<>> /\ cacheBytes = 0
    /\ inflight = [k \in Keys |-> 0] /\ tasks = <<>>
    /\ waiting = [c \in Callers |-> Idling]

Settled(t) == tasks[t] # "running"

\* A cached count moves to the end.
Hit(c, k) ==
    /\ waiting[c] = Idling /\ k \in ToSet(cache)
    /\ cache' = Append(RemoveAt(cache, CHOOSE i \in DOMAIN cache : cache[i] = k), k)
    /\ UNCHANGED <<cacheBytes, inflight, tasks, waiting>>

\* The task is there already, settled or not, or is created.
Miss(c, k) ==
    /\ waiting[c] = Idling /\ k \notin ToSet(cache)
    /\ IF inflight[k] # 0
       THEN /\ waiting' = [waiting EXCEPT ![c] = [key |-> k, task |-> inflight[k]]]
            /\ UNCHANGED <<inflight, tasks>>
       ELSE /\ Len(tasks) < MaxTasks
            /\ tasks' = Append(tasks, "running")
            /\ inflight' = [inflight EXCEPT ![k] = Len(tasks)']
            /\ waiting' = [waiting EXCEPT ![c] = [key |-> k, task |-> Len(tasks)']]
    /\ UNCHANGED <<cache, cacheBytes>>

\* _measure: the tokenizer answers, or an estimate stands in for it.
Measured(t, method) ==
    /\ tasks[t] = "running"
    /\ tasks' = [tasks EXCEPT ![t] = method]
    /\ UNCHANGED <<cache, cacheBytes, inflight, waiting>>

Weight(entries) ==
    LET sum[n \in 0..Len(entries)] ==
            IF n = 0 THEN 0 ELSE sum[n - 1] + Bytes[entries[n]]
    IN  sum[Len(entries)]

\* Evicted from the oldest on while there are too many entries or too many bytes.
Fitting(entries, bytes) ==
    {s \in Suffixes(entries) : Len(s) <= MaxEntries
                               /\ bytes - (Weight(entries) - Weight(s)) <= MaxBytes}
Kept(entries, bytes) == CHOOSE s \in Fitting(entries, bytes) :
                           \A r \in Fitting(entries, bytes) : Len(r) <= Len(s)

\* Mutant: the second of two callers that shared a task adds the bytes again.
AddsAlways(k) == TRUE
AddsKey(k) == k \notin ToSet(cache)

\* The finally block: whoever finds its task settled forgets what is in flight for the key.
Released(c) == inflight' = IF Settled(waiting[c].task)
                           THEN [inflight EXCEPT ![waiting[c].key] = 0] ELSE inflight

Resume(c) ==
    LET t == waiting[c].task
        k == waiting[c].key
        entries == IF k \in ToSet(cache) THEN cache ELSE Append(cache, k)
    IN /\ t # 0 /\ Settled(t)
       /\ Released(c)
       /\ waiting' = [waiting EXCEPT ![c] = Idling]
       /\ IF tasks[t] = "exact" /\ AddsKey(k)
          THEN /\ cache' = Kept(entries, cacheBytes + Bytes[k])
               /\ cacheBytes' = cacheBytes + Bytes[k] - (Weight(entries) - Weight(cache'))
          ELSE UNCHANGED <<cache, cacheBytes>>
       /\ UNCHANGED tasks

\* The caller is cancelled; its task goes on for the others, or for nobody.
CancelCaller(c) ==
    /\ waiting[c].task # 0
    /\ Released(c)
    /\ waiting' = [waiting EXCEPT ![c] = Idling]
    /\ UNCHANGED <<cache, cacheBytes, tasks>>

\* clear_caches, when a game begins; tasks in flight go on.
ClearCaches ==
    /\ cache # <<>>
    /\ cache' = <<>> /\ cacheBytes' = 0
    /\ UNCHANGED <<inflight, tasks, waiting>>

\* close cancels the tasks, and so whoever awaits them.
CloseBudget ==
    /\ \E t \in DOMAIN tasks : ~Settled(t)
    /\ tasks' = [t \in DOMAIN tasks |-> IF Settled(t) THEN tasks[t] ELSE "cancelled"]
    /\ inflight' = [k \in Keys |-> 0]
    /\ UNCHANGED <<cache, cacheBytes, waiting>>

CountsNext ==
    \/ \E c \in Callers, k \in Keys : Hit(c, k) \/ Miss(c, k)
    \/ \E t \in DOMAIN tasks, method \in {"exact", "estimate"} : Measured(t, method)
    \/ \E c \in Callers : Resume(c) \/ CancelCaller(c)
    \/ ClearCaches \/ CloseBudget

CountsSpec == CountsInit /\ [][CountsNext]_countVars

\* The byte count is the size of what is cached, whoever shared, cancelled or evicted a
\* measurement, and both limits hold.  A count that drifts upwards would empty the cache for
\* good; one that drifts downwards would let it grow without limit.
CacheIsAccounted ==
    /\ cacheBytes = Weight(cache)
    /\ cacheBytes <= MaxBytes /\ Len(cache) <= MaxEntries
    /\ IsInjective(cache)
=============================================================================
