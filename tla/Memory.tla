------------------------------- MODULE Memory -------------------------------
(***************************************************************************)
(* What the storyteller remembers: LLMContextManager (logic/llm_manager.py) *)
(* with context compaction (logic/llm/compaction.py) and the attempts of   *)
(* one provider request (logic/llm/provider.py).                           *)
(*                                                                         *)
(* The conversation is the durable memory followed by the recent           *)
(* exchanges; exchange 0 is the opening and exchange n round n.  A request *)
(* first compacts the conversation until it fits, then asks the provider.  *)
(* Requests that tell the story are staged: their result is kept aside     *)
(* (prepared) and the conversation put back, until the engine commits it.  *)
(* Texts are reduced to token counts: a count is exact when the tokenizer  *)
(* answers and an overestimate when it does not, whichever happens each    *)
(* time.  Whether the provider, an audit or a schema accepts is free.      *)
(* Provider calls are counted for the output of a request and the audits   *)
(* of that output; those of the summaries written before it are not.       *)
(***************************************************************************)
EXTENDS Integers, Sequences, FiniteSetsExt

CONSTANTS
    Window,         \* tokens of a request that fits, output reserve included
    Target,         \* compaction_target_fraction of it
    SummaryWindow,  \* tokens of conversation a summary request and its audit have room for
    PairSize,       \* tokens of one exchange
    PromptSizes,    \* tokens of a request besides the conversation
    SummarySizes,   \* tokens of the memories the provider writes
    Excess,         \* what the conservative estimate adds to a count
    SchemaCost,     \* what a measured summary request adds to its first estimate
    HistoryLimit,   \* settings.llm.history_round_limit, 0 for None
    MaxRetries,     \* settings.llm.max_retries
    MaxHidden       \* hidden rolls of one dice plan: no more than the participants

ASSUME MemoryAssumption ==
    /\ {Window, Target, SummaryWindow, PairSize, Excess, SchemaCost} \subseteq Nat
    /\ PairSize > 0
    /\ PromptSizes \subseteq Nat /\ SummarySizes \subseteq Nat \ {0}
    /\ HistoryLimit \in Nat \ {1} /\ MaxRetries \in Nat /\ MaxHidden \in Nat

VARIABLES
    memory,      \* durable memory: the exchanges it covers and its tokens
    history,     \* the exchanges kept word for word
    told,        \* exchanges committed to the game
    revision,    \* _memory_revision
    checkpoint,  \* the conversation compaction and _stage put back
    prepared,    \* PreparedResolution
    request      \* the request in progress

conversation == <<memory, history>>
memoryVars == <<memory, history, told, revision, checkpoint, prepared, request>>

Memo == [covers : Seq(Nat), size : Nat]
NoMemo == [covers |-> <<>>, size |-> 0]
NothingPrepared == [ready |-> FALSE, memory |-> NoMemo, history |-> <<>>, revision |-> 0]

Compacting == {"measuring", "summarizing", "shrinking", "verifying"}
Request ==
    [step : Compacting \cup {"none", "generating", "done", "failed"},
     staged : BOOLEAN, prompt : Nat, count : Nat,
     fits : BOOLEAN, originalFits : BOOLEAN, compacted : BOOLEAN,
     selected : Nat, summary : Nat, repair : Nat, attempt : 0..MaxRetries, calls : Nat,
     audits : Nat, audit : Nat]
NoRequest ==
    [step |-> "none", staged |-> FALSE, prompt |-> 0, count |-> 0,
     fits |-> FALSE, originalFits |-> FALSE, compacted |-> FALSE,
     selected |-> 0, summary |-> 0, repair |-> 0, attempt |-> 0, calls |-> 0,
     audits |-> 0, audit |-> 0]

MemoryTypeOK ==
    /\ memory \in Memo /\ history \in Seq(Nat)
    /\ told \in Nat /\ revision \in Nat
    /\ checkpoint \in [memory : Memo, history : Seq(Nat)]
    /\ prepared \in [ready : BOOLEAN, memory : Memo, history : Seq(Nat), revision : Nat]
    /\ request \in Request

MemoryInit ==
    /\ memory = NoMemo /\ history = <<>> /\ told = 0 /\ revision = 0
    /\ checkpoint = [memory |-> NoMemo, history |-> <<>>]
    /\ prepared = NothingPrepared /\ request = NoRequest

-----------------------------------------------------------------------------
(* Token counts *)

Counts(n) == {n, n + Excess}

\* messages, schema and output reserve of the request with a given conversation
Total(size, pairs) == request.prompt + size + PairSize * pairs

\* A checkpoint is due whatever the tokens: more rounds are kept than configured.
CheckpointDue == HistoryLimit > 0 /\ Len(history) > HistoryLimit

\* A due checkpoint leaves the newest half of the limit alone.
PrefixLimit(fits) ==
    IF CheckpointDue /\ fits THEN Len(history) - Max({1, HistoryLimit \div 2}) ELSE Len(history)

SummaryInput(n) == memory.size + PairSize * n
LikelyPrefix(limit) ==
    Max({1} \cup {n \in 1..limit : SummaryInput(n) + Excess <= SummaryWindow})

\* _prefixes: the likely prefix and its halvings; the first whose summary is measured to fit.
Probes(limit) == {LikelyPrefix(limit) \div (2 ^ k) : k \in 0..Len(history)} \ {0}
Admits(n, extra) == SummaryInput(n) + SchemaCost + extra <= SummaryWindow
Selectable(limit) ==
    {n \in 1..Len(history) :
        n \in Probes(limit) /\ Admits(n, 0)
        /\ \A m \in Probes(limit) : m > n => ~Admits(m, Excess)}
NoneSelectable(limit) == \A n \in Probes(limit) : ~Admits(n, Excess)

-----------------------------------------------------------------------------
(* Context compaction: compact and _checkpoint *)

\* _request: title and chance-rule requests carry no history and are never compacted.
BeginRequest(staged, prompt, withHistory, audits) ==
    /\ request.step = "none"
    /\ request' = [NoRequest EXCEPT !.staged = staged, !.prompt = prompt, !.audits = audits,
                                    !.step = IF withHistory THEN "measuring" ELSE "generating"]
    /\ checkpoint' = [memory |-> memory, history |-> history]
    /\ UNCHANGED <<conversation, told, revision, prepared>>

\* The except block: everything is put back; the request goes on if it fitted to begin with.
Abandon(originalFits) ==
    /\ memory' = checkpoint.memory /\ history' = checkpoint.history
    /\ request' = [request EXCEPT !.step = IF originalFits THEN "generating" ELSE "failed",
                                  !.repair = 0]

\* Early returns: the passes accepted so far stay.
GoOn == request' = [request EXCEPT !.step = "generating", !.repair = 0] /\ UNCHANGED conversation

\* One turn of the loop: the whole request is measured, and the prefix to summarize chosen.
Measure(count) ==
    /\ request.step = "measuring"
    /\ count \in Counts(Total(memory.size, Len(history)))
    /\ LET fits == count <= Window
           originalFits == IF request.compacted THEN request.originalFits ELSE fits
           limit == PrefixLimit(fits)
       IN \/ /\ fits /\ ~CheckpointDue
             /\ ~request.compacted \/ count <= Target \/ history = <<>>
             /\ GoOn
          \/ /\ history = <<>> /\ ~fits
             /\ Abandon(originalFits)
          \/ /\ history # <<>>
             /\ ~fits \/ CheckpointDue \/ (request.compacted /\ count > Target)
             /\ \/ \E n \in Selectable(limit) :
                     /\ request' = [request EXCEPT !.step = "summarizing", !.selected = n,
                                        !.count = count, !.fits = fits,
                                        !.originalFits = originalFits, !.repair = 0]
                     /\ UNCHANGED conversation
                \/ NoneSelectable(limit) /\ fits /\ GoOn
                \/ NoneSelectable(limit) /\ ~fits /\ Abandon(originalFits)
    /\ UNCHANGED <<told, revision, checkpoint, prepared>>

\* The summary is smaller than what it replaces and its audit preserves every fact.
WriteSummary(size) ==
    /\ request.step \in {"summarizing", "shrinking"}
    /\ size < SummaryInput(request.selected)
    /\ request' = [request EXCEPT !.step = "verifying", !.summary = size]
    /\ UNCHANGED <<conversation, told, revision, checkpoint, prepared>>

\* A summary is refused: repaired once, then asked for half the prefix, unless the request
\* fits without it.
RefuseSummary ==
    /\ \/ /\ request.step = "summarizing" /\ request.repair = 0
          /\ request' = [request EXCEPT !.repair = 1]
          /\ UNCHANGED conversation
       \/ /\ request.step = "summarizing" /\ request.repair = 1
          /\ \/ request.fits /\ GoOn
             \/ /\ ~request.fits /\ request.selected \div 2 >= 1
                /\ request' = [request EXCEPT !.step = "shrinking",
                                              !.selected = request.selected \div 2]
                /\ UNCHANGED conversation
             \/ ~request.fits /\ request.selected \div 2 < 1 /\ Abandon(request.originalFits)
       \/ request.step = "shrinking" /\ Abandon(request.originalFits)
    /\ UNCHANGED <<told, revision, checkpoint, prepared>>

\* The provider fails the summary or its audit, its own retries spent.
LoseSummary ==
    /\ request.step \in {"summarizing", "shrinking"}
    /\ IF request.step = "summarizing" /\ request.fits THEN GoOn ELSE Abandon(request.originalFits)
    /\ UNCHANGED <<told, revision, checkpoint, prepared>>

\* Mutant: one exchange too many is dropped from the history.
AfterNext(n) == SubSeq(history, n + 2, Len(history))
After(n) == SubSeq(history, n + 1, Len(history))

\* The request is measured with the new memory, and the memory taken if it is smaller.
VerifySummary(count) ==
    /\ request.step = "verifying"
    /\ count \in Counts(Total(request.summary, Len(history) - request.selected))
    /\ IF count >= request.count
       THEN Abandon(request.originalFits)
       ELSE /\ memory' = [covers |-> memory.covers \o SubSeq(history, 1, request.selected),
                          size |-> request.summary]
            /\ history' = After(request.selected)
            /\ request' = [request EXCEPT !.step = "measuring", !.compacted = TRUE]
    /\ UNCHANGED <<told, revision, checkpoint, prepared>>

-----------------------------------------------------------------------------
(* Asking the provider: _request, provider.execute, _stage *)

\* Mutant: every repair gets the whole retry budget again.
FullAttempts(repair) == MaxRetries + 1
\* Mutant: one attempt more than the retries allow.
ExtraAttempt(repair) == IF repair = 0 THEN MaxRetries + 2 ELSE 1
\* A repair gets one attempt; the first request the configured retries.
AttemptLimit(repair) == IF repair = 0 THEN MaxRetries + 1 ELSE 1

\* A transient error with attempts left, of the output (audit = 0) or of an audit.
RetryCall ==
    /\ request.step = "generating"
    /\ request.attempt + 1 < AttemptLimit(request.repair)
    /\ request' = [request EXCEPT !.attempt = @ + 1, !.calls = @ + 1]
    /\ UNCHANGED <<conversation, told, revision, checkpoint, prepared>>

\* What was asked is answered and another audit asked for: classify_hidden_checks audits each
\* hidden roll of a dice plan, audit_chance_outcomes the events that occurred in a round.
NextAudit ==
    /\ request.step = "generating" /\ request.audit < request.audits
    /\ request' = [request EXCEPT !.audit = @ + 1, !.attempt = 0, !.calls = @ + 1]
    /\ UNCHANGED <<conversation, told, revision, checkpoint, prepared>>

\* Output refused by a schema, a semantic check, an audit or the privacy check; output or an
\* audit that provider.execute finds too long before it is sent is refused as well.
RepairOutput(sent) ==
    /\ request.step = "generating" /\ request.repair < MaxRetries
    /\ sent \/ request.attempt = 0
    /\ request' = [request EXCEPT !.repair = @ + 1, !.attempt = 0, !.audit = 0,
                                  !.calls = IF sent THEN @ + 1 ELSE @]
    /\ UNCHANGED <<conversation, told, revision, checkpoint, prepared>>

\* The finally block of _stage.
PutBack == memory' = checkpoint.memory /\ history' = checkpoint.history

\* What a failure or a cancellation leaves: a request that is not staged keeps the
\* compaction it completed.
Unwind == IF request.staged \/ request.step \in Compacting THEN PutBack ELSE UNCHANGED conversation

\* The provider fails for good, or the last repair is refused or found too long.
FailRequest(sent) ==
    /\ request.step = "generating"
    /\ sent \/ (request.attempt = 0 /\ request.repair = MaxRetries)
    /\ Unwind
    /\ request' = [request EXCEPT !.step = "failed", !.calls = IF sent THEN @ + 1 ELSE @]
    /\ UNCHANGED <<told, revision, checkpoint, prepared>>

\* A valid answer, every audit it needs passed; a staged one is remembered, prepared, and the conversation put back.
Answer ==
    /\ request.step = "generating"
    /\ request' = [request EXCEPT !.step = "done", !.calls = @ + 1]
    /\ IF request.staged
       THEN /\ prepared' = [ready |-> TRUE, memory |-> memory,
                            history |-> Append(history, told), revision |-> revision]
            /\ PutBack
       ELSE UNCHANGED <<conversation, prepared>>
    /\ UNCHANGED <<told, revision, checkpoint>>

\* The job that asked is cancelled at an await of the request.
CancelRequest ==
    /\ Unwind
    /\ request' = NoRequest /\ prepared' = NothingPrepared
    /\ UNCHANGED <<told, revision, checkpoint>>

\* The caller takes the result, or the error.
EndRequest(outcome) ==
    /\ request.step = outcome
    /\ request' = NoRequest
    /\ UNCHANGED <<conversation, told, revision, checkpoint, prepared>>

\* commit_resolution, which raises on a stale revision.
Commit ==
    /\ prepared.ready /\ prepared.revision = revision
    /\ memory' = prepared.memory /\ history' = prepared.history
    /\ revision' = revision + 1 /\ told' = told + 1
    /\ prepared' = NothingPrepared
    /\ UNCHANGED <<checkpoint, request>>

\* A job drops what it prepared.
Drop == prepared' = NothingPrepared
        /\ UNCHANGED <<conversation, told, revision, checkpoint, request>>

\* set_genesis, when a scenario is prepared: before anything has been told.
SetGenesis ==
    /\ request.step = "none" /\ told = 0
    /\ memory' = NoMemo /\ history' = <<>> /\ revision' = revision + 1
    /\ UNCHANGED <<told, checkpoint, prepared, request>>

\* The steps a request takes by itself.
RequestStep ==
    \/ \E count \in Counts(Total(memory.size, Len(history))) : Measure(count)
    \/ \E size \in SummarySizes : WriteSummary(size)
    \/ RefuseSummary \/ LoseSummary
    \/ \E count \in Counts(Total(request.summary, Len(history) - request.selected)) :
          VerifySummary(count)
    \/ RetryCall \/ NextAudit
    \/ \E sent \in BOOLEAN : RepairOutput(sent) \/ FailRequest(sent)
    \/ Answer
=============================================================================
