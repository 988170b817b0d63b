-------------------------- MODULE ChronicleProofs --------------------------
(***************************************************************************)
(* Proofs about Chronicle: what the storyteller remembers is complete, and *)
(* its provider calls are bounded, and the archive on disk tells the game  *)
(* as it was committed, for every value of the constants.                  *)
(***************************************************************************)
EXTENDS Chronicle, SequenceTheorems, TLAPS

-----------------------------------------------------------------------------
(* Sequences of exchanges *)

LEMMA PartsTyped ==
    ASSUME NEW t \in Seq(Nat), NEW n \in 0..Len(t)
    PROVE  SubSeq(t, 1, n) \in Seq(Nat) /\ SubSeq(t, n + 1, Len(t)) \in Seq(Nat)
OBVIOUS

\* Moving a prefix of the history into the memory keeps the whole.
LEMMA PrefixMoves ==
    ASSUME NEW s \in Seq(Nat), NEW t \in Seq(Nat), NEW n \in 0..Len(t)
    PROVE  (s \o SubSeq(t, 1, n)) \o SubSeq(t, n + 1, Len(t)) = s \o t
<1>1. SubSeq(t, 1, n) \in Seq(Nat) /\ SubSeq(t, n + 1, Len(t)) \in Seq(Nat)
  OBVIOUS
<1>2. SubSeq(t, 1, n) \o SubSeq(t, n + 1, Len(t)) = SubSeq(t, 1, Len(t))
  <2>1. 1 \in 1..(Len(t) + 1) /\ n \in (1 - 1)..Len(t) /\ Len(t) \in n..Len(t)
    OBVIOUS
  <2> QED BY <2>1, ConcatAdjacentSubSeq
<1>3. SubSeq(t, 1, Len(t)) = t
  OBVIOUS
<1>4. PICK u \in Seq(Nat), v \in Seq(Nat) : u = SubSeq(t, 1, n) /\ v = SubSeq(t, n + 1, Len(t))
  BY <1>1
<1>5. (s \o u) \o v = s \o (u \o v)
  BY ConcatAssociative, SMTT(30)
<1> QED BY <1>2, <1>3, <1>4, <1>5

LEMMA NoExchange == Exchanges(0) = <<>>
BY DEF Exchanges

\* A new exchange extends a complete conversation.
LEMMA ExchangeAppended ==
    ASSUME NEW s \in Seq(Nat), NEW t \in Seq(Nat), NEW k \in Nat, s \o t = Exchanges(k)
    PROVE  s \o Append(t, k) = Exchanges(k + 1)
<1>1. Exchanges(k) \in Seq(Nat) /\ Len(Exchanges(k)) = k
  BY DEF Exchanges
<1>2. Exchanges(k + 1) \in Seq(Nat) /\ Len(Exchanges(k + 1)) = k + 1
  BY DEF Exchanges
<1>3. s \o Append(t, k) = Append(s \o t, k)
  OBVIOUS
<1>4. \A i \in 1..(k + 1) : Append(s \o t, k)[i] = Exchanges(k + 1)[i]
  BY <1>1 DEF Exchanges
<1> QED BY <1>1, <1>2, <1>3, <1>4

-----------------------------------------------------------------------------
(* Counting calls *)

\* More of the same rows hold more.
LEMMA MoreRows ==
    ASSUME NEW a \in Nat, NEW b \in Nat, NEW c \in Nat, a <= b
    PROVE  a * c \in Nat /\ b * c \in Nat /\ a * c <= b * c
<1>1. PICK d \in Nat : b = a + d
  <2>1. b - a \in Nat /\ b = a + (b - a)
    OBVIOUS
  <2> QED BY <2>1
<1>2. a * c \in Nat /\ d * c \in Nat
  OBVIOUS
<1>3. (a + d) * c = a * c + d * c
  OBVIOUS
<1>4. PICK x \in Nat, y \in Nat : x = a * c /\ y = d * c
  BY <1>2
<1>5. b * c = x + y
  BY <1>1, <1>3, <1>4
<1> QED BY <1>4, <1>5

\* The output and each of its audits in a row of their own: n audits, m retries, k of the n
\* answered.
LEMMA FirstOutput ==
    ASSUME NEW n \in Nat, NEW m \in Nat, NEW k \in Nat, NEW t \in Nat, k <= n, t <= m
    PROVE  /\ k * (m + 1) + t + 1 <= (n + 1) * (m + 1)
           /\ k * (m + 1) + t + 1 <= (k + 1) * (m + 1)
           /\ (n + 1) * (m + 1) <= (n + 1) * (2 * m + 1)
<1>1. (k + 1) * (m + 1) = k * (m + 1) + (m + 1)
  OBVIOUS
<1>2. k * (m + 1) \in Nat
  OBVIOUS
<1>3. k * (m + 1) + t + 1 <= (k + 1) * (m + 1)
  <2>1. PICK x \in Nat : x = k * (m + 1)
    BY <1>2
  <2> QED BY <1>1, <2>1
<1>4. (k + 1) * (m + 1) <= (n + 1) * (m + 1)
  <2>1. k + 1 \in Nat /\ n + 1 \in Nat /\ m + 1 \in Nat /\ k + 1 <= n + 1
    OBVIOUS
  <2> QED BY <2>1, MoreRows
<1>5. (n + 1) * (m + 1) <= (n + 1) * (2 * m + 1)
  <2>1. m + 1 \in Nat /\ 2 * m + 1 \in Nat /\ m + 1 <= 2 * m + 1 /\ n + 1 \in Nat
    OBVIOUS
  <2>2. (m + 1) * (n + 1) <= (2 * m + 1) * (n + 1)
    BY <2>1, MoreRows
  <2>3. (m + 1) * (n + 1) = (n + 1) * (m + 1) /\ (2 * m + 1) * (n + 1) = (n + 1) * (2 * m + 1)
    OBVIOUS
  <2> QED BY <2>2, <2>3
<1>6. PICK x \in Nat, y \in Nat, z \in Nat :
         x = k * (m + 1) /\ y = (k + 1) * (m + 1) /\ z = (n + 1) * (m + 1)
  BY <1>2
<1> QED BY <1>3, <1>4, <1>5, <1>6

\* A repair adds a row of single calls.
LEMMA RepairRow ==
    ASSUME NEW n \in Nat, NEW m \in Nat, NEW p \in Nat, NEW k \in Nat, k <= n, p <= m
    PROVE  /\ (n + 1) * (m + p) + k + 1 <= (n + 1) * (m + (p + 1))
           /\ (n + 1) * (m + p) + k + 1 <= (n + 1) * (2 * m + 1)
<1>1. (n + 1) * (m + (p + 1)) = (n + 1) * (m + p) + (n + 1)
  OBVIOUS
<1>2. (n + 1) * (m + p) \in Nat /\ (n + 1) * (m + (p + 1)) \in Nat
  OBVIOUS
<1>3. PICK x \in Nat, y \in Nat : x = (n + 1) * (m + p) /\ y = (n + 1) * (m + (p + 1))
  BY <1>2
<1>4. x + k + 1 <= y
  BY <1>1, <1>3
<1>5. (n + 1) * (m + (p + 1)) <= (n + 1) * (2 * m + 1)
  <2>1. m + (p + 1) \in Nat /\ 2 * m + 1 \in Nat /\ m + (p + 1) <= 2 * m + 1 /\ n + 1 \in Nat
    OBVIOUS
  <2>2. (m + (p + 1)) * (n + 1) <= (2 * m + 1) * (n + 1)
    BY <2>1, MoreRows
  <2>3. /\ (m + (p + 1)) * (n + 1) = (n + 1) * (m + (p + 1))
        /\ (2 * m + 1) * (n + 1) = (n + 1) * (2 * m + 1)
    OBVIOUS
  <2> QED BY <2>2, <2>3
<1>6. PICK z \in Nat : z = (n + 1) * (2 * m + 1)
  OBVIOUS
<1>7. y <= z
  BY <1>3, <1>5, <1>6
<1>8. x + k + 1 <= z
  BY <1>4, <1>7
<1> QED BY <1>3, <1>4, <1>6, <1>8

-----------------------------------------------------------------------------
(* The invariant of the memory alone *)

Told == memory.covers \o history = Exchanges(told)

\* What compaction and _stage put back while a request is in progress.
CheckpointKept == request.step # "none" =>
           checkpoint.memory.covers \o checkpoint.history = Exchanges(told)

\* The prefix a summary stands for is a prefix of the history.
Chosen == request.step \in {"summarizing", "shrinking", "verifying"} =>
             request.selected \in 1..Len(history)

\* The calls that were answered or retried before the current one: the retries of the first
\* output and of each of its audits, and one for every output and audit after that.
Spent(r) == IF r.repair = 0 THEN r.audit * (MaxRetries + 1) + r.attempt
                            ELSE (r.audits + 1) * (MaxRetries + r.repair) + r.audit

\* Provider calls: none before the output is asked for, and then no more than were spent.
Metered ==
    /\ request.step \in Compacting \cup {"none"} =>
          request.calls = 0 /\ request.attempt = 0 /\ request.audit = 0
    /\ request.step = "none" => ~request.staged
    /\ request.step = "generating" =>
          /\ request.repair <= MaxRetries /\ request.audit <= request.audits
          /\ request.repair > 0 => request.attempt = 0
          /\ request.calls <= Spent(request)
    /\ request.step \in {"done", "failed"} =>
          request.calls <= (request.audits + 1) * (2 * MaxRetries + 1)

Ready == prepared.ready =>
            /\ prepared.memory.covers \o prepared.history = Exchanges(told + 1)
            /\ prepared.revision = revision

MemoryInv == MemoryTypeOK /\ Told /\ CheckpointKept /\ Chosen /\ Metered /\ Ready

LEMMA MemoryInvUnchanged == MemoryInv /\ UNCHANGED memoryVars => MemoryInv'
BY DEF MemoryInv, MemoryTypeOK, Told, CheckpointKept, Chosen, Metered, Ready, memoryVars

LEMMA MemoryInvInit == MemoryInit => MemoryInv
BY NoExchange, MemoryAssumption
   DEF MemoryInit, MemoryInv, MemoryTypeOK, Told, CheckpointKept, Chosen, Metered, Ready, NoRequest,
       NothingPrepared, NoMemo, Memo, Request, Compacting

LEMMA RequestFields ==
    ASSUME NEW r \in Request
    PROVE  /\ r.step \in Compacting \cup {"none", "generating", "done", "failed"}
           /\ r.staged \in BOOLEAN /\ r.fits \in BOOLEAN /\ r.originalFits \in BOOLEAN
           /\ r.compacted \in BOOLEAN
           /\ r.prompt \in Nat /\ r.count \in Nat /\ r.selected \in Nat /\ r.summary \in Nat
           /\ r.repair \in Nat /\ r.attempt \in 0..MaxRetries /\ r.calls \in Nat
           /\ r.audits \in Nat /\ r.audit \in Nat
BY DEF Request

\* The shapes in which a request changes together with its counts.
LEMMA RequestShrinks ==
    ASSUME NEW r \in Request, NEW n \in Nat
    PROVE  LET q == [r EXCEPT !.step = "shrinking", !.selected = n] IN
           /\ q \in Request /\ q.step = "shrinking" /\ q.selected = n
           /\ q.calls = r.calls /\ q.attempt = r.attempt /\ q.audit = r.audit
BY DEF Request, Compacting

LEMMA RequestLeaves ==
    ASSUME NEW r \in Request, NEW s \in {"generating", "failed"}
    PROVE  LET q == [r EXCEPT !.step = s, !.repair = 0] IN
           /\ q \in Request /\ q.step = s /\ q.repair = 0
           /\ q.calls = r.calls /\ q.attempt = r.attempt /\ q.audit = r.audit
BY DEF Request

LEMMA RequestEnds ==
    ASSUME NEW r \in Request, NEW s \in {"done", "failed"}, NEW n \in Nat
    PROVE  LET q == [r EXCEPT !.step = s, !.calls = n] IN
           q \in Request /\ q.step = s /\ q.calls = n /\ q.audits = r.audits
BY DEF Request

LEMMA RequestTyped == MemoryInv => request \in Request
BY DEF MemoryInv, MemoryTypeOK

\* What the meter of a request counts.
LEMMA MeterFields ==
    ASSUME MemoryInv
    PROVE  /\ request.calls \in Nat /\ request.calls + 1 \in Nat
           /\ request.repair \in Nat /\ request.repair + 1 \in Nat
           /\ request.attempt \in Nat /\ MaxRetries \in Nat
           /\ request.attempt <= MaxRetries
           /\ request.audits \in Nat /\ request.audit \in Nat /\ request.audit + 1 \in Nat
<1>1. /\ request.calls \in Nat /\ request.repair \in Nat
      /\ request.audits \in Nat /\ request.audit \in Nat
      /\ request.attempt \in 0..MaxRetries /\ MaxRetries \in Nat
  BY RequestTyped, RequestFields, MemoryAssumption
<1> QED BY <1>1

LEMMA MemoryFields ==
    ASSUME MemoryInv
    PROVE  /\ request \in Request /\ memory \in Memo /\ history \in Seq(Nat)
           /\ memory.covers \in Seq(Nat) /\ memory.size \in Nat
           /\ checkpoint.memory \in Memo /\ checkpoint.history \in Seq(Nat)
           /\ MaxRetries \in Nat
BY MemoryAssumption DEF MemoryInv, MemoryTypeOK, Memo

\* A request whose output has not been asked for, or is asked for now, has spent nothing.
LEMMA FreshMeter ==
    ASSUME request' \in Request, request'.step # "none" \/ ~request'.staged,
           request'.calls = 0, request'.attempt = 0, request'.audit = 0,
           request'.step = "generating" => request'.repair = 0
    PROVE  Metered'
<1>1. /\ request'.audits \in Nat /\ request'.audit <= request'.audits
      /\ request'.calls \in Nat /\ request'.repair \in Nat /\ MaxRetries \in Nat
  BY RequestFields, MemoryAssumption
<1>2. PICK m \in Nat, a \in Nat : m = MaxRetries /\ a = request'.audits
  BY <1>1
<1>3. (a + 1) * (2 * m + 1) \in Nat
  BY <1>2
<1>4. request'.repair = 0 => Spent(request)' = 0
  BY <1>1 DEF Spent
<1> QED BY <1>1, <1>2, <1>3, <1>4 DEF Metered

\* Steps that leave the conversation and what is prepared alone.
LEMMA OnlyTheRequest ==
    ASSUME MemoryInv, UNCHANGED <<conversation, told, revision, checkpoint, prepared>>,
           request' \in Request, CheckpointKept', Chosen', Metered'
    PROVE  MemoryInv'
BY DEF MemoryInv, MemoryTypeOK, Told, Ready, conversation

\* Steps that put some complete conversation in place of the current one.
LEMMA OnlyTheConversation ==
    ASSUME MemoryInv, UNCHANGED <<told, revision, checkpoint, prepared>>,
           request' \in Request, CheckpointKept', Chosen', Metered',
           memory' \in Memo, history' \in Seq(Nat), memory'.covers \o history' = Exchanges(told)
    PROVE  MemoryInv'
BY DEF MemoryInv, MemoryTypeOK, Told, Ready

\* A request that goes on, and one that is given up, during compaction.
LEMMA CompactionLeaves ==
    ASSUME MemoryInv, request.step \in Compacting, NEW fitted \in BOOLEAN,
           UNCHANGED <<told, revision, checkpoint, prepared>>,
           GoOn \/ Abandon(fitted)
    PROVE  MemoryInv'
<1>1. /\ request' \in Request /\ request'.step \in {"generating", "failed"}
      /\ request'.repair = 0 /\ request'.calls = request.calls
      /\ request'.attempt = request.attempt /\ request'.audit = request.audit
  <2>1. PICK s \in {"generating", "failed"} : request' = [request EXCEPT !.step = s, !.repair = 0]
    BY DEF GoOn, Abandon
  <2> QED BY <2>1, RequestTyped, RequestLeaves
<1>2. request.calls = 0 /\ request.attempt = 0 /\ request.audit = 0
  BY DEF MemoryInv, Metered
<1>3. Metered' /\ Chosen'
  BY <1>1, <1>2, MemoryFields, FreshMeter DEF Chosen, Compacting
<1>4. request.step # "none" /\ checkpoint' = checkpoint /\ told' = told
  BY DEF Compacting
<1>5. CheckpointKept'
  BY <1>4 DEF CheckpointKept, MemoryInv
<1>6. CASE GoOn
  BY <1>1, <1>3, <1>5, <1>6, OnlyTheRequest DEF GoOn
<1>7. CASE Abandon(fitted)
  <2>1. memory' = checkpoint.memory /\ history' = checkpoint.history
    BY <1>7 DEF Abandon
  <2>2. memory'.covers \o history' = Exchanges(told)
    BY <1>4, <2>1 DEF CheckpointKept, MemoryInv
  <2> QED BY <1>1, <1>3, <1>5, <2>1, <2>2, MemoryFields, OnlyTheConversation
<1> QED BY <1>6, <1>7

LEMMA BeginRequestKeeps ==
    ASSUME MemoryInv, NEW staged \in BOOLEAN, NEW prompt \in Nat, NEW withHistory \in BOOLEAN,
           NEW audits \in Nat, BeginRequest(staged, prompt, withHistory, audits)
    PROVE  MemoryInv'
<1>1. request' = [NoRequest EXCEPT !.staged = staged, !.prompt = prompt, !.audits = audits,
                     !.step = IF withHistory THEN "measuring" ELSE "generating"]
  BY DEF BeginRequest
<1>2. NoRequest \in Request
  BY MemoryFields DEF NoRequest, Request
<1>3. /\ request' \in Request /\ request'.step \in {"measuring", "generating"}
      /\ request'.calls = 0 /\ request'.attempt = 0 /\ request'.repair = 0
      /\ request'.audit = 0
  BY <1>1, <1>2 DEF Request, NoRequest, Compacting
<1>4. Metered' /\ Chosen'
  BY <1>3, FreshMeter DEF Chosen
<1>5. /\ checkpoint' = [memory |-> memory, history |-> history]
      /\ UNCHANGED <<memory, history, told, revision, prepared>>
  BY DEF BeginRequest, conversation
<1> QED BY <1>3, <1>4, <1>5 DEF MemoryInv, MemoryTypeOK, Told, CheckpointKept, Ready

LEMMA MeasureKeeps ==
    ASSUME MemoryInv, NEW count \in Nat, Measure(count)
    PROVE  MemoryInv'
<1> DEFINE fits == count <= Window
           originalFits == IF request.compacted THEN request.originalFits ELSE fits
<1>1. request.step = "measuring" /\ UNCHANGED <<told, revision, checkpoint, prepared>>
  BY DEF Measure
<1>2. fits \in BOOLEAN /\ originalFits \in BOOLEAN
  <2>1. request.originalFits \in BOOLEAN
    BY RequestTyped, RequestFields
  <2>2. fits \in BOOLEAN
    OBVIOUS
  <2>3. CASE request.compacted
    BY <2>1, <2>3
  <2>4. CASE ~request.compacted
    BY <2>2, <2>4
  <2> QED BY <2>2, <2>3, <2>4
<1>3. CASE GoOn \/ Abandon(originalFits)
  BY <1>1, <1>2, <1>3, CompactionLeaves DEF Compacting
<1>4. ASSUME NEW n \in 1..Len(history),
             request' = [request EXCEPT !.step = "summarizing", !.selected = n,
                                        !.count = count, !.fits = fits,
                                        !.originalFits = originalFits, !.repair = 0],
             UNCHANGED conversation
      PROVE  MemoryInv'
  <2> DEFINE measured == fits
             first == originalFits
  <2>1. measured \in BOOLEAN /\ first \in BOOLEAN
    BY <1>2
  <2>2. request' = [request EXCEPT !.step = "summarizing", !.selected = n, !.count = count,
                                   !.fits = measured, !.originalFits = first, !.repair = 0]
    BY <1>4
  <2> HIDE DEF measured, first
  <2>3. /\ request' \in Request /\ request'.step = "summarizing" /\ request'.selected = n
        /\ request'.calls = request.calls /\ request'.attempt = request.attempt
        /\ request'.audit = request.audit
    <3>1. n \in Nat /\ request \in Request
      BY <1>4, MemoryFields
    <3> QED BY ONLY <2>1, <2>2, <3>1 DEF Request, Compacting
  <2>4. Metered' /\ Chosen' /\ CheckpointKept'
    BY <1>1, <1>4, <2>3 DEF MemoryInv, Metered, Chosen, CheckpointKept, Compacting, conversation
  <2> QED BY <1>1, <1>4, <2>3, <2>4, OnlyTheRequest
<1> QED BY <1>3, <1>4 DEF Measure, Selectable

LEMMA WriteSummaryKeeps ==
    ASSUME MemoryInv, NEW size \in SummarySizes, WriteSummary(size)
    PROVE  MemoryInv'
<1>1. size \in Nat
  BY MemoryAssumption
<1>2. /\ request.step \in {"summarizing", "shrinking"}
      /\ request' = [request EXCEPT !.step = "verifying", !.summary = size]
      /\ UNCHANGED <<conversation, told, revision, checkpoint, prepared>>
  BY DEF WriteSummary
<1>3. /\ request' \in Request /\ request'.step = "verifying"
      /\ request'.selected = request.selected
      /\ request'.calls = request.calls /\ request'.attempt = request.attempt
        /\ request'.audit = request.audit
  BY <1>1, <1>2, RequestTyped DEF Request, Compacting
<1>4. Metered' /\ Chosen' /\ CheckpointKept'
  BY <1>2, <1>3 DEF MemoryInv, Metered, Chosen, CheckpointKept, Compacting, conversation
<1> QED BY <1>2, <1>3, <1>4, OnlyTheRequest

LEMMA RefuseSummaryKeeps ==
    ASSUME MemoryInv, RefuseSummary
    PROVE  MemoryInv'
<1>1. /\ request.step \in {"summarizing", "shrinking"} /\ request.step \in Compacting
      /\ UNCHANGED <<told, revision, checkpoint, prepared>> /\ request.originalFits \in BOOLEAN
  BY RequestTyped, RequestFields DEF RefuseSummary, Compacting
<1>2. CASE GoOn \/ Abandon(request.originalFits)
  BY <1>1, <1>2, CompactionLeaves
<1>3. CASE request' = [request EXCEPT !.repair = 1] /\ UNCHANGED conversation
  <2>1. /\ request' \in Request /\ request'.step = request.step
        /\ request'.selected = request.selected
        /\ request'.calls = request.calls /\ request'.attempt = request.attempt
        /\ request'.audit = request.audit
    BY <1>3, RequestTyped DEF Request
  <2>2. Metered' /\ Chosen' /\ CheckpointKept'
    BY <1>1, <1>3, <2>1 DEF MemoryInv, Metered, Chosen, CheckpointKept, Compacting, conversation
  <2> QED BY <1>1, <1>3, <2>1, <2>2, OnlyTheRequest
<1>4. CASE /\ request.selected \div 2 >= 1 /\ UNCHANGED conversation
           /\ request' = [request EXCEPT !.step = "shrinking",
                                         !.selected = request.selected \div 2]
  <2>1. request.selected \in 1..Len(history) /\ Len(history) \in Nat
    BY <1>1 DEF MemoryInv, MemoryTypeOK, Chosen
  <2>2. request.selected \div 2 \in 1..Len(history)
    BY <1>4, <2>1
  <2>3. /\ request' \in Request /\ request'.step = "shrinking"
        /\ request'.selected = request.selected \div 2
        /\ request'.calls = request.calls /\ request'.attempt = request.attempt
        /\ request'.audit = request.audit
    <3>1. request.selected \div 2 \in Nat
      BY <2>2
    <3> QED BY <1>4, <3>1, RequestTyped, RequestShrinks
  <2>4. Metered' /\ Chosen' /\ CheckpointKept'
    BY <1>1, <1>4, <2>2, <2>3 DEF MemoryInv, Metered, Chosen, CheckpointKept, Compacting, conversation
  <2> QED BY <1>1, <1>4, <2>3, <2>4, OnlyTheRequest
<1> QED BY <1>2, <1>3, <1>4 DEF RefuseSummary

LEMMA LoseSummaryKeeps ==
    ASSUME MemoryInv, LoseSummary
    PROVE  MemoryInv'
<1>1. /\ request.step \in Compacting /\ request.originalFits \in BOOLEAN
      /\ UNCHANGED <<told, revision, checkpoint, prepared>>
  BY RequestTyped, RequestFields DEF LoseSummary, Compacting
<1> QED BY <1>1, CompactionLeaves DEF LoseSummary

\* The summary takes the place of exactly the exchanges it was made of.
LEMMA VerifySummaryKeeps ==
    ASSUME MemoryInv, NEW count \in Nat, VerifySummary(count)
    PROVE  MemoryInv'
<1>1. /\ request.step = "verifying" /\ request.originalFits \in BOOLEAN
      /\ UNCHANGED <<told, revision, checkpoint, prepared>>
  BY RequestTyped, RequestFields DEF VerifySummary
<1>2. CASE Abandon(request.originalFits)
  BY <1>1, <1>2, CompactionLeaves DEF Compacting
<1>3. CASE /\ memory' = [covers |-> memory.covers \o SubSeq(history, 1, request.selected),
                         size |-> request.summary]
           /\ history' = After(request.selected)
           /\ request' = [request EXCEPT !.step = "measuring", !.compacted = TRUE]
  <2>1. request.selected \in 0..Len(history) /\ request.summary \in Nat
    BY <1>1, MemoryFields, RequestFields DEF MemoryInv, Chosen
  <2>2. memory'.covers \o history' = Exchanges(told)
    <3>1. memory'.covers \o history'
             = (memory.covers \o SubSeq(history, 1, request.selected))
                  \o SubSeq(history, request.selected + 1, Len(history))
      BY <1>3 DEF After
    <3> QED BY <2>1, <3>1, MemoryFields, PrefixMoves DEF MemoryInv, Told
  <2>3. memory' \in Memo /\ history' \in Seq(Nat)
    <3>1. /\ SubSeq(history, 1, request.selected) \in Seq(Nat)
          /\ SubSeq(history, request.selected + 1, Len(history)) \in Seq(Nat)
      BY <2>1, MemoryFields, PartsTyped
    <3>2. memory.covers \o SubSeq(history, 1, request.selected) \in Seq(Nat)
      BY <3>1, MemoryFields
    <3> QED BY <1>3, <2>1, <3>1, <3>2 DEF Memo, After
  <2>4. /\ request' \in Request /\ request'.step = "measuring"
        /\ request'.calls = request.calls /\ request'.attempt = request.attempt
        /\ request'.audit = request.audit
    BY <1>3, RequestTyped DEF Request, Compacting
  <2>5. Metered' /\ Chosen' /\ CheckpointKept'
    BY <1>1, <2>4 DEF MemoryInv, Metered, Chosen, CheckpointKept, Compacting
  <2> QED BY <1>1, <2>2, <2>3, <2>4, <2>5, OnlyTheConversation
<1> QED BY <1>2, <1>3 DEF VerifySummary

\* The next call of a request, whatever comes of it, is within the bound; what it spends counts
\* for the next repair as well.
LEMMA LastCall ==
    ASSUME MemoryInv, request.step = "generating"
    PROVE  /\ request.calls + 1 <= (request.audits + 1) * (2 * MaxRetries + 1)
           /\ request.calls + 1 <= (request.audits + 1) * (MaxRetries + (request.repair + 1))
<1>1. /\ request.repair <= MaxRetries /\ request.audit <= request.audits
      /\ request.calls <= Spent(request)
  BY DEF MemoryInv, Metered
<1>2. PICK n \in Nat, m \in Nat, p \in Nat, k \in Nat, t \in Nat, c \in Nat :
         /\ n = request.audits /\ m = MaxRetries /\ p = request.repair
         /\ k = request.audit /\ t = request.attempt /\ c = request.calls
  BY MeterFields
<1>3. k <= n /\ p <= m /\ t <= m
  BY <1>1, <1>2, MeterFields
<1>4. CASE request.repair = 0
  <2>1. c <= k * (m + 1) + t /\ p = 0
    BY <1>1, <1>2, <1>4 DEF Spent
  <2>2. /\ k * (m + 1) + t + 1 <= (n + 1) * (m + 1)
        /\ (n + 1) * (m + 1) <= (n + 1) * (2 * m + 1)
    BY <1>3, FirstOutput
  <2>3. PICK x \in Nat, y \in Nat, z \in Nat :
           x = k * (m + 1) /\ y = (n + 1) * (m + 1) /\ z = (n + 1) * (2 * m + 1)
    OBVIOUS
  <2>4. c + 1 <= y /\ c + 1 <= z
    <3>1. c <= x + t /\ x + t + 1 <= y /\ y <= z
      BY <2>1, <2>2, <2>3
    <3> QED BY <3>1
  <2>5. m + (p + 1) = m + 1
    BY <2>1
  <2> QED BY <1>2, <2>3, <2>4, <2>5
<1>5. CASE request.repair # 0
  <2>1. c <= (n + 1) * (m + p) + k
    BY <1>1, <1>2, <1>5 DEF Spent
  <2>2. /\ (n + 1) * (m + p) + k + 1 <= (n + 1) * (m + (p + 1))
        /\ (n + 1) * (m + p) + k + 1 <= (n + 1) * (2 * m + 1)
    BY <1>3, RepairRow
  <2>3. PICK x \in Nat, y \in Nat, z \in Nat :
           /\ x = (n + 1) * (m + p) /\ y = (n + 1) * (m + (p + 1))
           /\ z = (n + 1) * (2 * m + 1)
    OBVIOUS
  <2>4. c <= x + k /\ x + k + 1 <= y /\ x + k + 1 <= z
    BY <2>1, <2>2, <2>3
  <2>5. c + 1 <= y /\ c + 1 <= z
    BY <2>4
  <2> QED BY <1>2, <2>3, <2>5
<1> QED BY <1>4, <1>5

\* A request that goes on generating, within what it may have spent.
LEMMA GeneratingMeter ==
    ASSUME request' \in Request, request'.step = "generating",
           request'.repair <= MaxRetries, request'.audit <= request'.audits,
           request'.repair > 0 => request'.attempt = 0,
           request'.calls <= Spent(request')
    PROVE  Metered' /\ Chosen'
BY DEF Metered, Chosen, Compacting, Spent

LEMMA RetryCallKeeps ==
    ASSUME MemoryInv, RetryCall
    PROVE  MemoryInv'
<1>1. /\ request.step = "generating" /\ request.attempt + 1 < AttemptLimit(request.repair)
      /\ request' = [request EXCEPT !.attempt = @ + 1, !.calls = @ + 1]
      /\ UNCHANGED <<conversation, told, revision, checkpoint, prepared>>
  BY DEF RetryCall
<1>2. request.repair = 0 /\ request.attempt + 1 \in 0..MaxRetries
  BY <1>1, MeterFields DEF AttemptLimit
<1>3. /\ request' \in Request /\ request'.step = "generating" /\ request'.repair = 0
      /\ request'.calls = request.calls + 1 /\ request'.attempt = request.attempt + 1
      /\ request'.audits = request.audits /\ request'.audit = request.audit
  <2>1. PICK calls \in Nat, attempt \in 0..MaxRetries :
           calls = request.calls + 1 /\ attempt = request.attempt + 1
    BY <1>2, MeterFields
  <2>2. request' = [request EXCEPT !.attempt = attempt, !.calls = calls]
    BY <1>1, <2>1
  <2>3. /\ request' \in Request /\ request'.step = request.step
        /\ request'.repair = request.repair
        /\ request'.calls = calls /\ request'.attempt = attempt
        /\ request'.audits = request.audits /\ request'.audit = request.audit
    <3>1. request \in Request
      BY RequestTyped
    <3> QED BY ONLY <2>2, <3>1 DEF Request
  <2> QED BY <1>1, <1>2, <2>1, <2>3
<1>4. request.calls <= Spent(request) /\ request.audit <= request.audits
  BY <1>1 DEF MemoryInv, Metered
<1>5. request'.calls <= Spent(request')
  <2>1. PICK x \in Nat, t \in Nat : x = request.audit * (MaxRetries + 1) /\ t = request.attempt
    BY MeterFields
  <2>2. Spent(request) = x + t /\ Spent(request') = x + (t + 1)
    BY <1>2, <1>3, <2>1 DEF Spent
  <2> QED BY <1>3, <1>4, <2>2, MeterFields
<1>6. Metered' /\ Chosen'
  <2>1. request'.repair <= MaxRetries /\ ~(request'.repair > 0)
    BY <1>3, MeterFields
  <2> QED BY <1>3, <1>4, <1>5, <2>1, GeneratingMeter
<1>7. CheckpointKept'
  <2>1. request.step # "none" /\ UNCHANGED <<checkpoint, told>>
    BY <1>1
  <2> QED BY <2>1 DEF MemoryInv, CheckpointKept
<1> QED BY <1>1, <1>3, <1>6, <1>7, OnlyTheRequest

LEMMA NextAuditKeeps ==
    ASSUME MemoryInv, NextAudit
    PROVE  MemoryInv'
<1>1. /\ request.step = "generating" /\ request.audit < request.audits
      /\ request' = [request EXCEPT !.audit = @ + 1, !.attempt = 0, !.calls = @ + 1]
      /\ UNCHANGED <<conversation, told, revision, checkpoint, prepared>>
  BY DEF NextAudit
<1>2. /\ request' \in Request /\ request'.step = "generating"
      /\ request'.repair = request.repair /\ request'.audits = request.audits
      /\ request'.audit = request.audit + 1 /\ request'.attempt = 0
      /\ request'.calls = request.calls + 1
  <2>1. PICK calls \in Nat, audit \in Nat : calls = request.calls + 1 /\ audit = request.audit + 1
    BY MeterFields
  <2>2. request' = [request EXCEPT !.audit = audit, !.attempt = 0, !.calls = calls]
    BY <1>1, <2>1
  <2>3. /\ request' \in Request /\ request'.step = request.step
        /\ request'.repair = request.repair /\ request'.audits = request.audits
        /\ request'.audit = audit /\ request'.attempt = 0 /\ request'.calls = calls
    <3>1. request \in Request /\ 0 \in 0..MaxRetries
      BY RequestTyped, MeterFields
    <3> QED BY ONLY <2>2, <3>1 DEF Request
  <2> QED BY <1>1, <2>1, <2>3
<1>3. /\ request.repair <= MaxRetries /\ request.calls <= Spent(request)
      /\ request'.audit <= request'.audits
  BY <1>1, <1>2, MeterFields DEF MemoryInv, Metered
<1>4. request'.calls <= Spent(request')
  <2>1. PICK n \in Nat, m \in Nat, p \in Nat, k \in Nat, t \in Nat, c \in Nat :
           /\ n = request.audits /\ m = MaxRetries /\ p = request.repair
           /\ k = request.audit /\ t = request.attempt /\ c = request.calls
    BY MeterFields
  <2>2. CASE request.repair = 0
    <3>1. c <= k * (m + 1) + t /\ Spent(request') = (k + 1) * (m + 1) + 0
      BY <1>2, <1>3, <2>1, <2>2 DEF Spent
    <3>2. k * (m + 1) + t + 1 <= (k + 1) * (m + 1)
      <4>1. k <= k /\ t <= m
        BY <2>1, MeterFields
      <4> QED BY <4>1, FirstOutput
    <3>3. PICK x \in Nat, y \in Nat : x = k * (m + 1) /\ y = (k + 1) * (m + 1)
      OBVIOUS
    <3>4. c + 1 <= y
      <4>1. c <= x + t /\ x + t + 1 <= y
        BY <3>1, <3>2, <3>3
      <4> QED BY <4>1
    <3> QED BY <1>2, <2>1, <3>1, <3>3, <3>4
  <2>3. CASE request.repair # 0
    <3>1. PICK x \in Nat : x = (n + 1) * (m + p)
      OBVIOUS
    <3>2. c <= x + k /\ Spent(request') = x + (k + 1)
      BY <1>2, <1>3, <2>1, <2>3, <3>1 DEF Spent
    <3> QED BY <1>2, <2>1, <3>2
  <2> QED BY <2>2, <2>3
<1>5. Metered' /\ Chosen'
  BY <1>2, <1>3, <1>4, GeneratingMeter
<1>6. CheckpointKept'
  <2>1. request.step # "none" /\ UNCHANGED <<checkpoint, told>>
    BY <1>1
  <2> QED BY <2>1 DEF MemoryInv, CheckpointKept
<1> QED BY <1>1, <1>2, <1>5, <1>6, OnlyTheRequest

LEMMA RepairOutputKeeps ==
    ASSUME MemoryInv, NEW sent \in BOOLEAN, RepairOutput(sent)
    PROVE  MemoryInv'
<1>1. /\ request.step = "generating" /\ request.repair < MaxRetries
      /\ request' = [request EXCEPT !.repair = @ + 1, !.attempt = 0, !.audit = 0,
                                    !.calls = IF sent THEN @ + 1 ELSE @]
      /\ UNCHANGED <<conversation, told, revision, checkpoint, prepared>>
  BY DEF RepairOutput
<1>2. /\ request' \in Request /\ request'.step = "generating" /\ request'.attempt = 0
      /\ request'.audits = request.audits /\ request'.audit = 0
      /\ request'.repair = request.repair + 1 /\ request'.calls <= request.calls + 1
  <2>1. PICK calls \in Nat : /\ calls = (IF sent THEN request.calls + 1 ELSE request.calls)
                             /\ calls <= request.calls + 1
    BY MeterFields
  <2>2. PICK repair \in Nat : repair = request.repair + 1
    BY MeterFields
  <2>3. request' = [request EXCEPT !.repair = repair, !.attempt = 0, !.audit = 0, !.calls = calls]
    BY <1>1, <2>1, <2>2
  <2>4. /\ request' \in Request /\ request'.step = request.step /\ request'.attempt = 0
        /\ request'.audits = request.audits /\ request'.audit = 0
        /\ request'.repair = repair /\ request'.calls = calls
    <3>1. request \in Request /\ 0 \in 0..MaxRetries
      BY RequestTyped, MeterFields
    <3> QED BY ONLY <2>3, <3>1 DEF Request
  <2> QED BY <1>1, <2>1, <2>2, <2>4
<1>3. request'.calls <= Spent(request')
  <2>1. PICK x \in Nat, c \in Nat : /\ x = (request.audits + 1) * (MaxRetries + (request.repair + 1))
                                    /\ c = request.calls
    BY MeterFields
  <2>2. c + 1 <= x
    BY <1>1, <2>1, LastCall
  <2>3. Spent(request') = x + 0
    BY <1>2, <2>1, MeterFields DEF Spent
  <2>4. request'.calls \in Nat
    BY <1>2, RequestFields
  <2> QED BY <1>2, <2>1, <2>2, <2>3, <2>4
<1>4. Metered' /\ Chosen'
  <2>1. request'.repair <= MaxRetries /\ request'.audit <= request'.audits
    BY <1>1, <1>2, MeterFields
  <2> QED BY <1>2, <1>3, <2>1, GeneratingMeter
<1>5. CheckpointKept'
  <2>1. request.step # "none" /\ UNCHANGED <<checkpoint, told>>
    BY <1>1
  <2> QED BY <2>1 DEF MemoryInv, CheckpointKept
<1> QED BY <1>1, <1>2, <1>4, <1>5, OnlyTheRequest

LEMMA UnwindKeeps ==
    ASSUME MemoryInv, Unwind
    PROVE  /\ memory' \in Memo /\ history' \in Seq(Nat)
           /\ memory'.covers \o history' = Exchanges(told)
BY DEF MemoryInv, MemoryTypeOK, Told, CheckpointKept, Metered, Unwind, PutBack, conversation, Compacting

\* A request that ends with the call it was waiting for, or without it.
LEMMA EndedMeter ==
    ASSUME MemoryInv, request' \in Request, request'.step \in {"done", "failed"},
           request'.audits = request.audits, request'.calls <= request.calls + 1,
           request.calls + 1 <= (request.audits + 1) * (2 * MaxRetries + 1)
    PROVE  Metered'
<1>1. PICK c \in Nat, d \in Nat, z \in Nat :
         /\ c = request.calls /\ d = request'.calls
         /\ z = (request.audits + 1) * (2 * MaxRetries + 1)
  BY MeterFields, RequestFields
<1>2. d <= z
  BY <1>1
<1> QED BY <1>1, <1>2 DEF Metered, Compacting

LEMMA FailRequestKeeps ==
    ASSUME MemoryInv, NEW sent \in BOOLEAN, FailRequest(sent)
    PROVE  MemoryInv'
<1>1. /\ request.step = "generating" /\ Unwind
      /\ request' = [request EXCEPT !.step = "failed", !.calls = IF sent THEN @ + 1 ELSE @]
      /\ UNCHANGED <<told, revision, checkpoint, prepared>>
  BY DEF FailRequest
<1>2. /\ request' \in Request /\ request'.step = "failed" /\ request'.audits = request.audits
      /\ request'.calls <= request.calls + 1
  <2>1. PICK calls \in Nat : /\ calls = (IF sent THEN request.calls + 1 ELSE request.calls)
                             /\ calls <= request.calls + 1
    BY MeterFields
  <2>2. request' = [request EXCEPT !.step = "failed", !.calls = calls]
    BY <1>1, <2>1
  <2>3. /\ request' \in Request /\ request'.step = "failed" /\ request'.calls = calls
        /\ request'.audits = request.audits
    <3>1. request \in Request
      BY RequestTyped
    <3> QED BY <2>2, <3>1, RequestEnds
  <2> QED BY <2>1, <2>3
<1>3. Metered'
  BY <1>1, <1>2, LastCall, EndedMeter
<1>4. Chosen' /\ CheckpointKept'
  BY <1>1, <1>2 DEF MemoryInv, Chosen, CheckpointKept
<1> QED BY <1>1, <1>2, <1>3, <1>4, UnwindKeeps, OnlyTheConversation

\* The staged exchange follows the conversation it was asked with, and only in what is prepared.
LEMMA AnswerKeeps ==
    ASSUME MemoryInv, Answer
    PROVE  MemoryInv'
<1>1. /\ request.step = "generating" /\ UNCHANGED <<told, revision, checkpoint>>
      /\ request' = [request EXCEPT !.step = "done", !.calls = @ + 1]
  BY DEF Answer
<1>2. /\ request' \in Request /\ request'.step = "done" /\ request'.audits = request.audits
      /\ request'.calls <= request.calls + 1
  <2>1. PICK calls \in Nat : calls = request.calls + 1
    BY MeterFields
  <2>2. request' = [request EXCEPT !.step = "done", !.calls = calls]
    BY <1>1, <2>1
  <2>3. /\ request' \in Request /\ request'.step = "done" /\ request'.calls = calls
        /\ request'.audits = request.audits
    <3>1. request \in Request
      BY RequestTyped
    <3> QED BY <2>2, <3>1, RequestEnds
  <2>4. calls <= request.calls + 1
    BY <2>1, MeterFields
  <2> QED BY <2>3, <2>4
<1>3. Metered'
  BY <1>1, <1>2, LastCall, EndedMeter
<1>4. CASE request.staged
  <2>1. /\ prepared' = [ready |-> TRUE, memory |-> memory,
                        history |-> Append(history, told), revision |-> revision]
        /\ memory' = checkpoint.memory /\ history' = checkpoint.history
    BY <1>4 DEF Answer, PutBack
  <2>2. memory.covers \o Append(history, told) = Exchanges(told + 1)
    BY ExchangeAppended DEF MemoryInv, MemoryTypeOK, Memo, Told
  <2>3. Ready'
    BY <1>1, <2>1, <2>2 DEF Ready
  <2>4. MemoryTypeOK'
    BY <1>1, <1>2, <2>1 DEF MemoryInv, MemoryTypeOK
  <2> QED BY <1>1, <1>2, <1>3, <2>1, <2>3, <2>4 DEF MemoryInv, Told, CheckpointKept, Chosen
<1>5. CASE ~request.staged
  BY <1>1, <1>2, <1>3, <1>5
     DEF Answer, MemoryInv, MemoryTypeOK, Told, CheckpointKept, Chosen, Ready, conversation
<1> QED BY <1>4, <1>5

LEMMA CancelRequestKeeps ==
    ASSUME MemoryInv, CancelRequest
    PROVE  MemoryInv'
<1>1. /\ request' = NoRequest /\ prepared' = NothingPrepared
      /\ UNCHANGED <<told, revision, checkpoint>>
  BY DEF CancelRequest
<1>2. NoRequest \in Request
  BY MemoryFields DEF NoRequest, Request
<1>3. Metered' /\ Chosen' /\ CheckpointKept'
  BY <1>1 DEF Metered, Chosen, CheckpointKept, NoRequest
<1>4. Ready' /\ prepared' \in [ready : BOOLEAN, memory : Memo, history : Seq(Nat), revision : Nat]
  BY <1>1 DEF Ready, NothingPrepared, NoMemo, Memo
<1>5. Unwind
  BY DEF CancelRequest
<1> QED BY <1>1, <1>2, <1>3, <1>4, <1>5, UnwindKeeps DEF MemoryInv, MemoryTypeOK, Told

LEMMA EndRequestKeeps ==
    ASSUME MemoryInv, NEW outcome \in {"done", "failed"}, EndRequest(outcome)
    PROVE  MemoryInv'
<1>1. request' = NoRequest /\ UNCHANGED <<conversation, told, revision, checkpoint, prepared>>
  BY DEF EndRequest
<1>2. NoRequest \in Request
  BY MemoryFields DEF NoRequest, Request
<1>3. Metered' /\ Chosen' /\ CheckpointKept'
  BY <1>1 DEF Metered, Chosen, CheckpointKept, NoRequest
<1> QED BY <1>1, <1>2, <1>3, OnlyTheRequest

LEMMA CommitKeeps ==
    ASSUME MemoryInv, request.step = "none", Commit
    PROVE  MemoryInv'
<1>1. /\ prepared.ready
      /\ memory' = prepared.memory /\ history' = prepared.history
      /\ revision' = revision + 1 /\ told' = told + 1
      /\ prepared' = NothingPrepared /\ UNCHANGED <<checkpoint, request>>
  BY DEF Commit
<1>2. MemoryTypeOK'
  BY <1>1 DEF MemoryInv, MemoryTypeOK, NothingPrepared, NoMemo, Memo
<1>3. Told' /\ Ready'
  BY <1>1 DEF MemoryInv, Ready, Told, NothingPrepared
<1>4. CheckpointKept' /\ Chosen'
  BY <1>1 DEF CheckpointKept, Chosen
<1>5. Metered'
  BY <1>1 DEF MemoryInv, Metered
<1> QED BY <1>2, <1>3, <1>4, <1>5 DEF MemoryInv

LEMMA DropKeeps ==
    ASSUME MemoryInv, Drop
    PROVE  MemoryInv'
<1>1. prepared' = NothingPrepared /\ UNCHANGED <<memory, history, told, revision, checkpoint, request>>
  BY DEF Drop, conversation
<1>2. MemoryTypeOK' /\ Ready'
  BY <1>1 DEF MemoryInv, MemoryTypeOK, Ready, NothingPrepared, NoMemo, Memo
<1>3. Told' /\ CheckpointKept' /\ Chosen' /\ Metered'
  BY <1>1 DEF MemoryInv, Told, CheckpointKept, Chosen, Metered
<1> QED BY <1>2, <1>3 DEF MemoryInv

LEMMA SetGenesisKeeps ==
    ASSUME MemoryInv, ~prepared.ready, SetGenesis
    PROVE  MemoryInv'
BY NoExchange
   DEF MemoryInv, MemoryTypeOK, Told, CheckpointKept, Chosen, Metered, Ready, SetGenesis, NoMemo, Memo

LEMMA CountsTyped ==
    ASSUME NEW n \in Nat, NEW count \in Counts(n)
    PROVE  count \in Nat
BY MemoryAssumption DEF Counts

LEMMA TotalTyped ==
    ASSUME request.prompt \in Nat, NEW size \in Nat, NEW pairs \in Nat
    PROVE  Total(size, pairs) \in Nat
<1>1. PairSize \in Nat
  BY MemoryAssumption
<1>2. PairSize * pairs \in Nat
  BY <1>1
<1> QED BY <1>2 DEF Total

LEMMA RequestStepKeeps ==
    ASSUME MemoryInv, RequestStep
    PROVE  MemoryInv'
<1>1. ASSUME NEW count \in Counts(Total(memory.size, Len(history))), Measure(count)
      PROVE  MemoryInv'
  <2>1. count \in Nat
    <3>1. request.prompt \in Nat /\ Len(history) \in Nat /\ memory.size \in Nat
      BY RequestTyped, RequestFields, MemoryFields
    <3>2. Total(memory.size, Len(history)) \in Nat
      BY <3>1, TotalTyped
    <3> QED BY <1>1, <3>2, CountsTyped
  <2> QED BY <1>1, <2>1, MeasureKeeps
<1>2. ASSUME NEW count \in Counts(Total(request.summary, Len(history) - request.selected)),
             VerifySummary(count)
      PROVE  MemoryInv'
  <2>1. Len(history) - request.selected \in Nat
    BY <1>2, MemoryFields DEF VerifySummary, MemoryInv, Chosen
  <2>2. count \in Nat
    <3>1. request.prompt \in Nat /\ request.summary \in Nat
      BY RequestTyped, RequestFields
    <3>2. Total(request.summary, Len(history) - request.selected) \in Nat
      BY <2>1, <3>1, TotalTyped
    <3> QED BY <1>2, <3>2, CountsTyped
  <2> QED BY <1>2, <2>2, VerifySummaryKeeps
<1> QED BY <1>1, <1>2, WriteSummaryKeeps, RefuseSummaryKeeps, LoseSummaryKeeps, RetryCallKeeps,
           NextAuditKeeps, RepairOutputKeeps, FailRequestKeeps, AnswerKeeps
        DEF RequestStep

-----------------------------------------------------------------------------
(* The archive: types *)

LEMMA WritesTyped ==
    /\ Creating \in Write /\ Removing \in Write /\ Finishing \in Write
    /\ \A n \in Nat : Appending(n) \in Write
    /\ Opening \in Section /\ Torn \in Section
BY DEF Creating, Removing, Finishing, Appending, Write, Section, Opening, Article, Footer, Torn

LEMMA BeginTyped ==
    ASSUME TranscriptTypeOK, NEW w \in Write, Begin(w)
    PROVE  TranscriptTypeOK'
BY DEF TranscriptTypeOK, Begin, Lock

LEMMA FinishTyped ==
    ASSUME TranscriptTypeOK, NEW w \in threads, NEW ok \in BOOLEAN, Finish(w, ok)
    PROVE  TranscriptTypeOK'
<1>1. w \in Write /\ w.section \in Section
  BY DEF TranscriptTypeOK, Write
<1>2. archive \in Seq(Section) /\ <<Opening>> \in Seq(Section) /\ <<>> \in Seq(Section)
      /\ Append(archive, w.section) \in Seq(Section) /\ Append(archive, Torn) \in Seq(Section)
  BY <1>1, WritesTyped DEF TranscriptTypeOK
<1>3. archive' \in Seq(Section)
  <2>1. OnDisk(w) \in Seq(Section)
    BY <1>2 DEF OnDisk
  <2>2. AfterError(w) \subseteq Seq(Section)
    BY <1>2 DEF AfterError
  <2> QED BY <2>1, <2>2 DEF Finish
<1>4. threads' \in SUBSET Write /\ started' \in BOOLEAN /\ finalized' \in BOOLEAN
  BY DEF Finish, TranscriptTypeOK
<1>5. lock' \in Lock
  BY WritesTyped DEF Finish, TranscriptTypeOK, Lock, Free
<1>6. result' \in {"none", "ok", "error", "cancelled"}
  BY DEF Finish, TranscriptTypeOK
<1> QED BY <1>3, <1>4, <1>5, <1>6 DEF TranscriptTypeOK

LEMMA CancelWriteTyped ==
    ASSUME TranscriptTypeOK, CancelWrite
    PROVE  TranscriptTypeOK'
BY DEF TranscriptTypeOK, CancelWrite, WaitOut, Lock

LEMMA TakeTyped ==
    ASSUME TranscriptTypeOK, NEW r, Take(r)
    PROVE  TranscriptTypeOK'
BY DEF TranscriptTypeOK, Take

-----------------------------------------------------------------------------
(* The jobs *)

Tells == job.kind = "start" \/ (job.kind = "round" /\ planned)

\* A request belongs to the job that asks; only the telling of a part of the story is staged,
\* and what is prepared belongs to the job that will commit it.
JobInv ==
    /\ request.step # "none" => job.step = "asking"
    /\ request.staged => Tells
    /\ prepared.ready =>
          \/ job.step = "asking" /\ request.step = "done" /\ request.staged
          \/ job.step \in {"committing", "discarding"}
          \/ job.step = "archiving" /\ job.kind # "round"
    /\ job.step = "archiving" /\ job.kind = "round" => told > 0

ChronicleInv == MemoryInv /\ TranscriptTypeOK /\ GameTypeOK /\ JobInv

\* The steps of a request leave it to its job, and only a staged answer prepares anything.
Stays ==
    /\ request.step \in Compacting \cup {"generating"}
    /\ request'.staged = request.staged /\ told' = told
    /\ prepared' = prepared \/ (request.staged /\ request'.step = "done")

LEMMA RequestStepStays ==
    ASSUME MemoryInv, RequestStep
    PROVE  Stays
<1>1. request \in Request
  BY RequestTyped
<1>2. GoOn => request'.staged = request.staged
  BY <1>1 DEF GoOn, Request
<1>3. \A fitted : Abandon(fitted) => request'.staged = request.staged
  BY <1>1 DEF Abandon, Request
<1>4. ASSUME NEW count, Measure(count)
      PROVE  Stays
  <2>1. /\ request.step = "measuring" /\ told' = told /\ prepared' = prepared
    BY <1>4 DEF Measure
  <2>2. request'.staged = request.staged
    <3> DEFINE fits == count <= Window
               originalFits == IF request.compacted THEN request.originalFits ELSE fits
    <3>1. ASSUME NEW n, NEW f, NEW o,
                 request' = [request EXCEPT !.step = "summarizing", !.selected = n,
                                !.count = count, !.fits = f, !.originalFits = o, !.repair = 0]
          PROVE  request'.staged = request.staged
      BY <1>1, <3>1 DEF Request
    <3>2. \/ GoOn \/ Abandon(originalFits)
          \/ \E n \in Selectable(PrefixLimit(fits)) :
                request' = [request EXCEPT !.step = "summarizing", !.selected = n,
                                           !.count = count, !.fits = fits,
                                           !.originalFits = originalFits, !.repair = 0]
      BY <1>4 DEF Measure
    <3> HIDE DEF fits, originalFits
    <3> QED BY <1>2, <1>3, <3>1, <3>2
  <2> QED BY <2>1, <2>2 DEF Stays, Compacting
<1>5. ASSUME NEW size, WriteSummary(size)
      PROVE  Stays
  BY <1>1, <1>5 DEF WriteSummary, Stays, Compacting, Request
<1>6. CASE RefuseSummary
  <2>1. /\ request.step \in {"summarizing", "shrinking"} /\ told' = told /\ prepared' = prepared
    BY <1>6 DEF RefuseSummary
  <2>2. request'.staged = request.staged
    <3>1. ASSUME NEW n, request' = [request EXCEPT !.step = "shrinking", !.selected = n]
          PROVE  request'.staged = request.staged
      BY <1>1, <3>1 DEF Request
    <3>2. ASSUME request' = [request EXCEPT !.repair = 1]
          PROVE  request'.staged = request.staged
      BY <1>1, <3>2 DEF Request
    <3> QED BY <1>2, <1>3, <1>6, <3>1, <3>2 DEF RefuseSummary
  <2> QED BY <2>1, <2>2 DEF Stays, Compacting
<1>7. CASE LoseSummary
  BY <1>2, <1>3, <1>7 DEF LoseSummary, Stays, Compacting
<1>8. ASSUME NEW count, VerifySummary(count)
      PROVE  Stays
  BY <1>1, <1>3, <1>8 DEF VerifySummary, Stays, Compacting, Request
<1>9. CASE RetryCall
  <2>1. ASSUME NEW a, NEW c, request' = [request EXCEPT !.attempt = a, !.calls = c]
        PROVE  request'.staged = request.staged
    BY <1>1, <2>1 DEF Request
  <2> QED BY <1>9, <2>1 DEF RetryCall, Stays
<1>10. ASSUME NEW sent \in BOOLEAN, RepairOutput(sent)
       PROVE  Stays
  <2>1. ASSUME NEW n, NEW c,
               request' = [request EXCEPT !.repair = n, !.attempt = 0, !.audit = 0, !.calls = c]
        PROVE  request'.staged = request.staged
    BY <1>1, <2>1 DEF Request
  <2> QED BY <1>10, <2>1 DEF RepairOutput, Stays
<1>11. ASSUME NEW s, NEW c, request' = [request EXCEPT !.step = s, !.calls = c]
       PROVE  request'.staged = request.staged /\ request'.step = s
  BY <1>1, <1>11 DEF Request
<1>12. ASSUME NEW sent \in BOOLEAN, FailRequest(sent)
       PROVE  Stays
  BY <1>11, <1>12 DEF FailRequest, Stays
<1>13. CASE Answer
  BY <1>11, <1>13 DEF Answer, Stays
<1>14. CASE NextAudit
  <2>1. ASSUME NEW n, NEW c, request' = [request EXCEPT !.audit = n, !.attempt = 0, !.calls = c]
        PROVE  request'.staged = request.staged
    BY <1>1, <2>1 DEF Request
  <2> QED BY <1>14, <2>1 DEF NextAudit, Stays
<1> QED BY <1>4, <1>5, <1>6, <1>7, <1>8, <1>9, <1>10, <1>12, <1>13, <1>14 DEF RequestStep

LEMMA WorkKeeps ==
    ASSUME ChronicleInv, Work
    PROVE  ChronicleInv'
<1>1. RequestStep /\ UNCHANGED <<transcriptVars, gameVars>>
  BY DEF Work
<1>2. MemoryInv' /\ Stays
  BY <1>1, RequestStepKeeps, RequestStepStays DEF ChronicleInv
<1>3. TranscriptTypeOK' /\ GameTypeOK'
  BY <1>1 DEF ChronicleInv, TranscriptTypeOK, GameTypeOK, transcriptVars, gameVars
<1>4. JobInv'
  <2>1. job.step = "asking" /\ ~prepared.ready
    BY <1>2 DEF ChronicleInv, JobInv, Stays, Compacting
  <2> QED BY <1>1, <1>2, <2>1 DEF ChronicleInv, JobInv, Stays, Tells, gameVars
<1> QED BY <1>2, <1>3, <1>4 DEF ChronicleInv

\* A job begins when none is there, and asks.
LEMMA LaunchesKeep ==
    ASSUME ChronicleInv, LaunchScenario \/ Launch
    PROVE  ChronicleInv'
<1>1. PICK kind \in {"scenario", "start", "round"} : Launched(kind)
  BY DEF LaunchScenario, Launch
<1>2. /\ job = Idle /\ UNCHANGED <<told, request, prepared, transcriptVars>>
      /\ UNCHANGED <<scene, planned, effects, ended, lost, failures, shutdowns>>
  BY DEF LaunchScenario, Launch, SetGenesis, memoryVars
<1>3. request.step = "none" /\ ~prepared.ready /\ job.step = "idle"
  BY <1>2 DEF ChronicleInv, JobInv, Idle
<1>4. job' = [kind |-> kind, step |-> "asking", asked |-> 0, late |-> FALSE]
  BY <1>1 DEF Launched, Idle
<1>5. MemoryInv'
  <2>1. CASE LaunchScenario
    BY <1>3, <2>1, SetGenesisKeeps DEF LaunchScenario, ChronicleInv
  <2>2. CASE Launch
    BY <2>2, MemoryInvUnchanged DEF Launch, ChronicleInv
  <2> QED BY <2>1, <2>2
<1>6. TranscriptTypeOK' /\ GameTypeOK'
  BY <1>2, <1>4 DEF ChronicleInv, TranscriptTypeOK, GameTypeOK, transcriptVars
<1>7. JobInv'
  BY <1>2, <1>3, <1>4 DEF ChronicleInv, JobInv, MemoryInv, Metered
<1> QED BY <1>5, <1>6, <1>7 DEF ChronicleInv

LEMMA AskKeeps ==
    ASSUME ChronicleInv, NEW prompt \in PromptSizes, Ask(prompt)
    PROVE  ChronicleInv'
<1> DEFINE staged == job.kind = "start" \/ (job.kind = "round" /\ planned)
<1>1. /\ job.step = "asking" /\ BeginRequest(staged, prompt, job.kind # "scenario", Audits)
      /\ UNCHANGED <<transcriptVars, gameVars>>
  BY DEF Ask
<1>2. prompt \in Nat /\ staged \in BOOLEAN /\ Audits \in Nat
  BY MemoryAssumption DEF Audits
<1>3. MemoryInv'
  BY <1>1, <1>2, BeginRequestKeeps DEF ChronicleInv
<1>4. TranscriptTypeOK' /\ GameTypeOK'
  BY <1>1 DEF ChronicleInv, TranscriptTypeOK, GameTypeOK, transcriptVars, gameVars
<1>5. JobInv'
  <2>1. request'.staged = staged
    BY <1>1 DEF BeginRequest, NoRequest
  <2>2. ~prepared.ready /\ UNCHANGED <<prepared, told>>
    BY <1>1 DEF ChronicleInv, JobInv, BeginRequest
  <2> QED BY <1>1, <2>1, <2>2 DEF JobInv, Tells, gameVars
<1> QED BY <1>3, <1>4, <1>5 DEF ChronicleInv

\* Actions that end the request and what was prepared, or leave both as they were.
LEMMA OpenLobbyKeeps ==
    ASSUME ChronicleInv, OpenLobby
    PROVE  ChronicleInv'
<1>1. /\ job.kind = "scenario" /\ EndRequest("done") /\ job' = Idle /\ scene' = TRUE
      /\ UNCHANGED <<transcriptVars, planned, effects, ended, lost, failures, shutdowns>>
  BY DEF OpenLobby
<1>2. request.step = "done" /\ request' = NoRequest /\ UNCHANGED <<told, prepared>>
  BY <1>1 DEF EndRequest
<1>3. MemoryInv'
  BY <1>1, EndRequestKeeps DEF ChronicleInv
<1>4. TranscriptTypeOK' /\ GameTypeOK'
  BY <1>1 DEF ChronicleInv, TranscriptTypeOK, GameTypeOK, transcriptVars, Idle
<1>5. ~prepared.ready
  BY <1>1, <1>2 DEF ChronicleInv, JobInv, Tells
<1>6. JobInv'
  BY <1>1, <1>2, <1>5 DEF JobInv, NoRequest, Idle
<1> QED BY <1>3, <1>4, <1>6 DEF ChronicleInv

LEMMA PlanKeeps ==
    ASSUME ChronicleInv, Plan
    PROVE  ChronicleInv'
<1>1. /\ job.kind = "round" /\ ~planned /\ EndRequest("done")
      /\ job' = [job EXCEPT !.asked = job.asked + 1] /\ planned' = (Triggered => job.asked = 1)
      /\ UNCHANGED <<transcriptVars, scene, effects, ended, lost, failures, shutdowns>>
  BY DEF Plan
<1>2. request.step = "done" /\ request' = NoRequest /\ UNCHANGED <<told, prepared>>
  BY <1>1 DEF EndRequest
<1>3. MemoryInv'
  BY <1>1, EndRequestKeeps DEF ChronicleInv
<1>4. PICK n \in Nat : n = job.asked + 1
  BY DEF ChronicleInv, GameTypeOK
<1>5. job' = [job EXCEPT !.asked = n]
  BY <1>1, <1>4
<1>6. TranscriptTypeOK' /\ GameTypeOK'
  BY <1>1, <1>5 DEF ChronicleInv, TranscriptTypeOK, GameTypeOK, transcriptVars
<1>7. job.step = "asking" /\ ~prepared.ready
  BY <1>1, <1>2 DEF ChronicleInv, JobInv, Tells
<1>8. job'.step = "asking" /\ job'.kind = "round"
  BY <1>1, <1>5, <1>7 DEF ChronicleInv, GameTypeOK
<1>9. JobInv'
  BY <1>2, <1>7, <1>8 DEF JobInv, NoRequest
<1> QED BY <1>3, <1>6, <1>9 DEF ChronicleInv

LEMMA StagedKeeps ==
    ASSUME ChronicleInv, Staged
    PROVE  ChronicleInv'
<1>1. /\ EndRequest("done") /\ job' = [job EXCEPT !.step = "committing"]
      /\ UNCHANGED <<transcriptVars, scene, planned, effects, ended, lost, failures, shutdowns>>
  BY DEF Staged
<1>2. request' = NoRequest /\ UNCHANGED <<told, prepared>>
  BY <1>1 DEF EndRequest
<1>3. MemoryInv'
  BY <1>1, EndRequestKeeps DEF ChronicleInv
<1>4. TranscriptTypeOK' /\ GameTypeOK' /\ job'.step = "committing"
  BY <1>1 DEF ChronicleInv, TranscriptTypeOK, GameTypeOK, transcriptVars
<1>5. JobInv'
  BY <1>2, <1>4 DEF JobInv, NoRequest
<1> QED BY <1>3, <1>4, <1>5 DEF ChronicleInv

LEMMA GiveUpKeeps ==
    ASSUME ChronicleInv, GiveUp
    PROVE  ChronicleInv'
<1>1. /\ EndRequest("failed") /\ job' = Idle /\ failures' = failures + 1
      /\ UNCHANGED <<transcriptVars, scene, planned, effects, ended, lost, shutdowns>>
  BY DEF GiveUp, FailJob
<1>2. request.step = "failed" /\ request' = NoRequest /\ UNCHANGED <<told, prepared>>
  BY <1>1 DEF EndRequest
<1>3. MemoryInv'
  BY <1>1, EndRequestKeeps DEF ChronicleInv
<1>4. TranscriptTypeOK' /\ GameTypeOK'
  BY <1>1 DEF ChronicleInv, TranscriptTypeOK, GameTypeOK, transcriptVars, Idle
<1>5. ~prepared.ready
  BY <1>1, <1>2 DEF ChronicleInv, JobInv
<1>6. JobInv'
  BY <1>1, <1>2, <1>5 DEF JobInv, NoRequest, Idle
<1> QED BY <1>3, <1>4, <1>6 DEF ChronicleInv

LEMMA CancelledClean ==
    ASSUME CancelRequest
    PROVE  /\ request'.step = "none" /\ ~request'.staged /\ ~prepared'.ready /\ told' = told
BY DEF CancelRequest, NoRequest, NothingPrepared

LEMMA ExpireKeeps ==
    ASSUME ChronicleInv, Expire
    PROVE  ChronicleInv'
<1>1. /\ CancelRequest /\ job' = Idle /\ failures' = failures + 1
      /\ UNCHANGED <<transcriptVars, scene, planned, effects, ended, lost, shutdowns>>
  BY DEF Expire, FailJob
<1>2. MemoryInv'
  BY <1>1, CancelRequestKeeps DEF ChronicleInv
<1>3. TranscriptTypeOK' /\ GameTypeOK'
  BY <1>1 DEF ChronicleInv, TranscriptTypeOK, GameTypeOK, transcriptVars, Idle
<1>4. JobInv'
  BY <1>1, CancelledClean DEF JobInv, Idle
<1> QED BY <1>2, <1>3, <1>4 DEF ChronicleInv

LEMMA ShutdownKeeps ==
    ASSUME ChronicleInv, Shutdown
    PROVE  ChronicleInv'
<1>1. /\ CancelRequest /\ job' = Idle /\ ended' = TRUE /\ shutdowns' = shutdowns + 1
      /\ UNCHANGED <<scene, planned, lost, failures>>
  BY DEF Shutdown
<1>2. MemoryInv'
  BY <1>1, CancelRequestKeeps DEF ChronicleInv
<1>3. TranscriptTypeOK'
  <2>1. CASE UNCHANGED transcriptVars
    BY <2>1 DEF ChronicleInv, TranscriptTypeOK, transcriptVars
  <2>2. CASE Finalize
    BY <2>2, BeginTyped, WritesTyped DEF ChronicleInv, Finalize
  <2> QED BY <2>1, <2>2 DEF Shutdown
<1>4. effects' \in {"free", "job", "ending"}
  BY DEF Shutdown, ChronicleInv, GameTypeOK
<1>5. GameTypeOK'
  BY <1>1, <1>4 DEF ChronicleInv, GameTypeOK, Idle
<1>6. JobInv'
  BY <1>1, CancelledClean DEF JobInv, Idle
<1> QED BY <1>2, <1>3, <1>5, <1>6 DEF ChronicleInv

-----------------------------------------------------------------------------
(* Committing and archiving *)

\* A job that writes or has just committed asks nothing.
LEMMA NothingAsked ==
    ASSUME ChronicleInv, job.step # "asking"
    PROVE  request.step = "none" /\ ~request.staged
BY DEF ChronicleInv, JobInv, MemoryInv, Metered

LEMMA Committed ==
    ASSUME ChronicleInv, job.step # "asking", Commit
    PROVE  /\ MemoryInv' /\ request'.step = "none" /\ ~request'.staged /\ ~prepared'.ready
           /\ told \in Nat /\ told' = told + 1
<1>1. request.step = "none" /\ ~request.staged
  BY NothingAsked
<1>2. MemoryInv'
  BY <1>1, CommitKeeps DEF ChronicleInv
<1> QED BY <1>1, <1>2 DEF Commit, NothingPrepared, ChronicleInv, MemoryInv, MemoryTypeOK

LEMMA CommitRoundKeeps ==
    ASSUME ChronicleInv, CommitRound
    PROVE  ChronicleInv'
<1>1. /\ job.kind = "round" /\ job.step = "committing" /\ Commit /\ planned' = FALSE
      /\ UNCHANGED <<scene, ended, failures, shutdowns>>
  BY DEF CommitRound
<1>2. /\ MemoryInv' /\ request'.step = "none" /\ ~request'.staged /\ ~prepared'.ready
      /\ told \in Nat /\ told' = told + 1
  BY <1>1, Committed
<1>3. CASE lost' = lost \cup {told} /\ job' = Idle /\ UNCHANGED <<transcriptVars, effects>>
  <2>1. TranscriptTypeOK' /\ GameTypeOK'
    BY <1>1, <1>2, <1>3 DEF ChronicleInv, TranscriptTypeOK, GameTypeOK, transcriptVars, Idle
  <2>2. JobInv'
    BY <1>2, <1>3 DEF JobInv, Idle
  <2> QED BY <1>2, <2>1, <2>2 DEF ChronicleInv
<1>4. CASE /\ AppendRound(told)
           /\ effects' = "job" /\ job' = [job EXCEPT !.step = "archiving"] /\ UNCHANGED lost
  <2>1. TranscriptTypeOK'
    BY <1>2, <1>4, BeginTyped, WritesTyped DEF ChronicleInv, AppendRound
  <2>2. GameTypeOK'
    BY <1>1, <1>4 DEF ChronicleInv, GameTypeOK
  <2>3. told' > 0
    BY <1>2
  <2>4. JobInv'
    BY <1>2, <2>3 DEF JobInv
  <2> QED BY <1>2, <2>1, <2>2, <2>4 DEF ChronicleInv
<1> QED BY <1>3, <1>4 DEF CommitRound

LEMMA RoundArchivedKeeps ==
    ASSUME ChronicleInv, NEW r, RoundArchived(r)
    PROVE  ChronicleInv'
<1>1. /\ job.kind = "round" /\ job.step = "archiving" /\ Take(r) /\ job' = Idle
      /\ effects' = "free" /\ lost' = (IF r = "error" THEN lost \cup {told - 1} ELSE lost)
      /\ UNCHANGED <<memoryVars, scene, planned, ended, failures, shutdowns>>
  BY DEF RoundArchived
<1>2. request.step = "none" /\ ~request.staged /\ ~prepared.ready /\ told - 1 \in Nat
  <2>1. told \in Nat /\ told > 0
    BY <1>1 DEF ChronicleInv, JobInv, MemoryInv, MemoryTypeOK
  <2>2. ~prepared.ready
    BY <1>1 DEF ChronicleInv, JobInv
  <2> QED BY <1>1, <2>1, <2>2, NothingAsked
<1>3. MemoryInv' /\ TranscriptTypeOK'
  BY <1>1, MemoryInvUnchanged, TakeTyped DEF ChronicleInv
<1>4. lost' \subseteq Nat
  BY <1>1, <1>2 DEF ChronicleInv, GameTypeOK
<1>5. GameTypeOK'
  BY <1>1, <1>4 DEF ChronicleInv, GameTypeOK, Idle
<1>6. JobInv'
  BY <1>1, <1>2 DEF JobInv, Idle, memoryVars
<1> QED BY <1>3, <1>5, <1>6 DEF ChronicleInv

LEMMA StartArchiveKeeps ==
    ASSUME ChronicleInv, StartArchive
    PROVE  ChronicleInv'
<1>1. /\ job.kind = "start" /\ job.step = "committing" /\ effects' = "job"
      /\ UNCHANGED <<memoryVars, scene, planned, ended, lost, failures, shutdowns>>
  BY DEF StartArchive
<1>2. PICK s \in {"discarding", "archiving"} : job' = [job EXCEPT !.step = s]
  BY DEF StartArchive
<1>3. TranscriptTypeOK'
  <2>1. \E w \in Write : Begin(w)
    BY WritesTyped DEF StartArchive, Discard, Create
  <2> QED BY <2>1, BeginTyped DEF ChronicleInv
<1>4. MemoryInv'
  BY <1>1, MemoryInvUnchanged DEF ChronicleInv
<1>5. GameTypeOK' /\ job'.step = s /\ job'.kind = "start"
  BY <1>1, <1>2 DEF ChronicleInv, GameTypeOK
<1>6. JobInv'
  <2>1. request.step = "none" /\ ~request.staged
    BY <1>1, NothingAsked
  <2> QED BY <1>1, <1>5, <2>1 DEF JobInv, memoryVars
<1> QED BY <1>3, <1>4, <1>5, <1>6 DEF ChronicleInv

LEMMA OpeningArchivedKeeps ==
    ASSUME ChronicleInv, OpeningArchived
    PROVE  ChronicleInv'
<1>1. /\ job.step = "archiving" /\ Take("ok") /\ Commit /\ job' = Idle /\ effects' = "free"
      /\ UNCHANGED <<scene, planned, ended, lost, failures, shutdowns>>
  BY DEF OpeningArchived
<1>2. /\ MemoryInv' /\ request'.step = "none" /\ ~request'.staged /\ ~prepared'.ready
  BY <1>1, Committed
<1>3. TranscriptTypeOK' /\ GameTypeOK'
  BY <1>1, TakeTyped DEF ChronicleInv, GameTypeOK, Idle
<1>4. JobInv'
  BY <1>1, <1>2 DEF JobInv, Idle
<1> QED BY <1>2, <1>3, <1>4 DEF ChronicleInv

\* The opening is not committed: what was prepared is dropped with the job.
LEMMA OpeningDroppedKeeps ==
    ASSUME ChronicleInv, NEW r, OpeningDiscarded(r) \/ OpeningFailed
    PROVE  ChronicleInv'
<1>1. /\ job.step # "asking" /\ (Take(r) \/ Take("error")) /\ Drop /\ job' = Idle
      /\ failures' = failures + 1 /\ effects' = "free"
      /\ UNCHANGED <<scene, planned, ended, shutdowns>>
  BY DEF OpeningDiscarded, OpeningFailed, FailJob
<1>2. lost' \subseteq Nat
  <2>1. lost \subseteq Nat /\ lost \cup {0} \subseteq Nat
    BY DEF ChronicleInv, GameTypeOK
  <2>2. lost' = lost \/ lost' = lost \cup {0}
    BY DEF OpeningDiscarded, OpeningFailed
  <2> QED BY <2>1, <2>2
<1>3. MemoryInv'
  BY <1>1, DropKeeps DEF ChronicleInv
<1>4. TranscriptTypeOK' /\ GameTypeOK'
  BY <1>1, <1>2, TakeTyped DEF ChronicleInv, GameTypeOK, Idle
<1>5. JobInv'
  <2>1. request.step = "none" /\ ~request.staged
    BY <1>1, NothingAsked
  <2> QED BY <1>1, <2>1 DEF JobInv, Idle, Drop, NothingPrepared
<1> QED BY <1>3, <1>4, <1>5 DEF ChronicleInv

LEMMA OpeningInterruptedKeeps ==
    ASSUME ChronicleInv, OpeningInterrupted
    PROVE  ChronicleInv'
<1>1. /\ job.kind = "start" /\ job.step = "archiving" /\ job' = [job EXCEPT !.step = "discarding"]
      /\ result' = "none" /\ lock' = [state |-> "held", for |-> Removing]
      /\ threads' = threads \cup {Removing}
      /\ UNCHANGED <<memoryVars, started, finalized, archive, effects, failures>>
      /\ UNCHANGED <<scene, planned, ended, lost, shutdowns>>
  BY DEF OpeningInterrupted, DiscardOpening
<1>2. TranscriptTypeOK'
  BY <1>1, WritesTyped DEF ChronicleInv, TranscriptTypeOK, Lock
<1>3. MemoryInv'
  BY <1>1, MemoryInvUnchanged DEF ChronicleInv
<1>4. GameTypeOK' /\ job'.step = "discarding"
  BY <1>1 DEF ChronicleInv, GameTypeOK
<1>5. JobInv'
  <2>1. request.step = "none" /\ ~request.staged
    BY <1>1, NothingAsked
  <2> QED BY <1>1, <1>4, <2>1 DEF JobInv, memoryVars
<1> QED BY <1>2, <1>3, <1>4, <1>5 DEF ChronicleInv

LEMMA OutsideKeeps ==
    ASSUME ChronicleInv, NEW r, Disk \/ Interrupt \/ ShutdownDone(r)
    PROVE  ChronicleInv'
<1>1. UNCHANGED <<memoryVars, scene, planned, ended, lost, failures, shutdowns>>
  BY DEF Disk, Interrupt, ShutdownDone, gameVars
<1>2. MemoryInv'
  BY <1>1, MemoryInvUnchanged DEF ChronicleInv
<1>3. TranscriptTypeOK'
  BY FinishTyped, CancelWriteTyped, TakeTyped DEF ChronicleInv, Disk, Interrupt, ShutdownDone
<1>4. effects' \in {"free", "job", "ending"}
  BY DEF ChronicleInv, GameTypeOK, Disk, Interrupt, ShutdownDone, gameVars
<1>5. job' = job \/ job' = [job EXCEPT !.late = TRUE]
  BY DEF Disk, Interrupt, ShutdownDone, gameVars
<1>6. GameTypeOK' /\ job'.step = job.step /\ job'.kind = job.kind
  BY <1>1, <1>4, <1>5 DEF ChronicleInv, GameTypeOK
<1>7. JobInv'
  BY <1>1, <1>6 DEF ChronicleInv, JobInv, Tells, memoryVars
<1> QED BY <1>2, <1>3, <1>6, <1>7 DEF ChronicleInv

-----------------------------------------------------------------------------
(* The theorems *)

LEMMA ChronicleInvInit == ChronicleInit => ChronicleInv
<1> SUFFICES ASSUME ChronicleInit PROVE ChronicleInv
  OBVIOUS
<1>1. MemoryInv
  BY MemoryInvInit DEF ChronicleInit
<1>2. TranscriptTypeOK
  <2>1. Free \in Lock
    BY WritesTyped DEF Free, Lock
  <2>2. archive \in Seq(Section) /\ threads \in SUBSET Write
    BY DEF ChronicleInit, TranscriptInit
  <2> QED BY <2>1, <2>2 DEF ChronicleInit, TranscriptInit, TranscriptTypeOK
<1>3. GameTypeOK /\ JobInv
  BY DEF ChronicleInit, MemoryInit, NoRequest, NothingPrepared, GameTypeOK, JobInv, Idle
<1> QED BY <1>1, <1>2, <1>3 DEF ChronicleInv

LEMMA ChronicleInvNext == ChronicleInv /\ [ChronicleNext]_chronicleVars => ChronicleInv'
<1> SUFFICES ASSUME ChronicleInv, [ChronicleNext]_chronicleVars PROVE ChronicleInv'
  OBVIOUS
<1>1. CASE UNCHANGED chronicleVars
  <2>1. MemoryInv'
    BY <1>1, MemoryInvUnchanged DEF ChronicleInv, chronicleVars
  <2> QED BY <1>1, <2>1 DEF ChronicleInv, chronicleVars, TranscriptTypeOK, GameTypeOK, JobInv,
                           Tells, transcriptVars, gameVars, memoryVars
<1>2. CASE ChronicleNext
  BY <1>2, LaunchesKeep, AskKeeps, WorkKeeps, OpenLobbyKeeps, PlanKeeps, StagedKeeps, GiveUpKeeps,
     ExpireKeeps, CommitRoundKeeps, RoundArchivedKeeps, StartArchiveKeeps, OpeningArchivedKeeps,
     OpeningDroppedKeeps, OpeningInterruptedKeeps, OutsideKeeps, ShutdownKeeps
     DEF ChronicleNext
<1> QED BY <1>1, <1>2

\* The memory, the archive and the jobs of a game stay within their types, whatever fails and
\* whenever the game is shut down.
THEOREM ChronicleTyped == ChronicleSpec => []ChronicleTypeOK
<1>1. ChronicleInv => ChronicleTypeOK
  BY DEF ChronicleInv, MemoryInv, ChronicleTypeOK
<1> QED BY <1>1, ChronicleInvInit, ChronicleInvNext, PTL DEF ChronicleSpec

\* LLMContextManager never loses, repeats or reorders an exchange: however many summaries are
\* written, refused or rolled back, and wherever a job is cancelled (compact, _stage,
\* commit_resolution).
THEOREM MemoryCompletes == ChronicleSpec => []MemoryIsComplete
<1>1. ChronicleInv => MemoryIsComplete
  BY DEF ChronicleInv, MemoryInv, Told, Ready, MemoryIsComplete
<1> QED BY <1>1, ChronicleInvInit, ChronicleInvNext, PTL DEF ChronicleSpec

\* The provider calls that one output and its audits cost are bounded by the configured retries:
\* repairs do not start the retry budget again (_request, classify_hidden_checks,
\* audit_chance_outcomes, execute).
THEOREM CallsBounded == ChronicleSpec => []CallsAreBounded
<1>1. ChronicleInv => CallsAreBounded
  <2> SUFFICES ASSUME ChronicleInv PROVE CallsAreBounded
    OBVIOUS
  <2>0. MemoryInv
    BY DEF ChronicleInv
  <2>1. request.step \in Compacting \cup {"none", "generating", "done", "failed"}
    BY <2>0, RequestTyped, RequestFields
  <2>2. request.calls \in Nat /\ (request.audits + 1) * (2 * MaxRetries + 1) \in Nat
    BY <2>0, MeterFields
  <2>3. CASE request.step \in Compacting \cup {"none"}
    BY <2>0, <2>2, <2>3 DEF MemoryInv, Metered, CallsAreBounded
  <2>4. CASE request.step = "generating"
    BY <2>0, <2>2, <2>4, LastCall DEF CallsAreBounded
  <2>5. CASE request.step \in {"done", "failed"}
    BY <2>0, <2>5 DEF MemoryInv, Metered, CallsAreBounded
  <2> QED BY <2>1, <2>3, <2>4, <2>5
<1> QED BY <1>1, ChronicleInvInit, ChronicleInvNext, PTL DEF ChronicleSpec

-----------------------------------------------------------------------------
(* The archive.  While a write is in progress effects_lock says which      *)
(* write it is, so that each thread finds the archive, path and _finalized *)
(* as the task that started it left them.                                  *)

\* What _io_lock is held for follows from what effects_lock is held for.
Assigned ==
    CASE effects = "ending" -> Finishing
      [] effects # "ending" /\ job.step = "discarding" -> Removing
      [] effects # "ending" /\ job.step # "discarding" /\ job.kind = "start" -> Creating
      [] OTHER -> Appending(told - 1)

\* One thread at a time, the one _io_lock is held for, until its result is there to be taken.
HeldInv ==
    /\ effects = "free" => result = "none"
    /\ lock.state = "free" <=> (effects = "free" \/ result # "none")
    /\ lock.state # "free" => lock.for = Assigned
    /\ threads = IF lock.state = "free" THEN {} ELSE {lock.for}

\* Only a job of a game that goes on, or its end, holds effects_lock.
TurnInv ==
    /\ effects = "job" <=> job.step \in {"archiving", "discarding"}
    /\ effects = "ending" => ended
    /\ ended => job = Idle
    /\ job.kind = "start" => told = 0
    /\ job.kind = "round" => told > 0
    /\ job.step = "archiving" => job.kind \in {"start", "round"}
    /\ job.step = "discarding" => job.kind = "start"

Writing(w) == lock.state # "free" /\ lock.for = w
Removed == result \in {"ok", "cancelled"}

\* path and _finalized say what the file is.
FileInv ==
    /\ started <=> archive # <<>>
    /\ told > 0 => started
    /\ finalized => ended
    /\ Writing(Creating) => ~started
    /\ Writing(Finishing) => started /\ ~finalized
    /\ job.kind = "start" /\ job.step = "archiving" => (started <=> Removed)
    /\ job.step = "discarding" => (started <=> ~Removed)

\* The opening first, the footer last, the rounds in between in the order they were told.
OrderInv ==
    /\ \A i \in 1..Len(archive) : archive[i].part = "opening" <=> i = 1
    /\ \A i \in 1..Len(archive) : archive[i].part = "footer" => i = Len(archive) /\ finalized
    /\ \A i, j \in Rounds : i < j => archive[i].round < archive[j].round
    /\ \A i \in Rounds : archive[i].round < told
    /\ Writing(Appending(told - 1)) => \A i \in Rounds : archive[i].round < told - 1

\* Nothing is missing that was not reported, and nothing is left over.
KeptInv ==
    /\ \A n \in 1..(told - 1) :
          n \in lost \/ InFlight(n) \/ \E i \in Rounds : archive[i].round = n
    /\ (told = 0 /\ archive # <<>>) => 0 \in lost \/ job.step \in {"archiving", "discarding"}

ArchiveInv == HeldInv /\ TurnInv /\ FileInv /\ OrderInv /\ KeptInv

ArchiveVars == <<transcriptVars, told, effects, ended, lost>>

-----------------------------------------------------------------------------
(* Steps that leave the archive alone *)

LEMMA ArchiveUnchanged ==
    ASSUME ArchiveInv, UNCHANGED <<ArchiveVars, job>>
    PROVE  ArchiveInv'
<1>1. UNCHANGED <<started, finalized, archive, lock, threads, result, told, effects, ended, lost,
                  job>>
  BY DEF ArchiveVars, transcriptVars
<1>2. HeldInv' /\ TurnInv' /\ FileInv'
  BY <1>1 DEF ArchiveInv, HeldInv, Assigned, TurnInv, FileInv, Writing, Removed
<1>3. OrderInv' /\ KeptInv'
  BY <1>1 DEF ArchiveInv, OrderInv, KeptInv, Rounds, InFlight, Writing
<1> QED BY <1>2, <1>3 DEF ArchiveInv

\* A job begins, goes on asking, or ends, and does not hold effects_lock.
LEMMA JobMoves ==
    ASSUME ChronicleInv, ArchiveInv, UNCHANGED ArchiveVars,
           job.step \notin {"archiving", "discarding"},
           job'.step \notin {"archiving", "discarding"},
           job' = Idle \/ (~ended /\ (job'.kind = job.kind \/ job'.kind = "scenario"
                                      \/ job'.kind = IF told = 0 THEN "start" ELSE "round"))
    PROVE  ArchiveInv'
<1>1. UNCHANGED <<started, finalized, archive, lock, threads, result, told, effects, ended, lost>>
  BY DEF ArchiveVars, transcriptVars
<1>2. told \in Nat
  BY DEF ChronicleInv, MemoryInv, MemoryTypeOK
<1>3. TurnInv'
  BY <1>1, <1>2 DEF ArchiveInv, TurnInv, Idle
<1>4. effects # "job"
  BY DEF ArchiveInv, TurnInv
<1>5. lock.state # "free" => lock.for = Finishing
  BY <1>4 DEF ArchiveInv, HeldInv, Assigned, ChronicleInv, GameTypeOK
<1>6. HeldInv'
  BY <1>1, <1>4, <1>5 DEF ArchiveInv, HeldInv, Assigned, ChronicleInv, GameTypeOK
<1>7. FileInv'
  BY <1>1 DEF ArchiveInv, FileInv, Writing, Removed
<1>8. OrderInv'
  BY <1>1 DEF ArchiveInv, OrderInv, Rounds, Writing
<1>9. KeptInv'
  BY <1>1 DEF ArchiveInv, KeptInv, Rounds, InFlight
<1> QED BY <1>3, <1>6, <1>7, <1>8, <1>9 DEF ArchiveInv

LEMMA AskingKeepsArchive ==
    ASSUME ChronicleInv, ArchiveInv,
           \/ LaunchScenario \/ Launch \/ OpenLobby \/ Plan \/ Staged \/ GiveUp \/ Expire
    PROVE  ArchiveInv'
<1>1. UNCHANGED ArchiveVars
  BY DEF LaunchScenario, Launch, OpenLobby, Plan, Staged, GiveUp, Expire, ArchiveVars, EndRequest,
         CancelRequest, SetGenesis, memoryVars
<1>2. job \in [kind : {"none", "scenario", "start", "round"},
               step : {"idle", "asking", "committing", "archiving", "discarding"},
               asked : Nat, late : BOOLEAN]
  BY DEF ChronicleInv, GameTypeOK
<1>3. CASE LaunchScenario \/ Launch
  <2>1. /\ ~ended /\ job = Idle
        /\ Launched("scenario") \/ Launched(IF told = 0 THEN "start" ELSE "round")
    BY <1>3 DEF LaunchScenario, Launch
  <2>2. job.step = "idle"
    BY <2>1 DEF Idle
  <2>3. job'.step = "asking"
    BY <2>1 DEF Launched, Idle
  <2>4. job'.kind = "scenario" \/ job'.kind = IF told = 0 THEN "start" ELSE "round"
    BY <2>1 DEF Launched, Idle
  <2> QED BY <1>1, <2>1, <2>2, <2>3, <2>4, JobMoves
<1>4. CASE OpenLobby \/ Plan \/ Staged \/ GiveUp
  <2>1. job.step = "asking" /\ job # Idle /\ ~ended
    BY <1>4 DEF OpenLobby, Plan, Staged, GiveUp, EndRequest, ChronicleInv, JobInv, ArchiveInv,
                TurnInv, Idle
  <2>2. \/ job' = Idle
        \/ job' = [job EXCEPT !.asked = job.asked + 1]
        \/ job' = [job EXCEPT !.step = "committing"]
    BY <1>4 DEF OpenLobby, Plan, Staged, GiveUp, FailJob
  <2>3. job' = Idle \/ (job'.kind = job.kind /\ job'.step \in {"asking", "committing"})
    BY <1>2, <2>1, <2>2
  <2>4. job'.step \notin {"archiving", "discarding"}
    BY <2>3 DEF Idle
  <2> QED BY <1>1, <2>1, <2>3, <2>4, JobMoves
<1>5. CASE Expire
  <2>1. job.step \in {"asking", "committing"} /\ job' = Idle
    BY <1>5 DEF Expire, FailJob
  <2>2. job'.step = "idle"
    BY <2>1 DEF Idle
  <2> QED BY <1>1, <2>1, <2>2, JobMoves
<1> QED BY <1>3, <1>4, <1>5

LEMMA RequestKeepsArchive ==
    ASSUME ChronicleInv, ArchiveInv, Work \/ \E prompt \in PromptSizes : Ask(prompt)
    PROVE  ArchiveInv'
<1>1. UNCHANGED <<transcriptVars, gameVars>>
  BY DEF Work, Ask
<1>2. told' = told
  BY RequestStepStays DEF Work, Ask, BeginRequest, Stays, ChronicleInv
<1> QED BY <1>1, <1>2, ArchiveUnchanged DEF gameVars, ArchiveVars

-----------------------------------------------------------------------------
(* A thread ends *)

LEMMA Sections ==
    /\ Creating.op = "create" /\ Removing.op = "unlink" /\ Finishing.op = "finish"
    /\ Finishing.section = Footer
    /\ \A n : Appending(n).op = "append" /\ Appending(n).section = Article(n)
    /\ Opening.part = "opening" /\ Footer.part = "footer" /\ Torn.part = "torn"
    /\ \A n : Article(n).part = "round" /\ Article(n).round = n
BY DEF Creating, Removing, Finishing, Appending, Opening, Footer, Torn, Article

LEMMA ArchiveTyped ==
    ASSUME ChronicleInv
    PROVE  /\ archive \in Seq(Section) /\ Len(archive) \in Nat /\ told \in Nat
           /\ started \in BOOLEAN /\ finalized \in BOOLEAN /\ ended \in BOOLEAN
           /\ archive = <<>> <=> Len(archive) = 0
           /\ \A i \in 1..Len(archive) : archive[i].round \in Nat
<1>1. archive \in Seq(Section) /\ told \in Nat /\ started \in BOOLEAN /\ finalized \in BOOLEAN
      /\ ended \in BOOLEAN
  BY DEF ChronicleInv, TranscriptTypeOK, GameTypeOK, MemoryInv, MemoryTypeOK
<1>2. \A i \in 1..Len(archive) : archive[i] \in Section
  BY <1>1
<1>3. \A s \in Section : s.round \in Nat
  BY DEF Section
<1> QED BY <1>1, <1>2, <1>3

\* The thread that ends is the one the lock is held for, and its task has its result.
LEMMA ThreadEnds ==
    ASSUME ChronicleInv, ArchiveInv, Disk
    PROVE  \E ok \in BOOLEAN :
              /\ Finish(lock.for, ok) /\ lock.for = Assigned
              /\ lock.state # "free" /\ effects # "free" /\ result = "none"
              /\ lock'.state = "free" /\ threads' = {}
              /\ result' # "none" /\ (Removed' <=> ok)
              /\ UNCHANGED <<told, job, effects, ended, lost>>
<1>1. PICK w \in threads, ok \in BOOLEAN : Finish(w, ok)
  BY DEF Disk
<1>2. w = lock.for /\ lock.state # "free"
  BY <1>1 DEF ArchiveInv, HeldInv
<1>3. lock.for = Assigned /\ result = "none" /\ effects # "free" /\ threads = {w}
  BY <1>2 DEF ArchiveInv, HeldInv
<1>4. lock'.state = "free" /\ threads' = {}
  BY <1>1, <1>2, <1>3 DEF Finish, Free
<1>5. result' # "none" /\ (Removed' <=> ok)
  BY <1>1, <1>2 DEF Finish, Removed
<1>6. UNCHANGED <<told, job, effects, ended, lost>>
  BY DEF Disk, memoryVars, gameVars
<1> QED BY <1>1, <1>2, <1>3, <1>4, <1>5, <1>6

\* A section after the last one, in an archive that has no footer yet.
LEMMA TailGrows ==
    ASSUME ChronicleInv, ArchiveInv, ~finalized, archive # <<>>,
           NEW s \in Section, archive' = Append(archive, s), told' = told,
           s.part # "opening", s.part = "footer" => finalized',
           s.part = "round" => s.round < told /\ \A i \in Rounds : archive[i].round < s.round,
           ~Writing(Appending(told - 1))'
    PROVE  /\ OrderInv' /\ archive' # <<>>
           /\ \A i \in Rounds : i \in Rounds' /\ archive'[i] = archive[i]
           /\ s.part = "round" => \E i \in Rounds' : archive'[i].round = s.round
<1>1. /\ archive \in Seq(Section) /\ Len(archive) \in Nat /\ Len(archive) # 0 /\ told \in Nat
      /\ \A i \in 1..Len(archive) : archive[i].round \in Nat
  BY ArchiveTyped
<1>2. PICK n \in Nat : n = Len(archive) /\ n # 0
  BY <1>1
<1>3. /\ Len(archive') = n + 1 /\ archive'[n + 1] = s /\ archive' # <<>>
      /\ \A i \in 1..n : archive'[i] = archive[i]
  BY <1>1, <1>2
<1>4. \A i \in 1..n : archive[i].part # "footer"
  BY <1>2 DEF ArchiveInv, OrderInv
<1>5. \A i \in 1..n : archive[i].part = "opening" <=> i = 1
  BY <1>2 DEF ArchiveInv, OrderInv
<1>6. Rounds = {i \in 1..n : archive[i].part = "round"}
  BY <1>2 DEF Rounds
<1>7. /\ Rounds' = {i \in 1..(n + 1) : archive'[i].part = "round"}
      /\ Rounds' = Rounds \cup (IF s.part = "round" THEN {n + 1} ELSE {})
  BY <1>3, <1>6 DEF Rounds
<1>8. \A i \in 1..Len(archive') : archive'[i].part = "opening" <=> i = 1
  BY <1>2, <1>3, <1>5
<1>9. \A i \in 1..Len(archive') : archive'[i].part = "footer" => i = Len(archive') /\ finalized'
  BY <1>2, <1>3, <1>4
<1>10. \A i, j \in Rounds' : i < j => archive'[i].round < archive'[j].round
  <2> SUFFICES ASSUME NEW i \in Rounds', NEW j \in Rounds', i < j
               PROVE  archive'[i].round < archive'[j].round
    OBVIOUS
  <2>1. i \in 1..n /\ i \in Rounds
    BY <1>2, <1>6, <1>7
  <2>2. CASE j \in Rounds
    BY <1>3, <1>6, <2>1, <2>2 DEF ArchiveInv, OrderInv
  <2>3. CASE j \notin Rounds
    BY <1>3, <1>7, <2>1, <2>3
  <2> QED BY <2>2, <2>3
<1>11. \A i \in Rounds' : archive'[i].round < told'
  <2>1. \A i \in Rounds : archive[i].round < told
    BY DEF ArchiveInv, OrderInv
  <2> QED BY <1>3, <1>6, <1>7, <2>1
<1>12. OrderInv'
  BY <1>8, <1>9, <1>10, <1>11 DEF OrderInv
<1> QED BY <1>3, <1>6, <1>7, <1>12

LEMMA WhoWrites ==
    ASSUME ChronicleInv, ArchiveInv, lock.state # "free"
    PROVE  \/ /\ lock.for = Creating /\ job.kind = "start" /\ job.step = "archiving"
              /\ told = 0 /\ ~started
           \/ /\ lock.for = Removing /\ job.step = "discarding" /\ job.kind = "start"
              /\ told = 0 /\ started
           \/ /\ lock.for = Appending(told - 1) /\ job.kind = "round" /\ job.step = "archiving"
              /\ told > 0 /\ told - 1 \in Nat /\ started /\ ~finalized /\ ~ended
           \/ /\ lock.for = Finishing /\ job = Idle /\ ended /\ started /\ ~finalized
<1>1. lock.for = Assigned /\ effects # "free" /\ result = "none"
  BY DEF ArchiveInv, HeldInv
<1>2. told \in Nat /\ effects \in {"job", "ending"}
  BY <1>1 DEF ChronicleInv, MemoryInv, MemoryTypeOK, GameTypeOK
<1>3. CASE effects = "ending"
  <2>1. lock.for = Finishing /\ ended /\ job = Idle
    BY <1>1, <1>3 DEF Assigned, ArchiveInv, TurnInv
  <2> QED BY <2>1 DEF ArchiveInv, FileInv, Writing
<1>4. CASE effects = "job"
  <2>1. job.step \in {"archiving", "discarding"} /\ job # Idle /\ ~ended /\ ~finalized
    BY <1>4 DEF ArchiveInv, TurnInv, FileInv, Idle
  <2>2. CASE job.step = "discarding"
    <3>1. lock.for = Removing /\ job.kind = "start" /\ told = 0
      BY <1>1, <1>4, <2>2 DEF Assigned, ArchiveInv, TurnInv
    <3>2. started
      BY <1>1, <2>2, ArchiveTyped DEF ArchiveInv, FileInv, Removed
    <3> QED BY <2>2, <3>1, <3>2
  <2>3. CASE job.step = "archiving" /\ job.kind = "start"
    <3>1. lock.for = Creating /\ told = 0
      BY <1>1, <1>4, <2>3 DEF Assigned, ArchiveInv, TurnInv
    <3>2. ~started
      BY <3>1 DEF ArchiveInv, FileInv, Writing
    <3> QED BY <2>3, <3>1, <3>2
  <2>4. CASE job.step = "archiving" /\ job.kind = "round"
    <3>1. lock.for = Appending(told - 1) /\ told > 0
      BY <1>1, <1>4, <2>4 DEF Assigned, ArchiveInv, TurnInv
    <3>2. started
      BY <3>1 DEF ArchiveInv, FileInv
    <3> QED BY <1>2, <2>1, <2>4, <3>1, <3>2
  <2> QED BY <2>1, <2>2, <2>3, <2>4 DEF ArchiveInv, TurnInv
<1> QED BY <1>2, <1>3, <1>4

\* What the end of a thread says of the locks, whichever write it was.
LEMMA ThreadEndsHeld ==
    ASSUME ChronicleInv, ArchiveInv, NEW ok \in BOOLEAN,
           lock'.state = "free", threads' = {}, result' # "none", effects # "free",
           UNCHANGED <<told, job, effects, ended, lost>>
    PROVE  HeldInv' /\ TurnInv' /\ \A w : ~Writing(w)'
<1>1. HeldInv'
  BY DEF HeldInv
<1>2. TurnInv'
  BY DEF ArchiveInv, TurnInv
<1> QED BY <1>1, <1>2 DEF Writing

\* An archive that stays as it is keeps its order.
LEMMA SameOrder ==
    ASSUME ArchiveInv, archive' = archive, told' = told, finalized => finalized',
           ~Writing(Appending(told - 1))'
    PROVE  OrderInv' /\ Rounds' = Rounds
<1>1. Rounds' = Rounds
  BY DEF Rounds
<1> QED BY <1>1 DEF ArchiveInv, OrderInv

LEMMA OpeningWritten ==
    ASSUME ChronicleInv, ArchiveInv, archive' \in {<<>>, <<Opening>>}, told' = told, told = 0
    PROVE  /\ \A i \in 1..Len(archive') : archive'[i].part = "opening" <=> i = 1
           /\ \A i \in 1..Len(archive') : archive'[i].part # "footer"
           /\ Rounds' = {}
<1>1. CASE archive' = <<>>
  <2>1. Len(archive') = 0
    BY <1>1
  <2>2. 1..Len(archive') = {}
    BY <2>1
  <2> QED BY <2>2 DEF Rounds
<1>2. CASE archive' = <<Opening>>
  <2>1. Len(archive') = 1 /\ archive'[1].part = "opening"
    BY <1>2, Sections
  <2>2. 1..Len(archive') = {1}
    BY <2>1
  <2> QED BY <2>1, <2>2 DEF Rounds
<1> QED BY <1>1, <1>2

LEMMA CreationEnds ==
    ASSUME ChronicleInv, ArchiveInv, NEW ok \in BOOLEAN,
           Finish(lock.for, ok), lock.for = Creating, job.kind = "start",
           job.step = "archiving", told = 0, ~started,
           Removed' <=> ok, \A w : ~Writing(w)', UNCHANGED <<told, job, effects, ended, lost>>
    PROVE  FileInv' /\ OrderInv' /\ KeptInv'
<1>1. archive = <<>>
  BY DEF ArchiveInv, FileInv
<1>2. (ok => archive' = <<Opening>> /\ started') /\ (~ok => archive' = archive /\ started' = started)
  BY Sections DEF Finish, OnDisk, AfterError
<1>3. finalized' = finalized
  <2>1. finalized' = (finalized \/ (ok /\ lock.for.op = "finish")) /\ lock.for.op # "finish"
    BY Sections DEF Finish
  <2> QED BY <2>1, ArchiveTyped
<1>4. archive' \in {<<>>, <<Opening>>} /\ (started' <=> ok) /\ (archive' # <<>> <=> ok)
  <2>1. CASE ok
    BY <1>2, <2>1
  <2>2. CASE ~ok
    BY <1>1, <1>2, <2>2
  <2> QED BY <2>1, <2>2
<1>5. FileInv'
  BY <1>3, <1>4 DEF FileInv, ArchiveInv
<1>6. OrderInv'
  BY <1>4, OpeningWritten DEF OrderInv
<1>7. KeptInv'
  BY DEF KeptInv
<1> QED BY <1>5, <1>6, <1>7

LEMMA RemovalEnds ==
    ASSUME ChronicleInv, ArchiveInv, NEW ok \in BOOLEAN,
           Finish(lock.for, ok), lock.for = Removing, job.step = "discarding",
           job.kind = "start", told = 0, started,
           Removed' <=> ok, \A w : ~Writing(w)', UNCHANGED <<told, job, effects, ended, lost>>
    PROVE  FileInv' /\ OrderInv' /\ KeptInv'
<1>1. finalized' = finalized
  <2>1. finalized' = (finalized \/ (ok /\ lock.for.op = "finish")) /\ lock.for.op # "finish"
    BY Sections DEF Finish
  <2> QED BY <2>1, ArchiveTyped
<1>2. (ok => archive' = <<>> /\ ~started') /\ (~ok => archive' = archive /\ started')
  BY Sections DEF Finish, OnDisk, AfterError
<1>3. (started' <=> archive' # <<>>) /\ (started' <=> ~ok)
  BY <1>2 DEF ArchiveInv, FileInv
<1>4. FileInv'
  BY <1>1, <1>3 DEF FileInv, ArchiveInv
<1>5. OrderInv'
  <2>1. CASE ok
    BY <1>2, <2>1, OpeningWritten DEF OrderInv
  <2>2. CASE ~ok
    BY <1>1, <1>2, <2>2, SameOrder
  <2> QED BY <2>1, <2>2
<1>6. KeptInv'
  BY DEF KeptInv
<1> QED BY <1>4, <1>5, <1>6

LEMMA AppendEnds ==
    ASSUME ChronicleInv, ArchiveInv, NEW ok \in BOOLEAN,
           Finish(lock.for, ok), lock.for = Appending(told - 1), lock.state # "free",
           job.kind = "round", job.step = "archiving", told > 0, told - 1 \in Nat,
           started, ~finalized, ~ended, threads' = {},
           result' # "none", Removed' <=> ok, \A w : ~Writing(w)',
           UNCHANGED <<told, job, effects, ended, lost>>
    PROVE  FileInv' /\ OrderInv' /\ KeptInv'
<1>1. finalized' = finalized
  <2>1. finalized' = (finalized \/ (ok /\ lock.for.op = "finish")) /\ lock.for.op # "finish"
    BY Sections DEF Finish
  <2> QED BY <2>1, ArchiveTyped
<1>2. started'
  BY Sections DEF Finish
<1>3. /\ ok => archive' = Append(archive, Article(told - 1))
      /\ ~ok => archive' = archive \/ archive' = Append(archive, Torn)
  BY Sections DEF Finish, OnDisk, AfterError
<1>4. archive # <<>> /\ Article(told - 1) \in Section /\ Torn \in Section
  BY WritesTyped DEF ArchiveInv, FileInv, Article, Section
<1>5. \A i \in Rounds : archive[i].round < told - 1
  BY DEF ArchiveInv, OrderInv, Writing
<1>6. told - 1 < told
  BY ArchiveTyped
<1>7. /\ OrderInv' /\ archive' # <<>>
      /\ \A i \in Rounds : i \in Rounds' /\ archive'[i] = archive[i]
      /\ ok => \E i \in Rounds' : archive'[i].round = told - 1
  <2>1. CASE ok
    BY <1>3, <1>4, <1>5, <1>6, <2>1, Sections, TailGrows
  <2>2. CASE ~ok /\ archive' = archive
    BY <1>1, <1>4, <2>2, SameOrder
  <2>3. CASE ~ok /\ archive' = Append(archive, Torn)
    BY <1>4, <2>3, Sections, TailGrows
  <2> QED BY <1>3, <2>1, <2>2, <2>3
<1>8. FileInv'
  BY <1>1, <1>2, <1>7 DEF FileInv, ArchiveInv
<1>9. KeptInv'
  <2>1. ASSUME NEW n \in 1..(told - 1)
        PROVE  n \in lost \/ InFlight(n)' \/ \E i \in Rounds' : archive'[i].round = n
    <3>1. CASE n = told - 1
      <4>1. ~ok => result' = "error"
        BY DEF Finish
      <4> QED BY <1>7, <3>1, <4>1 DEF InFlight
    <3>2. CASE n # told - 1
      <4>1. threads = {Appending(told - 1)} /\ result = "none"
        BY DEF ArchiveInv, HeldInv
      <4>2. Appending(n) # Appending(told - 1)
        BY <3>2 DEF Appending, Article
      <4>3. ~InFlight(n)
        BY <3>2, <4>1, <4>2 DEF InFlight
      <4>4. n \in lost \/ \E i \in Rounds : archive[i].round = n
        BY <4>3 DEF ArchiveInv, KeptInv
      <4> QED BY <1>7, <4>4
    <3> QED BY <3>1, <3>2
  <2> QED BY <2>1 DEF KeptInv
<1> QED BY <1>7, <1>8, <1>9

LEMMA ClosingEnds ==
    ASSUME ChronicleInv, ArchiveInv, NEW ok \in BOOLEAN,
           Finish(lock.for, ok), lock.for = Finishing, lock.state # "free",
           job = Idle, ended, started, ~finalized,
           \A w : ~Writing(w)', UNCHANGED <<told, job, effects, ended, lost>>
    PROVE  FileInv' /\ OrderInv' /\ KeptInv'
<1>1. started' /\ (ok => finalized')
  BY Sections DEF Finish
<1>2. /\ ok => archive' = Append(archive, Footer)
      /\ ~ok => archive' = archive \/ archive' = Append(archive, Torn)
  BY Sections DEF Finish, OnDisk, AfterError
<1>3. archive # <<>> /\ Footer \in Section /\ Torn \in Section
  BY WritesTyped DEF ArchiveInv, FileInv, Footer, Section
<1>4. /\ OrderInv' /\ archive' # <<>>
      /\ \A i \in Rounds : i \in Rounds' /\ archive'[i] = archive[i]
  <2>1. CASE ok
    BY <1>1, <1>2, <1>3, <2>1, Sections, TailGrows
  <2>2. CASE ~ok /\ archive' = archive
    BY <1>3, <2>2, SameOrder
  <2>3. CASE ~ok /\ archive' = Append(archive, Torn)
    BY <1>3, <2>3, Sections, TailGrows
  <2> QED BY <1>2, <2>1, <2>2, <2>3
<1>5. job.step = "idle" /\ job.kind = "none"
  BY DEF Idle
<1>6. FileInv'
  BY <1>1, <1>4, <1>5 DEF FileInv
<1>7. KeptInv'
  <2>1. threads = {Finishing} /\ \A n : Appending(n) # Finishing
    BY Sections DEF ArchiveInv, HeldInv
  <2>2. \A n : ~InFlight(n)
    BY <1>5, <2>1 DEF InFlight
  <2>3. \A n \in 1..(told - 1) : n \in lost \/ \E i \in Rounds' : archive'[i].round = n
    BY <1>4, <2>2 DEF ArchiveInv, KeptInv
  <2>4. told = 0 => 0 \in lost
    BY <1>3, <1>5 DEF ArchiveInv, KeptInv
  <2> QED BY <2>3, <2>4 DEF KeptInv
<1> QED BY <1>4, <1>6, <1>7

LEMMA DiskKeepsArchive ==
    ASSUME ChronicleInv, ArchiveInv, Disk
    PROVE  ArchiveInv'
<1>1. PICK ok \in BOOLEAN :
         /\ Finish(lock.for, ok) /\ lock.for = Assigned
         /\ lock.state # "free" /\ effects # "free" /\ result = "none"
         /\ lock'.state = "free" /\ threads' = {}
         /\ result' # "none" /\ (Removed' <=> ok)
         /\ UNCHANGED <<told, job, effects, ended, lost>>
  BY ThreadEnds
<1>2. HeldInv' /\ TurnInv' /\ \A w : ~Writing(w)'
  BY <1>1, ThreadEndsHeld
<1>3. FileInv' /\ OrderInv' /\ KeptInv'
  BY <1>1, <1>2, WhoWrites, CreationEnds, RemovalEnds, AppendEnds, ClosingEnds
<1> QED BY <1>2, <1>3 DEF ArchiveInv

-----------------------------------------------------------------------------
(* A write begins, or its task goes on *)

\* A thread begins: nothing is written yet.
LEMMA Begins ==
    ASSUME ChronicleInv, ArchiveInv, effects = "free", NEW w, Begin(w)
    PROVE  /\ lock.state = "free" /\ result = "none" /\ threads = {}
           /\ lock'.state = "held" /\ lock'.for = w /\ threads' = {w} /\ result' = "none"
           /\ UNCHANGED <<started, finalized, archive>>
BY DEF ArchiveInv, HeldInv, Begin

LEMMA InterruptKeepsArchive ==
    ASSUME ChronicleInv, ArchiveInv, Interrupt
    PROVE  ArchiveInv'
<1>1. /\ lock.state = "held" /\ lock' = [lock EXCEPT !.state = "cancelled"]
      /\ UNCHANGED <<started, finalized, archive, threads, result>>
      /\ UNCHANGED <<told, effects, ended, lost>>
  BY DEF Interrupt, CancelWrite, WaitOut, memoryVars
<1>2. lock'.state # "free" /\ lock'.for = lock.for
  BY <1>1 DEF ChronicleInv, TranscriptTypeOK, Lock
<1>3. job' = job \/ (effects = "job" /\ job' = [job EXCEPT !.late = TRUE])
  BY DEF Interrupt
<1>4. job'.step = job.step /\ job'.kind = job.kind
  BY <1>3 DEF ChronicleInv, GameTypeOK
<1>5. ended' => job' = Idle
  <2>1. effects = "job" => job # Idle
    BY DEF ArchiveInv, TurnInv, Idle
  <2> QED BY <1>1, <1>3, <2>1 DEF ArchiveInv, TurnInv
<1>6. HeldInv' /\ TurnInv'
  BY <1>1, <1>2, <1>4, <1>5 DEF ArchiveInv, HeldInv, TurnInv, Assigned
<1>7. \A w : Writing(w)' <=> Writing(w)
  BY <1>1, <1>2 DEF Writing
<1>8. FileInv'
  BY <1>1, <1>4, <1>7 DEF ArchiveInv, FileInv, Removed
<1>9. OrderInv'
  BY <1>1, <1>7 DEF ArchiveInv, OrderInv, Rounds
<1>10. KeptInv'
  BY <1>1, <1>4 DEF ArchiveInv, KeptInv, Rounds, InFlight
<1> QED BY <1>6, <1>8, <1>9, <1>10 DEF ArchiveInv

\* The round takes the next place in the archive, which is open.
LEMMA CommitRoundKeepsArchive ==
    ASSUME ChronicleInv, ArchiveInv, CommitRound
    PROVE  ArchiveInv'
<1>1. /\ job.kind = "round" /\ job.step = "committing" /\ effects = "free"
      /\ Commit /\ ended' = ended
  BY DEF CommitRound
<1>2. told \in Nat /\ told > 0 /\ told' = told + 1 /\ job # Idle /\ ~ended
  <2>1. told \in Nat /\ told > 0
    BY <1>1, ArchiveTyped DEF ArchiveInv, TurnInv
  <2> QED BY <1>1, <2>1 DEF Commit, ArchiveInv, TurnInv, Idle
<1>3. started /\ ~finalized
  BY <1>2 DEF ArchiveInv, FileInv
<1>4. AppendRound(told) /\ effects' = "job" /\ job' = [job EXCEPT !.step = "archiving"]
      /\ lost' = lost
  BY <1>3 DEF CommitRound, CannotAppend
<1>5. /\ lock.state = "free" /\ result = "none" /\ threads = {}
      /\ lock'.state = "held" /\ lock'.for = Appending(told) /\ threads' = {Appending(told)}
      /\ result' = "none" /\ UNCHANGED <<started, finalized, archive>>
  BY <1>1, <1>4, Begins DEF AppendRound
<1>6. job'.step = "archiving" /\ job'.kind = "round"
  BY <1>1, <1>4 DEF ChronicleInv, GameTypeOK
<1>7. told' - 1 = told /\ told' > 0 /\ told' # 0
  BY <1>2
<1>8. lock'.for = Assigned'
  BY <1>4, <1>5, <1>6, <1>7 DEF Assigned
<1>9. HeldInv'
  BY <1>4, <1>5, <1>8 DEF HeldInv
<1>10. TurnInv'
  BY <1>1, <1>2, <1>4, <1>6, <1>7 DEF TurnInv
<1>11. ~Writing(Creating)' /\ ~Writing(Finishing)'
  BY <1>5, Sections DEF Writing
<1>12. FileInv'
  BY <1>1, <1>3, <1>5, <1>6, <1>11 DEF FileInv, ArchiveInv
<1>13. Rounds' = Rounds /\ \A i \in Rounds : archive[i].round \in Nat /\ archive[i].round < told
  BY <1>5, ArchiveTyped DEF Rounds, ArchiveInv, OrderInv
<1>14. OrderInv'
  <2>1. \A i \in Rounds' : archive'[i].round < told' /\ archive'[i].round < told' - 1
    BY <1>2, <1>5, <1>7, <1>13
  <2> QED BY <1>5, <1>13, <2>1 DEF OrderInv, ArchiveInv
<1>15. KeptInv'
  <2>1. ASSUME NEW n \in 1..(told' - 1)
        PROVE  n \in lost \/ InFlight(n)' \/ \E i \in Rounds' : archive'[i].round = n
    <3>1. CASE n = told
      BY <1>5, <3>1 DEF InFlight
    <3>2. CASE n # told
      <4>1. n \in 1..(told - 1) /\ ~InFlight(n)
        BY <1>1, <1>2, <1>5, <1>7, <3>2 DEF InFlight
      <4> QED BY <1>5, <1>13, <4>1 DEF KeptInv, ArchiveInv
    <3> QED BY <3>1, <3>2
  <2> QED BY <1>4, <1>7, <2>1 DEF KeptInv
<1> QED BY <1>9, <1>10, <1>12, <1>14, <1>15 DEF ArchiveInv

\* The locks are given back with the result.
LEMMA LockReleased ==
    ASSUME ChronicleInv, ArchiveInv, NEW r, Take(r), r # "none", effects' = "free"
    PROVE  /\ HeldInv' /\ lock.state = "free" /\ threads = {}
           /\ UNCHANGED <<started, finalized, archive, lock, threads>>
           /\ \A w : ~Writing(w)'
<1>1. result = r /\ result' = "none" /\ UNCHANGED <<started, finalized, archive, lock, threads>>
  BY DEF Take
<1>2. lock.state = "free" /\ threads = {}
  BY <1>1 DEF ArchiveInv, HeldInv
<1> QED BY <1>1, <1>2 DEF HeldInv, Writing

LEMMA RoundArchivedKeepsArchive ==
    ASSUME ChronicleInv, ArchiveInv, NEW r \in {"ok", "error", "cancelled"}, RoundArchived(r)
    PROVE  ArchiveInv'
<1>1. /\ job.kind = "round" /\ job.step = "archiving" /\ Take(r) /\ job' = Idle
      /\ effects' = "free" /\ lost' = (IF r = "error" THEN lost \cup {told - 1} ELSE lost)
      /\ UNCHANGED <<told, ended>>
  BY DEF RoundArchived, memoryVars
<1>2. /\ HeldInv' /\ threads = {} /\ UNCHANGED <<started, finalized, archive, lock, threads>>
      /\ \A w : ~Writing(w)'
  BY <1>1, LockReleased
<1>3. told \in Nat /\ told > 0
  BY <1>1, ArchiveTyped DEF ArchiveInv, TurnInv
<1>4. TurnInv'
  BY <1>1 DEF ArchiveInv, TurnInv, Idle
<1>5. FileInv'
  BY <1>1, <1>2 DEF ArchiveInv, FileInv, Idle
<1>6. OrderInv' /\ Rounds' = Rounds
  BY <1>1, <1>2, SameOrder
<1>7. KeptInv'
  <2>1. ASSUME NEW n \in 1..(told - 1)
        PROVE  n \in lost' \/ \E i \in Rounds : archive[i].round = n
    <3>1. InFlight(n) => r = "error" /\ n = told - 1
      BY <1>1, <1>2 DEF InFlight, Take
    <3> QED BY <1>1, <3>1 DEF ArchiveInv, KeptInv
  <2> QED BY <1>1, <1>2, <1>3, <1>6, <2>1 DEF KeptInv
<1> QED BY <1>2, <1>4, <1>5, <1>6, <1>7 DEF ArchiveInv

LEMMA StartArchiveKeepsArchive ==
    ASSUME ChronicleInv, ArchiveInv, StartArchive
    PROVE  ArchiveInv'
<1>1. /\ job.kind = "start" /\ job.step = "committing" /\ effects = "free" /\ effects' = "job"
      /\ UNCHANGED <<told, ended, lost>>
  BY DEF StartArchive, memoryVars
<1>2. told = 0 /\ ~ended /\ ~finalized
  <2>1. told = 0 /\ job # Idle
    BY <1>1 DEF ArchiveInv, TurnInv, Idle
  <2> QED BY <2>1 DEF ArchiveInv, TurnInv, FileInv
<1>3. PICK w \in {Creating, Removing} :
         /\ Begin(w)
         /\ \/ w = Creating /\ ~started /\ job' = [job EXCEPT !.step = "archiving"]
            \/ w = Removing /\ started /\ job' = [job EXCEPT !.step = "discarding"]
  <2>1. CASE started
    BY <2>1 DEF StartArchive, CannotCreate, Discard
  <2>2. CASE ~started
    BY <1>2, <2>2 DEF StartArchive, CannotCreate, Create
  <2> QED BY <2>1, <2>2
<1>4. /\ lock.state = "free" /\ result = "none" /\ threads = {}
      /\ lock'.state = "held" /\ lock'.for = w /\ threads' = {w} /\ result' = "none"
      /\ UNCHANGED <<started, finalized, archive>>
  BY <1>1, <1>3, Begins
<1>5. /\ job'.kind = "start"
      /\ w = Creating => ~started /\ job'.step = "archiving"
      /\ w = Removing => started /\ job'.step = "discarding"
  <2>1. Creating # Removing
    BY Sections
  <2> QED BY <1>1, <1>3, <2>1 DEF ChronicleInv, GameTypeOK
<1>6. w = Assigned'
  BY <1>1, <1>3, <1>5 DEF Assigned
<1>7. HeldInv'
  BY <1>1, <1>4, <1>6 DEF HeldInv
<1>8. TurnInv'
  BY <1>1, <1>2, <1>3, <1>5 DEF TurnInv
<1>9. FileInv'
  <2>1. Writing(Creating)' => ~started
    BY <1>4, <1>5 DEF Writing
  <2>2. ~Writing(Finishing)' /\ ~Removed'
    BY <1>3, <1>4, Sections DEF Writing, Removed
  <2>3. job'.step = "archiving" => ~started
    BY <1>3, <1>5
  <2>4. job'.step = "discarding" => started
    BY <1>3, <1>5
  <2> QED BY <1>1, <1>2, <1>4, <2>1, <2>2, <2>3, <2>4 DEF FileInv, ArchiveInv
<1>10. OrderInv'
  <2>1. ~Writing(Appending(told - 1))'
    BY <1>3, <1>4, Sections DEF Writing
  <2> QED BY <1>1, <1>4, <2>1, SameOrder
<1>11. KeptInv'
  <2>1. job'.step \in {"archiving", "discarding"}
    BY <1>3, <1>5
  <2> QED BY <1>1, <1>2, <2>1 DEF KeptInv
<1> QED BY <1>7, <1>8, <1>9, <1>10, <1>11 DEF ArchiveInv

\* The opening is committed together with the file that has it.
LEMMA OpeningArchivedKeepsArchive ==
    ASSUME ChronicleInv, ArchiveInv, OpeningArchived
    PROVE  ArchiveInv'
<1>1. /\ job.kind = "start" /\ job.step = "archiving" /\ Take("ok") /\ Commit /\ job' = Idle
      /\ effects' = "free" /\ UNCHANGED <<ended, lost>>
  BY DEF OpeningArchived
<1>2. /\ HeldInv' /\ threads = {} /\ UNCHANGED <<started, finalized, archive, lock, threads>>
      /\ \A w : ~Writing(w)'
  BY <1>1, LockReleased
<1>3. told = 0 /\ told' = 1 /\ started
  BY <1>1 DEF Commit, Take, ArchiveInv, TurnInv, FileInv, Removed
<1>4. TurnInv'
  BY <1>1 DEF ArchiveInv, TurnInv, Idle
<1>5. FileInv'
  BY <1>1, <1>2, <1>3 DEF ArchiveInv, FileInv, Idle
<1>6. Rounds' = Rounds /\ \A i \in Rounds : archive[i].round \in Nat /\ archive[i].round < told
  BY <1>2, ArchiveTyped DEF Rounds, ArchiveInv, OrderInv
<1>7. OrderInv'
  <2>1. \A i \in Rounds' : archive'[i].round < told'
    BY <1>2, <1>3, <1>6
  <2> QED BY <1>2, <1>6, <2>1 DEF OrderInv, ArchiveInv
<1>8. KeptInv'
  BY <1>3 DEF KeptInv
<1> QED BY <1>2, <1>4, <1>5, <1>7, <1>8 DEF ArchiveInv

\* The start fails, and no file is left, or its removal was reported to have failed.
LEMMA OpeningDroppedKeepsArchive ==
    ASSUME ChronicleInv, ArchiveInv,
           OpeningFailed \/ \E r \in {"ok", "error", "cancelled"} : OpeningDiscarded(r)
    PROVE  ArchiveInv'
<1>1. PICK r \in {"ok", "error", "cancelled"} :
         /\ Take(r)
         /\ \/ job.kind = "start" /\ job.step = "archiving" /\ r = "error" /\ lost' = lost
            \/ /\ job.step = "discarding"
               /\ lost' = IF r = "error" THEN lost \cup {0} ELSE lost
  BY DEF OpeningFailed, OpeningDiscarded
<1>2. /\ job' = Idle /\ effects' = "free" /\ UNCHANGED <<told, ended>>
  BY DEF OpeningFailed, OpeningDiscarded, FailJob, Drop
<1>3. /\ HeldInv' /\ threads = {} /\ UNCHANGED <<started, finalized, archive, lock, threads>>
      /\ \A w : ~Writing(w)'
  BY <1>1, <1>2, LockReleased
<1>4. told = 0
  BY <1>1 DEF ArchiveInv, TurnInv
<1>5. TurnInv'
  BY <1>1, <1>2 DEF ArchiveInv, TurnInv, Idle
<1>6. FileInv'
  BY <1>2, <1>3 DEF ArchiveInv, FileInv, Idle
<1>7. OrderInv'
  BY <1>2, <1>3, SameOrder
<1>8. archive = <<>> \/ 0 \in lost'
  <2>1. CASE job.kind = "start" /\ job.step = "archiving" /\ r = "error"
    BY <1>1, <2>1 DEF ArchiveInv, FileInv, Removed, Take
  <2>2. CASE job.step = "discarding" /\ r = "error"
    BY <1>1, <2>2
  <2>3. CASE job.step = "discarding" /\ r # "error"
    BY <1>1, <2>3 DEF ArchiveInv, FileInv, Removed, Take
  <2> QED BY <1>1, <2>1, <2>2, <2>3
<1>9. KeptInv'
  BY <1>2, <1>3, <1>4, <1>8 DEF KeptInv
<1> QED BY <1>3, <1>5, <1>6, <1>7, <1>9 DEF ArchiveInv

LEMMA OpeningInterruptedKeepsArchive ==
    ASSUME ChronicleInv, ArchiveInv, OpeningInterrupted
    PROVE  ArchiveInv'
<1>1. /\ job.kind = "start" /\ job.step = "archiving" /\ result = "cancelled"
      /\ result' = "none" /\ lock' = [state |-> "held", for |-> Removing]
      /\ threads' = threads \cup {Removing} /\ job' = [job EXCEPT !.step = "discarding"]
      /\ UNCHANGED <<told, started, finalized, archive, effects, ended, lost>>
  BY DEF OpeningInterrupted, DiscardOpening, memoryVars
<1>2. /\ effects = "job" /\ told = 0 /\ ~ended /\ ~finalized /\ started
      /\ lock.state = "free" /\ threads = {}
  <2>1. effects = "job" /\ told = 0 /\ job # Idle
    BY <1>1 DEF ArchiveInv, TurnInv, Idle
  <2>2. started
    BY <1>1 DEF ArchiveInv, FileInv, Removed
  <2> QED BY <1>1, <2>1, <2>2 DEF ArchiveInv, TurnInv, FileInv, HeldInv
<1>3. job'.step = "discarding" /\ job'.kind = "start"
  BY <1>1 DEF ChronicleInv, GameTypeOK
<1>4. lock'.state = "held" /\ lock'.for = Removing /\ threads' = {Removing}
  BY <1>1, <1>2
<1>5. HeldInv'
  BY <1>1, <1>2, <1>3, <1>4 DEF HeldInv, Assigned
<1>6. TurnInv'
  BY <1>1, <1>2, <1>3 DEF TurnInv
<1>7. ~Writing(Creating)' /\ ~Writing(Finishing)' /\ ~Writing(Appending(told - 1))' /\ ~Removed'
  BY <1>1, <1>4, Sections DEF Writing, Removed
<1>8. FileInv'
  BY <1>1, <1>2, <1>3, <1>7 DEF FileInv, ArchiveInv
<1>9. OrderInv'
  BY <1>1, <1>7, SameOrder
<1>10. KeptInv'
  BY <1>1, <1>2, <1>3 DEF KeptInv
<1> QED BY <1>5, <1>6, <1>8, <1>9, <1>10 DEF ArchiveInv

LEMMA ShutdownKeepsArchive ==
    ASSUME ChronicleInv, ArchiveInv, Shutdown
    PROVE  ArchiveInv'
<1>1. /\ effects = "free" /\ ended' = TRUE /\ job' = Idle /\ UNCHANGED <<told, lost>>
  BY DEF Shutdown, CancelRequest
<1>2. job'.step = "idle" /\ job'.kind = "none" /\ job.step \notin {"archiving", "discarding"}
  BY <1>1 DEF Idle, ArchiveInv, TurnInv
<1>3. /\ lock.state = "free" /\ result = "none" /\ threads = {}
  BY <1>1 DEF ArchiveInv, HeldInv
<1>4. CASE UNCHANGED <<transcriptVars, effects>>
  <2>1. UNCHANGED <<started, finalized, archive, lock, threads, result, effects>>
    BY <1>4 DEF transcriptVars
  <2>2. HeldInv' /\ \A w : ~Writing(w)'
    BY <1>1, <1>3, <2>1 DEF HeldInv, Writing
  <2>3. TurnInv'
    BY <1>1, <1>2, <2>1 DEF TurnInv
  <2>4. FileInv'
    BY <1>1, <1>2, <2>1, <2>2 DEF FileInv, ArchiveInv
  <2>5. OrderInv'
    BY <1>1, <2>1, <2>2, SameOrder
  <2>6. KeptInv'
    BY <1>1, <1>2, <2>1 DEF KeptInv, ArchiveInv, Rounds, InFlight
  <2> QED BY <2>2, <2>3, <2>4, <2>5, <2>6 DEF ArchiveInv
<1>5. CASE Finalize /\ effects' = "ending"
  <2>1. /\ lock'.state = "held" /\ lock'.for = Finishing /\ threads' = {Finishing}
        /\ result' = "none" /\ UNCHANGED <<started, finalized, archive>>
    BY <1>1, <1>5, Begins DEF Finalize
  <2>2. started /\ ~finalized
    BY <1>5 DEF Finalize, CannotAppend
  <2>3. HeldInv'
    BY <1>5, <2>1 DEF HeldInv, Assigned
  <2>4. TurnInv'
    BY <1>1, <1>2, <1>5 DEF TurnInv
  <2>5. ~Writing(Creating)' /\ ~Writing(Appending(told - 1))'
    BY <2>1, Sections DEF Writing
  <2>6. FileInv'
    BY <1>1, <1>2, <2>1, <2>2, <2>5 DEF FileInv, ArchiveInv
  <2>7. OrderInv'
    BY <1>1, <2>1, <2>5, SameOrder
  <2>8. KeptInv'
    <3>1. \A n : ~InFlight(n)
      BY <1>2, <1>3 DEF InFlight
    <3>2. Rounds' = Rounds
      BY <2>1 DEF Rounds
    <3> QED BY <1>1, <1>2, <2>1, <3>1, <3>2 DEF KeptInv, ArchiveInv
  <2> QED BY <2>3, <2>4, <2>6, <2>7, <2>8 DEF ArchiveInv
<1> QED BY <1>4, <1>5 DEF Shutdown

LEMMA ShutdownDoneKeepsArchive ==
    ASSUME ChronicleInv, ArchiveInv, NEW r \in {"ok", "error", "cancelled"}, ShutdownDone(r)
    PROVE  ArchiveInv'
<1>1. /\ effects = "ending" /\ Take(r) /\ effects' = "free" /\ UNCHANGED <<told, job, ended, lost>>
  BY DEF ShutdownDone, memoryVars
<1>2. /\ HeldInv' /\ threads = {} /\ UNCHANGED <<started, finalized, archive, lock, threads>>
      /\ \A w : ~Writing(w)'
  BY <1>1, LockReleased
<1>3. job.step \notin {"archiving", "discarding"}
  BY <1>1 DEF ArchiveInv, TurnInv
<1>4. TurnInv'
  BY <1>1, <1>3 DEF ArchiveInv, TurnInv
<1>5. FileInv'
  BY <1>1, <1>2, <1>3 DEF ArchiveInv, FileInv
<1>6. OrderInv' /\ Rounds' = Rounds
  BY <1>1, <1>2, SameOrder
<1>7. KeptInv'
  BY <1>1, <1>2, <1>3, <1>6 DEF ArchiveInv, KeptInv, InFlight
<1> QED BY <1>2, <1>4, <1>5, <1>6, <1>7 DEF ArchiveInv

-----------------------------------------------------------------------------
(* The theorem *)

LEMMA ArchiveInvInit == ChronicleInit => ArchiveInv
<1> SUFFICES ASSUME ChronicleInit PROVE ArchiveInv
  OBVIOUS
<1>1. /\ started = FALSE /\ finalized = FALSE /\ archive = <<>> /\ lock = Free /\ threads = {}
      /\ result = "none" /\ told = 0 /\ job = Idle /\ effects = "free" /\ ended = FALSE
  BY DEF ChronicleInit, MemoryInit, TranscriptInit
<1>2. lock.state = "free" /\ job.step = "idle" /\ job.kind = "none" /\ 1..Len(archive) = {}
  BY <1>1 DEF Free, Idle
<1>3. HeldInv /\ TurnInv /\ FileInv
  BY <1>1, <1>2 DEF HeldInv, TurnInv, FileInv, Writing
<1>4. OrderInv /\ KeptInv
  BY <1>1, <1>2 DEF OrderInv, KeptInv, Rounds, Writing
<1> QED BY <1>3, <1>4 DEF ArchiveInv

LEMMA ArchiveInvNext ==
    ChronicleInv /\ ArchiveInv /\ [ChronicleNext]_chronicleVars => ArchiveInv'
<1> SUFFICES ASSUME ChronicleInv, ArchiveInv, [ChronicleNext]_chronicleVars PROVE ArchiveInv'
  OBVIOUS
<1>1. CASE UNCHANGED chronicleVars
  <2>1. UNCHANGED <<ArchiveVars, job>>
    BY <1>1 DEF chronicleVars, memoryVars, gameVars, ArchiveVars
  <2> QED BY <2>1, ArchiveUnchanged
<1>2. CASE ChronicleNext
  BY <1>2, AskingKeepsArchive, RequestKeepsArchive, CommitRoundKeepsArchive,
     StartArchiveKeepsArchive, OpeningArchivedKeepsArchive, OpeningDroppedKeepsArchive,
     OpeningInterruptedKeepsArchive, RoundArchivedKeepsArchive, ShutdownDoneKeepsArchive,
     DiskKeepsArchive, InterruptKeepsArchive, ShutdownKeepsArchive
     DEF ChronicleNext
<1> QED BY <1>1, <1>2

\* The file on disk tells the game as it was committed: the opening first, each round once and
\* in order, nothing after the footer, no round missing whose error was not reported, and no
\* file left of a start that failed - for any number of rounds, failures, cancellations and
\* shutdowns (GameTranscript, _resolve_round_work, _prepare_start, shutdown).
THEOREM ArchiveFaithful == ChronicleSpec => []ArchiveIsFaithful
<1>1. ChronicleInv /\ ArchiveInv => ArchiveIsFaithful
  <2> SUFFICES ASSUME ChronicleInv, ArchiveInv PROVE ArchiveIsFaithful
    OBVIOUS
  <2>1. started = (archive # <<>>)
    BY ArchiveTyped DEF ArchiveInv, FileInv
  <2>2. job = Idle => job.step = "idle"
    BY DEF Idle
  <2>3. (told = 0 /\ job = Idle /\ archive # <<>>) => 0 \in lost
    BY <2>2 DEF ArchiveInv, KeptInv
  <2> QED BY <2>1, <2>3 DEF ArchiveIsFaithful, ArchiveInv, OrderInv, KeptInv
<1> QED BY <1>1, ChronicleInvInit, ChronicleInvNext, ArchiveInvInit, ArchiveInvNext, PTL
        DEF ChronicleSpec
=============================================================================
