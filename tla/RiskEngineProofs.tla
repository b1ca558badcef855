-------------------------- MODULE RiskEngineProofs --------------------------
(* Proofs about RiskEngine: its type invariant, the completeness of the     *)
(* velocity log, the velocity bound and the freeze, for every instance.     *)
EXTENDS RiskEngine, SequenceTheorems, FiniteSetTheorems, TLAPS

-----------------------------------------------------------------------------
(* Pruning.                                                                *)

\* A non-empty set of naturals has a least element.
LEMMA LeastNat ==
  ASSUME NEW S \in SUBSET Nat, S # {}
  PROVE  \E m \in S : \A k \in S : m <= k
<1> DEFINE R == {pair \in Nat \X Nat : pair[1] < pair[2]}
<1>1. R = OpToRel(<, Nat)
  BY DEF OpToRel
<1>2. IsWellFoundedOn(R, Nat)
  BY <1>1, NatLessThanWellFounded
<1>3. PICK m \in S : \A k \in S : ~ (<<k, m>> \in R)
  BY <1>2, WFMin
<1>4. ASSUME NEW k \in S
      PROVE  m <= k
  <2>1. <<k, m>> \in Nat \X Nat /\ ~(<<k, m>> \in R)
    BY <1>3
  <2>2. ~(k < m)
    BY <2>1
  <2> QED
    BY <2>2
<1> QED
  BY <1>4

\* _prune_log drops a prefix of expired entries and nothing else.
LEMMA PruneDropsExpiredPrefix ==
  ASSUME NEW log, Len(log) \in Nat, NEW now \in Int,
         \A i \in 1..Len(log) : log[i].timestamp \in Int
  PROVE  \E first \in 1..(Len(log) + 1) :
           /\ Prune(log, now) = SubSeq(log, first, Len(log))
           /\ \A j \in 1..(first - 1) : Expired(log[j], now)
<1> DEFINE Fresh == {i \in 1..Len(log) : ~Expired(log[i], now)} \cup {Len(log) + 1}
           IsFirst(i) == /\ \A j \in 1..(i - 1) : Expired(log[j], now)
                         /\ i <= Len(log) => ~Expired(log[i], now)
<1>1. PICK first \in Fresh : \A k \in Fresh : first <= k
  <2>1. Fresh \in SUBSET Nat /\ Fresh # {}
    OBVIOUS
  <2> QED
    BY <2>1, LeastNat
<1>2. first \in 1..(Len(log) + 1) /\ IsFirst(first)
  <2>1. \A j \in 1..(first - 1) : j \notin Fresh
    BY <1>1
  <2> QED
    BY <1>1, <2>1
<1> HIDE DEF IsFirst
<1> DEFINE chosen == CHOOSE i \in 1..(Len(log) + 1) : IsFirst(i)
<1>3. chosen \in 1..(Len(log) + 1) /\ IsFirst(chosen)
  BY <1>2
<1>4. Prune(log, now) = SubSeq(log, chosen, Len(log))
  BY DEF Prune, IsFirst
<1> QED
  BY <1>3, <1>4 DEF IsFirst

\* What pruning keeps is a well-typed suffix of the log.
LEMMA PruneKeepsSuffix ==
  ASSUME NEW log \in Seq(Entries), NEW now \in Int
  PROVE  \E first \in 1..(Len(log) + 1) :
           /\ Prune(log, now) \in Seq(Entries)
           /\ Len(Prune(log, now)) = Len(log) - first + 1
           /\ \A i \in 1..(Len(log) - first + 1) :
                Prune(log, now)[i] = log[first + i - 1]
           /\ \A j \in 1..(first - 1) : Expired(log[j], now)
<1>1. /\ Len(log) \in Nat
      /\ \A i \in 1..Len(log) : log[i] \in Entries /\ log[i].timestamp \in Int
  <2>1. Len(log) \in Nat /\ \A i \in 1..Len(log) : log[i] \in Entries
    BY LenProperties, ElementOfSeq
  <2>2. \A e \in Entries : e.timestamp \in Int
    BY SkewAssumption, BoundAssumption DEF Entries, Timestamps
  <2> QED
    BY <2>1, <2>2
<1>2. PICK first \in 1..(Len(log) + 1) :
        /\ Prune(log, now) = SubSeq(log, first, Len(log))
        /\ \A j \in 1..(first - 1) : Expired(log[j], now)
  BY <1>1, PruneDropsExpiredPrefix
<1>3. \A i \in first..Len(log) : log[i] \in Entries
  BY <1>1, <1>2
<1>4. /\ SubSeq(log, first, Len(log)) \in Seq(Entries)
      /\ Len(SubSeq(log, first, Len(log))) =
           IF first <= Len(log) THEN Len(log) - first + 1 ELSE 0
      /\ \A i \in 1..(Len(log) - first + 1) :
           SubSeq(log, first, Len(log))[i] = log[first + i - 1]
  <2>1. first \in Int /\ Len(log) \in Int
    BY <1>1
  <2> QED
    BY <1>3, <2>1, SubSeqProperties
<1>5. Len(SubSeq(log, first, Len(log))) = Len(log) - first + 1
  BY <1>1, <1>2, <1>4
<1> QED
  BY <1>2, <1>4, <1>5

-----------------------------------------------------------------------------
(* Typing.                                                                 *)

\* Every code an evaluation fires is a known code.
LEMMA FiredReasonsType ==
  ASSUME NEW p, NEW log
  PROVE  FiredReasons(p, log) \in SUBSET ReasonCodes
<1>1. \A c, code : When(c, code) \subseteq {code}
  BY DEF When
<1>2. RwaFindings(p.rwa) \subseteq ReasonCodes
  BY <1>1 DEF RwaFindings, ReasonCodes, RedCodes, YellowCodes
<1> QED
  BY <1>1, <1>2 DEF FiredReasons, OwnFindings, ReasonCodes, RedCodes, YellowCodes

\* Initially the engine is well typed.
LEMMA TypeInit == RiskInit => TypeOK
<1> SUFFICES ASSUME RiskInit PROVE TypeOK
  OBVIOUS
<1>1. recent_tx_log \in Seq(Entries) /\ audit_log \in Seq(Verdicts) /\ Len(audit_log) = 0
  BY EmptySeq DEF RiskInit
<1>2. quote \in Quotes(Rates, 0..MaxClock)
  BY BoundAssumption DEF RiskInit, Quotes
<1>3. clock \in 0..MaxClock /\ episode_start \in 0..Len(audit_log)
  BY <1>1, BoundAssumption DEF RiskInit
<1>4. circuit_breaker_tripped \in BOOLEAN /\ trip_reasons \in SUBSET ReasonCodes
  BY DEF RiskInit
<1> QED
  BY <1>1, <1>2, <1>3, <1>4 DEF TypeOK

\* A timestamp behind the clock is one of the engine's.
LEMMA SkewedTimestamp ==
  ASSUME TypeOK, NEW ts \in (clock - ClockSkew)..clock
  PROVE  ts \in Timestamps
BY SkewAssumption, BoundAssumption DEF TypeOK, Timestamps

\* An evaluation keeps the engine well typed, whatever the timestamp.
LEMMA EvaluateTypedAt ==
  ASSUME TypeOK, NEW p \in Payments, NEW ts \in Timestamps, Evaluate(p, ts)
  PROVE  TypeOK'
<1> USE DEF breakerVars, engineVars, marketVars
<1> DEFINE log   == Prune(recent_tx_log, ts)
           fired == FiredReasons(p, log)
<1>1. ts \in Timestamps /\ ts \in Int
  BY SkewAssumption, BoundAssumption DEF Timestamps
<1>2. LogEntry(p, ts) \in Entries
  BY <1>1 DEF LogEntry, Entries
<1>3. log \in Seq(Entries)
  BY <1>1, PruneKeepsSuffix DEF TypeOK
<1>4. fired \in SUBSET ReasonCodes /\ RiskLevel(fired) \in RiskLevels
  BY FiredReasonsType DEF RiskLevel, RiskLevels
<1> HIDE DEF log, fired
<1>5. recent_tx_log' \in Seq(Entries)
  BY <1>2, <1>3, AppendProperties DEF Evaluate, log
<1>6. PICK verdict \in Verdicts : audit_log' = Append(audit_log, verdict)
  BY <1>2, <1>4 DEF Evaluate, Verdicts, log, fired
<1>7. audit_log' \in Seq(Verdicts) /\ Len(audit_log') = Len(audit_log) + 1
  BY <1>6, AppendProperties DEF TypeOK
<1>8. episode_start' \in 0..Len(audit_log')
  BY <1>7, LenProperties DEF TypeOK, Evaluate
<1>9. trip_reasons' \in SUBSET ReasonCodes /\ circuit_breaker_tripped' \in BOOLEAN
  BY <1>4 DEF Evaluate, TypeOK, log, fired
<1>10. clock' \in 0..MaxClock /\ quote' \in Quotes(Rates, 0..MaxClock)
  BY DEF Evaluate, TypeOK
<1> QED
  BY <1>5, <1>7, <1>8, <1>9, <1>10 DEF TypeOK

\* Each step of the engine keeps it well typed.
LEMMA TypeStep == TypeOK /\ [RiskNext]_riskVars => TypeOK'
<1> SUFFICES ASSUME TypeOK, [RiskNext]_riskVars PROVE TypeOK'
  OBVIOUS
<1> USE DEF breakerVars, engineVars, marketVars
<1>1. ASSUME NEW p \in Payments, NEW ts \in (clock - ClockSkew)..clock,
             Evaluate(p, ts)
      PROVE  TypeOK'
  BY <1>1, SkewedTimestamp, EvaluateTypedAt
<1>2. CASE ResetCircuitBreaker
  <2>1. Len(audit_log) \in Nat
    BY LenProperties DEF TypeOK
  <2>2. episode_start' \in 0..Len(audit_log')
    BY <1>2, <2>1 DEF ResetCircuitBreaker
  <2>3. UNCHANGED <<recent_tx_log, audit_log, clock, quote>>
    BY <1>2 DEF ResetCircuitBreaker
  <2>4. circuit_breaker_tripped' \in BOOLEAN /\ trip_reasons' \in SUBSET ReasonCodes
    BY <1>2 DEF ResetCircuitBreaker
  <2> QED
    BY <2>2, <2>3, <2>4 DEF TypeOK
<1>3. CASE Tick
  BY <1>3, BoundAssumption DEF Tick, TypeOK
<1>4. CASE PriceMoves
  BY <1>4 DEF PriceMoves, TypeOK, Quotes
<1>5. CASE UNCHANGED riskVars
  BY <1>5 DEF riskVars, TypeOK
<1> QED
  BY <1>1, <1>2, <1>3, <1>4, <1>5 DEF RiskNext

\* The engine's state keeps its type (RiskEngine.__init__, evaluate, reset).
THEOREM TypeCorrect == RiskSpec => []TypeOK
BY TypeInit, TypeStep, PTL DEF RiskSpec

-----------------------------------------------------------------------------
(* What one evaluation does to the two logs.                               *)

LEMMA EvaluateLogsAt ==
  ASSUME TypeOK, NEW p \in Payments, NEW ts \in Timestamps, Evaluate(p, ts)
  PROVE  LET kept == Prune(recent_tx_log, ts)
             n    == Len(audit_log)
         IN  /\ kept \in Seq(Entries)
             /\ Len(recent_tx_log') = Len(kept) + 1
             /\ \A i \in 1..Len(kept) : recent_tx_log'[i] = kept[i]
             /\ recent_tx_log'[Len(kept) + 1] = LogEntry(p, ts)
             /\ Len(audit_log') = n + 1
             /\ \A i \in 1..n : audit_log'[i] = audit_log[i]
             /\ audit_log'[n + 1].entry = LogEntry(p, ts)
             /\ audit_log'[n + 1].risk_level = RiskLevel(FiredReasons(p, kept))
             /\ audit_log'[n + 1].fired_reasons = FiredReasons(p, kept)
             /\ clock' = clock
<1> DEFINE kept  == Prune(recent_tx_log, ts)
           fired == FiredReasons(p, kept)
           verdict == [entry |-> LogEntry(p, ts), risk_level |-> RiskLevel(fired),
                       fired_reasons |-> fired]
<1>1. ts \in Timestamps /\ ts \in Int
  BY SkewAssumption, BoundAssumption DEF Timestamps
<1>2. LogEntry(p, ts) \in Entries
  BY <1>1 DEF LogEntry, Entries
<1>3. kept \in Seq(Entries)
  BY <1>1, PruneKeepsSuffix DEF TypeOK
<1>4. fired \in SUBSET ReasonCodes /\ RiskLevel(fired) \in RiskLevels
  BY FiredReasonsType DEF RiskLevel, RiskLevels
<1>5. verdict \in Verdicts
  BY <1>2, <1>4 DEF Verdicts
<1>6. /\ recent_tx_log' = Append(kept, LogEntry(p, ts))
      /\ audit_log' = Append(audit_log, verdict)
      /\ clock' = clock
  BY DEF Evaluate, marketVars
<1>7. audit_log \in Seq(Verdicts)
  BY DEF TypeOK
<1> HIDE DEF kept, verdict
<1>8. /\ Len(recent_tx_log') = Len(kept) + 1
      /\ \A i \in 1..Len(kept) : recent_tx_log'[i] = kept[i]
      /\ recent_tx_log'[Len(kept) + 1] = LogEntry(p, ts)
  BY <1>2, <1>3, <1>6, AppendProperties
<1>9. /\ Len(audit_log') = Len(audit_log) + 1
      /\ \A i \in 1..Len(audit_log) : audit_log'[i] = audit_log[i]
      /\ audit_log'[Len(audit_log) + 1] = verdict
  BY <1>5, <1>6, <1>7, AppendProperties
<1> QED
  BY <1>3, <1>6, <1>8, <1>9 DEF kept, verdict

LEMMA EvaluateLogs ==
  ASSUME TypeOK, NEW p \in Payments,
         NEW ts \in (clock - ClockSkew)..clock, Evaluate(p, ts)
  PROVE  LET kept == Prune(recent_tx_log, ts)
             n    == Len(audit_log)
         IN  /\ kept \in Seq(Entries)
             /\ Len(recent_tx_log') = Len(kept) + 1
             /\ \A i \in 1..Len(kept) : recent_tx_log'[i] = kept[i]
             /\ recent_tx_log'[Len(kept) + 1] = LogEntry(p, ts)
             /\ Len(audit_log') = n + 1
             /\ \A i \in 1..n : audit_log'[i] = audit_log[i]
             /\ audit_log'[n + 1].entry = LogEntry(p, ts)
             /\ audit_log'[n + 1].risk_level = RiskLevel(FiredReasons(p, kept))
             /\ audit_log'[n + 1].fired_reasons = FiredReasons(p, kept)
             /\ clock' = clock
BY SkewedTimestamp, EvaluateLogsAt

\* The entries a well-typed engine holds carry integer timestamps.
LEMMA IntegerTimestamps ==
  ASSUME TypeOK
  PROVE  /\ clock \in Int
         /\ Len(recent_tx_log) \in Nat /\ Len(audit_log) \in Nat
         /\ \A i \in 1..Len(recent_tx_log) : recent_tx_log[i].timestamp \in Int
         /\ \A i \in 1..Len(audit_log) : audit_log[i].entry.timestamp \in Int
<1>1. recent_tx_log \in Seq(Entries) /\ audit_log \in Seq(Verdicts)
  BY DEF TypeOK
<1>2. Len(recent_tx_log) \in Nat /\ Len(audit_log) \in Nat
  BY <1>1, LenProperties
<1>3. \A e \in Entries : e.timestamp \in Int
  BY SkewAssumption, BoundAssumption DEF Entries, Timestamps
<1>4. \A i \in 1..Len(recent_tx_log) : recent_tx_log[i] \in Entries
  BY <1>1, ElementOfSeq
<1>5. \A i \in 1..Len(audit_log) : audit_log[i].entry \in Entries
  <2>1. \A i \in 1..Len(audit_log) : audit_log[i] \in Verdicts
    BY <1>1, ElementOfSeq
  <2> QED
    BY <2>1 DEF Verdicts
<1>6. clock \in Int
  BY BoundAssumption DEF TypeOK
<1> QED
  BY <1>2, <1>3, <1>4, <1>5, <1>6

\* What is out of the window stays out of it.
LEMMA ExpiryStays ==
  ASSUME NEW entry, entry.timestamp \in Int, NEW now \in Int, NEW later \in Int,
         now <= later, Expired(entry, now)
  PROVE  Expired(entry, later)
<1> DEFINE made == entry.timestamp
<1>1. made \in Int /\ FrequencyWindow \in Int /\ now - made > FrequencyWindow
  BY FrequencyAssumption DEF Expired
<1> HIDE DEF made
<1>2. later - made > FrequencyWindow
  BY <1>1
<1> QED
  BY <1>2 DEF Expired, made

-----------------------------------------------------------------------------
(* The velocity log is complete.                                           *)

\* The velocity log is the latest part of what was audited; the rest is out of
\* the window or among the verdicts that the engine has been made to forget.
LogCompleteBut(forgotten) ==
  LET dropped == Len(audit_log) - Len(recent_tx_log)
  IN  /\ dropped >= 0
      /\ \A i \in 1..Len(recent_tx_log) :
           recent_tx_log[i] = audit_log[dropped + i].entry
      /\ \A i \in 1..dropped :
           i \in forgotten \/ Expired(audit_log[i].entry, clock)

\* Pruning and logging one more attempt keep it so.
LEMMA EvaluateKeepsLog ==
  ASSUME TypeOK, NEW forgotten, LogCompleteBut(forgotten), NEW p \in Payments,
         NEW ts \in (clock - ClockSkew)..clock, Evaluate(p, ts)
  PROVE  LogCompleteBut(forgotten)'
<1> DEFINE kept == Prune(recent_tx_log, ts)
           n    == Len(audit_log)
           r    == Len(recent_tx_log)
<1>1. /\ clock \in Int /\ ts \in Int /\ ts <= clock /\ n \in Nat /\ r \in Nat
      /\ \A i \in 1..r : recent_tx_log[i].timestamp \in Int
      /\ FrequencyWindow \in Int
  BY IntegerTimestamps, FrequencyAssumption, SkewAssumption
<1>2. PICK first \in 1..(r + 1) :
        /\ kept \in Seq(Entries)
        /\ Len(kept) = r - first + 1
        /\ \A i \in 1..(r - first + 1) : kept[i] = recent_tx_log[first + i - 1]
        /\ \A j \in 1..(first - 1) : Expired(recent_tx_log[j], ts)
  BY <1>1, PruneKeepsSuffix DEF TypeOK
<1>3. /\ Len(recent_tx_log') = Len(kept) + 1
      /\ \A i \in 1..Len(kept) : recent_tx_log'[i] = kept[i]
      /\ recent_tx_log'[Len(kept) + 1] = LogEntry(p, ts)
      /\ Len(audit_log') = n + 1
      /\ \A i \in 1..n : audit_log'[i] = audit_log[i]
      /\ audit_log'[n + 1].entry = LogEntry(p, ts)
      /\ clock' = clock
  BY EvaluateLogs
<1>4. /\ n - r >= 0
      /\ \A i \in 1..r : recent_tx_log[i] = audit_log[n - r + i].entry
      /\ \A i \in 1..(n - r) : i \in forgotten \/ Expired(audit_log[i].entry, clock)
  BY DEF LogCompleteBut
<1> HIDE DEF kept
<1> DEFINE gone == n - r + first - 1
<1>5. Len(audit_log') - Len(recent_tx_log') = gone /\ gone \in Nat
  BY <1>1, <1>2, <1>3, <1>4
<1>6. ASSUME NEW i \in 1..Len(recent_tx_log')
      PROVE  recent_tx_log'[i] = audit_log'[gone + i].entry
  <2>1. CASE i = Len(kept) + 1
    <3>1. gone + i = n + 1
      BY <2>1, <1>1, <1>2
    <3> QED
      BY <2>1, <3>1, <1>3
  <2>2. CASE i \in 1..Len(kept)
    <3>1. recent_tx_log'[i] = recent_tx_log[first + i - 1]
      BY <2>2, <1>2, <1>3
    <3>2. first + i - 1 \in 1..r
      BY <2>2, <1>1, <1>2
    <3>3. recent_tx_log[first + i - 1] = audit_log[n - r + (first + i - 1)].entry
      BY <3>2, <1>4
    <3>4. n - r + (first + i - 1) = gone + i /\ gone + i \in 1..n
      <4>1. n \in Nat /\ r \in Nat /\ n - r >= 0 /\ first \in 1..(r + 1)
        BY <1>1, <1>4
      <4>2. i \in Int
        BY <2>2, <1>2
      <4> HIDE DEF n, r
      <4>3. n - r + (first + i - 1) = gone + i
        BY <4>1, <4>2
      <4>4. gone + i \in Int /\ gone + i >= 1 /\ gone + i <= n
        BY <3>2, <4>1, <4>2, <4>3
      <4> QED
        BY <4>1, <4>3, <4>4
    <3> QED
      BY <3>1, <3>3, <3>4, <1>3
  <2>3. Len(kept) \in Nat /\ i \in 1..(Len(kept) + 1)
    BY <1>1, <1>2, <1>3
  <2>4. i = Len(kept) + 1 \/ i \in 1..Len(kept)
    BY <2>3
  <2> QED
    BY <2>1, <2>2, <2>4
<1>7. ASSUME NEW i \in 1..gone
      PROVE  i \in forgotten \/ Expired(audit_log'[i].entry, clock')
  <2>1. i \in 1..n /\ audit_log'[i] = audit_log[i]
    BY <1>1, <1>2, <1>3, <1>4
  <2>2. CASE i <= n - r
    BY <2>1, <2>2, <1>1, <1>3, <1>4 DEF Expired
  <2>3. CASE i > n - r
    <3>1. i - (n - r) \in 1..(first - 1) /\ i - (n - r) \in 1..r
      BY <2>3, <1>1, <1>2, <1>4
    <3>2. recent_tx_log[i - (n - r)] = audit_log[n - r + (i - (n - r))].entry
      BY <3>1, <1>4
    <3>3. n - r + (i - (n - r)) = i
      BY <1>1
    <3>4. Expired(audit_log[i].entry, ts) /\ audit_log[i].entry.timestamp \in Int
      BY <3>1, <3>2, <3>3, <1>1, <1>2
    <3>5. Expired(audit_log[i].entry, clock)
      BY <3>4, <1>1, ExpiryStays
    <3> QED
      BY <2>1, <3>5, <1>3
  <2> QED
    BY <2>1, <2>2, <2>3, <1>1
<1> HIDE DEF gone
<1>8. /\ Len(audit_log') - Len(recent_tx_log') >= 0
      /\ \A i \in 1..Len(recent_tx_log') :
           recent_tx_log'[i] =
             audit_log'[Len(audit_log') - Len(recent_tx_log') + i].entry
      /\ \A i \in 1..(Len(audit_log') - Len(recent_tx_log')) :
           i \in forgotten \/ Expired(audit_log'[i].entry, clock')
  <2> DEFINE d == Len(audit_log') - Len(recent_tx_log')
  <2>1. d = gone /\ d >= 0
    BY <1>5
  <2> HIDE DEF d
  <2>2. \A i \in 1..Len(recent_tx_log') : recent_tx_log'[i] = audit_log'[d + i].entry
    BY <1>6, <2>1
  <2>3. \A i \in 1..d : i \in forgotten \/ Expired(audit_log'[i].entry, clock')
    BY <1>7, <2>1
  <2> QED
    BY <2>1, <2>2, <2>3 DEF d
<1> QED
  BY <1>8 DEF LogCompleteBut, Expired

\* An engine that is never restarted forgets nothing.
LEMMA NothingForgotten == RecentLogComplete <=> LogCompleteBut({})
BY DEF RecentLogComplete, LogCompleteBut

LEMMA EvaluateKeepsLogComplete ==
  ASSUME TypeOK, RecentLogComplete, NEW p \in Payments,
         NEW ts \in (clock - ClockSkew)..clock, Evaluate(p, ts)
  PROVE  RecentLogComplete'
<1>1. LogCompleteBut({})'
  BY NothingForgotten, EvaluateKeepsLog
<1> QED
  BY <1>1 DEF RecentLogComplete, LogCompleteBut

\* The velocity log misses no audited attempt younger than the window
\* (risk_engine.py evaluate and _prune_log).
THEOREM LogComplete == RiskSpec => []RecentLogComplete
<1>1. RiskInit => RecentLogComplete
  BY EmptySeq DEF RiskInit, RecentLogComplete
<1>2. TypeOK /\ RecentLogComplete /\ [RiskNext]_riskVars => RecentLogComplete'
  <2> SUFFICES ASSUME TypeOK, RecentLogComplete, [RiskNext]_riskVars
               PROVE  RecentLogComplete'
    OBVIOUS
  <2>1. ASSUME NEW p \in Payments, NEW ts \in (clock - ClockSkew)..clock,
               Evaluate(p, ts)
        PROVE  RecentLogComplete'
    BY <2>1, EvaluateKeepsLogComplete
  <2>2. CASE ResetCircuitBreaker
    BY <2>2 DEF ResetCircuitBreaker, marketVars, RecentLogComplete
  <2>3. CASE Tick
    <3>1. UNCHANGED <<recent_tx_log, audit_log>> /\ clock' = clock + 1
      BY <2>3 DEF Tick, engineVars
    <3>2. \A i \in 1..(Len(audit_log) - Len(recent_tx_log)) :
            Expired(audit_log[i].entry, clock) => Expired(audit_log[i].entry, clock')
      BY <3>1, IntegerTimestamps, ExpiryStays DEF RecentLogComplete
    <3> QED
      BY <3>1, <3>2 DEF RecentLogComplete
  <2>4. CASE PriceMoves
    BY <2>4 DEF PriceMoves, engineVars, RecentLogComplete
  <2>5. CASE UNCHANGED riskVars
    BY <2>5 DEF riskVars, engineVars, marketVars, RecentLogComplete
  <2> QED
    BY <2>1, <2>2, <2>3, <2>4, <2>5 DEF RiskNext
<1> QED
  BY <1>1, <1>2, TypeCorrect, PTL DEF RiskSpec

-----------------------------------------------------------------------------
(* The velocity bound.                                                     *)

\* A verdict that is not RED counted at most FrequencyLimit attempts.
LEMMA NotRedNotLooping ==
  ASSUME NEW p, NEW log, RiskLevel(FiredReasons(p, log)) # "RED",
         Cardinality(Matches(log, p)) \in Nat
  PROVE  Cardinality(Matches(log, p)) + 1 <= FrequencyLimit
<1> DEFINE loops == Cardinality(Matches(log, p)) + 1 > FrequencyLimit
<1>1. FiredReasons(p, log) \cap RedCodes = {}
  BY DEF RiskLevel
<1>2. When(loops, "transaction_loop_detected") \subseteq FiredReasons(p, log)
  BY DEF FiredReasons, OwnFindings
<1>3. "transaction_loop_detected" \in RedCodes
  BY DEF RedCodes
<1>4. ~loops
  BY <1>1, <1>2, <1>3 DEF When
<1> QED
  BY <1>4, FrequencyAssumption

\* The attempt an evaluation adds to the audit log respects the bound: its
\* repeats, but for forgotten ones, are in the pruned log, one position apart
\* from each other.
LEMMA NewVerdictBound ==
  ASSUME TypeOK, NEW forgotten, LogCompleteBut(forgotten), NEW p \in Payments,
         NEW ts \in (clock - ClockSkew)..clock, Evaluate(p, ts),
         NEW n, n = Len(audit_log) + 1, audit_log'[n].risk_level # "RED",
         NEW T, T = {j \in 1..n :
                      /\ j \notin forgotten
                      /\ SameTransfer(audit_log'[n].entry, audit_log'[j].entry)
                      /\ audit_log'[j].entry.timestamp
                           >= audit_log'[n].entry.timestamp
                                - (FrequencyWindow - ClockSkew)}
  PROVE  Cardinality(T) <= FrequencyLimit
<1> DEFINE kept == Prune(recent_tx_log, ts)
           g    == n - 1 - Len(kept)
           T0   == T \ {n}
           M    == Matches(kept, p)
<1>1. /\ clock \in Int /\ ts \in Int /\ n - 1 \in Nat /\ n \in Nat /\ n - 1 = Len(audit_log)
      /\ ts >= clock - ClockSkew /\ ClockSkew \in Int
      /\ FrequencyWindow \in Int /\ FrequencyLimit \in Int
      /\ \A i \in 1..(n - 1) : audit_log[i].entry.timestamp \in Int
  BY IntegerTimestamps, FrequencyAssumption, SkewAssumption
<1>2. /\ kept \in Seq(Entries)
      /\ Len(recent_tx_log') = Len(kept) + 1
      /\ \A i \in 1..Len(kept) : recent_tx_log'[i] = kept[i]
      /\ Len(audit_log') = n
      /\ \A i \in 1..(n - 1) : audit_log'[i] = audit_log[i]
      /\ audit_log'[n].entry = LogEntry(p, ts)
      /\ audit_log'[n].risk_level = RiskLevel(FiredReasons(p, kept))
      /\ clock' = clock
  BY <1>1, EvaluateLogs
<1>3. Len(kept) \in Nat
  BY <1>2, LenProperties
<1> HIDE DEF kept
<1>4. LogCompleteBut(forgotten)'
  BY EvaluateKeepsLog
<1>5. /\ g >= 0
      /\ \A i \in 1..(Len(kept) + 1) : recent_tx_log'[i] = audit_log'[g + i].entry
      /\ \A i \in 1..g :
           i \in forgotten \/ clock - audit_log'[i].entry.timestamp > FrequencyWindow
  <2>1. Len(audit_log') - Len(recent_tx_log') = g
    BY <1>1, <1>2, <1>3
  <2>2. /\ Len(audit_log') - Len(recent_tx_log') >= 0
        /\ \A i \in 1..Len(recent_tx_log') :
             recent_tx_log'[i] =
               audit_log'[Len(audit_log') - Len(recent_tx_log') + i].entry
        /\ \A i \in 1..(Len(audit_log') - Len(recent_tx_log')) :
             \/ i \in forgotten
             \/ clock' - audit_log'[i].entry.timestamp > FrequencyWindow
    BY <1>4 DEF LogCompleteBut, Expired
  <2> QED
    BY <2>1, <2>2, <1>2
<1>6. ASSUME NEW j \in T0
      PROVE  j \in 1..(n - 1) /\ j - g \in M
  <2>1. /\ j \in 1..(n - 1) /\ j \notin forgotten
        /\ SameTransfer(LogEntry(p, ts), audit_log'[j].entry)
        /\ audit_log'[j].entry.timestamp >= ts - (FrequencyWindow - ClockSkew)
    BY <1>1, <1>2 DEF LogEntry
  <2>2. audit_log'[j].entry.timestamp \in Int
    BY <2>1, <1>1, <1>2
  <2>3. ~(clock - audit_log'[j].entry.timestamp > FrequencyWindow)
    BY <2>1, <2>2, <1>1
  <2>4. j \notin 1..g
    BY <2>1, <2>3, <1>5
  <2>5. j - g \in 1..Len(kept) /\ g + (j - g) = j
    BY <2>1, <2>4, <1>1, <1>3, <1>5
  <2>6. kept[j - g] = audit_log'[j].entry
    <3> DEFINE k == j - g
    <3>1. k \in 1..Len(kept) /\ k \in 1..(Len(kept) + 1) /\ g + k = j
      BY <2>5, <1>3
    <3> HIDE DEF k
    <3>2. recent_tx_log'[k] = kept[k] /\ recent_tx_log'[k] = audit_log'[g + k].entry
      BY <3>1, <1>2, <1>5
    <3> QED
      BY <3>1, <3>2 DEF k
  <2> QED
    BY <2>1, <2>5, <2>6 DEF Matches, SameTransfer, LogEntry
<1>7. IsFiniteSet(M) /\ Cardinality(M) \in Nat
  <2>1. IsFiniteSet(1..Len(kept))
    <3>1. 1 \in Int /\ Len(kept) \in Int
      BY <1>3
    <3> QED
      BY <3>1, FS_Interval, Zenon
  <2>2. M \in SUBSET (1..Len(kept))
    BY DEF Matches
  <2> QED
    BY <2>1, <2>2, FS_Subset, FS_CardinalityType
<1>8. IsFiniteSet(T0) /\ Cardinality(T0) <= Cardinality(M)
  <2> DEFINE f == [j \in T0 |-> j - g]
  <2>1. \A i, j \in T0 : f[i] = f[j] => i = j
    BY <1>1, <1>3, <1>6
  <2>2. f \in Injection(T0, M)
    BY <2>1, <1>6 DEF Injection, IsInjective
  <2> QED
    BY <2>2, <1>7, FS_Injection
<1>9. Cardinality(T) <= Cardinality(T0) + 1 /\ Cardinality(T0) \in Nat
  <2>1. T \subseteq T0 \cup {n}
    OBVIOUS
  <2>2. /\ IsFiniteSet(T0 \cup {n})
        /\ Cardinality(T0 \cup {n}) = Cardinality(T0) + 1
    BY <1>8, FS_AddElement
  <2> QED
    BY <2>1, <2>2, <1>8, FS_Subset, FS_CardinalityType
<1>10. Cardinality(M) + 1 <= FrequencyLimit
  BY <1>2, <1>7, NotRedNotLooping
<1>11. Cardinality(T) \in Nat
  <2>1. IsFiniteSet(1..n) /\ T \in SUBSET (1..n)
    BY <1>1, FS_Interval
  <2> QED
    BY <2>1, FS_Subset, FS_CardinalityType
<1> QED
  BY <1>1, <1>7, <1>8, <1>9, <1>10, <1>11

\* No interleaving of attempts, refusals, resets, price moves and skewed
\* timestamps lets more than FrequencyLimit equal transfers through the
\* window (risk_engine.py evaluate).
THEOREM VelocityBounded == RiskSpec => []VelocityBound
<1>1. RiskInit => VelocityBound
  BY EmptySeq DEF RiskInit, VelocityBound
<1>2. TypeOK /\ RecentLogComplete /\ VelocityBound /\ [RiskNext]_riskVars
        => VelocityBound'
  <2> SUFFICES ASSUME TypeOK, RecentLogComplete, VelocityBound, [RiskNext]_riskVars
               PROVE  VelocityBound'
    OBVIOUS
  <2>1. ASSUME NEW p \in Payments, NEW ts \in (clock - ClockSkew)..clock,
               Evaluate(p, ts)
        PROVE  VelocityBound'
    <3> DEFINE span  == FrequencyWindow - ClockSkew
               R(log, i) ==
                 {j \in 1..i : /\ SameTransfer(log[i].entry, log[j].entry)
                               /\ log[j].entry.timestamp
                                    >= log[i].entry.timestamp - span}
    <3>1. /\ Len(audit_log) \in Nat /\ Len(audit_log') = Len(audit_log) + 1
          /\ \A i \in 1..Len(audit_log) : audit_log'[i] = audit_log[i]
      BY <2>1, EvaluateLogs, IntegerTimestamps
    <3>2. ASSUME NEW i \in 1..Len(audit_log'), audit_log'[i].risk_level # "RED"
          PROVE  Cardinality(R(audit_log', i)) <= FrequencyLimit
      <4>1. CASE i \in 1..Len(audit_log)
        <5>1. \A j \in 1..i : audit_log'[j] = audit_log[j]
          BY <3>1, <4>1
        <5>2. R(audit_log', i) = R(audit_log, i)
          BY <5>1, <4>1
        <5>3. Cardinality(R(audit_log, i)) <= FrequencyLimit
          BY <3>1, <3>2, <4>1 DEF VelocityBound, Repeats
        <5> QED
          BY <5>2, <5>3
      <4>2. CASE i = Len(audit_log) + 1
        BY <2>1, <3>2, <4>2, NothingForgotten, NewVerdictBound
      <4> QED
        BY <3>1, <4>1, <4>2
    <3> QED
      BY <3>2 DEF VelocityBound, Repeats, SameTransfer
  <2>2. ASSUME UNCHANGED audit_log
        PROVE  VelocityBound'
    BY <2>2 DEF VelocityBound, Repeats
  <2>3. ResetCircuitBreaker \/ Tick \/ PriceMoves \/ UNCHANGED riskVars
          => UNCHANGED audit_log
    BY DEF ResetCircuitBreaker, Tick, PriceMoves, riskVars, engineVars
  <2> QED
    BY <2>1, <2>2, <2>3 DEF RiskNext
<1> QED
  BY <1>1, <1>2, TypeCorrect, LogComplete, PTL DEF RiskSpec

-----------------------------------------------------------------------------
(* The freeze.                                                             *)

\* While the breaker is tripped every evaluation comes out RED.
LEMMA TrippedIsRed ==
  ASSUME NEW p, NEW log, circuit_breaker_tripped
  PROVE  RiskLevel(FiredReasons(p, log)) = "RED"
<1>1. "circuit_breaker_frozen" \in FiredReasons(p, log) \cap RedCodes
  BY DEF FiredReasons, When, RedCodes
<1> QED
  BY <1>1 DEF RiskLevel

LEMMA EvaluateKeepsFreeze ==
  ASSUME TypeOK, FreezeEpisode, NEW p \in Payments, NEW ts \in Timestamps, Evaluate(p, ts)
  PROVE  FreezeEpisode'
<1> DEFINE n     == Len(audit_log)
           fired == FiredReasons(p, Prune(recent_tx_log, ts))
           level == RiskLevel(fired)
           Firsts(S) == {k \in S : \A j \in S : k <= j}
<1>1. /\ n \in Nat /\ episode_start \in Nat /\ episode_start <= n
      /\ EpisodeReds \subseteq (episode_start + 1)..n
  BY IntegerTimestamps DEF TypeOK, EpisodeReds
<1>2. /\ Len(audit_log') = n + 1
      /\ \A i \in 1..n : audit_log'[i] = audit_log[i]
      /\ audit_log'[n + 1].risk_level = level
      /\ audit_log'[n + 1].fired_reasons = fired
  BY EvaluateLogsAt
<1>3. /\ episode_start' = episode_start
      /\ circuit_breaker_tripped' =
           (circuit_breaker_tripped \/ (level = "RED" /\ ~circuit_breaker_tripped))
      /\ trip_reasons' = IF level = "RED" /\ ~circuit_breaker_tripped
                         THEN fired ELSE trip_reasons
  BY DEF Evaluate
<1>4. circuit_breaker_tripped => level = "RED"
  BY TrippedIsRed
<1>5. /\ circuit_breaker_tripped <=> EpisodeReds # {}
      /\ \A i \in EpisodeReds : i..n \subseteq EpisodeReds
      /\ trip_reasons = UNION {audit_log[i].fired_reasons : i \in Firsts(EpisodeReds)}
  BY DEF FreezeEpisode
<1> HIDE DEF fired, level
<1>6. EpisodeReds' = EpisodeReds \cup When(level = "RED", n + 1)
  <2>1. EpisodeReds' = {i \in (episode_start + 1)..(n + 1) :
                          audit_log'[i].risk_level = "RED"}
    BY <1>2, <1>3 DEF EpisodeReds
  <2>2. \A i \in (episode_start + 1)..n :
          audit_log'[i].risk_level = "RED" <=> i \in EpisodeReds
    BY <1>1, <1>2 DEF EpisodeReds
  <2>3. (episode_start + 1)..(n + 1) = ((episode_start + 1)..n) \cup {n + 1}
    BY <1>1
  <2>4. EpisodeReds' = EpisodeReds \cup {i \in {n + 1} : level = "RED"}
    BY <2>1, <2>2, <2>3, <1>1, <1>2
  <2> QED
    BY <2>4 DEF When
<1>7. circuit_breaker_tripped' <=> EpisodeReds' # {}
  BY <1>3, <1>5, <1>6 DEF When
<1>8. \A i \in EpisodeReds' : i..Len(audit_log') \subseteq EpisodeReds'
  <2> SUFFICES ASSUME NEW i \in EpisodeReds', NEW k \in i..(n + 1)
               PROVE  k \in EpisodeReds'
    BY <1>2
  <2>1. CASE i \in EpisodeReds
    <3>1. level = "RED"
      BY <2>1, <1>4, <1>5
    <3>2. k \in i..n \/ k = n + 1
      BY <2>1, <1>1
    <3> QED
      BY <2>1, <3>1, <3>2, <1>5, <1>6 DEF When
  <2>2. CASE i \notin EpisodeReds
    <3>1. i = n + 1 /\ level = "RED"
      BY <2>2, <1>6 DEF When
    <3> QED
      BY <3>1, <1>1, <1>6 DEF When
  <2> QED
    BY <2>1, <2>2
<1>9. trip_reasons' =
        UNION {audit_log'[i].fired_reasons : i \in Firsts(EpisodeReds')}
  <2>1. CASE circuit_breaker_tripped
    <3>1. EpisodeReds' = EpisodeReds \cup {n + 1} /\ EpisodeReds # {}
      BY <2>1, <1>4, <1>5, <1>6 DEF When
    <3>2. \A k \in EpisodeReds : k \in 1..n
      BY <1>1
    <3>3. Firsts(EpisodeReds') = Firsts(EpisodeReds)
      <4>1. \A k \in EpisodeReds : k <= n + 1 /\ ~(n + 1 <= k)
        BY <3>2, <1>1
      <4>2. n + 1 \notin Firsts(EpisodeReds')
        BY <3>1, <4>1
      <4>3. \A k \in EpisodeReds :
              k \in Firsts(EpisodeReds') <=> k \in Firsts(EpisodeReds)
        BY <3>1, <4>1
      <4> QED
        BY <3>1, <4>2, <4>3
    <3>4. \A i \in Firsts(EpisodeReds) : audit_log'[i] = audit_log[i]
      BY <3>2, <1>2
    <3>5. trip_reasons' = trip_reasons
      BY <2>1, <1>3
    <3> QED
      BY <3>3, <3>4, <3>5, <1>5
  <2>2. CASE ~circuit_breaker_tripped /\ level = "RED"
    <3>1. EpisodeReds' = {n + 1}
      BY <2>2, <1>5, <1>6 DEF When
    <3>2. Firsts(EpisodeReds') = {n + 1}
      BY <3>1, <1>1
    <3>3. trip_reasons' = fired
      BY <2>2, <1>3
    <3> QED
      BY <3>2, <3>3, <1>2
  <2>3. CASE ~circuit_breaker_tripped /\ level # "RED"
    <3>1. EpisodeReds' = {} /\ EpisodeReds = {}
      BY <2>3, <1>5, <1>6 DEF When
    <3>2. trip_reasons' = trip_reasons
      BY <2>3, <1>3
    <3> QED
      BY <3>1, <3>2, <1>5
  <2> QED
    BY <2>1, <2>2, <2>3
<1> QED
  BY <1>7, <1>8, <1>9 DEF FreezeEpisode

\* A reset starts an episode without RED verdicts, and so without a freeze.
LEMMA ResetEndsFreeze ==
  ASSUME TypeOK, ResetCircuitBreaker
  PROVE  FreezeEpisode'
<1>1. EpisodeReds' = {}
  BY IntegerTimestamps DEF ResetCircuitBreaker, EpisodeReds
<1> QED
  BY <1>1 DEF ResetCircuitBreaker, FreezeEpisode

LEMMA FreezeInit == RiskInit => FreezeEpisode
<1> SUFFICES ASSUME RiskInit PROVE FreezeEpisode
  OBVIOUS
<1>1. Len(audit_log) = 0 /\ episode_start = 0
  BY EmptySeq DEF RiskInit
<1>2. EpisodeReds = {}
  BY <1>1 DEF EpisodeReds
<1> QED
  BY <1>2 DEF FreezeEpisode, RiskInit

\* Once tripped, the breaker refuses everything until it is reset, and says
\* why it tripped (risk_engine.py evaluate and reset_circuit_breaker).
THEOREM FreezeHolds == RiskSpec => []FreezeEpisode
<1>1. RiskInit => FreezeEpisode
  BY FreezeInit
<1>2. TypeOK /\ FreezeEpisode /\ [RiskNext]_riskVars => FreezeEpisode'
  <2> SUFFICES ASSUME TypeOK, FreezeEpisode, [RiskNext]_riskVars
               PROVE  FreezeEpisode'
    OBVIOUS
  <2>1. ASSUME NEW p \in Payments, NEW ts \in (clock - ClockSkew)..clock,
               Evaluate(p, ts)
        PROVE  FreezeEpisode'
    BY <2>1, SkewedTimestamp, EvaluateKeepsFreeze
  <2>2. CASE ResetCircuitBreaker
    BY <2>2, ResetEndsFreeze
  <2>3. ASSUME UNCHANGED engineVars
        PROVE  FreezeEpisode'
    BY <2>3 DEF engineVars, breakerVars, FreezeEpisode, EpisodeReds
  <2>4. Tick \/ PriceMoves \/ UNCHANGED riskVars => UNCHANGED engineVars
    BY DEF Tick, PriceMoves, riskVars
  <2> QED
    BY <2>1, <2>2, <2>3, <2>4 DEF RiskNext
<1> QED
  BY <1>1, <1>2, TypeCorrect, PTL DEF RiskSpec
=============================================================================
