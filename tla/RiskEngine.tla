----------------------------- MODULE RiskEngine -----------------------------
(***************************************************************************)
(* The Auditor's risk engine (policy/risk_engine.py): the velocity log, the *)
(* accumulating circuit breaker and the audit log, evaluated against a     *)
(* clock and a price quote that change underneath it.                      *)
(*                                                                         *)
(* evaluate() is one atomic action: it is synchronous, and the only other   *)
(* party it calls, the rate provider, is called before any state changes.  *)
(* When that call raises StaleRateError the engine is left exactly as it   *)
(* was, which is a stuttering step here; the callers' modules say what     *)
(* they do with the exception.                                             *)
(***************************************************************************)
EXTENDS Policy, Sequences, FiniteSets

CONSTANTS
  Payments,         \* the transfers agents may ask for
  FrequencyWindow,  \* frequency_window_s
  FrequencyLimit,   \* frequency_limit
  ClockSkew,        \* how far behind the clock an intent's timestamp may be
  Rates,            \* the rates the price function may return (0: it failed)
  MaxClock,         \* bound on the clock
  MaxAudits         \* bound on the audit log

ASSUME FrequencyAssumption ==
  FrequencyWindow \in Nat /\ FrequencyLimit \in Nat

ASSUME SkewAssumption == ClockSkew \in Nat

ASSUME RatesAssumption == Rates \subseteq Nat

ASSUME PaymentAssumption ==
  \A p \in Payments : p.amount \in Int

ASSUME BoundAssumption == MaxClock \in Nat /\ MaxAudits \in Nat

VARIABLES
  recent_tx_log,            \* deque of (timestamp, destination, asset, amount)
  circuit_breaker_tripped,
  trip_reasons,
  audit_log,                \* every verdict, in the order it was given
  clock,                    \* time.time()
  quote,                    \* what the price function returns now
  episode_start             \* history: Len(audit_log) at the last reset

breakerVars == <<circuit_breaker_tripped, trip_reasons>>
engineVars  == <<recent_tx_log, breakerVars, audit_log, episode_start>>
marketVars  == <<clock, quote>>
riskVars    == <<engineVars, marketVars>>

Timestamps == (-ClockSkew)..MaxClock

LogEntry(p, ts) ==
  [timestamp |-> ts, destination |-> p.destination,
   asset |-> p.asset, amount |-> p.amount]

-----------------------------------------------------------------------------
RiskInit ==
  /\ recent_tx_log = <<>>
  /\ circuit_breaker_tripped = FALSE
  /\ trip_reasons = {}
  /\ audit_log = <<>>
  /\ clock = 0
  /\ quote \in Quotes(Rates, {0})
  /\ episode_start = 0

\* Mutant: an entry exactly one window old is dropped.
ExpiredAtBoundary(entry, now) == now - entry.timestamp >= FrequencyWindow

\* More than a whole window old; an entry exactly one window old stays.
Expired(entry, now) == now - entry.timestamp > FrequencyWindow

\* Mutant: the first fresh entry is popped as well.
PruneOneTooMany(log, now) ==
  LET first == CHOOSE i \in 1..(Len(log) + 1) :
                 /\ \A j \in 1..(i - 1) : Expired(log[j], now)
                 /\ i <= Len(log) => ~Expired(log[i], now)
  IN  SubSeq(log, first + 1, Len(log))

\* _prune_log pops from the head only while the head itself is expired, so
\* an out-of-order entry behind a fresh head stays in the log.
Prune(log, now) ==
  LET first == CHOOSE i \in 1..(Len(log) + 1) :
                 /\ \A j \in 1..(i - 1) : Expired(log[j], now)
                 /\ i <= Len(log) => ~Expired(log[i], now)
  IN  SubSeq(log, first, Len(log))

SameTransfer(p, entry) ==
  /\ entry.destination = p.destination
  /\ entry.asset = p.asset
  /\ entry.amount = p.amount

Matches(log, p) == {i \in 1..Len(log) : SameTransfer(p, log[i])}

\* The codes the payment fires on its own, before the freeze is considered.
OwnFindings(p, log) ==
  UNION {
    When(ToRlusd(p.asset, p.amount, quote) > AmountThreshold,
         "value_threshold_exceeded"),
    When(p.destination \notin Whitelist, "untrusted_destination"),
    When(Cardinality(Matches(log, p)) + 1 > FrequencyLimit,
         "transaction_loop_detected"),
    RwaFindings(p.rwa) }

\* Mutant: the tripped breaker no longer fires a reason of its own.
FiredReasonsUnfrozen(p, log) == OwnFindings(p, log)

FiredReasons(p, log) ==
  OwnFindings(p, log) \cup
    When(circuit_breaker_tripped, "circuit_breaker_frozen")

\* evaluate(intent) for payment p with intent.timestamp ts.  The attempt is
\* logged whatever the verdict, and only a trip sets trip_reasons.
Evaluate(p, ts) ==
  /\ Len(audit_log) < MaxAudits
  /\ RateUsable(p.asset, quote, clock)
  /\ LET log   == Prune(recent_tx_log, ts)
         fired == FiredReasons(p, log)
         level == RiskLevel(fired)
         trips == level = "RED" /\ ~circuit_breaker_tripped
     IN  /\ recent_tx_log' = Append(log, LogEntry(p, ts))
         /\ circuit_breaker_tripped' = (circuit_breaker_tripped \/ trips)
         /\ trip_reasons' = IF trips THEN fired ELSE trip_reasons
         /\ audit_log' = Append(audit_log,
              [entry |-> LogEntry(p, ts), risk_level |-> level,
               fired_reasons |-> fired])
  /\ UNCHANGED <<episode_start, marketVars>>

\* Mutants: a reset that forgets the attempts, and one that starts a new
\* audit log as well.
ResetForgetsAttempts ==
  /\ circuit_breaker_tripped' = FALSE
  /\ trip_reasons' = {}
  /\ recent_tx_log' = <<>>
  /\ episode_start' = Len(audit_log)
  /\ UNCHANGED <<audit_log, marketVars>>

ResetClearsAuditLog ==
  /\ circuit_breaker_tripped' = FALSE
  /\ trip_reasons' = {}
  /\ audit_log' = <<>>
  /\ episode_start' = Len(audit_log)
  /\ UNCHANGED <<recent_tx_log, marketVars>>

\* reset_circuit_breaker: the freeze is lifted, the velocity log is kept.
ResetCircuitBreaker ==
  /\ circuit_breaker_tripped' = FALSE
  /\ trip_reasons' = {}
  /\ episode_start' = Len(audit_log)
  /\ UNCHANGED <<recent_tx_log, audit_log, marketVars>>

-----------------------------------------------------------------------------
\* External: time passes, and the price function's answer changes.
Tick ==
  /\ clock < MaxClock
  /\ clock' = clock + 1
  /\ UNCHANGED <<engineVars, quote>>

PriceMoves ==
  /\ quote' \in Quotes(Rates, {clock})
  /\ UNCHANGED <<engineVars, clock>>

RiskNext ==
  \/ \E p \in Payments, ts \in (clock - ClockSkew)..clock : Evaluate(p, ts)
  \/ ResetCircuitBreaker
  \/ Tick
  \/ PriceMoves

RiskSpec == RiskInit /\ [][RiskNext]_riskVars

-----------------------------------------------------------------------------
Entries ==
  [timestamp : Timestamps, destination : {p.destination : p \in Payments},
   asset : {p.asset : p \in Payments}, amount : {p.amount : p \in Payments}]

Verdicts ==
  [entry : Entries, risk_level : RiskLevels, fired_reasons : SUBSET ReasonCodes]

\* Type invariant of the engine's state.
TypeOK ==
  /\ recent_tx_log \in Seq(Entries)
  /\ circuit_breaker_tripped \in BOOLEAN
  /\ trip_reasons \in SUBSET ReasonCodes
  /\ audit_log \in Seq(Verdicts)
  /\ clock \in 0..MaxClock
  /\ quote \in Quotes(Rates, 0..MaxClock)
  /\ episode_start \in 0..Len(audit_log)

\* The velocity log is complete (risk_engine.py evaluate, _prune_log): it is
\* the latest part of what was audited, in that order and refused attempts
\* included, and whatever was audited before it is older than the window.
RecentLogComplete ==
  LET dropped == Len(audit_log) - Len(recent_tx_log)
  IN  /\ dropped >= 0
      /\ \A i \in 1..Len(recent_tx_log) :
           recent_tx_log[i] = audit_log[dropped + i].entry
      /\ \A i \in 1..dropped : Expired(audit_log[i].entry, clock)

\* The verdicts up to i on the transfer of verdict i whose timestamps are at
\* most span seconds older than its own, verdict i included.
Repeats(i, span) ==
  {j \in 1..i : /\ SameTransfer(audit_log[i].entry, audit_log[j].entry)
                /\ audit_log[j].entry.timestamp
                     >= audit_log[i].entry.timestamp - span}

\* Velocity (risk_engine.py _prune_log, evaluate): a verdict that is not RED
\* is at most the FrequencyLimit-th attempt at that transfer in the window
\* before it, refused attempts counted, resets and price moves in between
\* notwithstanding.  Timestamps that run up to ClockSkew seconds behind the
\* clock may cost the window that many seconds, and never more.
VelocityBound ==
  \A i \in 1..Len(audit_log) :
    audit_log[i].risk_level # "RED" =>
      Cardinality(Repeats(i, FrequencyWindow - ClockSkew)) <= FrequencyLimit

\* The RED verdicts given since the last reset.
EpisodeReds ==
  {i \in (episode_start + 1)..Len(audit_log) : audit_log[i].risk_level = "RED"}

\* Freeze (evaluate's breaker, reset_circuit_breaker): within one episode,
\* that is since the last reset, the breaker is tripped exactly when some
\* verdict was RED; every verdict after the first RED one is RED; and
\* trip_reasons are the reasons of that first verdict, whatever fired later.
FreezeEpisode ==
  /\ circuit_breaker_tripped <=> EpisodeReds # {}
  /\ \A i \in EpisodeReds : i..Len(audit_log) \subseteq EpisodeReds
  /\ trip_reasons =
       UNION {audit_log[i].fired_reasons :
                i \in {k \in EpisodeReds : \A j \in EpisodeReds : k <= j}}
=============================================================================
