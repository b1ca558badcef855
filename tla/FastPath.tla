------------------------------- MODULE FastPath -------------------------------
(***************************************************************************)
(* VelocityBoundedFastPath (tiers/fast_path.py): mid-value payments are      *)
(* approved without a review while their value and their number stay        *)
(* bounded.                                                                *)
(*                                                                         *)
(* build_expiring_payment reads and changes no state of the object: it makes *)
(* a payment of any intent and any ledger index, whatever evaluate() decided. *)
(* Nothing holds a payment to its approval, so the last_ledger_sequence of a *)
(* decision, which nothing reads, is left out.                              *)
(***************************************************************************)
EXTENDS Policy, Sequences, FiniteSets

CONSTANTS
  Intents,          \* the payments asked for: [asset, amount]
  MidValueCap,      \* mid_value_cap_rlusd
  FrequencyWindow,  \* frequency_window_s
  FrequencyLimit,   \* frequency_limit
  ClockSkew,        \* how far behind the clock an intent's timestamp may be
  Rates,            \* the rates the price function may return (0: it failed)
  MaxClock,         \* bound on the clock
  MaxDecisions      \* bound on decisions

ASSUME FastPathLimitAssumption ==
  /\ FrequencyWindow \in Nat /\ FrequencyLimit \in Nat /\ ClockSkew \in Nat
  /\ MidValueCap \in Int

VARIABLES
  recent,     \* deque of the timestamps of the approvals
  decisions,  \* history: every decision, in the order it was taken
  clock,      \* time.time()
  quote       \* what the price function returns now

fastVars == <<recent, decisions, clock, quote>>

-----------------------------------------------------------------------------
FastInit ==
  /\ recent = <<>> /\ decisions = <<>>
  /\ clock = 0
  /\ quote \in Quotes(Rates, {0})

\* Mutant: an approval exactly one window old is dropped.
FreshBefore(ts, now) == now - ts < FrequencyWindow

\* _prune pops expired timestamps from the head only.
Fresh(ts, now) == now - ts <= FrequencyWindow

Prune(log, now) ==
  LET fresh == {i \in 1..Len(log) : Fresh(log[i], now)}
  IN  IF fresh = {} THEN <<>>
      ELSE SubSeq(log, CHOOSE i \in fresh : \A j \in fresh : i <= j, Len(log))

\* What is remembered of a decision.
Decision(ts, reason) == [timestamp |-> ts, reason |-> reason]

\* One more approval would exceed the limit.
Full(log) == Len(log) + 1 > FrequencyLimit

\* evaluate(intent, current_ledger_index): a payment above the cap leaves the
\* log alone, one beyond the limit prunes it, and only approvals are logged.
Evaluate(intent, ts) ==
  LET value == ToRlusd(intent.asset, intent.amount, quote)
      log   == Prune(recent, ts)
  IN  /\ Len(decisions) < MaxDecisions
      /\ RateUsable(intent.asset, quote, clock)
      /\ \/ /\ value > MidValueCap
            /\ decisions' = Append(decisions, Decision(ts, "exceeds_fast_path_ceiling"))
            /\ UNCHANGED recent
         \/ /\ value <= MidValueCap
            /\ Full(log)
            /\ decisions' = Append(decisions, Decision(ts, "fast_path_velocity_exceeded"))
            /\ recent' = log
         \/ /\ value <= MidValueCap
            /\ ~Full(log)
            /\ decisions' = Append(decisions, Decision(ts, "auto_cosign_mid_value"))
            /\ recent' = Append(log, ts)
      /\ UNCHANGED <<clock, quote>>

-----------------------------------------------------------------------------
Tick ==
  /\ clock < MaxClock
  /\ clock' = clock + 1
  /\ UNCHANGED <<recent, decisions, quote>>

PriceMoves ==
  /\ quote' \in Quotes(Rates, {clock})
  /\ UNCHANGED <<recent, decisions, clock>>

FastNext ==
  \/ \E intent \in Intents, ts \in (clock - ClockSkew)..clock : Evaluate(intent, ts)
  \/ Tick
  \/ PriceMoves

FastSpec == FastInit /\ [][FastNext]_fastVars

-----------------------------------------------------------------------------
Approved(i) == decisions[i].reason = "auto_cosign_mid_value"

\* The approvals up to decision i with a timestamp in a span before its own.
Approvals(i, span) ==
  {j \in 1..i : /\ Approved(j)
                /\ decisions[j].timestamp >= decisions[i].timestamp - span}

\* The velocity limit cuts both ways (evaluate, _prune): an approval is at
\* most the FrequencyLimit-th of its window, and a payment is escalated for
\* its velocity only if the window before it was full.  Late timestamps make
\* the window at most ClockSkew seconds shorter, or longer: the log is pruned
\* from its head only, and in the order of the calls.
FastPathVelocity ==
  \A i \in 1..Len(decisions) :
    /\ Approved(i) =>
         Cardinality(Approvals(i, FrequencyWindow - ClockSkew)) <= FrequencyLimit
    /\ decisions[i].reason = "fast_path_velocity_exceeded" =>
         Cardinality(Approvals(i, FrequencyWindow + ClockSkew)) >= FrequencyLimit
=============================================================================
