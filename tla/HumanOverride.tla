----------------------------- MODULE HumanOverride -----------------------------
(***************************************************************************)
(* The human-override path of the blueprint                                *)
(* (legacy/xrpl_auditor_production_blueprint.py), over a risk engine that    *)
(* behaves as RiskEngine does on transfers without RWA context: Signature_2, *)
(* tokens that a human issues over an action hash, and the two places that  *)
(* take one, network_broadcast and reset_circuit_breaker.                   *)
(*                                                                         *)
(* A transaction is its canonical message: its tx_id, what it pays, and the   *)
(* timestamp its maker gave it.  A signature or token is an HMAC over what it *)
(* is bound to, so here it is that: a transaction, or a hash.  All of them    *)
(* stay valid for ever, and whoever was given one may present it at any       *)
(* later time, or leave it out.                                             *)
(***************************************************************************)
EXTENDS RiskEngine

CONSTANTS
  Transactions,   \* what agents may propose: [tx_id, payment, timestamp]
  MaxTokens       \* bound on the tokens issued

ASSUME TokensAssumption == MaxTokens \in Nat

\* Transfers carry no RWA context; a timestamp is any the agent likes.
ASSUME TransactionsAssumption ==
  \A tx \in Transactions :
    /\ tx.payment \in Payments /\ tx.payment.rwa = NoRwa
    /\ tx.timestamp \in Timestamps

\* XRP_TO_RLUSD_RATE is a positive constant of the class.
ASSUME ConstantRateAssumption == \A rate \in Rates : rate > 0

VARIABLES
  reviewed,    \* the transaction of each verdict in audit_log
  cosigned,    \* transactions with a Signature_2
  tokens,      \* what tokens were issued over, and in which state
  broadcast,   \* history: the latest broadcast, its authority and audit_log length
  resets       \* history: audit_log lengths at issue and at reset, per reset

overrideVars == <<reviewed, cosigned, tokens, broadcast, resets>>
vars         == <<riskVars, overrideVars>>

None == [by |-> "nobody"]

\* RiskTelemetryEngine.evaluate: the rules, the freeze and the log are those
\* of RiskEngine, at a constant rate.
EvaluateTransaction(tx) == Evaluate(tx.payment, tx.timestamp)

\* Mutant: the reset hash does not depend on the audit log.
ResetHashOfReasons == <<"RESET", Cardinality(trip_reasons)>>

\* request_reset_hash: "the current freeze episode".
ResetHash == <<"RESET", Cardinality(trip_reasons), Len(audit_log)>>

\* Mutant: the hash leaves out which of several like transactions it is.
TxHashOfTransfer(tx) == <<"TX", [tx EXCEPT !.tx_id = "any"]>>

\* compute_tx_hash, over the canonical message.
TxHash(tx) == <<"TX", tx>>

\* What a human has seen when issuing a token.
Token(hash) ==
  [hash |-> hash, audits |-> Len(audit_log), episode |-> episode_start]

-----------------------------------------------------------------------------
OverrideInit ==
  /\ RiskInit
  /\ reviewed = <<>>
  /\ cosigned = {}
  /\ tokens = {}
  /\ broadcast = None
  /\ resets = {}

\* review_and_cosign: any transaction, any number of times, each evaluated
\* anew and signed only when GREEN; an earlier Signature_2 stays valid.
ReviewAndCosign(tx) ==
  /\ EvaluateTransaction(tx)
  /\ reviewed' = Append(reviewed, tx)
  /\ cosigned' = IF audit_log'[Len(audit_log')].risk_level \in {"YELLOW", "RED"}
                 THEN cosigned ELSE cosigned \cup {tx}
  /\ UNCHANGED <<tokens, broadcast, resets>>

\* The officer issues a token over a transaction's hash, or over the reset
\* hash of this moment.
IssueOverride(hash) ==
  /\ Cardinality(tokens) < MaxTokens
  /\ tokens' = tokens \cup {Token(hash)}
  /\ UNCHANGED <<riskVars, reviewed, cosigned, broadcast, resets>>

Broadcast(tx, by) ==
  /\ broadcast' = [tx |-> tx, by |-> by, audits |-> Len(audit_log)]
  /\ UNCHANGED <<riskVars, reviewed, cosigned, tokens, resets>>

\* network_broadcast, given Signature_1, which the execution agent puts on
\* anything: with a valid Signature_2; or without one, whether it was withheld
\* or only not presented, and a token over this transaction.  Otherwise it
\* raises MissingSignaturesError.  Neither the freeze nor a verdict is asked.
NetworkBroadcast(tx) ==
  \/ tx \in cosigned /\ Broadcast(tx, "2-of-2")
  \/ (\E t \in tokens : t.hash = TxHash(tx)) /\ Broadcast(tx, "override")

\* reset_circuit_breaker with a token over the reset hash of now.
ResetWithToken(t) ==
  /\ t.hash = ResetHash
  /\ ResetCircuitBreaker
  /\ resets' = resets \cup
       {[token |-> t, audits |-> Len(audit_log), episode |-> episode_start,
         frozen |-> circuit_breaker_tripped]}
  /\ UNCHANGED <<reviewed, cosigned, tokens, broadcast>>

OverrideNext ==
  \/ \E tx \in Transactions :
       ReviewAndCosign(tx) \/ IssueOverride(TxHash(tx)) \/ NetworkBroadcast(tx)
  \/ IssueOverride(ResetHash)
  \/ \E t \in tokens : ResetWithToken(t)

OverrideSpec == OverrideInit /\ [][OverrideNext]_vars

-----------------------------------------------------------------------------
\* A verdict of the first n that cleared the transaction.
Cleared(tx, n) ==
  \E i \in 1..n : reviewed[i] = tx /\ audit_log[i].risk_level = "GREEN"

\* Nothing is broadcast without its authority (review_and_cosign,
\* network_broadcast), however often it was reviewed and whichever of its
\* signatures and tokens were presented: with two signatures, the engine had
\* cleared this very transaction, which then pays a trusted destination no
\* more than the threshold; by override, a human had issued a token over it,
\* never over another transaction or over a reset.
BroadcastAuthorized ==
  /\ broadcast.by = "2-of-2" =>
       LET p == broadcast.tx.payment
       IN  /\ Cleared(broadcast.tx, broadcast.audits)
           /\ p.destination \in Whitelist
           /\ ToRlusd(p.asset, p.amount, quote) <= AmountThreshold
  /\ broadcast.by = "override" =>
       \E t \in tokens : /\ t.hash = <<"TX", broadcast.tx>>
                         /\ t.audits <= broadcast.audits

\* A reset is bound to its freeze episode (request_reset_hash): the token
\* that lifts a freeze was issued in that same episode, and nothing was
\* evaluated, and so nothing violated, after the human issued it.
ResetBoundToEpisode ==
  \A r \in resets :
    r.frozen => /\ r.token.episode = r.episode
                /\ r.token.audits = r.audits
=============================================================================
