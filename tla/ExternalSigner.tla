---------------------------- MODULE ExternalSigner ----------------------------
(***************************************************************************)
(* QuorumVaultExternalSigner (integrations/external_signer.py) over its     *)
(* risk engine, tier router, treasury guard, identity verifier, quorum of  *)
(* signing backends and alert sink.                                        *)
(*                                                                         *)
(* sign() is synchronous and takes one call at a time, but nearly every     *)
(* step of it waits for a network read, so each read is an action of its   *)
(* own: between any two of them the ledger's governance and credentials,   *)
(* the price, the clock and the breaker may change.                        *)
(*                                                                         *)
(* What a read of the compliance reader returns is any RWA context listed   *)
(* in Payments for that transfer; an identity check reads the ledger once. *)
(***************************************************************************)
EXTENDS RiskEngine, TreasuryGuard

CONSTANTS
  Txs,              \* the transactions the agent may submit
  SignableTypes,    \* signable_transaction_types
  Backends,         \* the quorum's backends, in signing order
  ExpectedSigners,  \* expected_signers
  ExpectedQuorum,   \* expected_signer_quorum
  Subjects,         \* identity_subjects, sorted
  Wirings,          \* which optional dependencies a deployment injects
  Accounts,         \* the configurations the treasury account may have
  MaxChanges        \* bound on governance and credential changes

ASSUME TxAssumption ==
  \A t \in Txs : \A p \in Payments :
    SameTransfer(p, LogEntry(t, 0)) => (p.rwa.is_rwa <=> t.asset = "MPT")

\* A transaction is a dict with a type and, for a payment, what it moves.
ASSUME TxShapeAssumption ==
  \A t \in Txs : DOMAIN t = {"type", "form", "destination", "asset", "amount"}

\* backends and identity_subjects are sequences, each in a fixed order.
ASSUME OrderAssumption ==
  /\ Backends \in Seq({Backends[i] : i \in DOMAIN Backends})
  /\ Subjects \in Seq({Subjects[i] : i \in DOMAIN Subjects})

\* The ledger's quorums and weights are unsigned integers.
ASSUME WeightAssumption ==
  /\ ExpectedQuorum \in Nat
  /\ \A a \in Accounts : \A i \in 1..Len(a.signer_lists) :
       /\ a.signer_lists[i].quorum \in Nat
       /\ \A e \in a.signer_lists[i].entries : e.weight \in Nat

ASSUME ChangeAssumption == MaxChanges \in Nat

VARIABLES
  call,           \* the call in progress, or NoCall
  last_decision,  \* the decision of the latest call, or NoDecision
  alerts,         \* what the alert sink was told in the latest call
  outcome,        \* how the latest call ended: "signed", "refused", "raised"
  error,          \* what it raised: an exception other than a refusal
  wiring,         \* the dependencies injected into this signer
  account,        \* external: the treasury account on the ledger
  credentialed,   \* external: the subjects that hold a valid credential
  changes,        \* bound: ledger changes so far
  released,       \* history: every signature released and its verdict
  call_start,     \* history: Len(audit_log) when the latest call began
  seen_intact,    \* history: the account was safe at some instant of the call
  seen_valid      \* history: the subjects credentialed at such an instant

resultVars  == <<last_decision, alerts, outcome, error>>
ledgerVars  == <<account, credentialed, changes>>
seenVars    == <<seen_intact, seen_valid>>
historyVars == <<released, call_start>>
signerVars  == <<call, resultVars, wiring, ledgerVars, seenVars, historyVars>>
vars        == <<riskVars, signerVars>>

None == [none |-> TRUE]

NoCall ==
  [stage |-> "idle", tx |-> None, payment |-> None, ts |-> 0,
   tier |-> "none", pending |-> <<>>]

NoDecision == [tier |-> "none", risk_level |-> "none", fired_reasons |-> {}]

Refused(reason) ==
  [tier |-> "refused", risk_level |-> "REFUSED", fired_reasons |-> {reason}]

InCall(stage) == call.stage = stage

\* The ledger as the properties see it: no key moves the treasury's funds
\* alone, and no account but the expected signers counts towards the quorum.
Intact(a) ==
  /\ LoneAuthorities(a) = {}
  /\ \A i \in 1..Len(a.signer_lists) :
       {e.account : e \in a.signer_lists[i].entries} \subseteq ExpectedSigners

-----------------------------------------------------------------------------
(* How a call ends.                                                        *)

\* An ExternalSignerRefused leaves sign(): the sink, when there is one, is
\* notified with the decision recorded so far, else with a generic refusal.
\* A sink that fails only warns, so its answer changes nothing.
Refuse(decision) ==
  /\ call' = NoCall
  /\ outcome' = "refused"
  /\ error' = "none"
  /\ last_decision' = decision
  /\ alerts' = IF ~wiring.sink THEN alerts
               ELSE Append(alerts, IF decision = NoDecision
                                   THEN Refused("untyped") ELSE decision)

\* Any other exception leaves sign() past the alert.
Raise(kind) ==
  /\ call' = NoCall
  /\ outcome' = "raised"
  /\ error' = kind
  /\ UNCHANGED <<last_decision, alerts>>

\* Mutant: the call is not over once its signature was returned.
ReleaseAgain ==
  /\ UNCHANGED call
  /\ outcome' = "signed"
  /\ error' = "none"
  /\ Len(released) < MaxAudits
  /\ released' = Append(released, [tx |-> call.tx, verdict |-> Len(audit_log)])
  /\ UNCHANGED <<last_decision, alerts, call_start>>

\* The transaction multisigned by every backend is returned.
Release ==
  /\ call' = NoCall
  /\ outcome' = "signed"
  /\ error' = "none"
  /\ released' = Append(released, [tx |-> call.tx, verdict |-> Len(audit_log)])
  /\ UNCHANGED <<last_decision, alerts, call_start>>

Advance(stage, pending) ==
  /\ call' = [call EXCEPT !.stage = stage, !.pending = pending]
  /\ UNCHANGED resultVars

-----------------------------------------------------------------------------
SignerInit ==
  /\ RiskInit
  /\ call = NoCall
  /\ last_decision = NoDecision
  /\ alerts = <<>>
  /\ outcome = "none"
  /\ error = "none"
  /\ wiring \in Wirings
  /\ account \in Accounts
  /\ credentialed \in SUBSET {Subjects[i] : i \in 1..Len(Subjects)}
  /\ changes = 0
  /\ released = <<>>
  /\ call_start = 0
  /\ seen_intact = FALSE
  /\ seen_valid = {}

\* Mutant: the decision of the call before is not forgotten.
SignKeepsDecision(t) ==
  /\ InCall("idle")
  /\ Len(audit_log) < MaxAudits
  /\ call' = [NoCall EXCEPT !.stage = "intent", !.tx = t]
  /\ alerts' = <<>>
  /\ outcome' = "none"
  /\ error' = "none"
  /\ call_start' = Len(audit_log)
  /\ seen_intact' = Intact(account)
  /\ seen_valid' = credentialed
  /\ UNCHANGED <<riskVars, last_decision, wiring, ledgerVars, released>>

\* sign(tx): the decision of the call before is forgotten first.
Sign(t) ==
  /\ InCall("idle")
  /\ Len(audit_log) < MaxAudits
  /\ call' = [NoCall EXCEPT !.stage = "intent", !.tx = t]
  /\ last_decision' = NoDecision
  /\ alerts' = <<>>
  /\ outcome' = "none"
  /\ error' = "none"
  /\ call_start' = Len(audit_log)
  /\ seen_intact' = Intact(account)
  /\ seen_valid' = credentialed
  /\ UNCHANGED <<riskVars, wiring, ledgerVars, released>>

\* Default-deny on the transaction type, before anything is evaluated.
RefuseType ==
  /\ InCall("intent")
  /\ call.tx.type \notin SignableTypes
  /\ Refuse(Refused("unsupported_transaction_type"))
  /\ UNCHANGED <<riskVars, wiring, ledgerVars, seenVars, historyVars>>

\* _intent_from_tx cannot read the payment, or may not read its compliance.
\* An MPT amount is parsed only after the compliance context was resolved.
Unreadable(t) ==
  \/ t.form \in {"no_destination", "unrecognized_amount"}
  \/ t.asset = "MPT" /\ ~wiring.reader
  \/ t.form = "garbled_amount"

RefuseIntent ==
  /\ InCall("intent")
  /\ call.tx.type \in SignableTypes
  /\ Unreadable(call.tx)
  /\ Refuse(last_decision)
  /\ UNCHANGED <<riskVars, wiring, ledgerVars, seenVars, historyVars>>

\* resolve() fails: ComplianceReadError is not a refusal.
ComplianceReadFails ==
  /\ InCall("intent")
  /\ call.tx.type \in SignableTypes
  /\ call.tx.asset = "MPT"
  /\ call.tx.form \in {"ok", "garbled_amount"}
  /\ wiring.reader
  /\ Raise("ComplianceReadError")
  /\ UNCHANGED <<riskVars, wiring, ledgerVars, seenVars, historyVars>>

\* The intent is stamped with the time at which it is complete.
BuildIntent ==
  /\ InCall("intent")
  /\ call.tx.type \in SignableTypes
  /\ ~Unreadable(call.tx)
  /\ \E p \in Payments :
       /\ SameTransfer(p, LogEntry(call.tx, clock))
       /\ call' = [call EXCEPT !.stage = "route", !.payment = p, !.ts = clock]
  /\ UNCHANGED <<riskVars, resultVars, wiring, ledgerVars, seenVars,
                 historyVars>>

\* router.route, which values the payment unless it is an RWA transfer.
RouteTier ==
  /\ InCall("route")
  /\ \/ /\ ~wiring.router
        /\ call' = [call EXCEPT !.stage = "evaluate", !.tier = "quorum_backstop"]
        /\ UNCHANGED resultVars
     \/ /\ wiring.router
        /\ RateUsable(call.payment.asset, quote, clock)
        /\ call' = [call EXCEPT !.stage = "evaluate",
                                !.tier = Route(call.payment, quote)]
        /\ UNCHANGED resultVars
     \/ /\ wiring.router
        /\ ~RateUsable(call.payment.asset, quote, clock)
        /\ Raise("StaleRateError")
  /\ UNCHANGED <<riskVars, wiring, ledgerVars, seenVars, historyVars>>

\* risk.evaluate: the verdict becomes the decision, and only GREEN goes on.
EvaluateCall ==
  /\ InCall("evaluate")
  /\ Evaluate(call.payment, call.ts)
  /\ LET verdict  == audit_log'[Len(audit_log')]
         decision == [tier |-> call.tier, risk_level |-> verdict.risk_level,
                      fired_reasons |-> verdict.fired_reasons]
     IN  IF verdict.risk_level = "GREEN"
         THEN /\ call' = [call EXCEPT !.stage = "treasury"]
              /\ last_decision' = decision
              /\ UNCHANGED <<alerts, outcome, error>>
         ELSE Refuse(decision)
  /\ UNCHANGED <<wiring, ledgerVars, seenVars, historyVars>>

\* The engine values the payment itself, and the price may be gone by now.
EvaluateRaises ==
  /\ InCall("evaluate")
  /\ ~RateUsable(call.payment.asset, quote, clock)
  /\ Raise("StaleRateError")
  /\ UNCHANGED <<riskVars, wiring, ledgerVars, seenVars, historyVars>>

\* _verify_treasury_config: a violation or a failed read refuses; without a
\* guard the call goes on with a warning.
VerifyTreasury ==
  /\ InCall("treasury")
  /\ \/ /\ wiring.guard => ConfigAccepted(account, ExpectedSigners, ExpectedQuorum)
        /\ Advance("identity", IF wiring.verifier THEN Subjects ELSE <<>>)
     \/ /\ wiring.guard
        /\ Refuse(Refused("treasury_config_violation"))
  /\ UNCHANGED <<riskVars, wiring, ledgerVars, seenVars, historyVars>>

\* Mutant: one valid subject is enough.
VerifyIdentityAny ==
  /\ InCall("identity")
  /\ \/ /\ call.pending = <<>>
        /\ Advance("multisign", Backends)
     \/ /\ call.pending # <<>>
        /\ Head(call.pending) \in credentialed
        /\ Advance("identity", <<>>)
     \/ /\ call.pending # <<>>
        /\ Refuse(Refused("agent_identity_unverified"))
  /\ UNCHANGED <<riskVars, wiring, ledgerVars, seenVars, historyVars>>

\* _verify_agent_identity, one subject after the other; a failed read refuses
\* as an invalid credential does.
VerifyIdentity ==
  /\ InCall("identity")
  /\ \/ /\ call.pending = <<>>
        /\ Advance("multisign", Backends)
     \/ /\ call.pending # <<>>
        /\ Head(call.pending) \in credentialed
        /\ Advance("identity", Tail(call.pending))
     \/ /\ call.pending # <<>>
        /\ Refuse(Refused("agent_identity_unverified"))
  /\ UNCHANGED <<riskVars, wiring, ledgerVars, seenVars, historyVars>>

\* Mutant: when a backend fails the quorum is asked all over again.
BackendRetries ==
  /\ InCall("multisign")
  /\ call.pending # <<>>
  /\ \/ Advance("multisign", Tail(call.pending))
     \/ Advance("multisign", Backends)
  /\ UNCHANGED <<riskVars, wiring, ledgerVars, seenVars, historyVars>>

\* QuorumSigner.multisign, one backend (keystore, HSM, KMS) after the other;
\* the first to fail ends the call with its exception.
BackendSigns ==
  /\ InCall("multisign")
  /\ call.pending # <<>>
  /\ \/ Advance("multisign", Tail(call.pending))
     \/ Raise("BackendError")
  /\ UNCHANGED <<riskVars, wiring, ledgerVars, seenVars, historyVars>>

ReturnSigned ==
  /\ InCall("multisign")
  /\ call.pending = <<>>
  /\ Release
  /\ UNCHANGED <<riskVars, wiring, ledgerVars, seenVars>>

CallStep ==
  \/ RefuseType \/ RefuseIntent \/ ComplianceReadFails \/ BuildIntent
  \/ RouteTier \/ EvaluateCall \/ EvaluateRaises
  \/ VerifyTreasury \/ VerifyIdentity \/ BackendSigns \/ ReturnSigned

-----------------------------------------------------------------------------
(* The world around a call.                                                *)

\* What the properties remember of the ledger, while a call is in progress.
Observe ==
  IF InCall("idle") THEN UNCHANGED seenVars
  ELSE /\ seen_intact' = (seen_intact \/ Intact(account'))
       /\ seen_valid' = seen_valid \cup credentialed'

\* External: a governance transaction changes the treasury account.
GovernanceChange ==
  /\ changes < MaxChanges
  /\ changes' = changes + 1
  /\ account' \in Accounts \ {account}
  /\ UNCHANGED credentialed
  /\ Observe
  /\ UNCHANGED <<riskVars, call, resultVars, wiring, historyVars>>

\* External: a credential is accepted, deleted, or expires.
CredentialChange ==
  /\ changes < MaxChanges
  /\ changes' = changes + 1
  /\ \E i \in 1..Len(Subjects) :
       credentialed' = IF Subjects[i] \in credentialed
                       THEN credentialed \ {Subjects[i]}
                       ELSE credentialed \cup {Subjects[i]}
  /\ UNCHANGED account
  /\ Observe
  /\ UNCHANGED <<riskVars, call, resultVars, wiring, historyVars>>

\* The two price reads between the intent and the evaluation have timeouts,
\* so an intent is never more than ClockSkew seconds old when evaluated.
TimePasses ==
  /\ call.stage \in {"route", "evaluate"} => clock + 1 - call.ts <= ClockSkew
  /\ Tick
  /\ UNCHANGED signerVars

PriceChange == PriceMoves /\ UNCHANGED signerVars

HumanReset == ResetCircuitBreaker /\ UNCHANGED signerVars

Environment ==
  \/ GovernanceChange \/ CredentialChange \/ TimePasses \/ PriceChange
  \/ HumanReset

SignerNext ==
  \/ \E t \in Txs : Sign(t)
  \/ CallStep
  \/ Environment

SignerSpec == SignerInit /\ [][SignerNext]_vars

\* sign() never waits without a timeout, so a call in progress takes steps.
\* Nothing is assumed of the agent, the ledger, the clock or the price.
FairSignerSpec == SignerSpec /\ WF_vars(CallStep)
-----------------------------------------------------------------------------
Stages == {"idle", "intent", "route", "evaluate", "treasury", "identity",
           "multisign"}

SubjectSet == {Subjects[i] : i \in 1..Len(Subjects)}

\* The verdict the call in progress, or the latest call, got from the engine.
Judged == Len(audit_log) > call_start

\* Type invariant of the signer and its engine.
SignerTypeOK ==
  /\ TypeOK
  /\ call.stage \in Stages
  /\ call.tx \in Txs \cup {None}
  /\ call.payment \in Payments \cup {None}
  /\ call.ts \in 0..clock
  /\ call.tier \in Tiers \cup {"none"}
  /\ \E whole \in {Subjects, Backends, <<>>} :
       \E n \in 0..Len(whole) : call.pending = SubSeq(whole, n + 1, Len(whole))
  /\ last_decision.tier \in Tiers \cup {"none", "refused"}
  /\ last_decision.risk_level \in RiskLevels \cup {"none", "REFUSED"}
  /\ Len(alerts) <= 1
  /\ outcome \in {"none", "signed", "refused", "raised"}
  /\ error \in {"none", "ComplianceReadError", "StaleRateError", "BackendError"}
  /\ wiring \in Wirings
  /\ account \in Accounts
  /\ credentialed \in SUBSET SubjectSet
  /\ changes \in 0..MaxChanges
  /\ \A k \in 1..Len(released) :
       released[k].tx \in Txs /\ released[k].verdict \in 1..Len(audit_log)
  /\ call_start \in 0..Len(audit_log)
  /\ seen_intact \in BOOLEAN
  /\ seen_valid \in SUBSET SubjectSet

\* What stands behind a signature (external_signer.py _sign): it is for the
\* transfer judged in this very call, the verdict was GREEN, and during the
\* call, not before it, there was an instant when no key could move the
\* treasury's funds alone and, for each subject, one when its credential was
\* valid.  A check whose dependency is not wired promises nothing.
ReleasedOnLiveReads ==
  outcome = "signed" =>
    LET latest == released[Len(released)]
    IN  /\ Judged /\ latest.verdict = Len(audit_log)
        /\ audit_log[latest.verdict].risk_level = "GREEN"
        /\ SameTransfer(latest.tx, audit_log[latest.verdict].entry)
        /\ latest.tx.type \in SignableTypes
        /\ wiring.guard => seen_intact
        /\ wiring.verifier => seen_valid = SubjectSet

\* Alerts (sign, _alert_refusal): a refused call tells the sink exactly once,
\* a call that signs or raises anything else never does, and the alert is of
\* that call: it shows the engine's own non-GREEN verdict on it, or REFUSED
\* when another gate refused, and never a decision of an earlier call.
AlertFidelity ==
  /\ InCall("idle") =>
       Len(alerts) = IF outcome = "refused" /\ wiring.sink THEN 1 ELSE 0
  /\ \A i \in 1..Len(alerts) :
       \/ alerts[i].risk_level = "REFUSED"
       \/ /\ Judged
          /\ alerts[i].risk_level = audit_log[Len(audit_log)].risk_level
          /\ alerts[i].fired_reasons = audit_log[Len(audit_log)].fired_reasons
          /\ alerts[i].fired_reasons # {}

\* Velocity of the funds (sign over the engine's log): within the window no
\* transfer is signed more than FrequencyLimit times, whatever refusals,
\* failures and resets lie between, and no verdict is used for two signatures.
ReleaseVelocity ==
  \A k \in 1..Len(released) :
    LET stamp(m) == audit_log[released[m].verdict].entry.timestamp
    IN  /\ \A m \in 1..(k - 1) : released[m].verdict < released[k].verdict
        /\ Cardinality({m \in 1..k :
             /\ SameTransfer(released[m].tx, LogEntry(released[k].tx, 0))
             /\ stamp(m) >= stamp(k) - (FrequencyWindow - ClockSkew)})
             <= FrequencyLimit

\* No signature leaves the signer while the breaker is tripped
\* (risk_engine.py evaluate, external_signer.py _sign).
NoReleaseWhileFrozen ==
  [][released' # released => ~circuit_breaker_tripped]_vars

\* Every call ends (sign), whatever the ledger and the price do meanwhile.
CallEnds == call.stage # "idle" ~> call.stage = "idle"

\* price_feed.py PriceFeedError says that the risk engine and the tier router
\* already catch StaleRateError, and sign() that it raises a refusal for an
\* un-valuable transaction.
StaleRateIsRefusal == error # "StaleRateError"

-----------------------------------------------------------------------------
(* The signer implements the gated signing of GatedSigning.                *)

PassedGates ==
  CASE call.stage = "treasury"  -> {"verdict"}
    [] call.stage = "identity"  -> {"verdict", "treasury"}
    [] call.stage = "multisign" -> {"verdict", "treasury", "identity"}
    [] OTHER                    -> {}

Abstract == INSTANCE GatedSigning WITH
  Requests  <- Txs,
  Gates     <- {"verdict", "treasury", "identity"},
  NoRequest <- None,
  request   <- call.tx,
  passed    <- PassedGates,
  released  <- [t \in Txs |->
                  Cardinality({k \in 1..Len(released) : released[k].tx = t})]

\* sign() releases a transaction at most once per call, and only after the
\* verdict, the treasury guard and the identity check of that same call.
ImplementsGatedSigning == Abstract!GatedSpec
=============================================================================
