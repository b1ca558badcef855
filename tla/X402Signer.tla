------------------------------ MODULE X402Signer ------------------------------
(***************************************************************************)
(* QuorumVaultX402Signer (integrations/x402_signer.py): the second front     *)
(* door onto the same risk engine.  It turns a merchant's x402 quote into a *)
(* multisigned Payment wrapped in a header, and the facilitator, not the    *)
(* signer, submits it: a header once given away may settle at any moment    *)
(* until its LastLedgerSequence, or never.                                 *)
(*                                                                         *)
(* The treasury's Sequence and the validated ledger index are read by two   *)
(* requests after the verdict; payments settle and ledgers close meanwhile. *)
(* The other front door, whose calls ExternalSigner models step by step, is  *)
(* one step here: one thread serves both, and both forget what the engine    *)
(* keeps in memory when the process is restarted.  A header's asset is the   *)
(* name the quotation gives it, and the engine counts by that name.         *)
(***************************************************************************)
EXTENDS RiskEngine, SignerBackends

CONSTANTS
  Quotations,   \* the payment requirements merchants may present
  HasRouter,    \* whether a TierRouter is injected
  Quorums,      \* the backends a deployment may have, in signing order
  LedgerDelta,  \* max_ledger_delta, from max_timeout_seconds
  MaxLedger,    \* bound on the validated ledger index
  MaxRestarts   \* bound on restarts with verdicts in between

\* What create_payment_header asks the engine of a quotation.
Payment(r) ==
  [destination |-> r.destination, asset |-> r.asset, amount |-> r.amount,
   rwa |-> NoRwa]

\* Payments holds what either rail may ask.
ASSUME QuotationAssumption == \A r \in Quotations : Payment(r) \in Payments
ASSUME DeltaAssumption == LedgerDelta \in Nat \ {0}
ASSUME X402BoundAssumption ==
  MaxLedger \in Nat /\ MaxRestarts \in Nat
ASSUME QuorumAssumption ==
  \A q \in Quorums : q # <<>> /\ q \in Seq({q[i] : i \in DOMAIN q})

VARIABLES
  call,           \* the call in progress, or NoCall
  last_decision,  \* the latest decision recorded, or NoDecision
  last_blob,      \* the latest signed payment, or None
  outcome,        \* how the latest call ended: "header", "refused", "raised"
  headers,        \* history: the signed payments given away, in a header or
                  \* on last_blob alone, in order
  quorum,         \* the backends of the QuorumSigner
  cosigned,       \* history: the verdicts the other rail signed on
  restarts,       \* history: Len(audit_log) at every restart
  ledger,         \* external: the validated ledger index
  account_seq,    \* external: the treasury's Sequence
  settled         \* external: [header, ledger] of every payment validated

resultVars == <<last_decision, last_blob, outcome, headers>>
deployVars == <<quorum, cosigned, restarts>>
x402Vars   == <<call, resultVars>>
chainVars  == <<ledger, account_seq, settled>>
worldVars  == <<chainVars, deployVars>>
vars       == <<riskVars, x402Vars, worldVars>>

None == [none |-> TRUE]

NoCall ==
  [stage |-> "idle", req |-> None, payment |-> None, ts |-> 0,
   tier |-> "none", tx |-> None, pending |-> <<>>]

NoDecision == [tier |-> "none", risk_level |-> "none", fired_reasons |-> {}]

Verdict == audit_log[Len(audit_log)]

\* Mutant: the payment is recorded before it is signed.
FailKeepsBlob(result) ==
  /\ call' = NoCall
  /\ outcome' = result
  /\ last_blob' = call.tx
  /\ UNCHANGED <<last_decision, headers>>

\* How a call ends without a header: refusals and other exceptions leave
\* last_decision, last_blob and last_hash as they are.
Fail(result) ==
  /\ call' = NoCall
  /\ outcome' = result
  /\ UNCHANGED <<last_decision, last_blob, headers>>

-----------------------------------------------------------------------------
\* A backend that its constructor refuses keeps the process from starting.
X402Init ==
  /\ RiskInit
  /\ quorum \in Quorums
  /\ \A i \in 1..Len(quorum) : Builds(quorum[i])
  /\ cosigned = {}
  /\ restarts = {}
  /\ call = NoCall
  /\ last_decision = NoDecision
  /\ last_blob = None
  /\ outcome = "none"
  /\ headers = <<>>
  /\ ledger = 0
  /\ account_seq = 0
  /\ settled = {}

\* create_payment_header(requirements): nothing of the call before is reset.
CreatePaymentHeader(r) ==
  /\ call.stage = "idle"
  /\ Len(audit_log) < MaxAudits
  /\ call' = [NoCall EXCEPT !.stage = "intent", !.req = r]
  /\ outcome' = "none"
  /\ UNCHANGED <<last_decision, last_blob, headers, riskVars, worldVars>>

\* _require_supported, the invoice id, and _intent_from_requirements: scheme,
\* network, asset and issuer; a payee; drops that are a natural number.
Usable(r) ==
  /\ r.supported
  /\ r.has_invoice
  /\ r.destination # ""
  /\ r.amount_readable

RefuseQuotation ==
  /\ call.stage = "intent"
  /\ ~Usable(call.req)
  /\ Fail("refused")
  /\ UNCHANGED <<riskVars, worldVars>>

BuildIntent ==
  /\ call.stage = "intent"
  /\ Usable(call.req)
  /\ call' = [call EXCEPT !.stage = "route", !.ts = clock,
                !.payment = Payment(call.req)]
  /\ UNCHANGED resultVars
  /\ UNCHANGED <<riskVars, worldVars>>

RouteTier ==
  /\ call.stage = "route"
  /\ IF HasRouter /\ ~RateUsable(call.payment.asset, quote, clock)
     THEN Fail("raised")
     ELSE /\ call' = [call EXCEPT !.stage = "evaluate",
                        !.tier = IF HasRouter THEN Route(call.payment, quote)
                                 ELSE "quorum_backstop"]
          /\ UNCHANGED resultVars
  /\ UNCHANGED <<riskVars, worldVars>>

\* Mutant: only a refusal records its decision.
EvaluateRecordsRefusals ==
  /\ call.stage = "evaluate"
  /\ Evaluate(call.payment, call.ts)
  /\ IF Verdict'.risk_level = "GREEN"
     THEN call' = [call EXCEPT !.stage = "build"] /\ UNCHANGED <<last_decision, outcome>>
     ELSE /\ call' = NoCall /\ outcome' = "refused"
          /\ last_decision' = [tier |-> call.tier, risk_level |-> Verdict'.risk_level,
                               fired_reasons |-> Verdict'.fired_reasons]
  /\ UNCHANGED <<last_blob, headers, worldVars>>

EvaluateCall ==
  /\ call.stage = "evaluate"
  /\ Evaluate(call.payment, call.ts)
  /\ last_decision' = [tier |-> call.tier, risk_level |-> Verdict'.risk_level,
                       fired_reasons |-> Verdict'.fired_reasons]
  /\ IF Verdict'.risk_level = "GREEN"
     THEN call' = [call EXCEPT !.stage = "build"] /\ UNCHANGED outcome
     ELSE call' = NoCall /\ outcome' = "refused"
  /\ UNCHANGED <<last_blob, headers, worldVars>>

EvaluateRaises ==
  /\ call.stage = "evaluate"
  /\ ~RateUsable(call.payment.asset, quote, clock)
  /\ Fail("raised")
  /\ UNCHANGED <<riskVars, worldVars>>

\* _build_payment: the tags are looked at only now, after the verdict; the
\* memo carries the decision; the expiry counts from the validated ledger.
BuildPayment ==
  /\ call.stage = "build"
  /\ IF ~call.req.tags_readable THEN Fail("refused")
     ELSE /\ call' = [call EXCEPT !.stage = "autofill",
               !.tx = [destination |-> call.req.destination,
                       asset |-> call.req.asset, amount |-> call.req.amount,
                       invoice |-> call.req.invoice, memo |-> last_decision,
                       last_ledger_sequence |-> ledger + LedgerDelta,
                       sequence |-> 0, signers |-> {}]]
          /\ UNCHANGED resultVars
  /\ UNCHANGED <<riskVars, worldVars>>

\* autofill: the Sequence the account has now; a LastLedgerSequence that is
\* already there is kept.
Autofill ==
  /\ call.stage = "autofill"
  /\ call' = [call EXCEPT !.stage = "multisign", !.pending = quorum,
                          !.tx.sequence = account_seq]
  /\ UNCHANGED resultVars
  /\ UNCHANGED <<riskVars, worldVars>>

\* QuorumSigner.multisign, one backend after the other.
BackendSigns ==
  /\ call.stage = "multisign"
  /\ call.pending # <<>>
  /\ \E answer \in Answers(Head(call.pending)) :
       /\ Signs(Head(call.pending), call.req.bytes, answer)
       /\ call' = [call EXCEPT
                     !.pending = Tail(call.pending),
                     !.tx.signers = @ \cup {Signature(Head(call.pending), answer)}]
  /\ UNCHANGED resultVars
  /\ UNCHANGED <<riskVars, worldVars>>

\* A ledger request or a backend fails.
CallRaises ==
  /\ \/ call.stage = "build" /\ call.req.tags_readable
     \/ call.stage = "autofill"
     \/ call.stage = "multisign" /\ call.pending # <<>>
  /\ Fail("raised")
  /\ UNCHANGED <<riskVars, worldVars>>

\* The signed payment is recorded before the header is built around it, which
\* may raise: the caller can have it from last_blob all the same.
ReturnHeader ==
  /\ call.stage = "multisign"
  /\ call.pending = <<>>
  /\ call' = NoCall
  /\ outcome' \in {"header", "raised"}
  /\ last_blob' = call.tx
  /\ headers' = Append(headers, [tx |-> call.tx, verdict |-> Len(audit_log)])
  /\ UNCHANGED <<last_decision, riskVars, worldVars>>

CallStep ==
  \/ RefuseQuotation \/ BuildIntent \/ RouteTier \/ EvaluateCall
  \/ EvaluateRaises \/ BuildPayment \/ Autofill \/ BackendSigns \/ CallRaises
  \/ ReturnHeader

-----------------------------------------------------------------------------
(* The world around a call.                                                *)

\* External: the facilitator submits a header's payment, in time and with
\* the account's Sequence, or the ledger does not take it.
Settle(h) ==
  /\ headers[h].tx.sequence = account_seq
  /\ \A signature \in headers[h].tx.signers : LedgerTakes(signature)
  /\ ledger <= headers[h].tx.last_ledger_sequence
  /\ account_seq' = account_seq + 1
  /\ settled' = settled \cup {[header |-> h, ledger |-> ledger]}
  /\ UNCHANGED <<riskVars, x402Vars, ledger, deployVars>>

\* External: a transaction signed on the other rail takes a Sequence.
OtherLands ==
  /\ account_seq < Cardinality(settled) + Cardinality(cosigned)
  /\ account_seq' = account_seq + 1
  /\ UNCHANGED <<riskVars, x402Vars, ledger, settled, deployVars>>

LedgerCloses ==
  /\ ledger < MaxLedger
  /\ ledger' = ledger + 1
  /\ UNCHANGED <<riskVars, x402Vars, account_seq, settled, deployVars>>

TimePasses ==
  /\ call.stage \in {"route", "evaluate"} => clock + 1 - call.ts <= ClockSkew
  /\ Tick
  /\ UNCHANGED <<x402Vars, worldVars>>

PriceChange == PriceMoves /\ UNCHANGED <<x402Vars, worldVars>>

HumanReset == ResetCircuitBreaker /\ UNCHANGED <<x402Vars, worldVars>>

\* Mutant: the other rail has an engine of its own.
OtherRailAlone(p) ==
  /\ call.stage = "idle"
  /\ Len(audit_log) < MaxAudits
  /\ RateUsable(p.asset, quote, clock)
  /\ audit_log' = Append(audit_log,
       [entry |-> LogEntry(p, clock), fired_reasons |-> {}, risk_level |-> "GREEN"])
  /\ cosigned' = cosigned \cup {Len(audit_log')}
  /\ UNCHANGED <<recent_tx_log, breakerVars, episode_start, marketVars, x402Vars,
                 chainVars, quorum, restarts>>

\* QuorumVaultExternalSigner.sign: judged by the same engine, and signed when
\* GREEN unless a later gate refuses.
OtherRail(p) ==
  /\ call.stage = "idle"
  /\ Evaluate(p, clock)
  /\ \/ UNCHANGED cosigned
     \/ Verdict'.risk_level = "GREEN" /\ cosigned' = cosigned \cup {Len(audit_log')}
  /\ UNCHANGED <<x402Vars, chainVars, quorum, restarts>>

\* The process ends, in a call or between two, and is started again: the log
\* and the breaker are as RiskEngine.__init__ makes them.
Restart ==
  /\ Cardinality(restarts \cup {Len(audit_log)}) <= MaxRestarts
  /\ restarts' = restarts \cup {Len(audit_log)}
  /\ recent_tx_log' = <<>>
  /\ circuit_breaker_tripped' = FALSE
  /\ trip_reasons' = {}
  /\ episode_start' = Len(audit_log)
  /\ call' = NoCall
  /\ last_decision' = NoDecision
  /\ last_blob' = None
  /\ outcome' = "none"
  /\ UNCHANGED <<audit_log, marketVars, headers, chainVars,
                 quorum, cosigned>>

Environment ==
  \/ \E h \in 1..Len(headers) : Settle(h)
  \/ \E p \in Payments : OtherRail(p)
  \/ Restart \/ OtherLands
  \/ LedgerCloses \/ TimePasses \/ PriceChange \/ HumanReset

X402Next ==
  \/ \E r \in Quotations : CreatePaymentHeader(r)
  \/ CallStep
  \/ Environment

X402Spec == X402Init /\ [][X402Next]_vars

-----------------------------------------------------------------------------
\* Type invariant of the rail and of its engine.
X402TypeOK ==
  /\ TypeOK
  /\ call.stage \in {"idle", "intent", "route", "evaluate", "build",
                     "autofill", "multisign"}
  /\ call.req \in Quotations \cup {None}
  /\ call.ts \in 0..clock
  /\ last_decision.risk_level \in RiskLevels \cup {"none"}
  /\ last_decision.tier \in Tiers \cup {"none"}
  /\ last_blob = None \/ last_blob \in {headers[h].tx : h \in 1..Len(headers)}
  /\ outcome \in {"none", "header", "refused", "raised"}
  /\ ledger \in 0..MaxLedger
  /\ account_seq \in Cardinality(settled)..(Cardinality(settled) + Cardinality(cosigned))
  /\ quorum \in Quorums
  /\ cosigned \subseteq 1..Len(audit_log)
  /\ restarts \subseteq 0..Len(audit_log)

\* A header pays what was judged (create_payment_header, _build_payment): its
\* payment is the transfer of one GREEN verdict that no other header uses,
\* and the memo it puts on the public ledger states that very verdict.
HeaderPaysAsJudged ==
  \A h \in 1..Len(headers) :
    LET verdict == audit_log[headers[h].verdict]
    IN  /\ verdict.risk_level = "GREEN"
        /\ SameTransfer(headers[h].tx, verdict.entry)
        /\ headers[h].tx.memo.risk_level = "GREEN"
        /\ headers[h].tx.memo.fired_reasons = verdict.fired_reasons
        /\ \A g \in 1..(h - 1) : headers[g].verdict < headers[h].verdict

\* The verdicts behind what was taken from the treasury by either rail.
Departures == cosigned \cup {headers[s.header].verdict : s \in settled}

Lives(i) == Cardinality({r \in restarts : r < i})

\* What is taken from the treasury (evaluate, behind both rails; Sequence by
\* autofill, LastLedgerSequence by _build_payment): a header settles at most
\* once and not after its expiry, and of the verdicts given in one velocity
\* window, between two restarts, at most FrequencyLimit on one transfer let
\* anything leave, on whichever rail they were given and however late it
\* settles; failed calls, resets and retries notwithstanding.
DepartureVelocity ==
  LET stamp(i) == audit_log[i].entry.timestamp
      same(i)  == {j \in Departures :
                     /\ Lives(j) = Lives(i)
                     /\ SameTransfer(audit_log[j].entry, audit_log[i].entry)
                     /\ stamp(j) \in (stamp(i) - (FrequencyWindow - ClockSkew))..stamp(i)}
  IN  /\ \A i \in Departures : Cardinality(same(i)) <= FrequencyLimit
      /\ \A s \in settled :
           /\ \A r \in settled : r.header = s.header => r = s
           /\ s.ledger <= headers[s.header].tx.last_ledger_sequence

\* A freeze stops both rails (the breaker of the engine they share): neither
\* lets anything go while it is tripped, whichever of them tripped it.
FreezeStopsBothRails ==
  [][headers' # headers \/ cosigned' # cosigned => ~circuit_breaker_tripped']_vars

\* A backend whose declared public key is not that of its key in KMS.
Misdeclared(b) == PublicKey(b) # b.held

\* A header is never short of a signature, and holds none the ledger would
\* not take (multisign, the backends' sign, which backend.py asks to be fully
\* canonical), but for those of a key that was declared wrongly, which no
\* constructor finds out.
SignaturesStand ==
  \A h \in 1..Len(headers) :
    LET signers == headers[h].tx.signers
    IN  /\ {s.account : s \in signers} = {PublicKey(quorum[i]) : i \in 1..Len(quorum)}
        /\ \A s \in signers :
             \/ LedgerTakes(s)
             \/ \E i \in 1..Len(quorum) :
                  Misdeclared(quorum[i]) /\ s.account = PublicKey(quorum[i])
=============================================================================
