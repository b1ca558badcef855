------------------------------ MODULE X402Proofs ------------------------------
(***************************************************************************)
(* Proofs about X402Signer: what a header pays, what signs it, that a freeze  *)
(* stops both rails and how much can leave by either of them, for any         *)
(* quotations, payments, quorums, bounds and lengths of time.                *)
(*                                                                         *)
(* The invariant follows a call: while it is judged and built, the verdict it *)
(* stands on is the latest one, is GREEN, and the breaker is not tripped,     *)
(* because nothing else is evaluated before the call is over.              *)
(*                                                                         *)
(* A second one, Traced, follows what was given away onto the ledger, where   *)
(* the Sequence it settles with is taken, and back to the verdicts it stands  *)
(* on, which the engine counts within one life of the process: the velocity   *)
(* log is complete but for what was forgotten by restarts.                  *)
(***************************************************************************)
EXTENDS X402Signer, RiskEngineProofs

CallFields == {"stage", "req", "payment", "ts", "tier", "tx", "pending"}

TxFields == {"destination", "asset", "amount", "invoice", "memo",
             "last_ledger_sequence", "sequence", "signers"}

QuorumKnown == quorum \in Quorums

\* The call's stage and what it has learnt by then.
CallKnown ==
  /\ DOMAIN call = CallFields
  /\ call.stage \in {"idle", "intent", "route", "evaluate", "build", "autofill", "multisign"}
  /\ call.stage # "idle" => call.req \in Quotations
  /\ call.stage \in {"route", "evaluate"} =>
       call.payment = Payment(call.req) /\ call.ts \in (clock - ClockSkew)..clock

\* Verdict i is GREEN and is that of the transfer in a memo.
Green(i) == i \in 1..Len(audit_log) /\ audit_log[i].risk_level = "GREEN"

Stated(memo, i) ==
  memo.risk_level = "GREEN" /\ memo.fired_reasons = audit_log[i].fired_reasons

Pays(tx, i) ==
  Green(i) /\ SameTransfer(tx, audit_log[i].entry) /\ Stated(tx.memo, i)

Stands(s) ==
  \/ LedgerTakes(s)
  \/ \E i \in 1..Len(quorum) :
       Misdeclared(quorum[i]) /\ s.account = PublicKey(quorum[i])

\* The first k backends have signed.
SignedBy(signers, k) ==
  /\ {s.account : s \in signers} = {PublicKey(quorum[i]) : i \in 1..k}
  /\ \A s \in signers : Stands(s)

\* After the verdict the call stands on the latest one, and nothing is frozen.
Judged ==
  call.stage \in {"build", "autofill", "multisign"} =>
    /\ ~circuit_breaker_tripped
    /\ Green(Len(audit_log))
    /\ SameTransfer(call.req, Verdict.entry)
    /\ Stated(last_decision, Len(audit_log))
    /\ \A h \in 1..Len(headers) : headers[h].verdict < Len(audit_log)

Built ==
  call.stage \in {"autofill", "multisign"} =>
    DOMAIN call.tx = TxFields /\ Pays(call.tx, Len(audit_log))

Cosigning ==
  /\ call.stage = "autofill" => call.tx.signers = {}
  /\ call.stage = "multisign" =>
       \E k \in 0..Len(quorum) :
         /\ call.pending \in Seq({quorum[i] : i \in DOMAIN quorum})
         /\ Len(call.pending) = Len(quorum) - k
         /\ \A i \in 1..Len(call.pending) : call.pending[i] = quorum[k + i]
         /\ SignedBy(call.tx.signers, k)

HeadersKnown ==
  /\ \E S : headers \in Seq(S)
  /\ \A h \in 1..Len(headers) :
       /\ Pays(headers[h].tx, headers[h].verdict)
       /\ SignedBy(headers[h].tx.signers, Len(quorum))
       /\ \A g \in 1..(h - 1) : headers[g].verdict < headers[h].verdict

IInv ==
  /\ TypeOK /\ QuorumKnown /\ CallKnown
  /\ Judged /\ Built /\ Cosigning /\ HeadersKnown

-----------------------------------------------------------------------------
(* Signatures.                                                             *)

\* _canonical_der makes every s canonical.
LEMMA LowSCanonical ==
  ASSUME NEW s \in 1..(CurveOrder - 1)
  PROVE  LowS(s) \in 1..HalfOrder
<1>1. CurveOrder = 2 * HalfOrder + 1 /\ HalfOrder \in Int
  BY CurveAssumption DEF HalfOrder
<1> QED
  BY <1>1 DEF LowS

\* A backend that was not declared wrongly signs what the ledger takes.
LEMMA SignatureTaken ==
  ASSUME NEW b, NEW bytes, NEW answer \in Answers(b), Signs(b, bytes, answer)
  PROVE  LedgerTakes(Signature(b, answer)) \/ Misdeclared(b)
<1> SUFFICES ASSUME ~Misdeclared(b)
             PROVE  LedgerTakes(Signature(b, answer))
  OBVIOUS
<1>1. PublicKey(b) = b.held
  BY DEF Misdeclared
<1>2. CASE ~InKms(b)
  BY <1>1, <1>2 DEF Answers, InKms, Signature, Signed, LedgerTakes
<1>3. CASE InKms(b) /\ b.held.curve = "secp256k1"
  <2>1. answer \in 1..(CurveOrder - 1) /\ b.kind = "kms_secp256k1"
    BY <1>3 DEF Answers, InKms, CurveOf
  <2>2. LowS(answer) \in 1..HalfOrder
    BY <2>1, LowSCanonical
  <2> QED
    BY <1>1, <1>3, <2>1, <2>2 DEF Signature, Signed, LedgerTakes
<1>4. CASE InKms(b) /\ b.held.curve # "secp256k1"
  <2>1. b.kind = "kms_ed25519" /\ answer = EdLength
    BY <1>4 DEF Answers, InKms, CurveOf, Signs
  <2> QED
    BY <1>1, <1>4, <2>1 DEF Signature, Signed, LedgerTakes
<1> QED
  BY <1>2, <1>3, <1>4

\* One more element, and the earlier ones stay.
LEMMA AppendAny ==
  ASSUME NEW S, NEW s \in Seq(S), NEW e
  PROVE  /\ \E T : Append(s, e) \in Seq(T)
         /\ Len(Append(s, e)) = Len(s) + 1
         /\ \A i \in 1..Len(s) : Append(s, e)[i] = s[i]
         /\ Append(s, e)[Len(s) + 1] = e
<1>1. s \in Seq(S \cup {e}) /\ e \in S \cup {e}
  BY SeqMonotonic
<1> QED
  BY <1>1, AppendProperties

\* A quorum is a sequence of backends.
LEMMA QuorumSequence ==
  ASSUME QuorumKnown
  PROVE  /\ quorum \in Seq({quorum[i] : i \in DOMAIN quorum})
         /\ Len(quorum) \in Nat /\ DOMAIN quorum = 1..Len(quorum)
<1>1. quorum \in Seq({quorum[i] : i \in DOMAIN quorum})
  BY QuorumAssumption DEF QuorumKnown
<1> QED
  BY <1>1, LenProperties

-----------------------------------------------------------------------------
(* The engine.                                                             *)

\* An evaluation that comes out GREEN finds and leaves the breaker untripped.
LEMMA GreenIsUntripped ==
  ASSUME TypeOK, NEW p \in Payments, NEW ts \in (clock - ClockSkew)..clock,
         Evaluate(p, ts), Verdict'.risk_level = "GREEN"
  PROVE  ~circuit_breaker_tripped'
<1> DEFINE level == RiskLevel(FiredReasons(p, Prune(recent_tx_log, ts)))
<1>1. Verdict'.risk_level = level
  <2>1. Len(audit_log) \in Nat
    BY LenProperties DEF TypeOK
  <2> QED
    BY <2>1, EvaluateLogs DEF Verdict
<1>2. ~circuit_breaker_tripped
  BY <1>1, TrippedIsRed
<1>3. circuit_breaker_tripped' =
        (circuit_breaker_tripped \/ (level = "RED" /\ ~circuit_breaker_tripped))
  BY DEF Evaluate
<1> QED
  BY <1>1, <1>2, <1>3

\* The engine stays well typed, restarts included.
LEMMA EngineStep ==
  ASSUME TypeOK, CallKnown, [X402Next]_vars PROVE TypeOK'
<1>1. ASSUME [RiskNext]_riskVars PROVE TypeOK'
  BY <1>1, TypeStep
<1>2. CASE EvaluateCall
  <2>1. call.payment \in Payments /\ call.ts \in (clock - ClockSkew)..clock
    BY <1>2, QuotationAssumption DEF EvaluateCall, CallKnown
  <2> QED
    BY <1>1, <1>2, <2>1 DEF EvaluateCall, RiskNext
<1>3. ASSUME NEW p \in Payments, OtherRail(p) PROVE TypeOK'
  <2>1. clock \in (clock - ClockSkew)..clock
    BY SkewAssumption, BoundAssumption DEF TypeOK
  <2> QED
    BY <1>1, <1>3, <2>1 DEF OtherRail, RiskNext
<1>4. CASE Restart
  <2>1. /\ recent_tx_log' = <<>> /\ circuit_breaker_tripped' = FALSE /\ trip_reasons' = {}
        /\ episode_start' = Len(audit_log) /\ UNCHANGED <<audit_log, clock, quote>>
    BY <1>4 DEF Restart, marketVars
  <2>2. recent_tx_log' \in Seq(Entries) /\ episode_start' \in 0..Len(audit_log)
    BY <2>1, EmptySeq, LenProperties DEF TypeOK
  <2> QED
    BY <2>1, <2>2 DEF TypeOK
<1>5. ASSUME NEW r, CreatePaymentHeader(r) PROVE TypeOK'
  BY <1>1, <1>5 DEF CreatePaymentHeader
<1>6. ASSUME NEW h, Settle(h) PROVE TypeOK'
  BY <1>1, <1>6 DEF Settle
<1>7. CASE \/ RefuseQuotation \/ BuildIntent \/ RouteTier \/ EvaluateRaises
           \/ BuildPayment \/ Autofill \/ BackendSigns \/ CallRaises \/ ReturnHeader
           \/ OtherLands \/ LedgerCloses
  BY <1>1, <1>7 DEF RefuseQuotation, BuildIntent, RouteTier, EvaluateRaises, BuildPayment,
     Autofill, BackendSigns, CallRaises, ReturnHeader, OtherLands, LedgerCloses
<1>8. CASE TimePasses \/ PriceChange \/ HumanReset
  BY <1>1, <1>8 DEF TimePasses, PriceChange, HumanReset, RiskNext
<1>9. CASE UNCHANGED vars
  BY <1>1, <1>9 DEF vars
<1> QED
  BY <1>2, <1>3, <1>4, <1>5, <1>6, <1>7, <1>8, <1>9
  DEF X402Next, CallStep, Environment

-----------------------------------------------------------------------------
(* The call.                                                               *)

\* The verdicts given stay as they are.
AuditLogGrows ==
  /\ Len(audit_log) \in Nat /\ Len(audit_log') \in Nat
  /\ Len(audit_log) <= Len(audit_log')
  /\ \A i \in 1..Len(audit_log) : audit_log'[i] = audit_log[i]

\* So what a header pays and who signed it stay so, too.
LEMMA HeadersStay ==
  ASSUME HeadersKnown, AuditLogGrows, UNCHANGED <<headers, quorum>>
  PROVE  HeadersKnown'
<1>1. ASSUME NEW h \in 1..Len(headers)
      PROVE  Pays(headers[h].tx, headers[h].verdict)'
  <2>1. Pays(headers[h].tx, headers[h].verdict)
    BY DEF HeadersKnown
  <2>2. headers[h].verdict \in 1..Len(audit_log)
    BY <2>1 DEF Pays, Green
  <2>3. /\ headers[h].verdict \in 1..Len(audit_log')
        /\ audit_log'[headers[h].verdict] = audit_log[headers[h].verdict]
    BY <2>2 DEF AuditLogGrows
  <2> QED
    BY <2>1, <2>3 DEF Pays, Green, Stated, SameTransfer
<1>2. ASSUME NEW h \in 1..Len(headers)
      PROVE  SignedBy(headers[h].tx.signers, Len(quorum))'
  BY DEF HeadersKnown, SignedBy, Stands
<1> QED
  BY <1>1, <1>2 DEF HeadersKnown

\* A call in which nothing is evaluated keeps what stands behind it.
LEMMA JudgedStays ==
  ASSUME Judged, UNCHANGED <<audit_log, last_decision, headers>>,
         call'.stage \in {"build", "autofill", "multisign"} =>
           /\ call.stage \in {"build", "autofill", "multisign"}
           /\ call'.req = call.req
           /\ circuit_breaker_tripped' => circuit_breaker_tripped
  PROVE  Judged'
BY DEF Judged, Green, Stated, Verdict, SameTransfer

\* The world moves while a call waits.
LEMMA WaitStep ==
  ASSUME IInv, TypeOK', UNCHANGED <<call, audit_log, last_decision, headers, quorum>>,
         circuit_breaker_tripped' => circuit_breaker_tripped,
         call.stage \in {"route", "evaluate"} =>
           call.ts \in (clock' - ClockSkew)..clock'
  PROVE  IInv'
<1> USE DEF IInv
<1>1. AuditLogGrows
  BY LenProperties DEF TypeOK, AuditLogGrows
<1>2. HeadersKnown'
  BY <1>1, HeadersStay
<1>3. Judged'
  BY JudgedStays
<1>4. CallKnown' /\ QuorumKnown'
  BY DEF CallKnown, QuorumKnown
<1>5. Built'
  BY DEF Built, Pays, Green, Stated, SameTransfer
<1>6. Cosigning'
  BY ZenonT(30) DEF Cosigning, SignedBy, Stands
<1> QED
  BY <1>2, <1>3, <1>4, <1>5, <1>6

\* A call that is over leaves the headers as they are.
LEMMA IdleStep ==
  ASSUME IInv, TypeOK', AuditLogGrows, UNCHANGED <<headers, quorum>>,
         call'.stage = "idle", DOMAIN call' = CallFields
  PROVE  IInv'
<1> USE DEF IInv
<1>1. HeadersKnown'
  BY HeadersStay
<1> QED
  BY <1>1 DEF CallKnown, QuorumKnown, Judged, Built, Cosigning

\* A call that moves on, with nothing evaluated, keeps what it does not build.
LEMMA CallMoves ==
  ASSUME IInv, UNCHANGED <<riskVars, headers, quorum>>
  PROVE  AuditLogGrows /\ HeadersKnown' /\ QuorumKnown'
<1>1. AuditLogGrows
  BY LenProperties DEF IInv, TypeOK, AuditLogGrows, riskVars, engineVars
<1> QED
  BY <1>1, HeadersStay DEF IInv, QuorumKnown

\* An evaluation adds one verdict.
LEMMA EvaluationGrows ==
  ASSUME TypeOK, NEW p \in Payments, NEW ts \in (clock - ClockSkew)..clock,
         Evaluate(p, ts)
  PROVE  /\ AuditLogGrows /\ Len(audit_log') = Len(audit_log) + 1
         /\ Verdict' = audit_log'[Len(audit_log) + 1]
         /\ Verdict'.entry = LogEntry(p, ts)
<1>1. Len(audit_log) \in Nat
  BY LenProperties DEF TypeOK
<1> QED
  BY <1>1, EvaluateLogs DEF AuditLogGrows, Verdict

LEMMA CreateKeeps ==
  ASSUME IInv, TypeOK', NEW r \in Quotations, CreatePaymentHeader(r)
  PROVE  IInv'
<1>1. AuditLogGrows /\ HeadersKnown' /\ QuorumKnown'
  BY CallMoves DEF CreatePaymentHeader, worldVars, deployVars
<1>2. DOMAIN call' = CallFields /\ call'.stage = "intent" /\ call'.req = r
  BY DEF CreatePaymentHeader, NoCall, CallFields
<1> QED
  BY <1>1, <1>2 DEF IInv, CallKnown, Judged, Built, Cosigning

LEMMA BuildIntentKeeps ==
  ASSUME IInv, TypeOK', BuildIntent PROVE IInv'
<1>1. HeadersKnown' /\ QuorumKnown'
  BY CallMoves DEF BuildIntent, resultVars, worldVars, deployVars
<1>2. call' = [call EXCEPT !.stage = "route", !.ts = clock, !.payment = Payment(call.req)]
  BY DEF BuildIntent
<1>3. /\ DOMAIN call' = CallFields /\ call'.stage = "route" /\ call'.req = call.req
      /\ call'.payment = Payment(call.req) /\ call'.ts = clock /\ call.req \in Quotations
  BY <1>2 DEF IInv, CallKnown, CallFields, BuildIntent
<1>4. clock' = clock /\ clock \in (clock - ClockSkew)..clock
  BY SkewAssumption, BoundAssumption DEF IInv, TypeOK, BuildIntent, riskVars, marketVars
<1>5. CallKnown'
  BY <1>3, <1>4 DEF CallKnown, Payment
<1> QED
  BY <1>1, <1>3, <1>5 DEF IInv, Judged, Built, Cosigning

LEMMA RouteTierKeeps ==
  ASSUME IInv, TypeOK', RouteTier PROVE IInv'
<1>1. CASE Fail("raised") /\ UNCHANGED <<riskVars, worldVars>>
  <2>1. AuditLogGrows
    BY <1>1, LenProperties DEF IInv, TypeOK, AuditLogGrows, riskVars, engineVars
  <2> QED
    BY <1>1, <2>1, IdleStep DEF Fail, NoCall, CallFields, worldVars, deployVars
<1>2. CASE /\ call.stage = "route" /\ UNCHANGED <<resultVars, riskVars, worldVars>>
           /\ \E tier : call' = [call EXCEPT !.stage = "evaluate", !.tier = tier]
  <2>1. HeadersKnown' /\ QuorumKnown'
    BY <1>2, CallMoves DEF resultVars, worldVars, deployVars
  <2>2. /\ DOMAIN call' = CallFields /\ call'.stage = "evaluate" /\ call'.req = call.req
        /\ call'.payment = call.payment /\ call'.ts = call.ts
    BY <1>2 DEF IInv, CallKnown, CallFields
  <2>3. clock' = clock
    BY <1>2 DEF riskVars, marketVars
  <2>4. CallKnown'
    BY <1>2, <2>2, <2>3 DEF IInv, CallKnown, Payment
  <2> QED
    BY <2>1, <2>2, <2>4 DEF IInv, Judged, Built, Cosigning
<1> QED
  BY <1>1, <1>2 DEF RouteTier

LEMMA EvaluateCallKeeps ==
  ASSUME IInv, TypeOK', EvaluateCall PROVE IInv'
<1>1. /\ call.payment \in Payments /\ call.ts \in (clock - ClockSkew)..clock
      /\ call.payment = Payment(call.req) /\ call.req \in Quotations
  BY QuotationAssumption DEF EvaluateCall, IInv, CallKnown
<1>2. /\ AuditLogGrows /\ Len(audit_log') = Len(audit_log) + 1
      /\ Verdict' = audit_log'[Len(audit_log) + 1]
      /\ Verdict'.entry = LogEntry(call.payment, call.ts)
  BY <1>1, EvaluationGrows DEF EvaluateCall, IInv
<1>3. UNCHANGED <<headers, quorum>>
  BY DEF EvaluateCall, worldVars, deployVars
<1>4. CASE call' = NoCall
  BY <1>2, <1>3, <1>4, IdleStep DEF NoCall, CallFields
<1>5. CASE Verdict'.risk_level = "GREEN" /\ call' = [call EXCEPT !.stage = "build"]
  <2>1. HeadersKnown' /\ QuorumKnown'
    BY <1>2, <1>3, HeadersStay DEF IInv, QuorumKnown
  <2>2. /\ DOMAIN call' = CallFields /\ call'.stage = "build" /\ call'.req = call.req
    BY <1>5 DEF IInv, CallKnown, CallFields
  <2>3. ~circuit_breaker_tripped'
    BY <1>1, <1>5, GreenIsUntripped DEF EvaluateCall, IInv
  <2>4. Green(Len(audit_log))'
    BY <1>2, <1>5 DEF Green, Verdict, AuditLogGrows
  <2>5. SameTransfer(call.req, Verdict.entry)'
    BY <1>1, <1>2, <2>2 DEF SameTransfer, LogEntry, Payment, Verdict
  <2>6. Stated(last_decision, Len(audit_log))'
    BY <1>5 DEF EvaluateCall, Stated, Verdict
  <2>7. \A h \in 1..Len(headers') : headers'[h].verdict < Len(audit_log')
    BY <1>2, <1>3 DEF IInv, HeadersKnown, Pays, Green, AuditLogGrows
  <2>8. Judged'
    BY <2>3, <2>4, <2>5, <2>6, <2>7 DEF Judged, Verdict
  <2>9. CallKnown' /\ Built' /\ Cosigning'
    BY <1>1, <2>2 DEF CallKnown, Built, Cosigning
  <2> QED
    BY <2>1, <2>8, <2>9 DEF IInv
<1> QED
  BY <1>4, <1>5 DEF EvaluateCall

\* The steps that end a call without a header.
LEMMA FailureKeeps ==
  ASSUME IInv, TypeOK', NEW result, Fail(result), UNCHANGED <<riskVars, worldVars>>
  PROVE  IInv'
<1>1. AuditLogGrows
  BY LenProperties DEF IInv, TypeOK, AuditLogGrows, riskVars, engineVars
<1> QED
  BY <1>1, IdleStep DEF Fail, NoCall, CallFields, worldVars, deployVars

LEMMA BuildPaymentKeeps ==
  ASSUME IInv, TypeOK', BuildPayment PROVE IInv'
<1>1. CASE Fail("refused")
  BY <1>1, FailureKeeps DEF BuildPayment
<1>2. CASE ~Fail("refused")
  <2>1. /\ call.stage = "build" /\ UNCHANGED <<resultVars, riskVars, worldVars>>
        /\ call' = [call EXCEPT !.stage = "autofill",
             !.tx = [destination |-> call.req.destination,
                     asset |-> call.req.asset, amount |-> call.req.amount,
                     invoice |-> call.req.invoice, memo |-> last_decision,
                     last_ledger_sequence |-> ledger + LedgerDelta,
                     sequence |-> 0, signers |-> {}]]
    BY <1>2 DEF BuildPayment
  <2>2. HeadersKnown' /\ QuorumKnown'
    BY <2>1, CallMoves DEF resultVars, worldVars, deployVars
  <2>3. /\ DOMAIN call' = CallFields /\ call'.stage = "autofill" /\ call'.req = call.req
        /\ call'.tx.signers = {} /\ DOMAIN call'.tx = TxFields
        /\ call'.tx.memo = last_decision /\ SameTransfer(call'.tx, Verdict.entry)
    BY <2>1 DEF IInv, CallKnown, CallFields, TxFields, Judged, SameTransfer
  <2>4. UNCHANGED <<audit_log, circuit_breaker_tripped, last_decision, headers>>
    BY <2>1 DEF resultVars, riskVars, engineVars, breakerVars
  <2>5. Judged'
    BY <2>1, <2>3, <2>4, JudgedStays DEF IInv
  <2>6. Built'
    BY <2>3, <2>4, <2>5 DEF Built, Judged, Pays, Verdict, SameTransfer, Green, Stated
  <2>7. CallKnown' /\ Cosigning'
    BY <2>1, <2>3 DEF IInv, CallKnown, Cosigning
  <2> QED
    BY <2>2, <2>5, <2>6, <2>7 DEF IInv
<1> QED
  BY <1>1, <1>2

LEMMA AutofillKeeps ==
  ASSUME IInv, TypeOK', Autofill PROVE IInv'
<1>1. /\ call.stage = "autofill" /\ UNCHANGED <<resultVars, riskVars, worldVars>>
      /\ call' = [call EXCEPT !.stage = "multisign", !.pending = quorum,
                              !.tx.sequence = account_seq]
  BY DEF Autofill
<1>2. HeadersKnown' /\ QuorumKnown'
  BY <1>1, CallMoves DEF resultVars, worldVars, deployVars
<1>3. /\ DOMAIN call' = CallFields /\ call'.stage = "multisign" /\ call'.req = call.req
      /\ call'.pending = quorum /\ call'.tx = [call.tx EXCEPT !.sequence = account_seq]
  BY <1>1 DEF IInv, CallKnown, CallFields
<1>4. /\ DOMAIN call'.tx = TxFields /\ call'.tx.signers = {} /\ call'.tx.memo = call.tx.memo
      /\ call'.tx.destination = call.tx.destination /\ call'.tx.asset = call.tx.asset
      /\ call'.tx.amount = call.tx.amount
  BY <1>1, <1>3 DEF IInv, Built, TxFields, Cosigning
<1>5. UNCHANGED <<audit_log, circuit_breaker_tripped, last_decision, headers, quorum>>
  BY <1>1 DEF resultVars, riskVars, engineVars, breakerVars, worldVars, deployVars
<1>6. Judged'
  BY <1>1, <1>3, <1>5, JudgedStays DEF IInv
<1>7. Built'
  BY <1>1, <1>4, <1>5 DEF IInv, Built, Pays, SameTransfer, Green, Stated
<1>8. Cosigning'
  <2>1. /\ quorum \in Seq({quorum[i] : i \in DOMAIN quorum})
        /\ Len(quorum) \in Nat
    BY QuorumSequence DEF IInv
  <2>2. SignedBy(call.tx.signers, 0)'
    BY <1>4 DEF SignedBy
  <2>3. /\ call'.pending \in Seq({quorum'[i] : i \in DOMAIN quorum'})
        /\ Len(call'.pending) = Len(quorum') - 0
        /\ \A i \in 1..Len(call'.pending) : call'.pending[i] = quorum'[0 + i]
    BY <1>3, <1>5, <2>1
  <2>4. 0 \in 0..Len(quorum')
    BY <1>5, <2>1
  <2> QED
    BY <1>3, <2>2, <2>3, <2>4 DEF Cosigning
<1>9. CallKnown'
  BY <1>1, <1>3 DEF IInv, CallKnown
<1> QED
  BY <1>2, <1>6, <1>7, <1>8, <1>9 DEF IInv

\* One more backend has signed.
LEMMA SignedByNext ==
  ASSUME NEW signers, NEW k \in Nat, SignedBy(signers, k), k + 1 <= Len(quorum),
         Len(quorum) \in Nat, NEW bytes, NEW answer \in Answers(quorum[k + 1]),
         Signs(quorum[k + 1], bytes, answer)
  PROVE  SignedBy(signers \cup {Signature(quorum[k + 1], answer)}, k + 1)
<1> DEFINE signature == Signature(quorum[k + 1], answer)
<1>1. signature.account = PublicKey(quorum[k + 1])
  BY DEF Signature
<1>2. Stands(signature)
  BY <1>1, SignatureTaken DEF Stands
<1> HIDE DEF signature
<1>3. {s.account : s \in signers \cup {signature}}
        = {s.account : s \in signers} \cup {signature.account}
  OBVIOUS
<1>4. {PublicKey(quorum[i]) : i \in 1..(k + 1)}
        = {PublicKey(quorum[i]) : i \in 1..k} \cup {PublicKey(quorum[k + 1])}
  <2>1. 1..(k + 1) = (1..k) \cup {k + 1}
    OBVIOUS
  <2> QED
    BY <2>1, Zenon
<1>5. SignedBy(signers \cup {signature}, k + 1)
  BY <1>1, <1>2, <1>3, <1>4 DEF SignedBy
<1> QED
  BY <1>5 DEF signature

LEMMA BackendSignsKeeps ==
  ASSUME IInv, TypeOK', BackendSigns PROVE IInv'
<1>1. /\ call.stage = "multisign" /\ call.pending # <<>>
      /\ UNCHANGED <<resultVars, riskVars, worldVars>>
  BY DEF BackendSigns
<1>2. PICK answer \in Answers(Head(call.pending)) :
        /\ Signs(Head(call.pending), call.req.bytes, answer)
        /\ call' = [call EXCEPT
                      !.pending = Tail(call.pending),
                      !.tx.signers = @ \cup {Signature(Head(call.pending), answer)}]
  BY DEF BackendSigns
<1>3. HeadersKnown' /\ QuorumKnown'
  BY <1>1, CallMoves DEF resultVars, worldVars, deployVars
<1>4. /\ DOMAIN call' = CallFields /\ call'.stage = "multisign" /\ call'.req = call.req
      /\ call'.pending = Tail(call.pending)
      /\ call'.tx = [call.tx EXCEPT
                       !.signers = @ \cup {Signature(Head(call.pending), answer)}]
  BY <1>1, <1>2 DEF IInv, CallKnown, CallFields
<1>5. /\ DOMAIN call'.tx = TxFields /\ call'.tx.memo = call.tx.memo
      /\ call'.tx.signers = call.tx.signers \cup {Signature(Head(call.pending), answer)}
      /\ call'.tx.destination = call.tx.destination /\ call'.tx.asset = call.tx.asset
      /\ call'.tx.amount = call.tx.amount
  BY <1>1, <1>4 DEF IInv, Built, TxFields
<1>6. UNCHANGED <<audit_log, circuit_breaker_tripped, last_decision, headers, quorum>>
  BY <1>1 DEF resultVars, riskVars, engineVars, breakerVars, worldVars, deployVars
<1>7. Judged'
  BY <1>1, <1>4, <1>6, JudgedStays DEF IInv
<1>8. Built'
  BY <1>1, <1>5, <1>6 DEF IInv, Built, Pays, SameTransfer, Green, Stated
<1>9. Cosigning'
  <2> DEFINE B == {quorum[i] : i \in DOMAIN quorum}
  <2>1. PICK k \in 0..Len(quorum) :
          /\ call.pending \in Seq(B)
          /\ Len(call.pending) = Len(quorum) - k
          /\ \A i \in 1..Len(call.pending) : call.pending[i] = quorum[k + i]
          /\ SignedBy(call.tx.signers, k)
    BY <1>1 DEF IInv, Cosigning
  <2>2. Len(quorum) \in Nat /\ k \in Nat
    BY QuorumSequence DEF IInv
  <2> HIDE DEF B
  <2>3. /\ Tail(call.pending) \in Seq(B)
        /\ Len(Tail(call.pending)) = Len(call.pending) - 1
        /\ \A i \in 1..Len(Tail(call.pending)) : Tail(call.pending)[i] = call.pending[i + 1]
    BY <1>1, <2>1, HeadTailProperties
  <2>4. Len(call.pending) \in Nat \ {0}
    BY <1>1, <2>1, EmptySeq
  <2>5. Head(call.pending) = quorum[k + 1] /\ k + 1 <= Len(quorum)
    <3>1. Head(call.pending) = call.pending[1]
      BY <1>1, <2>1
    <3> QED
      BY <2>1, <2>2, <2>4, <3>1
  <2>6. SignedBy(call'.tx.signers, k + 1)
    <3> DEFINE b == quorum[k + 1]
    <3>1. answer \in Answers(b) /\ Signs(b, call.req.bytes, answer)
      BY <1>2, <2>5
    <3>2. SignedBy(call.tx.signers \cup {Signature(b, answer)}, k + 1)
      BY <2>1, <2>2, <2>5, <3>1, SignedByNext
    <3> QED
      BY <1>5, <2>5, <3>2
  <2>7. SignedBy(call.tx.signers, k + 1)'
    BY <1>6, <2>6 DEF SignedBy, Stands
  <2>8. k + 1 \in 0..Len(quorum)
    BY <2>2, <2>5
  <2>9. \A i \in 1..Len(Tail(call.pending)) : Tail(call.pending)[i] = quorum[k + 1 + i]
    <3> SUFFICES ASSUME NEW i \in 1..Len(Tail(call.pending))
                 PROVE  Tail(call.pending)[i] = quorum[k + 1 + i]
      OBVIOUS
    <3>1. i \in Nat /\ i + 1 \in 1..Len(call.pending)
      BY <2>3, <2>4
    <3>2. Tail(call.pending)[i] = quorum[k + (i + 1)]
      BY <2>1, <2>3, <3>1
    <3>3. k + (i + 1) = k + 1 + i
      BY <2>2, <3>1
    <3> QED
      BY <3>2, <3>3
  <2>10. Len(Tail(call.pending)) = Len(quorum) - (k + 1)
    BY <2>1, <2>2, <2>3
  <2>11. quorum' = quorum /\ B = {quorum[i] : i \in DOMAIN quorum}
    BY <1>6 DEF B
  <2>12. /\ call'.pending \in Seq({quorum'[i] : i \in DOMAIN quorum'})
         /\ Len(call'.pending) = Len(quorum') - (k + 1)
         /\ \A i \in 1..Len(call'.pending) : call'.pending[i] = quorum'[k + 1 + i]
    BY <1>4, <2>3, <2>9, <2>10, <2>11
  <2>13. k + 1 \in 0..Len(quorum')
    BY <2>8, <2>11
  <2> QED
    BY <1>4, <2>7, <2>12, <2>13 DEF Cosigning
<1>10. CallKnown'
  BY <1>1, <1>4 DEF IInv, CallKnown
<1> QED
  BY <1>3, <1>7, <1>8, <1>9, <1>10 DEF IInv

LEMMA ReturnHeaderKeeps ==
  ASSUME IInv, TypeOK', ReturnHeader PROVE IInv'
<1> DEFINE n == Len(headers)
           new == [tx |-> call.tx, verdict |-> Len(audit_log)]
<1>1. /\ call.stage = "multisign" /\ call.pending = <<>> /\ call' = NoCall
      /\ headers' = Append(headers, new) /\ UNCHANGED <<riskVars, worldVars>>
  BY DEF ReturnHeader
<1>2. UNCHANGED <<audit_log, quorum>>
  BY <1>1 DEF riskVars, engineVars, worldVars, deployVars
<1>3. Pays(call.tx, Len(audit_log)) /\ \A h \in 1..n : headers[h].verdict < Len(audit_log)
  BY <1>1 DEF IInv, Built, Judged
<1>4. SignedBy(call.tx.signers, Len(quorum))
  <2>1. PICK k \in 0..Len(quorum) :
          /\ Len(call.pending) = Len(quorum) - k
          /\ SignedBy(call.tx.signers, k)
    BY <1>1 DEF IInv, Cosigning
  <2>2. Len(call.pending) = 0 /\ Len(quorum) \in Nat
    BY <1>1, EmptySeq, QuorumSequence DEF IInv
  <2>3. k = Len(quorum)
    BY <2>1, <2>2
  <2> QED
    BY <2>1, <2>3
<1>5. PICK S : headers \in Seq(S)
  BY DEF IInv, HeadersKnown
<1>6. n \in Nat
  BY <1>5, LenProperties
<1>7. /\ \E T : headers' \in Seq(T)
      /\ Len(headers') = n + 1
      /\ \A i \in 1..n : headers'[i] = headers[i]
      /\ headers'[n + 1] = new
  <2>1. headers' = Append(headers, new)
    BY <1>1
  <2> HIDE DEF new
  <2>2. /\ \E T : Append(headers, new) \in Seq(T)
        /\ Len(Append(headers, new)) = Len(headers) + 1
        /\ \A i \in 1..Len(headers) : Append(headers, new)[i] = headers[i]
        /\ Append(headers, new)[Len(headers) + 1] = new
    BY <1>5, AppendAny, Zenon
  <2> QED
    BY <2>1, <2>2
<1> HIDE DEF n
<1>8. ASSUME NEW h \in 1..(n + 1)
      PROVE  /\ Pays(headers'[h].tx, headers'[h].verdict)
             /\ SignedBy(headers'[h].tx.signers, Len(quorum))
             /\ \A g \in 1..(h - 1) : headers'[g].verdict < headers'[h].verdict
  <2>1. CASE h = n + 1
    BY <1>3, <1>4, <1>6, <1>7, <2>1
  <2>2. CASE h \in 1..n
    <3>1. /\ Pays(headers[h].tx, headers[h].verdict)
          /\ SignedBy(headers[h].tx.signers, Len(quorum))
          /\ \A g \in 1..(h - 1) : headers[g].verdict < headers[h].verdict
      BY <2>2 DEF IInv, HeadersKnown, n
    <3>2. \A g \in 1..(h - 1) : g \in 1..n
      BY <1>6, <2>2
    <3> QED
      BY <1>7, <2>2, <3>1, <3>2
  <2> QED
    BY <1>6, <2>1, <2>2
<1>9. HeadersKnown'
  <2>1. ASSUME NEW h \in 1..(n + 1)
        PROVE  /\ Pays(headers[h].tx, headers[h].verdict)'
               /\ SignedBy(headers[h].tx.signers, Len(quorum))'
    BY <1>2, <1>8 DEF Pays, Green, SameTransfer, Stated, SignedBy, Stands
  <2> QED
    BY <1>7, <1>8, <2>1 DEF HeadersKnown
<1> QED
  BY <1>1, <1>2, <1>9
  DEF IInv, QuorumKnown, NoCall, CallFields, CallKnown, Judged, Built, Cosigning

\* The steps of the world, the other rail and restarts among them.
LEMMA WorldKeeps ==
  ASSUME IInv, TypeOK', Environment PROVE IInv'
<1> USE DEF x402Vars, resultVars, worldVars, chainVars, deployVars,
            riskVars, engineVars, breakerVars, marketVars
<1>1. ASSUME UNCHANGED <<riskVars, call, last_decision, headers, quorum>>
      PROVE  IInv'
  BY <1>1, WaitStep DEF IInv, CallKnown
<1>2. ASSUME NEW h, Settle(h) PROVE IInv'
  BY <1>1, <1>2 DEF Settle
<1>3. CASE OtherLands \/ LedgerCloses
  BY <1>1, <1>3 DEF OtherLands, LedgerCloses
<1>4. CASE PriceChange \/ HumanReset
  BY <1>4, WaitStep DEF IInv, CallKnown, PriceChange, PriceMoves, HumanReset, ResetCircuitBreaker
<1>5. CASE TimePasses
  <2>1. call.stage \in {"route", "evaluate"} => call.ts \in (clock' - ClockSkew)..clock'
    <3>1. clock \in Int /\ ClockSkew \in Int /\ clock' = clock + 1
      BY <1>5, SkewAssumption, BoundAssumption DEF TimePasses, Tick, IInv, TypeOK
    <3>2. CASE call.stage \in {"route", "evaluate"}
      <4>1. call.ts \in (clock - ClockSkew)..clock /\ clock + 1 - call.ts <= ClockSkew
        BY <1>5, <3>2 DEF IInv, CallKnown, TimePasses
      <4> QED
        BY <3>1, <4>1
    <3> QED
      BY <3>2
  <2> QED
    BY <1>5, <2>1, WaitStep DEF TimePasses, Tick
<1>6. ASSUME NEW p \in Payments, OtherRail(p) PROVE IInv'
  <2>1. clock \in (clock - ClockSkew)..clock
    BY SkewAssumption, BoundAssumption DEF IInv, TypeOK
  <2>2. AuditLogGrows
    BY <1>6, <2>1, EvaluationGrows DEF OtherRail, IInv
  <2> QED
    BY <1>6, <2>2, IdleStep DEF OtherRail, IInv, CallKnown
<1>7. CASE Restart
  <2>1. AuditLogGrows
    BY <1>7, LenProperties DEF Restart, IInv, TypeOK, AuditLogGrows
  <2> QED
    BY <1>7, <2>1, IdleStep DEF Restart, NoCall, CallFields
<1> QED
  BY <1>2, <1>3, <1>4, <1>5, <1>6, <1>7 DEF Environment

-----------------------------------------------------------------------------
(* The whole rail.                                                         *)

LEMMA InitIInv == X402Init => IInv
<1> SUFFICES ASSUME X402Init PROVE IInv
  OBVIOUS
<1>1. TypeOK
  BY TypeInit DEF X402Init
<1>2. HeadersKnown
  BY EmptySeq DEF X402Init, HeadersKnown
<1> QED
  BY <1>1, <1>2 DEF X402Init, IInv, NoCall, CallFields, QuorumKnown, CallKnown,
     Judged, Built, Cosigning

LEMMA NextIInv == IInv /\ [X402Next]_vars => IInv'
<1> SUFFICES ASSUME IInv, [X402Next]_vars PROVE IInv'
  OBVIOUS
<1>1. TypeOK'
  BY EngineStep DEF IInv
<1>2. ASSUME NEW r \in Quotations, CreatePaymentHeader(r) PROVE IInv'
  BY <1>1, <1>2, CreateKeeps
<1>3. CASE RefuseQuotation \/ EvaluateRaises \/ CallRaises
  BY <1>1, <1>3, FailureKeeps DEF RefuseQuotation, EvaluateRaises, CallRaises
<1>4. CASE BuildIntent
  BY <1>1, <1>4, BuildIntentKeeps
<1>5. CASE RouteTier
  BY <1>1, <1>5, RouteTierKeeps
<1>6. CASE EvaluateCall
  BY <1>1, <1>6, EvaluateCallKeeps
<1>7. CASE BuildPayment
  BY <1>1, <1>7, BuildPaymentKeeps
<1>8. CASE Autofill
  BY <1>1, <1>8, AutofillKeeps
<1>9. CASE BackendSigns
  BY <1>1, <1>9, BackendSignsKeeps
<1>10. CASE ReturnHeader
  BY <1>1, <1>10, ReturnHeaderKeeps
<1>11. CASE Environment
  BY <1>1, <1>11, WorldKeeps
<1>12. CASE UNCHANGED vars
  BY <1>1, <1>12, WaitStep
  DEF IInv, CallKnown, vars, x402Vars, resultVars, worldVars, deployVars,
      riskVars, engineVars, breakerVars, marketVars
<1> QED
  BY <1>2, <1>3, <1>4, <1>5, <1>6, <1>7, <1>8, <1>9, <1>10, <1>11, <1>12
  DEF X402Next, CallStep

\* A header pays what was judged: one GREEN verdict that no other header
\* uses, the very one its memo states (create_payment_header, _build_payment).
THEOREM PaysAsJudged == X402Spec => []HeaderPaysAsJudged
<1>1. IInv => HeaderPaysAsJudged
  BY DEF IInv, HeadersKnown, HeaderPaysAsJudged, Pays, Green, Stated
<1> QED
  BY <1>1, InitIInv, NextIInv, PTL DEF X402Spec

\* A header holds a signature of every backend, each one that the ledger
\* takes unless its key was declared wrongly (multisign, _canonical_der).
THEOREM SignaturesHold == X402Spec => []SignaturesStand
<1>1. IInv => SignaturesStand
  BY DEF IInv, HeadersKnown, SignaturesStand, SignedBy, Stands
<1> QED
  BY <1>1, InitIInv, NextIInv, PTL DEF X402Spec

\* While the breaker is tripped neither rail lets anything go, whichever of
\* them tripped it (evaluate, shared by both).
THEOREM RailsFreeze == X402Spec => FreezeStopsBothRails
<1>1. ASSUME IInv, X402Next, headers' # headers \/ cosigned' # cosigned
      PROVE  ~circuit_breaker_tripped'
  <2> USE DEF resultVars, worldVars, deployVars, x402Vars
  <2>1. CASE ReturnHeader
    BY <1>1, <2>1 DEF ReturnHeader, IInv, Judged, riskVars, engineVars, breakerVars
  <2>2. ASSUME NEW p \in Payments, OtherRail(p) PROVE ~circuit_breaker_tripped'
    <3>1. clock \in (clock - ClockSkew)..clock
      BY <1>1, SkewAssumption, BoundAssumption DEF IInv, TypeOK
    <3>2. Evaluate(p, clock) /\ Verdict'.risk_level = "GREEN"
      BY <1>1, <2>2 DEF OtherRail
    <3> QED
      BY <1>1, <3>1, <3>2, GreenIsUntripped DEF IInv
  <2>3. CASE ~ReturnHeader /\ ~ \E p \in Payments : OtherRail(p)
    BY <1>1, <2>3
    DEF X402Next, CallStep, Environment, CreatePaymentHeader, RefuseQuotation, BuildIntent,
        RouteTier, EvaluateCall, EvaluateRaises, BuildPayment, Autofill, BackendSigns,
        CallRaises, Fail, Settle, Restart, OtherLands, LedgerCloses, TimePasses,
        PriceChange, HumanReset
  <2> QED
    BY <2>1, <2>2, <2>3
<1>2. IInv /\ [X402Next]_vars
        => [headers' # headers \/ cosigned' # cosigned => ~circuit_breaker_tripped']_vars
  BY <1>1
<1> QED
  BY <1>2, InitIInv, NextIInv, PTL DEF X402Spec, FreezeStopsBothRails

-----------------------------------------------------------------------------
(* The engine across restarts, and the chain.                              *)

\* The verdicts given before some restart.
Forgotten == {i \in 1..Len(audit_log) : \E r \in restarts : i <= r}

\* The attempts at the transfer of verdict i in its window that the engine had
\* not forgotten when it gave that verdict.
Remembered(i) ==
  {j \in Repeats(i, FrequencyWindow - ClockSkew) :
     ~ \E r \in restarts : j <= r /\ r < i}

\* Each verdict is within the limit of what the engine remembered.
LifeVelocity ==
  \A i \in 1..Len(audit_log) :
    audit_log[i].risk_level # "RED" => Cardinality(Remembered(i)) <= FrequencyLimit

\* What settled was given away, in time, and its Sequence is taken.
SettledOnce ==
  /\ IsFiniteSet(settled)
  /\ \A s \in settled :
       /\ s.header \in 1..Len(headers)
       /\ headers[s.header].tx.sequence \in 0..(account_seq - 1)
       /\ s.ledger <= headers[s.header].tx.last_ledger_sequence
       /\ \A r \in settled : r.header = s.header => r = s

\* The types, for the call, for what it leaves behind and for the chain.
CallTyped ==
  /\ call.stage \in {"idle", "intent", "route", "evaluate", "build",
                     "autofill", "multisign"}
  /\ call.req \in Quotations \cup {None}
  /\ call.ts \in 0..clock
  /\ call.tier \in Tiers \cup {"none"}

ResultTyped ==
  /\ last_decision.risk_level \in RiskLevels \cup {"none"}
  /\ last_decision.tier \in Tiers \cup {"none"}
  /\ last_blob = None \/ last_blob \in {headers[h].tx : h \in 1..Len(headers)}
  /\ outcome \in {"none", "header", "refused", "raised"}

ChainTyped ==
  /\ ledger \in 0..MaxLedger
  /\ account_seq \in Cardinality(settled)..(Cardinality(settled) + Cardinality(cosigned))
  /\ cosigned \subseteq 1..Len(audit_log)
  /\ \A i \in cosigned : Green(i)

\* The second invariant.
Traced ==
  /\ X402TypeOK /\ call.tier \in Tiers \cup {"none"}
  /\ \A i \in cosigned : Green(i)
  /\ SettledOnce
  /\ LogCompleteBut(Forgotten) /\ LifeVelocity

-----------------------------------------------------------------------------
(* One engine, forgotten and begun again.                                  *)

\* Time only makes entries older, and a verdict once forgotten stays so.
LEMMA LogWaits ==
  ASSUME TypeOK, restarts \subseteq 0..Len(audit_log), LogCompleteBut(Forgotten), LifeVelocity,
         UNCHANGED <<recent_tx_log, audit_log, restarts>>,
         clock' \in Int, clock <= clock'
  PROVE  LogCompleteBut(Forgotten)' /\ LifeVelocity'
<1>1. Forgotten' = Forgotten
  BY DEF Forgotten
<1>2. \A i \in 1..(Len(audit_log) - Len(recent_tx_log)) :
        Expired(audit_log[i].entry, clock) => Expired(audit_log[i].entry, clock')
  BY IntegerTimestamps, FrequencyAssumption DEF Expired, LogCompleteBut
<1>3. LogCompleteBut(Forgotten)'
  BY <1>1, <1>2 DEF LogCompleteBut
<1>4. LifeVelocity'
  BY DEF LifeVelocity, Remembered, Repeats
<1> QED
  BY <1>3, <1>4

\* One more verdict, on either rail.
LEMMA LogEvaluates ==
  ASSUME TypeOK, restarts \subseteq 0..Len(audit_log), LogCompleteBut(Forgotten), LifeVelocity,
         UNCHANGED restarts,
         NEW p \in Payments, NEW ts \in (clock - ClockSkew)..clock, Evaluate(p, ts)
  PROVE  LogCompleteBut(Forgotten)' /\ LifeVelocity'
<1>1. PICK n : n = Len(audit_log) + 1
  OBVIOUS
<1>2. PICK gone : gone = Forgotten
  OBVIOUS
<1>3. /\ n - 1 \in Nat /\ n \in Nat /\ Len(audit_log) = n - 1 /\ Len(audit_log') = n
      /\ \A i \in 1..(n - 1) : audit_log'[i] = audit_log[i]
  BY <1>1, EvaluateLogs, IntegerTimestamps
<1>4. \A r \in restarts : r \in Int /\ r < n
  BY <1>3
<1>5. Forgotten' = Forgotten
  <2>1. \A i \in 1..n : i \notin 1..(n - 1) => ~ \E r \in restarts : i <= r
    BY <1>3, <1>4
  <2> QED
    BY <1>3, <2>1 DEF Forgotten
<1>6. LogCompleteBut(gone)
  BY <1>2
<1>7. LogCompleteBut(gone)'
  BY <1>6, EvaluateKeepsLog
<1>8. LogCompleteBut(Forgotten)'
  BY <1>2, <1>5, <1>7
<1> DEFINE span == FrequencyWindow - ClockSkew
           R(log, i) ==
             {j \in 1..i : /\ SameTransfer(log[i].entry, log[j].entry)
                           /\ log[j].entry.timestamp >= log[i].entry.timestamp - span
                           /\ ~ \E r \in restarts : j <= r /\ r < i}
<1>9. ASSUME NEW i \in 1..n, audit_log'[i].risk_level # "RED"
      PROVE  Cardinality(R(audit_log', i)) <= FrequencyLimit
  <2>1. CASE i \in 1..(n - 1)
    <3>1. \A j \in 1..i : audit_log'[j] = audit_log[j]
      BY <1>3, <2>1
    <3>2. R(audit_log', i) = R(audit_log, i)
      BY <3>1, <2>1
    <3>3. Remembered(i) = R(audit_log, i)
      BY DEF Remembered, Repeats
    <3>4. Cardinality(Remembered(i)) <= FrequencyLimit
      BY <1>3, <1>9, <2>1 DEF LifeVelocity
    <3> QED
      BY <3>2, <3>3, <3>4
  <2>2. CASE i = n
    <3> DEFINE T == {j \in 1..n :
                      /\ j \notin gone
                      /\ SameTransfer(audit_log'[n].entry, audit_log'[j].entry)
                      /\ audit_log'[j].entry.timestamp
                           >= audit_log'[n].entry.timestamp - (FrequencyWindow - ClockSkew)}
    <3>1. \A j \in 1..n : j \notin gone <=> ~ \E r \in restarts : j <= r /\ r < n
      BY <1>2, <1>3, <1>4 DEF Forgotten
    <3>2. R(audit_log', n) = T
      BY <3>1
    <3>3. Cardinality(T) <= FrequencyLimit
      BY <1>1, <1>6, <1>9, <2>2, NewVerdictBound
    <3> QED
      BY <2>2, <3>2, <3>3
  <2> QED
    BY <1>3, <2>1, <2>2
<1>10. LifeVelocity'
  BY <1>3, <1>9 DEF LifeVelocity, Remembered, Repeats, SameTransfer
<1> QED
  BY <1>8, <1>10

\* A restart forgets everything up to now.
LEMMA LogRestarts ==
  ASSUME TypeOK, restarts \subseteq 0..Len(audit_log), LogCompleteBut(Forgotten), LifeVelocity,
         Restart
  PROVE  LogCompleteBut(Forgotten)' /\ LifeVelocity'
<1>1. /\ recent_tx_log' = <<>> /\ UNCHANGED <<audit_log, clock>>
      /\ restarts' = restarts \cup {Len(audit_log)}
  BY DEF Restart, marketVars
<1>2. Len(audit_log) \in Nat /\ Len(recent_tx_log') = 0
  BY <1>1, EmptySeq, IntegerTimestamps
<1>3. Forgotten' = 1..Len(audit_log)
  BY <1>1, <1>2 DEF Forgotten
<1>4. LogCompleteBut(Forgotten)'
  BY <1>1, <1>2, <1>3 DEF LogCompleteBut
<1>5. \A i \in 1..Len(audit_log) : Remembered(i)' = Remembered(i)
  BY <1>1, <1>2 DEF Remembered, Repeats
<1>6. LifeVelocity'
  BY <1>1, <1>5 DEF LifeVelocity
<1> QED
  BY <1>4, <1>6

\* Nothing that was audited is ever lost.
LEMMA AuditStep ==
  ASSUME IInv, [X402Next]_vars PROVE AuditLogGrows
<1> USE DEF riskVars, engineVars
<1>1. ASSUME UNCHANGED audit_log PROVE AuditLogGrows
  BY <1>1, LenProperties DEF IInv, TypeOK, AuditLogGrows
<1>2. CASE EvaluateCall
  <2>1. call.payment \in Payments /\ call.ts \in (clock - ClockSkew)..clock
    BY <1>2, QuotationAssumption DEF EvaluateCall, IInv, CallKnown
  <2> QED
    BY <1>2, <2>1, EvaluationGrows DEF EvaluateCall, IInv
<1>3. ASSUME NEW p \in Payments, OtherRail(p) PROVE AuditLogGrows
  <2>1. clock \in (clock - ClockSkew)..clock
    BY SkewAssumption, BoundAssumption DEF IInv, TypeOK
  <2> QED
    BY <1>3, <2>1, EvaluationGrows DEF OtherRail, IInv
<1>4. CASE ~EvaluateCall /\ ~ \E p \in Payments : OtherRail(p)
  BY <1>1, <1>4
  DEF X402Next, CallStep, Environment, CreatePaymentHeader, RefuseQuotation, BuildIntent,
      RouteTier, EvaluateRaises, BuildPayment, Autofill, BackendSigns, CallRaises,
      ReturnHeader, Settle, Restart, OtherLands, LedgerCloses, TimePasses, PriceChange,
      HumanReset, PriceMoves, Tick, ResetCircuitBreaker, vars
<1> QED
  BY <1>2, <1>3, <1>4

\* The clock is never set back.
LEMMA ClockForward ==
  ASSUME TypeOK, [X402Next]_vars PROVE clock \in Int /\ clock' \in Int /\ clock <= clock'
<1>1. clock \in Int
  BY IntegerTimestamps
<1>2. clock' = clock \/ clock' = clock + 1
  BY DEF X402Next, CallStep, Environment, CreatePaymentHeader, RefuseQuotation, BuildIntent,
     RouteTier, EvaluateCall, EvaluateRaises, BuildPayment, Autofill, BackendSigns,
     CallRaises, ReturnHeader, Settle, Restart, OtherLands, LedgerCloses, TimePasses,
     PriceChange, HumanReset, OtherRail, Evaluate, PriceMoves, Tick, ResetCircuitBreaker,
     vars, riskVars, engineVars, marketVars
<1> QED
  BY <1>1, <1>2

\* Whatever step is taken.
LEMMA LifeStep ==
  ASSUME IInv, restarts \subseteq 0..Len(audit_log), LogCompleteBut(Forgotten),
         LifeVelocity, [X402Next]_vars
  PROVE  /\ restarts' \subseteq 0..Len(audit_log')
         /\ LogCompleteBut(Forgotten)' /\ LifeVelocity'
<1> USE DEF riskVars, engineVars, worldVars, deployVars
<1>1. TypeOK /\ AuditLogGrows /\ clock \in Int /\ clock' \in Int /\ clock <= clock'
  BY AuditStep, ClockForward DEF IInv
<1>2. CASE UNCHANGED <<recent_tx_log, audit_log, restarts>>
  BY <1>1, <1>2, LogWaits
<1>3. ASSUME UNCHANGED restarts PROVE restarts' \subseteq 0..Len(audit_log')
  BY <1>1, <1>3 DEF AuditLogGrows
<1>4. CASE EvaluateCall
  <2>1. call.payment \in Payments /\ call.ts \in (clock - ClockSkew)..clock
    BY <1>4, QuotationAssumption DEF EvaluateCall, IInv, CallKnown
  <2> QED
    BY <1>1, <1>3, <1>4, <2>1, LogEvaluates DEF EvaluateCall
<1>5. ASSUME NEW p \in Payments, OtherRail(p)
      PROVE  /\ restarts' \subseteq 0..Len(audit_log')
             /\ LogCompleteBut(Forgotten)' /\ LifeVelocity'
  <2>1. clock \in (clock - ClockSkew)..clock
    BY SkewAssumption, BoundAssumption DEF IInv, TypeOK
  <2> QED
    BY <1>1, <1>3, <1>5, <2>1, LogEvaluates DEF OtherRail
<1>6. CASE Restart
  <2>1. restarts' \subseteq 0..Len(audit_log')
    <3>1. restarts' = restarts \cup {Len(audit_log)} /\ audit_log' = audit_log
      BY <1>6 DEF Restart
    <3>2. Len(audit_log) \in 0..Len(audit_log)
      BY <1>1 DEF AuditLogGrows
    <3> QED
      BY <3>1, <3>2
  <2> QED
    BY <1>1, <1>6, <2>1, LogRestarts
<1>7. CASE ~EvaluateCall /\ ~Restart /\ ~ \E p \in Payments : OtherRail(p)
  <2>1. UNCHANGED <<recent_tx_log, audit_log, restarts>>
    BY <1>7
    DEF X402Next, CallStep, Environment, CreatePaymentHeader, RefuseQuotation, BuildIntent,
        RouteTier, EvaluateRaises, BuildPayment, Autofill, BackendSigns, CallRaises,
        ReturnHeader, Settle, OtherLands, LedgerCloses, TimePasses, PriceChange, HumanReset,
        PriceMoves, Tick, ResetCircuitBreaker, vars
  <2> QED
    BY <1>2, <2>1
<1> QED
  BY <1>4, <1>5, <1>6, <1>7

-----------------------------------------------------------------------------
(* Types.                                                                  *)

\* A call keeps its types, and never has a timestamp to come.
LEMMA CallTypedStep ==
  ASSUME IInv, CallTyped, [X402Next]_vars PROVE CallTyped'
<1> USE DEF riskVars, marketVars, x402Vars
<1>1. clock \in Int /\ clock' \in Int /\ clock <= clock' /\ clock \in Nat /\ clock' \in Nat
  BY ClockForward, BoundAssumption DEF IInv, TypeOK
<1>2. ASSUME call' = NoCall PROVE CallTyped'
  BY <1>1, <1>2 DEF NoCall, CallTyped
<1>3. ASSUME UNCHANGED call PROVE CallTyped'
  BY <1>1, <1>3 DEF CallTyped
<1>4. DOMAIN call = CallFields
  BY DEF IInv, CallKnown
<1>5. ASSUME NEW r \in Quotations, CreatePaymentHeader(r) PROVE CallTyped'
  BY <1>1, <1>5 DEF CreatePaymentHeader, NoCall, CallTyped
<1>6. CASE BuildIntent
  <2>1. /\ call'.stage = "route" /\ call'.ts = clock /\ call'.req = call.req
        /\ call'.tier = call.tier /\ clock' = clock
    BY <1>4, <1>6 DEF BuildIntent, CallFields
  <2> QED
    BY <1>1, <2>1 DEF CallTyped
<1>7. CASE RouteTier
  <2>1. CASE call' = NoCall
    BY <1>2, <2>1
  <2>2. CASE call' # NoCall
    <3> DEFINE tier == IF HasRouter THEN Route(call.payment, quote) ELSE "quorum_backstop"
    <3>1. call' = [call EXCEPT !.stage = "evaluate", !.tier = tier] /\ clock' = clock
      BY <1>7, <2>2 DEF RouteTier, Fail
    <3>2. tier \in Tiers
      BY DEF Route, Tiers
    <3> HIDE DEF tier
    <3>3. /\ call'.stage = "evaluate" /\ call'.ts = call.ts /\ call'.req = call.req
          /\ call'.tier = tier
      BY <1>4, <3>1 DEF CallFields
    <3> QED
      BY <3>1, <3>2, <3>3 DEF CallTyped
  <2> QED
    BY <2>1, <2>2
<1>8. CASE \/ EvaluateCall \/ BuildPayment \/ Autofill \/ BackendSigns
  <2>1. CASE call' = NoCall
    BY <1>2, <2>1
  <2>2. CASE call' # NoCall
    <3>1. /\ call'.stage \in {"build", "autofill", "multisign"} /\ call'.ts = call.ts
          /\ call'.req = call.req /\ call'.tier = call.tier
      BY <1>4, <1>8, <2>2
      DEF EvaluateCall, BuildPayment, Autofill, BackendSigns, Fail, CallFields
    <3>2. call'.ts \in 0..clock'
      BY <1>1, <3>1 DEF CallTyped
    <3> QED
      BY <3>1, <3>2 DEF CallTyped
  <2> QED
    BY <2>1, <2>2
<1>9. CASE RefuseQuotation \/ EvaluateRaises \/ CallRaises \/ ReturnHeader \/ Restart
  BY <1>2, <1>9 DEF RefuseQuotation, EvaluateRaises, CallRaises, Fail, ReturnHeader, Restart
<1>10. CASE Environment /\ ~Restart
  BY <1>3, <1>10 DEF Environment, Settle, OtherLands, LedgerCloses, TimePasses,
     PriceChange, HumanReset, OtherRail
<1>11. CASE UNCHANGED vars
  BY <1>3, <1>11 DEF vars
<1> QED
  BY <1>5, <1>6, <1>7, <1>8, <1>9, <1>10, <1>11 DEF X402Next, CallStep

\* One more header, after those given away before.
LEMMA HeaderAdded ==
  ASSUME IInv, ReturnHeader
  PROVE  /\ Len(headers) \in Nat /\ Len(headers') = Len(headers) + 1
         /\ \A h \in 1..Len(headers) : headers'[h] = headers[h]
         /\ headers'[Len(headers) + 1].tx = call.tx
<1> DEFINE new == [tx |-> call.tx, verdict |-> Len(audit_log)]
<1>1. PICK S : headers \in Seq(S)
  BY DEF IInv, HeadersKnown
<1>2. headers' = Append(headers, new) /\ new.tx = call.tx
  BY DEF ReturnHeader
<1> HIDE DEF new
<1>3. /\ \E T : Append(headers, new) \in Seq(T)
      /\ Len(Append(headers, new)) = Len(headers) + 1
      /\ \A i \in 1..Len(headers) : Append(headers, new)[i] = headers[i]
      /\ Append(headers, new)[Len(headers) + 1] = new
  BY <1>1, AppendAny, Zenon
<1>4. Len(headers) \in Nat
  BY <1>1, LenProperties
<1> QED
  BY <1>2, <1>3, <1>4

\* So does what it leaves behind.
LEMMA ResultTypedStep ==
  ASSUME IInv, TypeOK', CallTyped, ResultTyped, [X402Next]_vars PROVE ResultTyped'
<1> USE DEF resultVars, x402Vars
<1>1. ASSUME UNCHANGED resultVars PROVE ResultTyped'
  BY <1>1 DEF ResultTyped
<1>2. ASSUME NEW result \in {"none", "refused", "raised"}, outcome' = result,
             UNCHANGED <<last_decision, last_blob, headers>>
      PROVE  ResultTyped'
  BY <1>2 DEF ResultTyped
<1>3. CASE \E r \in Quotations : CreatePaymentHeader(r)
  BY <1>2, <1>3 DEF CreatePaymentHeader
<1>4. CASE RefuseQuotation \/ EvaluateRaises \/ CallRaises \/ RouteTier \/ BuildPayment
  BY <1>1, <1>2, <1>4
  DEF RefuseQuotation, EvaluateRaises, CallRaises, Fail, RouteTier, BuildPayment
<1>5. CASE BuildIntent \/ Autofill \/ BackendSigns
  BY <1>1, <1>5 DEF BuildIntent, Autofill, BackendSigns
<1>6. CASE EvaluateCall
  <2>1. Verdict'.risk_level \in RiskLevels
    <3>1. call.payment \in Payments /\ call.ts \in (clock - ClockSkew)..clock
      BY <1>6, QuotationAssumption DEF EvaluateCall, IInv, CallKnown
    <3>2. Len(audit_log') = Len(audit_log) + 1 /\ Len(audit_log) \in Nat
      BY <1>6, <3>1, EvaluateLogs, IntegerTimestamps DEF EvaluateCall, IInv
    <3>3. Verdict' \in Verdicts
      BY <3>2, ElementOfSeq DEF TypeOK, Verdict
    <3> QED
      BY <3>3 DEF Verdicts
  <2>2. last_decision' = [tier |-> call.tier, risk_level |-> Verdict'.risk_level,
                          fired_reasons |-> Verdict'.fired_reasons]
    BY <1>6 DEF EvaluateCall
  <2>3. last_decision'.tier = call.tier /\ last_decision'.risk_level = Verdict'.risk_level
    BY <2>2
  <2>4. UNCHANGED <<last_blob, headers>> /\ outcome' \in {outcome, "refused"}
    BY <1>6 DEF EvaluateCall
  <2> QED
    BY <2>1, <2>3, <2>4 DEF ResultTyped, CallTyped
<1>7. CASE ReturnHeader
  <2>1. /\ last_blob' = call.tx /\ last_decision' = last_decision
        /\ outcome' \in {"header", "raised"}
    BY <1>7 DEF ReturnHeader
  <2>2. /\ Len(headers) + 1 \in 1..Len(headers')
        /\ headers'[Len(headers) + 1].tx = call.tx
    BY <1>7, HeaderAdded
  <2> QED
    BY <2>1, <2>2 DEF ResultTyped
<1>8. CASE Restart
  BY <1>8 DEF Restart, ResultTyped, NoDecision
<1>9. CASE Environment /\ ~Restart
  BY <1>1, <1>9 DEF Environment, Settle, OtherLands, LedgerCloses, TimePasses,
     PriceChange, HumanReset, OtherRail
<1>10. CASE UNCHANGED vars
  BY <1>1, <1>10 DEF vars
<1> QED
  BY <1>3, <1>4, <1>5, <1>6, <1>7, <1>8, <1>9, <1>10 DEF X402Next, CallStep

-----------------------------------------------------------------------------
(* The chain.                                                              *)

\* What the other rail signed on stays GREEN.
LEMMA GreenStays ==
  ASSUME AuditLogGrows, NEW i, Green(i) PROVE Green(i)'
BY DEF AuditLogGrows, Green

\* The counts of what settled and of what was cosigned.
LEMMA Counted ==
  ASSUME IInv, SettledOnce, ChainTyped
  PROVE  /\ IsFiniteSet(cosigned)
         /\ Cardinality(settled) \in Nat /\ Cardinality(cosigned) \in Nat
         /\ account_seq \in Nat
<1>1. IsFiniteSet(1..Len(audit_log))
  <2>1. 1 \in Int /\ Len(audit_log) \in Int
    BY IntegerTimestamps DEF IInv
  <2> QED
    BY <2>1, FS_Interval
<1>2. cosigned \in SUBSET (1..Len(audit_log))
  BY DEF ChainTyped
<1>3. IsFiniteSet(cosigned)
  BY <1>1, <1>2, FS_Subset
<1>4. Cardinality(settled) \in Nat /\ Cardinality(cosigned) \in Nat
  BY <1>3, FS_CardinalityType DEF SettledOnce
<1> QED
  BY <1>3, <1>4 DEF ChainTyped

\* A payment settles only with the Sequence the account has, which no payment
\* that settled before still has.
LEMMA SettlesOnce ==
  ASSUME IInv, SettledOnce, ChainTyped, NEW h \in 1..Len(headers), Settle(h)
  PROVE  SettledOnce' /\ ChainTyped'
<1> DEFINE new == [header |-> h, ledger |-> ledger]
<1>1. /\ headers[h].tx.sequence = account_seq /\ account_seq' = account_seq + 1
      /\ ledger <= headers[h].tx.last_ledger_sequence
      /\ settled' = settled \cup {new}
      /\ UNCHANGED <<headers, ledger, cosigned, audit_log>>
  BY DEF Settle, x402Vars, resultVars, deployVars, riskVars, engineVars
<1>2. new.header = h /\ new.ledger = ledger
  OBVIOUS
<1> HIDE DEF new
<1>3. account_seq \in Nat /\ Cardinality(settled) \in Nat /\ Cardinality(cosigned) \in Nat
  BY Counted
<1>4. \A s \in settled : s.header # h
  <2> SUFFICES ASSUME NEW s \in settled, s.header = h PROVE FALSE
    OBVIOUS
  <2>1. headers[h].tx.sequence \in 0..(account_seq - 1)
    BY DEF SettledOnce
  <2> QED
    BY <1>1, <1>3, <2>1
<1>5. new \notin settled
  BY <1>2, <1>4
<1>6. IsFiniteSet(settled') /\ Cardinality(settled') = Cardinality(settled) + 1
  BY <1>1, <1>5, FS_AddElement DEF SettledOnce
<1>7. ASSUME NEW s \in settled'
      PROVE  /\ s.header \in 1..Len(headers)
             /\ headers[s.header].tx.sequence \in 0..account_seq
             /\ s.ledger <= headers[s.header].tx.last_ledger_sequence
             /\ \A r \in settled' : r.header = s.header => r = s
  <2>1. CASE s = new
    <3>1. headers[h].tx.sequence \in 0..account_seq
      BY <1>1, <1>3
    <3> QED
      BY <1>1, <1>2, <1>4, <2>1, <3>1
  <2>2. CASE s \in settled
    <3>1. /\ s.header \in 1..Len(headers)
          /\ headers[s.header].tx.sequence \in 0..(account_seq - 1)
          /\ s.ledger <= headers[s.header].tx.last_ledger_sequence
          /\ \A r \in settled : r.header = s.header => r = s
      BY <2>2 DEF SettledOnce
    <3>2. headers[s.header].tx.sequence \in 0..account_seq
      BY <1>3, <3>1
    <3>3. \A r \in settled' : r.header = s.header => r = s
      BY <1>1, <1>2, <1>4, <2>2, <3>1
    <3> QED
      BY <3>1, <3>2, <3>3
  <2> QED
    BY <1>1, <2>1, <2>2
<1>8. SettledOnce'
  <2>1. account_seq = account_seq' - 1
    BY <1>1, <1>3
  <2> QED
    BY <1>1, <1>6, <1>7, <2>1 DEF SettledOnce
<1>9. account_seq' \in Cardinality(settled')..(Cardinality(settled') + Cardinality(cosigned'))
  BY <1>1, <1>3, <1>6 DEF ChainTyped
<1>10. ChainTyped'
  BY <1>1, <1>9 DEF ChainTyped, Green
<1> QED
  BY <1>8, <1>10

\* More headers and a higher Sequence change nothing of what settled before.
LEMMA SettledStay ==
  ASSUME SettledOnce, Len(headers) \in Nat, Len(headers') \in Nat,
         Len(headers) <= Len(headers'),
         \A h \in 1..Len(headers) : headers'[h] = headers[h],
         account_seq \in Nat, account_seq' \in Nat, account_seq <= account_seq',
         settled' = settled
  PROVE  SettledOnce'
<1>1. ASSUME NEW s \in settled
      PROVE  /\ s.header \in 1..Len(headers')
             /\ headers'[s.header].tx.sequence \in 0..(account_seq' - 1)
             /\ s.ledger <= headers'[s.header].tx.last_ledger_sequence
             /\ \A r \in settled : r.header = s.header => r = s
  <2>1. /\ s.header \in 1..Len(headers)
        /\ headers[s.header].tx.sequence \in 0..(account_seq - 1)
        /\ s.ledger <= headers[s.header].tx.last_ledger_sequence
        /\ \A r \in settled : r.header = s.header => r = s
    BY DEF SettledOnce
  <2>2. headers'[s.header] = headers[s.header]
    BY <2>1
  <2> QED
    BY <2>1, <2>2
<1> QED
  BY <1>1 DEF SettledOnce

\* One more verdict that the other rail signed on.
LEMMA CosignedGrows ==
  ASSUME IInv, SettledOnce, ChainTyped, NEW p \in Payments, OtherRail(p)
  PROVE  ChainTyped'
<1>1. clock \in (clock - ClockSkew)..clock
  BY SkewAssumption, BoundAssumption DEF IInv, TypeOK
<1>2. AuditLogGrows /\ Len(audit_log') = Len(audit_log) + 1
  BY <1>1, EvaluationGrows DEF OtherRail, IInv
<1>3. UNCHANGED <<ledger, account_seq, settled>>
  BY DEF OtherRail, chainVars
<1>4. CASE UNCHANGED cosigned
  BY <1>2, <1>3, <1>4 DEF ChainTyped, AuditLogGrows, Green
<1>5. CASE Verdict'.risk_level = "GREEN" /\ cosigned' = cosigned \cup {Len(audit_log')}
  <2>1. Green(Len(audit_log))'
    BY <1>2, <1>5 DEF Green, Verdict, AuditLogGrows
  <2>2. cosigned' \subseteq 1..Len(audit_log') /\ \A i \in cosigned' : Green(i)'
    <3>1. \A i \in cosigned : Green(i)' /\ i \in 1..Len(audit_log')
      BY <1>2, GreenStays DEF ChainTyped, AuditLogGrows
    <3>2. Len(audit_log') \in 1..Len(audit_log')
      BY <1>2 DEF AuditLogGrows
    <3>3. PICK x : x = Len(audit_log')
      OBVIOUS
    <3>4. Green(x)'
      BY <2>1, <3>3 DEF Green
    <3> QED
      BY <1>5, <3>1, <3>2, <3>3, <3>4
  <2>3. /\ Cardinality(settled) \in Nat /\ Cardinality(cosigned) \in Nat
        /\ account_seq \in Nat /\ IsFiniteSet(cosigned)
    BY Counted
  <2>4. PICK x : x = Len(audit_log')
    OBVIOUS
  <2>5. /\ Cardinality(cosigned \cup {x}) \in Nat
        /\ Cardinality(cosigned) <= Cardinality(cosigned \cup {x})
    <3>1. Cardinality(cosigned \cup {x}) = IF x \in cosigned THEN Cardinality(cosigned)
                                           ELSE Cardinality(cosigned) + 1
      BY <2>3, FS_AddElement
    <3> QED
      BY <2>3, <3>1
  <2>6. account_seq' \in Cardinality(settled')..(Cardinality(settled') + Cardinality(cosigned'))
    BY <1>3, <1>5, <2>3, <2>4, <2>5 DEF ChainTyped
  <2> QED
    BY <1>3, <2>2, <2>6 DEF ChainTyped
<1> QED
  BY <1>4, <1>5 DEF OtherRail

\* Whatever step is taken.
LEMMA SettledStep ==
  ASSUME IInv, SettledOnce, ChainTyped, [X402Next]_vars
  PROVE  SettledOnce' /\ ChainTyped'
<1> USE DEF worldVars, chainVars, deployVars, x402Vars, resultVars
<1>1. AuditLogGrows /\ Len(headers) \in Nat /\ account_seq \in Nat
  <2>1. \E S : headers \in Seq(S)
    BY DEF IInv, HeadersKnown
  <2> QED
    BY <2>1, AuditStep, Counted, LenProperties
<1>2. ASSUME UNCHANGED <<account_seq, settled>>,
             UNCHANGED headers \/ ReturnHeader
      PROVE  SettledOnce'
  <2>1. CASE UNCHANGED headers
    BY <1>2, <2>1 DEF SettledOnce
  <2>2. CASE ReturnHeader
    BY <1>1, <1>2, <2>2, HeaderAdded, SettledStay
  <2> QED
    BY <1>2, <2>1, <2>2
<1>3. ASSUME UNCHANGED <<account_seq, settled, cosigned>>,
             UNCHANGED ledger \/ LedgerCloses
      PROVE  ChainTyped'
  <2>1. ledger' \in 0..MaxLedger
    BY <1>3, X402BoundAssumption DEF LedgerCloses, ChainTyped
  <2>2. cosigned' \subseteq 1..Len(audit_log')
    BY <1>1, <1>3 DEF ChainTyped, AuditLogGrows
  <2> QED
    BY <1>1, <1>3, <2>1, <2>2, GreenStays DEF ChainTyped
<1>4. CASE \E r \in Quotations : CreatePaymentHeader(r)
  BY <1>2, <1>3, <1>4 DEF CreatePaymentHeader
<1>5. CASE CallStep
  BY <1>2, <1>3, <1>5
  DEF CallStep, RefuseQuotation, BuildIntent, RouteTier, EvaluateCall, EvaluateRaises,
      BuildPayment, Autofill, BackendSigns, CallRaises, ReturnHeader, Fail
<1>6. ASSUME NEW h \in 1..Len(headers), Settle(h) PROVE SettledOnce' /\ ChainTyped'
  BY <1>6, SettlesOnce
<1>7. ASSUME NEW p \in Payments, OtherRail(p) PROVE SettledOnce' /\ ChainTyped'
  <2>1. ChainTyped'
    BY <1>7, CosignedGrows
  <2> QED
    BY <1>2, <1>7, <2>1 DEF OtherRail
<1>8. CASE OtherLands
  <2>1. /\ account_seq < Cardinality(settled) + Cardinality(cosigned)
        /\ account_seq' = account_seq + 1
        /\ UNCHANGED <<headers, ledger, settled, cosigned, audit_log>>
    BY <1>8 DEF OtherLands, riskVars, engineVars
  <2>2. SettledOnce'
    BY <1>1, <2>1, SettledStay
  <2>3. Cardinality(settled) \in Nat /\ Cardinality(cosigned) \in Nat
    BY Counted
  <2>4. account_seq' \in Cardinality(settled')..(Cardinality(settled') + Cardinality(cosigned'))
    BY <1>1, <2>1, <2>3 DEF ChainTyped
  <2> QED
    BY <2>1, <2>2, <2>4 DEF ChainTyped, Green
<1>9. CASE Restart \/ LedgerCloses \/ TimePasses \/ PriceChange \/ HumanReset
  BY <1>2, <1>3, <1>9 DEF Restart, LedgerCloses, TimePasses, PriceChange, HumanReset
<1>10. CASE UNCHANGED vars
  BY <1>2, <1>3, <1>10 DEF vars
<1> QED
  BY <1>4, <1>5, <1>6, <1>7, <1>8, <1>9, <1>10 DEF X402Next, Environment

-----------------------------------------------------------------------------
(* The second invariant.                                                   *)

\* At the start nothing has left.
LEMMA InitTraced == X402Init => Traced
<1> SUFFICES ASSUME X402Init PROVE Traced
  OBVIOUS
<1>1. TypeOK
  BY TypeInit DEF X402Init
<1>2. Len(audit_log) = 0 /\ Len(recent_tx_log) = 0 /\ clock = 0
  BY EmptySeq DEF X402Init, RiskInit
<1>3. IsFiniteSet({}) /\ Cardinality({}) = 0
  BY FS_EmptySet
<1>4. X402TypeOK
  BY <1>1, <1>2, <1>3, X402BoundAssumption DEF X402Init, X402TypeOK, NoCall, NoDecision
<1>5. SettledOnce
  BY <1>3 DEF X402Init, SettledOnce
<1>6. LogCompleteBut(Forgotten) /\ LifeVelocity
  BY <1>2 DEF LogCompleteBut, LifeVelocity
<1> QED
  BY <1>4, <1>5, <1>6 DEF Traced, X402Init, NoCall

\* Each step keeps the invariant.
LEMMA NextTraced == IInv /\ IInv' /\ Traced /\ [X402Next]_vars => Traced'
<1> SUFFICES ASSUME IInv, IInv', Traced, [X402Next]_vars PROVE Traced'
  OBVIOUS
<1>1. /\ TypeOK' /\ QuorumKnown' /\ CallTyped /\ ResultTyped /\ ChainTyped
      /\ restarts \subseteq 0..Len(audit_log)
  BY DEF IInv, Traced, X402TypeOK, CallTyped, ResultTyped, ChainTyped
<1>2. CallTyped' /\ ResultTyped'
  BY <1>1, CallTypedStep, ResultTypedStep
<1>3. SettledOnce' /\ ChainTyped'
  BY <1>1, SettledStep DEF Traced
<1>4. /\ restarts' \subseteq 0..Len(audit_log')
      /\ LogCompleteBut(Forgotten)' /\ LifeVelocity'
  BY <1>1, LifeStep DEF Traced
<1>5. X402TypeOK'
  BY <1>1, <1>2, <1>3, <1>4 DEF X402TypeOK, CallTyped, ResultTyped, ChainTyped, QuorumKnown
<1> QED
  BY <1>2, <1>3, <1>4, <1>5 DEF Traced, CallTyped, ChainTyped

\* Both invariants hold of every behaviour.
LEMMA X402Invariant == X402Spec => [](IInv /\ Traced)
<1>1. X402Init => IInv /\ Traced
  BY InitIInv, InitTraced
<1>2. IInv /\ Traced /\ [X402Next]_vars => (IInv /\ Traced)'
  BY NextIInv, NextTraced
<1> QED
  BY <1>1, <1>2, PTL DEF X402Spec

\* The rail and its engine keep their types (create_payment_header, evaluate).
THEOREM X402TypeCorrect == X402Spec => []X402TypeOK
<1>1. IInv /\ Traced => X402TypeOK
  BY DEF Traced
<1> QED
  BY <1>1, X402Invariant, PTL

-----------------------------------------------------------------------------
(* What is taken from the treasury.                                        *)

\* Verdicts of one life have no restart between them.
LEMMA SameLife ==
  ASSUME restarts \subseteq 0..Len(audit_log), Len(audit_log) \in Nat,
         NEW i \in Nat, NEW j \in Nat, j <= i, Lives(j) = Lives(i)
  PROVE  ~ \E r \in restarts : j <= r /\ r < i
<1> DEFINE Before(k) == {r \in restarts : r < k}
<1>1. IsFiniteSet(0..Len(audit_log))
  <2>1. 0 \in Int /\ Len(audit_log) \in Int
    OBVIOUS
  <2> QED
    BY <2>1, FS_Interval
<1>2. IsFiniteSet(Before(i))
  BY <1>1, FS_Subset
<1>3. \A r \in restarts : r \in Int
  OBVIOUS
<1>4. Before(j) \in SUBSET Before(i)
  <2>1. ASSUME NEW r \in restarts, r < j PROVE r < i
    <3>1. r \in Int /\ i \in Int /\ j \in Int
      BY <1>3
    <3> QED
      BY <2>1, <3>1
  <2> QED
    BY <2>1
<1>5. Cardinality(Before(i)) = Cardinality(Before(j))
  BY DEF Lives
<1>6. Before(i) = Before(j)
  BY <1>2, <1>4, <1>5, FS_Subset
<1> QED
  BY <1>3, <1>6

\* A non-empty set of verdicts has a last one.
LEMMA LastVerdict ==
  ASSUME NEW n \in Nat, NEW S \in SUBSET (1..n), S # {}
  PROVE  \E k \in S : \A j \in S : j <= k
<1> DEFINE Mirror == {n - j : j \in S}
<1>1. Mirror \in SUBSET Nat /\ Mirror # {}
  <2>1. ASSUME NEW j \in S PROVE n - j \in Nat
    <3>1. j \in 1..n
      OBVIOUS
    <3> QED
      BY <3>1
  <2>2. \E j \in S : TRUE
    OBVIOUS
  <2> QED
    BY <2>1, <2>2
<1>2. PICK m \in Mirror : \A x \in Mirror : m <= x
  BY <1>1, LeastNat
<1>3. PICK k \in S : m = n - k
  BY <1>2
<1>4. ASSUME NEW j \in S PROVE j <= k
  <2>1. n - k <= n - j
    BY <1>2, <1>3
  <2> QED
    BY <2>1
<1> QED
  BY <1>4

\* What either rail let go stands on a GREEN verdict.
LEMMA DeparturesGreen ==
  ASSUME IInv, Traced, NEW i \in Departures PROVE Green(i)
<1>1. CASE i \in cosigned
  BY <1>1 DEF Traced
<1>2. ASSUME NEW s \in settled, i = headers[s.header].verdict PROVE Green(i)
  <2>1. s.header \in 1..Len(headers)
    BY DEF Traced, SettledOnce
  <2> QED
    BY <1>2, <2>1 DEF IInv, HeadersKnown, Pays
<1> QED
  BY <1>1, <1>2 DEF Departures

\* The departures of a window are repeats of the last of them.
LEMMA DeparturesBounded ==
  ASSUME IInv, Traced PROVE DepartureVelocity
<1> DEFINE stamp(i) == audit_log[i].entry.timestamp
           span == FrequencyWindow - ClockSkew
           same(i) == {j \in Departures :
                         /\ Lives(j) = Lives(i)
                         /\ SameTransfer(audit_log[j].entry, audit_log[i].entry)
                         /\ stamp(j) \in (stamp(i) - span)..stamp(i)}
<1>1. /\ Len(audit_log) \in Nat /\ span \in Int /\ FrequencyLimit \in Nat
      /\ \A i \in 1..Len(audit_log) : stamp(i) \in Int
      /\ restarts \subseteq 0..Len(audit_log)
  BY IntegerTimestamps, FrequencyAssumption, SkewAssumption DEF IInv, Traced, X402TypeOK
<1>2. ASSUME NEW i \in Departures PROVE Cardinality(same(i)) <= FrequencyLimit
  <2> DEFINE S == same(i)
  <2>1. i \in 1..Len(audit_log) /\ S \in SUBSET (1..Len(audit_log))
    BY DeparturesGreen DEF Green
  <2>2. CASE S = {}
    <3>1. Cardinality({}) = 0
      BY FS_EmptySet
    <3>2. Cardinality(S) = 0
      BY <2>2, <3>1
    <3>3. Cardinality(S) <= FrequencyLimit
      <4> HIDE DEF S
      <4> QED
        BY <1>1, <3>2
    <3> QED
      BY <3>3
  <2>3. CASE S # {}
    <3>1. PICK k \in S : \A j \in S : j <= k
      BY <1>1, <2>1, <2>3, LastVerdict
    <3>2. k \in 1..Len(audit_log) /\ audit_log[k].risk_level # "RED"
      BY <2>1, <3>1, DeparturesGreen DEF Green
    <3>3. ASSUME NEW j \in S PROVE j \in Remembered(k)
      <4>1. j \in 1..k
        BY <2>1, <3>1
      <4>2. Lives(j) = Lives(k)
        BY <3>1
      <4>3. ~ \E r \in restarts : j <= r /\ r < k
        BY <1>1, <4>1, <4>2, SameLife
      <4>4. SameTransfer(audit_log[k].entry, audit_log[j].entry)
        BY <3>1 DEF SameTransfer
      <4>5. stamp(j) >= stamp(k) - span
        <5>1. /\ stamp(i) \in Int /\ stamp(j) \in Int /\ stamp(k) \in Int
              /\ stamp(j) >= stamp(i) - span /\ stamp(k) <= stamp(i)
          BY <1>1, <2>1, <3>1
        <5> QED
          BY <1>1, <5>1
      <4> QED
        BY <4>1, <4>3, <4>4, <4>5 DEF Remembered, Repeats
    <3>4. Cardinality(Remembered(k)) <= FrequencyLimit
      BY <3>2 DEF Traced, LifeVelocity
    <3>5. IsFiniteSet(Remembered(k))
      <4>1. IsFiniteSet(1..k)
        <5>1. 1 \in Int /\ k \in Int
          BY <3>2
        <5> QED
          BY <5>1, FS_Interval
      <4>2. Remembered(k) \in SUBSET (1..k)
        BY DEF Remembered, Repeats
      <4> QED
        BY <4>1, <4>2, FS_Subset
    <3>6. Cardinality(S) <= Cardinality(Remembered(k))
      <4>1. S \in SUBSET Remembered(k)
        BY <3>3
      <4> HIDE DEF S
      <4> QED
        BY <3>5, <4>1, FS_Subset
    <3>7. Cardinality(S) \in Nat /\ Cardinality(Remembered(k)) \in Nat
      <4>1. S \in SUBSET Remembered(k)
        BY <3>3
      <4> HIDE DEF S
      <4> QED
        BY <3>5, <4>1, FS_Subset, FS_CardinalityType
    <3>8. Cardinality(S) <= FrequencyLimit
      <4> HIDE DEF S
      <4> QED
        BY <1>1, <3>4, <3>6, <3>7
    <3> QED
      BY <3>8
  <2> QED
    BY <2>2, <2>3
<1>3. \A s \in settled :
        /\ \A r \in settled : r.header = s.header => r = s
        /\ s.ledger <= headers[s.header].tx.last_ledger_sequence
  BY DEF Traced, SettledOnce
<1> QED
  BY <1>2, <1>3 DEF DepartureVelocity

\* A header settles at most once and in time, and within one velocity window of
\* one life of the process at most FrequencyLimit verdicts on one transfer let
\* anything leave, on whichever rail (evaluate, autofill, _build_payment).
THEOREM DeparturesLimited == X402Spec => []DepartureVelocity
<1>1. IInv /\ Traced => DepartureVelocity
  BY DeparturesBounded
<1> QED
  BY <1>1, X402Invariant, PTL
=============================================================================
