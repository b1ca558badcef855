------------------------- MODULE ExternalSignerProofs -------------------------
(***************************************************************************)
(* Proofs about ExternalSigner: what stands behind a signature it releases,  *)
(* what the alert sink is told, how fast funds can leave, that nothing       *)
(* leaves while the breaker is tripped, and that sign() implements the gated *)
(* signing of GatedSigning; for any transactions, wirings, quorums, subjects *)
(* and treasury accounts, and however often the ledger, the price and the    *)
(* breaker change between the steps of a call.                              *)
(*                                                                         *)
(* The invariant follows a call through its stages.  A check that passed     *)
(* leaves two traces: the stage, and what the history variables saw since    *)
(* the call began; the invariant ties the two together.  The verdict a call  *)
(* stands on is the latest one until the call is over, since a call is the   *)
(* only thing that has anything evaluated.                                  *)
(***************************************************************************)
EXTENDS ExternalSigner, RiskEngineProofs

CallFields == {"stage", "tx", "payment", "ts", "tier", "pending"}

\* The call's stage and what it has learnt by then.
CallKnown ==
  /\ DOMAIN call = CallFields
  /\ call.stage \in Stages
  /\ call.payment \in Payments \cup {None}
  /\ call.ts \in 0..clock
  /\ call.tier \in Tiers \cup {"none"}
  /\ call.stage = "idle" => call = NoCall
  /\ call.stage # "idle" => call.tx \in Txs
  /\ call.stage \notin {"idle", "intent"} => call.tx.type \in SignableTypes
  /\ call.stage \in {"route", "evaluate"} =>
       /\ call.payment \in Payments
       /\ call.ts >= clock - ClockSkew
       /\ SameTransfer(call.payment, LogEntry(call.tx, 0))
  /\ call.stage \notin {"idle", "intent", "route"} => call.tier \in Tiers

\* s is what is left of the sequence whole after its first n elements.
Rest(s, whole, n) ==
  n \in 0..Len(whole) /\ s = SubSeq(whole, n + 1, Len(whole))

\* The subjects already taken off the queue were all seen to be valid.
PendingKnown ==
  /\ call.stage \notin {"identity", "multisign"} => call.pending = <<>>
  /\ call.stage = "identity" =>
       \/ call.pending = <<>> /\ ~wiring.verifier
       \/ \E n \in 0..Len(Subjects) :
            /\ Rest(call.pending, Subjects, n)
            /\ \A i \in 1..n : Subjects[i] \in seen_valid
  /\ call.stage = "multisign" =>
       /\ \E n \in 0..Len(Backends) : Rest(call.pending, Backends, n)
       /\ wiring.verifier => seen_valid = SubjectSet

\* What the call saw of the ledger includes what the ledger shows now.
LedgerKnown ==
  /\ wiring \in Wirings /\ account \in Accounts
  /\ credentialed \in SUBSET SubjectSet /\ changes \in 0..MaxChanges
  /\ call_start \in 0..Len(audit_log)
  /\ seen_intact \in BOOLEAN /\ seen_valid \in SUBSET SubjectSet
  /\ call.stage # "idle" =>
       (Intact(account) => seen_intact) /\ credentialed \subseteq seen_valid
  /\ call.stage \in {"identity", "multisign"} => (wiring.guard => seen_intact)

ResultKnown ==
  /\ outcome \in {"none", "signed", "refused", "raised"}
  /\ error \in {"none", "ComplianceReadError", "StaleRateError", "BackendError"}
  /\ last_decision.tier \in Tiers \cup {"none", "refused"}
  /\ last_decision.risk_level \in RiskLevels \cup {"none", "REFUSED"}
  /\ call.stage # "idle" => outcome = "none" /\ alerts = <<>>
  /\ call.stage \in {"intent", "route", "evaluate"} => last_decision = NoDecision

Green(i) == i \in 1..Len(audit_log) /\ audit_log[i].risk_level = "GREEN"

\* After the verdict the call stands on the latest one, which no signature
\* has used, and nothing is frozen.
VerdictStands ==
  call.stage \in {"treasury", "identity", "multisign"} =>
    /\ ~circuit_breaker_tripped
    /\ Judged
    /\ Green(Len(audit_log))
    /\ SameTransfer(call.tx, audit_log[Len(audit_log)].entry)
    /\ \A k \in 1..Len(released) : released[k].verdict < Len(audit_log)

ReleasedKnown ==
  /\ released \in Seq([tx : Txs, verdict : Nat])
  /\ \A k \in 1..Len(released) :
       /\ Green(released[k].verdict)
       /\ SameTransfer(released[k].tx, audit_log[released[k].verdict].entry)
       /\ \A m \in 1..(k - 1) : released[m].verdict < released[k].verdict

IInv ==
  /\ TypeOK /\ CallKnown /\ PendingKnown /\ LedgerKnown /\ ResultKnown
  /\ VerdictStands /\ ReleasedKnown /\ ReleasedOnLiveReads /\ AlertFidelity

-----------------------------------------------------------------------------
(* Operators.                                                              *)

\* A configuration the guard accepts is one that no key can get around
\* (XrplTreasuryConfigVerifier.verify against the ledger's own rule).
LEMMA AcceptedIsIntact ==
  ASSUME NEW a \in Accounts, ConfigAccepted(a, ExpectedSigners, ExpectedQuorum)
  PROVE  Intact(a)
<1> DEFINE list == a.signer_lists[1]
<1>1. /\ ~a.regular_key /\ a.master_disabled /\ Len(a.signer_lists) = 1
      /\ list.quorum = ExpectedQuorum
      /\ \A e \in list.entries : e.weight < ExpectedQuorum
      /\ {e.account : e \in list.entries} = ExpectedSigners
  BY DEF ConfigAccepted, SignerListAsExpected
<1>2. 1..Len(a.signer_lists) = {1}
  BY <1>1
<1>3. \A e \in list.entries : ~(e.weight >= list.quorum)
  <2>1. ExpectedQuorum \in Nat /\ \A e \in list.entries : e.weight \in Nat
    BY <1>2, WeightAssumption
  <2> QED
    BY <1>1, <2>1
<1>4. {x \in list.entries : x.weight >= list.quorum} = {}
  BY <1>3
<1>5. UNION {{e.account : e \in {x \in a.signer_lists[i].entries :
                                   x.weight >= a.signer_lists[i].quorum}} :
               i \in 1..Len(a.signer_lists)} = {}
  <2> HIDE DEF list
  <2>1. {e.account : e \in {x \in list.entries : x.weight >= list.quorum}} = {}
    BY <1>4, Zenon
  <2> QED
    BY <1>2, <2>1 DEF list
<1>6. LoneAuthorities(a) = {}
  BY <1>1, <1>5 DEF LoneAuthorities
<1>7. \A i \in 1..Len(a.signer_lists) :
        {e.account : e \in a.signer_lists[i].entries} \subseteq ExpectedSigners
  BY <1>1, <1>2
<1> QED
  BY <1>6, <1>7 DEF Intact

\* Taking the head off what is left leaves the rest of the sequence.
LEMMA RestStep ==
  ASSUME NEW S, NEW whole \in Seq(S), NEW n, NEW s, Rest(s, whole, n)
  PROVE  /\ s = <<>> => n = Len(whole)
         /\ s # <<>> => /\ n + 1 \in 1..Len(whole)
                        /\ Head(s) = whole[n + 1]
                        /\ Rest(Tail(s), whole, n + 1)
<1>1. Len(whole) \in Nat /\ n \in 0..Len(whole) /\ s = SubSeq(whole, n + 1, Len(whole))
  BY LenProperties DEF Rest
<1>2. CASE n = Len(whole)
  BY <1>1, <1>2, SubSeqEmpty
<1>3. CASE n < Len(whole)
  <2>1. n + 1 \in 1..Len(whole) /\ Len(whole) \in (n + 1)..Len(whole)
    BY <1>1, <1>3
  <2>2. Head(s) = whole[n + 1] /\ Tail(s) = SubSeq(whole, n + 1 + 1, Len(whole))
    BY <1>1, <2>1, HeadTailOfSubSeq
  <2>3. s # <<>>
    <3>1. \A i \in (n + 1)..Len(whole) : whole[i] \in S
      BY <1>1, ElementOfSeq
    <3>2. Len(s) = Len(whole) - (n + 1) + 1
      BY <1>1, <1>3, <3>1, SubSeqProperties
    <3>3. Len(s) # 0 /\ Len(<<>>) = 0
      BY <1>1, <1>3, <3>2, EmptySeq
    <3> QED
      BY <3>3
  <2> QED
    BY <2>1, <2>2, <2>3 DEF Rest
<1> QED
  BY <1>1, <1>2, <1>3

\* At first the whole sequence is left.
LEMMA RestWhole ==
  ASSUME NEW S, NEW whole \in Seq(S)
  PROVE  Rest(whole, whole, 0)
<1>1. Len(whole) \in Nat /\ SubSeq(whole, 1, Len(whole)) = whole
  BY LenProperties, SubSeqFull
<1> QED
  BY <1>1 DEF Rest

\* The first alert of a call.
LEMMA OneAlert ==
  ASSUME NEW e
  PROVE  Len(Append(<<>>, e)) = 1 /\ Append(<<>>, e)[1] = e
<1>1. <<>> \in Seq({e}) /\ e \in {e} /\ Len(<<>>) = 0
  BY EmptySeq
<1>2. Len(Append(<<>>, e)) = Len(<<>>) + 1 /\ Append(<<>>, e)[Len(<<>>) + 1] = e
  BY <1>1, AppendProperties
<1> QED
  BY <1>1, <1>2

-----------------------------------------------------------------------------
(* The engine.                                                             *)

\* Whatever a call and the world do, the engine takes a step of its own or
\* none: the intent it judges is known, and no older than ClockSkew.
LEMMA EngineStep ==
  ASSUME TypeOK, CallKnown, [SignerNext]_vars
  PROVE  [RiskNext]_riskVars
<1>1. CASE EvaluateCall
  <2>1. call.payment \in Payments /\ call.ts \in (clock - ClockSkew)..clock
    <3>1. /\ call.payment \in Payments /\ call.ts \in 0..clock
          /\ call.ts >= clock - ClockSkew
      BY <1>1 DEF EvaluateCall, CallKnown, InCall
    <3>2. clock \in Int /\ ClockSkew \in Int
      BY IntegerTimestamps, SkewAssumption
    <3> QED
      BY <3>1, <3>2
  <2> QED
    BY <1>1, <2>1 DEF EvaluateCall, RiskNext
<1>2. ASSUME NEW t, Sign(t) PROVE UNCHANGED riskVars
  BY <1>2 DEF Sign
<1>3. CASE \/ RefuseType \/ RefuseIntent \/ ComplianceReadFails \/ BuildIntent
           \/ RouteTier \/ EvaluateRaises \/ VerifyTreasury \/ VerifyIdentity
           \/ BackendSigns \/ ReturnSigned \/ GovernanceChange \/ CredentialChange
  BY <1>3 DEF RefuseType, RefuseIntent, ComplianceReadFails, BuildIntent, RouteTier,
     EvaluateRaises, VerifyTreasury, VerifyIdentity, BackendSigns, ReturnSigned,
     GovernanceChange, CredentialChange
<1>4. CASE TimePasses \/ PriceChange \/ HumanReset
  BY <1>4 DEF TimePasses, PriceChange, HumanReset, RiskNext
<1>5. CASE UNCHANGED vars
  BY <1>5 DEF vars
<1> QED
  BY <1>1, <1>2, <1>3, <1>4, <1>5 DEF SignerNext, CallStep, Environment

\* The verdicts given stay as they are.
AuditLogGrows ==
  /\ Len(audit_log) \in Nat /\ Len(audit_log') \in Nat
  /\ Len(audit_log) <= Len(audit_log')
  /\ \A i \in 1..Len(audit_log) : audit_log'[i] = audit_log[i]

LEMMA LogStays ==
  ASSUME TypeOK, UNCHANGED audit_log PROVE AuditLogGrows
BY LenProperties DEF TypeOK, AuditLogGrows

\* So the signatures released stay accounted for.
LEMMA ReleasedStay ==
  ASSUME ReleasedKnown, AuditLogGrows, UNCHANGED released
  PROVE  ReleasedKnown'
<1>1. ASSUME NEW k \in 1..Len(released)
      PROVE  /\ Green(released[k].verdict)'
             /\ SameTransfer(released[k].tx, audit_log[released[k].verdict].entry)'
  <2>1. /\ Green(released[k].verdict)
        /\ SameTransfer(released[k].tx, audit_log[released[k].verdict].entry)
    BY DEF ReleasedKnown
  <2>2. /\ released[k].verdict \in 1..Len(audit_log')
        /\ audit_log'[released[k].verdict] = audit_log[released[k].verdict]
    BY <2>1 DEF Green, AuditLogGrows
  <2> QED
    BY <2>1, <2>2 DEF Green, SameTransfer
<1> QED
  BY <1>1 DEF ReleasedKnown

\* An evaluation that comes out GREEN finds and leaves the breaker untripped.
LEMMA GreenIsUntripped ==
  ASSUME TypeOK, NEW p \in Payments, NEW ts \in (clock - ClockSkew)..clock,
         Evaluate(p, ts), audit_log'[Len(audit_log')].risk_level = "GREEN"
  PROVE  ~circuit_breaker_tripped'
<1> DEFINE level == RiskLevel(FiredReasons(p, Prune(recent_tx_log, ts)))
<1>1. level = "GREEN"
  <2>1. /\ Len(audit_log') = Len(audit_log) + 1
        /\ audit_log'[Len(audit_log) + 1].risk_level = level
    BY EvaluateLogs
  <2> QED
    BY <2>1
<1>2. ~circuit_breaker_tripped
  BY <1>1, TrippedIsRed
<1>3. circuit_breaker_tripped' =
        (circuit_breaker_tripped \/ (level = "RED" /\ ~circuit_breaker_tripped))
  BY DEF Evaluate
<1> QED
  BY <1>1, <1>2, <1>3

\* One evaluation adds one verdict, and it has fired something unless GREEN.
LEMMA EvaluationGrows ==
  ASSUME TypeOK, NEW p \in Payments, NEW ts \in (clock - ClockSkew)..clock,
         Evaluate(p, ts)
  PROVE  /\ AuditLogGrows /\ Len(audit_log') = Len(audit_log) + 1
         /\ audit_log'[Len(audit_log')].entry = LogEntry(p, ts)
         /\ audit_log'[Len(audit_log')].risk_level \in RiskLevels
         /\ audit_log'[Len(audit_log')].risk_level # "GREEN" =>
              audit_log'[Len(audit_log')].fired_reasons # {}
<1> DEFINE fired == FiredReasons(p, Prune(recent_tx_log, ts))
<1>1. Len(audit_log) \in Nat
  BY LenProperties DEF TypeOK
<1>2. /\ Len(audit_log') = Len(audit_log) + 1
      /\ \A i \in 1..Len(audit_log) : audit_log'[i] = audit_log[i]
      /\ audit_log'[Len(audit_log) + 1].entry = LogEntry(p, ts)
      /\ audit_log'[Len(audit_log) + 1].risk_level = RiskLevel(fired)
      /\ audit_log'[Len(audit_log) + 1].fired_reasons = fired
  BY EvaluateLogs
<1>3. RiskLevel(fired) \in RiskLevels /\ (RiskLevel(fired) # "GREEN" => fired # {})
  BY DEF RiskLevel, RiskLevels
<1> QED
  BY <1>1, <1>2, <1>3 DEF AuditLogGrows

-----------------------------------------------------------------------------
(* How a call ends.                                                        *)

\* A call that is over has nothing left to account for but its result.
LEMMA CallOver ==
  ASSUME TypeOK', call' = NoCall
  PROVE  CallKnown' /\ PendingKnown' /\ VerdictStands'
<1>1. 0 \in 0..clock'
  BY DEF TypeOK
<1> QED
  BY <1>1 DEF NoCall, CallFields, CallKnown, PendingKnown, VerdictStands, Stages

\* What the call and the ledger are known to be stays known while the call
\* ends, goes on to a stage before the treasury check, or stays where it is.
LEMMA LedgerStays ==
  ASSUME LedgerKnown, AuditLogGrows, UNCHANGED <<wiring, ledgerVars, seenVars, call_start>>,
         call'.stage # "idle" => call.stage # "idle",
         call'.stage \in {"identity", "multisign"} =>
           call.stage \in {"identity", "multisign"}
  PROVE  LedgerKnown'
BY DEF LedgerKnown, AuditLogGrows, ledgerVars, seenVars, Intact, SubjectSet

\* A refusal tells the sink once, when there is one: of the decision
\* recorded, which is a refusal of another gate or the verdict itself.
LEMMA RefuseKeeps ==
  ASSUME IInv, TypeOK', AuditLogGrows, call.stage # "idle",
         NEW decision, Refuse(decision),
         UNCHANGED <<wiring, ledgerVars, seenVars, historyVars>>,
         \/ decision = NoDecision
         \/ \E reason : decision = Refused(reason)
         \/ /\ decision.tier \in Tiers
            /\ decision.risk_level \in RiskLevels
            /\ decision.fired_reasons # {}
            /\ Len(audit_log') > call_start
            /\ decision.risk_level = audit_log'[Len(audit_log')].risk_level
            /\ decision.fired_reasons = audit_log'[Len(audit_log')].fired_reasons
  PROVE  IInv'
<1> DEFINE told == IF decision = NoDecision THEN Refused("untyped") ELSE decision
<1>1. /\ call' = NoCall /\ outcome' = "refused" /\ error' = "none"
      /\ last_decision' = decision
      /\ alerts' = IF ~wiring.sink THEN alerts ELSE Append(alerts, told)
  BY DEF Refuse
<1>2. call'.stage = "idle" /\ alerts = <<>>
  BY <1>1 DEF IInv, ResultKnown, NoCall
<1>3. CallKnown' /\ PendingKnown' /\ VerdictStands'
  BY <1>1, CallOver
<1>4. LedgerKnown'
  BY <1>2, LedgerStays DEF IInv, historyVars
<1>5. ReleasedKnown'
  BY ReleasedStay DEF IInv, historyVars
<1>6. ResultKnown'
  BY <1>1, <1>2 DEF ResultKnown, NoDecision, Refused
<1>7. ReleasedOnLiveReads'
  BY <1>1 DEF ReleasedOnLiveReads
<1>8. AlertFidelity'
  <2>1. \/ told.risk_level = "REFUSED"
        \/ /\ Judged' /\ told.fired_reasons # {}
           /\ told.risk_level = audit_log'[Len(audit_log')].risk_level
           /\ told.fired_reasons = audit_log'[Len(audit_log')].fired_reasons
    <3>1. CASE decision = NoDecision
      BY <3>1 DEF Refused
    <3>2. CASE decision # NoDecision /\ \E reason : decision = Refused(reason)
      BY <3>2 DEF Refused
    <3>3. CASE decision # NoDecision /\ ~ \E reason : decision = Refused(reason)
      BY <3>3 DEF Judged, historyVars
    <3> QED
      BY <3>1, <3>2, <3>3
  <2> HIDE DEF told
  <2>2. CASE ~wiring.sink
    <3>1. alerts' = <<>> /\ Len(alerts') = 0 /\ wiring' = wiring
      BY <1>1, <1>2, <2>2, EmptySeq
    <3> QED
      BY <2>2, <3>1 DEF AlertFidelity
  <2>3. CASE wiring.sink
    <3>1. alerts' = Append(<<>>, told)
      BY <1>1, <1>2, <2>3
    <3>2. Len(alerts') = 1 /\ alerts'[1] = told
      BY <3>1, OneAlert
    <3>3. \A i \in 1..Len(alerts') : alerts'[i] = told
      BY <3>2
    <3>4. Len(alerts') = IF outcome' = "refused" /\ wiring'.sink THEN 1 ELSE 0
      BY <1>1, <2>3, <3>2
    <3> QED
      BY <2>1, <3>3, <3>4 DEF AlertFidelity, InCall
  <2> QED
    BY <2>2, <2>3
<1> QED
  BY <1>3, <1>4, <1>5, <1>6, <1>7, <1>8 DEF IInv

\* An exception that is not a refusal tells nobody.
LEMMA RaiseKeeps ==
  ASSUME IInv, TypeOK', AuditLogGrows, call.stage # "idle",
         NEW kind \in {"ComplianceReadError", "StaleRateError", "BackendError"},
         Raise(kind), UNCHANGED <<wiring, ledgerVars, seenVars, historyVars>>
  PROVE  IInv'
<1>1. /\ call' = NoCall /\ outcome' = "raised" /\ error' = kind
      /\ UNCHANGED <<last_decision, alerts>>
  BY DEF Raise
<1>2. call'.stage = "idle" /\ alerts = <<>> /\ Len(alerts) = 0
  BY <1>1, EmptySeq DEF IInv, ResultKnown, NoCall
<1>3. CallKnown' /\ PendingKnown' /\ VerdictStands'
  BY <1>1, CallOver
<1>4. LedgerKnown'
  BY <1>2, LedgerStays DEF IInv, historyVars
<1>5. ReleasedKnown'
  BY ReleasedStay DEF IInv, historyVars
<1>6. ResultKnown'
  BY <1>1, <1>2 DEF IInv, ResultKnown
<1>7. ReleasedOnLiveReads'
  BY <1>1 DEF ReleasedOnLiveReads
<1>8. AlertFidelity'
  BY <1>1, <1>2 DEF AlertFidelity
<1> QED
  BY <1>3, <1>4, <1>5, <1>6, <1>7, <1>8 DEF IInv

\* The signature returned is for the transfer judged in this call.
LEMMA ReturnSignedKeeps ==
  ASSUME IInv, TypeOK', ReturnSigned PROVE IInv'
<1> DEFINE n == Len(released)
           new == [tx |-> call.tx, verdict |-> Len(audit_log)]
<1>1. /\ call.stage = "multisign" /\ call' = NoCall /\ outcome' = "signed"
      /\ error' = "none" /\ released' = Append(released, new)
      /\ UNCHANGED <<last_decision, alerts, call_start, riskVars, wiring,
                     ledgerVars, seenVars>>
  BY DEF ReturnSigned, Release, InCall
<1>2. UNCHANGED audit_log /\ AuditLogGrows
  BY <1>1, LogStays DEF IInv, riskVars, engineVars
<1>3. /\ call.tx \in Txs /\ call.tx.type \in SignableTypes
      /\ Judged /\ Green(Len(audit_log))
      /\ SameTransfer(call.tx, audit_log[Len(audit_log)].entry)
      /\ \A k \in 1..n : released[k].verdict < Len(audit_log)
  BY <1>1 DEF IInv, CallKnown, VerdictStands
<1>4. /\ n \in Nat
      /\ released' \in Seq([tx : Txs, verdict : Nat])
      /\ Len(released') = n + 1
      /\ \A i \in 1..n : released'[i] = released[i]
      /\ released'[n + 1] = new
  <2>1. new \in [tx : Txs, verdict : Nat]
    BY <1>2, <1>3 DEF AuditLogGrows
  <2>2. released \in Seq([tx : Txs, verdict : Nat]) /\ n \in Nat
    BY LenProperties DEF IInv, ReleasedKnown
  <2> HIDE DEF new
  <2> QED
    BY <1>1, <2>1, <2>2, AppendProperties
<1>5. /\ CallKnown' /\ PendingKnown' /\ VerdictStands'
  BY <1>1, CallOver
<1>6. LedgerKnown'
  BY <1>1, <1>2, LedgerStays DEF IInv, NoCall
<1>7. ResultKnown' /\ AlertFidelity'
  <2>1. alerts' = <<>> /\ Len(alerts') = 0 /\ call'.stage = "idle"
    BY <1>1, EmptySeq DEF IInv, ResultKnown, NoCall
  <2> QED
    BY <1>1, <2>1 DEF IInv, ResultKnown, AlertFidelity
<1> HIDE DEF n
<1>8. ASSUME NEW k \in 1..(n + 1)
      PROVE  /\ released'[k].verdict \in 1..Len(audit_log)
             /\ audit_log[released'[k].verdict].risk_level = "GREEN"
             /\ SameTransfer(released'[k].tx, audit_log[released'[k].verdict].entry)
             /\ \A m \in 1..(k - 1) : released'[m].verdict < released'[k].verdict
  <2>1. CASE k = n + 1
    <3>1. released'[k].tx = call.tx /\ released'[k].verdict = Len(audit_log)
      BY <1>4, <2>1
    <3>2. \A m \in 1..(k - 1) : m \in 1..n /\ released'[m] = released[m]
      BY <1>4, <2>1
    <3> QED
      BY <1>3, <3>1, <3>2 DEF Green
  <2>2. CASE k \in 1..n
    <3>1. /\ Green(released[k].verdict)
          /\ SameTransfer(released[k].tx, audit_log[released[k].verdict].entry)
          /\ \A m \in 1..(k - 1) : released[m].verdict < released[k].verdict
      BY <2>2 DEF IInv, ReleasedKnown, n
    <3>2. \A m \in 1..(k - 1) : m \in 1..n
      BY <1>4, <2>2
    <3> QED
      BY <1>4, <2>2, <3>1, <3>2 DEF Green
  <2> QED
    BY <1>4, <2>1, <2>2
<1>9. ReleasedKnown'
  BY <1>2, <1>4, <1>8 DEF ReleasedKnown, Green, SameTransfer
<1>10. ReleasedOnLiveReads'
  <2>1. released'[Len(released')] = new
    BY <1>4
  <2>2. wiring.guard => seen_intact
    BY <1>1 DEF IInv, LedgerKnown
  <2>3. wiring.verifier => seen_valid = SubjectSet
    BY <1>1 DEF IInv, PendingKnown
  <2>4. UNCHANGED <<seen_intact, seen_valid, call_start, wiring>>
    BY <1>1 DEF seenVars
  <2> QED
    BY <1>2, <1>3, <2>1, <2>2, <2>3, <2>4
    DEF ReleasedOnLiveReads, Judged, Green, SameTransfer, SubjectSet
<1> QED
  BY <1>5, <1>6, <1>7, <1>9, <1>10 DEF IInv

-----------------------------------------------------------------------------
(* How a call goes on.                                                     *)

LEMMA SignKeeps ==
  ASSUME IInv, TypeOK', NEW t \in Txs, Sign(t) PROVE IInv'
<1>1. /\ call' = [NoCall EXCEPT !.stage = "intent", !.tx = t]
      /\ last_decision' = NoDecision /\ alerts' = <<>> /\ outcome' = "none"
      /\ error' = "none" /\ call_start' = Len(audit_log)
      /\ seen_intact' = Intact(account) /\ seen_valid' = credentialed
      /\ UNCHANGED <<riskVars, wiring, account, credentialed, changes, released>>
  BY DEF Sign, ledgerVars
<1>2. UNCHANGED audit_log /\ AuditLogGrows
  BY <1>1, LogStays DEF IInv, riskVars, engineVars
<1>3. /\ DOMAIN call' = CallFields /\ call'.stage = "intent" /\ call'.tx = t
      /\ call'.payment = None /\ call'.ts = 0 /\ call'.tier = "none"
      /\ call'.pending = <<>>
  BY <1>1 DEF NoCall, CallFields
<1>4. CallKnown'
  <2>1. 0 \in 0..clock'
    BY DEF TypeOK
  <2> QED
    BY <1>3, <2>1 DEF CallKnown, Stages
<1>5. PendingKnown' /\ VerdictStands'
  BY <1>3 DEF PendingKnown, VerdictStands
<1>6. LedgerKnown'
  BY <1>1, <1>2, <1>3 DEF IInv, LedgerKnown, AuditLogGrows, Intact, SubjectSet
<1>7. ResultKnown' /\ ReleasedOnLiveReads'
  BY <1>1, <1>3 DEF ResultKnown, ReleasedOnLiveReads, NoDecision
<1>8. AlertFidelity'
  <2>1. Len(alerts') = 0
    BY <1>1, EmptySeq
  <2> QED
    BY <1>1, <1>3, <2>1 DEF AlertFidelity, InCall
<1>9. ReleasedKnown'
  BY <1>1, <1>2, ReleasedStay DEF IInv
<1> QED
  BY <1>4, <1>5, <1>6, <1>7, <1>8, <1>9 DEF IInv

\* A step in the middle of a call that evaluates nothing.
LEMMA CallMoves ==
  ASSUME IInv, UNCHANGED <<riskVars, resultVars, released>>,
         call.stage # "idle", call'.stage # "idle"
  PROVE  /\ AuditLogGrows /\ UNCHANGED audit_log
         /\ ReleasedKnown' /\ ReleasedOnLiveReads' /\ AlertFidelity'
<1>1. UNCHANGED audit_log /\ AuditLogGrows
  BY LogStays DEF IInv, riskVars, engineVars
<1>2. ReleasedKnown'
  BY <1>1, ReleasedStay DEF IInv
<1>3. outcome' = "none" /\ alerts' = <<>> /\ Len(alerts') = 0
  BY EmptySeq DEF IInv, ResultKnown, resultVars
<1> QED
  BY <1>1, <1>2, <1>3 DEF ReleasedOnLiveReads, AlertFidelity, InCall

\* The verdict stands while nothing is evaluated and the call goes on.
LEMMA VerdictStays ==
  ASSUME VerdictStands, UNCHANGED <<audit_log, released, call_start>>,
         circuit_breaker_tripped' => circuit_breaker_tripped,
         call'.stage \in {"treasury", "identity", "multisign"} =>
           /\ call.stage \in {"treasury", "identity", "multisign"}
           /\ call'.tx = call.tx
  PROVE  VerdictStands'
BY DEF VerdictStands, Judged, Green, SameTransfer

LEMMA BuildIntentKeeps ==
  ASSUME IInv, TypeOK', BuildIntent PROVE IInv'
<1>1. /\ call.stage = "intent" /\ call.tx.type \in SignableTypes
      /\ UNCHANGED <<riskVars, resultVars, wiring, ledgerVars, seenVars, historyVars>>
  BY DEF BuildIntent, InCall
<1>2. PICK p \in Payments :
        /\ SameTransfer(p, LogEntry(call.tx, clock))
        /\ call' = [call EXCEPT !.stage = "route", !.payment = p, !.ts = clock]
  BY DEF BuildIntent
<1>3. /\ DOMAIN call' = CallFields /\ call'.stage = "route" /\ call'.tx = call.tx
      /\ call'.payment = p /\ call'.ts = clock /\ call'.tier = call.tier
      /\ call'.pending = <<>> /\ call.tx \in Txs /\ call.tier \in Tiers \cup {"none"}
  BY <1>1, <1>2 DEF IInv, CallKnown, CallFields, PendingKnown
<1>4. /\ AuditLogGrows /\ UNCHANGED audit_log
      /\ ReleasedKnown' /\ ReleasedOnLiveReads' /\ AlertFidelity'
  BY <1>1, <1>3, CallMoves DEF historyVars
<1>5. CallKnown'
  <2>1. clock' = clock /\ clock \in 0..clock /\ clock >= clock - ClockSkew
    BY <1>1, SkewAssumption, BoundAssumption DEF IInv, TypeOK, riskVars, marketVars
  <2>2. SameTransfer(p, LogEntry(call.tx, 0))
    BY <1>2 DEF SameTransfer, LogEntry
  <2> QED
    BY <1>1, <1>3, <2>1, <2>2 DEF CallKnown, Stages, SameTransfer, LogEntry
<1>6. LedgerKnown'
  BY <1>1, <1>3, <1>4, LedgerStays DEF IInv, historyVars
<1>7. ResultKnown' /\ PendingKnown' /\ VerdictStands'
  BY <1>1, <1>3 DEF IInv, ResultKnown, PendingKnown, VerdictStands, resultVars
<1> QED
  BY <1>4, <1>5, <1>6, <1>7 DEF IInv

LEMMA RouteTierKeeps ==
  ASSUME IInv, TypeOK', RouteTier PROVE IInv'
<1>1. /\ call.stage = "route"
      /\ UNCHANGED <<riskVars, wiring, ledgerVars, seenVars, historyVars>>
  BY DEF RouteTier, InCall
<1>2. CASE Raise("StaleRateError")
  BY <1>1, <1>2, RaiseKeeps, LogStays DEF IInv, riskVars, engineVars
<1>3. ASSUME NEW tier \in Tiers, UNCHANGED resultVars,
             call' = [call EXCEPT !.stage = "evaluate", !.tier = tier]
      PROVE  IInv'
  <2>1. /\ DOMAIN call' = CallFields /\ call'.stage = "evaluate"
        /\ call'.tx = call.tx /\ call'.payment = call.payment /\ call'.ts = call.ts
        /\ call'.tier = tier /\ call'.pending = <<>>
    BY <1>1, <1>3 DEF IInv, CallKnown, CallFields, PendingKnown
  <2>2. /\ AuditLogGrows /\ UNCHANGED audit_log
        /\ ReleasedKnown' /\ ReleasedOnLiveReads' /\ AlertFidelity'
    BY <1>1, <1>3, <2>1, CallMoves DEF historyVars
  <2>3. clock' = clock
    BY <1>1 DEF riskVars, marketVars
  <2>4. CallKnown'
    BY <1>1, <2>1, <2>3 DEF IInv, CallKnown, Stages, SameTransfer, LogEntry
  <2>5. LedgerKnown'
    BY <1>1, <2>1, <2>2, LedgerStays DEF IInv, historyVars
  <2>6. ResultKnown' /\ PendingKnown' /\ VerdictStands'
    BY <1>1, <1>3, <2>1 DEF IInv, ResultKnown, PendingKnown, VerdictStands, resultVars
  <2> QED
    BY <2>2, <2>4, <2>5, <2>6 DEF IInv
<1>4. "quorum_backstop" \in Tiers /\ Route(call.payment, quote) \in Tiers
  BY DEF Tiers, Route
<1> QED
  BY <1>2, <1>3, <1>4 DEF RouteTier

LEMMA EvaluateCallKeeps ==
  ASSUME IInv, TypeOK', EvaluateCall PROVE IInv'
<1> DEFINE last     == Len(audit_log')
           decision == [tier |-> call.tier, risk_level |-> audit_log'[last].risk_level,
                        fired_reasons |-> audit_log'[last].fired_reasons]
<1>1. /\ call.stage = "evaluate" /\ Evaluate(call.payment, call.ts)
      /\ UNCHANGED <<wiring, ledgerVars, seenVars, historyVars>>
      /\ \/ /\ audit_log'[last].risk_level = "GREEN"
            /\ call' = [call EXCEPT !.stage = "treasury"]
            /\ last_decision' = decision
            /\ UNCHANGED <<alerts, outcome, error>>
         \/ audit_log'[last].risk_level # "GREEN" /\ Refuse(decision)
  BY DEF EvaluateCall, InCall
<1>2. call.payment \in Payments /\ call.ts \in (clock - ClockSkew)..clock
  <2>1. call.payment \in Payments /\ call.ts \in 0..clock /\ call.ts >= clock - ClockSkew
    BY <1>1 DEF IInv, CallKnown
  <2>2. clock \in Int /\ ClockSkew \in Int
    BY IntegerTimestamps, SkewAssumption DEF IInv
  <2> QED
    BY <2>1, <2>2
<1>3. /\ AuditLogGrows /\ last = Len(audit_log) + 1
      /\ audit_log'[last].entry = LogEntry(call.payment, call.ts)
      /\ audit_log'[last].risk_level \in RiskLevels
      /\ audit_log'[last].risk_level # "GREEN" => audit_log'[last].fired_reasons # {}
  BY <1>1, <1>2, EvaluationGrows DEF IInv
<1>4. call_start \in 0..Len(audit_log) /\ last > call_start
  BY <1>3 DEF IInv, LedgerKnown, AuditLogGrows
<1>5. CASE audit_log'[last].risk_level # "GREEN" /\ Refuse(decision)
  BY <1>1, <1>3, <1>4, <1>5, RefuseKeeps DEF IInv, CallKnown
<1>6. CASE /\ audit_log'[last].risk_level = "GREEN"
           /\ call' = [call EXCEPT !.stage = "treasury"]
           /\ last_decision' = decision
           /\ UNCHANGED <<alerts, outcome, error>>
  <2>1. /\ DOMAIN call' = CallFields /\ call'.stage = "treasury"
        /\ call'.tx = call.tx /\ call'.payment = call.payment /\ call'.ts = call.ts
        /\ call'.tier = call.tier /\ call'.pending = <<>>
    BY <1>1, <1>6 DEF IInv, CallKnown, CallFields, PendingKnown
  <2>2. clock' = clock
    BY <1>1 DEF Evaluate, marketVars
  <2>3. CallKnown'
    BY <1>1, <2>1, <2>2 DEF IInv, CallKnown, Stages
  <2>4. ReleasedKnown'
    BY <1>1, <1>3, ReleasedStay DEF IInv, historyVars
  <2>5. LedgerKnown'
    BY <1>1, <1>3, <2>1, LedgerStays DEF IInv, historyVars
  <2>6. ResultKnown'
    <3>1. decision.tier \in Tiers /\ decision.risk_level \in RiskLevels
      BY <1>1, <1>3 DEF IInv, CallKnown
    <3> HIDE DEF decision
    <3> QED
      BY <1>1, <1>6, <2>1, <3>1 DEF IInv, ResultKnown
  <2>7. ReleasedOnLiveReads' /\ AlertFidelity'
    <3>1. outcome' = "none" /\ alerts' = <<>> /\ Len(alerts') = 0
      BY <1>1, <1>6, EmptySeq DEF IInv, ResultKnown
    <3> QED
      BY <2>1, <3>1 DEF ReleasedOnLiveReads, AlertFidelity, InCall
  <2>8. PendingKnown'
    BY <2>1 DEF PendingKnown
  <2>9. VerdictStands'
    <3>1. ~circuit_breaker_tripped'
      BY <1>1, <1>2, <1>6, GreenIsUntripped DEF IInv
    <3>2. Judged' /\ Green(Len(audit_log))'
      BY <1>1, <1>3, <1>4, <1>6 DEF Judged, Green, AuditLogGrows, historyVars
    <3>3. SameTransfer(call.tx, audit_log[Len(audit_log)].entry)'
      BY <1>1, <1>3, <2>1 DEF IInv, CallKnown, SameTransfer, LogEntry
    <3>4. ASSUME NEW k \in 1..Len(released')
          PROVE  released'[k].verdict < Len(audit_log')
      <4>1. released' = released /\ Green(released[k].verdict)
        BY <1>1 DEF IInv, ReleasedKnown, historyVars
      <4> QED
        BY <1>3, <4>1 DEF Green, AuditLogGrows
    <3> QED
      BY <3>1, <3>2, <3>3, <3>4 DEF VerdictStands
  <2> QED
    BY <2>3, <2>4, <2>5, <2>6, <2>7, <2>8, <2>9 DEF IInv
<1> QED
  BY <1>1, <1>5, <1>6

\* A check of the call, or a backend, lets it go on: what of the invariant
\* does not depend on which stage comes next.
LEMMA CheckPasses ==
  ASSUME IInv, NEW stage \in {"identity", "multisign"}, NEW pending,
         call.stage \in {"treasury", "identity", "multisign"},
         Advance(stage, pending),
         UNCHANGED <<riskVars, wiring, ledgerVars, seenVars, historyVars>>
  PROVE  /\ call'.stage = stage /\ call'.pending = pending /\ CallKnown'
         /\ ResultKnown' /\ VerdictStands'
         /\ ReleasedKnown' /\ ReleasedOnLiveReads' /\ AlertFidelity'
         /\ (wiring.guard => seen_intact) => LedgerKnown'
<1>1. call' = [call EXCEPT !.stage = stage, !.pending = pending] /\ UNCHANGED resultVars
  BY DEF Advance
<1>2. /\ DOMAIN call' = CallFields /\ call'.stage = stage
      /\ call'.tx = call.tx /\ call'.payment = call.payment /\ call'.ts = call.ts
      /\ call'.tier = call.tier /\ call'.pending = pending
  BY <1>1 DEF IInv, CallKnown, CallFields
<1>3. /\ AuditLogGrows /\ UNCHANGED audit_log
      /\ ReleasedKnown' /\ ReleasedOnLiveReads' /\ AlertFidelity'
  BY <1>1, <1>2, CallMoves DEF historyVars
<1>4. UNCHANGED <<clock, circuit_breaker_tripped, released, call_start>>
  BY DEF riskVars, engineVars, breakerVars, marketVars, historyVars
<1>5. CallKnown'
  BY <1>2, <1>4 DEF IInv, CallKnown, Stages
<1>6. VerdictStands'
  BY <1>2, <1>3, <1>4, VerdictStays DEF IInv
<1>7. ResultKnown'
  BY <1>1, <1>2 DEF IInv, ResultKnown, resultVars
<1>8. (wiring.guard => seen_intact) => LedgerKnown'
  BY <1>2, <1>3 DEF IInv, LedgerKnown, ledgerVars, seenVars, historyVars, Intact, SubjectSet
<1> QED
  BY <1>2, <1>3, <1>5, <1>6, <1>7, <1>8

LEMMA SequencesKnown ==
  /\ Subjects \in Seq({Subjects[i] : i \in DOMAIN Subjects})
  /\ Backends \in Seq({Backends[i] : i \in DOMAIN Backends})
  /\ Len(Subjects) \in Nat /\ Len(Backends) \in Nat
BY OrderAssumption, LenProperties

\* _verify_treasury_config: what the guard accepts now, the call has seen.
LEMMA VerifyTreasuryKeeps ==
  ASSUME IInv, TypeOK', VerifyTreasury PROVE IInv'
<1>1. /\ call.stage = "treasury"
      /\ UNCHANGED <<riskVars, wiring, ledgerVars, seenVars, historyVars>>
  BY DEF VerifyTreasury, InCall
<1>2. CASE Refuse(Refused("treasury_config_violation"))
  BY <1>1, <1>2, RefuseKeeps, LogStays DEF IInv, riskVars, engineVars
<1>3. CASE /\ wiring.guard => ConfigAccepted(account, ExpectedSigners, ExpectedQuorum)
           /\ Advance("identity", IF wiring.verifier THEN Subjects ELSE <<>>)
  <2>1. wiring.guard => seen_intact
    BY <1>1, <1>3, AcceptedIsIntact DEF IInv, LedgerKnown
  <2>2. /\ call'.stage = "identity"
        /\ call'.pending = (IF wiring.verifier THEN Subjects ELSE <<>>)
        /\ CallKnown' /\ LedgerKnown' /\ ResultKnown' /\ VerdictStands'
        /\ ReleasedKnown' /\ ReleasedOnLiveReads' /\ AlertFidelity'
    BY <1>1, <1>3, <2>1, CheckPasses
  <2>3. PendingKnown'
    <3>1. CASE ~wiring.verifier
      BY <1>1, <2>2, <3>1 DEF PendingKnown
    <3>2. CASE wiring.verifier
      <4>1. Rest(Subjects, Subjects, 0) /\ 0 \in 0..Len(Subjects)
        BY RestWhole, SequencesKnown
      <4>2. call'.pending = Subjects
        BY <2>2, <3>2
      <4>3. \E n \in 0..Len(Subjects) :
              /\ Rest(call'.pending, Subjects, n)
              /\ \A i \in 1..n : Subjects[i] \in seen_valid'
        BY <4>1, <4>2
      <4> QED
        BY <2>2, <4>3 DEF PendingKnown
    <3> QED
      BY <3>1, <3>2
  <2> QED
    BY <2>2, <2>3 DEF IInv
<1> QED
  BY <1>2, <1>3 DEF VerifyTreasury

\* _verify_agent_identity: a subject whose credential is valid now has been
\* seen to be valid; when none is left, every one of them has.
LEMMA VerifyIdentityKeeps ==
  ASSUME IInv, TypeOK', VerifyIdentity PROVE IInv'
<1>1. /\ call.stage = "identity"
      /\ UNCHANGED <<riskVars, wiring, ledgerVars, seenVars, historyVars>>
  BY DEF VerifyIdentity, InCall
<1>2. wiring.guard => seen_intact
  BY <1>1 DEF IInv, LedgerKnown
<1>3. \/ call.pending = <<>> /\ ~wiring.verifier
      \/ \E n \in 0..Len(Subjects) :
           /\ Rest(call.pending, Subjects, n)
           /\ \A i \in 1..n : Subjects[i] \in seen_valid
  BY <1>1 DEF IInv, PendingKnown
<1>4. CASE Refuse(Refused("agent_identity_unverified"))
  BY <1>1, <1>4, RefuseKeeps, LogStays DEF IInv, riskVars, engineVars
<1>5. CASE call.pending = <<>> /\ Advance("multisign", Backends)
  <2>1. /\ call'.stage = "multisign" /\ call'.pending = Backends
        /\ CallKnown' /\ LedgerKnown' /\ ResultKnown' /\ VerdictStands'
        /\ ReleasedKnown' /\ ReleasedOnLiveReads' /\ AlertFidelity'
    BY <1>1, <1>2, <1>5, CheckPasses
  <2>2. wiring.verifier => seen_valid = SubjectSet
    <3> SUFFICES ASSUME wiring.verifier PROVE seen_valid = SubjectSet
      OBVIOUS
    <3>1. PICK n \in 0..Len(Subjects) :
            /\ Rest(call.pending, Subjects, n)
            /\ \A i \in 1..n : Subjects[i] \in seen_valid
      BY <1>3
    <3>2. n = Len(Subjects)
      BY <1>5, <3>1, RestStep, SequencesKnown
    <3>3. seen_valid \subseteq SubjectSet
      BY DEF IInv, LedgerKnown
    <3> QED
      BY <3>1, <3>2, <3>3 DEF SubjectSet
  <2>3. Rest(Backends, Backends, 0) /\ 0 \in 0..Len(Backends)
    BY RestWhole, SequencesKnown
  <2>4. \E n \in 0..Len(Backends) : Rest(call'.pending, Backends, n)
    BY <2>1, <2>3
  <2>5. PendingKnown'
    BY <1>1, <2>1, <2>2, <2>4 DEF PendingKnown, seenVars, SubjectSet
  <2> QED
    BY <2>1, <2>5 DEF IInv
<1>6. CASE /\ call.pending # <<>> /\ Head(call.pending) \in credentialed
           /\ Advance("identity", Tail(call.pending))
  <2>1. /\ call'.stage = "identity" /\ call'.pending = Tail(call.pending)
        /\ CallKnown' /\ LedgerKnown' /\ ResultKnown' /\ VerdictStands'
        /\ ReleasedKnown' /\ ReleasedOnLiveReads' /\ AlertFidelity'
    BY <1>1, <1>2, <1>6, CheckPasses
  <2>2. PICK n \in 0..Len(Subjects) :
          /\ Rest(call.pending, Subjects, n)
          /\ \A i \in 1..n : Subjects[i] \in seen_valid
    BY <1>3, <1>6
  <2>3. /\ n + 1 \in 1..Len(Subjects) /\ Head(call.pending) = Subjects[n + 1]
        /\ Rest(Tail(call.pending), Subjects, n + 1)
    BY <1>6, <2>2, RestStep, SequencesKnown
  <2>4. credentialed \subseteq seen_valid
    BY <1>1 DEF IInv, LedgerKnown
  <2>5. \A i \in 1..(n + 1) : Subjects[i] \in seen_valid
    <3>1. \A i \in 1..(n + 1) : i \in 1..n \/ i = n + 1
      BY <2>2
    <3> QED
      BY <1>6, <2>2, <2>3, <2>4, <3>1
  <2>6. n + 1 \in 0..Len(Subjects) /\ seen_valid' = seen_valid
    BY <1>1, <2>3 DEF seenVars
  <2>7. PendingKnown'
    BY <2>1, <2>3, <2>5, <2>6 DEF PendingKnown
  <2> QED
    BY <2>1, <2>7 DEF IInv
<1> QED
  BY <1>4, <1>5, <1>6 DEF VerifyIdentity

LEMMA BackendSignsKeeps ==
  ASSUME IInv, TypeOK', BackendSigns PROVE IInv'
<1>1. /\ call.stage = "multisign" /\ call.pending # <<>>
      /\ UNCHANGED <<riskVars, wiring, ledgerVars, seenVars, historyVars>>
  BY DEF BackendSigns, InCall
<1>2. CASE Raise("BackendError")
  BY <1>1, <1>2, RaiseKeeps, LogStays DEF IInv, riskVars, engineVars
<1>3. CASE Advance("multisign", Tail(call.pending))
  <2>1. wiring.guard => seen_intact
    BY <1>1 DEF IInv, LedgerKnown
  <2>2. /\ call'.stage = "multisign" /\ call'.pending = Tail(call.pending)
        /\ CallKnown' /\ LedgerKnown' /\ ResultKnown' /\ VerdictStands'
        /\ ReleasedKnown' /\ ReleasedOnLiveReads' /\ AlertFidelity'
    BY <1>1, <1>3, <2>1, CheckPasses
  <2>3. PICK n \in 0..Len(Backends) : Rest(call.pending, Backends, n)
    BY <1>1 DEF IInv, PendingKnown
  <2>4. n + 1 \in 0..Len(Backends) /\ Rest(Tail(call.pending), Backends, n + 1)
    <3>1. n + 1 \in 1..Len(Backends) /\ Rest(Tail(call.pending), Backends, n + 1)
      BY <1>1, <2>3, RestStep, SequencesKnown
    <3> QED
      BY <3>1
  <2>5. \E m \in 0..Len(Backends) : Rest(call'.pending, Backends, m)
    BY <2>2, <2>4
  <2>6. PendingKnown'
    BY <1>1, <2>2, <2>5 DEF IInv, PendingKnown, seenVars, SubjectSet
  <2> QED
    BY <2>2, <2>6 DEF IInv
<1> QED
  BY <1>2, <1>3 DEF BackendSigns

\* The refusals and failures that evaluate nothing.
LEMMA FailureKeeps ==
  ASSUME IInv, TypeOK',
         RefuseType \/ RefuseIntent \/ ComplianceReadFails \/ EvaluateRaises
  PROVE  IInv'
<1>1. /\ UNCHANGED <<riskVars, wiring, ledgerVars, seenVars, historyVars>>
      /\ call.stage # "idle"
  BY DEF RefuseType, RefuseIntent, ComplianceReadFails, EvaluateRaises, InCall
<1>2. AuditLogGrows
  BY <1>1, LogStays DEF IInv, riskVars, engineVars
<1>3. CASE RefuseType
  BY <1>1, <1>2, <1>3, RefuseKeeps DEF RefuseType
<1>4. CASE RefuseIntent
  BY <1>1, <1>2, <1>4, RefuseKeeps DEF RefuseIntent, InCall, IInv, ResultKnown
<1>5. CASE ComplianceReadFails \/ EvaluateRaises
  BY <1>1, <1>2, <1>5, RaiseKeeps DEF ComplianceReadFails, EvaluateRaises
<1> QED
  BY <1>3, <1>4, <1>5

-----------------------------------------------------------------------------
(* The world around a call.                                                *)

\* The world moves while a call waits; a reset lifts a freeze, never sets one.
LEMMA WaitStep ==
  ASSUME IInv, TypeOK', UNCHANGED <<call, resultVars, wiring, historyVars, audit_log>>,
         circuit_breaker_tripped' => circuit_breaker_tripped,
         call.ts \in 0..clock',
         call.stage \in {"route", "evaluate"} => call.ts >= clock' - ClockSkew,
         LedgerKnown', seen_valid \subseteq seen_valid',
         call.stage = "idle" => UNCHANGED seenVars
  PROVE  IInv'
<1> USE DEF resultVars, historyVars
<1>1. AuditLogGrows
  BY LogStays DEF IInv
<1>2. ReleasedKnown'
  BY <1>1, ReleasedStay DEF IInv
<1>3. VerdictStands'
  BY VerdictStays DEF IInv
<1>4. CallKnown'
  BY DEF IInv, CallKnown, SameTransfer, LogEntry
<1>5. PendingKnown'
  BY DEF IInv, PendingKnown, LedgerKnown, SubjectSet
<1>6. ResultKnown'
  BY DEF IInv, ResultKnown
<1>7. AlertFidelity'
  BY DEF IInv, AlertFidelity, InCall, Judged
<1>8. ReleasedOnLiveReads'
  <2>1. CASE outcome = "signed"
    <3>1. UNCHANGED seenVars
      BY <2>1 DEF IInv, ResultKnown
    <3> QED
      BY <3>1 DEF IInv, ReleasedOnLiveReads, Judged, seenVars, SubjectSet, SameTransfer
  <2>2. CASE outcome # "signed"
    BY <2>2 DEF ReleasedOnLiveReads
  <2> QED
    BY <2>1, <2>2
<1> QED
  BY <1>2, <1>3, <1>4, <1>5, <1>6, <1>7, <1>8 DEF IInv

LEMMA EnvironmentKeeps ==
  ASSUME IInv, TypeOK', Environment PROVE IInv'
<1> USE DEF InCall
<1>1. CASE GovernanceChange
  <2>1. /\ changes < MaxChanges /\ changes' = changes + 1 /\ account' \in Accounts
        /\ UNCHANGED <<credentialed, riskVars, call, resultVars, wiring, historyVars>>
        /\ Observe
    BY <1>1 DEF GovernanceChange
  <2>2. seen_valid \subseteq seen_valid' /\ (call.stage = "idle" => UNCHANGED seenVars)
    BY <2>1 DEF Observe, seenVars
  <2>3. LedgerKnown'
    <3>1. changes' \in 0..MaxChanges
      BY <2>1, ChangeAssumption DEF IInv, LedgerKnown
    <3>2. CASE call.stage = "idle"
      BY <2>1, <3>1, <3>2
      DEF Observe, IInv, LedgerKnown, seenVars, historyVars, riskVars, engineVars, SubjectSet
    <3>3. CASE call.stage # "idle"
      <4>1. /\ seen_intact' = (seen_intact \/ Intact(account)')
            /\ seen_valid' = seen_valid \cup credentialed'
        BY <2>1, <3>3 DEF Observe, Intact
      <4> QED
        BY <2>1, <3>1, <4>1
        DEF IInv, LedgerKnown, historyVars, riskVars, engineVars, SubjectSet
    <3> QED
      BY <3>2, <3>3
  <2> QED
    BY <2>1, <2>2, <2>3, WaitStep
    DEF IInv, CallKnown, riskVars, engineVars, breakerVars, marketVars
<1>2. CASE CredentialChange
  <2>1. /\ changes < MaxChanges /\ changes' = changes + 1
        /\ UNCHANGED <<account, riskVars, call, resultVars, wiring, historyVars>>
        /\ Observe
    BY <1>2 DEF CredentialChange
  <2>2. seen_valid \subseteq seen_valid' /\ (call.stage = "idle" => UNCHANGED seenVars)
    BY <2>1 DEF Observe, seenVars
  <2>3. credentialed' \in SUBSET SubjectSet
    <3>1. PICK i \in 1..Len(Subjects) :
            credentialed' = IF Subjects[i] \in credentialed
                            THEN credentialed \ {Subjects[i]}
                            ELSE credentialed \cup {Subjects[i]}
      BY <1>2 DEF CredentialChange
    <3> QED
      BY <3>1 DEF IInv, LedgerKnown, SubjectSet
  <2>4. LedgerKnown'
    <3>1. changes' \in 0..MaxChanges
      BY <2>1, ChangeAssumption DEF IInv, LedgerKnown
    <3>2. CASE call.stage = "idle"
      BY <2>1, <2>3, <3>1, <3>2
      DEF Observe, IInv, LedgerKnown, seenVars, historyVars, riskVars, engineVars, SubjectSet
    <3>3. CASE call.stage # "idle"
      <4>1. /\ seen_intact' = (seen_intact \/ Intact(account)')
            /\ seen_valid' = seen_valid \cup credentialed'
        BY <2>1, <3>3 DEF Observe, Intact
      <4> QED
        BY <2>1, <2>3, <3>1, <4>1
        DEF IInv, LedgerKnown, historyVars, riskVars, engineVars, SubjectSet
    <3> QED
      BY <3>2, <3>3
  <2> QED
    BY <2>1, <2>2, <2>4, WaitStep
    DEF IInv, CallKnown, riskVars, engineVars, breakerVars, marketVars
<1>3. ASSUME UNCHANGED <<signerVars, audit_log>>,
             circuit_breaker_tripped' => circuit_breaker_tripped,
             call.ts \in 0..clock',
             call.stage \in {"route", "evaluate"} => call.ts >= clock' - ClockSkew
      PROVE  IInv'
  <2>1. LedgerKnown'
    BY <1>3 DEF IInv, LedgerKnown, signerVars, ledgerVars, seenVars, historyVars, Intact,
       SubjectSet
  <2> QED
    BY <1>3, <2>1, WaitStep DEF signerVars, seenVars
<1>4. CASE TimePasses
  <2>1. clock \in Int /\ ClockSkew \in Int /\ clock' = clock + 1 /\ call.ts \in 0..clock
    BY <1>4, IntegerTimestamps, SkewAssumption DEF TimePasses, Tick, IInv, CallKnown
  <2>2. call.stage \in {"route", "evaluate"} => clock + 1 - call.ts <= ClockSkew
    BY <1>4 DEF TimePasses
  <2>3. call.ts \in 0..clock'
    BY <2>1
  <2>4. call.stage \in {"route", "evaluate"} => call.ts >= clock' - ClockSkew
    BY <2>1, <2>2
  <2>5. UNCHANGED <<signerVars, audit_log, circuit_breaker_tripped>>
    BY <1>4 DEF TimePasses, Tick, engineVars, breakerVars
  <2> QED
    BY <1>3, <2>3, <2>4, <2>5
<1>5. CASE PriceChange \/ HumanReset
  <2>1. /\ UNCHANGED <<signerVars, audit_log, clock>>
        /\ circuit_breaker_tripped' => circuit_breaker_tripped
    BY <1>5 DEF PriceChange, PriceMoves, HumanReset, ResetCircuitBreaker, engineVars,
       breakerVars, marketVars
  <2>2. /\ call.ts \in 0..clock'
        /\ call.stage \in {"route", "evaluate"} => call.ts >= clock' - ClockSkew
    BY <2>1 DEF IInv, CallKnown
  <2> QED
    BY <1>3, <2>1, <2>2
<1> QED
  BY <1>1, <1>2, <1>4, <1>5 DEF Environment

-----------------------------------------------------------------------------
(* The whole signer.                                                       *)

LEMMA InitIInv == SignerInit => IInv
<1> SUFFICES ASSUME SignerInit PROVE IInv
  OBVIOUS
<1> USE DEF SignerInit
<1>1. TypeOK
  BY TypeInit
<1>2. Len(audit_log) = 0 /\ Len(released) = 0 /\ Len(alerts) = 0 /\ clock = 0
  BY EmptySeq DEF RiskInit
<1>3. CallKnown /\ PendingKnown /\ VerdictStands
  BY <1>2 DEF NoCall, CallFields, CallKnown, PendingKnown, VerdictStands, Stages
<1>4. LedgerKnown
  <2>1. call.stage = "idle" /\ seen_intact = FALSE /\ seen_valid = {}
    BY DEF NoCall
  <2>2. credentialed \in SUBSET SubjectSet
    BY DEF SubjectSet
  <2>3. 0 \in 0..MaxChanges /\ call_start \in 0..Len(audit_log)
    BY <1>2, ChangeAssumption
  <2> QED
    BY <2>1, <2>2, <2>3 DEF LedgerKnown
<1>5. ResultKnown
  BY DEF NoCall, ResultKnown, NoDecision
<1>6. ReleasedKnown
  BY <1>2, EmptySeq DEF ReleasedKnown
<1>7. ReleasedOnLiveReads /\ AlertFidelity
  BY <1>2 DEF ReleasedOnLiveReads, AlertFidelity
<1> QED
  BY <1>1, <1>3, <1>4, <1>5, <1>6, <1>7 DEF IInv

LEMMA NextIInv == IInv /\ [SignerNext]_vars => IInv'
<1> SUFFICES ASSUME IInv, [SignerNext]_vars PROVE IInv'
  OBVIOUS
<1>1. TypeOK'
  BY EngineStep, TypeStep DEF IInv
<1>2. ASSUME NEW t \in Txs, Sign(t) PROVE IInv'
  BY <1>1, <1>2, SignKeeps
<1>3. CASE RefuseType \/ RefuseIntent \/ ComplianceReadFails \/ EvaluateRaises
  BY <1>1, <1>3, FailureKeeps
<1>4. CASE BuildIntent
  BY <1>1, <1>4, BuildIntentKeeps
<1>5. CASE RouteTier
  BY <1>1, <1>5, RouteTierKeeps
<1>6. CASE EvaluateCall
  BY <1>1, <1>6, EvaluateCallKeeps
<1>7. CASE VerifyTreasury
  BY <1>1, <1>7, VerifyTreasuryKeeps
<1>8. CASE VerifyIdentity
  BY <1>1, <1>8, VerifyIdentityKeeps
<1>9. CASE BackendSigns
  BY <1>1, <1>9, BackendSignsKeeps
<1>10. CASE ReturnSigned
  BY <1>1, <1>10, ReturnSignedKeeps
<1>11. CASE Environment
  BY <1>1, <1>11, EnvironmentKeeps
<1>12. CASE UNCHANGED vars
  <2>1. UNCHANGED <<signerVars, audit_log, circuit_breaker_tripped, clock>>
    BY <1>12 DEF vars, riskVars, engineVars, breakerVars, marketVars
  <2>2. LedgerKnown'
    BY <2>1 DEF IInv, LedgerKnown, signerVars, ledgerVars, seenVars, historyVars, Intact,
       SubjectSet
  <2> QED
    BY <1>1, <2>1, <2>2, WaitStep DEF IInv, CallKnown, signerVars, seenVars
<1> QED
  BY <1>2, <1>3, <1>4, <1>5, <1>6, <1>7, <1>8, <1>9, <1>10, <1>11, <1>12
  DEF SignerNext, CallStep

\* The signer runs the risk engine as RiskEngine describes it, so that all
\* that is proved of the engine holds inside the signer (sign, evaluate).
THEOREM SignerRunsEngine == SignerSpec => RiskSpec
<1>1. SignerInit => RiskInit
  BY DEF SignerInit
<1>2. IInv /\ [SignerNext]_vars => [RiskNext]_riskVars
  BY EngineStep DEF IInv
<1> QED
  BY <1>1, <1>2, InitIInv, NextIInv, PTL DEF SignerSpec, RiskSpec

\* The signer and its engine keep their types (sign, _sign, __init__).
THEOREM SignerTypeCorrect == SignerSpec => []SignerTypeOK
<1>1. IInv => SignerTypeOK
  <2> SUFFICES ASSUME IInv PROVE SignerTypeOK
    OBVIOUS
  <2>1. \E whole \in {Subjects, Backends, <<>>} :
          \E n \in 0..Len(whole) : call.pending = SubSeq(whole, n + 1, Len(whole))
    <3>1. CASE call.pending = <<>>
      <4>1. SubSeq(<<>>, 1, 0) = <<>>
        BY SubSeqEmpty
      <4>2. Len(<<>>) = 0
        BY EmptySeq
      <4>3. \E n \in 0..Len(<<>>) : call.pending = SubSeq(<<>>, n + 1, Len(<<>>))
        BY <3>1, <4>1, <4>2
      <4> QED
        BY <4>3
    <3>2. CASE call.pending # <<>>
      BY <3>2 DEF IInv, PendingKnown, Rest
    <3> QED
      BY <3>1, <3>2
  <2>2. call.tx \in Txs \cup {None}
    BY DEF IInv, CallKnown, NoCall
  <2>3. Len(alerts) <= 1
    <3>1. CASE call.stage = "idle"
      BY <3>1 DEF IInv, AlertFidelity, InCall
    <3>2. CASE call.stage # "idle"
      BY <3>2, EmptySeq DEF IInv, ResultKnown
    <3> QED
      BY <3>1, <3>2
  <2>4. \A k \in 1..Len(released) :
          released[k].tx \in Txs /\ released[k].verdict \in 1..Len(audit_log)
    <3>1. \A k \in 1..Len(released) : released[k] \in [tx : Txs, verdict : Nat]
      BY ElementOfSeq DEF IInv, ReleasedKnown
    <3> QED
      BY <3>1 DEF IInv, ReleasedKnown, Green
  <2> QED
    BY <2>1, <2>2, <2>3, <2>4 DEF SignerTypeOK, IInv, CallKnown, LedgerKnown, ResultKnown
<1> QED
  BY <1>1, InitIInv, NextIInv, PTL DEF SignerSpec

\* A signature stands on reads made during its own call: on the verdict of
\* that call, an intact treasury and valid credentials (_sign and the checks
\* it makes), whatever moved between those reads.
THEOREM SignaturesOnLiveReads == SignerSpec => []ReleasedOnLiveReads
<1>1. IInv => ReleasedOnLiveReads
  BY DEF IInv
<1> QED
  BY <1>1, InitIInv, NextIInv, PTL DEF SignerSpec

\* The sink is told of every refusal once, and of nothing else
\* (sign, _alert_refusal).
THEOREM AlertsFaithful == SignerSpec => []AlertFidelity
<1>1. IInv => AlertFidelity
  BY DEF IInv
<1> QED
  BY <1>1, InitIInv, NextIInv, PTL DEF SignerSpec

\* Nothing is signed while the breaker is tripped (_sign, evaluate).
THEOREM FrozenReleasesNothing == SignerSpec => NoReleaseWhileFrozen
<1>1. ASSUME IInv, SignerNext, released' # released
      PROVE  ~circuit_breaker_tripped
  <2>1. ReturnSigned
    BY <1>1
    DEF SignerNext, CallStep, Environment, Sign, RefuseType, RefuseIntent,
        ComplianceReadFails, BuildIntent, RouteTier, EvaluateCall, EvaluateRaises,
        VerifyTreasury, VerifyIdentity, BackendSigns, GovernanceChange, CredentialChange,
        TimePasses, PriceChange, HumanReset, signerVars, historyVars
  <2> QED
    BY <1>1, <2>1 DEF ReturnSigned, InCall, IInv, VerdictStands
<1>2. IInv /\ [SignerNext]_vars
        => [released' # released => ~circuit_breaker_tripped]_vars
  BY <1>1
<1> QED
  BY <1>2, InitIInv, NextIInv, PTL DEF SignerSpec, NoReleaseWhileFrozen

\* Equal transfers released within the window are verdicts that the engine
\* counted as repeats, one each.
LEMMA ReleasesAreRepeats ==
  ASSUME IInv, VelocityBound PROVE ReleaseVelocity
<1> SUFFICES ASSUME NEW k \in 1..Len(released)
             PROVE  /\ \A m \in 1..(k - 1) : released[m].verdict < released[k].verdict
                    /\ Cardinality({m \in 1..k :
                         /\ SameTransfer(released[m].tx, LogEntry(released[k].tx, 0))
                         /\ audit_log[released[m].verdict].entry.timestamp
                              >= audit_log[released[k].verdict].entry.timestamp
                                   - (FrequencyWindow - ClockSkew)})
                         <= FrequencyLimit
  BY DEF ReleaseVelocity
<1> DEFINE v == released[k].verdict
           M == {m \in 1..k :
                  /\ SameTransfer(released[m].tx, LogEntry(released[k].tx, 0))
                  /\ audit_log[released[m].verdict].entry.timestamp
                       >= audit_log[v].entry.timestamp - (FrequencyWindow - ClockSkew)}
           R == Repeats(v, FrequencyWindow - ClockSkew)
           f == [m \in M |-> released[m].verdict]
<1>1. /\ Len(released) \in Nat /\ Len(audit_log) \in Nat
      /\ \A m \in 1..Len(released) :
           /\ released[m].verdict \in 1..Len(audit_log)
           /\ audit_log[released[m].verdict].risk_level = "GREEN"
           /\ SameTransfer(released[m].tx, audit_log[released[m].verdict].entry)
           /\ \A i \in 1..(m - 1) : released[i].verdict < released[m].verdict
  BY LenProperties DEF IInv, TypeOK, ReleasedKnown, Green
<1>2. \A m \in 1..k : m \in 1..Len(released)
  BY <1>1
<1>3. \A m \in 1..(k - 1) : released[m].verdict < v
  BY <1>1
<1>4. v \in 1..Len(audit_log) /\ audit_log[v].risk_level # "RED"
  BY <1>1
<1>5. \A m \in M : f[m] \in R
  <2> SUFFICES ASSUME NEW m \in M PROVE released[m].verdict \in R
    OBVIOUS
  <2>1. released[m].verdict \in 1..v
    <3>1. m = k \/ m \in 1..(k - 1)
      OBVIOUS
    <3>2. released[m].verdict \in 1..Len(audit_log)
      BY <1>1, <1>2
    <3> QED
      BY <1>1, <1>3, <1>4, <3>1, <3>2
  <2>2. /\ SameTransfer(released[m].tx, audit_log[released[m].verdict].entry)
        /\ SameTransfer(released[k].tx, audit_log[v].entry)
    BY <1>1, <1>2
  <2>3. SameTransfer(audit_log[v].entry, audit_log[released[m].verdict].entry)
    BY <2>2 DEF SameTransfer, LogEntry
  <2> QED
    BY <2>1, <2>3 DEF Repeats
<1>6. \A m, i \in M : f[m] = f[i] => m = i
  <2> SUFFICES ASSUME NEW m \in M, NEW i \in M, m # i
               PROVE  released[m].verdict # released[i].verdict
    OBVIOUS
  <2>1. m \in 1..(i - 1) \/ i \in 1..(m - 1)
    OBVIOUS
  <2>2. /\ released[m].verdict \in Int /\ released[i].verdict \in Int
        /\ \/ released[m].verdict < released[i].verdict
           \/ released[i].verdict < released[m].verdict
    <3>1. m \in 1..Len(released) /\ i \in 1..Len(released)
      BY <1>2
    <3> QED
      BY <1>1, <2>1, <3>1
  <2> QED
    BY <2>2
<1>7. f \in Injection(M, R)
  BY <1>5, <1>6 DEF Injection, IsInjective
<1>8. IsFiniteSet(R) /\ Cardinality(R) \in Nat
  <2>1. IsFiniteSet(1..v)
    <3>1. v \in Int /\ 1 \in Int
      BY <1>1, <1>4
    <3> HIDE DEF v
    <3> QED
      BY <3>1, FS_Interval
  <2>2. R \in SUBSET (1..v)
    BY DEF Repeats
  <2> QED
    BY <2>1, <2>2, FS_Subset, FS_CardinalityType
<1>9. Cardinality(R) <= FrequencyLimit
  BY <1>4 DEF VelocityBound
<1>10. Cardinality(M) <= Cardinality(R) /\ Cardinality(M) \in Nat
  <2> HIDE DEF M, R, f
  <2>1. IsFiniteSet(M) /\ Cardinality(M) <= Cardinality(R)
    BY <1>7, <1>8, FS_Injection
  <2> QED
    BY <2>1, FS_CardinalityType
<1>11. Cardinality(M) <= FrequencyLimit
  <2> HIDE DEF M, R
  <2> QED
    BY <1>8, <1>9, <1>10, FrequencyAssumption
<1> QED
  BY <1>3, <1>11

\* However refusals, failures, price moves and resets are interleaved, the
\* window lets at most FrequencyLimit equal transfers out (sign, evaluate).
THEOREM ReleasesBounded == SignerSpec => []ReleaseVelocity
<1>1. IInv /\ VelocityBound => ReleaseVelocity
  BY ReleasesAreRepeats
<1> QED
  BY <1>1, InitIInv, NextIInv, SignerRunsEngine, VelocityBounded, PTL DEF SignerSpec

-----------------------------------------------------------------------------
(* The refinement of GatedSigning.                                         *)

\* How many signatures were released for each transaction.
Tally ==
  [t \in Txs |-> Cardinality({k \in 1..Len(released) : released[k].tx = t})]

\* No transaction is the absence of one.
LEMMA NoneIsNoTx == None \notin Txs
<1>1. "none" \in DOMAIN None
  BY DEF None
<1> QED
  BY <1>1, TxShapeAssumption

\* A call that ends without a signature drops the request.
LEMMA EndDrops ==
  ASSUME IInv, call.stage # "idle", call' = NoCall, released' = released
  PROVE  Abstract!Drop
<1>1. call.tx # None /\ call'.tx = None /\ call'.stage = "idle"
  BY NoneIsNoTx DEF IInv, CallKnown, NoCall
<1>2. PassedGates' = {}
  BY <1>1 DEF PassedGates
<1> QED
  BY <1>1, <1>2 DEF Abstract!Drop

\* A step of the call that passes no gate changes nothing of the request.
LEMMA MoveStutters ==
  ASSUME call'.tx = call.tx, PassedGates' = PassedGates, released' = released
  PROVE  UNCHANGED Abstract!gatedVars
BY DEF Abstract!gatedVars

\* A step of the call that passes a gate.
LEMMA CheckIsPass ==
  ASSUME IInv, call.stage # "idle", call'.tx = call.tx, released' = released,
         NEW g \in {"verdict", "treasury", "identity"},
         PassedGates' = PassedGates \cup {g}
  PROVE  \E h \in {"verdict", "treasury", "identity"} : Abstract!Pass(h)
<1>1. call.tx # None
  BY NoneIsNoTx DEF IInv, CallKnown
<1>2. Abstract!Pass(g)
  BY <1>1 DEF Abstract!Pass
<1> QED
  BY <1>2

\* One more signature, for the transaction of the call.
LEMMA TallyGrows ==
  ASSUME IInv, call.tx \in Txs,
         released' = Append(released, [tx |-> call.tx, verdict |-> Len(audit_log)])
  PROVE  Tally' = [Tally EXCEPT ![call.tx] = @ + 1]
<1> DEFINE n == Len(released)
           S(t) == {k \in 1..n : released[k].tx = t}
           new == [tx |-> call.tx, verdict |-> Len(audit_log)]
<1>1. /\ n \in Nat
      /\ Len(released') = n + 1
      /\ \A i \in 1..n : released'[i] = released[i]
      /\ released'[n + 1] = new
  <2>1. new \in [tx : Txs, verdict : Nat]
    BY LenProperties DEF IInv, TypeOK
  <2>2. released \in Seq([tx : Txs, verdict : Nat]) /\ n \in Nat
    BY LenProperties DEF IInv, ReleasedKnown
  <2>3. released' = Append(released, new)
    OBVIOUS
  <2> HIDE DEF new
  <2> QED
    BY <2>1, <2>2, <2>3, AppendProperties
<1>2. released'[n + 1].tx = call.tx
  BY <1>1
<1> HIDE DEF n
<1>3. 1..(n + 1) = (1..n) \cup {n + 1} /\ n + 1 \notin 1..n
  BY <1>1
<1>4. ASSUME NEW t \in Txs
      PROVE  Cardinality({k \in 1..(n + 1) : released'[k].tx = t})
               = IF t = call.tx THEN Cardinality(S(t)) + 1 ELSE Cardinality(S(t))
  <2>1. IsFiniteSet(S(t)) /\ n + 1 \notin S(t)
    <3>1. IsFiniteSet(1..n)
      BY <1>1, FS_Interval
    <3>2. S(t) \in SUBSET (1..n)
      OBVIOUS
    <3> QED
      BY <1>3, <3>1, <3>2, FS_Subset
  <2>2. {k \in 1..(n + 1) : released'[k].tx = t}
          = IF t = call.tx THEN S(t) \cup {n + 1} ELSE S(t)
    BY <1>1, <1>2, <1>3
  <2>3. Cardinality(S(t) \cup {n + 1}) = Cardinality(S(t)) + 1
    BY <2>1, FS_AddElement
  <2> QED
    BY <2>2, <2>3
<1>5. Tally = [t \in Txs |-> Cardinality(S(t))]
  BY DEF Tally, n
<1>6. Tally' = [t \in Txs |-> Cardinality({k \in 1..(n + 1) : released'[k].tx = t})]
  BY <1>1 DEF Tally
<1> HIDE DEF S
<1> QED
  BY <1>4, <1>5, <1>6

\* Every step of the signer is a step of the gated signing, or none.
LEMMA GatedStep ==
  ASSUME IInv, IInv', [SignerNext]_vars
  PROVE  [Abstract!GatedNext]_Abstract!gatedVars
<1> USE DEF InCall
<1>1. ASSUME NEW t \in Txs, Sign(t) PROVE Abstract!GatedNext
  <2>1. /\ call.stage = "idle" /\ call' = [NoCall EXCEPT !.stage = "intent", !.tx = t]
        /\ released' = released
    BY <1>1 DEF Sign
  <2>2. call.tx = None /\ call'.tx = t /\ call'.stage = "intent"
    BY <2>1 DEF IInv, CallKnown, NoCall
  <2>3. PassedGates' = {}
    BY <2>2 DEF PassedGates
  <2>4. Abstract!Ask(t)
    BY <2>1, <2>2, <2>3 DEF Abstract!Ask
  <2> QED
    BY <2>4 DEF Abstract!GatedNext
<1>2. ASSUME call.stage # "idle", call' = NoCall, released' = released
      PROVE  Abstract!GatedNext
  BY <1>2, EndDrops DEF Abstract!GatedNext
<1>3. ASSUME call'.tx = call.tx, PassedGates' = PassedGates, released' = released
      PROVE  UNCHANGED Abstract!gatedVars
  BY <1>3, MoveStutters
<1>4. ASSUME NEW stage, NEW pending, NEW g \in {"verdict", "treasury", "identity"},
             call.stage # "idle", call' = [call EXCEPT !.stage = stage, !.pending = pending],
             released' = released,
             call'.stage = stage => PassedGates' = PassedGates \cup {g}
      PROVE  Abstract!GatedNext
  <2>1. call'.tx = call.tx /\ call'.stage = stage
    BY <1>4 DEF IInv, CallKnown, CallFields
  <2> QED
    BY <1>4, <2>1, CheckIsPass DEF Abstract!GatedNext
<1>5. CASE RefuseType \/ RefuseIntent \/ ComplianceReadFails \/ EvaluateRaises
  BY <1>2, <1>5 DEF RefuseType, RefuseIntent, ComplianceReadFails, EvaluateRaises,
     Refuse, Raise, historyVars
<1>6. CASE BuildIntent
  <2>1. PICK p : call' = [call EXCEPT !.stage = "route", !.payment = p, !.ts = clock]
    BY <1>6 DEF BuildIntent
  <2>2. call'.tx = call.tx /\ call'.stage = "route" /\ call.stage = "intent"
    BY <1>6, <2>1 DEF BuildIntent, IInv, CallKnown, CallFields
  <2>3. PassedGates' = PassedGates
    BY <2>2 DEF PassedGates
  <2> QED
    BY <1>3, <1>6, <2>2, <2>3 DEF BuildIntent, historyVars
<1>7. CASE RouteTier
  <2>1. call.stage = "route" /\ released' = released
    BY <1>7 DEF RouteTier, historyVars
  <2>2. CASE Raise("StaleRateError")
    BY <1>2, <2>1, <2>2 DEF Raise
  <2>3. ASSUME NEW tier, call' = [call EXCEPT !.stage = "evaluate", !.tier = tier]
        PROVE  UNCHANGED Abstract!gatedVars
    <3>1. call'.tx = call.tx /\ call'.stage = "evaluate"
      BY <2>3 DEF IInv, CallKnown, CallFields
    <3>2. PassedGates' = PassedGates
      BY <2>1, <3>1 DEF PassedGates
    <3> QED
      BY <1>3, <2>1, <3>1, <3>2
  <2> QED
    BY <1>7, <2>2, <2>3 DEF RouteTier
<1>8. CASE EvaluateCall
  <2>1. call.stage = "evaluate" /\ released' = released
    BY <1>8 DEF EvaluateCall, historyVars
  <2>2. CASE call' = NoCall
    BY <1>2, <2>1, <2>2
  <2>3. CASE call' = [call EXCEPT !.stage = "treasury"]
    <3>1. call'.tx = call.tx /\ call'.stage = "treasury"
      BY <2>3 DEF IInv, CallKnown, CallFields
    <3>2. PassedGates' = PassedGates \cup {"verdict"}
      BY <2>1, <3>1 DEF PassedGates
    <3> QED
      BY <2>1, <3>1, <3>2, CheckIsPass DEF Abstract!GatedNext
  <2> QED
    BY <1>8, <2>2, <2>3 DEF EvaluateCall, Refuse
<1>9. CASE VerifyTreasury
  <2>1. call.stage = "treasury" /\ released' = released
    BY <1>9 DEF VerifyTreasury, historyVars
  <2>2. call'.stage = "identity" => PassedGates' = PassedGates \cup {"treasury"}
    BY <2>1 DEF PassedGates
  <2> QED
    BY <1>2, <1>4, <1>9, <2>1, <2>2 DEF VerifyTreasury, Refuse, Advance
<1>10. CASE VerifyIdentity
  <2>1. call.stage = "identity" /\ released' = released
    BY <1>10 DEF VerifyIdentity, historyVars
  <2>2. CASE call' = [call EXCEPT !.stage = "multisign", !.pending = Backends]
    <3>1. call'.stage = "multisign" => PassedGates' = PassedGates \cup {"identity"}
      BY <2>1 DEF PassedGates
    <3> QED
      BY <1>4, <2>1, <2>2, <3>1
  <2>3. CASE call' = [call EXCEPT !.stage = "identity", !.pending = Tail(call.pending)]
    <3>1. call'.tx = call.tx /\ call'.stage = "identity"
      BY <2>3 DEF IInv, CallKnown, CallFields
    <3>2. PassedGates' = PassedGates
      BY <2>1, <3>1 DEF PassedGates
    <3> QED
      BY <1>3, <2>1, <3>1, <3>2
  <2>4. CASE call' = NoCall
    BY <1>2, <2>1, <2>4
  <2> QED
    BY <1>10, <2>2, <2>3, <2>4 DEF VerifyIdentity, Refuse, Advance
<1>11. CASE BackendSigns
  <2>1. call.stage = "multisign" /\ released' = released
    BY <1>11 DEF BackendSigns, historyVars
  <2>2. CASE call' = [call EXCEPT !.stage = "multisign", !.pending = Tail(call.pending)]
    <3>1. call'.tx = call.tx /\ call'.stage = "multisign"
      BY <2>2 DEF IInv, CallKnown, CallFields
    <3>2. PassedGates' = PassedGates
      BY <2>1, <3>1 DEF PassedGates
    <3> QED
      BY <1>3, <2>1, <3>1, <3>2
  <2>3. CASE call' = NoCall
    BY <1>2, <2>1, <2>3
  <2> QED
    BY <1>11, <2>2, <2>3 DEF BackendSigns, Raise, Advance
<1>12. CASE ReturnSigned
  <2>1. /\ call.stage = "multisign" /\ call' = NoCall
        /\ released' = Append(released, [tx |-> call.tx, verdict |-> Len(audit_log)])
    BY <1>12 DEF ReturnSigned, Release
  <2>2. call.tx \in Txs /\ call.tx # None
    BY <2>1, NoneIsNoTx DEF IInv, CallKnown
  <2>3. PassedGates = {"verdict", "treasury", "identity"}
    BY <2>1 DEF PassedGates
  <2>4. call'.tx = None /\ PassedGates' = {}
    BY <2>1 DEF NoCall, PassedGates
  <2>5. Tally' = [Tally EXCEPT ![call.tx] = @ + 1]
    BY <2>1, <2>2, TallyGrows
  <2>6. Abstract!Release
    BY <2>2, <2>3, <2>4, <2>5 DEF Abstract!Release, Tally
  <2> QED
    BY <2>6 DEF Abstract!GatedNext
<1>13. CASE Environment \/ UNCHANGED vars
  <2>1. call' = call /\ released' = released
    BY <1>13 DEF Environment, GovernanceChange, CredentialChange, TimePasses, PriceChange,
       HumanReset, vars, signerVars, historyVars
  <2>2. PassedGates' = PassedGates
    BY <2>1 DEF PassedGates
  <2> QED
    BY <1>3, <2>1, <2>2
<1> QED
  BY <1>1, <1>5, <1>6, <1>7, <1>8, <1>9, <1>10, <1>11, <1>12, <1>13
  DEF SignerNext, CallStep

\* sign() implements the gated signing: whatever fails, and however often the
\* world moves, a transaction is released at most once per request and only
\* with every gate passed since the request was made.
THEOREM ImplementsGates == SignerSpec => ImplementsGatedSigning
<1>1. SignerInit => Abstract!GatedInit
  <2> SUFFICES ASSUME SignerInit PROVE Abstract!GatedInit
    OBVIOUS
  <2>1. call.tx = None /\ PassedGates = {}
    BY DEF SignerInit, NoCall, PassedGates
  <2>2. ASSUME NEW t PROVE Cardinality({k \in 1..Len(released) : released[k].tx = t}) = 0
    <3>1. Len(released) = 0
      BY EmptySeq DEF SignerInit
    <3>2. {k \in 1..Len(released) : released[k].tx = t} = {}
      BY <3>1
    <3> QED
      BY <3>2, FS_EmptySet
  <2> QED
    BY <2>1, <2>2 DEF Abstract!GatedInit
<1>2. IInv /\ IInv' /\ [SignerNext]_vars => [Abstract!GatedNext]_Abstract!gatedVars
  BY GatedStep
<1> QED
  BY <1>1, <1>2, InitIInv, NextIInv, PTL
  DEF SignerSpec, ImplementsGatedSigning, Abstract!GatedSpec
-----------------------------------------------------------------------------
(* Every call comes to its end.                                            *)

\* How many steps a call at this stage may still take, with n elements left of
\* the sequence it walks through.
Work(stage, n) ==
  LET walks == 2 + Len(Backends) + Len(Subjects)
  IN  CASE stage = "idle"      -> 0
        [] stage = "multisign" -> 1 + n
        [] stage = "identity"  -> 2 + Len(Backends) + n
        [] stage = "treasury"  -> walks + 1
        [] stage = "evaluate"  -> walks + 2
        [] stage = "route"     -> walks + 3
        [] stage = "intent"    -> walks + 4

StepsLeft == Work(call.stage, Len(call.pending))

\* A call takes at most six steps and one for each subject and each backend;
\* each of its own steps brings the end nearer, and nothing else moves it.
CallShrinks ==
  /\ [](StepsLeft \in 0..(6 + Len(Subjects) + Len(Backends)))
  /\ [][call.stage # "idle" => IF CallStep THEN StepsLeft' < StepsLeft
                                         ELSE StepsLeft' = StepsLeft]_vars

\* As many elements are left as have not been taken.
LEMMA RestLength ==
  ASSUME NEW S, NEW whole \in Seq(S), NEW n, NEW s, Rest(s, whole, n)
  PROVE  Len(s) = Len(whole) - n /\ Len(s) \in 0..Len(whole)
<1>1. Len(whole) \in Nat /\ n \in 0..Len(whole) /\ s = SubSeq(whole, n + 1, Len(whole))
  BY LenProperties DEF Rest
<1>2. CASE n = Len(whole)
  <2>1. s = <<>> /\ Len(s) = 0
    BY <1>1, <1>2, SubSeqEmpty, EmptySeq
  <2> QED
    BY <1>1, <1>2, <2>1
<1>3. CASE n < Len(whole)
  <2>1. \A i \in (n + 1)..Len(whole) : whole[i] \in S
    BY <1>1, ElementOfSeq
  <2>2. Len(s) = Len(whole) - (n + 1) + 1
    BY <1>1, <1>3, <2>1, SubSeqProperties
  <2> QED
    BY <1>1, <1>3, <2>2
<1> QED
  BY <1>1, <1>2, <1>3

\* What a walk has left, and that an element taken off is one less.
LEMMA PendingLength ==
  ASSUME IInv
  PROVE  /\ Len(Subjects) \in Nat /\ Len(Backends) \in Nat
         /\ Len(call.pending) \in Nat
         /\ call.stage = "identity" => Len(call.pending) <= Len(Subjects)
         /\ call.stage = "multisign" => Len(call.pending) <= Len(Backends)
         /\ call.stage \in {"identity", "multisign"} /\ call.pending # <<>> =>
              /\ Len(Tail(call.pending)) \in Nat
              /\ Len(Tail(call.pending)) < Len(call.pending)
<1>1. Len(Subjects) \in Nat /\ Len(Backends) \in Nat
  BY SequencesKnown
<1>2. ASSUME NEW S, NEW whole \in Seq(S), NEW n, Rest(call.pending, whole, n)
      PROVE  /\ Len(call.pending) \in Nat /\ Len(call.pending) <= Len(whole)
             /\ call.pending # <<>> => /\ Len(Tail(call.pending)) \in Nat
                                       /\ Len(Tail(call.pending)) < Len(call.pending)
  <2>1. Len(whole) \in Nat /\ n \in 0..Len(whole)
    BY <1>2, LenProperties DEF Rest
  <2>2. Len(call.pending) = Len(whole) - n
    BY <1>2, RestLength
  <2>3. ASSUME call.pending # <<>>
        PROVE  Len(Tail(call.pending)) = Len(whole) - (n + 1) /\ n + 1 \in 1..Len(whole)
    <3>1. Rest(Tail(call.pending), whole, n + 1) /\ n + 1 \in 1..Len(whole)
      BY <1>2, <2>3, RestStep
    <3> QED
      BY <3>1, RestLength
  <2> QED
    BY <2>1, <2>2, <2>3
<1>3. CASE call.pending = <<>>
  BY <1>1, <1>3, EmptySeq
<1>4. CASE call.pending # <<>> /\ call.stage = "identity"
  <2>1. PICK n : Rest(call.pending, Subjects, n)
    BY <1>4 DEF IInv, PendingKnown
  <2> QED
    BY <1>1, <1>2, <1>4, <2>1, SequencesKnown
<1>5. CASE call.pending # <<>> /\ call.stage = "multisign"
  <2>1. PICK n : Rest(call.pending, Backends, n)
    BY <1>5 DEF IInv, PendingKnown
  <2> QED
    BY <1>1, <1>2, <1>5, <2>1, SequencesKnown
<1> QED
  BY <1>3, <1>4, <1>5 DEF IInv, PendingKnown

LEMMA WorkValues ==
  ASSUME NEW n
  PROVE  /\ Work("idle", n) = 0
         /\ Work("multisign", n) = 1 + n
         /\ Work("identity", n) = 2 + Len(Backends) + n
         /\ Work("treasury", n) = 2 + Len(Backends) + Len(Subjects) + 1
         /\ Work("evaluate", n) = 2 + Len(Backends) + Len(Subjects) + 2
         /\ Work("route", n) = 2 + Len(Backends) + Len(Subjects) + 3
         /\ Work("intent", n) = 2 + Len(Backends) + Len(Subjects) + 4
BY DEF Work

LEMMA WorkBounded ==
  ASSUME IInv
  PROVE  /\ StepsLeft \in 0..(6 + Len(Subjects) + Len(Backends))
         /\ call.stage # "idle" => StepsLeft >= 1
<1> DEFINE p == Len(call.pending)
<1>1. /\ Len(Subjects) \in Nat /\ Len(Backends) \in Nat /\ p \in Nat
      /\ call.stage = "identity" => p <= Len(Subjects)
      /\ call.stage = "multisign" => p <= Len(Backends)
  BY PendingLength
<1>2. call.stage \in Stages /\ StepsLeft = Work(call.stage, p)
  BY DEF IInv, CallKnown, StepsLeft
<1> HIDE DEF p
<1>3. CASE call.stage \in {"idle", "treasury", "evaluate", "route", "intent"}
  BY <1>1, <1>2, <1>3, WorkValues
<1>4. CASE call.stage \in {"identity", "multisign"}
  BY <1>1, <1>2, <1>4, WorkValues
<1> QED
  BY <1>2, <1>3, <1>4 DEF Stages

\* A step of sign() either ends the call or leads it on.
LEMMA StepsShrink ==
  ASSUME IInv, CallStep
  PROVE  call.stage # "idle" /\ StepsLeft' < StepsLeft
<1> DEFINE b == Len(Backends)
           s == Len(Subjects)
           p == Len(call.pending)
<1>1. /\ b \in Nat /\ s \in Nat /\ p \in Nat
      /\ call.stage = "identity" => p <= s
      /\ call.stage = "multisign" => p <= b
      /\ call.stage \in {"identity", "multisign"} /\ call.pending # <<>> =>
           Len(Tail(call.pending)) \in Nat /\ Len(Tail(call.pending)) < p
  BY PendingLength
<1>2. call.stage # "idle" /\ StepsLeft = Work(call.stage, p)
      /\ StepsLeft' = Work(call'.stage, Len(call'.pending))
  <2>1. call.stage # "idle"
    <3>1. CASE RefuseType \/ RefuseIntent \/ ComplianceReadFails
      BY <3>1 DEF RefuseType, RefuseIntent, ComplianceReadFails, InCall
    <3>2. CASE BuildIntent
      BY <3>2 DEF BuildIntent, InCall
    <3>3. CASE RouteTier \/ EvaluateCall \/ EvaluateRaises
      BY <3>3 DEF RouteTier, EvaluateCall, EvaluateRaises, InCall
    <3>4. CASE VerifyTreasury \/ VerifyIdentity \/ BackendSigns \/ ReturnSigned
      BY <3>4 DEF VerifyTreasury, VerifyIdentity, BackendSigns, ReturnSigned, InCall
    <3> QED
      BY <3>1, <3>2, <3>3, <3>4 DEF CallStep
  <2> QED
    BY <2>1 DEF StepsLeft
<1> HIDE DEF b, s, p
<1>3. CASE call' = NoCall
  <2>1. StepsLeft' = 0
    BY <1>2, <1>3, WorkValues DEF NoCall
  <2>2. StepsLeft \in Nat /\ StepsLeft >= 1
    BY <1>2, WorkBounded, PendingLength
  <2> QED
    BY <1>2, <2>1, <2>2
<1>4. CASE BuildIntent
  <2>1. call.stage = "intent" /\ call'.stage = "route"
    BY <1>4 DEF BuildIntent, InCall, IInv, CallKnown, CallFields
  <2> QED
    BY <1>1, <2>1, <1>2, WorkValues DEF b, s
<1>5. CASE RouteTier /\ call' # NoCall
  <2>1. call.stage = "route" /\ call'.stage = "evaluate"
    BY <1>5 DEF RouteTier, Raise, InCall, IInv, CallKnown, CallFields
  <2> QED
    BY <1>1, <2>1, <1>2, WorkValues DEF b, s
<1>6. CASE EvaluateCall /\ call' # NoCall
  <2>1. call.stage = "evaluate" /\ call'.stage = "treasury"
    BY <1>6 DEF EvaluateCall, Refuse, InCall, IInv, CallKnown, CallFields
  <2> QED
    BY <1>1, <2>1, <1>2, WorkValues DEF b, s
<1>7. CASE VerifyTreasury /\ call' # NoCall
  <2>1. /\ call.stage = "treasury" /\ call'.stage = "identity"
        /\ call'.pending = Subjects \/ call'.pending = <<>>
    BY <1>7 DEF VerifyTreasury, Refuse, Advance, InCall, IInv, CallKnown, CallFields
  <2>2. Len(call'.pending) \in 0..s
    BY <1>1, <2>1, EmptySeq DEF s
  <2> QED
    BY <1>1, <2>1, <2>2, <1>2, WorkValues DEF b, s
<1>8. CASE VerifyIdentity /\ call' # NoCall
  <2>1. /\ call.stage = "identity"
        /\ \/ call'.stage = "multisign" /\ call'.pending = Backends
           \/ /\ call'.stage = "identity" /\ call.pending # <<>>
              /\ call'.pending = Tail(call.pending)
    BY <1>8 DEF VerifyIdentity, Refuse, Advance, InCall, IInv, CallKnown, CallFields
  <2>2. StepsLeft = 2 + b + p
    BY <2>1, <1>2, WorkValues DEF b
  <2>3. CASE call'.stage = "multisign" /\ call'.pending = Backends
    <3>1. StepsLeft' = 1 + b
      BY <2>3, <1>2, WorkValues DEF b
    <3> QED
      BY <1>1, <1>2, <2>2, <3>1
  <2>4. CASE /\ call'.stage = "identity" /\ call.pending # <<>>
             /\ call'.pending = Tail(call.pending)
    <3> DEFINE q == Len(Tail(call.pending))
    <3>1. StepsLeft' = 2 + b + q
      BY <2>4, <1>2, WorkValues DEF b
    <3>2. q \in Nat /\ q < p
      BY <1>1, <2>1, <2>4
    <3> HIDE DEF q
    <3>3. StepsLeft' < StepsLeft
      BY <1>1, <2>2, <3>1, <3>2
    <3> QED
      BY <1>2, <3>3
  <2> QED
    BY <2>1, <2>3, <2>4
<1>9. CASE BackendSigns /\ call' # NoCall
  <2>1. /\ call.stage = "multisign" /\ call.pending # <<>>
        /\ call'.stage = "multisign" /\ call'.pending = Tail(call.pending)
    BY <1>9 DEF BackendSigns, Raise, Advance, InCall, IInv, CallKnown, CallFields
  <2> QED
    BY <1>1, <2>1, <1>2, WorkValues DEF b, s
<1>10. CASE RefuseType \/ RefuseIntent \/ ComplianceReadFails \/ EvaluateRaises \/ ReturnSigned
  <2>1. call' = NoCall
    BY <1>10 DEF RefuseType, RefuseIntent, ComplianceReadFails, EvaluateRaises, ReturnSigned,
       Refuse, Raise, Release
  <2> QED
    BY <1>3, <2>1
<1> QED
  BY <1>3, <1>4, <1>5, <1>6, <1>7, <1>8, <1>9, <1>10 DEF CallStep

\* No call of sign() goes on for ever: whatever the ledger, the price and the
\* breaker do, its own steps are limited beforehand (sign, _sign, multisign).
THEOREM CallsShrink == SignerSpec => CallShrinks
<1>1. IInv => StepsLeft \in 0..(6 + Len(Subjects) + Len(Backends))
  BY WorkBounded
<1>2. IInv /\ [SignerNext]_vars =>
        [call.stage # "idle" => IF CallStep THEN StepsLeft' < StepsLeft
                                ELSE StepsLeft' = StepsLeft]_vars
  <2> SUFFICES ASSUME IInv, SignerNext, call.stage # "idle"
               PROVE  IF CallStep THEN StepsLeft' < StepsLeft
                      ELSE StepsLeft' = StepsLeft
    OBVIOUS
  <2>1. CASE CallStep
    BY <2>1, StepsShrink
  <2>2. CASE Environment /\ ~CallStep
    <3>1. call' = call
      BY <2>2 DEF Environment, GovernanceChange, CredentialChange, TimePasses, PriceChange,
         HumanReset, signerVars
    <3> QED
      BY <2>2, <3>1 DEF StepsLeft
  <2>3. ASSUME NEW t \in Txs, Sign(t) PROVE FALSE
    BY <2>3 DEF Sign, InCall
  <2> QED
    BY <2>1, <2>2, <2>3 DEF SignerNext
<1> QED
  BY <1>1, <1>2, InitIInv, NextIInv, PTL DEF SignerSpec, CallShrinks
=============================================================================
