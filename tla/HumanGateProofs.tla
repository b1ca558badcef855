--------------------------- MODULE HumanGateProofs ---------------------------
(***************************************************************************)
(* Proofs about the two paths on which a human has a say.                  *)
(*                                                                         *)
(* The human override, for any transactions and number of tokens.  Its      *)
(* engine is well typed and its freeze sound, for the same lemmas that say  *)
(* so of RiskEngine.  Since transactions are reviewed again and again, what  *)
(* a Signature_2 rests on is some earlier verdict on the same transaction,  *)
(* never the latest one.                                                    *)
(*                                                                         *)
(* The wallet ceremony, for any orders, number of ceremonies, failures and  *)
(* signer that keeps the promise of GatedSigning.  The invariant follows    *)
(* the ceremony in progress through its stages, and keeps of each earlier   *)
(* one what its transaction rests on once it is on its way.  That a payee   *)
(* is paid once needs more: of the transactions whose hash was put out, at  *)
(* most one per payee may still pay, and since the ceremony in progress is  *)
(* about to add one, none but its own may while it runs.                   *)
(***************************************************************************)
EXTENDS HumanOverride, Ceremony, RiskEngineProofs

\* What the engine lets through: a trusted destination, and no more than the
\* threshold, at the one rate there is.
Harmless(tx) ==
  /\ tx.payment.destination \in Whitelist
  /\ ToRlusd(tx.payment.asset, tx.payment.amount, quote) <= AmountThreshold

\* Every verdict is on a transaction, and a GREEN one on a harmless one; each
\* Signature_2 was put on a transaction once cleared.
ReviewsKnown ==
  /\ reviewed \in Seq(Transactions) /\ Len(reviewed) = Len(audit_log)
  /\ \A i \in 1..Len(reviewed) :
       audit_log[i].risk_level = "GREEN" => Harmless(reviewed[i])
  /\ \A tx \in cosigned : Cleared(tx, Len(audit_log))

\* The latest broadcast had its authority when it was made.
BroadcastKnown ==
  /\ \A t \in tokens : t.audits \in 0..Len(audit_log)
  /\ broadcast # None => broadcast.audits \in 0..Len(audit_log)
  /\ broadcast.by \in {"nobody", "2-of-2", "override"}
  /\ broadcast.by = "nobody" => broadcast = None
  /\ broadcast.by = "2-of-2" => Cleared(broadcast.tx, broadcast.audits)
  /\ broadcast.by = "override" =>
       \E t \in tokens : t.hash = TxHash(broadcast.tx) /\ t.audits <= broadcast.audits

BroadcastIInv == ReviewsKnown /\ BroadcastKnown

\* A token over a reset hash names the audits it was issued after.  While none
\* follow, its freeze episode is the present one, unless a reset ended it.
TokenKnown(t) ==
  /\ t.hash[1] = "RESET" => t.hash[3] = t.audits
  /\ t.audits \in 0..Len(audit_log)
  /\ t.audits = Len(audit_log) =>
       t.episode = episode_start \/ episode_start = Len(audit_log)

ResetIInv == (\A t \in tokens : TokenKnown(t)) /\ ResetBoundToEpisode

-----------------------------------------------------------------------------
(* The engine of the override path.                                        *)

\* A transaction can be evaluated: its payment is one, its timestamp too.
LEMMA TransactionTyped ==
  ASSUME NEW tx \in Transactions
  PROVE  tx.payment \in Payments /\ tx.timestamp \in Timestamps
BY TransactionsAssumption

\* Whatever the path does, its engine stays well typed and its freeze sound.
LEMMA EngineStep ==
  ASSUME TypeOK, FreezeEpisode, [OverrideNext]_vars
  PROVE  TypeOK' /\ FreezeEpisode'
<1>1. ASSUME NEW tx \in Transactions, ReviewAndCosign(tx)
      PROVE  TypeOK' /\ FreezeEpisode'
  <2>1. Evaluate(tx.payment, tx.timestamp)
    BY <1>1 DEF ReviewAndCosign, EvaluateTransaction
  <2> QED
    BY <2>1, TransactionTyped, EvaluateTypedAt, EvaluateKeepsFreeze
<1>2. ASSUME ResetCircuitBreaker
      PROVE  TypeOK' /\ FreezeEpisode'
  BY <1>2, TypeStep, ResetEndsFreeze DEF RiskNext
<1>3. ASSUME UNCHANGED riskVars
      PROVE  TypeOK' /\ FreezeEpisode'
  BY <1>3, TypeStep DEF riskVars, engineVars, breakerVars, FreezeEpisode, EpisodeReds
<1>4. ASSUME NEW hash, IssueOverride(hash)
      PROVE  UNCHANGED riskVars
  BY <1>4 DEF IssueOverride
<1>5. ASSUME NEW tx, NetworkBroadcast(tx)
      PROVE  UNCHANGED riskVars
  BY <1>5 DEF NetworkBroadcast, Broadcast
<1>6. ASSUME NEW t, ResetWithToken(t)
      PROVE  ResetCircuitBreaker
  BY <1>6 DEF ResetWithToken
<1>7. UNCHANGED vars => UNCHANGED riskVars
  BY DEF vars
<1> QED
  BY <1>1, <1>2, <1>3, <1>4, <1>5, <1>6, <1>7 DEF OverrideNext

LEMMA OverrideEngineSound == OverrideSpec => [](TypeOK /\ FreezeEpisode)
<1>1. OverrideInit => TypeOK /\ FreezeEpisode
  BY TypeInit, FreezeInit DEF OverrideInit
<1>2. (TypeOK /\ FreezeEpisode) /\ [OverrideNext]_vars => (TypeOK /\ FreezeEpisode)'
  BY EngineStep
<1> QED
  BY <1>1, <1>2, PTL DEF OverrideSpec

\* A tripped breaker was tripped by a verdict since the last reset.
LEMMA TrippedSinceReset ==
  ASSUME TypeOK, FreezeEpisode, circuit_breaker_tripped
  PROVE  episode_start < Len(audit_log)
<1>1. EpisodeReds # {} /\ Len(audit_log) \in Nat /\ episode_start \in 0..Len(audit_log)
  BY IntegerTimestamps DEF FreezeEpisode, TypeOK
<1> QED
  BY <1>1 DEF EpisodeReds

\* A GREEN verdict is given on harmless transactions only.
LEMMA GreenIsHarmless ==
  ASSUME TypeOK, NEW tx \in Transactions, NEW kept,
         RiskLevel(FiredReasons(tx.payment, kept)) = "GREEN"
  PROVE  Harmless(tx)
<1> DEFINE p     == tx.payment
           value == ToRlusd(p.asset, p.amount, quote)
           fired == FiredReasons(p, kept)
<1>1. fired \cap RedCodes = {} /\ fired \cap YellowCodes = {}
  BY DEF RiskLevel
<1>2. /\ When(value > AmountThreshold, "value_threshold_exceeded") \subseteq fired
      /\ When(p.destination \notin Whitelist, "untrusted_destination") \subseteq fired
  BY DEF FiredReasons, OwnFindings
<1> HIDE DEF fired
<1>3. ~(value > AmountThreshold) /\ p.destination \in Whitelist
  BY <1>1, <1>2 DEF When, RedCodes, YellowCodes
<1>4. value \in Int /\ AmountThreshold \in Int
  <2>1. p.amount \in Int /\ quote.rate \in Int
    <3>1. p \in Payments
      BY TransactionTyped
    <3>2. quote.rate \in Int
      <4>1. quote \in [rate : Rates, as_of : 0..MaxClock]
        BY DEF TypeOK, Quotes
      <4>2. quote.rate \in Rates
        BY <4>1
      <4>3. quote.rate \in Nat
        BY <4>2, RatesAssumption, Zenon
      <4> QED
        BY <4>3
    <3> QED
      BY <3>1, <3>2, PaymentAssumption
  <2>2. p.amount * quote.rate \in Int
    BY <2>1
  <2> QED
    BY <2>1, <2>2, ThresholdAssumption DEF ToRlusd
<1>5. value <= AmountThreshold
  <2> HIDE DEF value
  <2> QED
    BY <1>3, <1>4
<1> QED
  BY <1>3, <1>5 DEF Harmless

-----------------------------------------------------------------------------
(* The two invariants, step by step.                                       *)

\* Of a transaction reviewed anew: its verdict joins the log, and with it, if
\* that is GREEN, its Signature_2.
LEMMA ReviewStep ==
  ASSUME TypeOK, TypeOK', ReviewsKnown, NEW tx \in Transactions, ReviewAndCosign(tx)
  PROVE  ReviewsKnown'
<1> DEFINE n == Len(audit_log)
<1>1. /\ Evaluate(tx.payment, tx.timestamp)
      /\ reviewed' = Append(reviewed, tx)
      /\ cosigned' = IF audit_log'[Len(audit_log')].risk_level \in {"YELLOW", "RED"}
                     THEN cosigned ELSE cosigned \cup {tx}
  BY DEF ReviewAndCosign, EvaluateTransaction
<1>2. PICK kept :
        /\ Len(audit_log') = n + 1
        /\ \A i \in 1..n : audit_log'[i] = audit_log[i]
        /\ audit_log'[n + 1].risk_level = RiskLevel(FiredReasons(tx.payment, kept))
  BY <1>1, TransactionTyped, EvaluateLogsAt
<1>3. /\ reviewed \in Seq(Transactions) /\ Len(reviewed) = n /\ n \in Nat
      /\ reviewed' \in Seq(Transactions) /\ Len(reviewed') = n + 1
      /\ \A i \in 1..n : reviewed'[i] = reviewed[i]
      /\ reviewed'[n + 1] = tx
  BY <1>1, AppendProperties, LenProperties DEF ReviewsKnown
<1>4. quote' = quote /\ \A other : Harmless(other)' <=> Harmless(other)
  BY <1>1 DEF Evaluate, marketVars, Harmless
<1> HIDE DEF n
<1>5. ASSUME NEW i \in 1..(n + 1), audit_log'[i].risk_level = "GREEN"
      PROVE  Harmless(reviewed'[i])
  <2>1. CASE i = n + 1
    BY <1>2, <1>3, <1>5, <2>1, GreenIsHarmless
  <2>2. CASE i # n + 1
    <3>1. i \in 1..n
      BY <1>3, <2>2
    <3> QED
      BY <1>2, <1>3, <1>5, <3>1 DEF ReviewsKnown
  <2> QED
    BY <2>1, <2>2
<1>6. ASSUME NEW other \in cosigned'
      PROVE  \E i \in 1..(n + 1) :
               reviewed'[i] = other /\ audit_log'[i].risk_level = "GREEN"
  <2>1. CASE other \in cosigned
    <3>1. PICK i \in 1..n : reviewed[i] = other /\ audit_log[i].risk_level = "GREEN"
      BY <2>1 DEF ReviewsKnown, Cleared, n
    <3>2. i \in 1..(n + 1)
      BY <1>3
    <3> QED
      BY <1>2, <1>3, <3>1, <3>2
  <2>2. CASE other \notin cosigned
    <3>1. other = tx /\ audit_log'[n + 1].risk_level \notin {"YELLOW", "RED"}
      BY <1>1, <1>2, <1>6, <2>2
    <3>2. audit_log'[n + 1].risk_level \in {"GREEN", "YELLOW", "RED"}
      BY <1>2 DEF RiskLevel
    <3>3. n + 1 \in 1..(n + 1)
      BY <1>3
    <3> QED
      BY <1>3, <3>1, <3>2, <3>3
  <2> QED
    BY <2>1, <2>2
<1> QED
  BY <1>2, <1>3, <1>4, <1>5, <1>6 DEF ReviewsKnown, Cleared

\* A verdict stays what it was when others are added.
LEMMA ClearedStays ==
  ASSUME NEW tx, NEW k \in 0..Len(audit_log), Len(audit_log) \in Nat, Cleared(tx, k),
         \A i \in 1..Len(audit_log) :
           reviewed'[i] = reviewed[i] /\ audit_log'[i] = audit_log[i]
  PROVE  \E i \in 1..k : reviewed'[i] = tx /\ audit_log'[i].risk_level = "GREEN"
<1>1. PICK i \in 1..k : reviewed[i] = tx /\ audit_log[i].risk_level = "GREEN"
  BY DEF Cleared
<1>2. i \in 1..Len(audit_log)
  OBVIOUS
<1> QED
  BY <1>1, <1>2

LEMMA BroadcastStep ==
  ASSUME TypeOK, TypeOK', BroadcastIInv, [OverrideNext]_vars
  PROVE  BroadcastIInv'
<1>0. /\ Len(audit_log) \in Nat /\ Len(audit_log') \in Nat
      /\ ReviewsKnown /\ BroadcastKnown
  BY LenProperties DEF TypeOK, BroadcastIInv
<1>1. ASSUME NEW tx \in Transactions, ReviewAndCosign(tx)
      PROVE  BroadcastIInv'
  <2> DEFINE n == Len(audit_log)
  <2>1. ReviewsKnown'
    BY <1>0, <1>1, ReviewStep
  <2>2. Evaluate(tx.payment, tx.timestamp) /\ UNCHANGED <<tokens, broadcast>>
    BY <1>1 DEF ReviewAndCosign, EvaluateTransaction
  <2>3. Len(audit_log') = n + 1 /\ \A i \in 1..n : audit_log'[i] = audit_log[i]
    BY <2>2, TransactionTyped, EvaluateLogsAt
  <2>4. \A i \in 1..n : reviewed'[i] = reviewed[i]
    <3>1. reviewed' = Append(reviewed, tx) /\ reviewed \in Seq(Transactions)
          /\ Len(reviewed) = n
      BY <1>0, <1>1 DEF ReviewAndCosign, ReviewsKnown
    <3> QED
      BY <3>1, AppendProperties
  <2>5. broadcast.by = "2-of-2" =>
          \E i \in 1..broadcast.audits :
            reviewed'[i] = broadcast.tx /\ audit_log'[i].risk_level = "GREEN"
    BY <1>0, <2>3, <2>4, ClearedStays DEF BroadcastKnown, None
  <2>6. \A k : k \in 0..n => k \in 0..Len(audit_log')
    BY <1>0, <2>3
  <2>7. BroadcastKnown'
    BY <1>0, <2>2, <2>5, <2>6 DEF BroadcastKnown, Cleared, None, TxHash
  <2> QED
    BY <2>1, <2>7 DEF BroadcastIInv
<1>2. ASSUME NEW tx \in Transactions, NetworkBroadcast(tx)
      PROVE  BroadcastIInv'
  <2>1. UNCHANGED <<riskVars, reviewed, cosigned, tokens>>
    BY <1>2 DEF NetworkBroadcast, Broadcast
  <2>2. ReviewsKnown'
    BY <1>0, <2>1 DEF ReviewsKnown, Cleared, Harmless, riskVars, engineVars, marketVars
  <2>3. /\ broadcast'.tx = tx /\ broadcast'.audits = Len(audit_log) /\ broadcast' # None
        /\ \/ broadcast'.by = "2-of-2" /\ tx \in cosigned
           \/ broadcast'.by = "override" /\ \E t \in tokens : t.hash = TxHash(tx)
    BY <1>2 DEF NetworkBroadcast, Broadcast, None
  <2>4. UNCHANGED <<audit_log, reviewed, tokens>>
    BY <2>1 DEF riskVars, engineVars
  <2>5. tx \in cosigned => Cleared(tx, Len(audit_log))
    BY <1>0 DEF ReviewsKnown
  <2>6. Len(audit_log) \in 0..Len(audit_log)
        /\ \A t \in tokens : t.audits \in 0..Len(audit_log) /\ t.audits <= Len(audit_log)
    BY <1>0 DEF BroadcastKnown
  <2>7. BroadcastKnown'
    BY <2>3, <2>4, <2>5, <2>6 DEF BroadcastKnown, Cleared, TxHash
  <2> QED
    BY <2>2, <2>7 DEF BroadcastIInv
<1>3. ASSUME UNCHANGED <<audit_log, quote, reviewed, cosigned, broadcast>>,
             \A t \in tokens' : t \in tokens \/ t.audits = Len(audit_log),
             tokens \subseteq tokens'
      PROVE  BroadcastIInv'
  <2>1. ReviewsKnown'
    BY <1>0, <1>3 DEF ReviewsKnown, Cleared, Harmless
  <2>2. Len(audit_log) \in 0..Len(audit_log)
    BY <1>0
  <2>3. BroadcastKnown'
    BY <1>0, <1>3, <2>2 DEF BroadcastKnown, Cleared, None, TxHash
  <2> QED
    BY <2>1, <2>3 DEF BroadcastIInv
<1>4. ASSUME NEW hash, IssueOverride(hash)
      PROVE  BroadcastIInv'
  <2>1. tokens' = tokens \cup {Token(hash)} /\ Token(hash).audits = Len(audit_log)
    BY <1>4 DEF IssueOverride, Token
  <2>2. UNCHANGED <<audit_log, quote, reviewed, cosigned, broadcast>>
    BY <1>4 DEF IssueOverride, riskVars, engineVars, marketVars
  <2> QED
    BY <1>3, <2>1, <2>2
<1>5. ASSUME NEW t \in tokens, ResetWithToken(t)
      PROVE  BroadcastIInv'
  BY <1>3, <1>5 DEF ResetWithToken, ResetCircuitBreaker, marketVars
<1>6. CASE UNCHANGED vars
  BY <1>3, <1>6 DEF vars, riskVars, engineVars, marketVars, overrideVars
<1> QED
  BY <1>1, <1>2, <1>4, <1>5, <1>6 DEF OverrideNext

LEMMA ResetStep ==
  ASSUME TypeOK, FreezeEpisode, TypeOK', ResetIInv, [OverrideNext]_vars
  PROVE  ResetIInv'
<1> USE DEF ResetIInv
<1>0. Len(audit_log) \in Nat /\ Len(audit_log') \in Nat
      /\ episode_start \in 0..Len(audit_log)
  BY LenProperties DEF TypeOK
<1>1. ASSUME NEW tx \in Transactions, ReviewAndCosign(tx)
      PROVE  ResetIInv'
  <2>1. Evaluate(tx.payment, tx.timestamp) /\ UNCHANGED <<tokens, resets>>
    BY <1>1 DEF ReviewAndCosign, EvaluateTransaction
  <2>2. Len(audit_log') = Len(audit_log) + 1
    BY <2>1, TransactionTyped, EvaluateLogsAt
  <2> QED
    BY <1>0, <2>1, <2>2 DEF TokenKnown, ResetBoundToEpisode
<1>2. ASSUME NEW hash, IssueOverride(hash), hash[1] = "RESET" => hash[3] = Len(audit_log)
      PROVE  ResetIInv'
  <2>1. UNCHANGED <<audit_log, episode_start, resets>> /\ tokens' = tokens \cup {Token(hash)}
    BY <1>2 DEF IssueOverride, riskVars, engineVars
  <2>2. TokenKnown(Token(hash))
    BY <1>0, <1>2 DEF TokenKnown, Token
  <2> QED
    BY <2>1, <2>2 DEF TokenKnown, ResetBoundToEpisode
<1>3. ASSUME NEW t \in tokens, ResetWithToken(t)
      PROVE  ResetIInv'
  <2>1. /\ t.hash = ResetHash /\ UNCHANGED <<audit_log, tokens>>
        /\ episode_start' = Len(audit_log)
        /\ resets' = resets \cup
             {[token |-> t, audits |-> Len(audit_log), episode |-> episode_start,
               frozen |-> circuit_breaker_tripped]}
    BY <1>3 DEF ResetWithToken, ResetCircuitBreaker
  <2>2. t.audits = Len(audit_log)
    BY <2>1 DEF TokenKnown, ResetHash
  <2>3. circuit_breaker_tripped => t.episode = episode_start
    BY <1>0, <2>2, TrippedSinceReset DEF TokenKnown
  <2>4. ResetBoundToEpisode'
    BY <2>1, <2>2, <2>3 DEF ResetBoundToEpisode
  <2>5. \A s \in tokens : TokenKnown(s)'
    BY <2>1 DEF TokenKnown
  <2> QED
    BY <2>1, <2>4, <2>5
<1>4. ASSUME UNCHANGED <<audit_log, episode_start, tokens, resets>>
      PROVE  ResetIInv'
  BY <1>4 DEF TokenKnown, ResetBoundToEpisode
<1>5. ASSUME NEW tx, NetworkBroadcast(tx)
      PROVE  ResetIInv'
  BY <1>4, <1>5 DEF NetworkBroadcast, Broadcast, riskVars, engineVars
<1>6. CASE UNCHANGED vars
  BY <1>4, <1>6 DEF vars, riskVars, engineVars, overrideVars
<1>7. /\ \A tx : TxHash(tx)[1] # "RESET"
      /\ ResetHash[3] = Len(audit_log)
  BY DEF TxHash, ResetHash
<1> QED
  BY <1>1, <1>2, <1>3, <1>5, <1>6, <1>7 DEF OverrideNext

-----------------------------------------------------------------------------
\* Nothing is broadcast but with an earlier GREEN verdict on that very transaction,
\* which makes it harmless, or a token a human had issued over it.
THEOREM BroadcastHolds == OverrideSpec => []BroadcastAuthorized
<1>1. OverrideInit => BroadcastIInv
  <2> SUFFICES ASSUME OverrideInit PROVE BroadcastIInv
    OBVIOUS
  <2>1. /\ reviewed = <<>> /\ audit_log = <<>> /\ cosigned = {} /\ tokens = {}
        /\ broadcast = None
    BY DEF OverrideInit, RiskInit
  <2>2. Len(reviewed) = 0 /\ Len(audit_log) = 0 /\ reviewed \in Seq(Transactions)
    BY <2>1, EmptySeq
  <2>3. ReviewsKnown
    BY <2>1, <2>2 DEF ReviewsKnown
  <2>4. BroadcastKnown
    BY <2>1 DEF BroadcastKnown, None
  <2> QED
    BY <2>3, <2>4 DEF BroadcastIInv
<1>2. TypeOK /\ TypeOK' /\ BroadcastIInv /\ [OverrideNext]_vars => BroadcastIInv'
  BY BroadcastStep
<1>3. TypeOK /\ BroadcastIInv => BroadcastAuthorized
  <2> SUFFICES ASSUME TypeOK, BroadcastIInv PROVE BroadcastAuthorized
    OBVIOUS
  <2>1. ASSUME broadcast.by = "2-of-2"
        PROVE  Cleared(broadcast.tx, broadcast.audits) /\ Harmless(broadcast.tx)
    <3>1. broadcast.audits \in 0..Len(audit_log) /\ Len(audit_log) \in Nat
      BY <2>1, LenProperties DEF BroadcastIInv, BroadcastKnown, None, TypeOK
    <3>2. PICK i \in 1..broadcast.audits :
            reviewed[i] = broadcast.tx /\ audit_log[i].risk_level = "GREEN"
      BY <2>1 DEF BroadcastIInv, BroadcastKnown, Cleared
    <3>3. i \in 1..Len(reviewed)
      BY <3>1 DEF BroadcastIInv, ReviewsKnown
    <3> QED
      BY <2>1, <3>2, <3>3 DEF BroadcastIInv, BroadcastKnown, ReviewsKnown
  <2>2. broadcast.by = "override" =>
          \E t \in tokens : t.hash = <<"TX", broadcast.tx>> /\ t.audits <= broadcast.audits
    BY DEF BroadcastIInv, BroadcastKnown, TxHash
  <2> QED
    BY <2>1, <2>2 DEF BroadcastAuthorized, Harmless
<1> QED
  BY <1>1, <1>2, <1>3, OverrideEngineSound, PTL DEF OverrideSpec

\* The token that lifts a freeze was issued in that freeze, and nothing was
\* evaluated since.
THEOREM ResetHolds == OverrideSpec => []ResetBoundToEpisode
<1>1. OverrideInit => ResetIInv
  BY DEF OverrideInit, ResetIInv, ResetBoundToEpisode
<1>2. TypeOK /\ FreezeEpisode /\ TypeOK' /\ ResetIInv /\ [OverrideNext]_vars => ResetIInv'
  BY ResetStep
<1>3. ResetIInv => ResetBoundToEpisode
  BY DEF ResetIInv
<1> QED
  BY <1>1, <1>2, <1>3, OverrideEngineSound, PTL DEF OverrideSpec

-----------------------------------------------------------------------------
(* The wallet ceremony: what it knows.                                     *)

Fields == {"order", "known", "gate", "submit", "tx", "shown", "answer", "status"}

LogTyped ==
  /\ \E S : log \in Seq(S)
  /\ Len(log) <= MaxCeremonies
  /\ \A k \in 1..Len(log) : DOMAIN log[k] = Fields

\* A transaction that was made of an order of the signer.
Made(t, o) ==
  /\ o \in Orders /\ o.account = SignerAddress
  /\ t \in Requests /\ t.sequence \in Nat /\ t.last_ledger \in Nat
  /\ t = Autofilled(o, t.sequence, t.last_ledger)

\* Every field of a transaction was shown, and a human who was to be asked agreed.
Shown(c, t) == c.shown # NoTx /\ \A f \in DOMAIN t : c.shown[f] = t[f]

Answered(c) == c.gate => c.answer = "yes"

\* The ledger closes at most this far while n ceremonies are held.
Horizon(n) == MaxLedger + (LedgerOffset + 1) * n

\* What the ceremony in progress has done so far.
CurrentKnown ==
  stage # "idle" =>
    /\ Len(log) >= 1 /\ Current.status = "none" /\ Current.order \in Orders
    /\ Current.known # NoTx =>
         /\ Current.known \in output
         /\ Current.known =
              Autofilled(Current.order, Current.known.sequence, Current.known.last_ledger)
    /\ stage = "received" => Tx = NoTx
    /\ stage \in {"received", "prepared"} => Current.shown = NoTx
    /\ stage \in {"received", "prepared", "confirm"} => Current.answer = "none"
    /\ stage # "received" =>
         /\ Made(Tx, Current.order)
         /\ Current.known # NoTx => Tx = Current.known
    /\ stage = "confirm" => Current.gate
    /\ stage \notin {"received", "prepared"} => Shown(Current, Tx)
    /\ stage \in {"sign", "signing", "signed", "persisted", "waiting"} => Answered(Current)
    /\ stage \in {"signed", "persisted", "waiting"} => released[Tx] > 0
    /\ stage \in {"persisted", "waiting"} => Tx \in output /\ Current.submit
    /\ stage = "waiting" => Tx \in inflight

SignerKnown ==
  /\ stage \in {"idle", "received", "prepared", "confirm", "sign", "signing",
                "signed", "persisted", "waiting"}
  /\ released \in [Requests -> Nat]
  /\ (request # NoRequest) <=> (stage = "signing")
  /\ stage = "signing" => request = Tx

\* The transactions of the ceremonies, and those whose hash was put out.
TxsKnown ==
  /\ \A k \in 1..Len(log) : log[k].tx # NoTx =>
       /\ Made(log[k].tx, log[k].order)
       /\ log[k].tx.last_ledger <= Horizon(k - 1) + LedgerOffset
  /\ \A t \in output :
       /\ t \in Requests /\ released[t] > 0
       /\ \E k \in 1..Len(log) : log[k].tx = t /\ t # NoTx

\* What is on its way, or there, was confirmed in a ceremony that was no dry run.
WayKnown ==
  /\ inflight \subseteq output
  /\ \A t \in inflight : \E k \in 1..Len(log) :
       /\ log[k].submit /\ Answered(log[k]) /\ Shown(log[k], t)
       /\ Made(t, log[k].order)

\* The ledger takes each transaction once, and uses up its Sequence.
LandedKnown ==
  /\ sequence \in Nat /\ others \in 0..MaxOthers
  /\ IsFiniteSet(landed) /\ sequence = 1 + others + Cardinality(landed)
  /\ \A l \in landed : /\ l = [tx |-> l.tx, code |-> l.code]
                       /\ l.tx \in inflight /\ l.code \in Codes
                       /\ l.tx.sequence < sequence
  /\ \A l, m \in landed : l.tx = m.tx => l = m

ClockKnown ==
  /\ ledger \in Nat \ {0}
  /\ ledger <= Horizon(Len(log))
  /\ stage \notin {"idle", "waiting"} => ledger <= Horizon(Len(log) - 1)

\* To a payee nobody was careless with, at most one transaction may still pay, and
\* while a ceremony for the payee is in progress it is that ceremony's own.
PayingKnown ==
  /\ \A t, u \in output :
       t # u /\ t.payee = u.payee /\ t.payee \notin careless => ~(MayPay(t) /\ MayPay(u))
  /\ stage # "idle" /\ Current.order.payee \notin careless =>
       \A t \in output :
         t.payee = Current.order.payee /\ t # Current.known /\ t # Tx => ~MayPay(t)

CeremonyInv ==
  /\ LogTyped /\ CurrentKnown /\ SignerKnown /\ TxsKnown /\ WayKnown
  /\ LandedKnown /\ ClockKnown /\ PayingKnown /\ ResultIsFinal

-----------------------------------------------------------------------------
(* Autofilling, and how far the ledger gets.                               *)

LEMMA AutofillKeepsOrder ==
  ASSUME NEW o \in Orders, NEW next, NEW last
  PROVE  LET t == Autofilled(o, next, last)
         IN  /\ DOMAIN t = {"account", "payee", "tag", "sequence", "last_ledger"}
             /\ t.account = o.account /\ t.payee = o.payee
             /\ o.tag # "absent" => t.tag = o.tag
             /\ t.sequence = next /\ t.last_ledger = last /\ t # NoTx
<1> DEFINE tagged == ApplyDefaultSourceTag(o)
<1>1. DOMAIN o = {"account", "payee", "tag"}
  BY OrdersAssumption
<1>2. /\ tagged.account = o.account /\ tagged.payee = o.payee
      /\ o.tag # "absent" => tagged.tag = o.tag
  BY <1>1 DEF ApplyDefaultSourceTag
<1>3. Autofilled(o, next, last) =
        [account |-> tagged.account, payee |-> tagged.payee, tag |-> tagged.tag,
         sequence |-> next, last_ledger |-> last]
  BY DEF Autofilled
<1> QED
  BY <1>2, <1>3 DEF NoTx

LEMMA MadeOfOrder ==
  ASSUME NEW t, NEW o, Made(t, o)
  PROVE  /\ DOMAIN t = {"account", "payee", "tag", "sequence", "last_ledger"}
         /\ t.account = o.account /\ t.payee = o.payee
         /\ o.tag # "absent" => t.tag = o.tag
         /\ t # NoTx
BY AutofillKeepsOrder DEF Made

LEMMA HorizonGrows ==
  ASSUME NEW n \in Nat
  PROVE  /\ Horizon(n) \in Nat /\ Horizon(n) >= MaxLedger
         /\ Horizon(n + 1) = Horizon(n) + LedgerOffset + 1
         /\ \A m \in 0..n : Horizon(m) <= Horizon(n)
<1>1. LedgerOffset + 1 \in Nat /\ MaxLedger \in Nat
  BY CeremonyBounds
<1> DEFINE w == LedgerOffset + 1
<1> HIDE DEF w
<1>2. w \in Nat
  BY <1>1 DEF w
<1>3. w * n \in Nat /\ w * (n + 1) = w * n + w
  BY <1>2
<1>4. \A m \in 0..n : w * m \in Nat /\ w * m <= w * n
  <2> TAKE m \in 0..n
  <2>1. m \in Nat /\ n - m \in Nat /\ n = m + (n - m)
    OBVIOUS
  <2>2. w * n = w * m + w * (n - m)
    BY <1>2, <2>1
  <2>3. w * m \in Nat /\ w * (n - m) \in Nat
    BY <1>2, <2>1
  <2> QED
    BY <2>2, <2>3
<1>5. \A m \in Nat : Horizon(m) = MaxLedger + w * m
  BY DEF Horizon, w
<1>6. n + 1 \in Nat /\ \A m \in 0..n : m \in Nat
  OBVIOUS
<1>7. Horizon(n) = MaxLedger + w * n /\ Horizon(n + 1) = MaxLedger + w * (n + 1)
  BY <1>5, <1>6
<1>8. ASSUME NEW m \in 0..n
      PROVE  Horizon(m) <= Horizon(n)
  <2>1. Horizon(m) = MaxLedger + w * m /\ w * m \in Nat /\ w * m <= w * n
    BY <1>4, <1>5, <1>6
  <2> QED
    BY <1>1, <1>3, <1>7, <2>1
<1>9. /\ Horizon(n) \in Nat /\ Horizon(n) >= MaxLedger
      /\ Horizon(n + 1) = Horizon(n) + LedgerOffset + 1
  <2>1. w = LedgerOffset + 1 /\ LedgerOffset \in Nat
    BY CeremonyBounds DEF w
  <2> QED
    BY <1>1, <1>3, <1>7, <2>1
<1> QED
  BY <1>8, <1>9

LEMMA LatestIsHorizon == LatestLedger = Horizon(MaxCeremonies - 1) + LedgerOffset
<1>1. (LedgerOffset + 1) * (MaxCeremonies - 1) \in Nat
  BY CeremonyBounds
<1> DEFINE w == (LedgerOffset + 1) * (MaxCeremonies - 1)
<1> HIDE DEF w
<1>2. MaxLedger + LedgerOffset + w = MaxLedger + w + LedgerOffset
  BY <1>1, CeremonyBounds DEF w
<1> QED
  BY <1>2 DEF LatestLedger, Horizon, w

-----------------------------------------------------------------------------
(* How the log changes: an entry keeps what others rely on.                 *)

Carries(c, d) ==
  /\ d.order = c.order /\ d.submit = c.submit
  /\ c.tx # NoTx => d.tx = c.tx
  /\ c.shown # NoTx => d.shown = c.shown
  /\ c.shown # NoTx /\ Answered(c) => Answered(d)

LogCarries ==
  /\ Len(log) \in Nat /\ Len(log') \in Nat /\ Len(log) <= Len(log')
  /\ \A k \in 1..Len(log) : Carries(log[k], log'[k])

LEMMA LogSame ==
  ASSUME LogTyped, UNCHANGED log
  PROVE  LogTyped' /\ LogCarries
BY LenProperties DEF LogTyped, LogCarries, Carries, Answered

\* The entry of the ceremony in progress changes.
LEMMA EntryChanges ==
  ASSUME LogTyped, Len(log) >= 1, NEW r, DOMAIN r = Fields, Carries(Current, r),
         log' = [log EXCEPT ![Len(log)] = r]
  PROVE  /\ LogTyped' /\ LogCarries
         /\ Len(log') = Len(log) /\ Current' = r
         /\ \A k \in 1..Len(log) : k # Len(log) => log'[k] = log[k]
<1>1. PICK S : log \in Seq(S)
  BY DEF LogTyped
<1>2. log \in Seq(S \cup {r}) /\ Len(log) \in Nat /\ DOMAIN log = 1..Len(log)
  BY <1>1, SeqMonotonic, LenProperties
<1>3. Len(log) \in 1..Len(log)
  BY <1>2
<1>4. log' \in Seq(S \cup {r}) /\ Len(log') = Len(log)
  <2> DEFINE n == Len(log)
             T == S \cup {r}
  <2>1. n \in 1..Len(log) /\ r \in T /\ log \in Seq(T)
    BY <1>2, <1>3
  <2> HIDE DEF n, T
  <2>2. [log EXCEPT ![n] = r] \in Seq(T) /\ Len([log EXCEPT ![n] = r]) = Len(log)
    BY <2>1, ExceptSeq
  <2> QED
    BY <2>2 DEF n, T
<1>5. /\ log'[Len(log)] = r
      /\ \A k \in 1..Len(log) : k # Len(log) => log'[k] = log[k]
  BY <1>2, <1>3
<1>6. \A k \in 1..Len(log) : Carries(log[k], log'[k])
  BY <1>5 DEF Carries, Answered, Current
<1>7. LogTyped'
  BY <1>4, <1>5 DEF LogTyped
<1>8. Current' = r
  BY <1>4, <1>5 DEF Current
<1>9. LogCarries
  <2>1. Len(log) \in Nat /\ Len(log') \in Nat /\ Len(log) <= Len(log')
    BY <1>2, <1>4
  <2> QED
    BY <1>6, <2>1 DEF LogCarries
<1> QED
  BY <1>4, <1>5, <1>7, <1>8, <1>9

\* What is known of the transactions, and of those on their way, stays known, and
\* has to be shown of those that are new.
LEMMA WayGrows ==
  ASSUME TxsKnown, WayKnown, LogCarries, output \subseteq output',
         \A t \in Requests : released'[t] >= released[t],
         \A t \in Requests : released[t] \in Nat /\ released'[t] \in Nat,
         \A k \in 1..Len(log') : log'[k].tx # NoTx =>
           \/ k \in 1..Len(log) /\ log[k].tx # NoTx
           \/ /\ Made(log'[k].tx, log'[k].order)
              /\ log'[k].tx.last_ledger <= Horizon(k - 1) + LedgerOffset,
         \A t \in output' \ output :
           /\ t \in Requests /\ released'[t] > 0
           /\ \E k \in 1..Len(log') : log'[k].tx = t /\ t # NoTx,
         \A t \in inflight' \ inflight : t \in output' /\
           \E k \in 1..Len(log') : /\ log'[k].submit /\ Answered(log'[k]) /\ Shown(log'[k], t)
                                  /\ Made(t, log'[k].order)
  PROVE  TxsKnown' /\ WayKnown'
<1>1. \A k \in 1..Len(log) : k \in 1..Len(log')
  BY DEF LogCarries
<1>2. \A k \in 1..Len(log') : log'[k].tx # NoTx =>
        /\ Made(log'[k].tx, log'[k].order)
        /\ log'[k].tx.last_ledger <= Horizon(k - 1) + LedgerOffset
  BY DEF TxsKnown, LogCarries, Carries
<1>3. ASSUME NEW t \in output
      PROVE  /\ t \in Requests /\ released'[t] > 0
             /\ \E k \in 1..Len(log') : log'[k].tx = t /\ t # NoTx
  <2>1. t \in Requests /\ released[t] > 0
    BY DEF TxsKnown
  <2>2. released'[t] > 0
    BY <2>1
  <2>3. PICK k \in 1..Len(log) : log[k].tx = t /\ t # NoTx
    BY DEF TxsKnown
  <2>4. log'[k].tx = t
    BY <2>3 DEF LogCarries, Carries
  <2> QED
    BY <1>1, <2>1, <2>2, <2>3, <2>4
<1>4. ASSUME NEW t \in inflight
      PROVE  \E k \in 1..Len(log') :
               /\ log'[k].submit /\ Answered(log'[k]) /\ Shown(log'[k], t)
               /\ Made(t, log'[k].order)
  <2>1. PICK k \in 1..Len(log) : /\ log[k].submit /\ Answered(log[k]) /\ Shown(log[k], t)
                                 /\ Made(t, log[k].order)
    BY DEF WayKnown
  <2>2. Carries(log[k], log'[k])
    BY DEF LogCarries
  <2>3. log'[k].submit /\ Answered(log'[k]) /\ Shown(log'[k], t) /\ Made(t, log'[k].order)
    BY <2>1, <2>2 DEF Carries, Shown
  <2> QED
    BY <1>1, <2>3
<1>5. inflight' \subseteq output'
  BY DEF WayKnown
<1>6. \A t \in output' :
        /\ t \in Requests /\ released'[t] > 0
        /\ \E k \in 1..Len(log') : log'[k].tx = t /\ t # NoTx
  BY <1>3
<1>7. \A t \in inflight' : \E k \in 1..Len(log') :
        /\ log'[k].submit /\ Answered(log'[k]) /\ Shown(log'[k], t)
        /\ Made(t, log'[k].order)
  BY <1>4
<1> QED
  BY <1>2, <1>5, <1>6, <1>7 DEF TxsKnown, WayKnown, Made, Autofilled, ApplyDefaultSourceTag,
                                Horizon, Answered, Shown, NoTx

LEMMA WayStays ==
  ASSUME TxsKnown, WayKnown, LogCarries, UNCHANGED <<output, inflight>>,
         \A t \in Requests : released'[t] >= released[t],
         \A t \in Requests : released[t] \in Nat /\ released'[t] \in Nat,
         \A k \in 1..Len(log') : log'[k].tx # NoTx =>
           \/ k \in 1..Len(log) /\ log[k].tx # NoTx
           \/ /\ Made(log'[k].tx, log'[k].order)
              /\ log'[k].tx.last_ledger <= Horizon(k - 1) + LedgerOffset
  PROVE  TxsKnown' /\ WayKnown'
<1>1. /\ output \subseteq output' /\ \A t : t \notin output' \ output
      /\ \A t : t \notin inflight' \ inflight
  OBVIOUS
<1> QED
  BY <1>1, WayGrows

\* Nor does anything that leaves the ledger alone change who may be paid.
LEMMA LedgerStays ==
  ASSUME LandedKnown, UNCHANGED <<inflight, landed, ledger, sequence, others>>
  PROVE  LandedKnown' /\ \A t : MayPay(t)' = MayPay(t)
BY DEF LandedKnown, MayPay, Alive, Landed

LEMMA PayingStays ==
  ASSUME PayingKnown, UNCHANGED <<output, careless>>,
         \A t \in output : MayPay(t)' => MayPay(t),
         stage' # "idle" =>
           /\ stage # "idle"
           /\ Current'.order = Current.order /\ Current'.known = Current.known
           /\ Tx' = Tx \/ Tx \notin output
  PROVE  PayingKnown'
<1>1. \A t, u \in output' :
        t # u /\ t.payee = u.payee /\ t.payee \notin careless' => ~(MayPay(t)' /\ MayPay(u)')
  BY DEF PayingKnown
<1>2. stage' # "idle" /\ Current'.order.payee \notin careless' =>
        \A t \in output' :
          t.payee = Current'.order.payee /\ t # Current'.known /\ t # Tx' => ~MayPay(t)'
  BY DEF PayingKnown
<1> QED
  BY <1>1, <1>2 DEF PayingKnown

\* The steps of the signer, and an exception, touch neither the log nor the ledger.
LEMMA SignerStep ==
  ASSUME CeremonyInv, UNCHANGED <<log, output, ledgerVars, careless>>,
         released' \in [Requests -> Nat],
         \A t \in Requests : released'[t] >= released[t],
         stage' # "idle" => stage \notin {"idle", "waiting"}
  PROVE  /\ LogTyped' /\ TxsKnown' /\ WayKnown' /\ LandedKnown'
         /\ ClockKnown' /\ PayingKnown' /\ ResultIsFinal'
<1>1. LogTyped' /\ LogCarries
  BY LogSame DEF CeremonyInv
<1>2. TxsKnown' /\ WayKnown'
  <2>1. \A t \in Requests : released[t] \in Nat /\ released'[t] \in Nat
    BY DEF CeremonyInv, SignerKnown
  <2>2. TxsKnown /\ WayKnown /\ UNCHANGED <<output, inflight>>
    BY DEF CeremonyInv, ledgerVars
  <2>3. \A k \in 1..Len(log') : log'[k].tx # NoTx => k \in 1..Len(log) /\ log[k].tx # NoTx
    OBVIOUS
  <2> QED
    BY <1>1, <2>1, <2>2, <2>3, WayStays
<1>3. LandedKnown' /\ \A t : MayPay(t)' = MayPay(t)
  BY LedgerStays DEF CeremonyInv, ledgerVars
<1>4. PayingKnown'
  <2>1. PayingKnown /\ UNCHANGED <<output, careless>>
    BY DEF CeremonyInv
  <2>2. Current' = Current /\ Tx' = Tx
    BY DEF Current, Tx
  <2> QED
    BY <1>3, <2>1, <2>2, PayingStays
<1>5. ClockKnown'
  BY DEF CeremonyInv, ClockKnown, Horizon, ledgerVars
<1>6. ResultIsFinal'
  BY DEF CeremonyInv, ResultIsFinal, ledgerVars
<1> QED
  BY <1>1, <1>2, <1>3, <1>4, <1>5, <1>6

\* The steps of run_ceremony that fill in its own entry.
LEMMA EntryStep ==
  ASSUME CeremonyInv,
         UNCHANGED <<gatedVars, output, ledgerVars, careless>>,
         stage # "idle", stage' \notin {"idle", "waiting"} => stage # "waiting",
         NEW r, DOMAIN r = Fields, Carries(Current, r), r.known = Current.known,
         log' = [log EXCEPT ![Len(log)] = r],
         \/ r.tx = Tx
         \/ /\ Tx = NoTx /\ Made(r.tx, r.order)
            /\ r.tx.last_ledger <= Horizon(Len(log) - 1) + LedgerOffset,
         r.status \in Codes => [tx |-> r.tx, code |-> r.status] \in landed
  PROVE  /\ LogTyped' /\ TxsKnown' /\ WayKnown' /\ LandedKnown'
         /\ ClockKnown' /\ PayingKnown' /\ ResultIsFinal'
         /\ Current' = r /\ Tx' = r.tx /\ Len(log') = Len(log) /\ Len(log') >= 1
<1>1. Len(log) >= 1 /\ LogTyped
  BY DEF CeremonyInv, CurrentKnown
<1>2. /\ LogTyped' /\ LogCarries
      /\ Len(log') = Len(log) /\ Current' = r
      /\ \A k \in 1..Len(log) : k # Len(log) => log'[k] = log[k]
  BY <1>1, EntryChanges
<1>3. Len(log) \in 1..Len(log) /\ log'[Len(log)] = r /\ log[Len(log)] = Current /\ Tx' = r.tx
  <2>1. Len(log) \in Nat
    BY <1>2 DEF LogCarries
  <2>2. log'[Len(log)] = r
    BY <1>2 DEF Current
  <2>3. Tx' = r.tx
    BY <1>2 DEF Tx
  <2> QED
    BY <1>1, <2>1, <2>2, <2>3 DEF Current
<1>4. TxsKnown' /\ WayKnown'
  <2>1. \A t \in Requests :
          released[t] \in Nat /\ released'[t] \in Nat /\ released'[t] >= released[t]
    BY DEF CeremonyInv, SignerKnown, gatedVars
  <2>2. TxsKnown /\ WayKnown /\ UNCHANGED <<output, inflight>>
    BY DEF CeremonyInv, ledgerVars
  <2>3. ASSUME NEW k \in 1..Len(log'), log'[k].tx # NoTx
        PROVE  \/ k \in 1..Len(log) /\ log[k].tx # NoTx
               \/ /\ Made(log'[k].tx, log'[k].order)
                  /\ log'[k].tx.last_ledger <= Horizon(k - 1) + LedgerOffset
    <3>1. CASE k # Len(log)
      BY <1>2, <2>3, <3>1
    <3>2. CASE k = Len(log)
      BY <1>2, <1>3, <2>3, <3>2 DEF Tx
    <3> QED
      BY <3>1, <3>2
  <2> QED
    BY <1>2, <2>1, <2>2, <2>3, WayStays
<1>5. LandedKnown' /\ \A t : MayPay(t)' = MayPay(t)
  BY LedgerStays DEF CeremonyInv, ledgerVars
<1>6. PayingKnown'
  <2>1. PayingKnown /\ UNCHANGED <<output, careless>>
    BY DEF CeremonyInv
  <2>2. NoTx \notin output
    BY DEF CeremonyInv, TxsKnown
  <2>3. /\ Current'.order = Current.order /\ Current'.known = Current.known
        /\ Tx' = Tx \/ Tx \notin output
    BY <1>2, <1>3, <2>2 DEF Carries
  <2> QED
    BY <1>5, <2>1, <2>3, PayingStays
<1>7. ClockKnown'
  <2>1. UNCHANGED ledger /\ ClockKnown
    BY DEF CeremonyInv, ledgerVars
  <2> QED
    BY <1>2, <2>1 DEF ClockKnown, Horizon
<1>8. ResultIsFinal'
  <2>1. landed' = landed /\ ResultIsFinal
    BY DEF CeremonyInv, ledgerVars
  <2>2. ASSUME NEW k \in 1..Len(log'), log'[k].status \in Codes
        PROVE  [tx |-> log'[k].tx, code |-> log'[k].status] \in landed'
    <3>1. CASE k # Len(log)
      <4>1. log'[k] = log[k] /\ k \in 1..Len(log)
        BY <1>2, <3>1
      <4> QED
        BY <2>1, <2>2, <4>1 DEF ResultIsFinal
    <3>2. CASE k = Len(log)
      BY <1>3, <2>1, <2>2, <3>2
    <3> QED
      BY <3>1, <3>2
  <2> QED
    BY <2>2 DEF ResultIsFinal
<1> QED
  BY <1>1, <1>2, <1>3, <1>4, <1>5, <1>6, <1>7, <1>8

-----------------------------------------------------------------------------
(* The steps, one by one.                                                  *)

LEMMA RaiseStep == ASSUME CeremonyInv, Raise  PROVE CeremonyInv'
<1>1. UNCHANGED <<log, output, ledgerVars, careless>> /\ stage' = "idle" /\ stage # "idle"
  BY DEF Raise, Stay, AtLedger
<1>2. /\ released' = released
      /\ stage = "signing" => request' = NoRequest
      /\ stage # "signing" => request' = request
  BY DEF Raise, Drop, gatedVars
<1>3. SignerKnown' /\ CurrentKnown'
  BY <1>1, <1>2 DEF CeremonyInv, SignerKnown, CurrentKnown
<1>4. \A t \in Requests : released'[t] >= released[t]
  BY <1>2 DEF CeremonyInv, SignerKnown
<1>5. released' \in [Requests -> Nat]
  BY <1>2 DEF CeremonyInv, SignerKnown
<1> QED
  BY <1>1, <1>3, <1>4, <1>5, SignerStep DEF CeremonyInv

LEMMA AskSignerStep == ASSUME CeremonyInv, AskSigner  PROVE CeremonyInv'
<1>1. /\ UNCHANGED <<log, output, ledgerVars, careless>>
      /\ stage = "sign" /\ stage' = "signing" /\ released' = released /\ request' = Tx
  BY DEF AskSigner, Ask, Stay, AtLedger
<1>2. Current' = Current /\ Tx' = Tx
  BY <1>1 DEF Current, Tx
<1>3. CurrentKnown'
  <2>1. CurrentKnown /\ log' = log /\ output' = output
    BY <1>1 DEF CeremonyInv
  <2>2. Made(Tx, Current.order)' <=> Made(Tx, Current.order)
    BY <1>2 DEF Made, Autofilled, ApplyDefaultSourceTag
  <2>3. /\ Shown(Current, Tx)' <=> Shown(Current, Tx)
        /\ Answered(Current)' <=> Answered(Current)
    BY <1>2 DEF Shown, Answered, NoTx
  <2> QED
    BY <1>1, <1>2, <2>1, <2>2, <2>3 DEF CurrentKnown, NoTx, Autofilled, ApplyDefaultSourceTag
<1>4. SignerKnown'
  <2>1. Tx \in Requests
    BY <1>1 DEF CeremonyInv, CurrentKnown, Made
  <2>2. request' # NoRequest
    BY <1>1, <2>1, RequestsAssumption
  <2> QED
    BY <1>1, <1>2, <2>2 DEF CeremonyInv, SignerKnown
<1>5. \A t \in Requests : released'[t] >= released[t]
  BY <1>1 DEF CeremonyInv, SignerKnown
<1>6. released' \in [Requests -> Nat]
  BY <1>1 DEF CeremonyInv, SignerKnown
<1> QED
  BY <1>1, <1>3, <1>4, <1>5, <1>6, SignerStep DEF CeremonyInv

LEMMA SignerChecksStep == ASSUME CeremonyInv, SignerChecks  PROVE CeremonyInv'
<1>1. /\ UNCHANGED <<log, output, ledgerVars, careless>>
      /\ stage = "signing" /\ stage' = "signing" /\ released' = released /\ request' = request
  BY DEF SignerChecks, Pass, Stay, AtLedger
<1>2. Current' = Current /\ Tx' = Tx
  BY <1>1 DEF Current, Tx
<1>3. CurrentKnown' /\ SignerKnown'
  <2>1. CurrentKnown /\ SignerKnown /\ log' = log /\ output' = output
    BY <1>1 DEF CeremonyInv
  <2>2. Made(Tx, Current.order)' <=> Made(Tx, Current.order)
    BY <1>2 DEF Made, Autofilled, ApplyDefaultSourceTag
  <2>3. /\ Shown(Current, Tx)' <=> Shown(Current, Tx)
        /\ Answered(Current)' <=> Answered(Current)
    BY <1>2 DEF Shown, Answered, NoTx
  <2>4. CurrentKnown'
    BY <1>1, <1>2, <2>1, <2>2, <2>3 DEF CurrentKnown, NoTx, Autofilled, ApplyDefaultSourceTag
  <2>5. SignerKnown'
    BY <1>1, <1>2, <2>1 DEF SignerKnown
  <2> QED
    BY <2>4, <2>5
<1>4. released' \in [Requests -> Nat] /\ \A t \in Requests : released'[t] >= released[t]
  BY <1>1 DEF CeremonyInv, SignerKnown
<1> QED
  BY <1>1, <1>3, <1>4, SignerStep DEF CeremonyInv

LEMMA SignerReleasesStep == ASSUME CeremonyInv, SignerReleases  PROVE CeremonyInv'
<1>1. /\ UNCHANGED <<log, output, ledgerVars, careless>>
      /\ stage = "signing" /\ stage' = "signed" /\ request' = NoRequest
      /\ released' = [released EXCEPT ![request] = @ + 1]
  BY DEF SignerReleases, Release, Stay, AtLedger
<1>2. Current' = Current /\ Tx' = Tx
  BY <1>1 DEF Current, Tx
<1>3. Tx \in Requests /\ request = Tx /\ released \in [Requests -> Nat]
  BY <1>1 DEF CeremonyInv, CurrentKnown, SignerKnown, Made
<1>4. /\ released' \in [Requests -> Nat] /\ released'[Tx] > 0
      /\ \A t \in Requests : released'[t] >= released[t]
  BY <1>1, <1>3
<1>5. CurrentKnown' /\ SignerKnown'
  <2>1. CurrentKnown /\ SignerKnown /\ log' = log /\ output' = output
    BY <1>1 DEF CeremonyInv
  <2>2. Made(Tx, Current.order)' <=> Made(Tx, Current.order)
    BY <1>2 DEF Made, Autofilled, ApplyDefaultSourceTag
  <2>3. /\ Shown(Current, Tx)' <=> Shown(Current, Tx)
        /\ Answered(Current)' <=> Answered(Current)
    BY <1>2 DEF Shown, Answered, NoTx
  <2>4. CurrentKnown'
    BY <1>1, <1>2, <1>4, <2>1, <2>2, <2>3
    DEF CurrentKnown, NoTx, Autofilled, ApplyDefaultSourceTag
  <2>5. SignerKnown'
    BY <1>1, <1>4 DEF SignerKnown
  <2> QED
    BY <2>4, <2>5
<1> QED
  BY <1>1, <1>4, <1>5, SignerStep DEF CeremonyInv

\* While the ceremony in progress has no transaction yet, the ledger took at most one
\* for each of the others.
LEMMA LandedFew ==
  ASSUME CeremonyInv, Len(log) >= 1, Tx = NoTx
  PROVE  Cardinality(landed) \in Nat /\ Cardinality(landed) <= Len(log) - 1
<1>1. Len(log) \in Nat \ {0}
  BY LenProperties DEF CeremonyInv, LogTyped
<1>2. IsFiniteSet(landed)
  BY DEF CeremonyInv, LandedKnown
<1>3. \A l \in landed : \E k \in 1..(Len(log) - 1) : log[k].tx = l.tx
  <2> TAKE l \in landed
  <2>1. l.tx \in output
    BY DEF CeremonyInv, LandedKnown, WayKnown
  <2>2. PICK k \in 1..Len(log) : log[k].tx = l.tx /\ l.tx # NoTx
    BY <2>1 DEF CeremonyInv, TxsKnown
  <2>3. k # Len(log)
    BY <2>2 DEF Tx, Current
  <2>4. k \in 1..(Len(log) - 1)
    BY <1>1, <2>3
  <2> QED
    BY <2>2, <2>4
<1> DEFINE at == [l \in landed |-> CHOOSE k \in 1..(Len(log) - 1) : log[k].tx = l.tx]
<1>4. \A l \in landed : at[l] \in 1..(Len(log) - 1) /\ log[at[l]].tx = l.tx
  BY <1>3
<1>5. \A l, m \in landed : l.tx = m.tx => l = m
  BY DEF CeremonyInv, LandedKnown
<1>6. at \in Injection(landed, 1..(Len(log) - 1))
  <2>1. at \in [landed -> 1..(Len(log) - 1)]
    BY <1>4
  <2>2. \A l, m \in landed : at[l] = at[m] => l = m
    BY <1>4, <1>5
  <2> QED
    BY <2>1, <2>2 DEF Injection, IsInjective
<1> HIDE DEF at
<1> DEFINE n == Len(log) - 1
<1>7. n \in Int /\ 1 \in Int /\ n >= 0
  BY <1>1
<1>8. IsFiniteSet(1..n) /\ Cardinality(1..n) = n
  <2> HIDE DEF n
  <2>1. IsFiniteSet(1..n) /\ Cardinality(1..n) = IF 1 > n THEN 0 ELSE n - 1 + 1
    BY <1>7, FS_Interval
  <2> QED
    BY <1>7, <2>1
<1>9. Cardinality(landed) <= Cardinality(1..n)
  BY <1>6, <1>8, FS_Injection
<1> QED
  BY <1>2, <1>8, <1>9, FS_CardinalityType

\* A transaction autofilled now can be asked for, and lives no longer than others do.
LEMMA AutofillMade ==
  ASSUME CeremonyInv, stage = "received", Current.order.account = SignerAddress
  PROVE  LET t == Autofilled(Current.order, sequence, ledger + LedgerOffset)
         IN  /\ Made(t, Current.order)
             /\ t.last_ledger <= Horizon(Len(log) - 1) + LedgerOffset
<1>1. /\ Len(log) \in Nat /\ Len(log) >= 1 /\ Len(log) <= MaxCeremonies
      /\ Current.order \in Orders /\ Tx = NoTx
  <2>1. Len(log) \in Nat
    BY LenProperties DEF CeremonyInv, LogTyped
  <2> QED
    BY <2>1 DEF CeremonyInv, CurrentKnown, LogTyped
<1>2. sequence \in 1..(MaxCeremonies + MaxOthers)
  <2>1. Cardinality(landed) \in Nat /\ Cardinality(landed) <= Len(log) - 1
    BY <1>1, LandedFew
  <2>2. sequence = 1 + others + Cardinality(landed) /\ others \in 0..MaxOthers
    BY DEF CeremonyInv, LandedKnown
  <2> QED
    BY <1>1, <2>1, <2>2, CeremonyBounds
<1>3. ledger \in Nat \ {0} /\ ledger <= Horizon(Len(log) - 1)
  BY DEF CeremonyInv, ClockKnown
<1>4. ledger + LedgerOffset \in 1..LatestLedger
  <2>1. Len(log) - 1 \in 0..(MaxCeremonies - 1) /\ MaxCeremonies - 1 \in Nat
    BY <1>1, CeremonyBounds
  <2>2. Horizon(Len(log) - 1) <= Horizon(MaxCeremonies - 1)
        /\ Horizon(MaxCeremonies - 1) \in Nat
    BY <2>1, HorizonGrows
  <2>3. Len(log) - 1 \in Nat
    BY <1>1
  <2>4. Horizon(Len(log) - 1) \in Nat
    BY <2>3, HorizonGrows
  <2> QED
    BY <1>3, <2>2, <2>4, LatestIsHorizon, CeremonyBounds
<1> DEFINE t == Autofilled(Current.order, sequence, ledger + LedgerOffset)
<1>5. t \in Requests
  BY <1>1, <1>2, <1>4, RequestsAssumption
<1>6. t.sequence = sequence /\ t.last_ledger = ledger + LedgerOffset
  BY <1>1, AutofillKeepsOrder
<1>7. t = Autofilled(Current.order, t.sequence, t.last_ledger)
  BY <1>6
<1>8. t.sequence \in Nat /\ t.last_ledger \in Nat
  BY <1>2, <1>3, <1>6, CeremonyBounds
<1>9. t.last_ledger <= Horizon(Len(log) - 1) + LedgerOffset
  <2>1. Len(log) - 1 \in Nat
    BY <1>1
  <2>2. Horizon(Len(log) - 1) \in Nat
    BY <2>1, HorizonGrows
  <2> QED
    BY <1>3, <1>6, <2>2, CeremonyBounds
<1> QED
  BY <1>1, <1>5, <1>7, <1>8, <1>9 DEF Made

\* One that was put out before was made of the same order, in an earlier ceremony.
LEMMA KnownMade ==
  ASSUME CeremonyInv, stage = "received", Current.order.account = SignerAddress,
         Current.known # NoTx
  PROVE  /\ Made(Current.known, Current.order)
         /\ Current.known.last_ledger <= Horizon(Len(log) - 1) + LedgerOffset
<1>1. /\ Current.known \in output /\ Current.order \in Orders
      /\ Current.known =
           Autofilled(Current.order, Current.known.sequence, Current.known.last_ledger)
  BY DEF CeremonyInv, CurrentKnown
<1>2. PICK k \in 1..Len(log) : log[k].tx = Current.known
  BY <1>1 DEF CeremonyInv, TxsKnown
<1>3. /\ Made(Current.known, log[k].order)
      /\ Current.known.last_ledger <= Horizon(k - 1) + LedgerOffset
  BY <1>2 DEF CeremonyInv, TxsKnown
<1>4. Made(Current.known, Current.order)
  BY <1>1, <1>3 DEF Made
<1>5. Len(log) \in Nat
  BY LenProperties DEF CeremonyInv, LogTyped
<1>6. k - 1 \in 0..(Len(log) - 1) /\ Len(log) - 1 \in Nat /\ k - 1 \in Nat
  BY <1>5
<1>7. /\ Horizon(k - 1) <= Horizon(Len(log) - 1)
      /\ Horizon(k - 1) \in Nat /\ Horizon(Len(log) - 1) \in Nat
  BY <1>6, HorizonGrows
<1>8. Current.known.last_ledger \in Nat
  BY <1>4 DEF Made
<1> QED
  BY <1>3, <1>4, <1>7, <1>8, CeremonyBounds

LEMMA CurrentFields ==
  ASSUME CeremonyInv, stage # "idle"
  PROVE  Len(log) \in 1..Len(log) /\ DOMAIN Current = Fields
<1>1. Len(log) \in Nat
  BY LenProperties DEF CeremonyInv, LogTyped
<1>2. Len(log) \in 1..Len(log)
  BY <1>1 DEF CeremonyInv, CurrentKnown
<1> QED
  BY <1>2 DEF CeremonyInv, LogTyped, Current

LEMMA AutofillStep == ASSUME CeremonyInv, Autofill  PROVE CeremonyInv'
<1> DEFINE e == IF Current.known # NoTx THEN Current.known
                ELSE Autofilled(Current.order, sequence, ledger + LedgerOffset)
           r == [Current EXCEPT !.tx = e]
<1>1. /\ UNCHANGED <<gatedVars, output, ledgerVars, careless>>
      /\ stage = "received" /\ stage' = "prepared"
      /\ Current.order.account = SignerAddress
      /\ log' = [log EXCEPT ![Len(log)] = r]
  BY DEF Autofill, AtLedger, Current
<1>2. Made(e, Current.order) /\ e.last_ledger <= Horizon(Len(log) - 1) + LedgerOffset
  <2>1. CASE Current.known # NoTx
    BY <1>1, <2>1, KnownMade
  <2>2. CASE Current.known = NoTx
    BY <1>1, <2>2, AutofillMade
  <2> QED
    BY <2>1, <2>2
<1>3. Current.known # NoTx => e = Current.known
  OBVIOUS
<1> HIDE DEF e
<1>4. /\ Tx = NoTx /\ Current.status = "none" /\ Current.shown = NoTx
      /\ Current.answer = "none" /\ Current.order \in Orders
      /\ Current.known # NoTx =>
           /\ Current.known \in output
           /\ Current.known =
                Autofilled(Current.order, Current.known.sequence, Current.known.last_ledger)
  BY <1>1 DEF CeremonyInv, CurrentKnown
<1>5. DOMAIN Current = Fields
  BY <1>1, CurrentFields
<1>6. /\ r.tx = e /\ r.known = Current.known /\ r.order = Current.order
      /\ r.shown = Current.shown /\ r.answer = Current.answer /\ r.status = Current.status
      /\ r.gate = Current.gate /\ r.submit = Current.submit /\ DOMAIN r = Fields
  BY <1>5 DEF Fields
<1> HIDE DEF r
<1>7. Carries(Current, r)
  BY <1>4, <1>6 DEF Carries, Tx
<1>8. r.status \notin Codes
  BY <1>4, <1>6, CodesAssumption
<1>9. /\ LogTyped' /\ TxsKnown' /\ WayKnown' /\ LandedKnown'
      /\ ClockKnown' /\ PayingKnown' /\ ResultIsFinal'
      /\ Current' = r /\ Tx' = r.tx /\ Len(log') = Len(log) /\ Len(log') >= 1
  BY <1>1, <1>2, <1>4, <1>6, <1>7, <1>8, EntryStep
<1>10. SignerKnown'
  BY <1>1 DEF CeremonyInv, SignerKnown, gatedVars
<1>11. CurrentKnown'
  <2>1. Tx' = e /\ Current'.order = Current.order
    BY <1>6, <1>9
  <2>2. Made(Tx, Current.order)'
    BY <1>2, <2>1 DEF Made, Autofilled, ApplyDefaultSourceTag
  <2> QED
    BY <1>1, <1>3, <1>4, <1>6, <1>9, <2>1, <2>2
    DEF CurrentKnown, Autofilled, ApplyDefaultSourceTag, NoTx
<1> QED
  BY <1>9, <1>10, <1>11 DEF CeremonyInv

LEMMA PreviewStep == ASSUME CeremonyInv, Preview  PROVE CeremonyInv'
<1> DEFINE s == RenderPreview(Tx, ledger)
           r == [Current EXCEPT !.shown = s]
<1>1. /\ UNCHANGED <<gatedVars, output, ledgerVars, careless>> /\ request' = request
      /\ stage = "prepared" /\ stage' = IF Current.gate THEN "confirm" ELSE "sign"
      /\ log' = [log EXCEPT ![Len(log)] = r]
  BY DEF Preview, AtLedger, Current, gatedVars
<1>2. /\ CurrentKnown /\ Current.shown = NoTx /\ Current.status = "none"
      /\ Made(Tx, Current.order)
  BY <1>1 DEF CeremonyInv, CurrentKnown
<1>3. s # NoTx /\ \A f \in DOMAIN Tx : s[f] = Tx[f]
  <2>1. DOMAIN Tx = {"account", "payee", "tag", "sequence", "last_ledger"}
    BY <1>2, MadeOfOrder
  <2> QED
    BY <2>1 DEF RenderPreview, NoTx
<1> HIDE DEF s
<1>4. /\ r.tx = Tx /\ r.known = Current.known /\ r.order = Current.order
      /\ r.shown = s /\ r.answer = Current.answer /\ r.status = Current.status
      /\ r.gate = Current.gate /\ r.submit = Current.submit /\ DOMAIN r = Fields
  <2>1. DOMAIN Current = Fields
    BY <1>1, CurrentFields
  <2> QED
    BY <2>1 DEF Fields, Tx
<1> HIDE DEF r
<1>5. Carries(Current, r)
  BY <1>2, <1>4 DEF Carries, Tx
<1>6. r.status \notin Codes
  BY <1>2, <1>4, CodesAssumption
<1>7. /\ LogTyped' /\ TxsKnown' /\ WayKnown' /\ LandedKnown'
      /\ ClockKnown' /\ PayingKnown' /\ ResultIsFinal'
      /\ Current' = r /\ Tx' = r.tx /\ Len(log') = Len(log) /\ Len(log') >= 1
  BY <1>1, <1>4, <1>5, <1>6, EntryStep
<1>8. SignerKnown'
  BY <1>1 DEF CeremonyInv, SignerKnown, gatedVars
<1>9. CurrentKnown'
  <2>1. Tx' = Tx /\ Current'.order = Current.order
    BY <1>4, <1>7
  <2>2. Made(Tx, Current.order)'
    BY <1>2, <2>1 DEF Made, Autofilled, ApplyDefaultSourceTag
  <2>3. Shown(Current, Tx)'
    BY <1>3, <1>4, <1>7, <2>1 DEF Shown, NoTx
  <2>4. ~Current'.gate => Answered(Current)'
    BY DEF Answered
  <2> QED
    BY <1>1, <1>2, <1>4, <1>7, <2>1, <2>2, <2>3, <2>4
    DEF CurrentKnown, Autofilled, ApplyDefaultSourceTag, NoTx
<1> QED
  BY <1>7, <1>8, <1>9 DEF CeremonyInv

LEMMA ConfirmStep == ASSUME CeremonyInv, Confirm  PROVE CeremonyInv'
<1> DEFINE r == [Current EXCEPT !.answer = "yes"]
<1>1. /\ UNCHANGED <<gatedVars, output, ledgerVars, careless>>
      /\ stage = "confirm" /\ stage' = "sign"
      /\ log' = [log EXCEPT ![Len(log)] = r]
  BY DEF Confirm, AtLedger, Current
<1>2. /\ CurrentKnown /\ Current.status = "none"
      /\ Made(Tx, Current.order) /\ Shown(Current, Tx)
  BY <1>1 DEF CeremonyInv, CurrentKnown
<1>4. /\ r.tx = Tx /\ r.known = Current.known /\ r.order = Current.order
      /\ r.shown = Current.shown /\ r.answer = "yes" /\ r.status = Current.status
      /\ r.gate = Current.gate /\ r.submit = Current.submit /\ DOMAIN r = Fields
  <2>1. DOMAIN Current = Fields
    BY <1>1, CurrentFields
  <2> QED
    BY <2>1 DEF Fields, Tx
<1> HIDE DEF r
<1>5. Carries(Current, r)
  BY <1>4 DEF Carries, Tx, Answered
<1>6. r.status \notin Codes
  BY <1>2, <1>4, CodesAssumption
<1>7. /\ LogTyped' /\ TxsKnown' /\ WayKnown' /\ LandedKnown'
      /\ ClockKnown' /\ PayingKnown' /\ ResultIsFinal'
      /\ Current' = r /\ Tx' = r.tx /\ Len(log') = Len(log) /\ Len(log') >= 1
  BY <1>1, <1>4, <1>5, <1>6, EntryStep
<1>8. SignerKnown'
  BY <1>1 DEF CeremonyInv, SignerKnown, gatedVars
<1>9. CurrentKnown'
  <2>1. Tx' = Tx /\ Current'.order = Current.order
    BY <1>4, <1>7
  <2>2. Made(Tx, Current.order)'
    BY <1>2, <2>1 DEF Made, Autofilled, ApplyDefaultSourceTag
  <2>3. Shown(Current, Tx)'
    BY <1>2, <1>4, <1>7, <2>1 DEF Shown, NoTx
  <2>4. Answered(Current)'
    BY <1>4, <1>7 DEF Answered
  <2> QED
    BY <1>1, <1>2, <1>4, <1>7, <2>1, <2>2, <2>3, <2>4
    DEF CurrentKnown, Autofilled, ApplyDefaultSourceTag, NoTx
<1> QED
  BY <1>7, <1>8, <1>9 DEF CeremonyInv

LEMMA DeclineStep == ASSUME CeremonyInv, Decline  PROVE CeremonyInv'
<1> DEFINE r == [Current EXCEPT !.answer = "no", !.status = "aborted_by_human"]
<1>1. /\ UNCHANGED <<gatedVars, output, ledgerVars, careless>>
      /\ stage = "confirm" /\ stage' = "idle"
  BY DEF Decline, AtLedger, Current
<1>2. /\ Current.gate /\ Current.answer = "none" /\ CurrentKnown
  BY <1>1 DEF CeremonyInv, CurrentKnown
<1>3. log' = [log EXCEPT ![Len(log)] = r]
  <2>1. Len(log) \in DOMAIN log
    BY <1>1, CurrentFields, LenProperties DEF CeremonyInv, LogTyped
  <2>2. log' = [log EXCEPT ![Len(log)].answer = "no",
                           ![Len(log)].status = "aborted_by_human"]
    BY DEF Decline
  <2> QED
    BY <2>1, <2>2 DEF Current
<1>4. /\ r.tx = Tx /\ r.known = Current.known /\ r.order = Current.order
      /\ r.shown = Current.shown /\ r.status = "aborted_by_human" /\ r.answer = "no"
      /\ r.gate = Current.gate /\ r.submit = Current.submit /\ DOMAIN r = Fields
  <2>1. DOMAIN Current = Fields
    BY <1>1, CurrentFields
  <2> QED
    BY <2>1 DEF Fields, Tx
<1> HIDE DEF r
<1>5. Carries(Current, r)
  BY <1>2, <1>4 DEF Carries, Tx, Answered
<1>6. r.status \notin Codes
  BY <1>4, CodesAssumption
<1>7. /\ LogTyped' /\ TxsKnown' /\ WayKnown' /\ LandedKnown'
      /\ ClockKnown' /\ PayingKnown' /\ ResultIsFinal'
  BY <1>1, <1>3, <1>4, <1>5, <1>6, EntryStep
<1>8. SignerKnown' /\ CurrentKnown'
  BY <1>1 DEF CeremonyInv, SignerKnown, gatedVars, CurrentKnown
<1> QED
  BY <1>7, <1>8 DEF CeremonyInv

LEMMA ReportResultStep == ASSUME CeremonyInv, ReportResult  PROVE CeremonyInv'
<1>1. /\ UNCHANGED <<gatedVars, output, ledgerVars, careless>>
      /\ stage = "waiting" /\ stage' = "idle"
  BY DEF ReportResult, AtLedger
<1>2. PICK l \in landed :
        l.tx = Tx /\ log' = [log EXCEPT ![Len(log)].status = l.code]
  BY DEF ReportResult
<1> DEFINE r == [Current EXCEPT !.status = l.code]
<1>3. log' = [log EXCEPT ![Len(log)] = r]
  BY <1>2 DEF Current
<1>4. /\ r.tx = Tx /\ r.known = Current.known /\ r.order = Current.order
      /\ r.shown = Current.shown /\ r.status = l.code /\ r.answer = Current.answer
      /\ r.gate = Current.gate /\ r.submit = Current.submit /\ DOMAIN r = Fields
  <2>1. DOMAIN Current = Fields
    BY <1>1, CurrentFields
  <2> QED
    BY <2>1 DEF Fields, Tx
<1> HIDE DEF r
<1>5. Carries(Current, r)
  BY <1>4 DEF Carries, Tx, Answered
<1>6. [tx |-> r.tx, code |-> r.status] \in landed
  BY <1>2, <1>4 DEF CeremonyInv, LandedKnown
<1>7. /\ LogTyped' /\ TxsKnown' /\ WayKnown' /\ LandedKnown'
      /\ ClockKnown' /\ PayingKnown' /\ ResultIsFinal'
  BY <1>1, <1>3, <1>4, <1>5, <1>6, EntryStep
<1>8. SignerKnown' /\ CurrentKnown'
  BY <1>1 DEF CeremonyInv, SignerKnown, gatedVars, CurrentKnown
<1> QED
  BY <1>7, <1>8 DEF CeremonyInv

LEMMA BeginStep ==
  ASSUME CeremonyInv, NEW order \in Orders, NEW known, NEW gate, NEW submit,
         \/ known = NoTx
         \/ /\ known \in output
            /\ known = Autofilled(order, known.sequence, known.last_ledger),
         Begin(order, known, gate, submit)
  PROVE  CeremonyInv'
<1> DEFINE r == [order |-> order, known |-> known, gate |-> gate, submit |-> submit,
                 tx |-> NoTx, shown |-> NoTx, answer |-> "none", status |-> "none"]
<1>1. /\ UNCHANGED <<request, released, output>>
      /\ UNCHANGED <<inflight, landed, ledger, sequence, others>>
      /\ stage = "idle" /\ stage' = "received" /\ Len(log) < MaxCeremonies
      /\ log' = Append(log, r)
      /\ careless' = IF \E t \in output : t.payee = order.payee /\ t # known /\ MayPay(t)
                     THEN careless \cup {order.payee} ELSE careless
  BY DEF Begin, gatedVars, ledgerVars
<1>2. /\ r.order = order /\ r.known = known /\ r.tx = NoTx /\ r.shown = NoTx
      /\ r.answer = "none" /\ r.status = "none" /\ DOMAIN r = Fields
  BY DEF Fields
<1> HIDE DEF r
<1>3. PICK S : log \in Seq(S)
  BY DEF CeremonyInv, LogTyped
<1>4. /\ log' \in Seq(S \cup {r}) /\ Len(log) \in Nat /\ Len(log') = Len(log) + 1
      /\ \A k \in 1..Len(log) : log'[k] = log[k]
      /\ log'[Len(log) + 1] = r
  <2>1. log \in Seq(S \cup {r}) /\ Len(log) \in Nat
    BY <1>3, SeqMonotonic, LenProperties
  <2> QED
    BY <1>1, <2>1, AppendProperties
<1>5. Current' = r /\ Tx' = NoTx
  BY <1>2, <1>4 DEF Current, Tx
<1>6. LogTyped'
  <2>1. \A k \in 1..Len(log') : DOMAIN log'[k] = Fields
    <3> TAKE k \in 1..Len(log')
    <3>1. k \in 1..Len(log) \/ k = Len(log) + 1
      BY <1>4
    <3> QED
      BY <1>2, <1>4, <3>1 DEF CeremonyInv, LogTyped
  <2>2. Len(log') <= MaxCeremonies
    BY <1>1, <1>4, CeremonyBounds
  <2>3. \E T : log' \in Seq(T)
    BY <1>4
  <2> QED
    BY <2>1, <2>2, <2>3 DEF LogTyped, Fields
<1>7. LogCarries
  BY <1>4 DEF LogCarries, Carries, Answered
<1>8. TxsKnown' /\ WayKnown'
  <2>1. \A t \in Requests :
          released[t] \in Nat /\ released'[t] \in Nat /\ released'[t] >= released[t]
    BY <1>1 DEF CeremonyInv, SignerKnown
  <2>2. ASSUME NEW k \in 1..Len(log'), log'[k].tx # NoTx
        PROVE  k \in 1..Len(log) /\ log[k].tx # NoTx
    <3>1. k \in 1..Len(log) \/ k = Len(log) + 1
      BY <1>4
    <3> QED
      BY <1>2, <1>4, <2>2, <3>1
  <2>3. TxsKnown /\ WayKnown /\ UNCHANGED <<output, inflight>>
    BY <1>1 DEF CeremonyInv
  <2> QED
    BY <1>7, <2>1, <2>2, <2>3, WayStays
<1>9. LandedKnown' /\ \A t : MayPay(t)' = MayPay(t)
  BY <1>1, LedgerStays DEF CeremonyInv
<1>10. PayingKnown'
  <2>1. \A t, u \in output' :
          t # u /\ t.payee = u.payee /\ t.payee \notin careless' => ~(MayPay(t)' /\ MayPay(u)')
    BY <1>1, <1>9 DEF CeremonyInv, PayingKnown
  <2>2. order.payee \notin careless' =>
          \A t \in output' : t.payee = order.payee /\ t # known => ~MayPay(t)'
    BY <1>1, <1>9
  <2>3. Current'.order = order /\ Current'.known = known
    BY <1>2, <1>5
  <2> QED
    BY <2>1, <2>2, <2>3 DEF PayingKnown
<1>11. ClockKnown'
  <2>1. ledger' = ledger /\ ledger \in Nat \ {0} /\ ledger <= Horizon(Len(log))
    BY <1>1 DEF CeremonyInv, ClockKnown
  <2>2. /\ Horizon(Len(log)) \in Nat
        /\ Horizon(Len(log) + 1) = Horizon(Len(log)) + LedgerOffset + 1
    BY <1>4, HorizonGrows
  <2>3. Len(log') = Len(log) + 1 /\ Len(log') - 1 = Len(log)
    BY <1>4
  <2>4. ledger' <= Horizon(Len(log')) /\ ledger' <= Horizon(Len(log') - 1)
    BY <2>1, <2>2, <2>3, CeremonyBounds
  <2> QED
    BY <2>1, <2>4 DEF ClockKnown, Horizon
<1>12. ResultIsFinal'
  <2>1. ASSUME NEW k \in 1..Len(log'), log'[k].status \in Codes
        PROVE  [tx |-> log'[k].tx, code |-> log'[k].status] \in landed'
    <3>1. k \in 1..Len(log) \/ k = Len(log) + 1
      BY <1>4
    <3>2. k # Len(log) + 1
      BY <1>2, <1>4, <2>1, CodesAssumption
    <3>3. log'[k] = log[k] /\ k \in 1..Len(log)
      BY <1>4, <3>1, <3>2
    <3> QED
      BY <1>1, <2>1, <3>3 DEF CeremonyInv, ResultIsFinal
  <2> QED
    BY <2>1 DEF ResultIsFinal
<1>13. SignerKnown'
  BY <1>1 DEF CeremonyInv, SignerKnown
<1>14. CurrentKnown'
  <2>1. Len(log') >= 1
    BY <1>4
  <2>2. Current'.known # NoTx =>
          /\ Current'.known \in output'
          /\ Current'.known =
               Autofilled(Current'.order, Current'.known.sequence, Current'.known.last_ledger)
    BY <1>1, <1>2, <1>5
  <2> QED
    BY <1>1, <1>2, <1>5, <2>1, <2>2
    DEF CurrentKnown, NoTx, Autofilled, ApplyDefaultSourceTag
<1> QED
  BY <1>6, <1>8, <1>9, <1>10, <1>11, <1>12, <1>13, <1>14 DEF CeremonyInv

\* The hash is put out, whether the ceremony goes on or was a dry run: what follows
\* for everything but the ceremony in progress.
LEMMA HashPutOut ==
  ASSUME CeremonyInv, stage = "signed", UNCHANGED <<gatedVars, ledgerVars, careless>>,
         output' = output \cup {Tx}, LogTyped', LogCarries, Len(log') = Len(log),
         \A k \in 1..Len(log) : log'[k].tx = log[k].tx,
         stage' # "idle" => stage' = "persisted" /\ UNCHANGED log
  PROVE  TxsKnown' /\ WayKnown' /\ LandedKnown' /\ ClockKnown' /\ PayingKnown' /\ SignerKnown'
<1>1. /\ Made(Tx, Current.order) /\ released[Tx] > 0 /\ released' = released
      /\ Current.known # NoTx => Tx = Current.known
      /\ request' = request
  BY DEF CeremonyInv, CurrentKnown, gatedVars
<1>2. Len(log) \in 1..Len(log) /\ log[Len(log)].tx = Tx
  BY CurrentFields DEF Tx, Current
<1>3. Tx \in Requests /\ Tx # NoTx /\ Tx.payee = Current.order.payee
  BY <1>1, MadeOfOrder DEF Made
<1>4. TxsKnown' /\ WayKnown'
  <2>1. \A t \in Requests :
          released[t] \in Nat /\ released'[t] \in Nat /\ released'[t] >= released[t]
    BY <1>1 DEF CeremonyInv, SignerKnown
  <2>2. \A k \in 1..Len(log') : log'[k].tx # NoTx => k \in 1..Len(log) /\ log[k].tx # NoTx
    OBVIOUS
  <2>3. TxsKnown /\ WayKnown
    BY DEF CeremonyInv
  <2>4. \A t \in output' \ output :
          /\ t \in Requests /\ released'[t] > 0
          /\ \E k \in 1..Len(log') : log'[k].tx = t /\ t # NoTx
    BY <1>1, <1>2, <1>3
  <2>5. output \subseteq output' /\ \A t : t \notin inflight' \ inflight
    BY DEF ledgerVars
  <2> QED
    BY <2>1, <2>2, <2>3, <2>4, <2>5, WayGrows
<1>5. LandedKnown' /\ \A t : MayPay(t)' = MayPay(t)
  BY LedgerStays DEF CeremonyInv, ledgerVars
<1>6. ClockKnown'
  BY DEF CeremonyInv, ClockKnown, Horizon, ledgerVars
<1>7. PayingKnown'
  <2>1. ASSUME Current.order.payee \notin careless, NEW t \in output,
               t.payee = Current.order.payee, t # Tx
        PROVE  ~MayPay(t)
    <3>1. t # NoTx
      BY DEF CeremonyInv, TxsKnown
    <3>2. t # Current.known
      BY <1>1, <2>1, <3>1
    <3> QED
      BY <2>1, <3>2 DEF CeremonyInv, PayingKnown
  <2>2. \A t, u \in output' :
          t # u /\ t.payee = u.payee /\ t.payee \notin careless' => ~(MayPay(t)' /\ MayPay(u)')
    <3> TAKE t, u \in output'
    <3> HAVE t # u /\ t.payee = u.payee /\ t.payee \notin careless'
    <3>1. careless' = careless
      OBVIOUS
    <3>2. CASE t \in output /\ u \in output
      BY <1>5, <3>1, <3>2 DEF CeremonyInv, PayingKnown
    <3>3. CASE t = Tx
      BY <1>3, <1>5, <2>1, <3>1, <3>3
    <3>4. CASE u = Tx
      BY <1>3, <1>5, <2>1, <3>1, <3>4
    <3> QED
      BY <3>2, <3>3, <3>4
  <2>3. stage' # "idle" => Current' = Current /\ Tx' = Tx
    BY DEF Current, Tx
  <2>4. stage' # "idle" /\ Current'.order.payee \notin careless' =>
          \A t \in output' :
            t.payee = Current'.order.payee /\ t # Current'.known /\ t # Tx' => ~MayPay(t)'
    BY <1>5, <2>1, <2>3
  <2> QED
    BY <2>2, <2>4 DEF PayingKnown
<1>8. SignerKnown'
  BY <1>1 DEF CeremonyInv, SignerKnown
<1> QED
  BY <1>4, <1>5, <1>6, <1>7, <1>8

LEMMA PersistHashStep == ASSUME CeremonyInv, PersistHash  PROVE CeremonyInv'
<1>1. /\ UNCHANGED <<gatedVars, ledgerVars, careless>> /\ released' = released
      /\ stage = "signed" /\ output' = output \cup {Tx}
      /\ inflight' = inflight /\ landed' = landed
  BY DEF PersistHash, AtLedger, gatedVars, ledgerVars
<1>2. CurrentKnown /\ ResultIsFinal /\ LogTyped /\ Len(log) \in 1..Len(log) /\ Len(log) >= 1
  BY <1>1, CurrentFields DEF CeremonyInv, CurrentKnown
<1>3. CASE Current.submit
  <2>1. stage' = "persisted" /\ log' = log
    BY <1>3 DEF PersistHash
  <2>2. LogTyped' /\ LogCarries
    BY <1>2, <2>1, LogSame
  <2>3. TxsKnown' /\ WayKnown' /\ LandedKnown' /\ ClockKnown' /\ PayingKnown' /\ SignerKnown'
    BY <1>1, <2>1, <2>2, HashPutOut
  <2>4. ResultIsFinal'
    BY <1>1, <1>2, <2>1 DEF ResultIsFinal
  <2>5. CurrentKnown'
    <3>1. Current' = Current /\ Tx' = Tx
      BY <2>1 DEF Current, Tx
    <3>2. Made(Tx, Current.order)' <=> Made(Tx, Current.order)
      BY <3>1 DEF Made, Autofilled, ApplyDefaultSourceTag
    <3>3. /\ Shown(Current, Tx)' <=> Shown(Current, Tx)
          /\ Answered(Current)' <=> Answered(Current)
      BY <3>1 DEF Shown, Answered, NoTx
    <3> QED
      BY <1>1, <1>2, <1>3, <2>1, <3>1, <3>2, <3>3
      DEF CurrentKnown, NoTx, Autofilled, ApplyDefaultSourceTag
  <2> QED
    BY <2>2, <2>3, <2>4, <2>5 DEF CeremonyInv
<1>4. CASE ~Current.submit
  <2> DEFINE r == [Current EXCEPT !.status = "signed_not_submitted"]
  <2>1. stage' = "idle" /\ log' = [log EXCEPT ![Len(log)] = r]
    BY <1>4 DEF PersistHash, Current
  <2>2. /\ r.tx = Tx /\ r.order = Current.order /\ r.shown = Current.shown
        /\ r.status = "signed_not_submitted" /\ r.answer = Current.answer
        /\ r.gate = Current.gate /\ r.submit = Current.submit /\ DOMAIN r = Fields
    <3>1. DOMAIN Current = Fields
      BY <1>1, CurrentFields
    <3> QED
      BY <3>1 DEF Fields, Tx
  <2> HIDE DEF r
  <2>3. Carries(Current, r)
    BY <2>2 DEF Carries, Tx, Answered
  <2>4. /\ LogTyped' /\ LogCarries
        /\ Len(log') = Len(log) /\ Current' = r
        /\ \A k \in 1..Len(log) : k # Len(log) => log'[k] = log[k]
    BY <1>2, <2>1, <2>2, <2>3, EntryChanges
  <2>5. log'[Len(log)] = r
    BY <2>4 DEF Current
  <2>6. \A k \in 1..Len(log) : log'[k].tx = log[k].tx
    BY <2>2, <2>4, <2>5 DEF Tx, Current
  <2>7. TxsKnown' /\ WayKnown' /\ LandedKnown' /\ ClockKnown' /\ PayingKnown' /\ SignerKnown'
    BY <1>1, <2>1, <2>4, <2>6, HashPutOut
  <2>8. ResultIsFinal'
    <3>1. ASSUME NEW k \in 1..Len(log'), log'[k].status \in Codes
          PROVE  [tx |-> log'[k].tx, code |-> log'[k].status] \in landed'
      <4>1. k # Len(log)
        BY <2>2, <2>5, <3>1, CodesAssumption
      <4>2. log'[k] = log[k] /\ k \in 1..Len(log)
        BY <2>4, <4>1
      <4> QED
        BY <1>1, <1>2, <3>1, <4>2 DEF ResultIsFinal
    <3> QED
      BY <3>1 DEF ResultIsFinal
  <2>9. CurrentKnown'
    BY <2>1 DEF CurrentKnown
  <2> QED
    BY <2>4, <2>7, <2>8, <2>9 DEF CeremonyInv
<1> QED
  BY <1>3, <1>4

LEMMA SendStep == ASSUME CeremonyInv, Send  PROVE CeremonyInv'
<1>1. /\ UNCHANGED <<log, output, landed, ledger, sequence, others, careless>>
      /\ released' = released /\ request' = request
      /\ stage = "persisted" /\ stage' = "waiting" /\ inflight' = inflight \cup {Tx}
  BY DEF Send, Stay, gatedVars
<1>2. /\ CurrentKnown /\ Made(Tx, Current.order) /\ Shown(Current, Tx)
      /\ Answered(Current) /\ Tx \in output /\ Current.submit
  BY <1>1 DEF CeremonyInv, CurrentKnown
<1>3. Current' = Current /\ Tx' = Tx
  BY <1>1 DEF Current, Tx
<1>4. LogTyped' /\ LogCarries
  BY <1>1, LogSame DEF CeremonyInv
<1>5. TxsKnown' /\ WayKnown'
  <2>1. \A t \in Requests :
          released[t] \in Nat /\ released'[t] \in Nat /\ released'[t] >= released[t]
    BY <1>1 DEF CeremonyInv, SignerKnown
  <2>2. \A k \in 1..Len(log') : log'[k].tx # NoTx => k \in 1..Len(log) /\ log[k].tx # NoTx
    BY <1>1
  <2>3. TxsKnown /\ WayKnown
    BY DEF CeremonyInv
  <2>4. Len(log') \in 1..Len(log') /\ log'[Len(log')] = Current
    BY <1>1, CurrentFields DEF Current
  <2>5. \A t \in inflight' \ inflight : t \in output' /\
          \E k \in 1..Len(log') : /\ log'[k].submit /\ Answered(log'[k]) /\ Shown(log'[k], t)
                                 /\ Made(t, log'[k].order)
    BY <1>1, <1>2, <2>4
  <2>6. output \subseteq output' /\ \A t : t \notin output' \ output
    BY <1>1
  <2> QED
    BY <1>4, <2>1, <2>2, <2>3, <2>5, <2>6, WayGrows
<1>6. LandedKnown'
  BY <1>1 DEF CeremonyInv, LandedKnown
<1>7. \A t : MayPay(t)' = MayPay(t)
  BY <1>1 DEF MayPay, Alive, Landed
<1>8. PayingKnown'
  BY <1>1, <1>3, <1>7, PayingStays DEF CeremonyInv
<1>9. ClockKnown' /\ ResultIsFinal' /\ SignerKnown'
  <2>1. ClockKnown'
    BY <1>1 DEF CeremonyInv, ClockKnown, Horizon
  <2>2. ResultIsFinal'
    BY <1>1 DEF CeremonyInv, ResultIsFinal
  <2>3. SignerKnown'
    BY <1>1 DEF CeremonyInv, SignerKnown
  <2> QED
    BY <2>1, <2>2, <2>3
<1>10. CurrentKnown'
  <2>1. Made(Tx, Current.order)' <=> Made(Tx, Current.order)
    BY <1>3 DEF Made, Autofilled, ApplyDefaultSourceTag
  <2>2. /\ Shown(Current, Tx)' <=> Shown(Current, Tx)
        /\ Answered(Current)' <=> Answered(Current)
    BY <1>3 DEF Shown, Answered, NoTx
  <2> QED
    BY <1>1, <1>2, <1>3, <2>1, <2>2 DEF CurrentKnown, NoTx, Autofilled, ApplyDefaultSourceTag
<1> QED
  BY <1>4, <1>5, <1>6, <1>8, <1>9, <1>10 DEF CeremonyInv

-----------------------------------------------------------------------------
(* The steps of the ledger.                                                *)

\* They leave every ceremony as it is.
LEMMA LedgerStep ==
  ASSUME CeremonyInv, UNCHANGED <<gatedVars, callVars, inflight, careless>>,
         landed \subseteq landed', \A t \in output : MayPay(t)' => MayPay(t)
  PROVE  /\ LogTyped' /\ CurrentKnown' /\ SignerKnown' /\ TxsKnown' /\ WayKnown'
         /\ PayingKnown' /\ ResultIsFinal'
<1>1. /\ stage' = stage /\ log' = log /\ output' = output /\ careless' = careless
      /\ request' = request /\ released' = released /\ inflight' = inflight
  BY DEF gatedVars, callVars
<1>2. LogTyped' /\ LogCarries
  BY <1>1, LogSame DEF CeremonyInv
<1>3. Current' = Current /\ Tx' = Tx
  BY <1>1 DEF Current, Tx
<1>4. CurrentKnown'
  <2>1. Made(Tx, Current.order)' <=> Made(Tx, Current.order)
    BY <1>3 DEF Made, Autofilled, ApplyDefaultSourceTag
  <2>2. /\ Shown(Current, Tx)' <=> Shown(Current, Tx)
        /\ Answered(Current)' <=> Answered(Current)
    BY <1>3 DEF Shown, Answered, NoTx
  <2> QED
    BY <1>1, <1>3, <2>1, <2>2
    DEF CeremonyInv, CurrentKnown, NoTx, Autofilled, ApplyDefaultSourceTag
<1>5. SignerKnown'
  BY <1>1, <1>3 DEF CeremonyInv, SignerKnown
<1>6. TxsKnown' /\ WayKnown'
  <2>1. \A t \in Requests :
          released[t] \in Nat /\ released'[t] \in Nat /\ released'[t] >= released[t]
    BY <1>1 DEF CeremonyInv, SignerKnown
  <2>2. \A k \in 1..Len(log') : log'[k].tx # NoTx => k \in 1..Len(log) /\ log[k].tx # NoTx
    BY <1>1
  <2>3. TxsKnown /\ WayKnown /\ UNCHANGED <<output, inflight>>
    BY <1>1 DEF CeremonyInv
  <2> QED
    BY <1>2, <2>1, <2>2, <2>3, WayStays
<1>7. PayingKnown'
  BY <1>1, <1>3, PayingStays DEF CeremonyInv
<1>8. ResultIsFinal'
  BY <1>1 DEF CeremonyInv, ResultIsFinal
<1> QED
  BY <1>2, <1>4, <1>5, <1>6, <1>7, <1>8

LEMMA OutputMade ==
  ASSUME CeremonyInv, NEW t \in output
  PROVE  t.sequence \in Nat /\ t.last_ledger \in Nat
BY DEF CeremonyInv, TxsKnown, Made

\* What landed had a Sequence that is used up now, so it lands no second time.
LEMMA ValidateStep ==
  ASSUME CeremonyInv, NEW tx \in inflight, NEW code \in Codes, Validate(tx, code)
  PROVE  CeremonyInv'
<1> DEFINE new == [tx |-> tx, code |-> code]
<1>1. /\ UNCHANGED <<gatedVars, callVars, inflight, careless>>
      /\ log' = log /\ stage' = stage /\ inflight' = inflight
      /\ ledger' = ledger /\ others' = others /\ ledger <= tx.last_ledger
      /\ tx.sequence = sequence /\ sequence' = sequence + 1
      /\ landed' = landed \cup {new}
  BY DEF Validate, callVars
<1>2. /\ sequence \in Nat /\ others \in 0..MaxOthers /\ IsFiniteSet(landed)
      /\ sequence = 1 + others + Cardinality(landed)
      /\ \A l \in landed : /\ l = [tx |-> l.tx, code |-> l.code]
                           /\ l.tx \in inflight /\ l.code \in Codes
                           /\ l.tx.sequence < sequence
      /\ \A l, m \in landed : l.tx = m.tx => l = m
  BY DEF CeremonyInv, LandedKnown
<1>3. tx \in output /\ \A l \in landed : l.tx \in output
  BY <1>2 DEF CeremonyInv, WayKnown
<1>4. \A l \in landed : l.tx.sequence \in Nat
  BY <1>3, OutputMade
<1>5. \A l \in landed : l.tx # tx
  BY <1>1, <1>2, <1>4
<1>6. Alive(tx)
  <2>1. ~Landed(tx)
    BY <1>5 DEF Landed
  <2>2. sequence <= tx.sequence
    BY <1>1, <1>2
  <2> QED
    BY <1>1, <2>1, <2>2 DEF Alive
<1>7. ASSUME NEW t \in output, MayPay(t)'
      PROVE  MayPay(t)
  <2>1. t.sequence \in Nat
    BY OutputMade
  <2>2. CASE Alive(t)'
    <3>1. ~Landed(t)
      BY <1>1, <2>2 DEF Alive, Landed
    <3>2. ledger <= t.last_ledger /\ sequence + 1 <= t.sequence
      BY <1>1, <2>2 DEF Alive
    <3>3. sequence <= t.sequence
      BY <1>2, <2>1, <3>2
    <3> QED
      BY <3>1, <3>2, <3>3 DEF Alive, MayPay
  <2>3. CASE [tx |-> t, code |-> "tesSUCCESS"] \in landed'
    <3>1. CASE [tx |-> t, code |-> "tesSUCCESS"] \in landed
      BY <3>1 DEF MayPay
    <3>2. CASE [tx |-> t, code |-> "tesSUCCESS"] = new
      BY <1>6, <3>2 DEF MayPay
    <3> QED
      BY <1>1, <2>3, <3>1, <3>2
  <2> QED
    BY <1>7, <2>2, <2>3 DEF MayPay
<1>8. /\ LogTyped' /\ CurrentKnown' /\ SignerKnown' /\ TxsKnown' /\ WayKnown'
      /\ PayingKnown' /\ ResultIsFinal'
  <2>1. landed \subseteq landed'
    BY <1>1
  <2> QED
    BY <1>1, <1>7, <2>1, LedgerStep
<1>9. LandedKnown'
  <2>1. IsFiniteSet(landed') /\ Cardinality(landed') = Cardinality(landed) + 1
    <3>1. new \notin landed
      BY <1>5
    <3> HIDE DEF new
    <3> QED
      BY <1>1, <1>2, <3>1, FS_AddElement
  <2>2. sequence' \in Nat /\ sequence' = 1 + others' + Cardinality(landed')
    <3>1. Cardinality(landed) \in Nat
      BY <1>2, FS_CardinalityType
    <3> QED
      BY <1>1, <1>2, <2>1, <3>1
  <2>3. \A l \in landed' : /\ l = [tx |-> l.tx, code |-> l.code]
                           /\ l.tx \in inflight' /\ l.code \in Codes
    BY <1>1, <1>2
  <2>4. \A l \in landed' : l.tx.sequence < sequence'
    <3> TAKE l \in landed'
    <3>1. CASE l \in landed
      <4>1. l.tx.sequence \in Nat /\ l.tx.sequence < sequence
        BY <1>2, <1>4, <3>1
      <4> QED
        BY <1>1, <1>2, <4>1
    <3>2. CASE l = new
      BY <1>1, <1>2, <3>2
    <3> QED
      BY <1>1, <3>1, <3>2
  <2>5. \A l, m \in landed' : l.tx = m.tx => l = m
    BY <1>1, <1>2, <1>5
  <2> QED
    BY <1>1, <1>2, <2>1, <2>2, <2>3, <2>4, <2>5 DEF LandedKnown
<1>10. ClockKnown'
  BY <1>1 DEF CeremonyInv, ClockKnown, Horizon
<1> QED
  BY <1>8, <1>9, <1>10 DEF CeremonyInv

LEMMA OtherTransactionStep == ASSUME CeremonyInv, OtherTransaction  PROVE CeremonyInv'
<1>1. /\ UNCHANGED <<gatedVars, callVars, inflight, careless>>
      /\ log' = log /\ stage' = stage /\ inflight' = inflight
      /\ ledger' = ledger /\ others < MaxOthers /\ others' = others + 1
      /\ sequence' = sequence + 1 /\ landed' = landed
  BY DEF OtherTransaction, callVars
<1>2. /\ sequence \in Nat /\ others \in 0..MaxOthers /\ IsFiniteSet(landed)
      /\ sequence = 1 + others + Cardinality(landed)
      /\ \A l \in landed : /\ l = [tx |-> l.tx, code |-> l.code]
                           /\ l.tx \in inflight /\ l.code \in Codes
                           /\ l.tx.sequence < sequence
      /\ \A l, m \in landed : l.tx = m.tx => l = m
  BY DEF CeremonyInv, LandedKnown
<1>3. ASSUME NEW t \in output, MayPay(t)'
      PROVE  MayPay(t)
  <2>1. t.sequence \in Nat
    BY OutputMade
  <2>2. sequence + 1 <= t.sequence => sequence <= t.sequence
    BY <1>2, <2>1
  <2> QED
    BY <1>1, <1>3, <2>2 DEF MayPay, Alive, Landed
<1>4. /\ LogTyped' /\ CurrentKnown' /\ SignerKnown' /\ TxsKnown' /\ WayKnown'
      /\ PayingKnown' /\ ResultIsFinal'
  BY <1>1, <1>3, LedgerStep
<1>5. LandedKnown'
  <2>1. /\ sequence' \in Nat /\ sequence' = 1 + others' + Cardinality(landed')
        /\ others' \in 0..MaxOthers
    <3>1. Cardinality(landed) \in Nat
      BY <1>2, FS_CardinalityType
    <3> QED
      BY <1>1, <1>2, <3>1, CeremonyBounds
  <2>2. \A l \in landed : l.tx.sequence < sequence'
    <3> TAKE l \in landed
    <3>1. l.tx \in output
      BY <1>2 DEF CeremonyInv, WayKnown
    <3>2. l.tx.sequence \in Nat /\ l.tx.sequence < sequence
      BY <1>2, <3>1, OutputMade
    <3> QED
      BY <1>1, <1>2, <3>2
  <2> QED
    BY <1>1, <1>2, <2>1, <2>2 DEF LandedKnown
<1>6. ClockKnown'
  BY <1>1 DEF CeremonyInv, ClockKnown, Horizon
<1> QED
  BY <1>4, <1>5, <1>6 DEF CeremonyInv

LEMMA LedgerClosesStep == ASSUME CeremonyInv, LedgerCloses  PROVE CeremonyInv'
<1>1. /\ UNCHANGED <<gatedVars, callVars, inflight, careless>>
      /\ log' = log /\ stage' = stage /\ inflight' = inflight /\ ledger' = ledger + 1
      /\ sequence' = sequence /\ others' = others /\ landed' = landed
      /\ (ledger < MaxLedger) \/ (stage = "waiting" /\ ledger <= Tx.last_ledger)
  BY DEF LedgerCloses, callVars
<1>2. ledger \in Nat \ {0} /\ ledger <= Horizon(Len(log))
  BY DEF CeremonyInv, ClockKnown
<1>3. Len(log) \in Nat /\ (stage # "idle" => Len(log) >= 1)
  BY LenProperties DEF CeremonyInv, LogTyped, CurrentKnown
<1>4. ASSUME NEW t \in output, MayPay(t)'
      PROVE  MayPay(t)
  <2>1. t.last_ledger \in Nat
    BY OutputMade
  <2>2. ledger + 1 <= t.last_ledger => ledger <= t.last_ledger
    BY <1>2, <2>1
  <2> QED
    BY <1>1, <1>4, <2>2 DEF MayPay, Alive, Landed
<1>5. /\ LogTyped' /\ CurrentKnown' /\ SignerKnown' /\ TxsKnown' /\ WayKnown'
      /\ PayingKnown' /\ ResultIsFinal'
  BY <1>1, <1>4, LedgerStep
<1>6. LandedKnown'
  BY <1>1 DEF CeremonyInv, LandedKnown
<1>7. ClockKnown'
  <2>1. Horizon(Len(log)) \in Nat /\ Horizon(Len(log)) >= MaxLedger /\ MaxLedger \in Nat
    BY <1>3, HorizonGrows, CeremonyBounds
  <2>2. ledger' \in Nat \ {0}
    BY <1>1, <1>2
  <2>3. CASE ledger < MaxLedger
    <3>1. ledger' <= MaxLedger
      BY <1>1, <1>2, <2>1, <2>3
    <3>2. ledger' <= Horizon(Len(log))
      BY <2>1, <2>2, <3>1
    <3>3. stage # "idle" => ledger' <= Horizon(Len(log) - 1)
      <4>1. SUFFICES ASSUME stage # "idle" PROVE ledger' <= Horizon(Len(log) - 1)
        OBVIOUS
      <4>2. Len(log) - 1 \in Nat
        BY <1>3, <4>1
      <4>3. Horizon(Len(log) - 1) \in Nat /\ Horizon(Len(log) - 1) >= MaxLedger
        BY <4>2, HorizonGrows
      <4> QED
        BY <2>1, <2>2, <3>1, <4>3
    <3> QED
      BY <1>1, <2>2, <3>2, <3>3 DEF ClockKnown, Horizon
  <2>4. CASE stage = "waiting" /\ ledger <= Tx.last_ledger
    <3>1. Len(log) \in 1..Len(log) /\ Made(Tx, Current.order)
      BY <2>4, CurrentFields DEF CeremonyInv, CurrentKnown
    <3>2. Tx.last_ledger \in Nat /\ Tx # NoTx
      BY <3>1, MadeOfOrder DEF Made
    <3>3. Tx.last_ledger <= Horizon(Len(log) - 1) + LedgerOffset
      BY <3>1, <3>2 DEF CeremonyInv, TxsKnown, Tx, Current
    <3>4. Len(log) - 1 \in Nat /\ Len(log) - 1 + 1 = Len(log)
      BY <3>1
    <3>5. /\ Horizon(Len(log) - 1) \in Nat
          /\ Horizon(Len(log)) = Horizon(Len(log) - 1) + LedgerOffset + 1
      <4> DEFINE n == Len(log) - 1
      <4> HIDE DEF n
      <4>1. n \in Nat /\ n + 1 = Len(log)
        BY <3>4 DEF n
      <4>2. Horizon(n) \in Nat /\ Horizon(n + 1) = Horizon(n) + LedgerOffset + 1
        BY <4>1, HorizonGrows
      <4> QED
        BY <4>1, <4>2 DEF n
    <3>6. ledger' <= Horizon(Len(log))
      BY <1>1, <1>2, <2>4, <3>2, <3>3, <3>5, CeremonyBounds
    <3> QED
      BY <1>1, <2>2, <2>4, <3>6 DEF ClockKnown, Horizon
  <2> QED
    BY <1>1, <2>3, <2>4
<1> QED
  BY <1>5, <1>6, <1>7 DEF CeremonyInv

-----------------------------------------------------------------------------
(* The invariant, and what it is for.                                      *)

LEMMA CeremonyInvInit == ASSUME CeremonyInit  PROVE CeremonyInv
<1>1. /\ stage = "idle" /\ log = <<>> /\ output = {} /\ inflight = {} /\ landed = {}
      /\ ledger = 1 /\ sequence = 1 /\ others = 0 /\ request = NoRequest
      /\ released = [r \in Requests |-> 0]
  BY DEF CeremonyInit, GatedInit
<1>2. log \in Seq({}) /\ Len(log) = 0
  BY <1>1
<1>3. LogTyped
  BY <1>1, <1>2, CeremonyBounds DEF LogTyped
<1>4. CurrentKnown /\ SignerKnown /\ TxsKnown /\ WayKnown /\ PayingKnown /\ ResultIsFinal
  BY <1>1, <1>2
  DEF CurrentKnown, SignerKnown, TxsKnown, WayKnown, PayingKnown, ResultIsFinal
<1>5. LandedKnown
  BY <1>1, FS_EmptySet, CeremonyBounds DEF LandedKnown
<1>6. ClockKnown
  <2>1. Horizon(0) \in Nat /\ Horizon(0) >= MaxLedger
    BY HorizonGrows
  <2>2. 1 <= Horizon(0)
    BY <2>1, CeremonyBounds
  <2> QED
    BY <1>1, <1>2, <2>2 DEF ClockKnown
<1> QED
  BY <1>3, <1>4, <1>5, <1>6 DEF CeremonyInv

LEMMA CeremonyInvStep == ASSUME CeremonyInv, [CeremonyNext]_ceremonyVars  PROVE CeremonyInv'
<1>1. ASSUME NEW o \in Orders, NEW gate \in BOOLEAN, NEW submit \in BOOLEAN,
             Begin(o, NoTx, gate, submit)
      PROVE  CeremonyInv'
  BY <1>1, BeginStep
<1>2. ASSUME NEW o \in Orders, NEW gate \in BOOLEAN, NEW submit \in BOOLEAN,
             NEW t \in output, t = Autofilled(o, t.sequence, t.last_ledger),
             Begin(o, t, gate, submit)
      PROVE  CeremonyInv'
  BY <1>2, BeginStep
<1>3. CASE OwnStep
  <2>1. CASE RefuseAccount \/ WaitExpires
    BY <2>1, RaiseStep DEF RefuseAccount, WaitExpires
  <2> QED
    BY <1>3, <2>1, AutofillStep, PreviewStep, AskSignerStep, SignerChecksStep,
       SignerReleasesStep, PersistHashStep, SendStep, ReportResultStep DEF OwnStep
<1>4. CASE Raise
  BY <1>4, RaiseStep
<1>5. CASE Confirm
  BY <1>5, ConfirmStep
<1>6. CASE Decline
  BY <1>6, DeclineStep
<1>7. ASSUME NEW tx \in inflight, NEW code \in Codes, Validate(tx, code)
      PROVE  CeremonyInv'
  BY <1>7, ValidateStep
<1>8. CASE OtherTransaction
  BY <1>8, OtherTransactionStep
<1>9. CASE LedgerCloses
  BY <1>9, LedgerClosesStep
<1>10. CASE UNCHANGED ceremonyVars
  <2>1. /\ UNCHANGED <<gatedVars, callVars, inflight, careless>> /\ landed \subseteq landed'
        /\ UNCHANGED <<inflight, landed, ledger, sequence, others>>
        /\ stage' = stage /\ log' = log
    BY <1>10 DEF ceremonyVars, callVars, ledgerVars
  <2>2. LandedKnown' /\ \A t : MayPay(t)' = MayPay(t)
    BY <2>1, LedgerStays DEF CeremonyInv
  <2>3. ClockKnown'
    BY <2>1 DEF CeremonyInv, ClockKnown, Horizon
  <2>4. /\ LogTyped' /\ CurrentKnown' /\ SignerKnown' /\ TxsKnown' /\ WayKnown'
        /\ PayingKnown' /\ ResultIsFinal'
    BY <2>1, <2>2, LedgerStep
  <2> QED
    BY <2>2, <2>3, <2>4 DEF CeremonyInv
<1> QED
  BY <1>1, <1>2, <1>3, <1>4, <1>5, <1>6, <1>7, <1>8, <1>9, <1>10 DEF CeremonyNext

\* Type correctness of the ceremony, the ledger and the signer between them.
THEOREM CeremonyTypeCorrect == CeremonySpec => []CeremonyTypeOK
<1>1. CeremonyInit => CeremonyInv
  BY CeremonyInvInit
<1>2. CeremonyInv /\ [CeremonyNext]_ceremonyVars => CeremonyInv'
  BY CeremonyInvStep
<1>3. CeremonyInv => CeremonyTypeOK
  <2> SUFFICES ASSUME CeremonyInv PROVE CeremonyTypeOK
    OBVIOUS
  <2>1. \A k \in 1..Len(log) : log[k].tx \in Requests \cup {NoTx}
    BY DEF CeremonyInv, TxsKnown, Made
  <2>2. output \subseteq Requests /\ inflight \subseteq output
    BY DEF CeremonyInv, TxsKnown, WayKnown
  <2>3. landed \in SUBSET [tx : inflight, code : Codes]
    BY DEF CeremonyInv, LandedKnown
  <2>4. Len(log) <= MaxCeremonies
    BY DEF CeremonyInv, LogTyped
  <2>5. /\ stage \in {"idle", "received", "prepared", "confirm", "sign", "signing",
                      "signed", "persisted", "waiting"}
        /\ (request # NoRequest) <=> (stage = "signing")
        /\ stage = "signing" => request = Tx
    BY DEF CeremonyInv, SignerKnown
  <2> QED
    BY <2>1, <2>2, <2>3, <2>4, <2>5 DEF CeremonyTypeOK
<1> QED
  BY <1>1, <1>2, <1>3, PTL DEF CeremonySpec

\* Nothing lands that no ceremony showed in full, had confirmed where a human was to be
\* asked, and had signed, for just that order: run_ceremony, steps 1 to 6, for all orders,
\* signers, numbers of ceremonies and failures.
THEOREM LandsConfirmed == CeremonySpec => []LandsAsConfirmed
<1>1. CeremonyInit => CeremonyInv
  BY CeremonyInvInit
<1>2. CeremonyInv /\ [CeremonyNext]_ceremonyVars => CeremonyInv'
  BY CeremonyInvStep
<1>3. CeremonyInv => LandsAsConfirmed
  <2> SUFFICES ASSUME CeremonyInv, NEW l \in landed
               PROVE  \E k \in 1..Len(log) :
                        LET c == log[k]
                        IN  /\ c.submit /\ (c.gate => c.answer = "yes")
                            /\ c.shown # NoTx
                            /\ \A f \in DOMAIN l.tx : c.shown[f] = l.tx[f]
                            /\ c.order.account = l.tx.account /\ c.order.payee = l.tx.payee
                            /\ c.order.tag # "absent" => c.order.tag = l.tx.tag
                            /\ released[l.tx] > 0
    BY DEF LandsAsConfirmed
  <2>1. l.tx \in inflight
    BY DEF CeremonyInv, LandedKnown
  <2>2. released[l.tx] > 0
    BY <2>1 DEF CeremonyInv, WayKnown, TxsKnown
  <2>3. PICK k \in 1..Len(log) : /\ log[k].submit /\ Answered(log[k]) /\ Shown(log[k], l.tx)
                                 /\ Made(l.tx, log[k].order)
    BY <2>1 DEF CeremonyInv, WayKnown
  <2>4. /\ l.tx.account = log[k].order.account /\ l.tx.payee = log[k].order.payee
        /\ log[k].order.tag # "absent" => l.tx.tag = log[k].order.tag
    BY <2>3, MadeOfOrder
  <2> QED
    BY <2>2, <2>3, <2>4 DEF Answered, Shown
<1> QED
  BY <1>1, <1>2, <1>3, PTL DEF CeremonySpec

\* A caller that keeps to the hashes it was given pays a payee once, whatever raised in
\* whichever ceremony, and whichever transactions were sent again.
THEOREM PaysOnce == CeremonySpec => []PaidOnce
<1>1. CeremonyInit => CeremonyInv
  BY CeremonyInvInit
<1>2. CeremonyInv /\ [CeremonyNext]_ceremonyVars => CeremonyInv'
  BY CeremonyInvStep
<1>3. CeremonyInv => PaidOnce
  <2> SUFFICES ASSUME CeremonyInv, NEW o \in Orders, o.payee \notin careless
               PROVE  Cardinality({l \in landed : l.tx.payee = o.payee
                                                  /\ l.code = "tesSUCCESS"}) <= 1
    BY DEF PaidOnce
  <2> DEFINE paid == {l \in landed : l.tx.payee = o.payee /\ l.code = "tesSUCCESS"}
  <2>1. \A l, m \in paid : l = m
    <3> TAKE l, m \in paid
    <3>1. /\ l.tx \in output /\ l = [tx |-> l.tx, code |-> "tesSUCCESS"]
          /\ m.tx \in output /\ m = [tx |-> m.tx, code |-> "tesSUCCESS"]
      BY DEF CeremonyInv, LandedKnown, WayKnown
    <3>2. MayPay(l.tx) /\ MayPay(m.tx)
      BY <3>1 DEF MayPay
    <3>3. l.tx = m.tx
      BY <3>1, <3>2 DEF CeremonyInv, PayingKnown
    <3> QED
      BY <3>1, <3>3
  <2> HIDE DEF paid
  <2>2. CASE paid = {}
    BY <2>2, FS_EmptySet DEF paid
  <2>3. CASE paid # {}
    <3>1. PICK l : paid = {l}
      BY <2>1, <2>3
    <3>2. Cardinality(paid) = 1
      BY <3>1, FS_Singleton
    <3> QED
      BY <3>2 DEF paid
  <2> QED
    BY <2>2, <2>3
<1> QED
  BY <1>1, <1>2, <1>3, PTL DEF CeremonySpec

\* A result that is reported is that of the validated transaction, and stays so.
THEOREM ResultsFinal == CeremonySpec => []ResultIsFinal
<1>1. CeremonyInit => CeremonyInv
  BY CeremonyInvInit
<1>2. CeremonyInv /\ [CeremonyNext]_ceremonyVars => CeremonyInv'
  BY CeremonyInvStep
<1>3. CeremonyInv => ResultIsFinal
  BY DEF CeremonyInv
<1> QED
  BY <1>1, <1>2, <1>3, PTL DEF CeremonySpec
-----------------------------------------------------------------------------
(* Every ceremony comes to its end.                                        *)

\* How many steps a ceremony at this stage may still take, with n gates of the
\* signer still to pass.
Work(at, n) ==
  LET gates == Cardinality(Gates)
  IN  CASE at = "idle"      -> 0
        [] at = "waiting"   -> 1
        [] at = "persisted" -> 2
        [] at = "signed"    -> 3
        [] at = "signing"   -> 4 + n
        [] at = "sign"      -> 5 + gates
        [] at = "confirm"   -> 6 + gates
        [] at = "prepared"  -> 7 + gates
        [] at = "received"  -> 8 + gates

StepsLeft == Work(stage, Cardinality(Gates \ passed))

\* A ceremony takes at most eight steps and one for each gate of the signer; each
\* of them, and nothing else, brings the end nearer.  Its last step waits for no
\* more ledgers than an autofilled transaction lives.
CeremonyShrinks ==
  /\ [](StepsLeft \in 0..(8 + Cardinality(Gates)))
  /\ [][stage # "idle" =>
          IF OwnStep \/ Raise \/ Confirm \/ Decline THEN StepsLeft' < StepsLeft
                                                    ELSE StepsLeft' = StepsLeft]_ceremonyVars
  /\ [](stage = "waiting" => Tx.last_ledger <= ledger + LedgerOffset)

LEMMA WorkValues ==
  ASSUME NEW n
  PROVE  /\ Work("idle", n) = 0 /\ Work("waiting", n) = 1
         /\ Work("persisted", n) = 2 /\ Work("signed", n) = 3
         /\ Work("signing", n) = 4 + n
         /\ Work("sign", n) = 5 + Cardinality(Gates)
         /\ Work("confirm", n) = 6 + Cardinality(Gates)
         /\ Work("prepared", n) = 7 + Cardinality(Gates)
         /\ Work("received", n) = 8 + Cardinality(Gates)
BY DEF Work

\* The gates still to pass are some of them, and one that passes is one less.
LEMMA GatesLeft ==
  ASSUME NEW done
  PROVE  /\ Cardinality(Gates) \in Nat
         /\ Cardinality(Gates \ done) \in 0..Cardinality(Gates)
         /\ \A g \in Gates \ done :
              /\ Cardinality(Gates \ (done \cup {g})) \in Nat
              /\ Cardinality(Gates \ (done \cup {g})) < Cardinality(Gates \ done)
<1>1. /\ IsFiniteSet(Gates) /\ IsFiniteSet(Gates \ done)
      /\ Cardinality(Gates \ done) <= Cardinality(Gates)
  BY GatesAssumption, FS_Subset
<1>2. Cardinality(Gates) \in Nat /\ Cardinality(Gates \ done) \in Nat
  BY <1>1, FS_CardinalityType
<1>3. ASSUME NEW g \in Gates \ done
      PROVE  /\ Cardinality(Gates \ (done \cup {g})) \in Nat
             /\ Cardinality(Gates \ (done \cup {g})) < Cardinality(Gates \ done)
  <2>1. Gates \ (done \cup {g}) = (Gates \ done) \ {g}
    OBVIOUS
  <2>2. Cardinality((Gates \ done) \ {g}) = Cardinality(Gates \ done) - 1
    BY <1>1, FS_RemoveElement
  <2>3. IsFiniteSet((Gates \ done) \ {g}) /\ Cardinality((Gates \ done) \ {g}) \in Nat
    BY <1>1, FS_Subset, FS_CardinalityType
  <2> QED
    BY <1>2, <2>1, <2>2, <2>3
<1> QED
  BY <1>1, <1>2, <1>3

LEMMA WorkBounded ==
  ASSUME SignerKnown
  PROVE  /\ StepsLeft \in 0..(8 + Cardinality(Gates))
         /\ stage # "idle" => StepsLeft >= 1
<1> DEFINE n == Cardinality(Gates \ passed)
           g == Cardinality(Gates)
<1>1. g \in Nat /\ n \in 0..g
  BY GatesLeft
<1>2. /\ stage \in {"idle", "received", "prepared", "confirm", "sign", "signing",
                    "signed", "persisted", "waiting"}
      /\ StepsLeft = Work(stage, n)
  BY DEF SignerKnown, StepsLeft
<1>3. /\ Work("idle", n) = 0 /\ Work("waiting", n) = 1
      /\ Work("persisted", n) = 2 /\ Work("signed", n) = 3
      /\ Work("signing", n) = 4 + n /\ Work("sign", n) = 5 + g
      /\ Work("confirm", n) = 6 + g /\ Work("prepared", n) = 7 + g
      /\ Work("received", n) = 8 + g
  BY WorkValues
<1> HIDE DEF n, g
<1>4. StepsLeft \in 0..(8 + g) /\ (stage # "idle" => StepsLeft >= 1)
  BY <1>1, <1>2, <1>3
<1> QED
  BY <1>4 DEF g

\* A step of the ceremony, a human's answer or an exception.
LEMMA StepsShrink ==
  ASSUME SignerKnown, OwnStep \/ Raise \/ Confirm \/ Decline
  PROVE  StepsLeft' < StepsLeft
<1> DEFINE n == Cardinality(Gates \ passed)
           m == Cardinality(Gates \ passed')
           g == Cardinality(Gates)
<1>1. g \in Nat /\ n \in 0..g /\ m \in 0..g
  BY GatesLeft
<1>2. StepsLeft = Work(stage, n) /\ StepsLeft' = Work(stage', m)
  BY DEF StepsLeft
<1>3. /\ Work("idle", m) = 0 /\ Work("waiting", m) = 1
      /\ Work("persisted", m) = 2 /\ Work("signed", m) = 3
      /\ Work("signing", m) = 4 + m /\ Work("sign", m) = 5 + g
      /\ Work("confirm", m) = 6 + g /\ Work("prepared", m) = 7 + g
      /\ Work("persisted", n) = 2 /\ Work("signed", n) = 3
      /\ Work("signing", n) = 4 + n /\ Work("sign", n) = 5 + g
      /\ Work("confirm", n) = 6 + g /\ Work("prepared", n) = 7 + g
      /\ Work("received", n) = 8 + g
  BY WorkValues
<1>4. SignerChecks => stage = "signing" /\ stage' = "signing" /\ m < n
  <2> SUFFICES ASSUME SignerChecks PROVE stage = "signing" /\ stage' = "signing" /\ m < n
    OBVIOUS
  <2>1. PICK h \in Gates \ passed : passed' = passed \cup {h}
    BY DEF SignerChecks, Pass
  <2>2. m < n
    BY <2>1, GatesLeft
  <2> QED
    BY <2>2 DEF SignerChecks
<1> HIDE DEF n, m, g
<1>5. CASE stage # "idle" /\ stage' = "idle"
  <2>1. StepsLeft' = 0
    BY <1>2, <1>3, <1>5
  <2>2. StepsLeft \in Int /\ StepsLeft >= 1
    BY <1>1, <1>5, WorkBounded, GatesLeft
  <2> QED
    BY <2>1, <2>2
<1>6. CASE Autofill \/ Preview
  <2>1. \/ stage = "received" /\ stage' = "prepared"
        \/ stage = "prepared" /\ stage' \in {"confirm", "sign"}
    BY <1>6 DEF Autofill, Preview
  <2> QED
    BY <1>1, <1>2, <1>3, <2>1
<1>7. CASE Confirm \/ AskSigner
  <2>1. \/ stage = "confirm" /\ stage' = "sign"
        \/ stage = "sign" /\ stage' = "signing"
    BY <1>7 DEF Confirm, AskSigner
  <2> QED
    BY <1>1, <1>2, <1>3, <2>1
<1>8. CASE SignerChecks
  BY <1>1, <1>2, <1>3, <1>4, <1>8
<1>9. CASE SignerReleases \/ Send
  <2>1. \/ stage = "signing" /\ stage' = "signed"
        \/ stage = "persisted" /\ stage' = "waiting"
    BY <1>9 DEF SignerReleases, Send
  <2> QED
    BY <1>1, <1>2, <1>3, <2>1
<1>10. CASE PersistHash
  <2>1. stage = "signed" /\ (stage' = "persisted" \/ stage' = "idle")
    BY <1>10 DEF PersistHash
  <2> QED
    BY <1>1, <1>2, <1>3, <2>1
<1>11. CASE Raise \/ Decline \/ RefuseAccount \/ WaitExpires \/ ReportResult
  <2>1. stage # "idle" /\ stage' = "idle"
    BY <1>11 DEF Raise, Decline, RefuseAccount, WaitExpires, ReportResult
  <2> QED
    BY <1>5, <2>1
<1> QED
  BY <1>6, <1>7, <1>8, <1>9, <1>10, <1>11 DEF OwnStep

\* No transaction of a ceremony lives longer than autofill lets it.
Lifetimes ==
  \A k \in 1..Len(log) :
    log[k].tx # NoTx => log[k].tx.last_ledger <= ledger + LedgerOffset

\* The ledger never goes back.
LEMMA LedgerForward ==
  ASSUME CeremonyInv, [CeremonyNext]_ceremonyVars
  PROVE  ledger \in Nat /\ ledger' \in Nat /\ ledger <= ledger'
<1>1. ledger \in Nat
  BY DEF CeremonyInv, ClockKnown
<1>2. CASE LedgerCloses
  BY <1>1, <1>2 DEF LedgerCloses
<1>3. CASE ~LedgerCloses
  <2>1. CASE OwnStep \/ Raise \/ Confirm \/ Decline
    BY <1>1, <2>1
    DEF OwnStep, RefuseAccount, Autofill, Preview, AskSigner, SignerChecks, SignerReleases,
        PersistHash, Send, ReportResult, WaitExpires, Raise, Confirm, Decline, AtLedger, ledgerVars
  <2>2. CASE OtherTransaction \/ UNCHANGED ceremonyVars
    BY <1>1, <2>2 DEF OtherTransaction, ceremonyVars, ledgerVars
  <2>3. ASSUME NEW o, NEW t, NEW gate, NEW submit, Begin(o, t, gate, submit)
        PROVE  ledger' = ledger
    BY <2>3 DEF Begin, ledgerVars
  <2>4. ASSUME NEW tx, NEW code, Validate(tx, code) PROVE ledger' = ledger
    BY <2>4 DEF Validate
  <2> QED
    BY <1>1, <1>3, <2>1, <2>2, <2>3, <2>4 DEF CeremonyNext
<1> QED
  BY <1>2, <1>3

\* The transaction of a ceremony changes when it is autofilled, and only then.
LEMMA TxStays ==
  ASSUME CeremonyInv, [CeremonyNext]_ceremonyVars, ~Autofill
  PROVE  \A k \in 1..Len(log') :
           log'[k].tx # NoTx => k \in 1..Len(log) /\ log'[k].tx = log[k].tx
<1>1. PICK S : log \in Seq(S)
  BY DEF CeremonyInv, LogTyped
<1>2. Len(log) \in Nat
  BY <1>1, LenProperties
<1>3. CASE UNCHANGED log
  BY <1>3
<1>4. ASSUME NEW o, NEW t, NEW gate, NEW submit, Begin(o, t, gate, submit)
      PROVE  \A k \in 1..Len(log') :
               log'[k].tx # NoTx => k \in 1..Len(log) /\ log'[k].tx = log[k].tx
  <2> DEFINE r == [order |-> o, known |-> t, gate |-> gate, submit |-> submit,
                   tx |-> NoTx, shown |-> NoTx, answer |-> "none", status |-> "none"]
  <2>1. log' = Append(log, r) /\ r.tx = NoTx
    BY <1>4 DEF Begin
  <2> HIDE DEF r
  <2>2. log \in Seq(S \cup {r}) /\ r \in S \cup {r}
    BY <1>1, SeqMonotonic
  <2>3. /\ Len(log') = Len(log) + 1 /\ log'[Len(log) + 1] = r
        /\ \A k \in 1..Len(log) : log'[k] = log[k]
    BY <2>1, <2>2, AppendProperties
  <2> QED
    BY <1>2, <2>1, <2>3
<1>5. ASSUME stage # "idle", NEW r, r.tx = Tx, log' = [log EXCEPT ![Len(log)] = r]
      PROVE  \A k \in 1..Len(log') :
               log'[k].tx # NoTx => k \in 1..Len(log) /\ log'[k].tx = log[k].tx
  <2> DEFINE n == Len(log)
             T == S \cup {r}
  <2>1. n \in 1..n /\ r \in T /\ log \in Seq(T) /\ DOMAIN log = 1..n
    BY <1>1, <1>2, <1>5, CurrentFields, SeqMonotonic, LenProperties
  <2>2. log[n].tx = r.tx
    BY <1>5 DEF Current, Tx
  <2>3. log' = [log EXCEPT ![n] = r]
    BY <1>5
  <2> HIDE DEF n, T
  <2>4. Len([log EXCEPT ![n] = r]) = Len(log)
    BY <2>1, ExceptSeq
  <2>5. Len(log') = n
    BY <2>3, <2>4 DEF n
  <2>6. \A k \in 1..n : log'[k].tx = log[k].tx
    BY <2>1, <2>2, <2>3
  <2> QED
    BY <2>5, <2>6 DEF n
<1>6. ASSUME stage # "idle"
      PROVE  /\ \A v : [Current EXCEPT !.shown = v].tx = Tx
             /\ \A v : [Current EXCEPT !.answer = v].tx = Tx
             /\ \A v : [Current EXCEPT !.status = v].tx = Tx
             /\ \A v, w : [[Current EXCEPT !.answer = v] EXCEPT !.status = w].tx = Tx
  <2>1. "tx" \in DOMAIN Current
    BY <1>6, CurrentFields DEF Fields
  <2> QED
    BY <2>1 DEF Tx
<1>7. CASE Preview
  <2>1. /\ stage # "idle"
        /\ log' = [log EXCEPT ![Len(log)] = [Current EXCEPT !.shown = RenderPreview(Tx, ledger)]]
    BY <1>7 DEF Preview, Current
  <2> QED
    BY <1>5, <1>6, <2>1
<1>8. CASE Confirm
  <2>1. stage # "idle" /\ log' = [log EXCEPT ![Len(log)] = [Current EXCEPT !.answer = "yes"]]
    BY <1>8 DEF Confirm, Current
  <2> QED
    BY <1>5, <1>6, <2>1
<1>9. CASE Decline
  <2> DEFINE r == [[Current EXCEPT !.answer = "no"] EXCEPT !.status = "aborted_by_human"]
  <2>1. stage # "idle" /\ log' = [log EXCEPT ![Len(log)] = r]
    <3>1. stage # "idle" /\ Len(log) \in DOMAIN log
      BY <1>1, <1>9, CurrentFields, LenProperties DEF Decline
    <3> QED
      BY <1>9, <3>1 DEF Decline, Current
  <2>2. r.tx = Tx
    BY <1>6, <2>1
  <2> HIDE DEF r
  <2> QED
    BY <1>5, <2>1, <2>2
<1>10. CASE PersistHash
  <2>1. CASE Current.submit
    BY <1>3, <1>10, <2>1 DEF PersistHash
  <2>2. CASE ~Current.submit
    <3>1. /\ stage # "idle"
          /\ log' = [log EXCEPT ![Len(log)] = [Current EXCEPT !.status = "signed_not_submitted"]]
      BY <1>10, <2>2 DEF PersistHash, Current
    <3> QED
      BY <1>5, <1>6, <3>1
  <2> QED
    BY <2>1, <2>2
<1>11. CASE ReportResult
  <2>1. PICK l \in landed : log' = [log EXCEPT ![Len(log)].status = l.code]
    BY <1>11 DEF ReportResult
  <2>2. stage # "idle" /\ log' = [log EXCEPT ![Len(log)] = [Current EXCEPT !.status = l.code]]
    BY <1>11, <2>1 DEF ReportResult, Current
  <2> QED
    BY <1>5, <1>6, <2>2
<1>12. CASE RefuseAccount \/ Raise \/ WaitExpires
  BY <1>3, <1>12 DEF RefuseAccount, Raise, WaitExpires, Stay
<1>13. CASE AskSigner \/ SignerChecks \/ SignerReleases \/ Send
  BY <1>3, <1>13 DEF AskSigner, SignerChecks, SignerReleases, Send, Stay
<1>14. CASE OtherTransaction \/ LedgerCloses \/ UNCHANGED ceremonyVars
  BY <1>3, <1>14 DEF OtherTransaction, LedgerCloses, ceremonyVars, callVars
<1>15. ASSUME NEW tx, NEW code, Validate(tx, code)
       PROVE  UNCHANGED log
  BY <1>15 DEF Validate, callVars
<1> QED
  BY <1>3, <1>4, <1>7, <1>8, <1>9, <1>10, <1>11, <1>12, <1>13, <1>14, <1>15
  DEF CeremonyNext, OwnStep

\* The lifetimes are those that autofill gives.
LEMMA LifetimesStep ==
  ASSUME CeremonyInv, CeremonyInv', Lifetimes, [CeremonyNext]_ceremonyVars
  PROVE  Lifetimes'
<1>1. ledger \in Nat /\ ledger' \in Nat /\ ledger <= ledger'
  BY LedgerForward
<1>2. LedgerOffset \in Nat
  BY CeremonyBounds
<1>3. \A k \in 1..Len(log) : log[k].tx # NoTx => log[k].tx.last_ledger \in Nat
  BY DEF CeremonyInv, TxsKnown, Made
<1>4. \A k \in 1..Len(log) :
        log[k].tx # NoTx => log[k].tx.last_ledger <= ledger' + LedgerOffset
  BY <1>1, <1>2, <1>3 DEF Lifetimes
<1>5. CASE ~Autofill
  BY <1>4, <1>5, TxStays DEF Lifetimes, NoTx
<1>6. CASE Autofill
  <2> DEFINE e == IF Current.known # NoTx THEN Current.known
                  ELSE Autofilled(Current.order, sequence, ledger + LedgerOffset)
             r == [Current EXCEPT !.tx = e]
             n == Len(log)
  <2>1. stage = "received" /\ ledger' = ledger /\ log' = [log EXCEPT ![n] = r]
    BY <1>6 DEF Autofill, AtLedger, ledgerVars, Current
  <2>2. e.last_ledger <= ledger' + LedgerOffset
    <3>1. CASE Current.known = NoTx
      <4>1. e.last_ledger = ledger + LedgerOffset
        BY <3>1 DEF Autofilled
      <4> QED
        BY <1>1, <1>2, <2>1, <4>1
    <3>2. CASE Current.known # NoTx
      <4>1. Current.known \in output
        BY <2>1, <3>2 DEF CeremonyInv, CurrentKnown
      <4>2. PICK k \in 1..Len(log) : log[k].tx = Current.known
        BY <4>1 DEF CeremonyInv, TxsKnown
      <4> QED
        BY <1>4, <3>2, <4>2
    <3> QED
      BY <3>1, <3>2
  <2>3. "tx" \in DOMAIN Current /\ n \in 1..n
    BY <2>1, CurrentFields DEF Fields
  <2>4. r.tx = e
    BY <2>3
  <2> HIDE DEF e, r
  <2>5. PICK S : log \in Seq(S)
    BY DEF CeremonyInv, LogTyped
  <2> DEFINE T == S \cup {r}
  <2>6. log \in Seq(T) /\ r \in T /\ DOMAIN log = 1..n
    BY <2>5, SeqMonotonic, LenProperties
  <2> HIDE DEF n, T
  <2>7. Len([log EXCEPT ![n] = r]) = Len(log)
    BY <2>3, <2>6, ExceptSeq
  <2>8. Len(log') = n /\ n = Len(log)
    BY <2>1, <2>7 DEF n
  <2>9. log'[n] = r /\ \A k \in 1..n : k # n => log'[k] = log[k]
    BY <2>1, <2>3, <2>6
  <2>10. \A k \in 1..Len(log') : log'[k].tx # NoTx =>
           log'[k].tx.last_ledger <= ledger' + LedgerOffset
    BY <1>4, <2>2, <2>4, <2>8, <2>9
  <2> QED
    BY <2>10 DEF Lifetimes, NoTx
<1> QED
  BY <1>5, <1>6

\* No ceremony goes on for ever: its steps are limited beforehand, and so are the
\* ledgers that submit_and_wait waits for (run_ceremony, autofill, sign).
THEOREM CeremoniesShrink == CeremonySpec => CeremonyShrinks
<1>1. CeremonyInit => CeremonyInv /\ Lifetimes
  <2> SUFFICES ASSUME CeremonyInit PROVE Lifetimes
    BY CeremonyInvInit
  <2>1. log = <<>>
    BY DEF CeremonyInit
  <2> QED
    BY <2>1 DEF Lifetimes
<1>2. CeremonyInv /\ Lifetimes /\ [CeremonyNext]_ceremonyVars => CeremonyInv' /\ Lifetimes'
  BY CeremonyInvStep, LifetimesStep
<1>3. CeremonyInv => StepsLeft \in 0..(8 + Cardinality(Gates))
  BY WorkBounded DEF CeremonyInv
<1>4. CeremonyInv /\ [CeremonyNext]_ceremonyVars =>
        [stage # "idle" =>
           IF OwnStep \/ Raise \/ Confirm \/ Decline THEN StepsLeft' < StepsLeft
                                                     ELSE StepsLeft' = StepsLeft]_ceremonyVars
  <2> SUFFICES ASSUME CeremonyInv, CeremonyNext, stage # "idle"
               PROVE  IF OwnStep \/ Raise \/ Confirm \/ Decline THEN StepsLeft' < StepsLeft
                                                             ELSE StepsLeft' = StepsLeft
    OBVIOUS
  <2>1. CASE OwnStep \/ Raise \/ Confirm \/ Decline
    BY <2>1, StepsShrink DEF CeremonyInv
  <2>2. CASE ~(OwnStep \/ Raise \/ Confirm \/ Decline)
    <3>1. ASSUME NEW o, NEW t, NEW gate, NEW submit, Begin(o, t, gate, submit) PROVE FALSE
      BY <3>1 DEF Begin
    <3>2. ASSUME NEW tx, NEW code, Validate(tx, code)
          PROVE  stage' = stage /\ passed' = passed
      BY <3>2 DEF Validate, callVars, gatedVars
    <3>3. ASSUME OtherTransaction \/ LedgerCloses
          PROVE  stage' = stage /\ passed' = passed
      BY <3>3 DEF OtherTransaction, LedgerCloses, callVars, gatedVars
    <3>4. stage' = stage /\ passed' = passed
      BY <2>2, <3>1, <3>2, <3>3 DEF CeremonyNext
    <3>5. StepsLeft' = StepsLeft
      BY <3>4 DEF StepsLeft
    <3> QED
      BY <2>2, <3>5
  <2> QED
    BY <2>1, <2>2
<1>5. CeremonyInv /\ Lifetimes => (stage = "waiting" => Tx.last_ledger <= ledger + LedgerOffset)
  <2> SUFFICES ASSUME CeremonyInv, Lifetimes, stage = "waiting"
               PROVE  Tx.last_ledger <= ledger + LedgerOffset
    OBVIOUS
  <2>1. Len(log) \in 1..Len(log)
    BY CurrentFields
  <2>2. Tx # NoTx
    BY DEF CeremonyInv, CurrentKnown, TxsKnown
  <2> QED
    BY <2>1, <2>2 DEF Lifetimes, Tx, Current
<1> QED
  BY <1>1, <1>2, <1>3, <1>4, <1>5, PTL DEF CeremonySpec, CeremonyShrinks
=============================================================================
