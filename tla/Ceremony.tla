------------------------------- MODULE Ceremony -------------------------------
(***************************************************************************)
(* The wallet ceremony (integrations/agent_wallet_ceremony.py): tag,        *)
(* autofill, preview, confirmation, signature, hash, submission.  The       *)
(* signer is any that keeps the promise of GatedSigning.  Calls fail at     *)
(* every step, and the caller, who then knows only the hashes it was given  *)
(* and the ledger, may hold another ceremony for the same order, with the   *)
(* same Sequence or a fresh one.                                            *)
(***************************************************************************)
EXTENDS GatedSigning, Sequences, FiniteSets

CONSTANTS
  Orders,          \* transactions callers pass in: [account, payee, tag]
  SignerAddress,   \* signer.address
  LedgerOffset,    \* how many ledgers an autofilled transaction lives
  Codes,           \* TransactionResults: "tesSUCCESS" and failures
  MaxCeremonies,   \* bound on the ceremonies held
  MaxLedger,       \* bound on the ledgers closed while nobody waits for one
  MaxOthers        \* bound on the account's other transactions

VARIABLES
  stage,      \* where run_ceremony is, "idle" between calls
  log,        \* the ceremonies held, the current one last
  output,     \* transactions whose hash was put out
  inflight,   \* external: transactions that reached a server
  landed,     \* external: validated transactions, [tx, code]
  ledger,     \* external: index of the latest validated ledger
  sequence,   \* external: the account's next Sequence
  others,     \* bound: transactions of the account from elsewhere
  careless    \* history: payees a ceremony was begun for while an earlier
              \* transaction to them could still pay, or had paid

callVars     == <<stage, log, output>>
ledgerVars   == <<inflight, landed, ledger, sequence, others>>
ceremonyVars == <<gatedVars, callVars, ledgerVars, careless>>

NoTx      == [none |-> TRUE]
Current   == log[Len(log)]
Tx        == Current.tx
Stay      == UNCHANGED <<log, output>>
AtLedger  == UNCHANGED <<ledgerVars, careless>>

\* Mutant: a SourceTag of 0 is taken for an absent one.
TagUnlessTruthy(order) ==
  IF order.tag \in {"absent", "zero"} THEN [order EXCEPT !.tag = "starter_kit"]
  ELSE order

ApplyDefaultSourceTag(order) ==
  IF order.tag = "absent" THEN [order EXCEPT !.tag = "starter_kit"] ELSE order

\* autofill sets the fields that are absent: a transaction it makes of an order,
\* with the account's next Sequence and a last ledger.
Autofilled(order, next, last) ==
  LET tagged == ApplyDefaultSourceTag(order)
  IN  [account |-> tagged.account, payee |-> tagged.payee, tag |-> tagged.tag,
       sequence |-> next, last_ledger |-> last]

\* The latest ledger a transaction can be autofilled to live to: nobody waits
\* beyond MaxLedger, but for the last ledger of each ceremony.
LatestLedger ==
  MaxLedger + LedgerOffset + (LedgerOffset + 1) * (MaxCeremonies - 1)

ASSUME CeremonyBounds ==
  /\ LedgerOffset \in Nat /\ MaxLedger \in Nat \ {0}
  /\ MaxCeremonies \in Nat \ {0} /\ MaxOthers \in Nat

\* An order names its account, its payee and its SourceTag, or "absent".
ASSUME OrdersAssumption ==
  \A o \in Orders : DOMAIN o = {"account", "payee", "tag"}

\* The signer can be asked for whatever a ceremony prepares.
ASSUME RequestsAssumption ==
  /\ NoRequest \notin Requests
  /\ \A o \in Orders : o.account = SignerAddress =>
       \A next \in 1..(MaxCeremonies + MaxOthers), last \in 1..LatestLedger :
         Autofilled(o, next, last) \in Requests

\* The signer has finitely many checks.
ASSUME GatesAssumption == IsFiniteSet(Gates)

\* No TransactionResult is one of the ceremony's own statuses.
ASSUME CodesAssumption ==
  Codes \cap {"none", "aborted_by_human", "signed_not_submitted"} = {}

\* What the human reads: every field of the transaction and its remaining life.
RenderPreview(tx, current) ==
  [account |-> tx.account, payee |-> tx.payee, tag |-> tx.tag,
   sequence |-> tx.sequence, last_ledger |-> tx.last_ledger,
   remaining |-> tx.last_ledger - current]

\* On the ledger, or still able to get there.
Landed(tx)      == \E l \in landed : l.tx = tx
Alive(tx)       == ~Landed(tx) /\ ledger <= tx.last_ledger /\ sequence <= tx.sequence
MayPay(tx)      == Alive(tx) \/ [tx |-> tx, code |-> "tesSUCCESS"] \in landed

-----------------------------------------------------------------------------
CeremonyInit ==
  /\ GatedInit
  /\ stage = "idle"
  /\ log = <<>>
  /\ output = {}
  /\ inflight = {}
  /\ landed = {}
  /\ ledger = 1
  /\ sequence = 1
  /\ others = 0
  /\ careless = {}

\* A caller passes in an order, or again a transaction that was autofilled
\* for it before; it may install a confirm callback, and ask for a dry run.
Begin(order, known, gate, submit) ==
  /\ stage = "idle"
  /\ Len(log) < MaxCeremonies
  /\ stage' = "received"
  /\ log' = Append(log,
       [order |-> order, known |-> known, gate |-> gate, submit |-> submit,
        tx |-> NoTx, shown |-> NoTx, answer |-> "none", status |-> "none"])
  /\ careless' = IF \E t \in output : t.payee = order.payee /\ t # known /\ MayPay(t)
                 THEN careless \cup {order.payee} ELSE careless
  /\ UNCHANGED <<gatedVars, output, ledgerVars>>

\* An exception out of any step, or the end of the process: the ceremony is
\* over, and its caller has no result.
Raise ==
  /\ stage # "idle"
  /\ stage' = "idle"
  /\ IF stage = "signing" THEN Drop ELSE UNCHANGED gatedVars
  /\ Stay
  /\ AtLedger

\* Steps 1 and 2: an order of another account, or of none, is a ValueError.
RefuseAccount ==
  /\ stage = "received"
  /\ Current.order.account # SignerAddress
  /\ Raise

\* Step 3, of an order or of a transaction that has all its fields.
Autofill ==
  /\ stage = "received"
  /\ Current.order.account = SignerAddress
  /\ log' = [log EXCEPT ![Len(log)].tx =
       IF Current.known # NoTx THEN Current.known
       ELSE Autofilled(Current.order, sequence, ledger + LedgerOffset)]
  /\ stage' = "prepared"
  /\ UNCHANGED <<gatedVars, output>>
  /\ AtLedger

\* Step 4: the preview goes to on_output, and to confirm when there is one.
Preview ==
  /\ stage = "prepared"
  /\ log' = [log EXCEPT ![Len(log)].shown = RenderPreview(Tx, ledger)]
  /\ stage' = IF Current.gate THEN "confirm" ELSE "sign"
  /\ UNCHANGED <<gatedVars, output>>
  /\ AtLedger

Confirm ==
  /\ stage = "confirm"
  /\ log' = [log EXCEPT ![Len(log)].answer = "yes"]
  /\ stage' = "sign"
  /\ UNCHANGED <<gatedVars, output>>
  /\ AtLedger

Decline ==
  /\ stage = "confirm"
  /\ log' = [log EXCEPT ![Len(log)].answer = "no",
                        ![Len(log)].status = "aborted_by_human"]
  /\ stage' = "idle"
  /\ UNCHANGED <<gatedVars, output>>
  /\ AtLedger

\* Step 5: signer.sign, from the call to its answer; a refusal is a Raise.
AskSigner ==
  /\ stage = "sign"
  /\ Ask(Tx)
  /\ stage' = "signing"
  /\ Stay
  /\ AtLedger

SignerChecks ==
  /\ stage = "signing"
  /\ \E g \in Gates \ passed : Pass(g)
  /\ UNCHANGED stage
  /\ Stay
  /\ AtLedger

SignerReleases ==
  /\ stage = "signing"
  /\ Release
  /\ stage' = "signed"
  /\ Stay
  /\ AtLedger

\* Mutant: the hash is not put out before the submission.
PersistNothing ==
  /\ stage = "signed"
  /\ stage' = IF Current.submit THEN "persisted" ELSE "idle"
  /\ UNCHANGED <<gatedVars, log, output>>
  /\ AtLedger

\* The hash is put out; a dry run ends here.
PersistHash ==
  /\ stage = "signed"
  /\ output' = output \cup {Tx}
  /\ IF Current.submit
     THEN stage' = "persisted" /\ UNCHANGED log
     ELSE /\ stage' = "idle"
          /\ log' = [log EXCEPT ![Len(log)].status = "signed_not_submitted"]
  /\ UNCHANGED gatedVars
  /\ AtLedger

\* Step 6: submit_and_wait sends the blob ...
Send ==
  /\ stage = "persisted"
  /\ inflight' = inflight \cup {Tx}
  /\ stage' = "waiting"
  /\ UNCHANGED <<gatedVars, landed, ledger, sequence, others, careless>>
  /\ Stay

\* Mutant: the preliminary result of the submission is reported.
ReportPreliminary ==
  /\ stage = "waiting"
  /\ log' = [log EXCEPT ![Len(log)].status = "tesSUCCESS"]
  /\ stage' = "idle"
  /\ UNCHANGED <<gatedVars, output>>
  /\ AtLedger

\* ... and answers when it finds it validated ...
ReportResult ==
  /\ stage = "waiting"
  /\ \E l \in landed :
       /\ l.tx = Tx
       /\ log' = [log EXCEPT ![Len(log)].status = l.code]
  /\ stage' = "idle"
  /\ UNCHANGED <<gatedVars, output>>
  /\ AtLedger

\* Mutant: the exception is swallowed, and the wait goes on.
WaitOn ==
  /\ stage = "waiting"
  /\ ledger > Tx.last_ledger
  /\ UNCHANGED ceremonyVars

\* ... or raises when its LastLedgerSequence has passed, whether or not it
\* was validated before.
WaitExpires ==
  /\ stage = "waiting"
  /\ ledger > Tx.last_ledger
  /\ Raise

-----------------------------------------------------------------------------
(* The ledger takes a transaction with the account's next Sequence, up to   *)
(* its last ledger; paid or failed, the Sequence is used up.               *)

Validate(tx, code) ==
  /\ ledger <= tx.last_ledger
  /\ tx.sequence = sequence
  /\ landed' = landed \cup {[tx |-> tx, code |-> code]}
  /\ sequence' = sequence + 1
  /\ UNCHANGED <<gatedVars, callVars, inflight, ledger, others, careless>>

OtherTransaction ==
  /\ others < MaxOthers
  /\ others' = others + 1
  /\ sequence' = sequence + 1
  /\ UNCHANGED <<gatedVars, callVars, inflight, landed, ledger, careless>>

LedgerCloses ==
  /\ \/ ledger < MaxLedger
     \/ stage = "waiting" /\ ledger <= Tx.last_ledger
  /\ ledger' = ledger + 1
  /\ UNCHANGED <<gatedVars, callVars, inflight, landed, sequence, others, careless>>

\* What run_ceremony does by itself; a human's answer is not among it.
OwnStep ==
  \/ RefuseAccount \/ Autofill \/ Preview
  \/ AskSigner \/ SignerChecks \/ SignerReleases \/ PersistHash
  \/ Send \/ ReportResult \/ WaitExpires

CeremonyNext ==
  \/ \E o \in Orders, gate, submit \in BOOLEAN :
       \/ Begin(o, NoTx, gate, submit)
       \/ \E t \in output : /\ t = Autofilled(o, t.sequence, t.last_ledger)
                           /\ Begin(o, t, gate, submit)
  \/ OwnStep \/ Raise
  \/ Confirm \/ Decline
  \/ \E tx \in inflight, code \in Codes : Validate(tx, code)
  \/ OtherTransaction
  \/ LedgerCloses

CeremonySpec == CeremonyInit /\ [][CeremonyNext]_ceremonyVars

FairCeremonySpec ==
  CeremonySpec /\ WF_ceremonyVars(OwnStep) /\ WF_ceremonyVars(LedgerCloses)

-----------------------------------------------------------------------------
\* Type invariant.
CeremonyTypeOK ==
  /\ stage \in {"idle", "received", "prepared", "confirm", "sign", "signing",
                "signed", "persisted", "waiting"}
  /\ Len(log) <= MaxCeremonies
  /\ output \subseteq Requests /\ inflight \subseteq output
  /\ landed \in SUBSET [tx : inflight, code : Codes]
  /\ (request # NoRequest) <=> (stage = "signing")
  /\ stage = "signing" => request = Tx
  /\ \A k \in 1..Len(log) : log[k].tx \in Requests \cup {NoTx}

\* What lands is what was asked for and seen (run_ceremony, steps 1 to 5):
\* some ceremony that was no dry run showed every field of it, was confirmed
\* if a human was to be asked, had it signed, and was asked for just that
\* payment, with the caller's own SourceTag if there was one, 0 included.
LandsAsConfirmed ==
  \A l \in landed : \E k \in 1..Len(log) :
    LET c == log[k]
    IN  /\ c.submit /\ (c.gate => c.answer = "yes")
        /\ c.shown # NoTx
        /\ \A f \in DOMAIN l.tx : c.shown[f] = l.tx[f]
        /\ c.order.account = l.tx.account /\ c.order.payee = l.tx.payee
        /\ c.order.tag # "absent" => c.order.tag = l.tx.tag
        /\ released[l.tx] > 0

\* The hash is put out before the submission (run_ceremony, step 5) so that
\* a caller who lost the answer can find out: one that holds no further
\* ceremony while a transaction it has a hash of may still pay, other than
\* with that very transaction, pays once, whatever failed where.
PaidOnce ==
  \A o \in Orders :
    o.payee \notin careless =>
      Cardinality({l \in landed : l.tx.payee = o.payee /\ l.code = "tesSUCCESS"}) <= 1

\* A TransactionResult that run_ceremony returns is that of the validated
\* transaction with the hash it returns.
ResultIsFinal ==
  \A k \in 1..Len(log) :
    log[k].status \in Codes => [tx |-> log[k].tx, code |-> log[k].status] \in landed

\* A ceremony ends, or waits for a human (run_ceremony, steps 4 and 6): the
\* wait for the ledger ends because every transaction has a last ledger.
CeremonyEnds ==
  stage \notin {"idle", "confirm"} ~> stage \in {"idle", "confirm"}
=============================================================================
