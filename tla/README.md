# QuorumVault in TLA+

QuorumVault guards a treasury account of the XRP Ledger. Agents propose
payments; an Auditor evaluates each against a policy; a quorum of keys signs
what the policy lets through, and the quorum is the only way to move the
treasury's funds. This directory holds the TLA+ specifications of that code,
the TLC runs that check them, and TLAPS proofs about the parts that matter most.

Paths below are relative to `src/quorumvault/`, but for `legacy/` and the demos, which
are beside it in `src/`.

## 1. The system

### Components

| Component | Code | State | Operations | Model |
|---|---|---|---|---|
| Risk engine | `policy/risk_engine.py` | velocity log, circuit breaker and its reasons, audit log | `evaluate`, `reset_circuit_breaker` | `RiskEngine` |
| Pricing, price feed | `policy/pricing.py`, `integrations/price_feed.py` | none; a rate with its time | `to_rlusd`, `fetch_xrp_usd_rate` | `Policy`, `PriceMoves` |
| RWA rule, intents | `policy/rwa_rule.py`, `policy/intent.py` | none | `evaluate` | `Policy` |
| Tier router | `tiers/router.py` | none | `route` | `Policy` |
| External signer | `integrations/external_signer.py` | `last_decision` | `sign` | `ExternalSigner` |
| Treasury guard | `policy/treasury_guard.py` | none; reads the ledger | `verify` | `TreasuryGuard` |
| Agent identity | `policy/agent_identity.py` | none between calls; pages through the ledger | `verify` | `AgentIdentity` |
| Compliance reader | `policy/ledger_reader.py` | none between calls; several ledger reads | `resolve` | `ComplianceReader` |
| x402 signer | `integrations/x402_signer.py` | `last_decision`, `last_blob`, `last_hash` | `create_payment_header` | `X402Signer` |
| Fast path | `tiers/fast_path.py` | deque of approval times | `evaluate`, `build_expiring_payment` | `FastPath` |
| Channel custody | `tiers/channel_custody.py` | one `ChannelState` per channel, in memory | `open_channel`, `authorize_payment`, `build_claim` | `ChannelCustody` |
| Quorum signer, backends | `signing/quorum_signer.py`, `backend.py`, `local_keystore.py` | none; keys | `multisign`, `sign` | `SignerBackends`, steps of the signers |
| Keystore, migration | `signing/keystore.py`, `tools/migrate_keystore.py` | files | `save`, `load`, `main` | `KeystoreMigration`, `Provisioning` |
| Override blueprint | `legacy/xrpl_auditor_production_blueprint.py` | an engine, tokens | `review_and_cosign`, `network_broadcast`, `reset_circuit_breaker` | `HumanOverride` |
| Alert sinks | `integrations/alerts.py` | none | `notify` | a part of `ExternalSigner` |
| Wallet ceremony | `integrations/agent_wallet_ceremony.py` | none | `run_ceremony` | `Ceremony` |
| KMS backends | `signing/kms_backend.py` | none; a key elsewhere | `sign` | `SignerBackends` |
| Configuration | `config.py` | none | `load_settings` | `Settings` |
| Setup scripts | `testnet_multisig_demo.py` and its v2, `agent_wallet_skill_demo.py`, `mpt_rwa_demo.py`, `credential_domain_rwa_demo.py` | state files, checkpoints, keystores, the ledger | phases of `main` | `Provisioning` |

### How they interact

`ExternalSigner.sign` and `X402Signer.create_payment_header` are two front doors
onto the same `RiskEngine`. Each turns what it was given into an intent, asks
the `TierRouter` for a tier, has the engine evaluate the intent, and, when the
verdict is GREEN, has the `QuorumSigner` sign with every backend. The external
signer also asks the `TreasuryGuard` and the `AgentIdentityVerifier` between
the verdict and the signature, resolves the compliance context of an MPT
transfer before the verdict, and tells an alert sink of every refusal. The
x402 signer does not submit: a facilitator does, later or never. The wallet ceremony
takes a transaction from an order to the ledger around a signer: autofill, preview, a
human's confirmation, `sign`, submission. The fast path
and the channel lane are called by the application for the tiers the router
names.

A treasury comes to be by one of the setup scripts: it funds accounts, gives the
treasury its signer list, disables its master key and makes a first payment, saving
after each phase so that it can be run again. The signers' seeds end up in an encrypted keystore,
directly or by the migration tool, which shreds the plaintext it came from. v2 then
signs with that keystore and with the settings of an operator's file. Calls are synchronous, and the code has no threads of its own; what runs
concurrently is the world: the ledger, the price, the clock, the operator.

### What is hard, and what makes each part correct

- *Risk engine.* Timestamps come from the intents, not from the engine, and the
  log is pruned from its head only; refusals, retries, price moves and resets
  interleave. Correct: nothing inside the window is forgotten, no transfer
  passes more often than the limit, a freeze lasts exactly until its reset.
- *External signer.* Up to six waits for the network in one call, seven places to
  refuse, exceptions that are not refusals. Correct: what stands behind a
  signature was read in that very call; a refusal is told once and truly.
- *Agent identity, compliance reader.* One answer from many reads of a ledger
  that changes between them. Correct: the answer rests on facts of the call, and
  misses none that held throughout it. A credential type is bytes on the ledger and text in the program.
- *x402 signer.* A header given away may settle late, and quotations are retried.
  Correct: what settles stays within the velocity limit, and as judged.
- *Ceremony.* Failures between signature, hash and submission, lost answers, retries.
  Correct: what lands is what was seen, and a caller that heeds its hashes pays once.
- *Fast path.* Timestamps of the intents, a log pruned from its head, a value that moves with the price. Correct: the
  limit holds and escalates only what it must.
- *Channel custody.* Claims live off the ledger, the authorized amount in memory.
  Correct: a payee never redeems more than the audited capacity.
- *Backends.* Keys held elsewhere, declared by hand, answering with either of two
  signatures. Correct: what is released is signed in full, by keys the ledger accepts.
- *Setup and migration.* Scripts that are killed anywhere and run again, files that are
  emptied before they are written, a ledger that cannot be undone. Correct: no seed is
  lost, nobody is locked out, the state files tell the truth, reruns get through.
- *Configuration.* JSON's numbers are not Python's. Correct: what loads, works.
- *Override blueprint.* Signatures and tokens that never expire, transactions reviewed again. Correct: each is good for
  the one thing the engine cleared, or a human saw.

## 2. The modules

`Policy` holds the pure rules. `RiskEngine` extends it with the engine's state.
`ExternalSigner` (with `TreasuryGuard`), `X402Signer` and `HumanOverride` extend
`RiskEngine`: their actions contain the engine's own `Evaluate` and
`ResetCircuitBreaker`, so the engine has one definition. `FastPath` and
`ComplianceReader` extend `Policy`. `X402Signer` also extends `SignerBackends`, and
`Provisioning` extends `KeystoreMigration` and `Settings`: it composes the scripts, the
tool and the settings file of one deployment. `AgentIdentity` and `ChannelCustody`
stand alone. `GatedSigning` is the abstract specification
that `ExternalSigner` implements, and all that `Ceremony` knows of its signer: it
extends `GatedSigning`, and each step of `sign` is one of its actions. Each `MC` module gives the constants of one
component small values. The proofs are in `RiskEngineProofs`, `ExternalSignerProofs`,
`AgentIdentityProofs`, `ComplianceReaderProofs`, `X402Proofs`, `ProvisioningProofs`, `TierProofs` (channel
custody and the fast path) and `HumanGateProofs` (the override path and the ceremony).

State keeps the names of the code (`recent_tx_log`, `trip_reasons`,
`last_decision`, `authorized`). Variables marked *history* record the past for a
property, those marked *bound* cap the state space, those marked *external*
belong to the ledger or the world. Operators commented *Mutant* are faulty
versions of the definition that follows them; no specification uses them, and
`PROJECT.json` says which property must notice which.

What each action stands for:

- `RiskEngine`. `Evaluate` is the whole of `evaluate()`: valuation, prune, match,
  append, rules, severity, freeze, trip and audit entry, in one step, because it
  is synchronous and changes nothing before its only outside call, the price.
  When that raises `StaleRateError` nothing has changed. The intent's timestamp
  is any second from `clock - ClockSkew` to `clock`.
- `ExternalSigner`. `call.stage` is the place in `sign()`: each network read ends
  a step. `Refuse` is `_alert_refusal` and the `raise`; `Raise` is every exception that
  is not an `ExternalSignerRefused`. `wiring` says which optional dependencies
  were injected. `GovernanceChange`, `CredentialChange`, `TimePasses`, `PriceChange`
  and `HumanReset` may come between any two steps. The identity check of one subject is a single read
  here, and what makes it up is `AgentIdentity`; likewise a compliance context is any
  context of `Payments`, and what makes one up is `ComplianceReader`.
- `AgentIdentity`. `ReadPage` is one round of the loop in `_fetch_credentials`; the
  server scans `PageSize` objects of the directory and answers with the
  credentials among them, so that a page may be empty. A marker whose object was
  deleted makes the request fail.
- `ComplianceReader`. One action per `ledger_entry` request, in the code's order,
  with the short circuit of `any()`. A credential is an issuer and a type, and has the spelling of the program, a text, and that
  of the ledger, bytes. `Encoded` is `_credential_type_to_hex`; `CredentialTypeFromHex` undoes it, but for the types that
  are no UTF-8 (`Blobs`), which become the text of their hex digits (`Spelled`). `ReadDomain` takes the domain's list from the ledger's
  spelling to the program's, and `HoldsCredential` asks in the ledger's again.
- `X402Signer`. The stages of `create_payment_header`; `BuildPayment` reads the
  validated ledger, `Autofill` the Sequence, `BackendSigns` is one backend of the
  quorum, `Settle` the ledger's acceptance. `ReturnHeader` may raise once the payment is on `last_blob`: it counts as given away. `OtherRail` is a whole call of the external signer on
  the same engine, and `Restart` the end and new start of the process, also in a call.
- `SignerBackends`. `Builds` is what a constructor accepts, `Answers` what the holder of
  the key may answer, `Signs` and `Signature` what `sign` makes of it. A signature is its account, key and
  value, so that one by the wrong key, or a high `s`, shows.
- `Ceremony`. One action per step of `run_ceremony`. `Raise` is every exception and the end
  of the process, at any step; `Begin` is a caller with a new order, or with one it has
  tried before, afresh or with the transaction that was autofilled for that very order then. `Validate`,
  `OtherTransaction` and `LedgerCloses` are the ledger. `submit_and_wait` is xrpl-py's: it
  answers with a validated result, or raises, at the latest when the last ledger of the
  transaction has passed.
- `FastPath`. `Evaluate` is the whole of `evaluate()`. `build_expiring_payment` is no action: it neither reads nor changes
  the object's state and takes any intent and index, approved or not.
- `ChannelCustody`. `Restart` drops every `ChannelState` and makes one again for
  each channel on the ledger, with `authorized_drops` at 0, as a caller must.
- `KeystoreMigration`. The steps of `main()`, with `save()` as open, write and
  rename, and `secure_shred` pass by pass; `Crash` is possible at every one.
- `Provisioning`. Each script is a sequence of steps (`MultisigDemo`, `AgentWalletDemo`,
  `MptRwaDemo`, `CredentialDemo`) that says what is submitted, about whom, and what makes a rerun pass it over;
  the actions carry them out. `SubmitLands`, `SubmitFails` and `SubmitBounces` are the answers of
  `submit_and_wait`; `SaveOpen` and `SaveDump` are the two halves of `save_state`. `Kill` is the end of
  the process or an exception, at any step; `RemoveTorn` an operator who deletes a file that no longer parses.
  `RunV2` is the start of `testnet_multisig_demo_v2.py`: settings, then keystore.
- `Settings`. A value of the file is its JSON type, the kind of number it denotes, and that number;
  `LoadError` has the checks of `load_settings` in their order.
- `HumanOverride`. An HMAC is what it was computed over. `ReviewAndCosign` takes any transaction any number of times, each
  time with a verdict of its own; a Signature_2 once given stays valid. `NetworkBroadcast` takes any transaction, reviewed or not, with
  whichever of its signatures and tokens the caller presents: one with a Signature_2 can also go out by override, if it is left out.
  The engine is at one constant rate and a transaction's timestamp is whatever its maker wrote.

## 3. The runs

| Run | What it shows |
|---|---|
| `risk_engine` | `RecentLogComplete`: the log is the latest part of the audit log, what it dropped is out of the window. `VelocityBound`: no verdict but RED beyond the limit. `FreezeEpisode`: tripped exactly from the first RED to the reset. |
| `external_signer` | `ReleasedOnLiveReads`: a signature stands on a GREEN verdict, a safe account and valid credentials, each of that call. `AlertFidelity`: one alert per refusal, of that call. `ReleaseVelocity`: velocity of the signatures. `NoReleaseWhileFrozen`. `ImplementsGatedSigning`: refinement of `GatedSigning`. `CallEnds`. |
| `external_signer_stale_rate` | Finding 1. |
| `ceremony` | `LandsAsConfirmed`: what lands was shown, confirmed and signed. `PaidOnce`: retries pay once if the caller waits on the hashes it has. `ResultIsFinal`. `CeremonyEnds`. |
| `agent_identity` | `AcceptSound` and `DecidedOnAll`: accepted only on a credential that was valid, refused only after all that stayed put was seen. `VerificationEnds`. |
| `compliance_reader` | `CompliantOnLiveFacts`, `SteadyFactsRecognised`: the same two for compliance contexts; the first excepts a membership mistaken for its spelling (`MistakenMember`), the second is about text types. |
| `compliance_fallback` | Finding 2. |
| `x402_signer` | `HeaderPaysAsJudged`: one GREEN verdict per header, of that transfer, stated in its memo. `DepartureVelocity`: what leaves by both rails stays within the limit of one process, and a header settles once and in time. `SignaturesStand`: a header is signed in full, and the ledger takes its signatures. `FreezeStopsBothRails`. |
| `fast_path` | `FastPathVelocity`: approvals within the limit, escalations only when it was reached. |
| `channel_custody` | `ExposureBounded`: nothing redeemable beyond the capacity, nor the capacity beyond the cap, restarts included. `ClaimsGrow`. |
| `provisioning` | `SignerSeedsSurvive`, `FilesStayWhole`: through the migration, killed anywhere. `NeverLockedOut`: a disabled master key has a signer list whose seeds can be read. `CheckpointTruth`: no state file claims what the ledger does not show. `ConfiguredSafely`: v2 works with sound settings and the right keys. `SetupCompletes`: the resumable scripts get through. |
| `human_override` | `BroadcastAuthorized`: with two signatures, an earlier GREEN verdict on that very transaction, which is harmless; by override, a token over it. `ResetBoundToEpisode`: a freeze is lifted by a token of that freeze. |

The runs of the engine, the external and the x402 signer, the ceremony, the identity verifier and
the setup also check the type invariant of their module.

### Bounds, and why they are enough

- `risk_engine`: four audits, a limit of 2 and a window of 2 s with a clock up to
  3 s and a skew of 1 s: three attempts reach the limit, one more lies beyond it,
  and an entry can be inside the window, at its edge and past it, in and out of
  order. The XRP payment is worth 2 or 6 around the threshold of 4; a stranger
  trips the breaker; the MPT transfer is YELLOW for its clawback.
- `external_signer`: two calls (`MaxAudits = 2`), with a limit of 1, make a
  signature, a repetition and a reset between them; one governance or credential
  change at any point of them, over six configurations of the account, and three
  contexts of an MPT transfer (GREEN, YELLOW and RED); both
  subjects and both backends of a 2-of-2. Wirings are all or nothing: the checks
  act independently of one another. The price stays or goes stale.
- `ceremony`: two ceremonies, the second a retry or another order; a lifetime of one ledger;
  two ledgers, and as many more as a submission waits for; one transaction from elsewhere.
  Deadlock is off: when the ceremonies and ledgers are used up nothing is left to do.
- `agent_identity`: three directory places, one to a page, two pages allowed, so
  that the limit is reached; two changes; credentials with every defect.
- `compliance_reader`: one required credential, two text types and one that is no UTF-8, whose hex digits are one of the two;
  three domain lists, of a type of each kind and of both; two ledger changes and one tick, at which credentials expire.
- `x402_signer`: three verdicts shared by both rails with a limit of 1, a window and a clock that one tick leaves;
  two ledgers, headers valid for one ledger more; one restart; a price that is usable or 0. A curve of order 3
  has one `s` at its half and one above; a message of 2 is beyond `RawLimit`. One quorum
  has all three kinds of backend, one a key that was declared wrongly, three do not get past a constructor.
- `fast_path`: five decisions with a limit of 2, a window of 2 s with a clock up to 4 s and a skew of 1 s; a cap that a price
  move crosses.
- `channel_custody`: two channels, two keys, amounts below, at and above the cap
  of 2, three claims, one restart. Channels and keys are symmetric: nothing orders
  or chooses them.
- `provisioning`: four runs, of a script or of the tool with any options, every one of which but the last may be
  killed, over complete, partial and wrong checkpoints; two shredding passes. Three runs
  bring every script from any half-done state to its end, and one more comes after. The settings files differ from a good one in one
  field, over every JSON type and every kind of number, or by a key too many or too few.
  Deadlock is off: when the runs are used up nothing is left to do.
- `human_override`: five transactions, two of them alike but for their `tx_id`, one but for its timestamp, one above the threshold
  and one to a stranger; two tokens, three audits, so that one may be reviewed RED, then GREEN after a reset, and then not presented.
  Deadlock is off: tokens and audits do run out.

### Fairness

Only the liveness properties need any. `ProvisionSpec` is weakly fair in starting the script of
the deployment and in its steps: it is run again until it is through, as its docstrings ask, and its requests are answered.
`FairSignerSpec`, `FairIdentitySpec` and `FairCeremonySpec`
are weakly fair in the steps of a call in progress: calls are synchronous and
every request has a timeout of its client, so that some step of the call, be it a
failure, happens. `FairCeremonySpec` assumes besides that ledgers keep closing, as the XRP Ledger's
do every few seconds, since `submit_and_wait` waits for them without a timeout; not that the
human answers. Nothing else is assumed of the agent, the ledger, the clock, the
price or the operator. `CallEnds` and `VerificationEnds` hold because every stage
is followed by a later one, and pages are limited; `CeremonyEnds` because autofill sets a
`LastLedgerSequence`.

### Assumptions taken from the environment

`ClockSkew` is how old an intent may be when evaluated. The code stamps an intent
with `time.time()` when it is complete; between that and the evaluation lie at
most two price reads of five seconds' timeout (`price_feed.py:58`). The velocity
properties say what this costs: a window shorter by `ClockSkew`, and no more.

One process, and one thread in it, serves both rails, and one setup script or tool runs at a
time: nothing in the code coordinates several.

The constants are constrained by named `ASSUME`s, which the proofs cite and TLC evaluates in every run.
Those that only give a bound or a parameter its number set are left out here.

| Assumption | What it says, and why it holds |
|---|---|
| `CeilingAssumption` (`Policy`) | `0 < ChannelCeiling < FastPathCeiling`: `TierRouter.__init__` refuses anything else. |
| `PaymentAssumption`, `TxAssumption`, `TxShapeAssumption` | An amount is a number; a transaction is a dict of the five fields that `sign` reads, and the context of an MPT transfer is given to MPT transfers only. |
| `EncodingAssumption` | UTF-8 encodes two texts differently, and the bytes that are no UTF-8 encode none; their hex digits are a text. |
| `TransactionsAssumption`, `ConstantRateAssumption` | The blueprint's transfers have no RWA context, and its one rate is positive (`XRP_TO_RLUSD_RATE`). |
| `OrderAssumption`, `ListsAssumption`, `QuorumAssumption` | Backends, subjects, required credentials and what a domain accepts are finite sequences, the last two of the program's and of the ledger's credentials; a quorum is not empty (`QuorumSigner.__init__`). |
| `WeightAssumption` | Quorums and weights of a signer list are unsigned, as the ledger's fields are. |
| `ObjectsAssumption`, `IssuancesAssumption` | An `Expiration` is a UInt32; the flags of an issuance are bits. |
| `QuotationAssumption` | What a quotation asks is one of the transfers that can be proposed. |
| `CurveAssumption` | The order of the curve is odd, as secp256k1's is. |
| `OrdersAssumption`, `RequestsAssumption`, `CodesAssumption` | An order has an account, a payee and a tag; the signer can be asked for whatever a ceremony prepares; no result of the ledger is spelled like a status of the ceremony. |
| `CheckpointAssumption`, `SeedsAssumption` | A checkpoint is a dictionary: one seed for an alias, made before any run of the scripts. |
| `ScriptsAssumption` | The scripts are the four that are modelled. |
| `GatesAssumption` | The signer that a ceremony asks makes finitely many checks, as `sign()` does. |

## 4. Findings

1. *A stale price is not a refusal* (`external_signer_stale_rate`). `PriceFeedError`
   (`price_feed.py:71`) says "the risk engine / tier router already catch
   `StaleRateError`", and `sign()` (`external_signer.py:207`) that it raises
   `ExternalSignerRefused` on "an un-valuable transaction". Neither the engine nor
   the router nor `sign()` catches it: the caller gets a `StaleRateError`, nothing is
   signed, and no alert is sent. The trace is two steps long: a quote of rate 0, a call.
2. *The fallback for a credential type that is no text is not safe* (`compliance_fallback`). `_credential_type_from_hex`
   (`policy/ledger_reader.py:99`) leaves such a type as its hex digits and says that this "simply will not equality-match a plain-string
   requirement, which is the safe failure mode (treated as a different/unknown credential)". But a membership is not decided by an
   equality: `_holds_credential` (`ledger_reader.py:312`) encodes the digits again and asks the ledger for that credential. In the trace,
   the domain accepts the type `FF` only, the destination holds the one whose type is the two letters "FF", and is
   found inside the domain. The other way round, a holder of the accepted credential is always found outside.

The following were read in the code, and no run is spent on them:

- The docstring of `create_payment_header` (`x402_signer.py:213`) says "the refusal reason is recorded on `last_decision`". Refusals
  before the evaluation leave it as it was, those for unreadable tags leave it GREEN; `X402Signer` has both.
- The module docstring of `tiers/fast_path.py` (line 6) says that a co-signed approval "cannot be replayed and land later". The expiry of a payment
  counts from the index given when it is built (line 100); the approval's own `last_ledger_sequence` (line 82) is used by nothing, and
  `build_expiring_payment` asks for no approval.
- `ConfigError` and `load_settings` (`config.py:82`, `243`) say that a file that is unreadable, malformed or has an invalid field raises `ConfigError`.
  Bytes that are no UTF-8 raise `UnicodeDecodeError`, and an integer too large for a float `OverflowError`. Unsound settings are never returned.
- `credential_domain_rwa_demo.py` says that it is "Resumable via a state file" (line 12). Killed between a `CredentialCreate` or a
  `CredentialAccept` and its save, it submits it again, is refused and stops, at every rerun.
- A price of `NaN` leaves `fetch_xrp_usd_rate` (`integrations/price_feed.py`) as `decimal.InvalidOperation`, raised by the comparison with
  zero outside its `try`, where its docstring says that every failure is a `PriceFeedError`; and a price of `Infinity` passes as a positive
  rate, with which every XRP payment exceeds the threshold. Nothing is signed on either.
- The warning of an override broadcast says that Signature_2 "was withheld" (`legacy/xrpl_auditor_production_blueprint.py:356`). It says so as
  well of a transaction that was cosigned and presented without it.

### Behaviours the models bring up that contradict nothing written

They are allowed for in the properties, which say so in their comments.

- The velocity log and the freeze live in memory. A restart forgets both (`DepartureVelocity` counts per
  process life).
- The engine counts an x402 payment under the asset name of the quotation, so two names of one asset have two budgets.
- A public key of KMS that was declared wrongly is found by no constructor and no signature check
  (`SignaturesStand` excepts it): every header it cosigns is refused by the ledger.
- A kill between the two halves of `save_state` leaves a state file that no rerun can parse; the "resumable" scripts
  stop there until it is removed (`SetupCompletes` excepts it).
- Without its wallets file, but with its state, the first script passes over steps that were done for other
  accounts (`CheckpointTruth` is about some accounts there). Killed between disabling the master key and saving that, it is
  refused by the ledger ever after.
- `mpt_rwa_demo.py` adopts a keystore it finds (`mpt_rwa_demo.py:140`), also one of earlier accounts.
  The agent wallet script replaces it. A migration onto the keystore of another treasury drops that
  treasury's signers (`NeverLockedOut` names both).
- A payment that was validated but not saved is made again by a rerun of the scripts.
- A transaction of the override path that was reviewed RED may be reviewed again after a reset, and is then judged anew; neither the freeze nor
  a later verdict takes a Signature_2 back (`BroadcastAuthorized` asks for some earlier GREEN verdict).

## 5. The proofs

Everything here holds for all values of the constants that satisfy the named assumptions of the
modules, and is checked by TLAPS without any fact taken on trust. Every safety and every action property
that a passing run checks, and the refinement, is stated by a theorem. Each proof has the same plan: an inductive
invariant that TLC was asked about first, that it holds initially, one lemma per action or kind of action that it is kept, and
that it implies the property. What follows says which invariant, and why the property needs it.

`RiskEngineProofs`, of `RiskSpec`:

- `TypeCorrect`: `[]TypeOK`. `TypeOK` is inductive.
- `LogComplete`: `[]RecentLogComplete`, inductive together with `TypeOK`. The
  step that matters is `Evaluate`: `Prune` returns a suffix of the log, all that
  it cuts off is expired at the intent's timestamp and so at the clock, which is
  not before it; and what was expired stays expired as the clock only grows. The lemma about that step
  (`EvaluateKeepsLog`) allows for entries that were forgotten otherwise, so that `X402Proofs`, where processes
  restart, can use it too.
- `VelocityBounded`: `[]VelocityBound`, from the two above. A new verdict that is
  not RED counted its matches in the pruned log; every earlier attempt within
  `FrequencyWindow - ClockSkew` of it is in that log, because whatever was
  dropped, earlier or now, is older than the window at a clock that is at most
  `ClockSkew` ahead of the timestamp. So the repeats of the verdict inject into
  the matches, plus itself. `RecentLogComplete` is thus the strengthening that
  `VelocityBound` needs: by itself it says nothing of the log.
- `FreezeHolds`: `[]FreezeEpisode`, inductive with `TypeOK`.

`ExternalSignerProofs`, of `SignerSpec`. `SignerRunsEngine` shows that the signer implements `RiskSpec`, so that the
theorems above are about its engine. The invariant follows a call. A check that passed leaves two traces, the stage it
led to and what the history saw since the call began; the invariant ties the two together, element by element for the
queues of subjects and backends. From the verdict on, that verdict is the latest in the audit log, GREEN, of the
transfer asked for, and used by no signature.

- `SignerTypeCorrect`: `[]SignerTypeOK`.
- `SignaturesOnLiveReads`: `[]ReleasedOnLiveReads`. The lemma about the guard, `AcceptedIsIntact`, shows that what it accepts
  is a treasury that no key but the quorum's can move.
- `AlertsFaithful`: `[]AlertFidelity`.
- `FrozenReleasesNothing`: `NoReleaseWhileFrozen`, an action property. A GREEN verdict leaves the breaker untripped, and within the
  call nothing can trip it.
- `ReleasesBounded`: `[]ReleaseVelocity`. The verdicts of the signatures are distinct, so that the equal transfers
  signed in a window inject into the repeats that `VelocityBound` limits.
- `ImplementsGates`: `ImplementsGatedSigning`, one lemma per kind of step: the checks map to `Pass` or to a stutter, a signature to
  `Release`. The count of signatures per transaction is a cardinality, and grows by one in one place.
- `CallsShrink`: `CallShrinks`, the safe half of `CallEnds`. `StepsLeft` is computed from the stage and from what the queue in hand still
  holds; each step of the call lessens it, whatever it meets, and neither the ledger, the price, the clock nor the breaker changes it.
  The invariant gives the length of the queue.

`AgentIdentityProofs`, of `IdentitySpec`:

- `IdentityTypeCorrect`, `AcceptanceSound`: `[]IdentityTypeOK`, `[]AcceptSound`. The
  clock only grows, so a credential of a page that has not expired when it is judged was valid when the page was read.
- `DecisionsOnAll`: `DecidedOnAll`, an action property. The invariant is about the marker: of the credentials that stayed
  put, those behind it are found. That a page covers all up to the next marker (`PageCovers`) needs that a least
  remaining place exists, hence the induction theorems of the library.
- `VerificationsShrink`: `VerificationShrinks`, the safe half of `VerificationEnds`: the page limit alone makes the loop end.

`ComplianceReaderProofs`, of `ReaderSpec`. At every step of a call, what held throughout holds now, and what holds now was seen
(`steady \subseteq FactsNow \subseteq seen`). So each read leaves behind that what it found is in `seen` and what it missed is
not in `steady`, and later changes of the ledger, which only shrink the one and grow the other, cannot undo that.

- `CompliantSound`: `[]CompliantOnLiveFacts`. `SteadyRecognised`: `[]SteadyFactsRecognised`. The list of a domain is followed in the
  program's spelling: whatever is still to ask spells a type that the domain accepted, and no text type that it accepted throughout and
  that was held throughout has been passed over. `FromHexToHex` says that respelling a text type twice gives it back, `FromHexSpells` what
  becomes of the others; between them they give the one exception of the first theorem and the limit of the second.

`X402Proofs`, of `X402Spec`. The invariant follows a call. From the verdict to the header it is the latest in the
audit log, is GREEN, is that of the quotation, and the breaker is untripped: the other rail and the operator
may intervene, but evaluations do not overlap and a reset does not trip. A second one, `Traced`, follows what was given away
to the ledger and back to the verdicts it stands on.

- `PaysAsJudged`: `[]HeaderPaysAsJudged`.
- `SignaturesHold`: `[]SignaturesStand`, with the invariant that when `k` backends are done the signatures are those of
  the first `k`. `LowSCanonical` is the lemma about `_canonical_der`: for an odd order it returns a canonical `s`.
- `RailsFreeze`: `FreezeStopsBothRails`, an action property, from the same invariant.
- `X402TypeCorrect`: `[]X402TypeOK`. That the account's Sequence stays within what settled and what the other rail sent is the
  part that is not plain, and needs that each settled header has taken its own.
- `DeparturesLimited`: `[]DepartureVelocity`. The engine's log is complete but for what restarts forgot, so each verdict is
  within the limit of what its process remembered (`LifeVelocity`); the departures of a window of one process inject into what
  the last of their verdicts remembered.

`TierProofs`. Of `LaneSpec`:

- `ExposureHolds`: `[]ExposureBounded`. The capacity is kept in the open that was signed, on the ledger and in
  the `ChannelState`; the invariant says that the three agree, over restarts as well, and that a claim is signed only over a
  channel that exists. Without the first a restart could bring back another capacity, without the second a claim
  could come before its channel.
- `ClaimsOnlyGrow`: `[]ClaimsGrow`. Within one session no claim is above what the `ChannelState` has authorized.

Of `FastSpec`:

- `FastPathLimitHolds`: `[]FastPathVelocity`. The deque holds timestamps only. The invariant is that some map assigns to its entries
  distinct approvals with their timestamps, such that an approval without an entry is older than the window, and that the entries
  are in order up to `ClockSkew`. An approval is then within the limit because what is fresh has an entry, and an escalation is
  needed because what has an entry was approved.

`HumanGateProofs`. Of `OverrideSpec`, whose engine is well typed with a sound freeze by the lemmas of `RiskEngineProofs` about
its steps (`OverrideEngineSound`):

- `BroadcastHolds`: `[]BroadcastAuthorized`. The strengthening keeps the transaction of every verdict: a GREEN one is on a harmless
  transaction (`GreenIsHarmless`), and each Signature_2 that exists has a GREEN verdict on its own transaction somewhere in the log, though a later
  one on it may be RED. A token knows how long the log was when it was issued, which is not after the broadcast it serves.
- `ResetHolds`: `[]ResetBoundToEpisode`. A token states counts: that of the audit log when it was
  issued, which never shrinks, and the reasons of the freeze. `FreezeEpisode` is what makes them an identity: a
  breaker that is tripped was tripped by a verdict after the last reset.

Of `CeremonySpec`, for every signer that keeps the promise of `GatedSigning`:

- `CeremonyTypeCorrect`: `[]CeremonyTypeOK`, with a bound on how far the ledger closes while `n` ceremonies are held.
- `LandsConfirmed`: `[]LandsAsConfirmed`, from what is known of the transactions on their way.
- `PaysOnce`: `[]PaidOnce`. The invariant is that to a payee nobody was careless with, at most one transaction whose hash was put
  out may still pay: it has landed with success, or it can still get there. A retry either takes up that transaction or comes after its
  last ledger or its Sequence.
- `ResultsFinal`: `[]ResultIsFinal`.
- `CeremoniesShrink`: `CeremonyShrinks`, the safe half of `CeremonyEnds`: each step of the ceremony or answer of the human brings the end
  nearer, and `submit_and_wait`, the one loop that waits for others, waits for a ledger at most `LedgerOffset` ahead. For that the
  lifetimes of all transactions on record are followed (`Lifetimes`), a retry's being older.

The attempt to prove this showed that the model let a caller begin a ceremony for one order with the transaction that was
autofilled for another, which is no retry of either. `CeremonyNext` now has a caller come back with the transaction of the order itself.

`ProvisioningProofs`, of `ProvisionSpec`. `IInv`, about the tool:

- `SeedsSurvive` and `FilesWhole`: `[]SignerSeedsSurvive`, `[]FilesStayWhole`. `Migrating` says what a run of the tool
  has achieved at each of its stages: above all, that the keystore on disk holds every signer seed once shredding
  has begun. `Scripting` says that a script writes over the checkpoint only if the keystore
  holds the seeds already and none of them was wrong.
- `ConfigurationSafe`: `[]ConfiguredSafely`, for every settings file, whatever its fields.

And `Setup`, about the scripts:

- `ProvisionTypeCorrect`: `[]ProvisionTypeOK`.
- `TreasuryReachable`: `[]NeverLockedOut`. A signer list on the ledger is made of accounts whose seeds are held, or were thrown away
  knowingly, or come from an adopted keystore; the master key goes only after such a list. It rests on when each script has made its seeds safe
  (`Sealed`), and that on the accounts of a step being made together.
- `CheckpointsTrue`: `[]CheckpointTruth`. A flag stands for a fact of the ledger about the accounts that are named beside it, in memory and
  on disk. `StepsShaped` gives the order of funding, sealing and submitting in the four scripts that both rest on.

Model-checked only are the four liveness properties, `CallEnds`, `CeremonyEnds`, `VerificationEnds` and `SetupCompletes`, since fairness and
`ENABLED` are beyond the prover. What the theorems on the first three leave to TLC is that a next step is always possible, and is taken. Also
model-checked only are the two runs of section 4, which are counterexamples. Out of the prover's reach are also induction over data and
RECURSIVE operators, of which the modules have none: pruning is defined by the first fresh entry, not by a loop.

## 6. What is not modelled, and why

- Cryptography and encodings: HMACs, key derivation, digests, KMS formats, binary
  codec. A signature is the fact that a step was taken, or, where it can go wrong, its key and its value.
- Decimal arithmetic, which is exact in the code: amounts are integers. The issuer of
  an IOU is not part of an intent in the code, nor here.
- The wording of reasons, previews, explanations and memos.
- Several front doors on one engine at once: the code is synchronous, so calls of one
  process do not overlap. A treasury served by two processes would have two engines.
- Between the guard's read and the signature the account may change: the code
  bounds this to one call, and `ReleasedOnLiveReads` says no more. Likewise a compliance context may never have
  been true on one single ledger; the properties say what holds of each fact.
- A power failure: `save()` does not `fsync`, so the order in which the disk takes the
  keystore and the shredding is not known. `Provisioning` has the end of processes only.
- The treasury seed is dropped by the migration by default, by design, and is not part of
  `SignerSeedsSurvive`.
- In the ceremony: fees, flags, memos and the layout of the preview. An order carries no
  Sequence of its own unless it was autofilled before.
- The HTTP fetch of the price feed and the webhook of the alert sink, which are I/O. What matters of them, a price that
  is missing or old and one alert per refusal, is in the callers' modules.
- In the setup scripts: amounts, fees, flags, what is printed, the routing samples and the optional broadcast of v2.

## 7. Plan

Done: the core (`Policy`, `RiskEngine`), the signer and its abstraction, the ceremony, the
ledger readers, both rails of x402 with their backends, both tiers, the override path, and the setup of a treasury with its
migration and settings; and theorems for all their safety properties, for the refinement, and for the safe half of three of the
liveness properties. Next, in this order:

1. The two price reads of one call (`external_signer.py:249`): what the tier that is recorded still says when
   the price has moved.
2. A measure like `StepsLeft` for a run of a setup script and for a header of x402.
