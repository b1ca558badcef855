----------------------------- MODULE Provisioning -----------------------------
(***************************************************************************)
(* Bringing a treasury up: the setup scripts (testnet_multisig_demo.py and   *)
(* its v2, agent_wallet_skill_demo.py, mpt_rwa_demo.py,                     *)
(* credential_domain_rwa_demo.py), the move of the seeds into the keystore,  *)
(* and the settings file, over a ledger that forgets nothing.              *)
(*                                                                         *)
(* A script is a sequence of steps interpreted by one set of actions.  It    *)
(* saves what it did in a state file, truncated and then written, and may    *)
(* be killed anywhere and run again; what a run funds is new.  One process   *)
(* runs at a time.  That EncryptedKeystore.save is all or nothing is shown   *)
(* by the steps of KeystoreMigration, and a script's save is one step here. *)
(***************************************************************************)
EXTENDS KeystoreMigration, Settings, Sequences

CONSTANTS
  Scripts,      \* the scripts that may be run
  ConfigFiles   \* the settings files v2 may be given

ASSUME ScriptsAssumption ==
  Scripts \subseteq {"multisig", "agent_wallet", "mpt_rwa", "credential"}

VARIABLES
  script,     \* the script of this deployment
  step,       \* the step main() is at, 0 when no script runs
  phase,      \* what the step is about to do: "run", "seal", "save", "dump"
  wallets,    \* the accounts in memory
  memory,     \* the flags of the state in memory
  state,      \* the state file: the accounts and the flags it names
  ledger,     \* external: the facts validated, <<what, accounts>>
  done,       \* the script reached its end
  abandoned,  \* history: seeds whose keystore was replaced by another
  config      \* what the latest run of v2 was configured with

scriptVars == <<step, phase, wallets, memory, state, ledger, done>>
vars == <<migrationVars, script, scriptVars, abandoned, config>>

Trio == Signers \cup {Treasury}

NoState == [exists |-> FALSE, whole |-> FALSE, keys |-> {}, flags |-> {}]

NoConfig == [error |-> "none", settings |-> DefaultSettings, signers |-> {}]

-----------------------------------------------------------------------------
(* The scripts.  A step submits a transaction of an account and so adds a   *)
(* fact about some accounts to the ledger.  skip says what makes a rerun     *)
(* pass it over, needs what the ledger asks for, once whether the ledger     *)
(* rejects it the second time, and tec what the script does when it fails.  *)

Submit(fact, account, about) ==
  [do |-> "submit", fact |-> fact, account |-> account, about |-> about,
   skip |-> "flag", needs |-> {}, once |-> FALSE, tec |-> "exit"]

Fund(accounts) == [Submit("", "", accounts) EXCEPT !.do = "fund"]

SignerListSet == Submit("signer_list", "treasury", Trio)

DisableMaster(skip) ==
  [Submit("master_disabled", "treasury", {"treasury"}) EXCEPT
     !.skip = skip, !.once = TRUE, !.needs = {<<"signer_list", Trio>>}]

\* Multisigned by both signers on behalf of the treasury.
ByQuorum(fact, about, skip) ==
  [Submit(fact, "quorum", about) EXCEPT !.skip = skip]

\* testnet_multisig_demo.py: the result of every transaction is saved before
\* it is looked at, and only that of SignerListSet ends the script.
MultisigDemo ==
  << Fund(Trio), SignerListSet,
     [DisableMaster("flag") EXCEPT !.tec = "continue"],
     [ByQuorum("paid", Trio, "flag") EXCEPT !.tec = "flag"] >>

\* agent_wallet_skill_demo.py: the keystore is part of the first phase.
AgentWalletDemo ==
  << Fund(Trio), SignerListSet, DisableMaster("either"),
     [ByQuorum("ceremony", Trio, "never") EXCEPT !.tec = "flag"] >>

Issuance == Submit("issuance", "issuer", {"issuer"})

OptIn(holder, account) ==
  [Submit("opted_in", account, {"issuer", holder}) EXCEPT
     !.skip = "ledger", !.once = TRUE, !.needs = {<<"issuance", {"issuer"}>>}]

Authorize(holder) ==
  [Submit("authorized", "issuer", {"issuer", holder}) EXCEPT
     !.skip = "ledger", !.needs = {<<"opted_in", {"issuer", holder}>>}]

MptAccounts ==
  << Fund({"treasury"}), Fund({"exec_signer"}), Fund({"auditor_signer"}),
     Fund({"issuer"}), Fund({"unauth"}) >>

SealStep == [Submit("", "", {}) EXCEPT !.do = "seal"]

MptTokens ==
  << Issuance, [OptIn("treasury", "quorum") EXCEPT !.tec = "continue"],
     Authorize("treasury"),
     [Submit("funded", "issuer", {"issuer", "treasury"}) EXCEPT
        !.needs = {<<"authorized", {"issuer", "treasury"}>>}],
     OptIn("exec_signer", "exec_signer"), Authorize("exec_signer"),
     OptIn("unauth", "unauth"),
     [ByQuorum("compliant", Trio, "flag") EXCEPT !.tec = "flag",
        !.needs = {<<"funded", {"issuer", "treasury"}>>,
                   <<"authorized", {"issuer", "exec_signer"}>>}],
     [Submit("refused_ok", "", {}) EXCEPT !.do = "read"] >>

\* Mutant: the keystore is made once the master key is disabled.
MptSealsLate ==
  MptAccounts \o <<SignerListSet, DisableMaster("either"), SealStep>> \o MptTokens

\* mpt_rwa_demo.py: accounts are funded one at a time, and the keystore is
\* made when there is none.
MptRwaDemo ==
  MptAccounts \o <<SealStep, SignerListSet, DisableMaster("either")>> \o MptTokens

\* credential_domain_rwa_demo.py: no treasury and no keystore.
CredentialDemo ==
  << Fund({"issuer"}), Fund({"subject_ok"}), Fund({"subject_bad"}), Issuance,
     [Submit("credential_created", "issuer", {"issuer", "subject_ok"}) EXCEPT
        !.once = TRUE],
     [Submit("credential_accepted", "subject_ok", {"issuer", "subject_ok"}) EXCEPT
        !.once = TRUE,
        !.needs = {<<"credential_created", {"issuer", "subject_ok"}>>}],
     Submit("domain", "issuer", {"issuer"}),
     [Submit("verified_ok", "", {}) EXCEPT !.do = "read",
        !.needs = {<<"credential_accepted", {"issuer", "subject_ok"}>>,
                   <<"domain", {"issuer"}>>}] >>

Steps ==
  CASE script = "multisig"     -> MultisigDemo
    [] script = "agent_wallet" -> AgentWalletDemo
    [] script = "mpt_rwa"      -> MptRwaDemo
    [] script = "credential"   -> CredentialDemo

-----------------------------------------------------------------------------
Current == Steps[step]

Holding(aliases) == OfAliases(wallets, aliases)

Facts(s) == {<<need[1], Holding(need[2])>> : need \in s.needs}

OnLedger(s) == <<s.fact, Holding(s.about)>> \in ledger

\* The signers' keys that sign: the wallets in memory in the first script,
\* the seeds of the keystore in the others.
SigningKeys ==
  IF script = "multisig" THEN Holding(Signers)
  ELSE OfAliases(Readable(keystore), Signers)

\* External: whether the ledger takes the signatures of a transaction, and
\* whether it then applies it.  What it does not take leaves no result, and
\* submit_and_wait raises.
Authorized(s) ==
  IF s.account = "quorum"
  THEN <<"signer_list", Holding({Treasury}) \cup SigningKeys>> \in ledger
  ELSE <<"master_disabled", Holding({s.account})>> \notin ledger

Applies(s) == Facts(s) \subseteq ledger /\ (s.once => ~OnLedger(s))

ToNextStep == step' = step + 1 /\ phase' = "run"

ToSave == step' = step /\ phase' = "save"

\* What was only looked up on the ledger is not saved.
Onward == IF Current.skip = "ledger" THEN ToNextStep ELSE ToSave

\* Mutant: a run begins with what the one before it had in memory.
ExitKeepsMemory ==
  step' = 0 /\ phase' = "run" /\ UNCHANGED <<wallets, memory>>

ExitScript == step' = 0 /\ phase' = "run" /\ wallets' = {} /\ memory' = {}

At(what) == step \in 1..Len(Steps) /\ phase = "run" /\ Current.do = what

Overwrites(seeds) ==
  abandoned' = abandoned \cup (Readable(keystore) \ seeds)

-----------------------------------------------------------------------------
ProvisionInit ==
  /\ MigrationInit
  /\ script \in Scripts
  /\ script # "multisig" => original.seeds = {}
  /\ step = 0
  /\ phase = "run"
  /\ wallets = {}
  /\ memory = {}
  /\ state = NoState
  /\ ledger = {}
  /\ done = FALSE
  /\ abandoned = {}
  /\ config = NoConfig

\* load_state: a state file cut short does not parse, and the run is over.
StartScript ==
  /\ stage = "idle" /\ step = 0
  /\ runs < MaxRuns
  /\ state.exists => state.whole
  /\ runs' = runs + 1
  /\ step' = 1
  /\ wallets' = state.keys
  /\ memory' = state.flags
  /\ config' = NoConfig
  /\ UNCHANGED <<processVars, fileVars, original, script, phase, state, ledger,
                 done, abandoned>>

\* Accounts are funded unless a file names them: the checkpoint, read whole
\* or not at all, in the first script, the state in the others.
FundAccounts ==
  /\ At("fund")
  /\ LET named(keys) == \A a \in Current.about : \E k \in keys : k[1] = a
         created     == {<<a, runs>> : a \in Current.about}
     IN  IF script = "multisig" /\ checkpoint.exists
         THEN IF named(Readable(checkpoint))
              THEN ToNextStep /\ wallets' = checkpoint.seeds /\ UNCHANGED memory
              ELSE ExitScript
         ELSE IF named(wallets)
              THEN ToNextStep /\ UNCHANGED <<wallets, memory>>
              ELSE /\ wallets' = wallets \cup created
                   /\ step' = step
                   /\ phase' = IF script = "agent_wallet" THEN "seal" ELSE "save"
                   /\ UNCHANGED memory
  /\ UNCHANGED <<migrationVars, script, state, ledger, done, abandoned, config>>

\* The signers' seeds go into a new keystore: with the funding, whatever was
\* there, or as a step of its own, when there was none.
Seal ==
  /\ \/ phase = "seal"
     \/ At("seal") /\ ~keystore.exists
  /\ keystore' = File(Holding(Signers), TRUE)
  /\ IF phase = "seal" THEN ToSave ELSE ToNextStep
  /\ Overwrites(Holding(Signers))
  /\ UNCHANGED <<wallets, memory, processVars, checkpoint, tmp, original, runs,
                 script, state, ledger, done, config>>

\* A flag in the state, or what the ledger shows, stands for the step.
SkipStep ==
  /\ \/ At("seal") /\ keystore.exists
     \/ At("submit") /\ Current.skip \in {"flag", "either"} /\ Current.fact \in memory
     \/ At("submit") /\ Current.skip = "ledger" /\ OnLedger(Current)
  /\ ToNextStep
  /\ UNCHANGED <<wallets, memory, migrationVars, script, state, ledger, done,
                 abandoned, config>>

\* Mutant: a master key that is disabled already is taken for an error.
FindDoneExits ==
  /\ At("submit")
  /\ Current.skip = "either" /\ Current.fact \notin memory /\ OnLedger(Current)
  /\ ExitScript
  /\ UNCHANGED <<migrationVars, script, state, ledger, done, abandoned, config>>

FindDone ==
  /\ At("submit")
  /\ Current.skip = "either" /\ Current.fact \notin memory /\ OnLedger(Current)
  /\ memory' = memory \cup {Current.fact}
  /\ ToSave
  /\ UNCHANGED <<wallets, migrationVars, script, state, ledger, done, abandoned,
                 config>>

Submits ==
  /\ At("submit")
  /\ Current.skip \in {"flag", "either"} => Current.fact \notin memory
  /\ Current.skip \in {"ledger", "either"} => ~OnLedger(Current)

\* Mutant: the script submits and does not wait.
SubmitUnwaited ==
  /\ Submits
  /\ Authorized(Current) /\ Applies(Current)
  /\ ledger' \in {ledger, ledger \cup {<<Current.fact, Holding(Current.about)>>}}
  /\ ToSave /\ memory' = memory \cup {Current.fact}
  /\ UNCHANGED <<wallets, migrationVars, script, state, done, abandoned, config>>

\* submit_and_wait returns once the transaction is validated.
SubmitLands ==
  /\ Submits
  /\ Authorized(Current) /\ Applies(Current)
  /\ ledger' = ledger \cup {<<Current.fact, Holding(Current.about)>>}
  /\ Onward
  /\ memory' = IF Current.skip = "ledger" THEN memory
               ELSE memory \cup {Current.fact}
  /\ UNCHANGED <<wallets, migrationVars, script, state, done, abandoned, config>>

\* It is validated with a failure, which a payment may always be; the first
\* script saves the failure of a payment as it would its success.
SubmitFails ==
  /\ Submits
  /\ Authorized(Current)
  /\ ~Applies(Current) \/ Current.tec = "flag"
  /\ \/ Current.tec = "exit" /\ ExitScript
     \/ Current.tec = "continue" /\ Onward /\ UNCHANGED <<wallets, memory>>
     \/ /\ Current.tec = "flag"
        /\ ToSave /\ memory' = memory \cup {Current.fact}
        /\ UNCHANGED wallets
  /\ UNCHANGED <<migrationVars, script, state, ledger, done, abandoned, config>>

SubmitBounces ==
  /\ Submits
  /\ ~Authorized(Current)
  /\ ExitScript
  /\ UNCHANGED <<migrationVars, script, state, ledger, done, abandoned, config>>

\* The closing reads assert what they find.
ReadLedger ==
  /\ At("read")
  /\ IF Facts(Current) \subseteq ledger
     THEN ToSave /\ memory' = memory \cup {Current.fact} /\ UNCHANGED wallets
     ELSE ExitScript
  /\ UNCHANGED <<migrationVars, script, state, ledger, done, abandoned, config>>

ToCheckpoint == script = "multisig" /\ Current.do = "fund"

\* save_state opens the file for writing, which empties it.
SaveOpen ==
  /\ phase = "save"
  /\ phase' = "dump"
  /\ IF ToCheckpoint
     THEN checkpoint' = File({}, FALSE) /\ UNCHANGED state
     ELSE state' = [NoState EXCEPT !.exists = TRUE] /\ UNCHANGED checkpoint
  /\ UNCHANGED <<step, wallets, memory, processVars, keystore, tmp, original,
                 runs, script, ledger, done, abandoned, config>>

SaveDump ==
  /\ phase = "dump"
  /\ ToNextStep
  /\ IF ToCheckpoint
     THEN /\ checkpoint' = File(wallets, TRUE)
          /\ original' = [seeds |-> wallets, wrong |-> {}]
          /\ UNCHANGED state
     ELSE /\ state' = [exists |-> TRUE, whole |-> TRUE, flags |-> memory,
                       keys |-> IF script = "multisig" THEN {} ELSE wallets]
          /\ UNCHANGED <<checkpoint, original>>
  /\ UNCHANGED <<wallets, memory, processVars, keystore, tmp, runs, script,
                 ledger, done, abandoned, config>>

Finish ==
  /\ step = Len(Steps) + 1
  /\ done' = TRUE
  /\ ExitScript
  /\ UNCHANGED <<migrationVars, script, state, ledger, abandoned, config>>

ScriptStep ==
  \/ FundAccounts \/ Seal \/ SkipStep \/ FindDone \/ SubmitLands \/ SubmitFails
  \/ SubmitBounces \/ ReadLedger \/ SaveOpen \/ SaveDump \/ Finish

\* The script is killed, or a request of its raises.
Kill ==
  /\ step # 0
  /\ runs < MaxRuns
  /\ ExitScript
  /\ UNCHANGED <<migrationVars, script, state, ledger, done, abandoned, config>>

\* An operator removes a file that no longer parses.
RemoveTorn ==
  /\ stage = "idle" /\ step = 0
  /\ \/ /\ state.exists /\ ~state.whole
        /\ state' = NoState
        /\ UNCHANGED checkpoint
     \/ /\ checkpoint.exists /\ ~checkpoint.whole
        /\ checkpoint' = Missing
        /\ UNCHANGED state
  /\ UNCHANGED <<processVars, keystore, tmp, original, runs, script, step, phase,
                 wallets, memory, ledger, done, abandoned, config>>

\* migrate_keystore, on the checkpoint of the first script.
Migrate ==
  /\ script = "multisig" /\ step = 0
  /\ MigrationNext
  /\ Overwrites(Readable(keystore'))
  /\ config' = NoConfig
  /\ UNCHANGED <<script, scriptVars>>

\* What the settings of v2 may come to: those of a file, an error of its
\* load, or the defaults when no file is given.
Configurations ==
  {[error    |-> LoadError(file),
    settings |-> IF LoadError(file) = "none" THEN Loaded(file) ELSE DefaultSettings] :
      file \in ConfigFiles}
  \cup {[error |-> "none", settings |-> DefaultSettings]}

\* v2: the settings come before the keystore, which must hold the seeds of
\* both signers; these then sign.
RunV2 ==
  /\ script = "multisig" /\ stage = "idle" /\ step = 0
  /\ LET seeds == OfAliases(Readable(keystore), Signers)
         found == \A a \in Signers : \E s \in seeds : s[1] = a
     IN  \E c \in Configurations :
           config' = [error |-> c.error, settings |-> c.settings,
                      signers |-> IF c.error = "none" /\ found THEN seeds ELSE {}]
  /\ UNCHANGED <<migrationVars, script, scriptVars, abandoned>>

ProvisionNext ==
  \/ StartScript \/ ScriptStep \/ Kill \/ RemoveTorn
  \/ Migrate \/ RunV2

\* A script is run again until it is through, and its requests are answered.
ProvisionSpec ==
  /\ ProvisionInit /\ [][ProvisionNext]_vars
  /\ WF_vars(StartScript) /\ WF_vars(ScriptStep)
-----------------------------------------------------------------------------
Resumable ==
  \A i \in 1..Len(Steps) :
    Steps[i].once => Steps[i].skip \in {"ledger", "either"}

\* The seeds a state file holds; the agent wallet's holds the treasury's only.
InState ==
  IF ~state.whole THEN {}
  ELSE IF script = "agent_wallet" THEN OfAliases(state.keys, {Treasury})
  ELSE state.keys

Recoverable == Readable(checkpoint) \cup Readable(keystore) \cup InState

\* Type invariant of the scripts, the tool and their files.
ProvisionTypeOK ==
  /\ MigrationTypeOK
  /\ step \in 0..(Len(Steps) + 1)
  /\ phase \in {"run", "seal", "save", "dump"}
  /\ step = 0 => wallets = {} /\ memory = {} /\ phase = "run"
  /\ step # 0 => stage = "idle"
  /\ memory \subseteq {Steps[i].fact : i \in 1..Len(Steps)}
  /\ state.flags \subseteq {Steps[i].fact : i \in 1..Len(Steps)}
  /\ \A k, l \in wallets : k[1] = l[1] => k = l
  /\ \A k \in wallets \cup state.keys \cup abandoned : k[2] \in 0..runs
  /\ done \in BOOLEAN

\* mpt_rwa_demo.py takes the keystore it finds, and when its state file had to
\* be removed that one is not of the accounts it funds then.
AdoptedKeystore(signers) ==
  script = "mpt_rwa" /\ keystore.exists /\ signers \cap Readable(keystore) = {}

\* The treasury is never locked out (the order of the phases of the scripts,
\* EncryptedKeystore.save, migrate_keystore main): once its master key is
\* disabled a signer list names two signers whose seeds can be read from some
\* file, wherever a script or the tool was killed.  They are lost only with a
\* keystore that a later run replaced, or that was adopted from an earlier one.
NeverLockedOut ==
  \A fact \in ledger :
    fact[1] = "master_disabled" =>
      \E list \in ledger :
        /\ list[1] = "signer_list" /\ fact[2] \subseteq list[2]
        /\ LET signers == OfAliases(list[2], Signers)
           IN  \/ signers \subseteq Recoverable \cup abandoned
               \/ AdoptedKeystore(signers)

\* A state file never claims more than the ledger shows, for the accounts it
\* names (save_state after submit_and_wait; load_state).  The flags of the
\* first script are about the accounts of some checkpoint, and its payment
\* counts as made whatever its result was.
CheckpointTruth ==
  \A i \in 1..Len(Steps) :
    LET s == Steps[i] IN
    s.do = "submit" /\ s.tec # "flag" /\ s.fact \in state.flags =>
      \E fact \in ledger :
        /\ fact[1] = s.fact
        /\ script # "multisig" => fact[2] = OfAliases(state.keys, s.about)

\* Whatever the file holds, a run of v2 that comes as far as signing has
\* settings its router takes and the engine can work with (load_settings,
\* default_settings), and no key it signs with belongs to another address than
\* its checkpoint said (migrate_keystore, load_backends).
ConfiguredSafely ==
  /\ RouterBuilds(config.settings) /\ EngineSound(config.settings)
  /\ config.signers \cap original.wrong = {}

\* The scripts that say they are resumable and look every transaction up that
\* the ledger would refuse a second time do come through, unless a kill left
\* the state file unreadable.
SetupCompletes ==
  Resumable => <>(done \/ (step = 0 /\ state.exists /\ ~state.whole))
=============================================================================
