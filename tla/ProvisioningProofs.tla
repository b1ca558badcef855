-------------------------- MODULE ProvisioningProofs --------------------------
(***************************************************************************)
(* Proofs about Provisioning, for any scripts, checkpoints, settings files,  *)
(* passes and number of runs.                                              *)
(*                                                                         *)
(* Two invariants.  IInv is about the tool: Migrating says what a run of the *)
(* migration has achieved at each of its stages, Scripting when a script may  *)
(* touch the plaintext that the tool protects.  Setup is about the scripts:  *)
(* which accounts are there and who holds their seeds when a step of a script *)
(* is done or saved as done.  It needs the shape of each script, which        *)
(* StepsShaped states.                                                       *)
(***************************************************************************)
EXTENDS Provisioning, SequenceTheorems, TLAPS

SignerSeeds == OfAliases(original.seeds, Signers)
WrongSigners == OfAliases(original.wrong, Signers)

Migrating ==
  /\ original.wrong \subseteq original.seeds
  /\ checkpoint.whole => checkpoint = File(original.seeds, TRUE)
  /\ keystore = Missing \/ keystore = File(keystore.seeds, TRUE)
  /\ keystore.seeds \cap original.wrong = {}
  /\ stage \in {"verify", "write", "dump", "replace", "shred"} =>
       SignerSeeds \subseteq entries /\ entries \cap original.wrong = {}
  /\ stage = "replace" => tmp = File(entries, TRUE)
  /\ stage = "shred" => keystore = File(entries, TRUE)
  /\ SignerSeedsSurvive
  /\ WrongSigners # {} => checkpoint = File(original.seeds, TRUE)

Scripting ==
  /\ step = 0 => phase = "run"
  /\ step # 0 => stage = "idle"
  /\ phase = "seal" => script # "multisig"
  /\ script # "multisig" => original.seeds = {}
  /\ phase \in {"save", "dump"} /\ ToCheckpoint =>
       WrongSigners = {} /\ SignerSeeds \subseteq Readable(keystore)

IInv == Migrating /\ Scripting /\ ConfiguredSafely

-----------------------------------------------------------------------------
(* The settings.                                                           *)

\* What load_settings lets through, the router and the engine can work with.
LEMMA LoadedSound ==
  ASSUME NEW file, LoadError(file) = "none"
  PROVE  RouterBuilds(Loaded(file)) /\ EngineSound(Loaded(file))
<1> DEFINE f(key) == file.fields[key]
<1>1. /\ IsPositiveMoney(f("amount_threshold_rlusd"))
      /\ IsPositiveFloat(f("frequency_window_s"))
      /\ IsPositiveInt(f("frequency_limit"))
      /\ IsPositiveMoney(f("channel_ceiling_rlusd"))
      /\ Ordered(f("channel_ceiling_rlusd").value, f("fast_path_ceiling_rlusd").value)
  BY DEF LoadError
<1>2. \A key \in AllowedKeys \ {"whitelist"} : Loaded(file)[key] = f(key)
  BY DEF Loaded
<1>3. /\ Loaded(file).amount_threshold_rlusd = f("amount_threshold_rlusd")
      /\ Loaded(file).frequency_window_s = f("frequency_window_s")
      /\ Loaded(file).frequency_limit = f("frequency_limit")
      /\ Loaded(file).channel_ceiling_rlusd = f("channel_ceiling_rlusd")
      /\ Loaded(file).fast_path_ceiling_rlusd = f("fast_path_ceiling_rlusd")
  BY <1>2 DEF AllowedKeys
<1> QED
  BY <1>1, <1>3 DEF RouterBuilds, EngineSound, IsPositiveMoney, IsPositiveFloat,
                    IsPositiveInt, Ordered, Numbers

\* The built-in settings are sound.
LEMMA DefaultSound == RouterBuilds(DefaultSettings) /\ EngineSound(DefaultSettings)
BY DEF RouterBuilds, EngineSound, DefaultSettings, Literal, Numbers

\* Whatever the file holds, the settings of a run of v2 are sound.
LEMMA ConfigurationsSound ==
  ASSUME NEW c \in Configurations
  PROVE  RouterBuilds(c.settings) /\ EngineSound(c.settings)
BY LoadedSound, DefaultSound DEF Configurations

-----------------------------------------------------------------------------
(* The tool.                                                               *)

\* Initially nothing has been migrated and no script runs.
LEMMA InitIInv == ProvisionInit => IInv
<1> SUFFICES ASSUME ProvisionInit PROVE IInv
  OBVIOUS
<1>1. Migrating
  BY CheckpointAssumption
  DEF ProvisionInit, MigrationInit, Migrating, SignerSeeds, WrongSigners, OfAliases,
      Missing, File, SignerSeedsSurvive, Readable
<1>2. Scripting
  BY DEF ProvisionInit, Scripting
<1>3. ConfiguredSafely
  BY DefaultSound DEF ProvisionInit, ConfiguredSafely, NoConfig
<1> QED
  BY <1>1, <1>2, <1>3 DEF IInv

\* Each step of the tool preserves what the earlier ones achieved.
LEMMA MigrationPreserves ==
  ASSUME Migrating, MigrationNext PROVE Migrating'
<1> USE DEF Migrating, SignerSeeds, WrongSigners, OfAliases, SignerSeedsSurvive,
            Readable, File, Missing, Exit, processVars, fileVars
<1>1. ASSUME NEW o, Start(o) PROVE Migrating'
  BY <1>1 DEF Start
<1>2. CASE Import
  BY <1>2 DEF Import, Wanted
<1>3. CASE VerifyRoundtrip
  BY <1>3 DEF VerifyRoundtrip
<1>4. CASE OpenTmp
  BY <1>4 DEF OpenTmp
<1>5. CASE DumpTmp
  BY <1>5 DEF DumpTmp
<1>6. CASE SaveFails
  BY <1>6 DEF SaveFails
<1>7. CASE Replace
  BY <1>7 DEF Replace
<1>8. CASE ShredPass
  BY <1>8 DEF ShredPass
<1>9. CASE Unlink
  BY <1>9 DEF Unlink
<1>10. CASE Crash
  BY <1>10 DEF Crash
<1> HIDE DEF Migrating
<1> QED
  BY <1>1, <1>2, <1>3, <1>4, <1>5, <1>6, <1>7, <1>8, <1>9, <1>10
  DEF MigrationNext, MigrationStep

\* The step main() is at changes with the script and its position only.
LEMMA CurrentSame ==
  ASSUME UNCHANGED <<script, step>> PROVE Current' = Current
BY DEF Current, Steps, MultisigDemo, AgentWalletDemo, MptRwaDemo, CredentialDemo,
       MptAccounts, MptTokens, SealStep, Fund, SignerListSet, DisableMaster, ByQuorum,
       Issuance, OptIn, Authorize, Submit, Trio, Treasury

-----------------------------------------------------------------------------
(* The scripts.                                                            *)

\* A script that leaves the files of the tool alone disturbs neither what the
\* tool achieved nor the settings of v2.
LEMMA FilesUntouched ==
  ASSUME Migrating, ConfiguredSafely, UNCHANGED <<migrationVars, config>>
  PROVE  Migrating' /\ ConfiguredSafely'
<1>1. Migrating'
  BY DEF Migrating, SignerSeeds, WrongSigners, OfAliases, SignerSeedsSurvive, Readable,
         File, Missing, migrationVars, processVars, fileVars
<1>2. ConfiguredSafely'
  BY DEF ConfiguredSafely, migrationVars
<1> QED
  BY <1>1, <1>2

\* A run that is over leaves the scripts' part in order.
LEMMA ExitScripting ==
  ASSUME Scripting, ExitScript, UNCHANGED <<script, original>>
  PROVE  Scripting'
BY DEF Scripting, ExitScript

\* So does one that goes on to its next step.
LEMMA NextScripting ==
  ASSUME Scripting, ToNextStep, UNCHANGED <<script, original, stage>>, step # 0
  PROVE  Scripting'
BY DEF Scripting, ToNextStep

\* So does one that is about to save the outcome of a transaction.
LEMMA SaveScripting ==
  ASSUME Scripting, ToSave, UNCHANGED <<script, original, stage>>, step # 0,
         ~ToCheckpoint
  PROVE  Scripting'
<1>1. ~ToCheckpoint'
  BY CurrentSame DEF ToCheckpoint, ToSave
<1> QED
  BY <1>1 DEF Scripting, ToSave

\* The first script makes no keystore.
LEMMA NoSealInFirst ==
  ASSUME script = "multisig" PROVE ~At("seal")
<1> SUFFICES ASSUME At("seal") PROVE FALSE
  OBVIOUS
<1>1. Steps = MultisigDemo
  BY DEF Steps
<1>2. step \in 1..4 /\ MultisigDemo[step].do = "seal"
  BY <1>1 DEF At, Current, MultisigDemo
<1>3. MultisigDemo[1].do = "fund"
  BY DEF MultisigDemo, Fund, Submit
<1>4. MultisigDemo[2].do = "submit" /\ MultisigDemo[3].do = "submit"
  BY DEF MultisigDemo, SignerListSet, DisableMaster, Submit
<1>5. MultisigDemo[4].do = "submit"
  BY DEF MultisigDemo, ByQuorum, Submit
<1> QED
  BY <1>2, <1>3, <1>4, <1>5

\* Each step of a script preserves the invariant.
LEMMA ScriptPreserves ==
  ASSUME IInv, ScriptStep PROVE IInv'
<1> USE DEF IInv
<1>1. CASE FundAccounts
  <2>1. step # 0
    BY <1>1 DEF FundAccounts, At
  <2>2. UNCHANGED <<migrationVars, config, script, original, stage>>
    BY <1>1 DEF FundAccounts, migrationVars, processVars
  <2>3. CASE ToNextStep
    BY <2>1, <2>2, <2>3, NextScripting, FilesUntouched
  <2>4. CASE ExitScript
    BY <2>2, <2>4, ExitScripting, FilesUntouched
  <2>5. CASE step' = step /\ phase' = "seal" /\ script = "agent_wallet"
    <3>1. Scripting'
      BY <2>1, <2>2, <2>5 DEF Scripting
    <3> QED
      BY <2>2, <3>1, FilesUntouched
  <2>6. CASE /\ step' = step /\ phase' = "save"
             /\ ~(script = "multisig" /\ checkpoint.exists)
    <3>1. ~checkpoint.exists /\ script = "multisig" =>
            WrongSigners = {} /\ SignerSeeds \subseteq Readable(keystore)
      BY DEF Migrating, File, SignerSeedsSurvive, Readable, SignerSeeds
    <3>2. Scripting'
      BY <2>1, <2>2, <2>6, <3>1
      DEF Scripting, ToCheckpoint, WrongSigners, SignerSeeds, OfAliases, Readable,
          migrationVars, fileVars
    <3> QED
      BY <2>2, <3>2, FilesUntouched
  <2> QED
    BY <1>1, <2>3, <2>4, <2>5, <2>6 DEF FundAccounts
<1>2. CASE Seal
  <2>1. step # 0 /\ stage = "idle"
    BY <1>2 DEF Seal, At, Scripting
  <2>2. script # "multisig"
    BY <1>2, NoSealInFirst DEF Seal, Scripting
  <2>3. original.seeds = {} /\ original.wrong = {}
    BY <2>2 DEF Scripting, Migrating
  <2>4. Migrating'
    BY <1>2, <2>1, <2>3
    DEF Seal, Migrating, SignerSeeds, WrongSigners, OfAliases, SignerSeedsSurvive,
        Readable, File, Missing, processVars
  <2>5. Scripting'
    BY <1>2, <2>1, <2>2 DEF Seal, ToSave, ToNextStep, Scripting, ToCheckpoint, processVars
  <2>6. ConfiguredSafely'
    BY <1>2 DEF Seal, ConfiguredSafely
  <2> QED
    BY <2>4, <2>5, <2>6
<1>3. CASE SkipStep
  <2>1. step # 0
    BY <1>3 DEF SkipStep, At
  <2>2. ToNextStep /\ UNCHANGED <<migrationVars, config, script, original, stage>>
    BY <1>3 DEF SkipStep, migrationVars, processVars
  <2> QED
    BY <2>1, <2>2, NextScripting, FilesUntouched
<1>4. CASE FindDone
  <2>1. step # 0 /\ ~ToCheckpoint
    BY <1>4 DEF FindDone, At, ToCheckpoint
  <2>2. ToSave /\ UNCHANGED <<migrationVars, config, script, original, stage>>
    BY <1>4 DEF FindDone, migrationVars, processVars
  <2> QED
    BY <2>1, <2>2, SaveScripting, FilesUntouched
<1>5. CASE SubmitLands
  <2>1. step # 0 /\ ~ToCheckpoint
    BY <1>5 DEF SubmitLands, Submits, At, ToCheckpoint
  <2>2. UNCHANGED <<migrationVars, config, script, original, stage>>
    BY <1>5 DEF SubmitLands, migrationVars, processVars
  <2>3. ToNextStep \/ ToSave
    BY <1>5 DEF SubmitLands, Onward
  <2> QED
    BY <2>1, <2>2, <2>3, NextScripting, SaveScripting, FilesUntouched
<1>6. CASE SubmitFails
  <2>1. step # 0 /\ ~ToCheckpoint
    BY <1>6 DEF SubmitFails, Submits, At, ToCheckpoint
  <2>2. UNCHANGED <<migrationVars, config, script, original, stage>>
    BY <1>6 DEF SubmitFails, migrationVars, processVars
  <2>3. ExitScript \/ ToNextStep \/ ToSave
    BY <1>6 DEF SubmitFails, Onward
  <2> QED
    BY <2>1, <2>2, <2>3, ExitScripting, NextScripting, SaveScripting, FilesUntouched
<1>7. CASE SubmitBounces
  <2>1. ExitScript /\ UNCHANGED <<migrationVars, config, script, original>>
    BY <1>7 DEF SubmitBounces, migrationVars
  <2> QED
    BY <2>1, ExitScripting, FilesUntouched
<1>8. CASE ReadLedger
  <2>1. step # 0 /\ ~ToCheckpoint
    BY <1>8 DEF ReadLedger, At, ToCheckpoint
  <2>2. UNCHANGED <<migrationVars, config, script, original, stage>>
    BY <1>8 DEF ReadLedger, migrationVars, processVars
  <2>3. ExitScript \/ ToSave
    BY <1>8 DEF ReadLedger
  <2> QED
    BY <2>1, <2>2, <2>3, ExitScripting, SaveScripting, FilesUntouched
<1>9. CASE SaveOpen
  <2>1. step # 0 /\ stage = "idle"
    BY <1>9 DEF SaveOpen, Scripting
  <2>2. UNCHANGED <<script, step, keystore, original, stage, config>>
    BY <1>9 DEF SaveOpen, processVars
  <2>3. ToCheckpoint' = ToCheckpoint
    BY <2>2, CurrentSame DEF ToCheckpoint
  <2>4. Scripting'
    BY <1>9, <2>1, <2>2, <2>3
    DEF SaveOpen, Scripting, WrongSigners, SignerSeeds, OfAliases, Readable
  <2>5. ASSUME ToCheckpoint PROVE Migrating'
    <3>1. WrongSigners = {} /\ SignerSeeds \subseteq Readable(keystore)
      BY <1>9, <2>5 DEF SaveOpen, Scripting
    <3>2. checkpoint' = File({}, FALSE)
      BY <1>9, <2>5 DEF SaveOpen
    <3> QED
      BY <2>1, <2>2, <3>1, <3>2
      DEF Migrating, SignerSeeds, WrongSigners, OfAliases, SignerSeedsSurvive, Readable,
          File, Missing
  <2>6. ASSUME ~ToCheckpoint PROVE Migrating'
    <3>1. checkpoint' = checkpoint
      BY <1>9, <2>6 DEF SaveOpen
    <3> QED
      BY <2>1, <2>2, <3>1
      DEF Migrating, SignerSeeds, WrongSigners, OfAliases, SignerSeedsSurvive, Readable,
          File, Missing
  <2>7. ConfiguredSafely'
    BY <2>2 DEF ConfiguredSafely
  <2> QED
    BY <2>4, <2>5, <2>6, <2>7
<1>10. CASE SaveDump
  <2>1. step # 0 /\ stage = "idle"
    BY <1>10 DEF SaveDump, Scripting
  <2>2. ToNextStep /\ UNCHANGED <<script, keystore, stage, config>>
    BY <1>10 DEF SaveDump, processVars
  <2>3. CASE ToCheckpoint
    <3>1. /\ checkpoint' = File(wallets, TRUE)
          /\ original' = [seeds |-> wallets, wrong |-> {}]
      BY <1>10, <2>3 DEF SaveDump
    <3>2. Migrating'
      BY <2>1, <2>2, <3>1
      DEF Migrating, SignerSeeds, WrongSigners, OfAliases, SignerSeedsSurvive, Readable, File
    <3>3. Scripting'
      BY <2>1, <2>2, <2>3, <3>1 DEF Scripting, ToNextStep, ToCheckpoint
    <3>4. ConfiguredSafely'
      BY <2>2, <3>1 DEF ConfiguredSafely
    <3> QED
      BY <3>2, <3>3, <3>4
  <2>4. CASE ~ToCheckpoint
    <3>1. UNCHANGED <<checkpoint, original>>
      BY <1>10, <2>4 DEF SaveDump
    <3>2. UNCHANGED <<migrationVars, config, script, original, stage>>
      BY <1>10, <3>1 DEF SaveDump, migrationVars, processVars, fileVars
    <3> QED
      BY <2>1, <2>2, <3>2, NextScripting, FilesUntouched
  <2> QED
    BY <2>3, <2>4
<1>11. CASE Finish
  <2>1. ExitScript /\ UNCHANGED <<migrationVars, config, script, original>>
    BY <1>11 DEF Finish, migrationVars
  <2> QED
    BY <2>1, ExitScripting, FilesUntouched
<1> QED
  BY <1>1, <1>2, <1>3, <1>4, <1>5, <1>6, <1>7, <1>8, <1>9, <1>10, <1>11 DEF ScriptStep

\* Each step of the system preserves the invariant.
LEMMA NextIInv ==
  ASSUME IInv, [ProvisionNext]_vars PROVE IInv'
<1> USE DEF IInv
<1>1. CASE StartScript
  <2>1. /\ stage = "idle" /\ step' = 1 /\ phase = "run"
        /\ UNCHANGED <<processVars, fileVars, original, script, phase>>
        /\ config' = NoConfig
    BY <1>1 DEF StartScript, Scripting
  <2>2. Migrating'
    BY <2>1 DEF Migrating, SignerSeeds, WrongSigners, OfAliases, SignerSeedsSurvive,
                Readable, File, Missing, processVars, fileVars
  <2>3. Scripting'
    BY <2>1 DEF Scripting, processVars
  <2>4. ConfiguredSafely'
    BY <2>1, DefaultSound DEF ConfiguredSafely, NoConfig
  <2> QED
    BY <2>2, <2>3, <2>4
<1>2. CASE ScriptStep
  BY <1>2, ScriptPreserves
<1>3. CASE Kill
  <2>1. ExitScript /\ UNCHANGED <<migrationVars, config, script, original>>
    BY <1>3 DEF Kill, migrationVars
  <2> QED
    BY <2>1, ExitScripting, FilesUntouched
<1>4. CASE RemoveTorn
  <2>1. step = 0 /\ UNCHANGED <<processVars, keystore, tmp, original, script, step, phase, config>>
    BY <1>4 DEF RemoveTorn
  <2>2. Migrating'
    BY <1>4, <2>1
    DEF RemoveTorn, Migrating, SignerSeeds, WrongSigners, OfAliases, SignerSeedsSurvive,
        Readable, File, Missing, processVars
  <2>3. Scripting'
    BY <1>4, <2>1 DEF Scripting, processVars
  <2>4. ConfiguredSafely'
    BY <2>1 DEF ConfiguredSafely
  <2> QED
    BY <2>2, <2>3, <2>4
<1>5. CASE Migrate
  <2>1. Migrating'
    BY <1>5, MigrationPreserves DEF Migrate
  <2>2. Scripting'
    <3>1. original' = original
      BY <1>5 DEF Migrate, MigrationNext, MigrationStep, Start, Import, VerifyRoundtrip,
                  OpenTmp, DumpTmp, SaveFails, Replace, ShredPass, Unlink, Crash
    <3> QED
      BY <1>5, <3>1 DEF Migrate, scriptVars, Scripting
  <2>3. ConfiguredSafely'
    BY <1>5, DefaultSound DEF Migrate, ConfiguredSafely, NoConfig
  <2> QED
    BY <2>1, <2>2, <2>3
<1>6. CASE RunV2
  <2>1. UNCHANGED <<migrationVars, script, step, phase>> /\ step = 0
    BY <1>6 DEF RunV2, scriptVars
  <2>2. Migrating'
    BY <2>1 DEF Migrating, SignerSeeds, WrongSigners, OfAliases, SignerSeedsSurvive,
                Readable, File, Missing, migrationVars, processVars, fileVars
  <2>3. Scripting'
    BY <2>1 DEF Scripting, migrationVars, processVars
  <2>4. ConfiguredSafely'
    <3>1. PICK c \in Configurations :
            /\ config'.settings = c.settings
            /\ config'.signers \subseteq Readable(keystore)
      BY <1>6 DEF RunV2, OfAliases
    <3>2. Readable(keystore) \cap original.wrong = {}
      BY DEF Migrating, Readable
    <3>3. RouterBuilds(config'.settings) /\ EngineSound(config'.settings)
      BY <3>1, ConfigurationsSound
    <3> QED
      BY <2>1, <3>1, <3>2, <3>3
      DEF ConfiguredSafely, migrationVars, RouterBuilds, EngineSound
  <2> QED
    BY <2>2, <2>3, <2>4
<1>7. CASE UNCHANGED vars
  <2>1. UNCHANGED <<migrationVars, config, script, original, keystore, stage, step, phase>>
    BY <1>7 DEF vars, scriptVars, migrationVars, processVars, fileVars
  <2>2. ToCheckpoint' = ToCheckpoint
    BY <2>1, CurrentSame DEF ToCheckpoint
  <2>3. Scripting'
    BY <2>1, <2>2 DEF Scripting, SignerSeeds, WrongSigners, OfAliases, Readable
  <2> QED
    BY <2>1, <2>3, FilesUntouched
<1> QED
  BY <1>1, <1>2, <1>3, <1>4, <1>5, <1>6, <1>7 DEF ProvisionNext

-----------------------------------------------------------------------------
\* IInv is an inductive invariant.
LEMMA Inductive == ProvisionSpec => []IInv
<1>1. ProvisionInit => IInv
  BY InitIInv
<1>2. IInv /\ [ProvisionNext]_vars => IInv'
  BY NextIInv
<1> QED
  BY <1>1, <1>2, PTL DEF ProvisionSpec

\* Wherever a script or the tool is killed, and whatever is run next, each signer
\* seed of the latest complete checkpoint can be read from a file.
THEOREM SeedsSurvive == ProvisionSpec => []SignerSeedsSurvive
<1>1. IInv => SignerSeedsSurvive
  BY DEF IInv, Migrating
<1> QED
  BY <1>1, Inductive, PTL

\* The keystore file is whole or absent, and a checkpoint with a wrong signer seed
\* stays as it was.
THEOREM FilesWhole == ProvisionSpec => []FilesStayWhole
<1>1. IInv => FilesStayWhole
  BY DEF IInv, Migrating, FilesStayWhole, WrongSigners, File, Missing
<1> QED
  BY <1>1, Inductive, PTL

\* For every settings file, a run of v2 signs with settings its router takes, and
\* with no seed that was found not to be that of its address.
THEOREM ConfigurationSafe == ProvisionSpec => []ConfiguredSafely
<1>1. IInv => ConfiguredSafely
  BY DEF IInv
<1> QED
  BY <1>1, Inductive, PTL

-----------------------------------------------------------------------------
(* The scripts' steps.                                                      *)

\* A run stays with its script, and the script with its steps.
LEMMA StepsSame == ASSUME script' = script PROVE Steps' = Steps
BY DEF Steps, MultisigDemo, AgentWalletDemo, MptRwaDemo, CredentialDemo,
       MptAccounts, MptTokens, SealStep, Fund, SignerListSet, DisableMaster, ByQuorum,
       Issuance, OptIn, Authorize, Submit, Trio, Treasury

\* What the proofs need to know of a script that begins with so many fundings
\* and makes its keystore in that step: whom they are for, what the transactions
\* that matter to the lock are about, and that a flag that is saved is the result
\* of one transaction only.
Shaped(steps, fundings, sealing) ==
  /\ fundings \in 1..Len(steps)
  /\ \A i \in 1..Len(steps) : steps[i].do = "fund" <=> i <= fundings
  /\ \A i \in 1..Len(steps) : steps[i].do = "seal" <=> i = sealing
  /\ \A i, j \in 1..fundings : i # j => steps[i].about \cap steps[j].about = {}
  /\ \A i \in 1..Len(steps) :
       steps[i].do = "submit" /\ steps[i].fact = "signer_list" =>
         steps[i].about = Trio
  /\ \A i \in 1..Len(steps) :
       steps[i].do = "submit" /\ steps[i].fact = "master_disabled" =>
         /\ steps[i].about = {Treasury}
         /\ steps[i].needs = {<<"signer_list", Trio>>}
  /\ \A i \in 1..Len(steps) :
       steps[i].do = "read" \/ steps[i].tec = "flag" => steps[i].skip # "ledger"
  /\ \A i, j \in 1..Len(steps) :
       /\ steps[i].do \in {"submit", "read"} /\ steps[i].skip # "ledger"
       /\ steps[j].do = "submit"
       /\ steps[i].fact = steps[j].fact
       => i = j

\* The script of the first demo: one funding, no keystore of its own.
LEMMA MultisigShaped == Len(MultisigDemo) = 4 /\ Shaped(MultisigDemo, 1, 0)
<1> DEFINE s == MultisigDemo
<1>1. Len(s) = 4
  BY DEF MultisigDemo
<1>2. s[1] = Fund(Trio) /\ s[2] = SignerListSet
  BY DEF MultisigDemo
<1>3. /\ s[3] = [DisableMaster("flag") EXCEPT !.tec = "continue"]
      /\ s[4] = [ByQuorum("paid", Trio, "flag") EXCEPT !.tec = "flag"]
  BY DEF MultisigDemo
<1> HIDE DEF s
<1>4. s[1].do = "fund" /\ s[1].skip # "ledger"
  BY <1>2 DEF Fund, Submit
<1>5. s[2].do = "submit" /\ s[2].fact = "signer_list" /\ s[2].about = Trio /\ s[2].skip # "ledger"
  BY <1>2 DEF SignerListSet, Submit
<1>6. /\ s[3].do = "submit" /\ s[3].fact = "master_disabled" /\ s[3].about = {Treasury} /\ s[3].skip # "ledger"
      /\ s[3].needs = {<<"signer_list", Trio>>}
  BY <1>3 DEF DisableMaster, Submit, Treasury
<1>7. s[4].do = "submit" /\ s[4].fact = "paid" /\ s[4].skip # "ledger"
  BY <1>3 DEF ByQuorum, Submit
<1>8. Shaped(s, 1, 0)
  BY <1>1, <1>4, <1>5, <1>6, <1>7 DEF Shaped
<1> QED
  BY <1>1, <1>8 DEF s

\* The script of the agent wallet: its keystore is made as it funds.
LEMMA AgentWalletShaped == Len(AgentWalletDemo) = 4 /\ Shaped(AgentWalletDemo, 1, 0)
<1> DEFINE s == AgentWalletDemo
<1>1. Len(s) = 4
  BY DEF AgentWalletDemo
<1>2. s[1] = Fund(Trio) /\ s[2] = SignerListSet
  BY DEF AgentWalletDemo
<1>3. /\ s[3] = DisableMaster("either")
      /\ s[4] = [ByQuorum("ceremony", Trio, "never") EXCEPT !.tec = "flag"]
  BY DEF AgentWalletDemo
<1> HIDE DEF s
<1>4. s[1].do = "fund" /\ s[1].skip # "ledger"
  BY <1>2 DEF Fund, Submit
<1>5. s[2].do = "submit" /\ s[2].fact = "signer_list" /\ s[2].about = Trio /\ s[2].skip # "ledger"
  BY <1>2 DEF SignerListSet, Submit
<1>6. /\ s[3].do = "submit" /\ s[3].fact = "master_disabled" /\ s[3].about = {Treasury} /\ s[3].skip # "ledger"
      /\ s[3].needs = {<<"signer_list", Trio>>}
  BY <1>3 DEF DisableMaster, Submit, Treasury
<1>7. s[4].do = "submit" /\ s[4].fact = "ceremony" /\ s[4].skip # "ledger"
  BY <1>3 DEF ByQuorum, Submit
<1>8. Shaped(s, 1, 0)
  BY <1>1, <1>4, <1>5, <1>6, <1>7 DEF Shaped
<1> QED
  BY <1>1, <1>8 DEF s

\* The credential script has no treasury to lock.
LEMMA CredentialShaped ==
  /\ Len(CredentialDemo) = 8 /\ Shaped(CredentialDemo, 3, 0)
  /\ \A i \in 1..8 : CredentialDemo[i].fact \notin {"signer_list", "master_disabled"}
<1> DEFINE s == CredentialDemo
<1>1. Len(s) = 8
  BY DEF CredentialDemo
<1>2. /\ s[1] = Fund({"issuer"}) /\ s[2] = Fund({"subject_ok"})
      /\ s[3] = Fund({"subject_bad"}) /\ s[4] = Issuance
  BY DEF CredentialDemo
<1>3. s[5].do = "submit" /\ s[5].fact = "credential_created" /\ s[5].skip # "ledger"
  BY DEF CredentialDemo, Submit
<1>4. s[6].do = "submit" /\ s[6].fact = "credential_accepted" /\ s[6].skip # "ledger"
  BY DEF CredentialDemo, Submit
<1>5. s[7].do = "submit" /\ s[7].fact = "domain" /\ s[7].skip # "ledger"
  BY DEF CredentialDemo, Submit
<1>6. s[8].do = "read" /\ s[8].fact = "verified_ok" /\ s[8].skip # "ledger"
  BY DEF CredentialDemo, Submit
<1> HIDE DEF s
<1>7. /\ s[1].do = "fund" /\ s[1].about = {"issuer"} /\ s[1].skip # "ledger"
      /\ s[2].do = "fund" /\ s[2].about = {"subject_ok"} /\ s[2].skip # "ledger"
      /\ s[3].do = "fund" /\ s[3].about = {"subject_bad"} /\ s[3].skip # "ledger"
  BY <1>2, ZenonT(30) DEF Fund, Submit
<1>8. s[4].do = "submit" /\ s[4].fact = "issuance" /\ s[4].skip # "ledger"
  BY <1>2 DEF Issuance, Submit
<1>9. \A i \in 1..8 : i = 1 \/ i = 2 \/ i = 3 \/ i = 4 \/ i = 5 \/ i = 6 \/ i = 7 \/ i = 8
  OBVIOUS
<1>10. \A i \in 1..8 : s[i].fact \notin {"signer_list", "master_disabled"}
  <2>1. s[1].fact = "" /\ s[2].fact = "" /\ s[3].fact = ""
    BY <1>2 DEF Fund, Submit
  <2> QED
    BY <1>3, <1>4, <1>5, <1>6, <1>8, <1>9, <2>1
<1>11. Shaped(s, 3, 0)
  <2> USE <1>3, <1>4, <1>5, <1>6, <1>7, <1>8
  <2>1. /\ 3 \in 1..Len(s)
        /\ \A i \in 1..Len(s) : s[i].do = "fund" <=> i <= 3
        /\ \A i \in 1..Len(s) : s[i].do = "seal" <=> i = 0
    BY <1>1
  <2>2. \A i \in 1..Len(s) : s[i].do = "read" \/ s[i].tec = "flag" => s[i].skip # "ledger"
    BY <1>1
  <2>3. \A i, j \in 1..3 : i # j => s[i].about \cap s[j].about = {}
    OBVIOUS
  <2>4. \A j \in 1..Len(s) :
          s[j].do = "submit" =>
            /\ s[j].fact = "issuance" => j = 4
            /\ s[j].fact = "credential_created" => j = 5
            /\ s[j].fact = "credential_accepted" => j = 6
            /\ s[j].fact = "domain" => j = 7
            /\ s[j].fact # "verified_ok"
    BY <1>1
  <2>5. ASSUME NEW i \in 1..Len(s), NEW j \in 1..Len(s),
               s[i].do \in {"submit", "read"}, s[j].do = "submit", s[i].fact = s[j].fact
        PROVE  i = j
    <3>1. i \in {4, 5, 6, 7, 8}
      BY <1>1, <2>5
    <3> QED
      BY <2>4, <2>5, <3>1
  <2> QED
    BY <1>1, <1>10, <2>1, <2>3, <2>5, <2>2 DEF Shaped
<1> QED
  BY <1>1, <1>10, <1>11 DEF s

\* The elements of one sequence appended to another.
LEMMA JoinIsSeq ==
  ASSUME NEW S, NEW s \in Seq(S), NEW t \in Seq(S)
  PROVE  s \o t \in Seq(S) /\ Len(s \o t) = Len(s) + Len(t)
BY ConcatProperties

LEMMA JoinLeft ==
  ASSUME NEW S, NEW s \in Seq(S), NEW t \in Seq(S), NEW i \in Nat, 0 < i, i <= Len(s)
  PROVE  (s \o t)[i] = s[i]
<1>1. Len(s) \in Nat /\ Len(t) \in Nat
  OBVIOUS
<1>2. i \in 1..Len(s) + Len(t)
  BY <1>1
<1> QED
  BY <1>1, <1>2, ConcatProperties

LEMMA JoinRight ==
  ASSUME NEW S, NEW s \in Seq(S), NEW t \in Seq(S), NEW i \in Nat, Len(s) < i, i <= Len(s) + Len(t)
  PROVE  (s \o t)[i] = t[i - Len(s)]
<1>1. Len(s) \in Nat /\ Len(t) \in Nat
  OBVIOUS
<1>2. i \in 1..Len(s) + Len(t) /\ ~(i <= Len(s))
  BY <1>1
<1> QED
  BY <1>1, <1>2, ConcatProperties

LEMMA NineSteps ==
  ASSUME NEW S, NEW a \in S, NEW b \in S, NEW c \in S, NEW d \in S, NEW e \in S,
         NEW f \in S, NEW g \in S, NEW h \in S, NEW i \in S
  PROVE  <<a, b, c, d, e, f, g, h, i>> \in Seq(S)
OBVIOUS

\* The third script is put together from three parts: its steps by their place.
LEMMA MptTable ==
  /\ Len(MptRwaDemo) = 17
  /\ \A i \in 1..5 : MptRwaDemo[i] = MptAccounts[i]
  /\ MptRwaDemo[6] = SealStep
  /\ MptRwaDemo[7] = SignerListSet
  /\ MptRwaDemo[8] = DisableMaster("either")
  /\ \A i \in 9..17 : MptRwaDemo[i] = MptTokens[i - 8]
<1> DEFINE quorum == <<SealStep, SignerListSet, DisableMaster("either")>>
           Kinds == {MptAccounts[i] : i \in 1..5} \cup {quorum[i] : i \in 1..3}
                      \cup {MptTokens[i] : i \in 1..9}
           head == MptAccounts \o quorum
<1>1. MptAccounts \in Seq(Kinds) /\ Len(MptAccounts) = 5
  <2>1. \A i \in 1..5 : MptAccounts[i] \in Kinds
    OBVIOUS
  <2> HIDE DEF Kinds
  <2> QED 
    BY <2>1, SMT DEF MptAccounts
<1>2. MptTokens \in Seq(Kinds) /\ Len(MptTokens) = 9
  <2>1. \A i \in 1..9 : MptTokens[i] \in Kinds
    OBVIOUS
  <2> HIDE DEF Kinds
  <2>2. Len(MptTokens) = 9
    BY DEF MptTokens
  <2>3. MptTokens = <<MptTokens[1], MptTokens[2], MptTokens[3], MptTokens[4], MptTokens[5],
                      MptTokens[6], MptTokens[7], MptTokens[8], MptTokens[9]>>
    BY DEF MptTokens
  <2>4. /\ MptTokens[1] \in Kinds /\ MptTokens[2] \in Kinds /\ MptTokens[3] \in Kinds
        /\ MptTokens[4] \in Kinds /\ MptTokens[5] \in Kinds /\ MptTokens[6] \in Kinds
        /\ MptTokens[7] \in Kinds /\ MptTokens[8] \in Kinds /\ MptTokens[9] \in Kinds
    BY <2>1
  <2>5. <<MptTokens[1], MptTokens[2], MptTokens[3], MptTokens[4], MptTokens[5],
          MptTokens[6], MptTokens[7], MptTokens[8], MptTokens[9]>> \in Seq(Kinds)
    BY <2>4, NineSteps
  <2> QED 
    BY <2>2, <2>3, <2>5
<1>3. quorum \in Seq(Kinds) /\ Len(quorum) = 3
  <2>1. \A i \in 1..3 : quorum[i] \in Kinds
    OBVIOUS
  <2> HIDE DEF Kinds
  <2> QED 
    BY <2>1, SMT
<1>4. quorum[1] = SealStep /\ quorum[2] = SignerListSet /\ quorum[3] = DisableMaster("either")
  OBVIOUS
<1>5. MptRwaDemo = head \o MptTokens
  BY DEF MptRwaDemo
<1> HIDE DEF Kinds, quorum
<1>6. /\ head \in Seq(Kinds) /\ Len(head) = Len(MptAccounts) + Len(quorum)
  BY <1>1, <1>3, JoinIsSeq
<1>7. Len(head) = 8
  BY <1>1, <1>3, <1>6
<1>8. \A i \in 1..5 : head[i] = MptAccounts[i]
  BY <1>1, <1>3, JoinLeft
<1>9. ASSUME NEW i \in 6..8 PROVE head[i] = quorum[i - 5]
  <2>1. i \in Nat /\ Len(MptAccounts) < i /\ i <= Len(MptAccounts) + Len(quorum)
    BY <1>1, <1>3
  <2>2. head[i] = quorum[i - Len(MptAccounts)]
    BY <2>1, <1>1, <1>3, JoinRight
  <2> QED
    BY <2>2, <1>1
<1> HIDE DEF head
<1>10. Len(MptRwaDemo) = Len(head) + Len(MptTokens)
  BY <1>2, <1>5, <1>6, JoinIsSeq
<1>11. ASSUME NEW i \in 1..8 PROVE MptRwaDemo[i] = head[i]
  <2>1. i \in Nat /\ 0 < i /\ i <= Len(head)
    BY <1>7
  <2> QED
    BY <2>1, <1>2, <1>5, <1>6, JoinLeft
<1>12. ASSUME NEW i \in 9..17 PROVE MptRwaDemo[i] = MptTokens[i - 8]
  <2>1. i \in Nat /\ Len(head) < i /\ i <= Len(head) + Len(MptTokens)
    BY <1>2, <1>7
  <2>2. MptRwaDemo[i] = MptTokens[i - Len(head)]
    BY <2>1, <1>2, <1>5, <1>6, JoinRight
  <2> QED
    BY <2>2, <1>7
<1> QED
  BY <1>2, <1>4, <1>7, <1>8, <1>9, <1>10, <1>11, <1>12

\* The fields of a funding.
LEMMA FundStep ==
  ASSUME NEW accounts
  PROVE  /\ Fund(accounts).do = "fund" /\ Fund(accounts).about = accounts
         /\ Fund(accounts).skip # "ledger"
BY DEF Fund, Submit

\* The third script: five fundings, then the keystore.
LEMMA MptShaped == Len(MptRwaDemo) = 17 /\ Shaped(MptRwaDemo, 5, 6)
<1> DEFINE s == MptRwaDemo
<1>1. /\ Len(s) = 17
      /\ \A i \in 1..5 : s[i] = MptAccounts[i]
      /\ s[6] = SealStep /\ s[7] = SignerListSet /\ s[8] = DisableMaster("either")
      /\ \A i \in 9..17 : s[i] = MptTokens[i - 8]
  BY MptTable
<1>2. /\ s[1] = MptAccounts[1] /\ s[2] = MptAccounts[2] /\ s[3] = MptAccounts[3]
      /\ s[4] = MptAccounts[4] /\ s[5] = MptAccounts[5]
  BY <1>1
<1>3. /\ s[9] = MptTokens[1] /\ s[10] = MptTokens[2] /\ s[11] = MptTokens[3]
      /\ s[12] = MptTokens[4] /\ s[13] = MptTokens[5] /\ s[14] = MptTokens[6]
      /\ s[15] = MptTokens[7] /\ s[16] = MptTokens[8] /\ s[17] = MptTokens[9]
  BY <1>1
<1>4. /\ MptAccounts[1] = Fund({"treasury"}) /\ MptAccounts[2] = Fund({"exec_signer"})
       /\ MptAccounts[3] = Fund({"auditor_signer"}) /\ MptAccounts[4] = Fund({"issuer"})
       /\ MptAccounts[5] = Fund({"unauth"})
  BY DEF MptAccounts
<1>5. /\ MptTokens[1] = Issuance
     /\ MptTokens[2] = [OptIn("treasury", "quorum") EXCEPT !.tec = "continue"]
     /\ MptTokens[3] = Authorize("treasury")
     /\ MptTokens[4].do = "submit" /\ MptTokens[4].fact = "funded"
     /\ MptTokens[4].skip # "ledger"
     /\ MptTokens[5] = OptIn("exec_signer", "exec_signer")
     /\ MptTokens[6] = Authorize("exec_signer")
     /\ MptTokens[7] = OptIn("unauth", "unauth")
     /\ MptTokens[8].do = "submit" /\ MptTokens[8].fact = "compliant"
     /\ MptTokens[8].skip # "ledger"
     /\ MptTokens[9].do = "read" /\ MptTokens[9].fact = "refused_ok"
     /\ MptTokens[9].skip # "ledger"
  BY DEF MptTokens, Submit, ByQuorum
<1> HIDE DEF s
<1>6. /\ s[1].do = "fund" /\ s[1].about = {"treasury"} /\ s[1].skip # "ledger"
      /\ s[2].do = "fund" /\ s[2].about = {"exec_signer"} /\ s[2].skip # "ledger"
      /\ s[3].do = "fund" /\ s[3].about = {"auditor_signer"} /\ s[3].skip # "ledger"
      /\ s[4].do = "fund" /\ s[4].about = {"issuer"} /\ s[4].skip # "ledger"
      /\ s[5].do = "fund" /\ s[5].about = {"unauth"} /\ s[5].skip # "ledger"
  BY <1>2, <1>4, FundStep
<1>7. s[6].do = "seal" /\ s[6].skip # "ledger"
  BY <1>1 DEF SealStep, Submit
<1>8. s[7].do = "submit" /\ s[7].fact = "signer_list" /\ s[7].about = Trio /\ s[7].skip # "ledger"
  BY <1>1 DEF SignerListSet, Submit
<1>9. /\ s[8].do = "submit" /\ s[8].fact = "master_disabled" /\ s[8].about = {Treasury} /\ s[8].skip # "ledger"
      /\ s[8].needs = {<<"signer_list", Trio>>}
  BY <1>1 DEF DisableMaster, Submit, Treasury
<1>10. s[9].do = "submit" /\ s[9].fact = "issuance" /\ s[9].skip # "ledger"
  BY <1>3, <1>5 DEF Issuance, Submit
<1>11. s[10].do = "submit" /\ s[10].fact = "opted_in" /\ s[10].skip = "ledger" /\ s[10].tec # "flag"
  BY <1>3, <1>5 DEF OptIn, Submit
<1>12. s[11].do = "submit" /\ s[11].fact = "authorized" /\ s[11].skip = "ledger" /\ s[11].tec # "flag"
  BY <1>3, <1>5 DEF Authorize, Submit
<1>13. s[12].do = "submit" /\ s[12].fact = "funded" /\ s[12].skip # "ledger"
  BY <1>3, <1>5
<1>14. s[13].do = "submit" /\ s[13].fact = "opted_in" /\ s[13].skip = "ledger" /\ s[13].tec # "flag"
  BY <1>3, <1>5 DEF OptIn, Submit
<1>15. s[14].do = "submit" /\ s[14].fact = "authorized" /\ s[14].skip = "ledger" /\ s[14].tec # "flag"
  BY <1>3, <1>5 DEF Authorize, Submit
<1>16. s[15].do = "submit" /\ s[15].fact = "opted_in" /\ s[15].skip = "ledger" /\ s[15].tec # "flag"
  BY <1>3, <1>5 DEF OptIn, Submit
<1>17. s[16].do = "submit" /\ s[16].fact = "compliant" /\ s[16].skip # "ledger"
  BY <1>3, <1>5
<1>18. s[17].do = "read" /\ s[17].fact = "refused_ok" /\ s[17].skip # "ledger"
  BY <1>3, <1>5
<1>19. Shaped(s, 5, 6)
  <2> USE <1>6, <1>7, <1>8, <1>9, <1>10, <1>11, <1>12, <1>13, <1>14, <1>15, <1>16, <1>17, <1>18
  <2>1. /\ 5 \in 1..Len(s)
        /\ \A i \in 1..Len(s) : s[i].do = "fund" <=> i <= 5
        /\ \A i \in 1..Len(s) : s[i].do = "seal" <=> i = 6
    BY <1>1
  <2>2. \A i \in 1..Len(s) : s[i].do = "read" \/ s[i].tec = "flag" => s[i].skip # "ledger"
    BY <1>1
  <2>3. \A i, j \in 1..5 : i # j => s[i].about \cap s[j].about = {}
    OBVIOUS
  <2>4. \A i \in 1..Len(s) :
          s[i].do = "submit" /\ s[i].fact = "signer_list" => s[i].about = Trio
    BY <1>1
  <2>5. \A i \in 1..Len(s) :
          s[i].do = "submit" /\ s[i].fact = "master_disabled" =>
            s[i].about = {Treasury} /\ s[i].needs = {<<"signer_list", Trio>>}
    BY <1>1
  <2>6. \A i \in 1..Len(s) :
          s[i].do \in {"submit", "read"} /\ s[i].skip # "ledger" =>
            i \in {7, 8, 9, 12, 16, 17}
    BY <1>1
  <2>7. \A j \in 1..Len(s) :
          s[j].do = "submit" =>
            /\ s[j].fact = "signer_list" => j = 7
            /\ s[j].fact = "master_disabled" => j = 8
            /\ s[j].fact = "issuance" => j = 9
            /\ s[j].fact = "funded" => j = 12
            /\ s[j].fact = "compliant" => j = 16
            /\ s[j].fact # "refused_ok"
    BY <1>1
  <2>8. ASSUME NEW i \in 1..Len(s), NEW j \in 1..Len(s),
               s[i].do \in {"submit", "read"}, s[i].skip # "ledger",
               s[j].do = "submit", s[i].fact = s[j].fact
        PROVE  i = j
    <3>1. i \in {7, 8, 9, 12, 16, 17}
      BY <2>6, <2>8
    <3> QED
      BY <2>7, <2>8, <3>1
  <2> QED
    BY <2>1, <2>3, <2>4, <2>5, <2>8, <2>2 DEF Shaped
<1> QED
  BY <1>1, <1>19 DEF s

\* How many fundings the script begins with, and which step makes the keystore.
Fundings == IF script = "mpt_rwa" THEN 5 ELSE IF script = "credential" THEN 3 ELSE 1
Sealing == IF script = "mpt_rwa" THEN 6 ELSE 0

\* Every script has its shape.
LEMMA StepsShaped ==
  ASSUME script \in Scripts
  PROVE  /\ Shaped(Steps, Fundings, Sealing)
         /\ Len(Steps) \in Nat /\ Sealing <= Len(Steps)
         /\ script \in {"multisig", "agent_wallet"} => Steps[1].about = Trio
         /\ script = "credential" =>
              \A i \in 1..Len(Steps) : Steps[i].fact \notin {"signer_list", "master_disabled"}
<1>1. script \in {"multisig", "agent_wallet", "mpt_rwa", "credential"}
  BY ScriptsAssumption
<1>2. CASE script = "multisig"
  <2>1. Steps = MultisigDemo /\ MultisigDemo[1].about = Trio
    BY <1>2 DEF Steps, MultisigDemo, Fund, Submit
  <2> QED
    BY <1>2, <2>1, MultisigShaped DEF Fundings, Sealing
<1>3. CASE script = "agent_wallet"
  <2>1. Steps = AgentWalletDemo /\ AgentWalletDemo[1].about = Trio
    BY <1>3 DEF Steps, AgentWalletDemo, Fund, Submit
  <2> QED
    BY <1>3, <2>1, AgentWalletShaped DEF Fundings, Sealing
<1>4. CASE script = "mpt_rwa"
  <2>1. Steps = MptRwaDemo
    BY <1>4 DEF Steps
  <2> QED
    BY <1>4, <2>1, MptShaped DEF Fundings, Sealing
<1>5. CASE script = "credential"
  <2>1. Steps = CredentialDemo
    BY <1>5 DEF Steps
  <2> QED
    BY <1>5, <2>1, CredentialShaped DEF Fundings, Sealing
<1> QED
  BY <1>1, <1>2, <1>3, <1>4, <1>5

-----------------------------------------------------------------------------
(* The scripts' invariant.                                                  *)

\* There is a wallet for every one of the aliases.
Named(keys, aliases) == \A a \in aliases : \E k \in keys : k[1] = a
\* The steps that fund accounts.
FundSteps == {i \in 1..Len(Steps) : Steps[i].do = "fund"}
\* Every account of the script has a wallet.
Full(keys) == \A i \in FundSteps : Named(keys, Steps[i].about)
\* The wallets are a dictionary by alias.
OnePerAlias(keys) == \A k, l \in keys : k[1] = l[1] => k = l
\* Each seed was made by a run that has begun.
Dated(keys) == \A k \in keys : k[2] \in 0..runs
\* The types, and that files and memory hold one seed for an alias.
Typed ==
  /\ ProvisionTypeOK
  /\ script \in Scripts
  /\ phase # "run" => step \in 1..Len(Steps)
  /\ stage = "idle" => entries = {}
  /\ OnePerAlias(original.seeds) /\ OnePerAlias(state.keys)
  /\ Dated(original.seeds) /\ Dated(keystore.seeds)

\* The accounts of a step are made together.
Block(keys) ==
  \A i \in FundSteps :
    Named(keys, Steps[i].about) \/ \A k \in keys : k[1] \notin Steps[i].about

\* What has been made by the time a step runs or is saved.
Accounts ==
  /\ Block(wallets) /\ Block(state.keys)
  /\ \A i \in FundSteps : i < step => Named(wallets, Steps[i].about)
  /\ phase # "run" /\ Current.do = "fund" => Named(wallets, Current.about)
  /\ phase # "run" => Current.do # "seal"
  /\ phase = "seal" => script = "agent_wallet" /\ Current.do = "fund"
  /\ script = "multisig" /\ step = 1 /\ phase = "run" => wallets = {}
  /\ script = "multisig" => state.keys = {}
  /\ script # "multisig" /\ step # 0 /\ phase = "run" => state.keys = wallets

\* A flag of these stands for a fact about these wallets.
Truth(keys, flags) ==
  \A i \in 1..Len(Steps) :
    Steps[i].do = "submit" /\ Steps[i].tec # "flag" /\ Steps[i].fact \in flags =>
      /\ \E fact \in ledger :
           /\ fact[1] = Steps[i].fact
           /\ script # "multisig" => fact[2] = OfAliases(keys, Steps[i].about)
      /\ script # "multisig" => Full(keys)

\* So with the flags in memory and with those on disk.
Truthful == Truth(wallets, memory) /\ Truth(state.keys, state.flags)

\* The seeds a file holds, and those thrown away knowingly.
Held == Readable(checkpoint) \cup Readable(keystore) \cup abandoned

\* The signers among these wallets can be signed for.
Kept(keys) ==
  \/ OfAliases(keys, Signers) \subseteq Held
  \/ AdoptedKeystore(OfAliases(keys, Signers))

\* The master key goes only when a list of signers who are kept is there.
Locks ==
  /\ \A fact \in ledger :
       fact[1] = "master_disabled" =>
         \E list \in ledger : list[1] = "signer_list" /\ fact[2] \subseteq list[2]
  /\ \A list \in ledger : list[1] = "signer_list" => Kept(list[2])

\* Wallets either are the ones of the keystore or share no seed with it.
Lineage(keys) ==
  \/ Full(keys) /\ OfAliases(keys, Signers) = keystore.seeds
  \/ keys \cap keystore.seeds = {}

\* When each script has made its signers' seeds safe.
Sealed ==
  /\ script = "multisig" /\ step > 1 => Kept(wallets)
  /\ script = "agent_wallet" => Kept(state.keys)
  /\ script = "agent_wallet" /\ (step > 1 \/ phase \in {"save", "dump"}) => Kept(wallets)
  /\ script = "mpt_rwa" /\ keystore.exists => Lineage(wallets) /\ Lineage(state.keys)
  /\ script = "mpt_rwa" /\ step > 6 => keystore.exists
  /\ script = "mpt_rwa" /\ step \in 1..5 => \A k \in keystore.seeds : k[2] < runs

Setup == Typed /\ Accounts /\ Truthful /\ Locks /\ Sealed

-----------------------------------------------------------------------------

\* At the start nothing has been made.
LEMMA InitSetup == ProvisionInit => Setup
<1> SUFFICES ASSUME ProvisionInit PROVE Setup
  OBVIOUS
<1> USE DEF ProvisionInit, MigrationInit, Missing, File, NoState
<1>1. Typed
  <2>1. script \in Scripts /\ Len(Steps) \in Nat
    BY StepsShaped
  <2>2. /\ OnePerAlias(original.seeds) /\ OnePerAlias(state.keys)
        /\ OnePerAlias(wallets)
    BY SeedsAssumption DEF OnePerAlias
  <2>3. /\ Dated(original.seeds) /\ Dated(keystore.seeds)
        /\ \A k \in wallets \cup state.keys \cup abandoned : k[2] \in 0..runs
    BY SeedsAssumption DEF Dated
  <2>4. MigrationTypeOK
    BY MaxRunsAssumption, PassesAssumption DEF MigrationTypeOK
  <2>5. step \in 0..(Len(Steps) + 1)
    BY <2>1
  <2>6. /\ memory \subseteq {Steps[i].fact : i \in 1..Len(Steps)}
        /\ state.flags \subseteq {Steps[i].fact : i \in 1..Len(Steps)}
    OBVIOUS
  <2>7. ProvisionTypeOK
    <3> HIDE DEF ProvisionInit, MigrationInit
    <3>1. /\ phase = "run" /\ step = 0 /\ wallets = {} /\ memory = {} /\ done = FALSE
      BY DEF ProvisionInit
    <3> QED
      BY <2>2, <2>3, <2>4, <2>5, <2>6, <3>1 DEF ProvisionTypeOK, OnePerAlias
  <2>8. phase = "run" /\ entries = {}
    OBVIOUS
  <2> HIDE DEF ProvisionInit, MigrationInit
  <2> QED
    BY <2>1, <2>2, <2>3, <2>7, <2>8 DEF Typed
<1>2. Accounts
  BY DEF Accounts, Block, FundSteps
<1>3. Truthful
  BY DEF Truthful, Truth
<1>4. Locks
  BY DEF Locks
<1>5. Sealed
  BY StepsShaped DEF Sealed, Kept, OfAliases, Lineage
<1> QED
  BY <1>1, <1>2, <1>3, <1>4, <1>5 DEF Setup

\* A lock stays sound as long as no signer's seed is lost.
LEMMA LocksStable ==
  ASSUME Locks, UNCHANGED <<ledger, script>>,
         OfAliases(Held, Signers) \subseteq Held',
         script = "mpt_rwa" /\ keystore.exists => keystore' = keystore
  PROVE  Locks'
<1>1. ASSUME NEW list \in ledger, list[1] = "signer_list" PROVE Kept(list[2])'
  <2>1. Kept(list[2])
    BY <1>1 DEF Locks
  <2>2. CASE OfAliases(list[2], Signers) \subseteq Held
    BY <2>2 DEF Kept, OfAliases
  <2>3. CASE AdoptedKeystore(OfAliases(list[2], Signers))
    <3>1. keystore' = keystore
      BY <2>3 DEF AdoptedKeystore
    <3> QED
      BY <2>3, <3>1 DEF Kept, AdoptedKeystore, Readable, OfAliases
  <2> QED
    BY <2>1, <2>2, <2>3 DEF Kept
<1> QED
  BY <1>1 DEF Locks

\* The end of a run leaves everything in order.
LEMMA ExitSetup ==
  ASSUME Setup, ExitScript, UNCHANGED <<migrationVars, script, state, ledger, abandoned>>,
         done' \in BOOLEAN
  PROVE  Setup'
<1>1. UNCHANGED <<checkpoint, keystore, tmp, original, runs, stage, entries, pass, options>>
  BY DEF migrationVars, processVars, fileVars
<1>2. Steps' = Steps /\ FundSteps' = FundSteps
  BY StepsSame DEF FundSteps
<1>3. step' = 0 /\ phase' = "run" /\ wallets' = {} /\ memory' = {}
  BY DEF ExitScript
<1>4. Len(Steps) \in Nat
  BY StepsShaped DEF Setup, Typed
<1>5. Typed'
  BY <1>1, <1>2, <1>3, <1>4
  DEF Setup, Typed, ProvisionTypeOK, MigrationTypeOK, OnePerAlias, Dated
<1>6. Accounts'
  BY <1>1, <1>2, <1>3 DEF Setup, Accounts, Block, FundSteps, Named
<1>7. Truthful'
  BY <1>1, <1>2, <1>3 DEF Setup, Truthful, Truth, Full, Named
<1>8. Locks'
  BY <1>1, LocksStable DEF Setup, Held, Readable, OfAliases
<1>9. Sealed'
  BY <1>1, <1>2, <1>3
  DEF Setup, Sealed, Kept, Held, AdoptedKeystore, Readable, OfAliases, Lineage, Full, Named
<1> QED
  BY <1>5, <1>6, <1>7, <1>8, <1>9 DEF Setup

\* Once the accounts are funded, the seeds of the signers are where they stay.
LEMMA RunKept ==
  ASSUME Setup, Migrating, step \in 1..Len(Steps), Current.do \in {"submit", "read"},
         script # "credential"
  PROVE  Kept(wallets)
<1>1. /\ Shaped(Steps, Fundings, Sealing)
      /\ script \in {"multisig", "agent_wallet", "mpt_rwa"}
  BY StepsShaped, ScriptsAssumption DEF Setup, Typed
<1>2. step > Fundings /\ step # Sealing
  BY <1>1 DEF Shaped, Current
<1>3. CASE script = "multisig"
  BY <1>2, <1>3 DEF Setup, Sealed, Fundings
<1>4. CASE script = "agent_wallet"
  BY <1>2, <1>4 DEF Setup, Sealed, Fundings
<1>5. CASE script = "mpt_rwa"
  <2>1. step > 6
    BY <1>2, <1>5 DEF Fundings, Sealing
  <2>2. keystore.exists /\ Lineage(wallets)
    BY <1>5, <2>1 DEF Setup, Sealed
  <2>3. Readable(keystore) = keystore.seeds
    BY <2>2 DEF Migrating, Readable, File, Missing
  <2> QED
    BY <1>5, <2>2, <2>3 DEF Lineage, Kept, Held, AdoptedKeystore, OfAliases
<1> QED
  BY <1>1, <1>3, <1>4, <1>5

\* The result of a transaction or of a closing read, saved or not.
LEMMA ResultSetup ==
  ASSUME Setup, Migrating, step \in 1..Len(Steps), phase = "run",
         Current.do \in {"submit", "read"},
         UNCHANGED <<wallets, migrationVars, script, state, abandoned, done>>,
         ToNextStep \/ ToSave,
         \/ ledger' = ledger
         \/ /\ Current.do = "submit" /\ Facts(Current) \subseteq ledger
            /\ ledger' = ledger \cup {<<Current.fact, Holding(Current.about)>>},
         \/ memory' = memory
         \/ /\ memory' = memory \cup {Current.fact}
            /\ \/ Current.do = "read" \/ Current.tec = "flag"
               \/ /\ Current.skip # "ledger"
                  /\ <<Current.fact, Holding(Current.about)>> \in ledger'
  PROVE  Setup'
<1>1. UNCHANGED <<checkpoint, keystore, tmp, original, runs, stage, entries, pass, options>>
  BY DEF migrationVars, processVars, fileVars
<1>2. Steps' = Steps /\ FundSteps' = FundSteps
  BY StepsSame DEF FundSteps
<1>3. /\ \/ step' = step + 1 /\ phase' = "run"
         \/ step' = step /\ phase' = "save"
      /\ script \in Scripts
  BY DEF ToNextStep, ToSave, Setup, Typed
<1>4. /\ Shaped(Steps, Fundings, Sealing) /\ Len(Steps) \in Nat
      /\ script \in {"multisig", "agent_wallet", "mpt_rwa", "credential"}
  BY <1>3, StepsShaped, ScriptsAssumption
<1>5. step > Fundings /\ step # Sealing
  BY <1>4 DEF Shaped, Current
<1>6. \A i \in FundSteps : i < step
  BY <1>4, <1>5 DEF FundSteps, Shaped, Fundings
<1>7. Full(wallets)
  BY <1>6 DEF Setup, Accounts, Full
<1>8. Typed'
  <2>1. Current.fact \in {Steps[i].fact : i \in 1..Len(Steps)}
    BY DEF Current
  <2>2. /\ memory' \subseteq {Steps[i].fact : i \in 1..Len(Steps)}
        /\ state'.flags \subseteq {Steps[i].fact : i \in 1..Len(Steps)}
    BY <2>1 DEF Setup, Typed, ProvisionTypeOK
  <2>3. step' \in 0..(Len(Steps) + 1) /\ step' # 0 /\ (phase' # "run" => step' \in 1..Len(Steps))
    BY <1>3, <1>4
  <2>4. phase' \in {"run", "save"} /\ stage = "idle"
    BY <1>3 DEF Setup, Typed, ProvisionTypeOK
  <2>5. MigrationTypeOK'
    BY <1>1 DEF Setup, Typed, ProvisionTypeOK, MigrationTypeOK
  <2>6. ProvisionTypeOK'
    BY <1>1, <1>2, <2>2, <2>3, <2>4, <2>5 DEF Setup, Typed, ProvisionTypeOK
  <2> QED
    BY <1>1, <1>2, <1>3, <2>3, <2>6 DEF Setup, Typed, OnePerAlias, Dated
<1>9. Accounts'
  <2>1. Block(wallets)' /\ Block(state.keys)'
    BY <1>2 DEF Setup, Accounts, Block, Named
  <2>2. \A i \in FundSteps' : i < step' => Named(wallets, Steps[i].about)'
    BY <1>2, <1>7 DEF Full, Named
  <2>3. phase' # "run" => Current'.do \notin {"fund", "seal"}
    BY <1>2, <1>3 DEF Current
  <2>4. phase' # "seal" /\ step' # 1
    BY <1>3, <1>4, <1>5 DEF Fundings
  <2>5. /\ script' = "multisig" => state'.keys = {}
        /\ script' # "multisig" /\ step' # 0 /\ phase' = "run" => state'.keys = wallets'
    BY <1>3 DEF Setup, Accounts
  <2> QED
    BY <2>1, <2>2, <2>3, <2>4, <2>5 DEF Accounts
<1>10. Truthful'
  <2>1. ledger \subseteq ledger'
    OBVIOUS
  <2>2. Full(wallets)' /\ (Full(state.keys) => Full(state.keys)')
    BY <1>2, <1>7 DEF Full, Named
  <2>3. Truth(state.keys, state.flags)'
    BY <1>2, <2>1, <2>2 DEF Setup, Truthful, Truth
  <2>4. ASSUME NEW i \in 1..Len(Steps), Steps[i].do = "submit", Steps[i].tec # "flag",
               Steps[i].fact \in memory'
        PROVE  \E fact \in ledger' :
                 /\ fact[1] = Steps[i].fact
                 /\ script = "multisig" \/ fact[2] = OfAliases(wallets, Steps[i].about)
    <3>1. CASE Steps[i].fact \in memory
      BY <2>1, <2>4, <3>1 DEF Setup, Truthful, Truth
    <3>2. CASE Steps[i].fact \notin memory
      <4>1. Current.fact = Steps[i].fact /\ memory' # memory
        BY <2>4, <3>2
      <4>2. Current.skip # "ledger"
        BY <1>4, <4>1 DEF Shaped, Current
      <4>3. i = step
        BY <1>4, <2>4, <4>1, <4>2 DEF Shaped, Current
      <4>4. <<Current.fact, Holding(Current.about)>> \in ledger'
        BY <2>4, <4>1, <4>3 DEF Current
      <4> QED
        BY <4>3, <4>4 DEF Current, Holding
    <3> QED
      BY <3>1, <3>2
  <2>5. Truth(wallets, memory)'
    <3> SUFFICES ASSUME NEW i \in 1..Len(Steps), Steps[i].do = "submit", Steps[i].tec # "flag",
                        Steps[i].fact \in memory'
                 PROVE  /\ \E fact \in ledger' :
                             /\ fact[1] = Steps[i].fact
                             /\ script # "multisig" => fact[2] = OfAliases(wallets, Steps[i].about)
                        /\ Full(wallets)'
      BY <1>2 DEF Truth, OfAliases
    <3> QED
      BY <2>2, <2>4
  <2> QED
    BY <2>3, <2>5 DEF Truthful
<1>11. Locks'
  <2>1. /\ \A list \in ledger : list[1] = "signer_list" => Kept(list[2])'
        /\ \A fact \in ledger : fact[1] = "master_disabled" =>
             \E list \in ledger : list[1] = "signer_list" /\ fact[2] \subseteq list[2]
    BY <1>1 DEF Setup, Locks, Kept, Held, AdoptedKeystore, Readable, OfAliases
  <2>2. CASE ledger' = ledger
    BY <2>1, <2>2 DEF Locks
  <2>3. CASE /\ Current.do = "submit" /\ Facts(Current) \subseteq ledger
             /\ ledger' = ledger \cup {<<Current.fact, Holding(Current.about)>>}
    <3>1. PICK new : new = <<Current.fact, Holding(Current.about)>>
      OBVIOUS
    <3>2. new[1] = Current.fact /\ new[2] = Holding(Current.about)
      BY <3>1
    <3>3. ASSUME Current.fact = "master_disabled"
          PROVE  \E list \in ledger : list[1] = "signer_list" /\ new[2] \subseteq list[2]
      <4>1. Current.about = {Treasury} /\ Current.needs = {<<"signer_list", Trio>>}
        BY <1>4, <2>3, <3>3 DEF Shaped, Current
      <4>2. <<"signer_list", Holding(Trio)>> \in ledger
        BY <2>3, <4>1 DEF Facts
      <4>3. Holding({Treasury}) \subseteq Holding(Trio)
        BY DEF Holding, OfAliases, Trio
      <4> QED
        BY <3>2, <4>1, <4>2, <4>3
    <3>4. ASSUME Current.fact = "signer_list" PROVE Kept(new[2])'
      <4>1. Current.about = Trio
        BY <1>4, <2>3, <3>4 DEF Shaped, Current
      <4>2. script # "credential"
        BY <1>3, <3>4, StepsShaped DEF Current
      <4>3. Kept(wallets)
        BY <4>2, RunKept
      <4>4. OfAliases(Holding(Trio), Signers) = OfAliases(wallets, Signers)
        BY DEF Holding, OfAliases, Trio
      <4>5. Kept(new[2])
        BY <3>2, <4>1, <4>3, <4>4 DEF Kept
      <4> QED
        BY <1>1, <4>5 DEF Kept, Held, AdoptedKeystore, Readable, OfAliases
    <3>5. ledger' = ledger \cup {new}
      BY <2>3, <3>1
    <3> QED
      BY <2>1, <3>3, <3>4, <3>2, <3>5 DEF Locks
  <2> QED
    BY <2>2, <2>3
<1>12. Sealed'
  <2>1. script # "credential" => Kept(wallets)'
    BY <1>1, RunKept DEF Kept, Held, AdoptedKeystore, Readable, OfAliases
  <2>2. script = "agent_wallet" => Kept(state.keys)'
    BY <1>1 DEF Setup, Sealed, Kept, Held, AdoptedKeystore, Readable, OfAliases
  <2>3. script = "mpt_rwa" /\ keystore'.exists => Lineage(wallets)' /\ Lineage(state.keys)'
    BY <1>1, <1>2 DEF Setup, Sealed, Lineage, Full, Named, OfAliases
  <2>4. script = "mpt_rwa" => step > 6 /\ step' \notin 1..5 /\ keystore'.exists
    BY <1>1, <1>3, <1>5 DEF Fundings, Sealing, Setup, Sealed
  <2> QED
    BY <2>1, <2>2, <2>3, <2>4 DEF Sealed
<1> QED
  BY <1>8, <1>9, <1>10, <1>11, <1>12 DEF Setup

\* A step that changes no file, wallet, flag or fact.
LEMMA QuietSetup ==
  ASSUME Setup, UNCHANGED <<migrationVars, script, scriptVars, abandoned>> PROVE Setup'
<1>1. UNCHANGED <<checkpoint, keystore, tmp, original, runs, stage, entries, pass, options>>
  BY DEF migrationVars, processVars, fileVars
<1>2. UNCHANGED <<step, phase, wallets, memory, state, ledger, done>>
  BY DEF scriptVars
<1>3. Steps' = Steps /\ FundSteps' = FundSteps /\ Current' = Current
  BY <1>2, StepsSame, CurrentSame DEF FundSteps
<1>4. Typed'
  BY <1>1, <1>2, <1>3 DEF Setup, Typed, ProvisionTypeOK, MigrationTypeOK, OnePerAlias, Dated
<1>5. Accounts'
  BY <1>2, <1>3 DEF Setup, Accounts, Block, Named
<1>6. Truthful'
  BY <1>2, <1>3 DEF Setup, Truthful, Truth, Full, Named, OfAliases
<1>7. Locks'
  BY <1>1, <1>2, LocksStable DEF Setup, Held, Readable, OfAliases
<1>8. Sealed'
  BY <1>1, <1>2, <1>3
  DEF Setup, Sealed, Kept, Held, AdoptedKeystore, Readable, OfAliases, Lineage, Full, Named
<1> QED
  BY <1>4, <1>5, <1>6, <1>7, <1>8 DEF Setup

\* A run begins with what the state file says.
LEMMA StartSetup == ASSUME Setup, StartScript PROVE Setup'
<1> USE DEF StartScript
<1>1. UNCHANGED <<checkpoint, keystore, tmp, original, stage, entries, pass, options>>
  BY DEF processVars, fileVars
<1>2. Steps' = Steps /\ FundSteps' = FundSteps
  BY StepsSame DEF FundSteps
<1>3. phase = "run" /\ step' = 1 /\ wallets' = state.keys /\ memory' = state.flags
  BY DEF Setup, Typed, ProvisionTypeOK
<1>4. /\ Len(Steps) \in Nat /\ \A i \in FundSteps : ~(i < 1)
      /\ runs \in Nat /\ runs < MaxRuns
  BY MaxRunsAssumption, StepsShaped DEF Setup, Typed, ProvisionTypeOK, MigrationTypeOK, FundSteps
<1>5. /\ runs' = runs + 1 /\ runs' \in 0..MaxRuns
      /\ \A n \in 0..runs : n \in 0..runs' /\ n < runs'
  BY <1>4, MaxRunsAssumption
<1>6. Typed'
  <2>1. MigrationTypeOK'
    BY <1>1, <1>5 DEF Setup, Typed, ProvisionTypeOK, MigrationTypeOK
  <2>2. step' \in 0..(Len(Steps) + 1)
    BY <1>3, <1>4
  <2>3. \A k \in wallets' \cup state'.keys \cup abandoned' : k[2] \in 0..runs'
    BY <1>3, <1>5 DEF Setup, Typed, ProvisionTypeOK
  <2>4. ProvisionTypeOK'
    BY <1>1, <1>2, <1>3, <2>1, <2>2, <2>3 DEF Setup, Typed, ProvisionTypeOK, OnePerAlias
  <2> QED
    BY <1>1, <1>2, <1>3, <1>5, <2>4 DEF Setup, Typed, OnePerAlias, Dated
<1>7. Accounts'
  BY <1>2, <1>3, <1>4 DEF Setup, Accounts, Block, Named
<1>8. Truthful'
  BY <1>2, <1>3 DEF Setup, Truthful, Truth, Full, Named, OfAliases
<1>9. Locks'
  BY <1>1, LocksStable DEF Setup, Held, Readable, OfAliases
<1>10. Sealed'
  <2>1. script = "mpt_rwa" => \A k \in keystore.seeds : k[2] < runs'
    BY <1>5 DEF Setup, Typed, Dated
  <2> QED
    BY <1>1, <1>2, <1>3, <2>1
    DEF Setup, Sealed, Kept, Held, AdoptedKeystore, Readable, OfAliases, Lineage, Full, Named
<1> QED
  BY <1>6, <1>7, <1>8, <1>9, <1>10 DEF Setup

\* The operator removes what no longer parses.
LEMMA RemoveSetup == ASSUME Setup, RemoveTorn PROVE Setup'
<1> USE DEF RemoveTorn
<1>1. UNCHANGED <<keystore, tmp, original, runs, stage, entries, pass, options, script,
                  step, phase, wallets, memory, ledger, done, abandoned>>
  BY DEF processVars
<1>2. Steps' = Steps /\ FundSteps' = FundSteps
  BY <1>1, StepsSame DEF FundSteps
<1>3. step = 0 /\ phase = "run" /\ wallets = {} /\ memory = {}
  BY DEF Setup, Typed, ProvisionTypeOK
<1>4. state' = state \/ (state'.keys = {} /\ state'.flags = {})
  BY DEF NoState
<1>5. Readable(checkpoint') = Readable(checkpoint)
  BY DEF Readable, Missing
<1>6. Typed'
  BY <1>1, <1>2, <1>4 DEF Setup, Typed, ProvisionTypeOK, MigrationTypeOK, OnePerAlias, Dated
<1>7. Accounts'
  BY <1>1, <1>2, <1>3, <1>4 DEF Setup, Accounts, Block, Named
<1>8. Truthful'
  BY <1>1, <1>2, <1>4 DEF Setup, Truthful, Truth, Full, Named, OfAliases
<1>9. Locks'
  BY <1>1, <1>5, LocksStable DEF Setup, Held, Readable, OfAliases
<1>10. Sealed'
  BY <1>1, <1>2, <1>3, <1>4, <1>5
  DEF Setup, Sealed, Kept, Held, AdoptedKeystore, Readable, OfAliases, Lineage, Full, Named
<1> QED
  BY <1>6, <1>7, <1>8, <1>9, <1>10 DEF Setup

\* What the tool takes from one file it has put into the other.
LEMMA MigrateSetup == ASSUME Setup, Migrating, Migrate PROVE Setup'
<1> USE DEF Migrate
<1>1. UNCHANGED <<script, step, phase, wallets, memory, state, ledger, done>>
  BY DEF scriptVars
<1>2. /\ Steps' = Steps /\ FundSteps' = FundSteps
      /\ script = "multisig" /\ step = 0 /\ phase = "run"
  BY <1>1, StepsSame DEF FundSteps, Setup, Typed, ProvisionTypeOK
<1>3. /\ original' = original /\ MigrationNext /\ Overwrites(Readable(keystore'))
      /\ runs \in Nat
  <2>1. original' = original
    BY DEF MigrationNext, MigrationStep, Start, Import, VerifyRoundtrip, OpenTmp, DumpTmp,
           SaveFails, Replace, ShredPass, Unlink, Crash
  <2>2. runs \in Nat
    BY MaxRunsAssumption DEF Setup, Typed, ProvisionTypeOK, MigrationTypeOK
  <2> QED
    BY <2>1, <2>2
<1>4. MigrationTypeOK' /\ (stage' = "idle" => entries' = {})
  <2> USE DEF Setup, Typed, ProvisionTypeOK, MigrationTypeOK, Migrating, processVars,
              fileVars, Exit
  <2>1. ASSUME NEW o, Start(o) PROVE MigrationTypeOK' /\ (stage' = "idle" => entries' = {})
    BY <2>1, MaxRunsAssumption, PassesAssumption DEF Start
  <2>2. CASE Import
    BY <2>2, PassesAssumption DEF Import, Wanted, OfAliases, File
  <2>3. CASE VerifyRoundtrip
    BY <2>3, PassesAssumption DEF VerifyRoundtrip
  <2>4. CASE OpenTmp
    BY <2>4 DEF OpenTmp
  <2>5. CASE DumpTmp
    BY <2>5 DEF DumpTmp
  <2>6. CASE SaveFails
    BY <2>6, PassesAssumption DEF SaveFails
  <2>7. CASE Replace
    BY <2>7, PassesAssumption DEF Replace
  <2>8. CASE ShredPass
    BY <2>8, PassesAssumption DEF ShredPass
  <2>9. CASE Unlink
    BY <2>9, PassesAssumption DEF Unlink
  <2>10. CASE Crash
    BY <2>10, PassesAssumption DEF Crash
  <2> HIDE DEF Setup, MigrationTypeOK
  <2> QED
    BY <1>3, <2>1, <2>2, <2>3, <2>4, <2>5, <2>6, <2>7, <2>8, <2>9, <2>10
    DEF MigrationNext, MigrationStep
<1>5. runs' = runs \/ runs' = runs + 1
  BY <1>3 DEF MigrationNext, MigrationStep, Start, Import, VerifyRoundtrip, OpenTmp, DumpTmp,
              SaveFails, Replace, ShredPass, Unlink, Crash
<1>6. \A n \in 0..runs : n \in 0..runs'
  BY <1>3, <1>5
<1>7. keystore' = keystore \/ keystore'.seeds \subseteq original.seeds
  BY <1>3 DEF MigrationNext, MigrationStep, Start, Import, VerifyRoundtrip, OpenTmp, DumpTmp,
              SaveFails, Replace, ShredPass, Unlink, Crash, fileVars, Migrating, File,
              Setup, Typed, ProvisionTypeOK, MigrationTypeOK
<1>8. OfAliases(Held, Signers) \subseteq Held'
  <2>1. OfAliases(Readable(checkpoint), Signers)
           \subseteq Readable(checkpoint') \cup Readable(keystore')
    BY <1>3 DEF MigrationNext, MigrationStep, Start, Import, VerifyRoundtrip, OpenTmp, DumpTmp,
                SaveFails, Replace, ShredPass, Unlink, Crash, fileVars, Migrating, File,
                Missing, OfAliases, Readable, SignerSeeds
  <2>2. Readable(keystore) \cup abandoned \subseteq Readable(keystore') \cup abandoned'
    BY <1>3 DEF Overwrites
  <2> QED
    BY <2>1, <2>2 DEF Held, Readable, OfAliases
<1>9. Typed'
  <2>1. Dated(original.seeds)' /\ Dated(keystore.seeds)'
    BY <1>3, <1>6, <1>7 DEF Setup, Typed, Dated
  <2>2. \A k \in wallets' \cup state'.keys \cup abandoned' : k[2] \in 0..runs'
    BY <1>1, <1>3, <1>6 DEF Setup, Typed, ProvisionTypeOK, Dated, Overwrites, Readable
  <2>3. ProvisionTypeOK'
    BY <1>1, <1>2, <1>4, <2>2 DEF Setup, Typed, ProvisionTypeOK
  <2> QED
    BY <1>1, <1>2, <1>3, <1>4, <2>1, <2>3 DEF Setup, Typed, OnePerAlias
<1>10. Accounts'
  BY <1>1, <1>2 DEF Setup, Accounts, Block, Named
<1>11. Truthful'
  BY <1>1, <1>2 DEF Setup, Truthful, Truth, Full, Named, OfAliases
<1>12. Locks'
  BY <1>1, <1>2, <1>8, LocksStable DEF Setup
<1>13. Sealed'
  BY <1>1, <1>2 DEF Sealed
<1> QED
  BY <1>9, <1>10, <1>11, <1>12, <1>13 DEF Setup

\* Accounts are funded all at once or found, and never twice in one lineage.
LEMMA FundSetup == ASSUME Setup, Migrating, FundAccounts PROVE Setup'
<1> USE DEF FundAccounts
<1>1. UNCHANGED <<checkpoint, keystore, tmp, original, runs, stage, entries, pass, options,
                  script, state, ledger, done, abandoned, memory>> \/ ExitScript
  BY DEF migrationVars, processVars, fileVars
<1>2. CASE ExitScript
  BY <1>2, ExitSetup DEF Setup, Typed, ProvisionTypeOK
<1>3. CASE ~ExitScript
  <2>1. UNCHANGED <<checkpoint, keystore, tmp, original, runs, stage, entries, pass, options,
                    script, state, ledger, done, abandoned, memory>>
    BY <1>1, <1>3
  <2>2. Steps' = Steps /\ FundSteps' = FundSteps
    BY <2>1, StepsSame DEF FundSteps
  <2>3. /\ Shaped(Steps, Fundings, Sealing) /\ Len(Steps) \in Nat
        /\ script \in {"multisig", "agent_wallet", "mpt_rwa", "credential"}
        /\ script \in {"multisig", "agent_wallet"} => Steps[1].about = Trio
    BY StepsShaped, ScriptsAssumption DEF Setup, Typed
  <2>4. /\ step \in 1..Len(Steps) /\ phase = "run" /\ Current.do = "fund"
        /\ step \in FundSteps /\ Current = Steps[step] /\ stage = "idle"
    BY DEF At, FundSteps, Current, Setup, Typed, ProvisionTypeOK
  <2>5. step <= Fundings /\ \A i \in FundSteps : i \in 1..Fundings
    BY <2>3, <2>4 DEF Shaped, FundSteps, Fundings
  <2>6. script # "mpt_rwa" /\ script # "credential" => step = 1
    BY <2>4, <2>5 DEF Fundings
  <2>7. script = "mpt_rwa" => step \in 1..5
    BY <2>4, <2>5 DEF Fundings
  <2>8. ASSUME script = "multisig" PROVE wallets = {} /\ Current.about = Trio /\ Treasury \in Trio
    BY <2>3, <2>4, <2>6, <2>8 DEF Setup, Accounts, Trio
  <2>9. Locks'
    BY <2>1, LocksStable DEF Setup, Held, Readable, OfAliases
  \* Every account is named already.
  <2>10. ASSUME ToNextStep, Named(wallets', Current.about),
                Block(wallets'), OnePerAlias(wallets'), Dated(wallets'),
                script # "multisig" => wallets' = wallets,
                script = "multisig" => Kept(wallets')
         PROVE  Setup'
    <3>1. step' = step + 1 /\ phase' = "run" /\ step' \in 0..(Len(Steps) + 1) /\ step' # 0
      BY <2>3, <2>4, <2>10 DEF ToNextStep
    <3>2. Typed'
      <4>1. MigrationTypeOK'
        BY <2>1 DEF Setup, Typed, ProvisionTypeOK, MigrationTypeOK
      <4>2. ProvisionTypeOK'
        BY <2>1, <2>2, <2>4, <2>10, <3>1, <4>1
        DEF Setup, Typed, ProvisionTypeOK, OnePerAlias, Dated
      <4> QED
        BY <2>1, <3>1, <4>2 DEF Setup, Typed, OnePerAlias, Dated
    <3>3. Accounts'
      <4>1. Block(wallets)' /\ Block(state.keys)'
        BY <2>1, <2>2, <2>10 DEF Setup, Accounts, Block, Named
      <4>2. ASSUME NEW i \in FundSteps, i < step + 1 PROVE Named(wallets', Steps[i].about)
        <5>1. CASE i = step
          BY <2>4, <2>10, <5>1
        <5>2. CASE i # step
          <6>1. i < step
            BY <2>4, <4>2, <5>2 DEF FundSteps
          <6>2. script # "multisig"
            BY <2>4, <2>6, <6>1 DEF FundSteps
          <6> QED
            BY <2>10, <6>1, <6>2 DEF Setup, Accounts
        <5> QED
          BY <5>1, <5>2
      <4>3. \A i \in FundSteps' : i < step' => Named(wallets, Steps[i].about)'
        BY <2>2, <3>1, <4>2 DEF Named
      <4>4. step' # 1
        BY <2>4, <3>1
      <4> QED
        BY <2>1, <2>4, <2>10, <3>1, <4>1, <4>3, <4>4 DEF Setup, Accounts
    <3>4. Truthful'
      BY <2>1, <2>2, <2>10 DEF Setup, Truthful, Truth, Full, Named, OfAliases
    <3>5. Sealed'
      <4>1. script = "multisig" => Kept(wallets)'
        BY <2>1, <2>10 DEF Kept, Held, AdoptedKeystore, Readable, OfAliases
      <4>2. script = "agent_wallet" => Kept(wallets)' /\ Kept(state.keys)'
        <5>1. script = "agent_wallet" => Kept(state.keys) /\ state.keys = wallets
          BY <2>4 DEF Setup, Sealed, Accounts
        <5> QED
          BY <2>1, <2>10, <5>1 DEF Kept, Held, AdoptedKeystore, Readable, OfAliases
      <4>3. script = "mpt_rwa" /\ keystore.exists =>
              Lineage(wallets)' /\ Lineage(state.keys)'
        BY <2>1, <2>2, <2>10 DEF Setup, Sealed, Lineage, Full, Named, OfAliases
      <4>4. script = "mpt_rwa" => ~(step' > 6) /\ \A k \in keystore.seeds : k[2] < runs
        BY <2>7, <3>1 DEF Setup, Sealed
      <4> QED
        BY <2>1, <4>1, <4>2, <4>3, <4>4 DEF Sealed
    <3> QED
      BY <2>9, <3>2, <3>3, <3>4, <3>5 DEF Setup
  <2>11. CASE script = "multisig" /\ checkpoint.exists
    <3>1. /\ Named(Readable(checkpoint), Trio) /\ ToNextStep /\ wallets' = checkpoint.seeds
      BY <1>3, <2>8, <2>11 DEF Named
    <3>2. checkpoint.whole
      BY <2>8, <2>11, <3>1 DEF Named, Readable
    <3>3. Readable(checkpoint) = checkpoint.seeds /\ checkpoint.seeds = original.seeds
      BY <3>2 DEF Readable, Migrating, File
    <3>4. OnePerAlias(wallets') /\ Dated(wallets')
      BY <3>1, <3>3 DEF Setup, Typed
    <3>5. Named(wallets', Current.about) /\ Kept(wallets')
      BY <2>8, <2>11, <3>1, <3>3 DEF Kept, Held, OfAliases
    <3>6. Block(wallets')
      <4>1. \A i \in FundSteps : i = step
        BY <2>4, <2>5, <2>11 DEF Fundings
      <4> QED
        BY <2>4, <3>5, <4>1 DEF Block
    <3> QED
      BY <2>10, <2>11, <3>1, <3>4, <3>5, <3>6
  <2>12. CASE ~(script = "multisig" /\ checkpoint.exists) /\ Named(wallets, Current.about)
    <3>1. script # "multisig"
      BY <2>8, <2>12 DEF Named
    <3>2. ToNextStep /\ wallets' = wallets
      BY <2>12 DEF Named
    <3>3. Block(wallets) /\ OnePerAlias(wallets) /\ Dated(wallets)
      BY DEF Setup, Accounts, Typed, ProvisionTypeOK, OnePerAlias, Dated
    <3>4. Named(wallets', Current.about) /\ Block(wallets') /\ OnePerAlias(wallets')
          /\ Dated(wallets')
      BY <2>12, <3>2, <3>3
    <3> QED
      BY <2>10, <3>1, <3>2, <3>4
  <2>13. CASE ~(script = "multisig" /\ checkpoint.exists) /\ ~Named(wallets, Current.about)
    <3> DEFINE created == {<<a, runs>> : a \in Current.about}
    <3>1. /\ wallets' = wallets \cup created /\ step' = step
          /\ phase' = IF script = "agent_wallet" THEN "seal" ELSE "save"
      BY <2>13 DEF Named
    <3>2. Current' = Current
      BY <2>1, <3>1, CurrentSame
    <3>3. /\ \A k \in wallets : k[1] \notin Current.about
          /\ \A k \in created : k[1] \in Current.about /\ k[2] = runs
          /\ \A k, l \in created : k[1] = l[1] => k = l
      BY <2>4, <2>13 DEF Setup, Accounts, Block
    <3>4. Named(wallets', Current.about)
      <4> SUFFICES ASSUME NEW a \in Current.about PROVE \E k \in wallets' : k[1] = a
        BY DEF Named
      <4>1. <<a, runs>> \in wallets' /\ <<a, runs>>[1] = a
        BY <3>1
      <4> QED
        BY <4>1
    <3>5. runs \in 0..runs
      BY MaxRunsAssumption DEF Setup, Typed, ProvisionTypeOK, MigrationTypeOK
    <3>6. Typed'
      <4>1. MigrationTypeOK'
        BY <2>1 DEF Setup, Typed, ProvisionTypeOK, MigrationTypeOK
      <4>2. \A k, l \in wallets' : k[1] = l[1] => k = l
        BY <3>1, <3>3 DEF Setup, Typed, ProvisionTypeOK
      <4>3. \A k \in wallets' \cup state'.keys \cup abandoned' : k[2] \in 0..runs'
        BY <2>1, <3>1, <3>3, <3>5 DEF Setup, Typed, ProvisionTypeOK
      <4>4. phase' \in {"seal", "save"} /\ step' \in 1..Len(Steps) /\ step' # 0
            /\ step' \in 0..(Len(Steps) + 1)
        BY <2>3, <2>4, <3>1
      <4>5. ProvisionTypeOK'
        BY <2>1, <2>2, <2>4, <4>1, <4>2, <4>3, <4>4 DEF Setup, Typed, ProvisionTypeOK
      <4> QED
        BY <2>1, <2>2, <4>4, <4>5 DEF Setup, Typed, OnePerAlias, Dated
    <3>7. Accounts'
      <4>1. ASSUME NEW i \in FundSteps
            PROVE  \/ Named(wallets', Steps[i].about)
                   \/ \A k \in wallets' : k[1] \notin Steps[i].about
        <5>1. CASE i = step
          BY <2>4, <3>4, <5>1
        <5>2. CASE i # step
          <6>1. Steps[i].about \cap Steps[step].about = {}
            BY <2>3, <2>4, <2>5, <5>2 DEF Shaped
          <6>2. \/ Named(wallets, Steps[i].about)
                \/ \A k \in wallets : k[1] \notin Steps[i].about
            BY DEF Setup, Accounts, Block
          <6> QED
            BY <2>4, <3>1, <3>3, <6>1, <6>2 DEF Named
        <5> QED
          BY <5>1, <5>2
      <4>2. Block(wallets)' /\ Block(state.keys)'
        BY <2>1, <2>2, <4>1 DEF Setup, Accounts, Block, Named
      <4>3. \A i \in FundSteps' : i < step' => Named(wallets, Steps[i].about)'
        BY <2>2, <3>1 DEF Setup, Accounts, Named
      <4>4. Current'.do = "fund" /\ Named(wallets, Current.about)'
        BY <2>4, <3>2, <3>4 DEF Named
      <4>5. phase' # "run" /\ (phase' = "seal" => script = "agent_wallet")
        BY <3>1
      <4> QED
        BY <2>1, <4>2, <4>3, <4>4, <4>5 DEF Setup, Accounts
    <3>8. ~Full(wallets)
      BY <2>4, <2>13 DEF Full
    <3>9. Truthful'
      <4>1. script # "multisig" =>
              \A i \in 1..Len(Steps) :
                ~(Steps[i].do = "submit" /\ Steps[i].tec # "flag" /\ Steps[i].fact \in memory)
        BY <3>8 DEF Setup, Truthful, Truth
      <4>2. Truth(wallets, memory)'
        BY <2>1, <2>2, <4>1 DEF Setup, Truthful, Truth
      <4>3. Truth(state.keys, state.flags)'
        BY <2>1, <2>2 DEF Setup, Truthful, Truth, Full, Named, OfAliases
      <4> QED
        BY <4>2, <4>3 DEF Truthful
    <3>10. Sealed'
      <4>1. script = "mpt_rwa" /\ keystore.exists => wallets' \cap keystore.seeds = {}
        <5>1. script = "mpt_rwa" /\ keystore.exists => wallets \cap keystore.seeds = {}
          BY <3>8 DEF Setup, Sealed, Lineage
        <5>2. script = "mpt_rwa" => \A k \in keystore.seeds : k[2] < runs
          BY <2>7 DEF Setup, Sealed
        <5>3. \A k \in created : ~(k[2] < runs)
          BY <3>3, <3>5
        <5> QED
          BY <3>1, <5>1, <5>2, <5>3
      <4>2. script = "mpt_rwa" /\ keystore.exists =>
              Lineage(wallets)' /\ Lineage(state.keys)'
        BY <2>1, <2>2, <4>1 DEF Setup, Sealed, Lineage, Full, Named, OfAliases
      <4>3. script \in {"multisig", "agent_wallet"} => ~(step' > 1)
        BY <2>6, <3>1
      <4>4. script = "agent_wallet" => phase' = "seal" /\ Kept(state.keys)'
        BY <2>1, <3>1 DEF Setup, Sealed, Kept, Held, AdoptedKeystore, Readable, OfAliases
      <4>5. script = "mpt_rwa" => ~(step' > 6) /\ \A k \in keystore.seeds : k[2] < runs
        BY <2>7, <3>1 DEF Setup, Sealed
      <4> QED
        BY <2>1, <4>2, <4>3, <4>4, <4>5 DEF Sealed
    <3> QED
      BY <2>9, <3>6, <3>7, <3>9, <3>10 DEF Setup
  <2> QED
    BY <2>11, <2>12, <2>13
<1> QED
  BY <1>2, <1>3

\* The keystore that is made holds the seeds of the run's accounts, and what it
\* replaces is put down as abandoned.
LEMMA SealSetup == ASSUME Setup, Migrating, Seal PROVE Setup'
<1> USE DEF Seal
<1>1. /\ UNCHANGED <<checkpoint, tmp, original, runs, stage, entries, pass, options, script,
                      state, ledger, done, wallets, memory>>
      /\ keystore' = File(Holding(Signers), TRUE)
      /\ abandoned' = abandoned \cup (Readable(keystore) \ Holding(Signers))
  BY DEF processVars, Overwrites
<1>2. Steps' = Steps /\ FundSteps' = FundSteps
  BY <1>1, StepsSame DEF FundSteps
<1>3. /\ Shaped(Steps, Fundings, Sealing) /\ Len(Steps) \in Nat
      /\ script \in {"multisig", "agent_wallet", "mpt_rwa", "credential"}
  BY StepsShaped, ScriptsAssumption DEF Setup, Typed
<1>4. step \in 1..Len(Steps) /\ step \in 0..(Len(Steps) + 1) /\ stage = "idle" /\ Current = Steps[step]
  BY <1>3 DEF At, Setup, Typed, ProvisionTypeOK, Current
<1>5. /\ keystore'.exists /\ keystore'.seeds = OfAliases(wallets, Signers)
      /\ Readable(keystore') = OfAliases(wallets, Signers)
  BY <1>1 DEF File, Readable, Holding
<1>6. Readable(keystore) \subseteq keystore.seeds
  BY DEF Readable
<1>7. OfAliases(Held, Signers) \subseteq Held'
  BY <1>1, <1>5 DEF Held, Holding, OfAliases, Readable
<1>8. MigrationTypeOK'
  BY <1>1 DEF Setup, Typed, ProvisionTypeOK, MigrationTypeOK
<1>9. /\ \A k \in wallets' \cup state'.keys \cup abandoned' : k[2] \in 0..runs'
      /\ Dated(keystore.seeds)'
  BY <1>1, <1>5, <1>6 DEF Setup, Typed, ProvisionTypeOK, Dated, OfAliases
<1>10. Kept(wallets)'
  BY <1>1, <1>5 DEF Kept, Held, OfAliases
<1>11. CASE phase = "seal"
  <2>1. script = "agent_wallet" /\ Current.do = "fund" /\ step' = step /\ phase' = "save"
    BY <1>11 DEF Setup, Accounts, ToSave
  <2>2. Current' = Current
    BY <1>1, <2>1, CurrentSame
  <2>3. Typed'
    <3>1. ProvisionTypeOK'
      BY <1>1, <1>2, <1>4, <1>8, <1>9, <2>1 DEF Setup, Typed, ProvisionTypeOK
    <3> QED
      BY <1>1, <1>2, <1>4, <1>9, <2>1, <3>1 DEF Setup, Typed, OnePerAlias, Dated
  <2>4. Accounts'
    BY <1>1, <1>2, <1>11, <2>1, <2>2 DEF Setup, Accounts, Block, Named
  <2>5. Truthful'
    BY <1>1, <1>2 DEF Setup, Truthful, Truth, Full, Named, OfAliases
  <2>6. Locks'
    BY <1>1, <1>7, <2>1, LocksStable DEF Setup
  <2>7. Kept(state.keys)'
    BY <1>1, <1>7, <2>1 DEF Setup, Sealed, Kept, AdoptedKeystore, OfAliases
  <2> QED
    BY <1>1, <1>10, <2>1, <2>3, <2>4, <2>5, <2>6, <2>7 DEF Setup, Sealed
<1>12. CASE phase # "seal"
  <2>1. ~keystore.exists /\ phase = "run" /\ Current.do = "seal" /\ step' = step + 1 /\ phase' = "run"
    BY <1>12 DEF At, ToNextStep
  <2>2. script = "mpt_rwa" /\ step = 6
    BY <1>3, <1>4, <2>1 DEF Shaped, Sealing
  <2>3. step' = 7 /\ step' \in 0..(Len(Steps) + 1)
    BY <1>3, <1>4, <2>1, <2>2
  <2>4. /\ \A i \in FundSteps : i < step
        /\ state.keys = wallets
    BY <1>3, <2>1, <2>2 DEF Shaped, FundSteps, Fundings, Setup, Accounts
  <2>5. Full(wallets)
    BY <2>4 DEF Setup, Accounts, Full
  <2>6. Typed'
    <3>1. ProvisionTypeOK'
      BY <1>1, <1>2, <1>4, <1>8, <1>9, <2>1, <2>3 DEF Setup, Typed, ProvisionTypeOK
    <3> QED
      BY <1>1, <1>2, <1>4, <1>9, <2>1, <2>3, <3>1 DEF Setup, Typed, OnePerAlias, Dated
  <2>7. Accounts'
    BY <1>1, <1>2, <2>1, <2>2, <2>3, <2>4, <2>5 DEF Setup, Accounts, Block, Named, Full
  <2>8. Truthful'
    BY <1>1, <1>2 DEF Setup, Truthful, Truth, Full, Named, OfAliases
  <2>9. Locks'
    BY <1>1, <1>7, <2>1, LocksStable DEF Setup
  <2>10. Lineage(wallets)' /\ Lineage(state.keys)'
    BY <1>1, <1>2, <1>5, <2>4, <2>5 DEF Lineage, Full, Named, OfAliases
  <2>11. script' = "mpt_rwa" /\ step' \notin 1..5
    BY <1>1, <2>2, <2>3
  <2> QED
    BY <1>5, <2>6, <2>7, <2>8, <2>9, <2>10, <2>11 DEF Setup, Sealed
<1> QED
  BY <1>11, <1>12

\* A keystore that is there is taken as it is.
LEMMA AdoptSetup ==
  ASSUME Setup, Migrating, At("seal"), keystore.exists, ToNextStep,
         UNCHANGED <<wallets, memory, migrationVars, script, state, ledger, done, abandoned>>
  PROVE  Setup'
<1>1. UNCHANGED <<checkpoint, keystore, tmp, original, runs, stage, entries, pass, options>>
  BY DEF migrationVars, processVars, fileVars
<1>2. Steps' = Steps /\ FundSteps' = FundSteps
  BY <1>1, StepsSame DEF FundSteps
<1>3. /\ Shaped(Steps, Fundings, Sealing) /\ Len(Steps) \in Nat
  BY StepsShaped DEF Setup, Typed
<1>4. /\ step \in 1..Len(Steps) /\ Current.do = "seal" /\ Current = Steps[step]
      /\ step' = step + 1 /\ phase = "run" /\ phase' = "run"
  BY DEF At, Current, ToNextStep
<1>5. script = "mpt_rwa" /\ step = 6
  BY <1>3, <1>4 DEF Shaped, Sealing
<1>6. step' = 7 /\ step' \in 0..(Len(Steps) + 1) /\ stage = "idle"
  BY <1>3, <1>4, <1>5 DEF Setup, Typed, ProvisionTypeOK
<1>7. \A i \in FundSteps : i < step
  BY <1>3, <1>5 DEF Shaped, FundSteps, Fundings
<1>8. Typed'
  <2>1. ProvisionTypeOK'
    BY <1>1, <1>2, <1>4, <1>6 DEF Setup, Typed, ProvisionTypeOK, MigrationTypeOK
  <2> QED
    BY <1>1, <1>2, <1>4, <1>6, <2>1 DEF Setup, Typed, OnePerAlias, Dated
<1>9. Accounts'
  BY <1>1, <1>2, <1>4, <1>5, <1>6, <1>7 DEF Setup, Accounts, Block, Named
<1>10. Truthful'
  BY <1>1, <1>2 DEF Setup, Truthful, Truth, Full, Named, OfAliases
<1>11. Locks'
  BY <1>1, LocksStable DEF Setup, Held, Readable, OfAliases
<1>12. Lineage(wallets)' /\ Lineage(state.keys)'
  BY <1>1, <1>2, <1>5 DEF Setup, Sealed, Lineage, Full, Named, OfAliases
<1>13. script' = "mpt_rwa" /\ step' \notin 1..5 /\ keystore'.exists
  BY <1>1, <1>5, <1>6
<1> QED
  BY <1>8, <1>9, <1>10, <1>11, <1>12, <1>13 DEF Setup, Sealed

\* A save empties the file first; of the checkpoint only what the keystore holds.
LEMMA OpenSetup == ASSUME Setup, Migrating, Scripting, SaveOpen PROVE Setup'
<1> USE DEF SaveOpen
<1>1. /\ UNCHANGED <<keystore, tmp, original, runs, stage, entries, pass, options, script, step,
                      ledger, done, abandoned, wallets, memory>>
      /\ phase = "save" /\ phase' = "dump"
  BY DEF processVars
<1>2. Steps' = Steps /\ FundSteps' = FundSteps /\ Current' = Current
  BY <1>1, StepsSame, CurrentSame DEF FundSteps
<1>3. state' = state \/ (state'.keys = {} /\ state'.flags = {})
  BY DEF NoState
<1>4. OfAliases(Held, Signers) \subseteq Held'
  <2>1. CASE ToCheckpoint
    <3>1. SignerSeeds \subseteq Readable(keystore)
      BY <1>1, <2>1 DEF Scripting
    <3>2. OfAliases(Readable(checkpoint), Signers) \subseteq Readable(keystore)
      BY <3>1 DEF Migrating, File, Readable, SignerSeeds, OfAliases
    <3> QED
      BY <1>1, <3>2 DEF Held, Readable, OfAliases
  <2>2. CASE ~ToCheckpoint
    BY <1>1, <2>2 DEF Held, Readable, OfAliases
  <2> QED
    BY <2>1, <2>2
<1>5. Typed'
  <2>1. step \in 1..Len(Steps) /\ MigrationTypeOK'
    BY <1>1 DEF Setup, Typed, ProvisionTypeOK, MigrationTypeOK
  <2>2. ProvisionTypeOK'
    BY <1>1, <1>2, <1>3, <2>1 DEF Setup, Typed, ProvisionTypeOK
  <2> QED
    BY <1>1, <1>2, <1>3, <2>1, <2>2 DEF Setup, Typed, OnePerAlias, Dated
<1>6. Accounts'
  <2>1. Block(wallets)' /\ Block(state.keys)'
    BY <1>1, <1>2, <1>3 DEF Setup, Accounts, Block, Named
  <2>2. \A i \in FundSteps' : i < step' => Named(wallets, Steps[i].about)'
    BY <1>1, <1>2 DEF Setup, Accounts, Named
  <2>3. Current.do = "fund" => Named(wallets, Current.about)'
    BY <1>1, <1>2 DEF Setup, Accounts, Named
  <2>4. Current.do # "seal" /\ (script = "multisig" => state'.keys = {})
    BY <1>1, <1>3 DEF Setup, Accounts
  <2> QED
    BY <1>1, <1>2, <2>1, <2>2, <2>3, <2>4 DEF Accounts
<1>7. Truthful'
  BY <1>1, <1>2, <1>3 DEF Setup, Truthful, Truth, Full, Named, OfAliases
<1>8. Locks'
  BY <1>1, <1>4, LocksStable DEF Setup
<1>9. Sealed'
  <2>1. Kept(wallets) => Kept(wallets)'
    BY <1>1, <1>4 DEF Kept, AdoptedKeystore, OfAliases, Readable
  <2>2. Kept(state.keys) => Kept(state.keys)'
    BY <1>1, <1>3, <1>4 DEF Kept, AdoptedKeystore, OfAliases, Readable
  <2>3. /\ Lineage(wallets) => Lineage(wallets)'
        /\ Lineage(state.keys) => Lineage(state.keys)'
    BY <1>1, <1>2, <1>3 DEF Lineage, Full, Named, OfAliases
  <2> QED
    BY <1>1, <2>1, <2>2, <2>3 DEF Setup, Sealed
<1> QED
  BY <1>5, <1>6, <1>7, <1>8, <1>9 DEF Setup

\* The file then names what is in memory.
LEMMA DumpSetup == ASSUME Setup, Migrating, Scripting, SaveDump PROVE Setup'
<1> USE DEF SaveDump
<1>1. /\ UNCHANGED <<keystore, tmp, runs, stage, entries, pass, options, script,
                      ledger, done, abandoned, wallets, memory>>
      /\ phase = "dump" /\ step' = step + 1 /\ phase' = "run"
  BY DEF processVars, ToNextStep
<1>2. Steps' = Steps /\ FundSteps' = FundSteps
  BY <1>1, StepsSame DEF FundSteps
<1>3. /\ Shaped(Steps, Fundings, Sealing) /\ Len(Steps) \in Nat
      /\ script \in {"multisig", "agent_wallet", "mpt_rwa", "credential"}
      /\ step \in 1..Len(Steps) /\ Current = Steps[step] /\ stage = "idle" /\ entries = {}
  BY <1>1, StepsShaped, ScriptsAssumption DEF Setup, Typed, ProvisionTypeOK, Current
<1>4. step' \in 0..(Len(Steps) + 1) /\ step' > 1 /\ step # Sealing
  BY <1>1, <1>3 DEF Shaped, Setup, Accounts
<1> DEFINE Dumped == [exists |-> TRUE, whole |-> TRUE, flags |-> memory,
                       keys |-> IF script = "multisig" THEN {} ELSE wallets]
<1>5. Dumped.flags = memory /\ Dumped.keys = IF script = "multisig" THEN {} ELSE wallets
  OBVIOUS
<1>6. ToCheckpoint => /\ checkpoint' = File(wallets, TRUE) /\ state' = state
                      /\ original' = [seeds |-> wallets, wrong |-> {}]
  OBVIOUS
<1>7. ~ToCheckpoint => UNCHANGED <<checkpoint, original>> /\ state' = Dumped
  OBVIOUS
<1> HIDE DEF Dumped
<1>8. /\ ToCheckpoint => /\ checkpoint' = File(wallets, TRUE) /\ state' = state
                         /\ original' = [seeds |-> wallets, wrong |-> {}]
      /\ ~ToCheckpoint =>
           /\ UNCHANGED <<checkpoint, original>>
           /\ state'.flags = memory
           /\ state'.keys = IF script = "multisig" THEN {} ELSE wallets
  BY <1>5, <1>6, <1>7
<1>9. state' = state \/ (state'.flags = memory /\ state'.keys = IF script = "multisig" THEN {} ELSE wallets)
  BY <1>8
<1>10. OnePerAlias(wallets) /\ Dated(wallets)
  BY DEF Setup, Typed, ProvisionTypeOK, OnePerAlias, Dated
<1>11. original'.seeds = original.seeds \/ original'.seeds = wallets
  <2>1. CASE ToCheckpoint
    BY <1>6, <2>1
  <2>2. CASE ~ToCheckpoint
    BY <1>7, <2>2
  <2> QED
    BY <2>1, <2>2
<1>12. OfAliases(Held, Signers) \subseteq Held'
  <2>1. CASE ToCheckpoint
    <3>1. SignerSeeds \subseteq Readable(keystore)
      BY <1>1, <2>1 DEF Scripting
    <3>2. OfAliases(Readable(checkpoint), Signers) \subseteq Readable(keystore)
      BY <3>1 DEF Migrating, File, Readable, SignerSeeds, OfAliases
    <3> QED
      BY <1>1, <3>2 DEF Held, Readable, OfAliases
  <2>2. CASE ~ToCheckpoint
    BY <1>1, <1>8, <2>2 DEF Held, Readable, OfAliases
  <2> QED
    BY <2>1, <2>2
<1>13. Kept(wallets) => Kept(wallets)'
  BY <1>1, <1>12 DEF Kept, AdoptedKeystore, OfAliases, Readable
<1>14. Typed'
  <2>1. MigrationTypeOK'
    BY <1>1, <1>3 DEF Setup, Typed, ProvisionTypeOK, MigrationTypeOK
  <2>2. \A k \in wallets' \cup state'.keys \cup abandoned' : k[2] \in 0..runs'
    BY <1>1, <1>9 DEF Setup, Typed, ProvisionTypeOK
  <2>3. state'.flags \subseteq {Steps[i].fact : i \in 1..Len(Steps)}
    BY <1>9 DEF Setup, Typed, ProvisionTypeOK
  <2>4. ProvisionTypeOK'
    BY <1>1, <1>2, <1>3, <1>4, <2>1, <2>2, <2>3 DEF Setup, Typed, ProvisionTypeOK
  <2>5. OnePerAlias(original.seeds)' /\ OnePerAlias(state.keys)'
    BY <1>9, <1>10, <1>11 DEF Setup, Typed, OnePerAlias
  <2>6. Dated(original.seeds)' /\ Dated(keystore.seeds)'
    BY <1>1, <1>10, <1>11 DEF Setup, Typed, Dated
  <2> QED
    BY <1>1, <1>2, <1>3, <2>4, <2>5, <2>6 DEF Setup, Typed
<1>15. Accounts'
  <2>1. Block(wallets)'
    BY <1>1, <1>2 DEF Setup, Accounts, Block, Named
  <2>2. Block(state.keys)'
    BY <1>2, <1>9 DEF Setup, Accounts, Block, Named
  <2>3. ASSUME NEW i \in FundSteps, i < step + 1 PROVE Named(wallets, Steps[i].about)
    <3>1. CASE i = step
      BY <1>1, <1>3, <3>1 DEF Setup, Accounts, FundSteps
    <3>2. CASE i # step
      <4>1. i < step
        BY <1>3, <2>3, <3>2 DEF FundSteps
      <4> QED
        BY <4>1 DEF Setup, Accounts
    <3> QED
      BY <3>1, <3>2
  <2>4. \A i \in FundSteps' : i < step' => Named(wallets, Steps[i].about)'
    BY <1>1, <1>2, <2>3 DEF Named
  <2>5. script = "multisig" => state'.keys = {}
    BY <1>9 DEF Setup, Accounts
  <2>6. script # "multisig" => state'.keys = wallets'
    BY <1>1, <1>8 DEF ToCheckpoint
  <2> QED
    BY <1>1, <1>4, <2>1, <2>2, <2>4, <2>5, <2>6 DEF Accounts
<1>16. Truthful'
  <2>1. Truth(wallets, memory)'
    BY <1>1, <1>2 DEF Setup, Truthful, Truth, Full, Named, OfAliases
  <2>2. CASE state' = state
    <3>1. Truth(state.keys, state.flags)'
      BY <1>1, <1>2, <2>2 DEF Setup, Truthful, Truth, Full, Named, OfAliases
    <3> QED
      BY <2>1, <3>1 DEF Truthful
  <2>3. CASE state'.flags = memory /\ (script # "multisig" => state'.keys = wallets)
    <3>1. Truth(state.keys, state.flags)'
      BY <1>1, <1>2, <2>3 DEF Setup, Truthful, Truth, Full, Named, OfAliases
    <3> QED
      BY <2>1, <3>1 DEF Truthful
  <2> QED
    BY <1>9, <2>2, <2>3
<1>17. Locks'
  BY <1>1, <1>12, LocksStable DEF Setup
<1>18. Sealed'
  <2>1. script = "multisig" => Kept(wallets)'
    <3>1. CASE script = "multisig" /\ step > 1
      BY <1>13, <3>1 DEF Setup, Sealed
    <3>2. CASE script = "multisig" /\ ~(step > 1)
      <4>1. ToCheckpoint
        BY <1>3, <3>2 DEF Shaped, ToCheckpoint, Fundings
      <4>2. Readable(checkpoint') = wallets
        BY <1>8, <4>1 DEF Readable, File
      <4> QED
        BY <1>1, <4>2 DEF Kept, Held, OfAliases
    <3> QED
      BY <3>1, <3>2
  <2>2. script = "agent_wallet" => Kept(wallets)' /\ Kept(state.keys)'
    <3>1. script = "agent_wallet" => Kept(wallets) /\ state'.keys = wallets
      BY <1>1, <1>8 DEF Setup, Sealed, ToCheckpoint
    <3> QED
      BY <1>1, <1>12, <3>1 DEF Kept, AdoptedKeystore, OfAliases, Readable
  <2>3. script = "mpt_rwa" /\ keystore.exists => Lineage(wallets)' /\ Lineage(state.keys)'
    <3>1. script = "mpt_rwa" => state'.keys = wallets
      BY <1>8 DEF ToCheckpoint
    <3> QED
      BY <1>1, <1>2, <3>1 DEF Setup, Sealed, Lineage, Full, Named, OfAliases
  <2>4. script = "mpt_rwa" =>
          /\ step' > 6 => keystore.exists
          /\ step' \in 1..5 => \A k \in keystore.seeds : k[2] < runs
    BY <1>1, <1>3, <1>4 DEF Sealing, Setup, Sealed
  <2> QED
    BY <1>1, <2>1, <2>2, <2>3, <2>4 DEF Sealed
<1> QED
  BY <1>14, <1>15, <1>16, <1>17, <1>18 DEF Setup

\* Each step of a script leaves the accounts, the flags and the lock in order.
LEMMA ScriptSetup == ASSUME Setup, Migrating, Scripting, ScriptStep PROVE Setup'
<1>1. CASE FundAccounts
  BY <1>1, FundSetup
<1>2. CASE Seal
  BY <1>2, SealSetup
<1>3. CASE SkipStep
  <2>1. ToNextStep /\ UNCHANGED <<wallets, memory, migrationVars, script, state, ledger, done,
                                  abandoned>>
    BY <1>3 DEF SkipStep
  <2>2. CASE At("seal") /\ keystore.exists
    BY <2>1, <2>2, AdoptSetup
  <2>3. CASE At("submit")
    BY <2>1, <2>3, ResultSetup DEF At
  <2> QED
    BY <1>3, <2>2, <2>3 DEF SkipStep
<1>4. CASE FindDone
  <2>1. /\ At("submit") /\ Current.skip = "either" /\ OnLedger(Current)
        /\ ToSave /\ memory' = memory \cup {Current.fact}
        /\ UNCHANGED <<wallets, migrationVars, script, state, ledger, done, abandoned>>
    BY <1>4 DEF FindDone
  <2> QED
    BY <2>1, ResultSetup DEF At, OnLedger
<1>5. CASE SubmitLands
  <2>1. /\ At("submit") /\ Facts(Current) \subseteq ledger
        /\ ledger' = ledger \cup {<<Current.fact, Holding(Current.about)>>}
        /\ UNCHANGED <<wallets, migrationVars, script, state, done, abandoned>>
    BY <1>5 DEF SubmitLands, Submits, Applies
  <2>2. /\ ToNextStep \/ ToSave
        /\ \/ memory' = memory
           \/ memory' = memory \cup {Current.fact} /\ Current.skip # "ledger"
    BY <1>5 DEF SubmitLands, Onward
  <2> QED
    BY <2>1, <2>2, ResultSetup DEF At
<1>6. CASE SubmitFails
  <2>1. /\ At("submit")
        /\ UNCHANGED <<migrationVars, script, state, ledger, done, abandoned>>
    BY <1>6 DEF SubmitFails, Submits
  <2>2. CASE ExitScript
    BY <2>1, <2>2, ExitSetup DEF Setup, Typed, ProvisionTypeOK
  <2>3. CASE ~ExitScript
    <3>1. /\ ToNextStep \/ ToSave
          /\ wallets' = wallets
          /\ \/ memory' = memory
             \/ memory' = memory \cup {Current.fact} /\ Current.tec = "flag"
      BY <1>6, <2>3 DEF SubmitFails, Onward
    <3> QED
      BY <2>1, <3>1, ResultSetup DEF At
  <2> QED
    BY <2>2, <2>3
<1>7. CASE SubmitBounces
  BY <1>7, ExitSetup DEF SubmitBounces, Setup, Typed, ProvisionTypeOK
<1>8. CASE ReadLedger
  <2>1. At("read") /\ UNCHANGED <<migrationVars, script, state, ledger, done, abandoned>>
    BY <1>8 DEF ReadLedger
  <2>2. CASE ExitScript
    BY <2>1, <2>2, ExitSetup DEF Setup, Typed, ProvisionTypeOK
  <2>3. CASE ~ExitScript
    <3>1. ToSave /\ memory' = memory \cup {Current.fact} /\ wallets' = wallets
      BY <1>8, <2>3 DEF ReadLedger
    <3> QED
      BY <2>1, <3>1, ResultSetup DEF At
  <2> QED
    BY <2>2, <2>3
<1>9. CASE SaveOpen
  BY <1>9, OpenSetup
<1>10. CASE SaveDump
  BY <1>10, DumpSetup
<1>11. CASE Finish
  BY <1>11, ExitSetup DEF Finish
<1> QED
  BY <1>1, <1>2, <1>3, <1>4, <1>5, <1>6, <1>7, <1>8, <1>9, <1>10, <1>11 DEF ScriptStep

\* So does each step of the system.
LEMMA NextSetup == ASSUME Setup, IInv, [ProvisionNext]_vars PROVE Setup'
<1> USE DEF IInv
<1>1. CASE StartScript
  BY <1>1, StartSetup
<1>2. CASE ScriptStep
  BY <1>2, ScriptSetup
<1>3. CASE Kill
  BY <1>3, ExitSetup DEF Kill, Setup, Typed, ProvisionTypeOK
<1>4. CASE RemoveTorn
  BY <1>4, RemoveSetup
<1>5. CASE Migrate
  BY <1>5, MigrateSetup
<1>6. CASE RunV2
  BY <1>6, QuietSetup DEF RunV2
<1>7. CASE UNCHANGED vars
  BY <1>7, QuietSetup DEF vars
<1> QED
  BY <1>1, <1>2, <1>3, <1>4, <1>5, <1>6, <1>7 DEF ProvisionNext

\* The scripts' invariant holds of every run.
LEMMA SetupInvariant == ProvisionSpec => []Setup
<1>1. ProvisionInit => Setup
  BY InitSetup
<1>2. Setup /\ IInv /\ [ProvisionNext]_vars => Setup'
  BY NextSetup
<1> QED
  BY <1>1, <1>2, Inductive, PTL DEF ProvisionSpec

\* The scripts, the tool and their files keep their types.
THEOREM ProvisionTypeCorrect == ProvisionSpec => []ProvisionTypeOK
<1>1. Setup => ProvisionTypeOK
  BY DEF Setup, Typed
<1> QED
  BY <1>1, SetupInvariant, PTL

\* Once the master key is disabled, a signer list of the treasury names signers
\* whose seeds can be read from a file, unless a keystore was replaced or adopted.
THEOREM TreasuryReachable == ProvisionSpec => []NeverLockedOut
<1>1. Setup => NeverLockedOut
  <2> SUFFICES ASSUME Setup, NEW fact \in ledger, fact[1] = "master_disabled"
               PROVE  \E list \in ledger :
                        /\ list[1] = "signer_list" /\ fact[2] \subseteq list[2]
                        /\ \/ OfAliases(list[2], Signers) \subseteq Recoverable \cup abandoned
                           \/ AdoptedKeystore(OfAliases(list[2], Signers))
    BY DEF NeverLockedOut
  <2>1. PICK list \in ledger : list[1] = "signer_list" /\ fact[2] \subseteq list[2]
    BY DEF Setup, Locks
  <2>2. Kept(list[2])
    BY <2>1 DEF Setup, Locks
  <2> QED
    BY <2>1, <2>2 DEF Kept, Held, Recoverable
<1> QED
  BY <1>1, SetupInvariant, PTL

\* A state file never claims more than the ledger shows for the accounts it names.
THEOREM CheckpointsTrue == ProvisionSpec => []CheckpointTruth
<1>1. Setup => CheckpointTruth
  BY DEF Setup, Truthful, Truth, CheckpointTruth
<1> QED
  BY <1>1, SetupInvariant, PTL
=============================================================================
