-------------------------- MODULE KeystoreMigration --------------------------
(***************************************************************************)
(* The move of the signer seeds from a plaintext checkpoint into an         *)
(* encrypted keystore (tools/migrate_keystore.py, signing/keystore.py), one *)
(* file-system step at a time.  The process may be killed between any two   *)
(* steps, and an operator may run the tool again, with other options.      *)
(*                                                                         *)
(* A seed is <<alias, funding>>: whose it is, and in which run it was made. *)
(* A file is [seeds, whole]: the seeds that can be read from it, and whether *)
(* its end was reached when it was written.  What the system was told to    *)
(* write survives the process: a power failure is not modelled.            *)
(***************************************************************************)
EXTENDS Naturals

CONSTANTS
  Signers,      \* the signer aliases of _SIGNER_FIELDS
  Checkpoints,  \* the plaintext checkpoints a run may start from
  Passes,       \* passes of secure_shred
  MaxRuns       \* bound on runs of the tool

ASSUME PassesAssumption == Passes \in Nat \ {0}
ASSUME CheckpointAssumption == \A c \in Checkpoints : c.wrong \subseteq c.seeds
ASSUME MaxRunsAssumption == MaxRuns \in Nat

\* A checkpoint names at most one seed for an alias, made before any run.
ASSUME SeedsAssumption ==
  \A c \in Checkpoints :
    /\ \A s, t \in c.seeds : s[1] = t[1] => s = t
    /\ \A s \in c.seeds : s[2] = 0

VARIABLES
  stage,       \* the step main() is at; "idle" when no process runs
  options,     \* --include-treasury and --shred of the run in progress
  entries,     \* the entries of the EncryptedKeystore in memory
  pass,        \* passes of secure_shred completed
  checkpoint,  \* the plaintext file
  keystore,    \* the keystore file
  tmp,         \* the keystore's .tmp file
  original,    \* history: the latest checkpoint that was complete
  runs         \* bound: runs so far

processVars == <<stage, options, entries, pass>>
fileVars    == <<checkpoint, keystore, tmp>>
migrationVars == <<processVars, fileVars, original, runs>>

Treasury == "treasury"
Missing == [whole |-> FALSE, seeds |-> {}, exists |-> FALSE]
File(seeds, whole) == [whole |-> whole, seeds |-> seeds, exists |-> TRUE]

OfAliases(seeds, aliases) == {s \in seeds : s[1] \in aliases}

\* A JSON file cut short or overwritten does not parse: nothing is read.
Readable(file) == IF file.whole THEN file.seeds ELSE {}

-----------------------------------------------------------------------------
\* A checkpoint is [seeds, wrong]: the seeds it names, and those of them that
\* do not derive to the address beside them.  One without seeds is no file.
MigrationInit ==
  /\ original \in Checkpoints
  /\ checkpoint = IF original.seeds = {} THEN Missing ELSE File(original.seeds, TRUE)
  /\ keystore = Missing
  /\ tmp = Missing
  /\ stage = "idle"
  /\ options = [include_treasury |-> FALSE, shred |-> FALSE]
  /\ entries = {}
  /\ pass = 0
  /\ runs = 0

Exit ==
  /\ stage' = "idle"
  /\ entries' = {}
  /\ pass' = 0
  /\ UNCHANGED options

Start(o) ==
  /\ stage = "idle"
  /\ runs < MaxRuns
  /\ runs' = runs + 1
  /\ options' = o
  /\ stage' = "import"
  /\ UNCHANGED <<entries, pass, fileVars, original>>

\* What migrate_checkpoint imports: the signers, and the treasury on demand,
\* of those the checkpoint names.
Wanted ==
  OfAliases(checkpoint.seeds,
    Signers \cup (IF options.include_treasury THEN {Treasury} ELSE {}))

\* Mutant: seeds are imported without deriving their addresses.
ImportUnchecked ==
  /\ stage = "import"
  /\ IF checkpoint.exists /\ checkpoint.whole
     THEN /\ entries' = Wanted
          /\ stage' = "verify"
          /\ UNCHANGED <<options, pass>>
     ELSE Exit
  /\ UNCHANGED <<fileVars, original, runs>>

\* migrate_checkpoint: into a new keystore in memory.  A checkpoint that does
\* not parse, or a seed that is not that of its address, ends the run.
Import ==
  /\ stage = "import"
  /\ IF checkpoint.exists /\ checkpoint.whole /\ Wanted \cap original.wrong = {}
     THEN /\ entries' = Wanted
          /\ stage' = "verify"
          /\ UNCHANGED <<options, pass>>
     ELSE Exit
  /\ UNCHANGED <<fileVars, original, runs>>

\* Mutant: a run that shreds does so before it saves.
VerifyThenShred ==
  /\ stage = "verify"
  /\ \/ /\ stage' = IF options.shred THEN "shred" ELSE "write"
        /\ UNCHANGED <<options, entries, pass>>
     \/ Exit
  /\ UNCHANGED <<fileVars, original, runs>>

\* verify_roundtrip decrypts the entries in memory; a failure ends the run.
VerifyRoundtrip ==
  /\ stage = "verify"
  /\ \/ stage' = "write" /\ UNCHANGED <<options, entries, pass>>
     \/ Exit
  /\ UNCHANGED <<fileVars, original, runs>>

\* Mutant: the keystore file itself is opened for writing.
OpenInPlace ==
  /\ stage = "write"
  /\ tmp' = File({}, FALSE)
  /\ keystore' = File({}, FALSE)
  /\ stage' = "dump"
  /\ UNCHANGED <<options, entries, pass, checkpoint, original, runs>>

\* EncryptedKeystore.save: a temporary file is opened and written, then
\* renamed over the keystore.
OpenTmp ==
  /\ stage = "write"
  /\ tmp' = File({}, FALSE)
  /\ stage' = "dump"
  /\ UNCHANGED <<options, entries, pass, checkpoint, keystore, original, runs>>

DumpTmp ==
  /\ stage = "dump"
  /\ tmp' = File(entries, TRUE)
  /\ stage' = "replace"
  /\ UNCHANGED <<options, entries, pass, checkpoint, keystore, original, runs>>

\* A disk that is full, for one, fails the write: the exception ends the run.
SaveFails ==
  /\ stage \in {"write", "dump", "replace"}
  /\ Exit
  /\ UNCHANGED <<fileVars, original, runs>>

Replace ==
  /\ stage = "replace"
  /\ keystore' = tmp
  /\ tmp' = Missing
  /\ IF options.shred THEN stage' = "shred" /\ UNCHANGED <<options, entries, pass>>
     ELSE Exit
  /\ UNCHANGED <<checkpoint, original, runs>>

\* secure_shred: every pass overwrites the file, then it is unlinked.
ShredPass ==
  /\ stage = "shred"
  /\ checkpoint.exists
  /\ pass < Passes
  /\ checkpoint' = File({}, FALSE)
  /\ pass' = pass + 1
  /\ UNCHANGED <<stage, options, entries, keystore, tmp, original, runs>>

Unlink ==
  /\ stage = "shred"
  /\ pass = Passes
  /\ checkpoint' = Missing
  /\ Exit
  /\ UNCHANGED <<keystore, tmp, original, runs>>

\* The process is killed; what it held in memory is gone.
Crash ==
  /\ stage # "idle"
  /\ Exit
  /\ UNCHANGED <<fileVars, original, runs>>

MigrationStep ==
  \/ Import \/ VerifyRoundtrip \/ OpenTmp \/ DumpTmp \/ SaveFails \/ Replace
  \/ ShredPass \/ Unlink

MigrationNext ==
  \/ \E o \in [include_treasury : BOOLEAN, shred : BOOLEAN] : Start(o)
  \/ MigrationStep
  \/ Crash

MigrationSpec == MigrationInit /\ [][MigrationNext]_migrationVars

-----------------------------------------------------------------------------
\* Type invariant.
MigrationTypeOK ==
  /\ stage \in {"idle", "import", "verify", "write", "dump", "replace", "shred"}
  /\ entries \subseteq original.seeds \ original.wrong
  /\ pass \in 0..Passes
  /\ stage # "shred" => pass = 0
  /\ runs \in 0..MaxRuns

\* No signer seed is ever lost (main, save, secure_shred): wherever a run is
\* killed, and whatever the next one is asked to do, each signer seed of the
\* checkpoint can be read from the plaintext or from the keystore file.
SignerSeedsSurvive ==
  OfAliases(original.seeds, Signers)
    \subseteq Readable(checkpoint) \cup Readable(keystore)

\* The keystore file is complete or absent (save), and the plaintext of a
\* checkpoint with a wrong seed in it is never touched (_verify_seed_matches_
\* address), so what was migrated can be checked against what was there.
FilesStayWhole ==
  /\ keystore.exists => keystore.whole
  /\ OfAliases(original.wrong, Signers) # {} => checkpoint = File(original.seeds, TRUE)
=============================================================================
