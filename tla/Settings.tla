------------------------------- MODULE Settings -------------------------------
(***************************************************************************)
(* The risk and routing settings an operator edits in a file (config.py):   *)
(* what load_settings makes of a file, and what the router asks of it.     *)
(*                                                                         *)
(* A value of the file is [type, kind, value].  type is its JSON type:      *)
(* "decimal" is a literal with a fraction or an exponent, "constant" a bare  *)
(* NaN or Infinity.  kind says what number it denotes, "huge" and "tiny"     *)
(* being finite numbers outside the range of a float, and value is that     *)
(* number.  A list is "finite" when all its items are strings.             *)
(***************************************************************************)
EXTENDS Integers

AllowedKeys ==
  {"whitelist", "amount_threshold_rlusd", "frequency_window_s",
   "frequency_limit", "channel_ceiling_rlusd", "fast_path_ceiling_rlusd"}

Numbers == {"finite", "huge", "tiny"}

\* _positive_money: an int, a float, a string or a Decimal that denotes a
\* finite number above zero; a boolean is none of them.
IsPositiveMoney(v) ==
  /\ v.type \in {"int", "decimal", "constant", "string"}
  /\ v.kind \in Numbers
  /\ v.value > 0

\* _positive_int: an int, and neither a boolean nor a numeric string.
IsPositiveInt(v) == v.type = "int" /\ v.value > 0

\* Mutant: the comparison alone, which is false of NaN.
IsPositiveUnchecked(v) ==
  /\ v.type \in {"int", "decimal", "constant"}
  /\ ~(v.kind \in Numbers /\ v.value <= 0)

\* _positive_float converts first: a Decimal out of range becomes Infinity or
\* zero, which are refused.
IsPositiveFloat(v) ==
  /\ v.type \in {"int", "decimal", "constant"}
  /\ v.kind = "finite"
  /\ v.value > 0

\* float() of an int out of its range raises OverflowError instead.
Overflows(v) == v.type = "int" /\ v.kind = "huge"

IsWhitelist(v) == v.type = "list" /\ v.kind = "finite"

\* Mutant: equal ceilings are let through.
OrderedLoosely(channel, fast_path) == channel <= fast_path

Ordered(channel, fast_path) == channel < fast_path

\* What load_settings raises on a file, or "none".  A file that is not UTF-8
\* and a window out of range raise past ConfigError.
LoadError(file) ==
  LET f(key) == file.fields[key]
  IN  IF file.content = "not_utf8" THEN "UnicodeDecodeError"
      ELSE IF \/ file.content # "object"
              \/ DOMAIN file.fields # AllowedKeys
              \/ ~IsWhitelist(f("whitelist"))
              \/ ~IsPositiveMoney(f("amount_threshold_rlusd"))
           THEN "ConfigError"
      ELSE IF Overflows(f("frequency_window_s")) THEN "OverflowError"
      ELSE IF /\ IsPositiveFloat(f("frequency_window_s"))
              /\ IsPositiveInt(f("frequency_limit"))
              /\ IsPositiveMoney(f("channel_ceiling_rlusd"))
              /\ IsPositiveMoney(f("fast_path_ceiling_rlusd"))
              /\ Ordered(f("channel_ceiling_rlusd").value,
                         f("fast_path_ceiling_rlusd").value)
           THEN "none"
      ELSE "ConfigError"

\* The QuorumVaultSettings of a file that loads.
Loaded(file) == [key \in AllowedKeys \ {"whitelist"} |-> file.fields[key]]

Literal(type, value) == [type |-> type, kind |-> "finite", value |-> value]

\* default_settings: RiskEngine's own defaults and the usual two ceilings.
DefaultSettings ==
  [amount_threshold_rlusd  |-> Literal("decimal", 5000),
   frequency_window_s      |-> Literal("decimal", 60),
   frequency_limit         |-> Literal("int", 3),
   channel_ceiling_rlusd   |-> Literal("decimal", 100),
   fast_path_ceiling_rlusd |-> Literal("decimal", 5000)]

\* TierRouter.__init__, which build_router calls, raises unless this holds.
RouterBuilds(settings) ==
  /\ settings.channel_ceiling_rlusd.value > 0
  /\ settings.channel_ceiling_rlusd.value < settings.fast_path_ceiling_rlusd.value

\* What the engine relies on and does not check: a finite window above zero,
\* a limit that lets one payment through, a threshold above zero.
EngineSound(settings) ==
  /\ settings.frequency_window_s.kind = "finite"
  /\ settings.frequency_window_s.value > 0
  /\ settings.frequency_limit.type = "int"
  /\ settings.frequency_limit.value > 0
  /\ settings.amount_threshold_rlusd.kind \in Numbers
  /\ settings.amount_threshold_rlusd.value > 0
=============================================================================
