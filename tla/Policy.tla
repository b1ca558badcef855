------------------------------- MODULE Policy -------------------------------
(***************************************************************************)
(* The pure decision rules: asset pricing (policy/pricing.py), the RWA     *)
(* compliance rule (policy/rwa_rule.py), the severity fold of the risk     *)
(* engine (policy/risk_engine.py) and the tier bands (tiers/router.py).    *)
(*                                                                         *)
(* Amounts and rates are integers in one common unit: Decimal arithmetic   *)
(* is exact in the code, so nothing but order and product matters here.    *)
(***************************************************************************)
EXTENDS Integers

CONSTANTS
  Whitelist,          \* destinations the treasury trusts
  AmountThreshold,    \* value gate of the risk engine, in RLUSD
  ChannelCeiling,     \* top of the channel-custody band, in RLUSD
  FastPathCeiling,    \* top of the fast-path band, in RLUSD
  MaxRateAge          \* oldest quote CallableRateProvider accepts

ASSUME ThresholdAssumption == AmountThreshold \in Int

\* TierRouter.__init__ refuses any other pair of ceilings.
ASSUME CeilingAssumption ==
  /\ ChannelCeiling \in Int /\ FastPathCeiling \in Int
  /\ 0 < ChannelCeiling /\ ChannelCeiling < FastPathCeiling

ASSUME MaxRateAgeAssumption == MaxRateAge \in Nat

-----------------------------------------------------------------------------
(* Pricing.  A quote is the (rate, as_of) pair of the price function; a    *)
(* fetch that fails is a quote of rate 0, because every failure raises the *)
(* same StaleRateError as a non-positive rate.  Only XRP reads the quote.  *)

Quotes(rates, times) == [rate : rates, as_of : times]

RateUsable(asset, quote, now) ==
  asset = "XRP" => /\ now - quote.as_of <= MaxRateAge
                   /\ quote.rate > 0

ToRlusd(asset, amount, quote) ==
  IF asset = "XRP" THEN amount * quote.rate ELSE amount

-----------------------------------------------------------------------------
(* The RWA rule.  An intent without RWA context carries NoRwa.             *)

NoRwa == [is_rwa |-> FALSE]

\* {code} when the condition of a rule holds, nothing otherwise.
When(condition, code) == IF condition THEN {code} ELSE {}

\* rwa.destination_authorized and rwa.destination_in_domain are optional
\* booleans: "yes", "no" or "unknown" (None), and only "yes" passes.
RwaFindings(rwa) ==
  IF ~rwa.is_rwa THEN {}
  ELSE
    UNION {
      When(rwa.requires_authorization /\ rwa.destination_authorized # "yes",
           "rwa_destination_not_authorized"),
      When(rwa.transfer_disabled /\ ~rwa.destination_is_issuer,
           "rwa_transfer_not_permitted"),
      When(~(rwa.required_credentials \subseteq rwa.destination_credentials),
           "rwa_missing_required_credential"),
      When(rwa.has_domain /\ rwa.destination_in_domain # "yes",
           "rwa_destination_outside_permissioned_domain"),
      When(rwa.clawback_enabled, "rwa_clawback_exposure") }

-----------------------------------------------------------------------------
(* Severities and the verdict of one evaluation.                           *)

YellowCodes == {"value_threshold_exceeded", "rwa_clawback_exposure"}

RedCodes ==
  { "untrusted_destination", "transaction_loop_detected",
    "circuit_breaker_frozen", "rwa_destination_not_authorized",
    "rwa_transfer_not_permitted", "rwa_missing_required_credential",
    "rwa_destination_outside_permissioned_domain" }

ReasonCodes == YellowCodes \cup RedCodes

RiskLevels == {"GREEN", "YELLOW", "RED"}

\* The worst severity among the fired codes.
RiskLevel(fired) ==
  IF fired \cap RedCodes # {} THEN "RED"
  ELSE IF fired \cap YellowCodes # {} THEN "YELLOW"
  ELSE "GREEN"

-----------------------------------------------------------------------------
(* TierRouter.route: RWA transfers always take the quorum backstop, other  *)
(* payments the band of their value, the ceilings included.                *)

Tiers == {"channel_custody", "fast_path", "quorum_backstop"}

Route(payment, quote) ==
  LET value == ToRlusd(payment.asset, payment.amount, quote)
  IN  IF payment.rwa.is_rwa THEN "quorum_backstop"
      ELSE IF value <= ChannelCeiling THEN "channel_custody"
      ELSE IF value <= FastPathCeiling THEN "fast_path"
      ELSE "quorum_backstop"
=============================================================================
