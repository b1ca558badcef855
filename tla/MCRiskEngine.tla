---------------------------- MODULE MCRiskEngine ----------------------------
(* A small instance of RiskEngine: an XRP payment whose value depends on    *)
(* the quote, an MPT transfer under clawback, and a payment to a stranger.  *)
EXTENDS RiskEngine

Pay(destination, asset, amount, rwa) ==
  [destination |-> destination, asset |-> asset, amount |-> amount,
   rwa |-> rwa]

MCRwa ==
  [is_rwa |-> TRUE, requires_authorization |-> TRUE,
   destination_authorized |-> "yes", transfer_disabled |-> FALSE,
   destination_is_issuer |-> FALSE, required_credentials |-> {},
   destination_credentials |-> {}, has_domain |-> FALSE,
   destination_in_domain |-> "unknown", clawback_enabled |-> TRUE]

MCPayments ==
  { Pay("vendor", "XRP", 2, NoRwa), Pay("vendor", "MPT", 1, MCRwa),
    Pay("stranger", "RLUSD", 1, NoRwa) }
=============================================================================
