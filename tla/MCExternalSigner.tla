--------------------------- MODULE MCExternalSigner ---------------------------
(* A small instance of ExternalSigner: a 2-of-2 treasury, an XRP payment, an *)
(* MPT transfer with three compliance contexts, and the malformed ones.       *)
EXTENDS ExternalSigner

Pay(destination, asset, amount, rwa) ==
  [destination |-> destination, asset |-> asset, amount |-> amount,
   rwa |-> rwa]

Rwa(authorized, clawback) ==
  [is_rwa |-> TRUE, requires_authorization |-> TRUE,
   destination_authorized |-> authorized, transfer_disabled |-> FALSE,
   destination_is_issuer |-> FALSE, required_credentials |-> {},
   destination_credentials |-> {}, has_domain |-> FALSE,
   destination_in_domain |-> "unknown", clawback_enabled |-> clawback]

MCPayments ==
  { Pay("vendor", "XRP", 2, NoRwa),
    Pay("vendor", "MPT", 1, Rwa("yes", FALSE)),
    Pay("vendor", "MPT", 1, Rwa("yes", TRUE)),
    Pay("vendor", "MPT", 1, Rwa("no", FALSE)) }

MCXrpPayments == {Pay("vendor", "XRP", 2, NoRwa)}

Tx(type, form, asset, amount) ==
  [type |-> type, form |-> form, destination |-> "vendor", asset |-> asset,
   amount |-> amount]

MCTxs ==
  { Tx("Payment", "ok", "XRP", 2), Tx("Payment", "ok", "MPT", 1),
    Tx("SignerListSet", "ok", "XRP", 2),
    Tx("Payment", "garbled_amount", "MPT", 1) }

MCXrpTxs == {Tx("Payment", "ok", "XRP", 2)}

Wired(router, reader, checks) ==
  [router |-> router, reader |-> reader, guard |-> checks,
   verifier |-> checks, sink |-> checks]

MCWirings == {Wired(TRUE, TRUE, TRUE), Wired(FALSE, FALSE, FALSE)}

MCFullWiring == {Wired(TRUE, TRUE, TRUE)}

MCBackends == <<"proposer", "auditor">>
MCSigners == {"proposer", "auditor"}
MCSubjects == <<"auditor", "proposer">>

List(quorum, entries) == [quorum |-> quorum, entries |-> entries]
Signer(name, weight) == [account |-> name, weight |-> weight]
Pair == {Signer("proposer", 1), Signer("auditor", 1)}

\* The configuration as set up, and ways out of it: a regular key, a master
\* key enabled again, a lone signer, an outsider.
Account(regular_key, master_disabled, lists) ==
  [regular_key |-> regular_key, master_disabled |-> master_disabled,
   signer_lists |-> lists]

MCAccounts ==
  { Account(FALSE, TRUE, <<List(2, Pair)>>),
    Account(TRUE, TRUE, <<List(2, Pair)>>),
    Account(FALSE, TRUE,
            <<List(2, {Signer("proposer", 2), Signer("auditor", 1)})>>) }

MCAllAccounts ==
  MCAccounts \cup
  { Account(FALSE, FALSE, <<List(2, Pair)>>),
    Account(FALSE, TRUE, <<List(1, Pair)>>),
    Account(FALSE, TRUE, <<List(2, Pair \cup {Signer("outsider", 1)})>>) }
=============================================================================
