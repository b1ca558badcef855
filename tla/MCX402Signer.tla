----------------------------- MODULE MCX402Signer -----------------------------
(* A small instance of X402Signer: one good XRP quotation, one whose tags    *)
(* are unreadable, one with no invoice, one whose memo makes it too long for   *)
(* KMS; a stranger on the other rail; quorums of every kind of backend.      *)
EXTENDS X402Signer

Quotation(destination, asset, bytes, has_invoice, tags_readable) ==
  [destination |-> destination, asset |-> asset, amount |-> 1, bytes |-> bytes,
   supported |-> TRUE, has_invoice |-> has_invoice, invoice |-> "invoice",
   amount_readable |-> TRUE, tags_readable |-> tags_readable]

MCQuotations ==
  { Quotation("merchant", "XRP", 1, TRUE, TRUE),
    Quotation("merchant", "XRP", 1, TRUE, FALSE),
    Quotation("merchant", "XRP", 1, FALSE, TRUE),
    Quotation("merchant", "XRP", 2, TRUE, TRUE) }

\* What the engine evaluates, on either rail.
MCPayments ==
  { [destination |-> d, asset |-> "XRP", amount |-> 1, rwa |-> NoRwa] :
      d \in {"merchant", "stranger"} }

Key(curve, id) == [curve |-> curve, id |-> id]

Backend(kind, declared, held) == [kind |-> kind, declared |-> declared, held |-> held]

Local == Backend("keystore", Key("ed25519", "exec"), Key("ed25519", "exec"))

Kms(kind, declared) == Backend(kind, declared, Key(CurveOf(kind), "auditor"))

\* A quorum of all three kinds, a key declared wrongly, and keys that no
\* constructor lets through.
MCQuorums ==
  { <<Local, Kms("kms_secp256k1", NoKey), Kms("kms_ed25519", Key("ed25519", "auditor"))>>,
    <<Kms("kms_secp256k1", Key("secp256k1", "other"))>>,
    <<Kms("kms_ed25519", Key("secp256k1", "auditor"))>>,
    <<Backend("kms_secp256k1", NoKey, Key("ed25519", "auditor"))>>,
    <<Backend("keystore", Key("ed25519", "exec"), Key("ed25519", "other"))>> }
=============================================================================
