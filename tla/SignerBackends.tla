---------------------------- MODULE SignerBackends ----------------------------
(***************************************************************************)
(* The backends a quorum signs with (signing/backend.py, local_keystore.py,  *)
(* kms_backend.py): which configurations a constructor lets through, and     *)
(* what becomes of the answer of the party that holds the key.             *)
(*                                                                         *)
(* A key is [curve, id].  A backend is [kind, declared, held]: the key the    *)
(* holder signs with, and the key it was declared with, which is the address *)
(* of a keystore entry, the public key given for a key in KMS, or NoKey.     *)
(* A signature is [account, key, value]: value is s of an ECDSA signature, in *)
(* 1..(CurveOrder - 1), or the length of an EdDSA one.  r, digests and the    *)
(* encodings are left out.                                                 *)
(***************************************************************************)
EXTENDS Integers

CONSTANTS
  CurveOrder,  \* _SECP256K1_N
  RawLimit     \* _KMS_MAX_RAW_MESSAGE_BYTES

ASSUME CurveAssumption == CurveOrder \in Nat /\ CurveOrder % 2 = 1 /\ CurveOrder > 1
ASSUME RawAssumption == RawLimit \in Nat

NoKey == [curve |-> "none", id |-> "none"]

EdLength == 64

HalfOrder == CurveOrder \div 2

InKms(b) == b.kind \in {"kms_secp256k1", "kms_ed25519"}

CurveOf(kind) == IF kind = "kms_ed25519" THEN "ed25519" ELSE "secp256k1"

PublicKey(b) == IF b.declared = NoKey THEN b.held ELSE b.declared

\* A keystore entry must derive to the address stored with it.
KeystoreBuilds(b) == b.declared = b.held

\* KMS is asked for a key that was not declared; one of another curve is
\* refused, asked for or declared.
Secp256k1Builds(b) == PublicKey(b).curve = "secp256k1"

Ed25519Builds(b) == PublicKey(b).curve = "ed25519"

\* What the constructor of b asks of its configuration.
Builds(b) ==
  /\ b.kind = "keystore" => KeystoreBuilds(b)
  /\ b.kind = "kms_secp256k1" => Secp256k1Builds(b)
  /\ b.kind = "kms_ed25519" => Ed25519Builds(b)

\* External: what may come back for a message.  KMS refuses the algorithm of
\* another curve, and answers with either s; xrpl-py's own are canonical.
Answers(b) ==
  IF ~InKms(b)
  THEN IF b.held.curve = "secp256k1" THEN 1..HalfOrder ELSE {EdLength}
  ELSE IF b.held.curve # CurveOf(b.kind) THEN {}
  ELSE IF b.held.curve = "secp256k1" THEN 1..(CurveOrder - 1)
  ELSE {EdLength - 1, EdLength}

\* sign() of the ed25519 backend refuses a message above the limit of KMS,
\* and an answer of another length.
Signs(b, bytes, answer) ==
  b.kind = "kms_ed25519" => bytes <= RawLimit /\ answer = EdLength

\* Mutant: s is negated from the half on.
LowSFromHalf(s) == IF s >= HalfOrder THEN CurveOrder - s ELSE s

\* _canonical_der.
LowS(s) == IF s > HalfOrder THEN CurveOrder - s ELSE s

\* What sign() makes of an answer it accepts.
Signed(b, answer) == IF b.kind = "kms_secp256k1" THEN LowS(answer) ELSE answer

\* QuorumSigner._sign_one does not look at the signature it is given.
Signature(b, answer) ==
  [account |-> PublicKey(b), key |-> b.held, value |-> Signed(b, answer)]

\* External: a signature of the account's own key, and a canonical one.
LedgerTakes(signature) ==
  /\ signature.account = signature.key
  /\ IF signature.key.curve = "secp256k1" THEN signature.value \in 1..HalfOrder
     ELSE signature.value = EdLength
=============================================================================
