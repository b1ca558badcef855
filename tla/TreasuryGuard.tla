---------------------------- MODULE TreasuryGuard ----------------------------
(***************************************************************************)
(* The live treasury-config check (policy/treasury_guard.py) as a predicate *)
(* on what one account_info response says, and the ledger's own rule for    *)
(* who may authorize a transaction of that account, which is external.     *)
(*                                                                         *)
(* An account is [regular_key, master_disabled, signer_lists]: whether a    *)
(* RegularKey is set, lsfDisableMaster, and the SignerLists, each with its  *)
(* quorum and its set of [account, weight] entries.                         *)
(***************************************************************************)
EXTENDS Integers, Sequences

\* No list, or more than one, is a violation.
SignerListAsExpected(signer_lists, expected_signers, expected_quorum) ==
  /\ Len(signer_lists) = 1
  /\ LET list == signer_lists[1]
     IN  /\ list.quorum = expected_quorum
         /\ list.entries # {}
         /\ \A e \in list.entries : e.weight < expected_quorum
         /\ {e.account : e \in list.entries} = expected_signers

\* XrplTreasuryConfigVerifier.verify returns, instead of raising
\* TreasuryConfigError.
ConfigAccepted(account, expected_signers, expected_quorum) ==
  /\ ~account.regular_key
  /\ account.master_disabled
  /\ SignerListAsExpected(account.signer_lists, expected_signers, expected_quorum)

\* External: the keys that can move the treasury's funds with no other key.
LoneAuthorities(account) ==
  UNION { {k \in {"master key"} : ~account.master_disabled},
          {k \in {"regular key"} : account.regular_key},
          UNION {{e.account : e \in {x \in account.signer_lists[i].entries :
                                       x.weight >= account.signer_lists[i].quorum}} :
                   i \in 1..Len(account.signer_lists)} }
=============================================================================
