-------------------------- MODULE MCComplianceReader --------------------------
(* A small instance of ComplianceReader: one required credential, and a     *)
(* domain whose list is shortened and replaced.  The domain may accept the   *)
(* one-byte type FF, which is no UTF-8; its hex digits are a text, whose own *)
(* encoding is 4646.                                                       *)
EXTENDS ComplianceReader

Flags(require_auth, can_transfer, can_clawback) ==
  [require_auth |-> require_auth, can_transfer |-> can_transfer,
   can_clawback |-> can_clawback]

MCIssuances ==
  {Flags(TRUE, TRUE, FALSE), Flags(FALSE, TRUE, FALSE), Flags(TRUE, FALSE, TRUE)}

MCEncoded == ("KYC" :> "x4B5943") @@ ("FF" :> "x4646")
MCSpelled == "xFF" :> "FF"

MCRequired == <<"KYC">>
MCDomainLists == {<<"xFF", "x4B5943">>, <<"x4646">>, <<"xFF">>}
=============================================================================
