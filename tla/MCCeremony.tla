------------------------------ MODULE MCCeremony ------------------------------
(* A small instance of Ceremony: an order without a SourceTag, one that     *)
(* suppresses it, and one of another account.                              *)
EXTENDS Ceremony

Order(account, payee, tag) == [account |-> account, payee |-> payee, tag |-> tag]

MCOrders ==
  { Order("treasury", "vendor", "absent"), Order("treasury", "payroll", "zero"),
    Order("stranger", "vendor", "absent") }

MCRequests ==
  [account : {"treasury"}, payee : {"vendor", "payroll"},
   tag : {"starter_kit", "zero"}, sequence : 1..(MaxCeremonies + MaxOthers),
   last_ledger : 1..(MaxLedger + LedgerOffset
                      + (LedgerOffset + 1) * (MaxCeremonies - 1))]
=============================================================================
