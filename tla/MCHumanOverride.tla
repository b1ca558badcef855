---------------------------- MODULE MCHumanOverride ----------------------------
(* A small instance of HumanOverride: two transactions that are alike but for *)
(* their tx_id, one like them at another time, a large one in XRP, and one to *)
(* a stranger.                                                             *)
EXTENDS HumanOverride

Pay(destination, asset, amount) ==
  [destination |-> destination, asset |-> asset, amount |-> amount, rwa |-> NoRwa]

MCPayments ==
  {Pay("vendor", "RLUSD", 1), Pay("vendor", "XRP", 5), Pay("stranger", "RLUSD", 1)}

Tx(id, p, ts) == [tx_id |-> id, payment |-> p, timestamp |-> ts]

MCTransactions ==
  { Tx("tx-1", Pay("vendor", "RLUSD", 1), 1),
    Tx("tx-2", Pay("vendor", "RLUSD", 1), 1),
    Tx("tx-3", Pay("vendor", "RLUSD", 1), 3),
    Tx("tx-4", Pay("vendor", "XRP", 5), 1),
    Tx("tx-5", Pay("stranger", "RLUSD", 1), 0) }
=============================================================================
