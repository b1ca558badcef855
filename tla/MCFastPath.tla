------------------------------ MODULE MCFastPath ------------------------------
(* A small instance of FastPath: one XRP payment, whose value moves with the *)
(* price, and one RLUSD payment.                                           *)
EXTENDS FastPath

MCIntents == {[asset |-> "XRP", amount |-> 1], [asset |-> "RLUSD", amount |-> 2]}
=============================================================================
