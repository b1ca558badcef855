---------------------------- MODULE MCAgentIdentity ----------------------------
(* A small instance of AgentIdentity: three places in the directory, one    *)
(* object to a page, two pages at most, credentials with every defect.     *)
EXTENDS AgentIdentity

Credential(subject, issuer, type, accepted, has_expiration) ==
  [kind |-> "Credential", subject |-> subject, issuer |-> issuer,
   type |-> type, accepted |-> accepted, has_expiration |-> has_expiration,
   expiration |-> 1]

MCObjects ==
  { Credential("agent", "issuer", "kya", TRUE, TRUE),
    Credential("agent", "issuer", "kya", FALSE, FALSE),
    Credential("agent", "stranger", "kya", TRUE, FALSE),
    Credential("other", "agent", "kya", TRUE, FALSE),
    [kind |-> "Offer"] }

MCRequests ==
  { [issuers |-> {"issuer"}, type |-> "kya"], [issuers |-> {}, type |-> "kya"],
    [issuers |-> {"issuer"}, type |-> "kyc"] }
=============================================================================
