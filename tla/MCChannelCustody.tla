--------------------------- MODULE MCChannelCustody ---------------------------
(* A small instance of ChannelCustody; channels and keys are interchangeable. *)
EXTENDS ChannelCustody, TLC

MCSymmetry == Permutations(Channels) \cup Permutations(Keys)
=============================================================================
