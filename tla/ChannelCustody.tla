---------------------------- MODULE ChannelCustody ----------------------------
(***************************************************************************)
(* ChannelCustodyLane (tiers/channel_custody.py) between the treasury, the   *)
(* ledger's payment channels and one payee: the open is audited and signed   *)
(* by the quorum, the claims are signed by the channel key alone, off the   *)
(* ledger, and the payee redeems whichever of them it likes, at any time.   *)
(*                                                                         *)
(* A ChannelState lives in memory.  After a restart the caller makes a new  *)
(* one from what the ledger knows, and authorized_drops starts at 0 again.  *)
(***************************************************************************)
EXTENDS Integers, Sequences, SequencesExt

CONSTANTS
  CapacityCap,   \* capacity_cap_drops
  Drops,         \* the amounts callers ask for
  Channels,      \* ids of channels, a resource that is used up
  Keys,          \* channel keys; the treasury may use several
  MaxRestarts,   \* bound on restarts
  MaxClaims      \* bound on claims authorized, and on claims built

ASSUME CapAssumption == CapacityCap \in Nat \ {0}
ASSUME DropsAssumption == Drops \subseteq Int

VARIABLES
  states,     \* ChannelState objects in memory, one per opened channel
  opens,      \* signed PaymentChannelCreates not validated yet
  signed,     \* history: the claim authorizations, in order, with their session
  claims,     \* the PaymentChannelClaims built
  chain,      \* external: the channels on the ledger
  restarts    \* bound: restarts so far

laneVars    == <<states, opens, signed, claims, restarts>>
custodyVars == <<laneVars, chain>>

NoState == [opened |-> FALSE]
NoChannel == [exists |-> FALSE]

State(capacity, key, confirmed) ==
  [opened |-> TRUE, capacity |-> capacity, public_key |-> key,
   channel_id_known |-> confirmed, authorized |-> 0]

-----------------------------------------------------------------------------
LaneInit ==
  /\ states = [c \in Channels |-> NoState]
  /\ opens = [c \in Channels |-> NoState]
  /\ signed = <<>> /\ claims = {}
  /\ chain = [c \in Channels |-> NoChannel]
  /\ restarts = 0

\* Mutant: the state carries the cap instead of the capacity of its channel.
OpenChannelAtCap(c, key, capacity) ==
  /\ states[c] = NoState /\ opens[c] = NoState /\ chain[c] = NoChannel
  /\ capacity <= CapacityCap
  /\ states' = [states EXCEPT ![c] = State(CapacityCap, key, FALSE)]
  /\ opens' = [opens EXCEPT ![c] = State(capacity, key, FALSE)]
  /\ UNCHANGED <<signed, claims, restarts, chain>>

\* open_channel: within the cap and not rejected by the auditor, else
\* ChannelExposureError.  c stands for the channel the ledger will create.
OpenChannel(c, key, capacity) ==
  /\ states[c] = NoState /\ opens[c] = NoState /\ chain[c] = NoChannel
  /\ capacity <= CapacityCap
  /\ states' = [states EXCEPT ![c] = State(capacity, key, FALSE)]
  /\ opens' = [opens EXCEPT ![c] = State(capacity, key, FALSE)]
  /\ UNCHANGED <<signed, claims, restarts, chain>>

\* The caller sets channel_id from the ledger once the open is validated.
ConfirmOpen(c) ==
  /\ states[c] # NoState
  /\ chain[c] # NoChannel
  /\ states' = [states EXCEPT ![c].channel_id_known = TRUE]
  /\ UNCHANGED <<opens, signed, claims, restarts, chain>>

\* Mutant: the amount authorized is not remembered.
AuthorizeForgets(c, key, cumulative) ==
  /\ states[c] # NoState
  /\ states[c].channel_id_known
  /\ cumulative <= states[c].capacity
  /\ cumulative >= states[c].authorized
  /\ key = states[c].public_key
  /\ Len(signed) < MaxClaims
  /\ signed' = Append(signed, [channel |-> c, key |-> key,
                               amount |-> cumulative, session |-> restarts])
  /\ UNCHANGED <<states, opens, claims, restarts, chain>>

\* authorize_payment: a cumulative claim that is neither beyond the capacity
\* nor below the one before, signed with the key of the channel.
AuthorizePayment(c, key, cumulative) ==
  /\ states[c] # NoState
  /\ states[c].channel_id_known
  /\ cumulative <= states[c].capacity
  /\ cumulative >= states[c].authorized
  /\ key = states[c].public_key
  /\ Len(signed) < MaxClaims
  /\ signed' = Append(signed, [channel |-> c, key |-> key,
                               amount |-> cumulative, session |-> restarts])
  /\ states' = [states EXCEPT ![c].authorized = cumulative]
  /\ UNCHANGED <<opens, claims, restarts, chain>>

\* build_claim: whatever balance and signature the payee brings, within the
\* capacity; the signature is not looked at.
BuildClaim(c, balance, signature) ==
  /\ states[c] # NoState
  /\ states[c].channel_id_known
  /\ balance <= states[c].capacity
  /\ Cardinality(claims) < MaxClaims
  /\ claims' = claims \cup
       {[channel |-> c, balance |-> balance, amount |-> balance,
         signature |-> signature, key |-> states[c].public_key]}
  /\ UNCHANGED <<states, opens, signed, restarts, chain>>

\* The process restarts: what was in memory is gone, and a state is made
\* again for each channel the ledger has.
Restart ==
  /\ restarts < MaxRestarts
  /\ restarts' = restarts + 1
  /\ states' = [c \in Channels |->
       IF chain[c] = NoChannel THEN NoState
       ELSE State(chain[c].capacity, chain[c].key, TRUE)]
  /\ UNCHANGED <<opens, signed, claims, chain>>

-----------------------------------------------------------------------------
\* External: the ledger creates the channel, with the drops set aside; pays
\* out a claim whose signature covers the balance asked for; and lets a
\* channel expire, when what is left goes back to the treasury.
LedgerOpens(c) ==
  /\ opens[c] # NoState
  /\ opens[c].capacity > 0
  /\ chain' = [chain EXCEPT ![c] =
       [exists |-> TRUE, capacity |-> opens[c].capacity,
        key |-> opens[c].public_key, paid |-> 0, live |-> TRUE]]
  /\ opens' = [opens EXCEPT ![c] = NoState]
  /\ UNCHANGED <<states, signed, claims, restarts>>

LedgerPays(claim) ==
  LET c == claim.channel
  IN  /\ chain[c] # NoChannel
      /\ chain[c].live
      /\ claim.signature.channel = c
      /\ claim.signature.key = chain[c].key /\ claim.key = chain[c].key
      /\ claim.signature.amount = claim.amount
      /\ claim.balance <= claim.amount
      /\ claim.balance > chain[c].paid /\ claim.balance <= chain[c].capacity
      /\ chain' = [chain EXCEPT ![c].paid = claim.balance]
      /\ UNCHANGED laneVars

ChannelExpires(c) ==
  /\ chain[c] # NoChannel
  /\ chain' = [chain EXCEPT ![c].live = FALSE]
  /\ UNCHANGED laneVars

LaneNext ==
  \/ \E c \in Channels, key \in Keys, drops \in Drops :
       OpenChannel(c, key, drops) \/ AuthorizePayment(c, key, drops)
  \/ \E c \in Channels : ConfirmOpen(c)
  \/ \E c \in Channels, drops \in Drops, s \in ToSet(signed) : BuildClaim(c, drops, s)
  \/ Restart
  \/ \E c \in Channels : LedgerOpens(c) \/ ChannelExpires(c)
  \/ \E claim \in claims : LedgerPays(claim)

LaneSpec == LaneInit /\ [][LaneNext]_custodyVars

-----------------------------------------------------------------------------
Authorized(c) == {s.amount : s \in {x \in ToSet(signed) : x.channel = c}}

\* The un-audited exposure of a channel is its audited capacity
\* (open_channel, authorize_payment, build_claim): nothing the payee can
\* redeem, now or after a restart has made the lane forget what it signed,
\* exceeds the capacity, the capacity never exceeds the cap, and the ledger
\* never pays more than the largest claim the channel key has signed.
ExposureBounded ==
  \A c \in Channels :
    /\ \A amount \in Authorized(c) : amount <= CapacityCap
    /\ chain[c] # NoChannel =>
         /\ chain[c].capacity <= CapacityCap
         /\ \A amount \in Authorized(c) : amount <= chain[c].capacity
         /\ chain[c].paid > 0 => \E amount \in Authorized(c) : chain[c].paid <= amount
    /\ Authorized(c) # {} => chain[c] # NoChannel

\* Claims only grow (authorize_payment): between two restarts, whatever was
\* built, paid or confirmed in between, no claim on a channel is signed below
\* an earlier one, so the payee's latest claim is also its best one.
ClaimsGrow ==
  \A i, j \in 1..Len(signed) :
    i < j /\ signed[i].channel = signed[j].channel
          /\ signed[i].session = signed[j].session =>
      signed[i].amount <= signed[j].amount
=============================================================================
