------------------------------ MODULE TierProofs ------------------------------
(***************************************************************************)
(* Proofs about the two tiers that pay without a review.                   *)
(*                                                                         *)
(* Channel custody: the exposure of a channel is bounded, for any cap,      *)
(* amounts, channels and keys, and any number of claims and restarts.  The  *)
(* capacity of a channel is kept in three places: in the open that was      *)
(* signed, on the ledger, and in a ChannelState.  The invariant says that   *)
(* they agree, and that a claim is signed only over a channel that exists.  *)
(*                                                                         *)
(* Fast path: the velocity limit holds for any window, limit and clock skew.*)
(* The invariant relates the log of timestamps to the history of decisions: *)
(* each entry stands for an approval of its own, and an approval without an *)
(* entry has left the window for good.                                     *)
(***************************************************************************)
EXTENDS ChannelCustody, FastPath, SequenceTheorems, FiniteSetTheorems,
        NaturalsInduction, WellFoundedInduction, TLAPS

\* A signed open that is not validated, or none.
OpenKnown(c) ==
  opens[c] # NoState =>
    /\ opens[c].capacity \in Int /\ opens[c].capacity <= CapacityCap
    /\ chain[c] = NoChannel

\* A channel of the ledger, or none.
ChannelKnown(c) ==
  chain[c] # NoChannel =>
    /\ chain[c].exists
    /\ chain[c].capacity \in Int /\ chain[c].capacity <= CapacityCap
    /\ chain[c].paid \in Int
    /\ chain[c].paid > 0 =>
         \E s \in ToSet(signed) : s.channel = c /\ chain[c].paid <= s.amount

\* What the lane has in memory of a channel agrees with the two.
StateKnown(c) ==
  states[c] # NoState =>
    /\ opens[c] # NoState => states[c].capacity = opens[c].capacity
    /\ chain[c] # NoChannel => states[c].capacity = chain[c].capacity
    /\ states[c].channel_id_known => chain[c] # NoChannel

Functions == /\ DOMAIN states = Channels
             /\ DOMAIN opens = Channels
             /\ DOMAIN chain = Channels

\* A claim was signed within the capacity of a channel that exists.
SignedKnown ==
  \A s \in ToSet(signed) :
    /\ s.channel \in Channels /\ s.amount \in Int
    /\ chain[s.channel] # NoChannel
    /\ s.amount <= chain[s.channel].capacity

ClaimsKnown ==
  \A claim \in claims :
    /\ claim.channel \in Channels /\ claim.balance \in Int
    /\ claim.signature \in ToSet(signed)

CustodyInv ==
  /\ \A c \in Channels : OpenKnown(c) /\ ChannelKnown(c) /\ StateKnown(c)
  /\ Functions /\ SignedKnown /\ ClaimsKnown
  /\ signed \in Seq([channel : Channels, key : Keys, amount : Int, session : Nat])
  /\ restarts \in Nat

-----------------------------------------------------------------------------
\* Initially there is no channel and no claim.
LEMMA CustodyStart == LaneInit => CustodyInv
<1> SUFFICES ASSUME LaneInit PROVE CustodyInv
  OBVIOUS
<1>1. ToSet(signed) = {}
  BY DEF LaneInit, ToSet
<1> QED
  BY <1>1 DEF LaneInit, CustodyInv, OpenKnown, ChannelKnown, StateKnown, Functions, SignedKnown,
              ClaimsKnown

\* CustodyInv implies what the run checks.
LEMMA CustodyBoundsExposure == CustodyInv => ExposureBounded
<1> SUFFICES ASSUME CustodyInv, NEW c \in Channels
             PROVE  /\ \A amount \in Authorized(c) : amount <= CapacityCap
                    /\ chain[c] # NoChannel =>
                         /\ chain[c].capacity <= CapacityCap
                         /\ \A amount \in Authorized(c) : amount <= chain[c].capacity
                         /\ chain[c].paid > 0 =>
                              \E amount \in Authorized(c) : chain[c].paid <= amount
                    /\ Authorized(c) # {} => chain[c] # NoChannel
  BY DEF ExposureBounded
<1>1. \A amount \in Authorized(c) :
        \E s \in ToSet(signed) : s.channel = c /\ s.amount = amount
  BY DEF Authorized
<1>2. \A s \in ToSet(signed) : s.channel = c => s.amount \in Authorized(c)
  BY DEF Authorized
<1>3. ChannelKnown(c) /\ SignedKnown /\ CapacityCap \in Int
  BY CapAssumption DEF CustodyInv
<1>4. \A amount \in Authorized(c) :
        /\ amount \in Int /\ chain[c] # NoChannel /\ amount <= chain[c].capacity
  BY <1>1, <1>3 DEF SignedKnown
<1>5. chain[c] # NoChannel => chain[c].capacity \in Int /\ chain[c].capacity <= CapacityCap
  BY <1>3 DEF ChannelKnown
<1>6. chain[c] # NoChannel /\ chain[c].paid > 0 =>
        \E amount \in Authorized(c) : chain[c].paid <= amount
  BY <1>2, <1>3 DEF ChannelKnown
<1>7. \A amount \in Authorized(c) : amount <= CapacityCap
  BY <1>3, <1>4, <1>5
<1> QED
  BY <1>4, <1>5, <1>6, <1>7

\* One more claim is signed, and the earlier ones stay.
LEMMA SignedGrows ==
  ASSUME NEW S, NEW log \in Seq(S), NEW e \in S
  PROVE  ToSet(Append(log, e)) = ToSet(log) \cup {e} /\ Append(log, e) \in Seq(S)
<1> DEFINE longer == Append(log, e)
<1>1. /\ longer \in Seq(S) /\ Len(longer) = Len(log) + 1
      /\ \A i \in 1..Len(log) : longer[i] = log[i]
      /\ longer[Len(log) + 1] = e
  BY AppendProperties
<1>2. Len(log) \in Nat /\ DOMAIN log = 1..Len(log) /\ DOMAIN longer = 1..(Len(log) + 1)
  BY <1>1, LenProperties
<1> HIDE DEF longer
<1>3. ToSet(longer) \subseteq ToSet(log) \cup {e}
  BY <1>1, <1>2 DEF ToSet
<1>4. ToSet(log) \subseteq ToSet(longer)
  BY <1>1, <1>2 DEF ToSet
<1>5. e \in ToSet(longer)
  <2>1. Len(log) + 1 \in DOMAIN longer
    BY <1>2
  <2> QED
    BY <1>1, <2>1 DEF ToSet
<1> QED
  BY <1>1, <1>3, <1>4, <1>5 DEF longer

\* The ledger changes a channel that exists, but not its capacity, and pays no more
\* than a claim that was signed.
LEMMA LedgerMoves ==
  ASSUME CustodyInv, UNCHANGED laneVars, NEW c \in Channels, NEW channel,
         chain[c] # NoChannel, chain' = [chain EXCEPT ![c] = channel],
         channel.exists, channel.capacity = chain[c].capacity,
         channel.paid \in Int,
         channel.paid > 0 =>
           \E s \in ToSet(signed) : s.channel = c /\ channel.paid <= s.amount
  PROVE  CustodyInv'
<1> USE DEF CustodyInv, Functions, laneVars
<1>1. chain'[c] # NoChannel /\ chain'[c] = channel
  BY DEF NoChannel
<1>2. ASSUME NEW d \in Channels
      PROVE  OpenKnown(d)' /\ ChannelKnown(d)' /\ StateKnown(d)'
  <2>1. CASE d = c
    BY <1>1, <2>1 DEF OpenKnown, ChannelKnown, StateKnown
  <2>2. CASE d # c
    BY <2>2 DEF OpenKnown, ChannelKnown, StateKnown
  <2> QED
    BY <2>1, <2>2
<1>3. SignedKnown' /\ ClaimsKnown'
  BY <1>1 DEF SignedKnown, ClaimsKnown
<1> QED
  BY <1>2, <1>3

\* The three places keep agreeing, whatever the lane, the payee and the ledger do.
LEMMA CustodyStep ==
  ASSUME CustodyInv, [LaneNext]_custodyVars PROVE CustodyInv'
<1> USE DEF CustodyInv, Functions
<1>1. ASSUME NEW c \in Channels, NEW key \in Keys, NEW drops \in Drops,
             OpenChannel(c, key, drops)
      PROVE  CustodyInv'
  <2>1. drops \in Int
    BY DropsAssumption
  <2>2. UNCHANGED <<signed, claims, restarts, chain>>
    BY <1>1 DEF OpenChannel
  <2>3. /\ states' = [states EXCEPT ![c] = State(drops, key, FALSE)]
        /\ opens' = [opens EXCEPT ![c] = State(drops, key, FALSE)]
        /\ drops <= CapacityCap /\ chain[c] = NoChannel
    BY <1>1 DEF OpenChannel
  <2>4. ASSUME NEW d \in Channels
        PROVE  OpenKnown(d)' /\ ChannelKnown(d)' /\ StateKnown(d)'
    <3>1. ChannelKnown(d)'
      BY <2>2 DEF ChannelKnown
    <3>2. CASE d = c
      <4>1. states'[c] = State(drops, key, FALSE) /\ opens'[c] = State(drops, key, FALSE)
        BY <2>3
      <4> QED
        BY <2>1, <2>2, <2>3, <3>1, <3>2, <4>1 DEF OpenKnown, StateKnown, State
    <3>3. CASE d # c
      BY <2>2, <2>3, <3>1, <3>3 DEF OpenKnown, StateKnown
    <3> QED
      BY <3>2, <3>3
  <2>5. SignedKnown' /\ ClaimsKnown'
    BY <2>2 DEF SignedKnown, ClaimsKnown
  <2> QED
    BY <2>2, <2>3, <2>4, <2>5
<1>2. ASSUME NEW c \in Channels, NEW key \in Keys, NEW drops \in Drops,
             AuthorizePayment(c, key, drops)
      PROVE  CustodyInv'
  <2> DEFINE s == [channel |-> c, key |-> key, amount |-> drops, session |-> restarts]
  <2>1. s \in [channel : Channels, key : Keys, amount : Int, session : Nat]
    BY DropsAssumption
  <2>2. UNCHANGED <<opens, claims, restarts, chain>> /\ signed' = Append(signed, s)
    BY <1>2 DEF AuthorizePayment
  <2>3. ToSet(signed') = ToSet(signed) \cup {s}
        /\ signed' \in Seq([channel : Channels, key : Keys, amount : Int, session : Nat])
    <3> DEFINE S == [channel : Channels, key : Keys, amount : Int, session : Nat]
    <3>1. signed \in Seq(S) /\ s \in S
      BY <2>1
    <3> HIDE DEF S, s
    <3>2. ToSet(Append(signed, s)) = ToSet(signed) \cup {s} /\ Append(signed, s) \in Seq(S)
      BY <3>1, SignedGrows
    <3> QED
      BY <2>2, <3>2 DEF S
  <2>4. /\ states' = [states EXCEPT ![c].authorized = drops]
        /\ states[c] # NoState /\ chain[c] # NoChannel /\ drops <= chain[c].capacity
    BY <1>2 DEF AuthorizePayment, StateKnown
  <2>5. ASSUME NEW d \in Channels
        PROVE  OpenKnown(d)' /\ ChannelKnown(d)' /\ StateKnown(d)'
    <3>1. OpenKnown(d)' /\ ChannelKnown(d)'
      BY <2>2, <2>3 DEF OpenKnown, ChannelKnown
    <3>2. CASE d = c
      <4>1. states'[c] = [states[c] EXCEPT !.authorized = drops]
        BY <2>4
      <4>2. states'[c].capacity = states[c].capacity
        BY <4>1
      <4> QED
        BY <2>2, <2>4, <3>1, <3>2, <4>2 DEF StateKnown, OpenKnown
    <3>3. CASE d # c
      BY <2>2, <2>4, <3>1, <3>3 DEF StateKnown
    <3> QED
      BY <3>2, <3>3
  <2>6. SignedKnown'
    BY <2>1, <2>2, <2>3, <2>4 DEF SignedKnown
  <2>7. ClaimsKnown'
    BY <2>2, <2>3 DEF ClaimsKnown
  <2> QED
    BY <2>2, <2>3, <2>4, <2>5, <2>6, <2>7
<1>3. ASSUME NEW c \in Channels, ConfirmOpen(c)
      PROVE  CustodyInv'
  <2>1. UNCHANGED <<opens, signed, claims, restarts, chain>>
    BY <1>3 DEF ConfirmOpen
  <2>2. /\ states' = [states EXCEPT ![c].channel_id_known = TRUE]
        /\ states[c] # NoState /\ chain[c] # NoChannel
    BY <1>3 DEF ConfirmOpen
  <2>3. ASSUME NEW d \in Channels
        PROVE  OpenKnown(d)' /\ ChannelKnown(d)' /\ StateKnown(d)'
    <3>1. OpenKnown(d)' /\ ChannelKnown(d)'
      BY <2>1 DEF OpenKnown, ChannelKnown
    <3>2. CASE d = c
      <4>1. states'[c] = [states[c] EXCEPT !.channel_id_known = TRUE]
        BY <2>2
      <4>2. states'[c].capacity = states[c].capacity
        BY <4>1
      <4> QED
        BY <2>1, <2>2, <3>1, <3>2, <4>2 DEF StateKnown, OpenKnown
    <3>3. CASE d # c
      BY <2>1, <2>2, <3>1, <3>3 DEF StateKnown
    <3> QED
      BY <3>2, <3>3
  <2>4. SignedKnown' /\ ClaimsKnown'
    BY <2>1 DEF SignedKnown, ClaimsKnown
  <2> QED
    BY <2>1, <2>2, <2>3, <2>4
<1>4. ASSUME NEW c \in Channels, NEW drops \in Drops, NEW s \in ToSet(signed),
             BuildClaim(c, drops, s)
      PROVE  CustodyInv'
  <2>1. UNCHANGED <<states, opens, signed, restarts, chain>>
    BY <1>4 DEF BuildClaim
  <2>2. \A claim \in claims' \ claims :
          claim.channel = c /\ claim.balance = drops /\ claim.signature = s
    BY <1>4 DEF BuildClaim
  <2>3. ClaimsKnown'
    BY <2>1, <2>2, DropsAssumption DEF ClaimsKnown
  <2>4. (\A d \in Channels : OpenKnown(d) /\ ChannelKnown(d) /\ StateKnown(d))' /\ SignedKnown'
    BY <2>1 DEF OpenKnown, ChannelKnown, StateKnown, SignedKnown
  <2> QED
    BY <2>1, <2>3, <2>4
<1>5. CASE Restart
  <2>1. UNCHANGED <<opens, signed, claims, chain>> /\ restarts' = restarts + 1
    BY <1>5 DEF Restart
  <2>2. states' = [c \in Channels |->
           IF chain[c] = NoChannel THEN NoState
           ELSE State(chain[c].capacity, chain[c].key, TRUE)]
    BY <1>5 DEF Restart
  <2>3. ASSUME NEW d \in Channels
        PROVE  OpenKnown(d)' /\ ChannelKnown(d)' /\ StateKnown(d)'
    BY <2>1, <2>2 DEF OpenKnown, ChannelKnown, StateKnown, State
  <2>4. SignedKnown' /\ ClaimsKnown'
    BY <2>1 DEF SignedKnown, ClaimsKnown
  <2> QED
    BY <2>1, <2>2, <2>3, <2>4
<1>6. ASSUME NEW c \in Channels, LedgerOpens(c)
      PROVE  CustodyInv'
  <2>1. UNCHANGED <<states, signed, claims, restarts>>
    BY <1>6 DEF LedgerOpens
  <2>2. /\ chain' = [chain EXCEPT ![c] =
             [exists |-> TRUE, capacity |-> opens[c].capacity,
              key |-> opens[c].public_key, paid |-> 0, live |-> TRUE]]
        /\ opens' = [opens EXCEPT ![c] = NoState]
        /\ opens[c] # NoState
    BY <1>6 DEF LedgerOpens
  <2>3. chain'[c] # NoChannel
    BY <2>2 DEF NoChannel
  <2>4. ASSUME NEW d \in Channels
        PROVE  OpenKnown(d)' /\ ChannelKnown(d)' /\ StateKnown(d)'
    BY <2>1, <2>2, <2>3 DEF OpenKnown, ChannelKnown, StateKnown
  <2>5. SignedKnown' /\ ClaimsKnown'
    BY <2>1, <2>2, <2>3 DEF SignedKnown, ClaimsKnown, OpenKnown
  <2> QED
    BY <2>1, <2>2, <2>4, <2>5
<1>7. ASSUME NEW c \in Channels, ChannelExpires(c)
      PROVE  CustodyInv'
  <2>1. /\ chain' = [chain EXCEPT ![c].live = FALSE]
        /\ chain[c] # NoChannel /\ UNCHANGED laneVars
    BY <1>7 DEF ChannelExpires
  <2>2. chain'[c] = [chain[c] EXCEPT !.live = FALSE]
    BY <2>1
  <2>3. /\ chain'[c].capacity = chain[c].capacity /\ chain'[c].paid = chain[c].paid
        /\ chain'[c].exists = chain[c].exists
    BY <2>2
  <2> QED
    <3>1. chain' = [chain EXCEPT ![c] = chain'[c]] /\ chain[c].exists /\ chain[c].paid \in Int
      BY <2>1 DEF ChannelKnown
    <3> QED
      BY <2>1, <2>3, <3>1, LedgerMoves DEF ChannelKnown
<1>8. ASSUME NEW claim \in claims, LedgerPays(claim)
      PROVE  CustodyInv'
  <2> DEFINE c == claim.channel
  <2>1. c \in Channels /\ claim.balance \in Int /\ claim.signature \in ToSet(signed)
    BY DEF ClaimsKnown
  <2>2. /\ chain' = [chain EXCEPT ![c].paid = claim.balance]
        /\ chain[c] # NoChannel /\ UNCHANGED laneVars
        /\ claim.signature.channel = c /\ claim.signature.amount = claim.amount
        /\ claim.balance <= claim.amount
    BY <1>8 DEF LedgerPays
  <2>3. chain'[c] = [chain[c] EXCEPT !.paid = claim.balance]
    BY <2>1, <2>2
  <2>4. chain[c].exists
    BY <2>1, <2>2 DEF ChannelKnown
  <2>5. /\ chain'[c].capacity = chain[c].capacity /\ chain'[c].exists
        /\ chain'[c].paid = claim.balance
    BY <2>3, <2>4
  <2> QED
    <3>1. chain' = [chain EXCEPT ![c] = chain'[c]]
      BY <2>1, <2>2
    <3> QED
      BY <2>1, <2>2, <2>5, <3>1, LedgerMoves
<1>9. CASE UNCHANGED custodyVars
  <2>1. (\A d \in Channels : OpenKnown(d) /\ ChannelKnown(d) /\ StateKnown(d))'
        /\ SignedKnown' /\ ClaimsKnown'
    BY <1>9 DEF OpenKnown, ChannelKnown, StateKnown, SignedKnown, ClaimsKnown, custodyVars, laneVars
  <2> QED
    BY <1>9, <2>1 DEF custodyVars, laneVars
<1> QED
  BY <1>1, <1>2, <1>3, <1>4, <1>5, <1>6, <1>7, <1>8, <1>9 DEF LaneNext

\* Nothing the payee can redeem exceeds the capacity that was audited, nor that the
\* cap, however often the lane restarts and forgets what it signed.
THEOREM ExposureHolds == LaneSpec => []ExposureBounded
<1>1. LaneInit => CustodyInv
  BY CustodyStart
<1>2. CustodyInv /\ [LaneNext]_custodyVars => CustodyInv'
  BY CustodyStep
<1>3. CustodyInv => ExposureBounded
  BY CustodyBoundsExposure
<1> QED
  BY <1>1, <1>2, <1>3, PTL DEF LaneSpec

-----------------------------------------------------------------------------
(* Claims only grow between two restarts.                                  *)

\* A ChannelState knows what it has authorized.
Remembered(state) ==
  /\ {"opened", "authorized"} \subseteq DOMAIN state
  /\ state.opened /\ state.authorized \in Int

\* No claim is of a session that is still to come, and those of this session are at
\* most what the lane remembers to have authorized.
SessionKnown ==
  /\ \A c \in Channels : states[c] # NoState => Remembered(states[c])
  /\ \A i \in 1..Len(signed) :
       /\ signed[i].session <= restarts
       /\ signed[i].session = restarts =>
            /\ states[signed[i].channel] # NoState
            /\ signed[i].amount <= states[signed[i].channel].authorized

GrowInv == CustodyInv /\ SessionKnown /\ ClaimsGrow

\* What is known of a claim at its position in the history.
LEMMA ClaimTypes ==
  ASSUME CustodyInv, NEW i \in 1..Len(signed)
  PROVE  /\ signed[i].channel \in Channels /\ signed[i].amount \in Int
         /\ signed[i].session \in Nat /\ chain[signed[i].channel] # NoChannel
<1>1. signed \in Seq([channel : Channels, key : Keys, amount : Int, session : Nat])
  BY DEF CustodyInv
<1>2. signed[i] \in [channel : Channels, key : Keys, amount : Int, session : Nat]
  BY <1>1, ElementOfSeq
<1>3. signed[i] \in ToSet(signed)
  BY <1>1, LenProperties DEF ToSet
<1> QED
  BY <1>2, <1>3 DEF CustodyInv, SignedKnown

\* A step that signs nothing and authorizes nothing.
LEMMA SessionStays ==
  ASSUME CustodyInv, SessionKnown, ClaimsGrow, UNCHANGED <<signed, restarts>>,
         \A c \in Channels : chain[c] # NoChannel /\ states[c] # NoState =>
           states'[c] # NoState /\ states'[c].authorized = states[c].authorized,
         \A c \in Channels : states'[c] # NoState => Remembered(states'[c])
  PROVE  SessionKnown' /\ ClaimsGrow'
<1>1. ASSUME NEW i \in 1..Len(signed), signed[i].session = restarts
      PROVE  /\ states'[signed[i].channel] # NoState
             /\ signed[i].amount <= states'[signed[i].channel].authorized
  <2>1. signed[i].channel \in Channels /\ chain[signed[i].channel] # NoChannel
    BY ClaimTypes
  <2>2. /\ states[signed[i].channel] # NoState
        /\ signed[i].amount <= states[signed[i].channel].authorized
    BY <1>1 DEF SessionKnown
  <2> QED
    BY <2>1, <2>2
<1> QED
  BY <1>1 DEF SessionKnown, ClaimsGrow

\* A claim is signed for no less than the lane remembers, and the lane remembers it.
LEMMA AuthorizeGrows ==
  ASSUME GrowInv, NEW c \in Channels, NEW key \in Keys, NEW drops \in Drops,
         AuthorizePayment(c, key, drops)
  PROVE  SessionKnown' /\ ClaimsGrow'
<1> DEFINE S == [channel : Channels, key : Keys, amount : Int, session : Nat]
           s == [channel |-> c, key |-> key, amount |-> drops, session |-> restarts]
<1>1. signed \in Seq(S) /\ s \in S /\ restarts \in Nat /\ drops \in Int
  BY DropsAssumption DEF GrowInv, CustodyInv
<1>2. /\ signed' = Append(signed, s) /\ UNCHANGED restarts
      /\ states' = [states EXCEPT ![c].authorized = drops]
      /\ states[c] # NoState /\ drops >= states[c].authorized
      /\ states[c].channel_id_known /\ DOMAIN states = Channels
  BY DEF AuthorizePayment, GrowInv, CustodyInv, Functions
<1>3. /\ s.channel = c /\ s.amount = drops /\ s.session = restarts
  OBVIOUS
<1> HIDE DEF S, s
<1>4. /\ Len(signed) \in Nat /\ Len(signed') = Len(signed) + 1
      /\ \A i \in 1..Len(signed) : signed'[i] = signed[i]
      /\ signed'[Len(signed) + 1] = s
  BY <1>1, <1>2, AppendProperties, LenProperties
<1>5. \A i \in 1..Len(signed') : i \in 1..Len(signed) \/ i = Len(signed) + 1
  BY <1>4
<1>6. states'[c] = [states[c] EXCEPT !.authorized = drops]
  BY <1>2
<1>7. states'[c] # NoState /\ states'[c].authorized = drops /\ Remembered(states'[c])
  <2>1. Remembered(states[c])
    BY <1>2 DEF GrowInv, SessionKnown
  <2>2. states'[c].opened /\ states'[c].authorized = drops /\ DOMAIN states'[c] = DOMAIN states[c]
    BY <1>6, <2>1 DEF Remembered
  <2> QED
    BY <1>1, <2>1, <2>2 DEF Remembered, NoState
<1>8. \A d \in Channels : d # c => states'[d] = states[d]
  BY <1>2
<1>9. ASSUME NEW i \in 1..Len(signed)
      PROVE  /\ signed[i].session <= restarts
             /\ signed[i].session = restarts =>
                  /\ states'[signed[i].channel] # NoState
                  /\ signed[i].amount <= states'[signed[i].channel].authorized
             /\ signed[i].session = restarts /\ signed[i].channel = c =>
                  signed[i].amount <= drops
  <2>1. signed[i].channel \in Channels /\ signed[i].amount \in Int
    BY ClaimTypes DEF GrowInv
  <2>2. /\ signed[i].session <= restarts
        /\ signed[i].session = restarts =>
             /\ states[signed[i].channel] # NoState
             /\ signed[i].amount <= states[signed[i].channel].authorized
    BY DEF GrowInv, SessionKnown
  <2>3. states[c].authorized \in Int
    BY <1>2 DEF GrowInv, SessionKnown, Remembered
  <2>4. CASE signed[i].channel = c
    BY <1>1, <1>2, <1>7, <2>1, <2>2, <2>3, <2>4
  <2>5. CASE signed[i].channel # c
    BY <1>8, <2>1, <2>2, <2>5
  <2> QED
    BY <2>4, <2>5
<1>10. SessionKnown'
  <2>1. \A d \in Channels : states'[d] # NoState => Remembered(states'[d])
    BY <1>7, <1>8 DEF GrowInv, SessionKnown
  <2>2. \A i \in 1..Len(signed') :
          /\ signed'[i].session <= restarts'
          /\ signed'[i].session = restarts' =>
               /\ states'[signed'[i].channel] # NoState
               /\ signed'[i].amount <= states'[signed'[i].channel].authorized
    BY <1>1, <1>2, <1>3, <1>4, <1>5, <1>7, <1>9
  <2> QED
    BY <2>1, <2>2 DEF SessionKnown
<1>11. ASSUME NEW i \in 1..Len(signed'), NEW j \in 1..Len(signed'), i < j,
              signed'[i].channel = signed'[j].channel,
              signed'[i].session = signed'[j].session
       PROVE  signed'[i].amount <= signed'[j].amount
  <2>1. i \in 1..Len(signed) /\ signed'[i] = signed[i]
    BY <1>4, <1>11
  <2>2. CASE j \in 1..Len(signed)
    BY <1>4, <1>11, <2>1, <2>2 DEF GrowInv, ClaimsGrow
  <2>3. CASE j = Len(signed) + 1
    BY <1>3, <1>4, <1>9, <1>11, <2>1, <2>3
  <2> QED
    BY <1>5, <2>2, <2>3
<1> QED
  BY <1>10, <1>11 DEF ClaimsGrow

\* The others sign nothing; a restart begins a session without claims, and only a
\* channel that has none is opened.
LEMMA GrowStep ==
  ASSUME GrowInv, [LaneNext]_custodyVars PROVE GrowInv'
<1>1. CustodyInv'
  BY CustodyStep DEF GrowInv
<1>2. CustodyInv /\ SessionKnown /\ ClaimsGrow /\ DOMAIN states = Channels
  BY DEF GrowInv, CustodyInv, Functions
<1>3. \A c \in Channels : states[c] # NoState => Remembered(states[c])
  BY <1>2 DEF SessionKnown
<1>4. ASSUME NEW c \in Channels, NEW key \in Keys, NEW drops \in Drops,
             OpenChannel(c, key, drops)
      PROVE  SessionKnown' /\ ClaimsGrow'
  <2>1. /\ states' = [states EXCEPT ![c] = State(drops, key, FALSE)]
        /\ chain[c] = NoChannel /\ UNCHANGED <<signed, restarts>>
    BY <1>4 DEF OpenChannel
  <2>2. /\ \A d \in Channels : d # c => states'[d] = states[d]
        /\ states'[c] = State(drops, key, FALSE)
    BY <1>2, <2>1
  <2>3. Remembered(states'[c])
    BY <2>2 DEF Remembered, State
  <2>4. \A d \in Channels : states'[d] # NoState => Remembered(states'[d])
    BY <1>3, <2>2, <2>3
  <2>5. \A d \in Channels : chain[d] # NoChannel /\ states[d] # NoState =>
          states'[d] # NoState /\ states'[d].authorized = states[d].authorized
    BY <2>1, <2>2
  <2> QED
    BY <1>2, <2>1, <2>4, <2>5, SessionStays
<1>5. ASSUME NEW c \in Channels, ConfirmOpen(c)
      PROVE  SessionKnown' /\ ClaimsGrow'
  <2>1. /\ states' = [states EXCEPT ![c].channel_id_known = TRUE]
        /\ states[c] # NoState /\ UNCHANGED <<signed, restarts>>
    BY <1>5 DEF ConfirmOpen
  <2>2. states'[c] = [states[c] EXCEPT !.channel_id_known = TRUE]
    BY <1>2, <2>1
  <2>3. Remembered(states[c])
    BY <1>3, <2>1
  <2>4. /\ states'[c].authorized = states[c].authorized
        /\ states'[c].opened /\ DOMAIN states'[c] = DOMAIN states[c]
    BY <2>2, <2>3 DEF Remembered
  <2>5. Remembered(states'[c]) /\ states'[c] # NoState
    BY <2>3, <2>4 DEF Remembered, NoState
  <2>6. \A d \in Channels : d # c => states'[d] = states[d]
    BY <1>2, <2>1
  <2>7. \A d \in Channels : states'[d] # NoState => Remembered(states'[d])
    BY <1>3, <2>5, <2>6
  <2>8. \A d \in Channels : chain[d] # NoChannel /\ states[d] # NoState =>
          states'[d] # NoState /\ states'[d].authorized = states[d].authorized
    BY <2>4, <2>5, <2>6
  <2> QED
    BY <1>2, <2>1, <2>7, <2>8, SessionStays
<1>6. ASSUME Restart
      PROVE  SessionKnown' /\ ClaimsGrow'
  <2>1. /\ UNCHANGED signed /\ restarts' = restarts + 1 /\ restarts \in Nat
        /\ states' = [c \in Channels |->
             IF chain[c] = NoChannel THEN NoState
             ELSE State(chain[c].capacity, chain[c].key, TRUE)]
    BY <1>6, <1>2 DEF Restart, CustodyInv
  <2>2. \A c \in Channels : states'[c] # NoState => Remembered(states'[c])
    BY <2>1 DEF State, Remembered
  <2>3. \A i \in 1..Len(signed) : signed[i].session \in Nat /\ signed[i].session <= restarts
    BY <1>2, ClaimTypes DEF SessionKnown
  <2>4. \A i \in 1..Len(signed) :
          signed[i].session <= restarts' /\ signed[i].session # restarts'
    BY <2>1, <2>3
  <2> QED
    BY <1>2, <2>1, <2>2, <2>4 DEF SessionKnown, ClaimsGrow
<1>7. ASSUME UNCHANGED <<states, signed, restarts>>
      PROVE  SessionKnown' /\ ClaimsGrow'
  BY <1>2, <1>7 DEF SessionKnown, ClaimsGrow
<1>8. ASSUME \/ \E c \in Channels, drops \in Drops, s \in ToSet(signed) : BuildClaim(c, drops, s)
             \/ \E c \in Channels : LedgerOpens(c) \/ ChannelExpires(c)
             \/ \E claim \in claims : LedgerPays(claim)
             \/ UNCHANGED custodyVars
      PROVE  SessionKnown' /\ ClaimsGrow'
  <2>1. UNCHANGED <<states, signed, restarts>>
    BY <1>8 DEF BuildClaim, LedgerOpens, ChannelExpires, LedgerPays, custodyVars, laneVars
  <2> QED
    BY <1>7, <2>1
<1>9. SessionKnown' /\ ClaimsGrow'
  BY <1>4, <1>5, <1>6, <1>8, AuthorizeGrows DEF LaneNext
<1> QED
  BY <1>1, <1>9 DEF GrowInv

\* Between two restarts no claim on a channel is signed below an earlier one, whatever
\* the payee builds and the ledger does in between.
THEOREM ClaimsOnlyGrow == LaneSpec => []ClaimsGrow
<1>1. LaneInit => GrowInv
  <2> SUFFICES ASSUME LaneInit PROVE GrowInv
    OBVIOUS
  <2>1. CustodyInv
    BY CustodyStart
  <2>2. Len(signed) = 0 /\ \A c \in Channels : states[c] = NoState
    BY DEF LaneInit
  <2>3. SessionKnown /\ ClaimsGrow
    BY <2>2 DEF SessionKnown, ClaimsGrow
  <2> QED
    BY <2>1, <2>3 DEF GrowInv
<1>2. GrowInv /\ [LaneNext]_custodyVars => GrowInv'
  BY GrowStep
<1>3. GrowInv => ClaimsGrow
  BY DEF GrowInv
<1> QED
  BY <1>1, <1>2, <1>3, PTL DEF LaneSpec

-----------------------------------------------------------------------------
(* The fast path: its velocity limit.                                      *)

\* The log holds, each once, the approvals that may still be fresh: the entry at
\* a stands for decision g[a], and an approval without an entry has expired.
Remembers(g, log, made, now) ==
  /\ g \in [1..Len(log) -> 1..Len(made)]
  /\ \A a, b \in 1..Len(log) : g[a] = g[b] => a = b
  /\ \A a \in 1..Len(log) : /\ made[g[a]].reason = "auto_cosign_mid_value"
                            /\ made[g[a]].timestamp = log[a]
  /\ \A j \in 1..Len(made) :
       made[j].reason = "auto_cosign_mid_value" =>
         \/ \E a \in 1..Len(log) : g[a] = j
         \/ ~Fresh(made[j].timestamp, now)

LogKnown == \E g : Remembers(g, recent, decisions, clock)

\* The entries of the log are in order up to ClockSkew, and none is in the future.
Ordered(log, now) ==
  /\ log \in Seq(Int)
  /\ \A a \in 1..Len(log) : log[a] <= now
  /\ \A a, b \in 1..Len(log) : a < b => log[b] >= log[a] - ClockSkew

StampsKnown ==
  /\ clock \in Int /\ Ordered(recent, clock)
  /\ \E S : decisions \in Seq(S)
  /\ \A j \in 1..Len(decisions) : decisions[j].timestamp \in Int

FastInv == LogKnown /\ StampsKnown /\ FastPathVelocity

-----------------------------------------------------------------------------
\* A set of natural numbers has a least element.
LEMMA LeastPosition ==
  ASSUME NEW S \in SUBSET Nat, S # {}
  PROVE  \E m \in S : \A k \in S : m <= k
<1> DEFINE R == {pair \in Nat \X Nat : pair[1] < pair[2]}
<1>1. R = OpToRel(<, Nat)
  BY DEF OpToRel
<1>2. IsWellFoundedOn(R, Nat)
  BY <1>1, NatLessThanWellFounded
<1>3. PICK m \in S : \A k \in S : ~ (<<k, m>> \in R)
  BY <1>2, WFMin
<1>4. ASSUME NEW k \in S
      PROVE  m <= k
  <2>1. <<k, m>> \in Nat \X Nat /\ ~(<<k, m>> \in R)
    BY <1>3
  <2> QED
    BY <2>1
<1> QED
  BY <1>4

\* _prune keeps a suffix of the log: everything before it has expired, and its head,
\* if it has one, is fresh.
LEMMA PruneKeepsFreshSuffix ==
  ASSUME NEW log \in Seq(Int), NEW now \in Int
  PROVE  \E first \in 1..(Len(log) + 1) :
           /\ Prune(log, now) \in Seq(Int)
           /\ Len(Prune(log, now)) = Len(log) - first + 1
           /\ \A i \in 1..(Len(log) - first + 1) :
                Prune(log, now)[i] = log[first + i - 1]
           /\ \A j \in 1..(first - 1) : ~Fresh(log[j], now)
           /\ first <= Len(log) => Fresh(log[first], now)
<1> DEFINE fresh == {i \in 1..Len(log) : Fresh(log[i], now)}
<1>1. Len(log) \in Nat /\ \A i \in 1..Len(log) : log[i] \in Int
  BY LenProperties, ElementOfSeq
<1>2. CASE fresh = {}
  <2>1. Prune(log, now) = <<>>
    BY <1>2 DEF Prune
  <2>2. \A j \in 1..Len(log) : ~Fresh(log[j], now)
    BY <1>2
  <2>3. /\ Len(log) + 1 \in 1..(Len(log) + 1) /\ (Len(log) + 1) - 1 = Len(log)
        /\ Len(log) - (Len(log) + 1) + 1 = 0 /\ ~(Len(log) + 1 <= Len(log))
    BY <1>1
  <2>4. Prune(log, now) \in Seq(Int) /\ Len(Prune(log, now)) = 0
    BY <2>1
  <2> HIDE DEF fresh
  <2>5. WITNESS Len(log) + 1 \in 1..(Len(log) + 1)
  <2>6. Len(Prune(log, now)) = Len(log) - (Len(log) + 1) + 1
    BY <2>3, <2>4
  <2>7. \A i \in 1..(Len(log) - (Len(log) + 1) + 1) : FALSE
    BY <2>3
  <2>8. \A j \in 1..((Len(log) + 1) - 1) : ~Fresh(log[j], now)
    BY <2>2, <2>3
  <2> QED
    BY <2>3, <2>4, <2>6, <2>7, <2>8
<1>3. CASE fresh # {}
  <2> DEFINE first == CHOOSE i \in fresh : \A j \in fresh : i <= j
             kept  == SubSeq(log, first, Len(log))
  <2>1. fresh \in SUBSET Nat
    OBVIOUS
  <2>2. \E i \in fresh : \A j \in fresh : i <= j
    BY <1>3, <2>1, LeastPosition
  <2>3. first \in fresh /\ \A j \in fresh : first <= j
    BY <2>2
  <2>4. Prune(log, now) = kept
    BY <1>3 DEF Prune
  <2>5. first \in 1..Len(log) /\ Fresh(log[first], now)
    BY <2>3
  <2>6. \A j \in 1..(first - 1) : ~Fresh(log[j], now)
    <3>1. \A j \in 1..(first - 1) : j \in 1..Len(log) /\ ~(first <= j)
      BY <1>1, <2>5
    <3> QED
      BY <2>3, <3>1
  <2> HIDE DEF first
  <2>7. /\ kept \in Seq(Int) /\ Len(kept) = IF first <= Len(log) THEN Len(log) - first + 1 ELSE 0
        /\ \A i \in 1..(Len(log) - first + 1) : kept[i] = log[first + i - 1]
    <3>1. first \in Int /\ Len(log) \in Int /\ \A i \in first..Len(log) : log[i] \in Int
      BY <1>1, <2>5
    <3> QED
      BY <3>1, SubSeqProperties
  <2> HIDE DEF kept
  <2>8. Len(kept) = Len(log) - first + 1 /\ first \in 1..(Len(log) + 1)
    BY <1>1, <2>5, <2>7
  <2> QED
    BY <2>4, <2>5, <2>6, <2>7, <2>8
<1> QED
  BY <1>2, <1>3

\* A log that is a suffix of a remembered one, without entries that are fresh, is
\* remembered, and by the same entries.
LEMMA SuffixRemembered ==
  ASSUME NEW g, NEW log \in Seq(Int), NEW made, NEW now \in Int, NEW ts \in Int, ts <= now,
         Remembers(g, log, made, now), Len(made) \in Nat,
         NEW kept \in Seq(Int), NEW first \in 1..(Len(log) + 1),
         Len(kept) = Len(log) - first + 1,
         \A i \in 1..(Len(log) - first + 1) : kept[i] = log[first + i - 1],
         \A j \in 1..(first - 1) : ~Fresh(log[j], ts)
  PROVE  \E h : Remembers(h, kept, made, now)
<1> DEFINE h == [a \in 1..Len(kept) |-> g[first + a - 1]]
<1>1. /\ Len(log) \in Nat /\ \A i \in 1..Len(log) : log[i] \in Int
      /\ Len(kept) \in Nat
  BY LenProperties, ElementOfSeq
<1>2. \A a \in 1..Len(kept) :
        /\ first + a - 1 \in 1..Len(log) /\ h[a] = g[first + a - 1]
        /\ kept[a] = log[first + a - 1]
  BY <1>1
<1>3. h \in [1..Len(kept) -> 1..Len(made)]
  BY <1>2 DEF Remembers
<1> HIDE DEF h
<1>4. ASSUME NEW a \in 1..Len(kept), NEW b \in 1..Len(kept), h[a] = h[b]
      PROVE  a = b
  <2>1. /\ first + a - 1 \in 1..Len(log) /\ first + b - 1 \in 1..Len(log)
        /\ g[first + a - 1] = g[first + b - 1]
    BY <1>2, <1>4
  <2>2. first + a - 1 = first + b - 1
    BY <2>1 DEF Remembers
  <2>3. a \in Int /\ b \in Int /\ first \in Int
    BY <1>1
  <2> QED
    BY <2>2, <2>3
<1>5. ASSUME NEW a \in 1..Len(kept)
      PROVE  made[h[a]].reason = "auto_cosign_mid_value" /\ made[h[a]].timestamp = kept[a]
  <2>1. first + a - 1 \in 1..Len(log) /\ h[a] = g[first + a - 1] /\ kept[a] = log[first + a - 1]
    BY <1>2
  <2> QED
    BY <2>1 DEF Remembers
<1>6. ASSUME NEW j \in 1..Len(made), made[j].reason = "auto_cosign_mid_value",
             Fresh(made[j].timestamp, now)
      PROVE  \/ \E a \in 1..Len(kept) : h[a] = j
             \/ \E b \in 1..Len(log) : made[j].timestamp = log[b] /\ ~Fresh(log[b], ts)
  <2>1. PICK b \in 1..Len(log) : g[b] = j
    BY <1>6 DEF Remembers
  <2>2. made[j].timestamp = log[b]
    BY <2>1 DEF Remembers
  <2>3. CASE b < first
    <3>1. b \in 1..(first - 1)
      BY <1>1, <2>3
    <3>2. ~Fresh(log[b], ts)
      BY <3>1
    <3> QED
      BY <2>2, <3>2
  <2>4. CASE b >= first
    <3> DEFINE a == b - first + 1
    <3>1. a \in 1..Len(kept) /\ first + a - 1 = b
      BY <1>1, <2>4
    <3> HIDE DEF a
    <3>2. h[a] = j
      BY <1>2, <2>1, <3>1
    <3> QED
      BY <3>1, <3>2
  <2> QED
    BY <1>1, <2>3, <2>4
<1>7. \A t \in Int : ~Fresh(t, ts) => ~Fresh(t, now)
  BY FastPathLimitAssumption DEF Fresh
<1>8. ASSUME NEW j \in 1..Len(made), made[j].reason = "auto_cosign_mid_value"
      PROVE  (\E a \in 1..Len(kept) : h[a] = j) \/ ~Fresh(made[j].timestamp, now)
  BY <1>1, <1>6, <1>7, <1>8
<1>9. Remembers(h, kept, made, now)
  BY <1>3, <1>4, <1>5, <1>8 DEF Remembers
<1> QED
  BY <1>9

\* So a log that is pruned is still one that remembers what is fresh.
LEMMA PrunedRemembers ==
  ASSUME LogKnown, StampsKnown, NEW ts \in Int, ts <= clock, clock - ClockSkew <= ts
  PROVE  /\ Ordered(Prune(recent, ts), clock)
         /\ \E g : Remembers(g, Prune(recent, ts), decisions, clock)
         /\ \A a \in 1..Len(Prune(recent, ts)) :
              Prune(recent, ts)[a] >= ts - (FrequencyWindow + ClockSkew)
<1> DEFINE kept == Prune(recent, ts)
<1>1. recent \in Seq(Int) /\ clock \in Int
  BY DEF StampsKnown, Ordered
<1>2. PICK first \in 1..(Len(recent) + 1) :
        /\ kept \in Seq(Int)
        /\ Len(kept) = Len(recent) - first + 1
        /\ \A i \in 1..(Len(recent) - first + 1) : kept[i] = recent[first + i - 1]
        /\ \A j \in 1..(first - 1) : ~Fresh(recent[j], ts)
        /\ first <= Len(recent) => Fresh(recent[first], ts)
  BY <1>1, PruneKeepsFreshSuffix
<1> HIDE DEF kept
<1>3. /\ Len(recent) \in Nat /\ Len(kept) \in Nat /\ Len(decisions) \in Nat
      /\ \A i \in 1..Len(recent) : recent[i] \in Int
  BY <1>1, <1>2, LenProperties, ElementOfSeq DEF StampsKnown
<1>4. \A a \in 1..Len(kept) : first + a - 1 \in 1..Len(recent) /\ kept[a] = recent[first + a - 1]
  BY <1>2, <1>3
<1>5. \E g : Remembers(g, kept, decisions, clock)
  <2>1. PICK g : Remembers(g, recent, decisions, clock)
    BY DEF LogKnown
  <2> QED
    BY <1>1, <1>2, <1>3, <2>1, SuffixRemembered
<1>6. Ordered(kept, clock)
  <2>1. \A a \in 1..Len(kept) : kept[a] <= clock
    BY <1>4 DEF StampsKnown, Ordered
  <2>2. ASSUME NEW a \in 1..Len(kept), NEW b \in 1..Len(kept), a < b
        PROVE  kept[b] >= kept[a] - ClockSkew
    <3>1. /\ first + a - 1 \in 1..Len(recent) /\ first + b - 1 \in 1..Len(recent)
          /\ first + a - 1 < first + b - 1
      BY <1>3, <1>4, <2>2
    <3>2. recent[first + b - 1] >= recent[first + a - 1] - ClockSkew
      BY <3>1 DEF StampsKnown, Ordered
    <3> QED
      BY <1>4, <3>2
  <2> QED
    BY <1>2, <2>1, <2>2 DEF Ordered
<1>7. ASSUME NEW a \in 1..Len(kept)
      PROVE  kept[a] >= ts - (FrequencyWindow + ClockSkew)
  <2>1. 1 \in 1..Len(kept) /\ first + 1 - 1 = first /\ first <= Len(recent)
    BY <1>2, <1>3
  <2>2. kept[1] = recent[first] /\ Fresh(recent[first], ts) /\ kept[1] \in Int
    BY <1>2, <1>3, <1>4, <2>1
  <2>3. ts - kept[1] <= FrequencyWindow
    BY <2>2 DEF Fresh
  <2>4. kept[a] \in Int /\ kept[a] >= kept[1] - ClockSkew
    <3>1. kept[a] \in Int
      BY <1>3, <1>4
    <3>2. CASE a = 1
      BY <2>2, <3>2, FastPathLimitAssumption
    <3>3. CASE a # 1
      <4>1. 1 < a
        BY <1>3, <3>3
      <4> QED
        BY <1>6, <2>1, <3>1, <4>1 DEF Ordered
    <3> QED
      BY <3>1, <3>2, <3>3
  <2> QED
    BY <2>2, <2>3, <2>4, FastPathLimitAssumption
<1> QED
  BY <1>5, <1>6, <1>7 DEF kept

-----------------------------------------------------------------------------
\* What n positions stand for is at most n things ...
LEMMA AtMost ==
  ASSUME NEW n \in Nat, NEW g, NEW S \in SUBSET {g[k] : k \in 1..n}
  PROVE  IsFiniteSet(S) /\ Cardinality(S) <= n
<1> DEFINE T == {g[k] : k \in 1..n}
           f == [k \in 1..n |-> g[k]]
<1>1. f \in Surjection(1..n, T)
  BY DEF Surjection
<1>2. IsFiniteSet(1..n) /\ Cardinality(1..n) = n
  BY FS_Interval
<1> HIDE DEF f
<1>3. S \in SUBSET T
  OBVIOUS
<1> HIDE DEF T
<1>4. IsFiniteSet(T) /\ Cardinality(T) <= Cardinality(1..n)
  BY <1>1, <1>2, FS_Surjection
<1>5. IsFiniteSet(S) /\ Cardinality(S) <= Cardinality(T)
  BY <1>3, <1>4, FS_Subset
<1>6. Cardinality(T) \in Nat /\ Cardinality(S) \in Nat
  BY <1>4, <1>5, FS_CardinalityType
<1> QED
  BY <1>2, <1>4, <1>5, <1>6

\* ... and at least n when they stand for different ones.
LEMMA AtLeast ==
  ASSUME NEW n \in Nat, NEW S, IsFiniteSet(S), NEW g \in [1..n -> S],
         \A a, b \in 1..n : g[a] = g[b] => a = b
  PROVE  n <= Cardinality(S)
<1>1. g \in Injection(1..n, S)
  BY DEF Injection, IsInjective
<1>2. Cardinality(1..n) = n
  BY FS_Interval
<1> QED
  BY <1>1, <1>2, FS_Injection

\* One more decision, and the earlier ones stay.
LEMMA DecisionsGrow ==
  ASSUME NEW made, \E S : made \in Seq(S), NEW d
  PROVE  /\ \E S : Append(made, d) \in Seq(S)
         /\ Len(made) \in Nat /\ Len(Append(made, d)) = Len(made) + 1
         /\ \A i \in 1..Len(made) : Append(made, d)[i] = made[i]
         /\ Append(made, d)[Len(made) + 1] = d
<1>1. PICK S : made \in Seq(S)
  OBVIOUS
<1>2. made \in Seq(S \cup {d}) /\ d \in S \cup {d}
  BY <1>1, SeqMonotonic
<1> QED
  BY <1>2, AppendProperties, LenProperties

\* The same in a log, which stays in order.
LEMMA LogGrows ==
  ASSUME NEW log, NEW now \in Int, NEW ts \in Int, Ordered(log, now),
         ts <= now, now - ClockSkew <= ts
  PROVE  /\ Ordered(Append(log, ts), now)
         /\ Len(log) \in Nat /\ Len(Append(log, ts)) = Len(log) + 1
         /\ \A i \in 1..Len(log) : Append(log, ts)[i] = log[i]
         /\ Append(log, ts)[Len(log) + 1] = ts
<1> DEFINE longer == Append(log, ts)
<1>1. /\ longer \in Seq(Int) /\ Len(longer) = Len(log) + 1 /\ Len(log) \in Nat
      /\ \A i \in 1..Len(log) : longer[i] = log[i]
      /\ longer[Len(log) + 1] = ts
  BY AppendProperties, LenProperties DEF Ordered
<1>2. \A i \in 1..Len(log) : log[i] \in Int
  BY ElementOfSeq DEF Ordered
<1> HIDE DEF longer
<1>3. \A a \in 1..Len(longer) : longer[a] <= now
  BY <1>1, SMTT(30) DEF Ordered
<1>4. ASSUME NEW a \in 1..Len(longer), NEW b \in 1..Len(longer), a < b
      PROVE  longer[b] >= longer[a] - ClockSkew
  <2>1. a \in 1..Len(log) /\ longer[a] = log[a] /\ log[a] <= now /\ log[a] \in Int
    BY <1>1, <1>2, <1>4, SMTT(30) DEF Ordered
  <2>2. CASE b = Len(log) + 1
    BY <1>1, <2>1, <2>2, FastPathLimitAssumption
  <2>3. CASE b # Len(log) + 1
    <3>1. b \in 1..Len(log)
      BY <1>1, <2>3
    <3> QED
      BY <1>1, <1>4, <2>1, <3>1 DEF Ordered
  <2> QED
    BY <2>2, <2>3
<1>5. Ordered(longer, now)
  BY <1>1, <1>3, <1>4 DEF Ordered
<1> QED
  BY <1>1, <1>5 DEF longer

\* A decision that is not an approval needs no entry.
LEMMA RefusalRemembered ==
  ASSUME NEW g, NEW log, NEW made, NEW now, Remembers(g, log, made, now),
         \E S : made \in Seq(S),
         NEW d, d.reason # "auto_cosign_mid_value"
  PROVE  Remembers(g, log, Append(made, d), now)
<1> DEFINE longer == Append(made, d)
<1>1. /\ Len(made) \in Nat /\ Len(longer) = Len(made) + 1
      /\ \A i \in 1..Len(made) : longer[i] = made[i]
      /\ longer[Len(made) + 1] = d
  BY DecisionsGrow
<1> HIDE DEF longer
<1>2. g \in [1..Len(log) -> 1..Len(longer)]
  BY <1>1 DEF Remembers
<1>3. \A a \in 1..Len(log) : longer[g[a]] = made[g[a]]
  BY <1>1 DEF Remembers
<1>4. ASSUME NEW j \in 1..Len(longer), longer[j].reason = "auto_cosign_mid_value"
      PROVE  (\E a \in 1..Len(log) : g[a] = j) \/ ~Fresh(longer[j].timestamp, now)
  <2>1. j \in 1..Len(made)
    BY <1>1, <1>4
  <2> QED
    BY <1>1, <1>4, <2>1 DEF Remembers
<1>5. Remembers(g, log, longer, now)
  BY <1>2, <1>3, <1>4 DEF Remembers
<1> QED
  BY <1>5 DEF longer

\* An approval is appended to both.
LEMMA ApprovalRemembered ==
  ASSUME NEW g, NEW log, NEW made, NEW now \in Int, Remembers(g, log, made, now),
         NEW ts \in Int, Ordered(log, now), ts <= now, now - ClockSkew <= ts,
         \E S : made \in Seq(S),
         NEW d, d.reason = "auto_cosign_mid_value", d.timestamp = ts
  PROVE  \E h : Remembers(h, Append(log, ts), Append(made, d), now)
<1> DEFINE longer == Append(made, d)
           l1     == Append(log, ts)
           h      == [a \in 1..(Len(log) + 1) |->
                        IF a \in 1..Len(log) THEN g[a] ELSE Len(made) + 1]
<1>1. /\ Len(made) \in Nat /\ Len(longer) = Len(made) + 1
      /\ \A i \in 1..Len(made) : longer[i] = made[i]
      /\ longer[Len(made) + 1] = d
  BY DecisionsGrow
<1>2. /\ Len(log) \in Nat /\ Len(l1) = Len(log) + 1
      /\ \A i \in 1..Len(log) : l1[i] = log[i]
      /\ l1[Len(log) + 1] = ts
  BY LogGrows
<1> HIDE DEF longer, l1
<1>3. /\ Len(log) + 1 \in 1..(Len(log) + 1) /\ Len(log) + 1 \notin 1..Len(log)
      /\ Len(made) + 1 \notin 1..Len(made)
      /\ \A a \in 1..(Len(log) + 1) : a \in 1..Len(log) \/ a = Len(log) + 1
      /\ \A a \in 1..Len(log) : a \in 1..(Len(log) + 1)
      /\ \A i \in 1..(Len(made) + 1) : i \in 1..Len(made) \/ i = Len(made) + 1
      /\ \A i \in 1..Len(made) : i \in 1..(Len(made) + 1)
      /\ Len(made) + 1 \in 1..(Len(made) + 1)
  BY <1>1, <1>2
<1>4. /\ \A a \in 1..Len(log) : h[a] = g[a] /\ g[a] \in 1..Len(made)
      /\ h[Len(log) + 1] = Len(made) + 1
  BY <1>3 DEF Remembers
<1>5. h \in [1..Len(l1) -> 1..Len(longer)]
  BY <1>1, <1>2, <1>3 DEF Remembers
<1> HIDE DEF h
<1>6. \A a, b \in 1..Len(l1) : h[a] = h[b] => a = b
  <2>1. \A a, b \in 1..Len(log) : h[a] = h[b] => a = b
    BY <1>4 DEF Remembers
  <2>2. \A a \in 1..Len(log) : h[a] # h[Len(log) + 1]
    BY <1>3, <1>4
  <2>3. \A a \in 1..Len(l1) : a \in 1..Len(log) \/ a = Len(log) + 1
    BY <1>2, <1>3
  <2> QED
    BY <2>1, <2>2, <2>3
<1>7. \A a \in 1..Len(l1) : /\ longer[h[a]].reason = "auto_cosign_mid_value"
                            /\ longer[h[a]].timestamp = l1[a]
  BY <1>1, <1>2, <1>3, <1>4, SMTT(30) DEF Remembers
<1>8. ASSUME NEW j \in 1..Len(longer), longer[j].reason = "auto_cosign_mid_value"
      PROVE  (\E a \in 1..Len(l1) : h[a] = j) \/ ~Fresh(longer[j].timestamp, now)
  <2>1. CASE j \in 1..Len(made)
    BY <1>1, <1>2, <1>3, <1>4, <1>8, <2>1, ZenonT(30) DEF Remembers
  <2>2. CASE j = Len(made) + 1
    BY <1>2, <1>3, <1>4, <2>2
  <2> QED
    BY <1>1, <1>3, <2>1, <2>2
<1>9. Remembers(h, l1, longer, now)
  BY <1>5, <1>6, <1>7, <1>8 DEF Remembers
<1> QED
  BY <1>9 DEF l1, longer

-----------------------------------------------------------------------------
\* What is judged of a decision when it is taken stays true of it.
LEMMA VelocityKept ==
  ASSUME FastPathVelocity, StampsKnown, NEW d, decisions' = Append(decisions, d),
         NEW n, n = Len(decisions) + 1,
         Approved(n)' =>
           Cardinality(Approvals(n, FrequencyWindow - ClockSkew)') <= FrequencyLimit,
         decisions'[n].reason = "fast_path_velocity_exceeded" =>
           Cardinality(Approvals(n, FrequencyWindow + ClockSkew)') >= FrequencyLimit
  PROVE  FastPathVelocity'
<1>1. /\ Len(decisions) \in Nat /\ Len(decisions') = n
      /\ \A i \in 1..Len(decisions) : decisions'[i] = decisions[i]
  BY DecisionsGrow DEF StampsKnown
<1>2. \A i \in 1..n : i \in 1..Len(decisions) \/ i = n
  BY <1>1
<1>3. ASSUME NEW i \in 1..Len(decisions), NEW span
      PROVE  Approved(i)' = Approved(i) /\ Approvals(i, span)' = Approvals(i, span)
  <2>1. \A j \in 1..i : j \in 1..Len(decisions)
    BY <1>1
  <2> QED
    BY <1>1, <2>1 DEF Approved, Approvals
<1>4. ASSUME NEW i \in 1..n
      PROVE  /\ Approved(i)' =>
                  Cardinality(Approvals(i, FrequencyWindow - ClockSkew)') <= FrequencyLimit
             /\ decisions'[i].reason = "fast_path_velocity_exceeded" =>
                  Cardinality(Approvals(i, FrequencyWindow + ClockSkew)') >= FrequencyLimit
  <2>1. CASE i \in 1..Len(decisions)
    <3>1. /\ Approved(i)' = Approved(i) /\ decisions'[i] = decisions[i]
          /\ Approvals(i, FrequencyWindow - ClockSkew)'
               = Approvals(i, FrequencyWindow - ClockSkew)
          /\ Approvals(i, FrequencyWindow + ClockSkew)'
               = Approvals(i, FrequencyWindow + ClockSkew)
      BY <1>1, <1>3, <2>1
    <3> QED
      BY <2>1, <3>1 DEF FastPathVelocity
  <2>2. CASE i = n
    BY <2>2 DEF Approved, Approvals
  <2> QED
    BY <1>2, <2>1, <2>2
<1> QED
  BY <1>1, <1>4 DEF FastPathVelocity

\* Nor does it change the stamps of the earlier ones.
LEMMA DecisionAdded ==
  ASSUME StampsKnown, NEW d, decisions' = Append(decisions, d), d.timestamp \in Int,
         Ordered(recent, clock)', UNCHANGED clock
  PROVE  StampsKnown'
<1>1. /\ Len(decisions) \in Nat /\ Len(decisions') = Len(decisions) + 1
      /\ \A i \in 1..Len(decisions) : decisions'[i] = decisions[i]
      /\ decisions'[Len(decisions) + 1] = d
      /\ \E S : decisions' \in Seq(S)
  <2>1. \E S : decisions \in Seq(S)
    BY DEF StampsKnown
  <2>2. /\ \E S : Append(decisions, d) \in Seq(S)
        /\ Len(decisions) \in Nat /\ Len(Append(decisions, d)) = Len(decisions) + 1
        /\ \A i \in 1..Len(decisions) : Append(decisions, d)[i] = decisions[i]
        /\ Append(decisions, d)[Len(decisions) + 1] = d
    BY <2>1, DecisionsGrow
  <2> QED
    BY <2>2
<1>2. \A i \in 1..Len(decisions') : i \in 1..Len(decisions) \/ i = Len(decisions) + 1
  BY <1>1
<1> QED
  BY <1>1, <1>2 DEF StampsKnown

\* What the window of an intent holds is fresh on the clock too.
LEMMA WithinSkew ==
  ASSUME NEW t \in Int, NEW ts \in Int, NEW now \in Int, now - ClockSkew <= ts,
         t >= ts - (FrequencyWindow - ClockSkew)
  PROVE  now - t <= FrequencyWindow
BY FastPathLimitAssumption

\* An approval is at most the FrequencyLimit-th of its window: every approval of the
\* window is in the log, and there was room for one more.
LEMMA ApprovalWithinLimit ==
  ASSUME StampsKnown', LogKnown', NEW ts \in Int, clock' - ClockSkew <= ts,
         NEW n, n = Len(decisions'), decisions'[n].timestamp = ts,
         Len(recent') <= FrequencyLimit
  PROVE  Cardinality(Approvals(n, FrequencyWindow - ClockSkew)') <= FrequencyLimit
<1> DEFINE S == Approvals(n, FrequencyWindow - ClockSkew)'
<1>1. PICK g : Remembers(g, recent', decisions', clock')
  BY DEF LogKnown
<1>2. /\ Len(recent') \in Nat /\ clock' \in Int
      /\ \A j \in 1..n : decisions'[j].timestamp \in Int
  BY LenProperties DEF StampsKnown, Ordered
<1>3. S = {j \in 1..n : /\ decisions'[j].reason = "auto_cosign_mid_value"
                        /\ decisions'[j].timestamp >= ts - (FrequencyWindow - ClockSkew)}
  BY DEF Approvals, Approved
<1> HIDE DEF S
<1>4. ASSUME NEW j \in S
      PROVE  \E a \in 1..Len(recent') : g[a] = j
  <2>1. /\ j \in 1..n /\ decisions'[j].reason = "auto_cosign_mid_value"
        /\ decisions'[j].timestamp >= ts - (FrequencyWindow - ClockSkew)
    BY <1>3, <1>4
  <2>2. decisions'[j].timestamp \in Int
    BY <1>2, <2>1
  <2>3. clock' - decisions'[j].timestamp <= FrequencyWindow
    BY <1>2, <2>1, <2>2, WithinSkew
  <2> QED
    BY <1>1, <2>1, <2>3 DEF Remembers, Fresh
<1>5. S \in SUBSET {g[k] : k \in 1..Len(recent')}
  BY <1>4
<1>6. IsFiniteSet(S) /\ Cardinality(S) <= Len(recent')
  BY <1>2, <1>5, AtMost
<1>7. Cardinality(S) <= FrequencyLimit
  BY <1>2, <1>6, FS_CardinalityType, FastPathLimitAssumption
<1> QED
  BY <1>7 DEF S

\* A payment is escalated for its velocity only if the window was full: the log holds
\* that many approvals, none older than the window by more than ClockSkew.
LEMMA EscalationAtLimit ==
  ASSUME StampsKnown', LogKnown', NEW ts \in Int,
         NEW n, n = Len(decisions'), decisions'[n].timestamp = ts,
         \A a \in 1..Len(recent') : recent'[a] >= ts - (FrequencyWindow + ClockSkew),
         FrequencyLimit <= Len(recent')
  PROVE  Cardinality(Approvals(n, FrequencyWindow + ClockSkew)') >= FrequencyLimit
<1> DEFINE S == Approvals(n, FrequencyWindow + ClockSkew)'
<1>1. PICK g : Remembers(g, recent', decisions', clock')
  BY DEF LogKnown
<1>2. Len(recent') \in Nat /\ n \in Nat
  BY LenProperties DEF StampsKnown, Ordered
<1>3. S = {j \in 1..n : /\ decisions'[j].reason = "auto_cosign_mid_value"
                        /\ decisions'[j].timestamp >= ts - (FrequencyWindow + ClockSkew)}
  BY DEF Approvals, Approved
<1> HIDE DEF S
<1>4. g \in [1..Len(recent') -> S]
  BY <1>1, <1>3 DEF Remembers
<1>5. \A a, b \in 1..Len(recent') : g[a] = g[b] => a = b
  BY <1>1 DEF Remembers
<1>6. IsFiniteSet(S)
  <2>1. S \in SUBSET (1..n) /\ IsFiniteSet(1..n)
    BY <1>2, <1>3, FS_Interval
  <2> QED
    BY <2>1, FS_Subset
<1>7. Len(recent') <= Cardinality(S) /\ Cardinality(S) \in Nat
  BY <1>2, <1>4, <1>5, <1>6, AtLeast, FS_CardinalityType
<1>8. Cardinality(S) >= FrequencyLimit
  BY <1>2, <1>7, FastPathLimitAssumption
<1> QED
  BY <1>8 DEF S

-----------------------------------------------------------------------------
\* Evaluate keeps the invariant, in each of its three outcomes.
LEMMA EvaluateKeeps ==
  ASSUME FastInv, NEW intent \in Intents, NEW ts \in (clock - ClockSkew)..clock,
         Evaluate(intent, ts)
  PROVE  FastInv'
<1> DEFINE log == Prune(recent, ts)
<1>0. PICK n : n = Len(decisions) + 1
  OBVIOUS
<1>1. /\ UNCHANGED clock /\ clock \in Int /\ ts \in Int
      /\ ts <= clock /\ clock - ClockSkew <= ts
      /\ \E S : decisions \in Seq(S)
  BY FastPathLimitAssumption DEF FastInv, StampsKnown, Evaluate
<1>2. /\ Ordered(log, clock)
      /\ \E g : Remembers(g, log, decisions, clock)
      /\ \A a \in 1..Len(log) : log[a] >= ts - (FrequencyWindow + ClockSkew)
      /\ Len(log) \in Nat
  <2>1. /\ Ordered(log, clock)
        /\ \E g : Remembers(g, log, decisions, clock)
        /\ \A a \in 1..Len(log) : log[a] >= ts - (FrequencyWindow + ClockSkew)
    BY <1>1, PrunedRemembers DEF FastInv
  <2> QED
    BY <2>1, LenProperties DEF Ordered
<1>3. ASSUME NEW d, decisions' = Append(decisions, d)
      PROVE  n = Len(decisions') /\ decisions'[n] = d
  BY <1>0, <1>1, <1>3, DecisionsGrow
<1> HIDE DEF log
<1>4. ASSUME NEW d, d = Decision(ts, "exceeds_fast_path_ceiling"),
             decisions' = Append(decisions, d), UNCHANGED recent
      PROVE  FastInv'
  <2>1. d.timestamp = ts /\ d.reason = "exceeds_fast_path_ceiling"
    BY <1>4 DEF Decision
  <2>2. Ordered(recent, clock)'
    BY <1>1, <1>4 DEF FastInv, StampsKnown, Ordered
  <2>3. StampsKnown'
    BY <1>1, <1>4, <2>1, <2>2, DecisionAdded DEF FastInv
  <2>4. LogKnown'
    BY <1>1, <1>4, <2>1, RefusalRemembered DEF FastInv, LogKnown
  <2>5. FastPathVelocity'
    BY <1>0, <1>3, <1>4, <2>1, VelocityKept DEF FastInv, Approved
  <2> QED
    BY <2>3, <2>4, <2>5 DEF FastInv
<1>5. ASSUME NEW d, d = Decision(ts, "fast_path_velocity_exceeded"),
             decisions' = Append(decisions, d), recent' = log, Full(log)
      PROVE  FastInv'
  <2>1. d.timestamp = ts /\ d.reason = "fast_path_velocity_exceeded"
    BY <1>5 DEF Decision
  <2>2. Ordered(recent, clock)'
    BY <1>1, <1>2, <1>5 DEF Ordered
  <2>3. StampsKnown'
    BY <1>1, <1>5, <2>1, <2>2, DecisionAdded DEF FastInv
  <2>4. LogKnown'
    BY <1>1, <1>2, <1>5, <2>1, RefusalRemembered DEF LogKnown
  <2>5. FrequencyLimit <= Len(recent')
    BY <1>2, <1>5, FastPathLimitAssumption DEF Full
  <2>6. Cardinality(Approvals(n, FrequencyWindow + ClockSkew)') >= FrequencyLimit
    <3>1. \A a \in 1..Len(recent') : recent'[a] >= ts - (FrequencyWindow + ClockSkew)
      BY <1>2, <1>5
    <3>2. n = Len(decisions') /\ decisions'[n].timestamp = ts
      BY <1>3, <1>5, <2>1
    <3> QED
      BY <1>1, <2>3, <2>4, <2>5, <3>1, <3>2, EscalationAtLimit
  <2>7. FastPathVelocity'
    BY <1>0, <1>3, <1>5, <2>1, <2>6, VelocityKept DEF FastInv, Approved
  <2> QED
    BY <2>3, <2>4, <2>7 DEF FastInv
<1>6. ASSUME NEW d, d = Decision(ts, "auto_cosign_mid_value"),
             decisions' = Append(decisions, d), recent' = Append(log, ts),
             ~Full(log)
      PROVE  FastInv'
  <2>1. d.timestamp = ts /\ d.reason = "auto_cosign_mid_value"
    BY <1>6 DEF Decision
  <2>2. Ordered(Append(log, ts), clock) /\ Len(Append(log, ts)) = Len(log) + 1
    BY <1>1, <1>2, LogGrows
  <2>3. Ordered(recent, clock)' /\ Len(recent') <= FrequencyLimit
    BY <1>1, <1>2, <1>6, <2>2, FastPathLimitAssumption, SMTT(30) DEF Ordered, Full
  <2>4. StampsKnown'
    BY <1>1, <1>6, <2>1, <2>3, DecisionAdded DEF FastInv
  <2>5. LogKnown'
    BY <1>1, <1>2, <1>6, <2>1, ApprovalRemembered DEF LogKnown
  <2>6. Cardinality(Approvals(n, FrequencyWindow - ClockSkew)') <= FrequencyLimit
    <3>1. n = Len(decisions') /\ decisions'[n].timestamp = ts /\ clock' - ClockSkew <= ts
      BY <1>1, <1>3, <1>6, <2>1
    <3> QED
      BY <1>1, <2>3, <2>4, <2>5, <3>1, ApprovalWithinLimit
  <2>7. FastPathVelocity'
    BY <1>0, <1>3, <1>6, <2>1, <2>6, VelocityKept DEF FastInv, Approved
  <2> QED
    BY <2>4, <2>5, <2>7 DEF FastInv
<1>7. \/ /\ decisions' = Append(decisions, Decision(ts, "exceeds_fast_path_ceiling"))
         /\ UNCHANGED recent
      \/ /\ Full(log)
         /\ decisions' = Append(decisions, Decision(ts, "fast_path_velocity_exceeded"))
         /\ recent' = log
      \/ /\ ~Full(log)
         /\ decisions' = Append(decisions, Decision(ts, "auto_cosign_mid_value"))
         /\ recent' = Append(log, ts)
  BY DEF Evaluate, log
<1> QED
  BY <1>4, <1>5, <1>6, <1>7

\* The invariant does not read the price, and a later clock only expires more entries.
LEMMA FastStepKeeps ==
  ASSUME FastInv, [FastNext]_fastVars
  PROVE  FastInv'
<1>1. ASSUME NEW intent \in Intents, NEW ts \in (clock - ClockSkew)..clock,
             Evaluate(intent, ts)
      PROVE  FastInv'
  BY <1>1, EvaluateKeeps
<1>2. CASE Tick
  <2>1. /\ clock' = clock + 1 /\ clock \in Int /\ UNCHANGED <<recent, decisions>>
        /\ \A j \in 1..Len(decisions) : decisions[j].timestamp \in Int
        /\ Ordered(recent, clock)
    BY <1>2 DEF Tick, FastInv, StampsKnown
  <2>2. \A i \in 1..Len(recent) : recent[i] \in Int
    BY <2>1, ElementOfSeq DEF Ordered
  <2>3. \A t \in Int : /\ ~Fresh(t, clock) => ~Fresh(t, clock')
                       /\ t <= clock => t <= clock'
    BY <2>1, FastPathLimitAssumption DEF Fresh
  <2>4. StampsKnown'
    BY <2>1, <2>2, <2>3 DEF FastInv, StampsKnown, Ordered
  <2>5. LogKnown'
    <3>1. PICK g : Remembers(g, recent, decisions, clock)
      BY DEF FastInv, LogKnown
    <3>2. Remembers(g, recent', decisions', clock')
      BY <2>1, <2>3, <3>1 DEF Remembers
    <3> QED
      BY <3>2 DEF LogKnown
  <2> QED
    BY <2>1, <2>4, <2>5 DEF FastInv, FastPathVelocity, Approvals, Approved
<1>3. CASE PriceMoves \/ UNCHANGED fastVars
  <2>1. UNCHANGED <<recent, decisions, clock>>
    BY <1>3 DEF PriceMoves, fastVars
  <2> QED
    BY <2>1 DEF FastInv, LogKnown, StampsKnown, FastPathVelocity, Approvals, Approved
<1> QED
  BY <1>1, <1>2, <1>3 DEF FastNext

\* There is nothing to remember at first.
LEMMA FastInitInv == FastInit => FastInv
<1> SUFFICES ASSUME FastInit PROVE FastInv
  OBVIOUS
<1>1. recent = <<>> /\ decisions = <<>> /\ clock = 0
  BY DEF FastInit
<1>2. Len(recent) = 0 /\ Len(decisions) = 0 /\ recent \in Seq(Int) /\ decisions \in Seq(Int)
  BY <1>1
<1>3. \A i \in 1..0 : FALSE
  OBVIOUS
<1>4. LogKnown
  <2> DEFINE g == [a \in 1..Len(recent) |-> 1]
  <2>1. g \in [1..Len(recent) -> 1..Len(decisions)]
    BY <1>2, <1>3
  <2>2. Remembers(g, recent, decisions, clock)
    BY <1>2, <1>3, <2>1 DEF Remembers
  <2> QED
    BY <2>2 DEF LogKnown
<1>5. StampsKnown
  BY <1>1, <1>2, <1>3 DEF StampsKnown, Ordered
<1>6. FastPathVelocity
  BY <1>2, <1>3 DEF FastPathVelocity
<1> QED
  BY <1>4, <1>5, <1>6 DEF FastInv

\* The velocity limit holds in both directions whatever the window, the limit and the
\* clock skew: a fast-path approval is at most the FrequencyLimit-th of its window, and
\* a payment is escalated for its velocity only when the window was full.
THEOREM FastPathLimitHolds == FastSpec => []FastPathVelocity
<1>1. FastInit => FastInv
  BY FastInitInv
<1>2. FastInv /\ [FastNext]_fastVars => FastInv'
  BY FastStepKeeps
<1>3. FastInv => FastPathVelocity
  BY DEF FastInv
<1> QED
  BY <1>1, <1>2, <1>3, PTL DEF FastSpec
=============================================================================
