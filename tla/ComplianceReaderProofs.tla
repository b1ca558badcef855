------------------------ MODULE ComplianceReaderProofs ------------------------
(***************************************************************************)
(* Proofs about ComplianceReader: a context without findings rests on facts  *)
(* the ledger held during the call, and a fact that held throughout is never *)
(* missed; for any list of required credentials, domain lists, issuances and *)
(* number of ledger changes between the reads.                             *)
(*                                                                         *)
(* The reads see different ledgers, so nothing can be said of the context   *)
(* and the ledger it is judged on.  What holds at every step of a call is   *)
(* steady \subseteq FactsNow \subseteq seen; each read therefore leaves     *)
(* behind that what it found is in seen, and what it did not find is not in *)
(* steady, and both survive every later change of the ledger.              *)
(***************************************************************************)
EXTENDS ComplianceReader, SequenceTheorems, TLAPS

\* The call is past the reads before those stages, or over.
After(stages) == stage \in stages \/ outcome = "resolved"

WorldTyped ==
  /\ domain \in DomainLists /\ issuance \in Issuances
  /\ stage \in {"idle", "issuance", "mptoken", "required", "domain", "members"}
  /\ outcome \in {"none", "resolved", "raised"}
  /\ stage # "idle" => outcome = "none"
  /\ DOMAIN rwa = DOMAIN Blank
  /\ rwa.is_rwa

\* What was steady so far holds now, and what holds now was seen.
NowKnown == stage # "idle" => steady \subseteq FactsNow /\ FactsNow \subseteq seen

\* What each read leaves behind: the facts it found, and did not find.
IssuanceKnown ==
  After({"mptoken", "required", "domain", "members"}) =>
    /\ rwa.requires_authorization \in BOOLEAN /\ rwa.transfer_disabled \in BOOLEAN
    /\ rwa.clawback_enabled \in BOOLEAN
    /\ ~rwa.requires_authorization => <<"needs no authorization">> \in seen
    /\ <<"needs no authorization">> \in steady => ~rwa.requires_authorization
    /\ ~rwa.transfer_disabled => <<"transferable">> \in seen
    /\ ~rwa.clawback_enabled => <<"no clawback">> \in seen
    /\ rwa.destination_is_issuer = ToIssuer
    /\ rwa.required_credentials = RequiredSet
    /\ rwa.has_domain = HasDomain

MPTokenKnown ==
  After({"required", "domain", "members"}) =>
    /\ rwa.destination_authorized = "yes" => <<"authorized">> \in seen
    /\ <<"authorized">> \in steady => rwa.destination_authorized = "yes"

CredentialsKnown ==
  /\ \A c \in rwa.destination_credentials : Held(CredentialTypeToHex(c), seen)
  /\ stage \in {"issuance", "mptoken"} => rwa.destination_credentials = {}
  /\ stage = "required" => pending \in Seq(RequiredSet)
  /\ After({"required", "domain", "members"}) =>
       \A c \in RequiredSet :
         \/ stage = "required" /\ c \in ToSet(pending)
         \/ c \in rwa.destination_credentials
         \/ ~Held(CredentialTypeToHex(c), steady)

\* Why the destination is a member, or why it is not.
FoundMember    == \E x \in Readable : Member(x, seen) \/ MistakenMember(x, seen)
NoSteadyMember == \A x \in Range(Encoded) : ~Member(x, steady)

\* c is how the program writes the credential x of the ledger.
Spells(c, x) ==
  \/ x \in Blobs /\ c = Spelled[x]
  \/ x \notin Blobs /\ CredentialTypeToHex(c) = x

\* What is pending spells something accepted, and every text a member throughout pends.
MembersPending ==
  /\ pending \in Seq(Texts)
  /\ \A c \in ToSet(pending) : \E x \in Readable : Accepted(x, seen) /\ Spells(c, x)
  /\ \A c \in Texts : Member(CredentialTypeToHex(c), steady) => c \in ToSet(pending)

DomainKnown ==
  /\ stage \in {"domain", "members"} => HasDomain
  /\ stage = "members" => MembersPending
  /\ outcome = "resolved" /\ HasDomain =>
       \/ rwa.destination_in_domain = "yes" /\ FoundMember
       \/ rwa.destination_in_domain = "no" /\ NoSteadyMember

ReaderInv ==
  /\ WorldTyped /\ NowKnown
  /\ IssuanceKnown /\ MPTokenKnown /\ CredentialsKnown /\ DomainKnown

-----------------------------------------------------------------------------
(* The facts of the ledger, and a list and its tail.                       *)

LEMMA FactsOf ==
  /\ <<"authorized">> \in FactsNow <=> mptoken = "authorized"
  /\ <<"needs no authorization">> \in FactsNow <=> ~issuance.require_auth
  /\ <<"transferable">> \in FactsNow <=> issuance.can_transfer
  /\ <<"no clawback">> \in FactsNow <=> ~issuance.can_clawback
  /\ \A c : <<"holds", c>> \in FactsNow <=>
       /\ c \in Readable
       /\ credentials[c] = "accepted" \/ (credentials[c] = "expiring" /\ clock < Expiration)
  /\ \A c : <<"accepts", c>> \in FactsNow <=> c \in ToSet(domain)
<1> DEFINE flags == UNION { When(mptoken = "authorized", <<"authorized">>),
                            When(~issuance.require_auth, <<"needs no authorization">>),
                            When(issuance.can_transfer, <<"transferable">>),
                            When(~issuance.can_clawback, <<"no clawback">>) }
           holds == {x \in Readable :
                       \/ credentials[x] = "accepted"
                       \/ credentials[x] = "expiring" /\ clock < Expiration}
<1>1. \A f : f \in FactsNow <=>
        \/ f \in flags
        \/ \E c \in holds : f = <<"holds", c>>
        \/ \E c \in ToSet(domain) : f = <<"accepts", c>>
  BY DEF FactsNow
<1>2. \A f : f \in flags <=>
        \/ mptoken = "authorized" /\ f = <<"authorized">>
        \/ ~issuance.require_auth /\ f = <<"needs no authorization">>
        \/ issuance.can_transfer /\ f = <<"transferable">>
        \/ ~issuance.can_clawback /\ f = <<"no clawback">>
  BY DEF When
<1> HIDE DEF flags, holds
<1>3. \A c, d : /\ (<<"holds", c>> = <<"holds", d>> => c = d)
                /\ (<<"accepts", c>> = <<"accepts", d>> => c = d)
  OBVIOUS
<1>4. ASSUME NEW c
      PROVE  /\ <<"holds", c>>[1] = "holds" /\ <<"accepts", c>>[1] = "accepts"
  OBVIOUS
<1>5. /\ <<"authorized">>[1] = "authorized"
      /\ <<"needs no authorization">>[1] = "needs no authorization"
      /\ <<"transferable">>[1] = "transferable"
      /\ <<"no clawback">>[1] = "no clawback"
  OBVIOUS
<1>6. ASSUME NEW c
      PROVE  /\ <<"holds", c>> \notin flags /\ <<"accepts", c>> \notin flags
             /\ \A d : <<"holds", c>> # <<"accepts", d>>
  <2>1. <<"holds", c>> \notin flags
    <3> DEFINE f == <<"holds", c>>
    <3>1. f[1] = "holds"
      OBVIOUS
    <3> HIDE DEF f
    <3>2. f \notin flags
      BY <1>2, <1>5, <3>1
    <3> QED
      BY <3>2 DEF f
  <2>2. <<"accepts", c>> \notin flags
    <3> DEFINE f == <<"accepts", c>>
    <3>1. f[1] = "accepts"
      OBVIOUS
    <3> HIDE DEF f
    <3>2. f \notin flags
      BY <1>2, <1>5, <3>1
    <3> QED
      BY <3>2 DEF f
  <2> QED
    BY <2>1, <2>2
<1>7. \A f \in {<<"authorized">>, <<"needs no authorization">>, <<"transferable">>,
                <<"no clawback">>} : f \in FactsNow <=> f \in flags
  BY <1>1, <1>4, <1>5
<1>8. /\ <<"authorized">> \in flags <=> mptoken = "authorized"
      /\ <<"needs no authorization">> \in flags <=> ~issuance.require_auth
      /\ <<"transferable">> \in flags <=> issuance.can_transfer
      /\ <<"no clawback">> \in flags <=> ~issuance.can_clawback
  BY <1>2, <1>5
<1>9. ASSUME NEW c
      PROVE  /\ <<"holds", c>> \in FactsNow <=> c \in holds
             /\ <<"accepts", c>> \in FactsNow <=> c \in ToSet(domain)
  BY <1>1, <1>3, <1>6
<1>10. \A c : c \in holds <=>
         /\ c \in Readable
         /\ credentials[c] = "accepted" \/ (credentials[c] = "expiring" /\ clock < Expiration)
  BY DEF holds
<1> QED
  BY <1>7, <1>8, <1>9, <1>10

\* The two spellings: a text comes back from the ledger as it went.
LEMMA ToHexReadable ==
  ASSUME NEW c \in Texts
  PROVE  CredentialTypeToHex(c) \in Range(Encoded) /\ CredentialTypeToHex(c) \in Readable
BY DEF CredentialTypeToHex, Texts, Readable, Range

LEMMA FromHexText ==
  ASSUME NEW x \in Range(Encoded)
  PROVE  /\ CredentialTypeFromHex(x) \in Texts
         /\ CredentialTypeToHex(CredentialTypeFromHex(x)) = x
<1>1. x \notin Blobs
  BY EncodingAssumption
<1>2. PICK c \in DOMAIN Encoded : x = Encoded[c]
  BY DEF Range
<1>3. AntiFunction(Encoded)[x] =
        CHOOSE d \in DOMAIN Encoded : x \in Range(Encoded) => Encoded[d] = x
  BY DEF AntiFunction, Inverse
<1>4. /\ AntiFunction(Encoded)[x] \in DOMAIN Encoded
      /\ Encoded[AntiFunction(Encoded)[x]] = x
  BY <1>2, <1>3
<1> QED
  BY <1>1, <1>4 DEF CredentialTypeFromHex, CredentialTypeToHex, Texts

LEMMA FromHexSpells ==
  ASSUME NEW x \in Readable
  PROVE  CredentialTypeFromHex(x) \in Texts /\ Spells(CredentialTypeFromHex(x), x)
<1>1. CASE x \in Blobs
  BY <1>1, EncodingAssumption DEF CredentialTypeFromHex, Spells
<1>2. CASE x \notin Blobs
  BY <1>2, FromHexText DEF Readable, Spells
<1> QED
  BY <1>1, <1>2

LEMMA FromHexToHex ==
  ASSUME NEW c \in Texts
  PROVE  CredentialTypeFromHex(CredentialTypeToHex(c)) = c
<1> DEFINE x == CredentialTypeToHex(c)
           d == CredentialTypeFromHex(x)
<1>1. x \in Range(Encoded)
  BY ToHexReadable
<1> HIDE DEF x
<1>2. d \in Texts /\ CredentialTypeToHex(d) = x
  BY <1>1, FromHexText
<1> HIDE DEF d
<1>3. Encoded[d] = Encoded[c]
  BY <1>2 DEF x, CredentialTypeToHex
<1>4. d = c
  BY <1>2, <1>3, EncodingAssumption DEF IsInjective, Texts
<1> QED
  BY <1>4 DEF d, x

\* A credential found on the ledger is a fact of it, and the other way round.
LEMMA HoldsIsFact ==
  ASSUME NEW c \in Texts
  PROVE  HoldsCredential(c) <=> Held(CredentialTypeToHex(c), FactsNow)
<1> DEFINE x == CredentialTypeToHex(c)
<1>1. x \in Readable
  BY ToHexReadable
<1>2. HoldsCredential(c) <=>
        (credentials[x] = "accepted" \/ (credentials[x] = "expiring" /\ clock < Expiration))
  BY DEF HoldsCredential
<1> HIDE DEF x
<1>3. <<"holds", x>> \in FactsNow <=>
        (credentials[x] = "accepted" \/ (credentials[x] = "expiring" /\ clock < Expiration))
  BY <1>1, FactsOf
<1>4. Held(x, FactsNow) <=> HoldsCredential(c)
  BY <1>2, <1>3 DEF Held
<1> QED
  BY <1>4 DEF x

LEMMA HeadAndTail ==
  ASSUME NEW S, NEW s \in Seq(S), s # <<>>
  PROVE  /\ Head(s) \in S /\ Tail(s) \in Seq(S)
         /\ ToSet(s) = {Head(s)} \cup ToSet(Tail(s))
<1>1. Head(s) \in S /\ Tail(s) \in Seq(S)
  BY HeadTailProperties
<1>2. Len(s) \in Nat \ {0} /\ DOMAIN s = 1..Len(s)
  BY EmptySeq, LenProperties
<1>3. /\ DOMAIN Tail(s) = 1..(Len(s) - 1) /\ Head(s) = s[1]
      /\ \A i \in 1..(Len(s) - 1) : Tail(s)[i] = s[i + 1]
  BY <1>2
<1>4. ASSUME NEW x \in ToSet(s)
      PROVE  x = Head(s) \/ x \in ToSet(Tail(s))
  <2>1. PICK i \in 1..Len(s) : x = s[i]
    BY <1>2 DEF ToSet
  <2>2. CASE i = 1
    BY <1>3, <2>1, <2>2
  <2>3. CASE i # 1
    <3>1. i - 1 \in 1..(Len(s) - 1) /\ i - 1 + 1 = i
      BY <1>2, <2>3
    <3>2. Tail(s)[i - 1] = x
      BY <1>3, <2>1, <3>1
    <3> QED
      BY <1>3, <3>1, <3>2 DEF ToSet
  <2> QED
    BY <2>2, <2>3
<1>5. Head(s) \in ToSet(s)
  BY <1>2, <1>3 DEF ToSet
<1>6. ASSUME NEW x \in ToSet(Tail(s))
      PROVE  x \in ToSet(s)
  <2>1. PICK i \in 1..(Len(s) - 1) : x = Tail(s)[i]
    BY <1>3 DEF ToSet
  <2>2. i + 1 \in 1..Len(s) /\ x = s[i + 1]
    BY <1>2, <1>3, <2>1
  <2> QED
    BY <1>2, <2>2 DEF ToSet
<1> QED
  BY <1>1, <1>4, <1>5, <1>6

LEMMA RequiredAreTexts == Required \in Seq(RequiredSet) /\ RequiredSet \subseteq Texts
<1>1. Required \in Seq(Texts)
  BY ListsAssumption
<1>2. Len(Required) \in Nat /\ DOMAIN Required = 1..Len(Required)
  BY <1>1, LenProperties
<1>3. \A i \in 1..Len(Required) : Required[i] \in Texts /\ Required[i] \in RequiredSet
  BY <1>1, <1>2 DEF RequiredSet, ToSet
<1>4. Required = [i \in 1..Len(Required) |-> Required[i]]
  BY <1>1, <1>2
<1>5. Required \in Seq(RequiredSet)
  BY <1>2, <1>3, <1>4
<1>6. RequiredSet \subseteq Texts
  BY <1>2, <1>3 DEF RequiredSet, ToSet
<1> QED
  BY <1>5, <1>6

\* The list of a domain, read into the program's spelling.
LEMMA DomainRead ==
  ASSUME NEW list \in DomainLists,
         NEW read, read = [i \in DOMAIN list |-> CredentialTypeFromHex(list[i])]
  PROVE  /\ ToSet(list) \subseteq Readable
         /\ read \in Seq(Texts)
         /\ ToSet(read) = {CredentialTypeFromHex(x) : x \in ToSet(list)}
<1>1. list \in Seq(Readable)
  BY ListsAssumption
<1>2. Len(list) \in Nat /\ DOMAIN list = 1..Len(list)
  BY <1>1, LenProperties
<1>3. \A i \in 1..Len(list) : list[i] \in Readable
  BY <1>1, <1>2
<1>4. ToSet(list) \subseteq Readable
  BY <1>2, <1>3 DEF ToSet
<1>5. \A i \in 1..Len(list) : CredentialTypeFromHex(list[i]) \in Texts
  BY <1>3, FromHexSpells
<1>6. read \in Seq(Texts)
  BY <1>2, <1>5
<1>7. DOMAIN read = 1..Len(list) /\ \A i \in 1..Len(list) : read[i] = CredentialTypeFromHex(list[i])
  BY <1>2
<1>8. ToSet(read) = {CredentialTypeFromHex(x) : x \in ToSet(list)}
  BY <1>2, <1>7 DEF ToSet
<1> QED
  BY <1>4, <1>6, <1>8

\* What was seen stays seen, and what was not steady never is again.
LEMMA MembersStay ==
  ASSUME seen \subseteq seen', steady' \subseteq steady
  PROVE  /\ FoundMember => FoundMember'
         /\ NoSteadyMember => NoSteadyMember'
<1>1. ASSUME NEW x, Member(x, seen) \/ MistakenMember(x, seen)
      PROVE  Member(x, seen') \/ MistakenMember(x, seen')
  BY <1>1 DEF Member, MistakenMember, Accepted, Held
<1>2. ASSUME NEW x, Member(x, steady')  PROVE Member(x, steady)
  BY <1>2 DEF Member, Accepted, Held
<1>3. FoundMember' <=> \E x \in Readable : Member(x, seen') \/ MistakenMember(x, seen')
  BY DEF FoundMember, Readable, Range, Blobs, Member, MistakenMember, Accepted, Held,
         CredentialTypeToHex
<1>4. NoSteadyMember' <=> \A x \in Range(Encoded) : ~Member(x, steady')
  BY DEF NoSteadyMember, Range, Member, Accepted, Held
<1> QED
  BY <1>1, <1>2, <1>3, <1>4 DEF FoundMember, NoSteadyMember

LEMMA PendingStays ==
  ASSUME MembersPending, pending' = pending, seen \subseteq seen', steady' \subseteq steady
  PROVE  MembersPending'
<1>1. ASSUME NEW c \in ToSet(pending)
      PROVE  \E x \in Readable : Accepted(x, seen') /\ Spells(c, x)
  BY <1>1 DEF MembersPending, Accepted
<1>2. ASSUME NEW c \in Texts, Member(CredentialTypeToHex(c), steady')
      PROVE  c \in ToSet(pending)
  BY <1>2 DEF MembersPending, Member, Accepted, Held
<1> QED
  BY <1>1, <1>2
  DEF MembersPending, Texts, Readable, Range, Blobs, ToSet, Member, Accepted, Held, Spells,
      CredentialTypeToHex

-----------------------------------------------------------------------------
(* Changes of the ledger, and the clock.                                   *)

LEMMA HistoryMoves ==
  ASSUME ReaderInv, UNCHANGED readVars, Observe,
         domain' \in DomainLists, issuance' \in Issuances
  PROVE  ReaderInv'
<1>1. /\ stage' = stage /\ pending' = pending /\ rwa' = rwa /\ outcome' = outcome
  BY DEF readVars
<1>2. seen \subseteq seen' /\ steady' \subseteq steady
  BY DEF Observe, history
<1>3. WorldTyped'
  BY <1>1 DEF ReaderInv, WorldTyped, Blank
<1>4. NowKnown'
  BY <1>1 DEF NowKnown, Observe
<1>5. IssuanceKnown'
  BY <1>1, <1>2 DEF ReaderInv, IssuanceKnown, After, RequiredSet
<1>6. MPTokenKnown'
  BY <1>1, <1>2 DEF ReaderInv, MPTokenKnown, After
<1>7. CredentialsKnown'
  BY <1>1, <1>2
  DEF ReaderInv, CredentialsKnown, After, RequiredSet, ToSet, Held, CredentialTypeToHex
<1>8. DomainKnown'
  BY <1>1, <1>2, MembersStay, PendingStays DEF ReaderInv, DomainKnown
<1> QED
  BY <1>3, <1>4, <1>5, <1>6, <1>7, <1>8 DEF ReaderInv

-----------------------------------------------------------------------------
(* The reads.                                                              *)

LEMMA ResolveStep == ASSUME ReaderInv, Resolve  PROVE ReaderInv'
<1>1. /\ stage' = "issuance" /\ pending' = <<>> /\ rwa' = Blank /\ outcome' = "none"
      /\ seen' = FactsNow /\ steady' = FactsNow
      /\ issuance' = issuance /\ mptoken' = mptoken /\ credentials' = credentials
      /\ domain' = domain /\ clock' = clock
  BY DEF Resolve, ledgerVars
<1>2. FactsNow' = FactsNow
  BY <1>1, ZenonT(30) DEF FactsNow, When, Readable, Range, Blobs, RequiredSet, ToSet, Expiration
<1>3. WorldTyped' /\ NowKnown'
  <2>1. WorldTyped'
    BY <1>1 DEF ReaderInv, WorldTyped, Blank
  <2>2. NowKnown'
    BY <1>1, <1>2 DEF NowKnown
  <2> QED
    BY <2>1, <2>2
<1>4. IssuanceKnown' /\ MPTokenKnown' /\ CredentialsKnown' /\ DomainKnown'
  BY <1>1 DEF IssuanceKnown, MPTokenKnown, CredentialsKnown, DomainKnown, After, Blank
<1> QED
  BY <1>3, <1>4 DEF ReaderInv

\* What a read leaves alone.
Read ==
  /\ stage # "idle"
  /\ UNCHANGED <<ledgerVars, clock, changes, history>>

LEMMA ReadKeeps ==
  ASSUME ReaderInv, Read,
         stage' \in {"idle", "issuance", "mptoken", "required", "domain", "members"},
         outcome' \in {"none", "resolved", "raised"}, stage' # "idle" => outcome' = "none",
         DOMAIN rwa' = DOMAIN Blank, rwa'.is_rwa
  PROVE  /\ WorldTyped' /\ NowKnown' /\ seen' = seen /\ steady' = steady
         /\ steady \subseteq FactsNow /\ FactsNow \subseteq seen
         /\ domain \in DomainLists /\ issuance \in Issuances
<1>1. /\ seen' = seen /\ steady' = steady
      /\ issuance' = issuance /\ mptoken' = mptoken /\ credentials' = credentials
      /\ domain' = domain /\ clock' = clock
  BY DEF Read, ledgerVars, history
<1>2. FactsNow' = FactsNow
  BY <1>1 DEF FactsNow, When, Readable, Range, Blobs, RequiredSet, ToSet, Expiration
<1>3. steady \subseteq FactsNow /\ FactsNow \subseteq seen
  BY DEF Read, ReaderInv, NowKnown
<1>4. domain \in DomainLists /\ issuance \in Issuances
  BY DEF ReaderInv, WorldTyped
<1>5. WorldTyped'
  BY <1>1, <1>4 DEF WorldTyped, Blank
<1>6. NowKnown'
  BY <1>1, <1>2, <1>3 DEF NowKnown
<1> QED
  BY <1>1, <1>3, <1>4, <1>5, <1>6

LEMMA ReadIssuanceStep == ASSUME ReaderInv, ReadIssuance  PROVE ReaderInv'
<1> DEFINE r == [rwa EXCEPT !.requires_authorization = issuance.require_auth,
                            !.transfer_disabled = ~issuance.can_transfer,
                            !.clawback_enabled = issuance.can_clawback,
                            !.destination_is_issuer = ToIssuer,
                            !.required_credentials = RequiredSet,
                            !.has_domain = HasDomain]
<1>1. /\ stage = "issuance" /\ stage' = "mptoken" /\ rwa' = r /\ outcome' = outcome /\ Read
  BY DEF ReadIssuance, Proceed, Read
<1>2. DOMAIN rwa = DOMAIN Blank /\ rwa.is_rwa /\ outcome = "none"
      /\ rwa.destination_credentials = {}
  BY <1>1 DEF ReaderInv, WorldTyped, CredentialsKnown
<1>3. DOMAIN rwa = {"is_rwa", "requires_authorization", "destination_authorized",
        "transfer_disabled", "destination_is_issuer", "required_credentials",
        "destination_credentials", "has_domain", "destination_in_domain",
        "clawback_enabled"}
  BY <1>2 DEF Blank
<1>4. DOMAIN r = DOMAIN Blank
  BY <1>2
<1>5. /\ r.is_rwa = rwa.is_rwa
      /\ r.requires_authorization = issuance.require_auth
      /\ r.transfer_disabled = ~issuance.can_transfer
      /\ r.clawback_enabled = issuance.can_clawback
      /\ r.destination_is_issuer = ToIssuer
      /\ r.required_credentials = RequiredSet
      /\ r.has_domain = HasDomain
      /\ r.destination_credentials = rwa.destination_credentials
  BY <1>3
<1> HIDE DEF r
<1>6. /\ WorldTyped' /\ NowKnown' /\ seen' = seen /\ steady' = steady
      /\ steady \subseteq FactsNow /\ FactsNow \subseteq seen
      /\ issuance \in Issuances
  BY <1>1, <1>2, <1>4, <1>5, ReadKeeps
<1>7. /\ issuance.require_auth \in BOOLEAN /\ issuance.can_transfer \in BOOLEAN
      /\ issuance.can_clawback \in BOOLEAN
  BY <1>6, IssuancesAssumption
<1>8. IssuanceKnown'
  <2>1. /\ ~r.requires_authorization => <<"needs no authorization">> \in seen
        /\ <<"needs no authorization">> \in steady => ~r.requires_authorization
    BY <1>5, <1>6, FactsOf
  <2>2. /\ ~r.transfer_disabled => <<"transferable">> \in seen
        /\ ~r.clawback_enabled => <<"no clawback">> \in seen
    BY <1>5, <1>6, <1>7, FactsOf
  <2>3. /\ r.requires_authorization \in BOOLEAN /\ r.transfer_disabled \in BOOLEAN
        /\ r.clawback_enabled \in BOOLEAN
    BY <1>5, <1>7
  <2> QED
    BY <1>1, <1>5, <1>6, <2>1, <2>2, <2>3 DEF IssuanceKnown, RequiredSet, ToSet
<1>9. MPTokenKnown' /\ CredentialsKnown' /\ DomainKnown'
  BY <1>1, <1>2, <1>5 DEF MPTokenKnown, CredentialsKnown, DomainKnown, After
<1> QED
  BY <1>6, <1>8, <1>9 DEF ReaderInv

LEMMA ReadMPTokenStep == ASSUME ReaderInv, ReadMPToken  PROVE ReaderInv'
<1> DEFINE answer == IF mptoken = "authorized" THEN "yes" ELSE "no"
           r == [rwa EXCEPT !.destination_authorized = answer]
<1>1. /\ stage = "mptoken" /\ stage' = "required" /\ pending' = Required
      /\ rwa' = r /\ outcome' = outcome /\ Read
  BY DEF ReadMPToken, Proceed, Read
<1>2. /\ DOMAIN rwa = DOMAIN Blank /\ rwa.is_rwa /\ outcome = "none"
      /\ rwa.destination_credentials = {}
  BY <1>1 DEF ReaderInv, WorldTyped, CredentialsKnown
<1>3. /\ DOMAIN r = DOMAIN Blank /\ r.destination_authorized = answer
      /\ \A f \in DOMAIN rwa : f # "destination_authorized" => r[f] = rwa[f]
  BY <1>2 DEF Blank
<1>4. /\ r.is_rwa = rwa.is_rwa
      /\ r.requires_authorization = rwa.requires_authorization
      /\ r.transfer_disabled = rwa.transfer_disabled
      /\ r.clawback_enabled = rwa.clawback_enabled
      /\ r.destination_is_issuer = rwa.destination_is_issuer
      /\ r.required_credentials = rwa.required_credentials
      /\ r.has_domain = rwa.has_domain
      /\ r.destination_credentials = rwa.destination_credentials
  BY <1>2, <1>3 DEF Blank
<1>5. answer = "yes" <=> mptoken = "authorized"
  OBVIOUS
<1> HIDE DEF r, answer
<1>6. /\ WorldTyped' /\ NowKnown' /\ seen' = seen /\ steady' = steady
      /\ steady \subseteq FactsNow /\ FactsNow \subseteq seen
  BY <1>1, <1>2, <1>3, <1>4, ReadKeeps
<1>7. IssuanceKnown'
  BY <1>1, <1>4, <1>6 DEF ReaderInv, IssuanceKnown, After, RequiredSet, ToSet
<1>8. MPTokenKnown'
  <2>1. /\ r.destination_authorized = "yes" => <<"authorized">> \in seen
        /\ <<"authorized">> \in steady => r.destination_authorized = "yes"
    BY <1>3, <1>5, <1>6, FactsOf
  <2> QED
    BY <1>1, <1>6, <2>1 DEF MPTokenKnown
<1>9. CredentialsKnown'
  <2>1. \A d \in RequiredSet : d \in ToSet(Required)
    BY DEF RequiredSet
  <2> QED
    BY <1>1, <1>2, <1>4, <2>1, RequiredAreTexts DEF CredentialsKnown, RequiredSet, ToSet
<1>10. DomainKnown'
  BY <1>1, <1>2 DEF DomainKnown
<1> QED
  BY <1>6, <1>7, <1>8, <1>9, <1>10 DEF ReaderInv

\* A required credential that is not found is not steady, since what is steady holds now.
LEMMA ReadRequiredStep == ASSUME ReaderInv, ReadRequired  PROVE ReaderInv'
<1> DEFINE c == Head(pending)
           r == IF HoldsCredential(c)
                THEN [rwa EXCEPT !.destination_credentials = @ \cup {c}] ELSE rwa
<1>1. /\ stage = "required" /\ stage' = "required" /\ pending # <<>>
      /\ pending' = Tail(pending) /\ rwa' = r /\ outcome' = outcome /\ Read
  BY DEF ReadRequired, Proceed, Read
<1>2. /\ DOMAIN rwa = DOMAIN Blank /\ rwa.is_rwa /\ outcome = "none"
      /\ pending \in Seq(RequiredSet)
  BY <1>1 DEF ReaderInv, WorldTyped, CredentialsKnown
<1>3. c \in RequiredSet /\ pending' \in Seq(RequiredSet)
      /\ ToSet(pending) = {c} \cup ToSet(pending')
  BY <1>1, <1>2, HeadAndTail
<1>4. HoldsCredential(c) <=> Held(CredentialTypeToHex(c), FactsNow)
  BY <1>3, RequiredAreTexts, HoldsIsFact
<1>5. /\ DOMAIN r = DOMAIN Blank
      /\ \A f \in DOMAIN rwa : f # "destination_credentials" => r[f] = rwa[f]
      /\ r.destination_credentials = IF HoldsCredential(c)
                                     THEN rwa.destination_credentials \cup {c}
                                     ELSE rwa.destination_credentials
  BY <1>2 DEF Blank
<1>6. /\ r.is_rwa = rwa.is_rwa
      /\ r.requires_authorization = rwa.requires_authorization
      /\ r.transfer_disabled = rwa.transfer_disabled
      /\ r.clawback_enabled = rwa.clawback_enabled
      /\ r.destination_is_issuer = rwa.destination_is_issuer
      /\ r.required_credentials = rwa.required_credentials
      /\ r.has_domain = rwa.has_domain
      /\ r.destination_authorized = rwa.destination_authorized
  BY <1>2, <1>5 DEF Blank
<1> HIDE DEF r, c
<1>7. /\ WorldTyped' /\ NowKnown' /\ seen' = seen /\ steady' = steady
      /\ steady \subseteq FactsNow /\ FactsNow \subseteq seen
  BY <1>1, <1>2, <1>5, <1>6, ReadKeeps
<1>8. IssuanceKnown'
  BY <1>1, <1>6, <1>7 DEF ReaderInv, IssuanceKnown, After, RequiredSet, ToSet
<1>9. MPTokenKnown'
  BY <1>1, <1>6, <1>7 DEF ReaderInv, MPTokenKnown, After
<1>10. CredentialsKnown'
  <2>1. \A d \in r.destination_credentials : Held(CredentialTypeToHex(d), seen)
    BY <1>4, <1>5, <1>7 DEF ReaderInv, CredentialsKnown, Held
  <2>2. ASSUME NEW d \in RequiredSet
        PROVE  \/ d \in ToSet(pending') \/ d \in r.destination_credentials
               \/ ~Held(CredentialTypeToHex(d), steady)
    <3>1. CASE d = c
      BY <1>4, <1>5, <1>7, <3>1 DEF Held
    <3>2. CASE d # c
      BY <1>1, <1>3, <1>5, <3>2 DEF ReaderInv, CredentialsKnown, After
    <3> QED
      BY <3>1, <3>2
  <2> QED
    BY <1>1, <1>3, <1>7, <2>1, <2>2
    DEF CredentialsKnown, RequiredSet, ToSet, Held, CredentialTypeToHex
<1>11. DomainKnown'
  BY <1>1, <1>2 DEF DomainKnown
<1> QED
  BY <1>7, <1>8, <1>9, <1>10, <1>11 DEF ReaderInv

\* Once nothing is left to be read, the call goes on to the domain, if there is one.
LEMMA FinishRequiredStep == ASSUME ReaderInv, FinishRequired  PROVE ReaderInv'
<1>1. /\ stage = "required" /\ pending = <<>> /\ rwa' = rwa /\ Read
      /\ stage' = IF HasDomain THEN "domain" ELSE "idle"
      /\ outcome' = IF HasDomain THEN outcome ELSE "resolved"
  BY DEF FinishRequired, Proceed, Read
<1>2. DOMAIN rwa = DOMAIN Blank /\ rwa.is_rwa /\ outcome = "none"
  BY <1>1 DEF ReaderInv, WorldTyped
<1>3. /\ WorldTyped' /\ NowKnown' /\ seen' = seen /\ steady' = steady
  BY <1>1, <1>2, ReadKeeps
<1>4. IssuanceKnown'
  BY <1>1, <1>3 DEF ReaderInv, IssuanceKnown, After, RequiredSet, ToSet
<1>5. MPTokenKnown'
  BY <1>1, <1>3 DEF ReaderInv, MPTokenKnown, After
<1>6. CredentialsKnown'
  <2>1. ToSet(pending) = {}
    BY <1>1 DEF ToSet
  <2> QED
    BY <1>1, <1>3, <2>1
    DEF ReaderInv, CredentialsKnown, After, RequiredSet, ToSet, Held, CredentialTypeToHex
<1>7. DomainKnown'
  BY <1>1, <1>2, DomainAssumption DEF DomainKnown
<1> QED
  BY <1>3, <1>4, <1>5, <1>6, <1>7 DEF ReaderInv

LEMMA ReadDomainStep == ASSUME ReaderInv, ReadDomain  PROVE ReaderInv'
<1>1. /\ stage = "domain" /\ stage' = "members" /\ rwa' = rwa
      /\ pending' = [i \in DOMAIN domain |-> CredentialTypeFromHex(domain[i])]
      /\ outcome' = outcome /\ Read
  BY DEF ReadDomain, Proceed, Read
<1>2. DOMAIN rwa = DOMAIN Blank /\ rwa.is_rwa /\ outcome = "none"
  BY <1>1 DEF ReaderInv, WorldTyped
<1>3. /\ WorldTyped' /\ NowKnown' /\ seen' = seen /\ steady' = steady
      /\ steady \subseteq FactsNow /\ FactsNow \subseteq seen /\ domain \in DomainLists
  BY <1>1, <1>2, ReadKeeps
<1>4. IssuanceKnown'
  BY <1>1, <1>3 DEF ReaderInv, IssuanceKnown, After, RequiredSet, ToSet
<1>5. MPTokenKnown'
  BY <1>1, <1>3 DEF ReaderInv, MPTokenKnown, After
<1>6. CredentialsKnown'
  BY <1>1, <1>3
  DEF ReaderInv, CredentialsKnown, After, RequiredSet, ToSet, Held, CredentialTypeToHex
<1>7. PICK list : list = domain
  OBVIOUS
<1>8. PICK read : read = pending'
  OBVIOUS
<1>9. /\ ToSet(list) \subseteq Readable
      /\ read \in Seq(Texts)
      /\ ToSet(read) = {CredentialTypeFromHex(x) : x \in ToSet(list)}
  BY <1>1, <1>3, <1>7, <1>8, DomainRead
<1>10. \A x : Accepted(x, FactsNow) <=> x \in ToSet(list)
  BY <1>7, FactsOf DEF Accepted
<1>11. ASSUME NEW c \in ToSet(read)
       PROVE  \E x \in Readable : Accepted(x, seen') /\ Spells(c, x)
  <2>1. PICK x \in ToSet(list) : c = CredentialTypeFromHex(x)
    BY <1>9
  <2>2. x \in Readable /\ Accepted(x, FactsNow)
    BY <1>9, <1>10
  <2>3. Accepted(x, seen')
    BY <1>3, <2>2 DEF Accepted
  <2> QED
    BY <2>1, <2>2, <2>3, FromHexSpells
<1>12. ASSUME NEW c \in Texts, Member(CredentialTypeToHex(c), steady')
       PROVE  c \in ToSet(read)
  <2>1. Accepted(CredentialTypeToHex(c), FactsNow)
    BY <1>3, <1>12 DEF Member, Accepted
  <2>2. CredentialTypeToHex(c) \in ToSet(list)
    BY <1>10, <2>1
  <2> QED
    BY <1>9, <2>2, FromHexToHex
<1>13. MembersPending'
  BY <1>8, <1>9, <1>11, <1>12
  DEF MembersPending, Texts, Readable, Range, Blobs, ToSet, Member, Accepted, Held, Spells,
      CredentialTypeToHex
<1>14. DomainKnown'
  BY <1>1, <1>2, <1>13 DEF ReaderInv, DomainKnown
<1> QED
  BY <1>3, <1>4, <1>5, <1>6, <1>14 DEF ReaderInv

\* The first accepted credential that is held settles it; if none is left, none of those
\* that were accepted and held throughout can have been passed over.
LEMMA ReadMembershipStep == ASSUME ReaderInv, ReadMembership  PROVE ReaderInv'
<1>1. /\ stage = "members" /\ Read /\ outcome = "none" /\ HasDomain
      /\ DOMAIN rwa = DOMAIN Blank /\ rwa.is_rwa /\ MembersPending
  BY DEF ReadMembership, Proceed, Read, ReaderInv, WorldTyped, DomainKnown
<1>2. ASSUME stage' \in {"members", "idle"},
             outcome' = IF stage' = "idle" THEN "resolved" ELSE outcome,
             NEW answer, rwa' = [rwa EXCEPT !.destination_in_domain = answer] \/ rwa' = rwa
      PROVE  /\ WorldTyped' /\ NowKnown' /\ seen' = seen /\ steady' = steady
             /\ steady \subseteq FactsNow /\ FactsNow \subseteq seen
             /\ IssuanceKnown' /\ MPTokenKnown' /\ CredentialsKnown'
  <2>1. /\ DOMAIN rwa' = DOMAIN Blank
        /\ \A f \in DOMAIN rwa : f # "destination_in_domain" => rwa'[f] = rwa[f]
    BY <1>1, <1>2 DEF Blank
  <2>2. /\ rwa'.is_rwa = rwa.is_rwa
        /\ rwa'.requires_authorization = rwa.requires_authorization
        /\ rwa'.transfer_disabled = rwa.transfer_disabled
        /\ rwa'.clawback_enabled = rwa.clawback_enabled
        /\ rwa'.destination_is_issuer = rwa.destination_is_issuer
        /\ rwa'.required_credentials = rwa.required_credentials
        /\ rwa'.has_domain = rwa.has_domain
        /\ rwa'.destination_authorized = rwa.destination_authorized
        /\ rwa'.destination_credentials = rwa.destination_credentials
    BY <1>1, <2>1 DEF Blank
  <2>3. /\ WorldTyped' /\ NowKnown' /\ seen' = seen /\ steady' = steady
        /\ steady \subseteq FactsNow /\ FactsNow \subseteq seen
    BY <1>1, <1>2, <2>1, <2>2, ReadKeeps
  <2>4. IssuanceKnown'
    BY <1>1, <2>2, <2>3 DEF ReaderInv, IssuanceKnown, After, RequiredSet, ToSet
  <2>5. MPTokenKnown'
    BY <1>1, <2>2, <2>3 DEF ReaderInv, MPTokenKnown, After
  <2>6. CredentialsKnown'
    BY <1>1, <1>2, <2>2, <2>3
    DEF ReaderInv, CredentialsKnown, After, RequiredSet, ToSet, Held, CredentialTypeToHex
  <2> QED
    BY <2>3, <2>4, <2>5, <2>6
<1>3. CASE pending = <<>>
  <2>1. /\ stage' = "idle" /\ outcome' = "resolved"
        /\ rwa' = [rwa EXCEPT !.destination_in_domain = "no"]
    BY <1>3 DEF ReadMembership, Proceed
  <2>2. /\ WorldTyped' /\ NowKnown' /\ seen' = seen /\ steady' = steady
        /\ IssuanceKnown' /\ MPTokenKnown' /\ CredentialsKnown'
    BY <1>2, <2>1
  <2>3. rwa'.destination_in_domain = "no"
    BY <1>1, <2>1 DEF Blank
  <2>4. NoSteadyMember
    <3>1. ToSet(pending) = {}
      BY <1>3 DEF ToSet
    <3>2. \A c \in Texts : ~Member(CredentialTypeToHex(c), steady)
      BY <1>1, <3>1 DEF MembersPending
    <3> QED
      BY <3>2, FromHexText DEF NoSteadyMember
  <2>5. DomainKnown'
    BY <2>1, <2>2, <2>3, <2>4, MembersStay DEF DomainKnown
  <2> QED
    BY <2>2, <2>5 DEF ReaderInv
<1>4. CASE pending # <<>> /\ HoldsCredential(Head(pending))
  <2>1. /\ stage' = "idle" /\ outcome' = "resolved"
        /\ rwa' = [rwa EXCEPT !.destination_in_domain = "yes"]
    BY <1>4 DEF ReadMembership, Proceed
  <2>2. /\ WorldTyped' /\ NowKnown' /\ seen' = seen /\ steady' = steady
        /\ FactsNow \subseteq seen
        /\ IssuanceKnown' /\ MPTokenKnown' /\ CredentialsKnown'
    BY <1>2, <2>1
  <2>3. rwa'.destination_in_domain = "yes"
    BY <1>1, <2>1 DEF Blank
  <2>4. FoundMember
    <3>1. /\ Head(pending) \in Texts
          /\ Head(pending) \in ToSet(pending)
      BY <1>1, <1>4, HeadAndTail DEF MembersPending
    <3>2. PICK c \in Texts : c = Head(pending)
      BY <3>1
    <3>3. Held(CredentialTypeToHex(c), seen)
      BY <1>4, <2>2, <3>2, HoldsIsFact DEF Held
    <3>4. PICK x \in Readable : Accepted(x, seen) /\ Spells(c, x)
      BY <1>1, <3>1, <3>2 DEF MembersPending
    <3>5. Member(x, seen) \/ MistakenMember(x, seen)
      BY <3>3, <3>4 DEF Spells, Member, MistakenMember
    <3> QED
      BY <3>5 DEF FoundMember
  <2>5. DomainKnown'
    BY <2>1, <2>2, <2>3, <2>4, MembersStay DEF DomainKnown
  <2> QED
    BY <2>2, <2>5 DEF ReaderInv
<1>5. CASE pending # <<>> /\ ~HoldsCredential(Head(pending))
  <2>1. /\ stage' = "members" /\ outcome' = outcome /\ rwa' = rwa /\ pending' = Tail(pending)
    BY <1>5 DEF ReadMembership, Proceed
  <2>2. /\ WorldTyped' /\ NowKnown' /\ seen' = seen /\ steady' = steady
        /\ steady \subseteq FactsNow
        /\ IssuanceKnown' /\ MPTokenKnown' /\ CredentialsKnown'
    BY <1>2, <2>1
  <2>3. PICK c \in Texts : c = Head(pending)
    BY <1>1, <1>5, HeadAndTail DEF MembersPending
  <2>4. PICK rest \in Seq(Texts) : rest = pending'
    BY <1>1, <1>5, <2>1, HeadAndTail DEF MembersPending
  <2>5. ToSet(pending) = {c} \cup ToSet(rest)
    BY <1>1, <1>5, <2>1, <2>3, <2>4, HeadAndTail DEF MembersPending
  <2>6. ~Held(CredentialTypeToHex(c), steady)
    BY <1>5, <2>2, <2>3, HoldsIsFact DEF Held
  <2>7. ASSUME NEW d \in ToSet(rest)
        PROVE  \E x \in Readable : Accepted(x, seen) /\ Spells(d, x)
    BY <1>1, <2>5 DEF MembersPending
  <2>8. ASSUME NEW d \in Texts, Member(CredentialTypeToHex(d), steady)
        PROVE  d \in ToSet(rest)
    <3>1. d \in ToSet(pending)
      BY <1>1, <2>8 DEF MembersPending
    <3>2. d # c
      BY <2>6, <2>8 DEF Member
    <3> QED
      BY <2>5, <3>1, <3>2
  <2>9. MembersPending'
    <3>1. \A d \in ToSet(pending') : \E x \in Readable : Accepted(x, seen') /\ Spells(d, x)
      BY <2>2, <2>4, <2>7
    <3>2. \A d \in Texts : Member(CredentialTypeToHex(d), steady') => d \in ToSet(pending')
      BY <2>2, <2>4, <2>8
    <3>3. pending' \in Seq(Texts)
      BY <2>4
    <3> QED
      BY <3>1, <3>2, <3>3, ZenonT(30)
      DEF MembersPending, Texts, Readable, Range, Blobs, ToSet, Member, Accepted, Held,
          Spells, CredentialTypeToHex
  <2>10. DomainKnown'
    BY <1>1, <2>1, <2>9 DEF DomainKnown
  <2> QED
    BY <2>2, <2>10 DEF ReaderInv
<1> QED
  BY <1>3, <1>4, <1>5

LEMMA ReadFailsStep == ASSUME ReaderInv, ReadFails  PROVE ReaderInv'
<1>1. stage' = "idle" /\ outcome' = "raised" /\ rwa' = rwa /\ Read
  BY DEF ReadFails, Read
<1>2. DOMAIN rwa = DOMAIN Blank /\ rwa.is_rwa
  BY DEF ReaderInv, WorldTyped
<1>3. WorldTyped' /\ NowKnown' /\ seen' = seen
  BY <1>1, <1>2, ReadKeeps
<1>4. IssuanceKnown' /\ MPTokenKnown' /\ CredentialsKnown' /\ DomainKnown'
  BY <1>1, <1>3
  DEF ReaderInv, IssuanceKnown, MPTokenKnown, CredentialsKnown, DomainKnown, After
<1> QED
  BY <1>3, <1>4 DEF ReaderInv

-----------------------------------------------------------------------------
(* The invariant, and what it is for.                                      *)

LEMMA ReaderInvInit == ASSUME ReaderInit  PROVE ReaderInv
<1>1. /\ stage = "idle" /\ rwa = Blank /\ outcome = "none"
      /\ issuance \in Issuances /\ domain \in DomainLists
  BY DEF ReaderInit
<1> QED
  BY <1>1 DEF ReaderInv, WorldTyped, NowKnown, IssuanceKnown, MPTokenKnown, CredentialsKnown,
              DomainKnown, After, Blank

LEMMA ReaderInvStep == ASSUME ReaderInv, [ReaderNext]_vars  PROVE ReaderInv'
<1>1. CASE LedgerChange
  <2>1. domain \in DomainLists /\ issuance \in Issuances
    BY DEF ReaderInv, WorldTyped
  <2>2. /\ UNCHANGED readVars /\ Observe
        /\ domain' \in DomainLists /\ issuance' \in Issuances
    BY <1>1, <2>1 DEF LedgerChange
  <2> QED
    BY <2>2, HistoryMoves
<1>2. CASE Tick
  <2>1. UNCHANGED readVars /\ Observe /\ UNCHANGED <<domain, issuance>>
    BY <1>2 DEF Tick, ledgerVars
  <2> QED
    BY <2>1, HistoryMoves DEF ReaderInv, WorldTyped
<1>3. CASE UNCHANGED vars
  <2>1. /\ UNCHANGED readVars /\ seen' = seen /\ steady' = steady
        /\ issuance' = issuance /\ mptoken' = mptoken /\ credentials' = credentials
        /\ domain' = domain /\ clock' = clock
    BY <1>3 DEF vars, ledgerVars, history
  <2>2. FactsNow' = FactsNow
    BY <2>1 DEF FactsNow, When, Readable, Range, Blobs, RequiredSet, ToSet, Expiration
  <2>3. Observe
    <3>1. CASE stage = "idle"
      BY <2>1, <3>1 DEF Observe, history
    <3>2. CASE stage # "idle"
      <4>1. seen' = seen \cup FactsNow' /\ steady' = steady \cap FactsNow'
        BY <2>1, <2>2, <3>2 DEF ReaderInv, NowKnown
      <4> QED
        BY <3>2, <4>1 DEF Observe
    <3> QED
      BY <3>1, <3>2
  <2> QED
    BY <2>1, <2>3, HistoryMoves DEF ReaderInv, WorldTyped
<1> QED
  BY <1>1, <1>2, <1>3, ResolveStep, ReadIssuanceStep, ReadMPTokenStep, ReadRequiredStep,
     FinishRequiredStep, ReadDomainStep, ReadMembershipStep, ReadFailsStep
  DEF ReaderNext, ReadStep

\* resolve and RwaComplianceRule: each fact a clean context rests on held at some instant
\* of the call.
THEOREM CompliantSound == ReaderSpec => []CompliantOnLiveFacts
<1>1. ReaderInit => ReaderInv
  BY ReaderInvInit
<1>2. ReaderInv /\ [ReaderNext]_vars => ReaderInv'
  BY ReaderInvStep
<1>3. ReaderInv => CompliantOnLiveFacts
  <2> SUFFICES ASSUME ReaderInv, outcome = "resolved", RwaFindings(rwa) = {}
               PROVE  /\ seen \cap {<<"authorized">>, <<"needs no authorization">>} # {}
                      /\ ToIssuer \/ <<"transferable">> \in seen
                      /\ <<"no clawback">> \in seen
                      /\ \A c \in RequiredSet : Held(CredentialTypeToHex(c), seen)
                      /\ HasDomain => FoundMember
    BY DEF CompliantOnLiveFacts, FoundMember
  <2>1. /\ ~(rwa.requires_authorization /\ rwa.destination_authorized # "yes")
        /\ ~(rwa.transfer_disabled /\ ~rwa.destination_is_issuer)
        /\ rwa.required_credentials \subseteq rwa.destination_credentials
        /\ ~(rwa.has_domain /\ rwa.destination_in_domain # "yes")
        /\ ~rwa.clawback_enabled
    BY DEF RwaFindings, When, ReaderInv, WorldTyped
  <2>2. seen \cap {<<"authorized">>, <<"needs no authorization">>} # {}
    BY <2>1 DEF ReaderInv, IssuanceKnown, MPTokenKnown, After
  <2>3. (ToIssuer \/ <<"transferable">> \in seen) /\ <<"no clawback">> \in seen
    BY <2>1 DEF ReaderInv, IssuanceKnown, After
  <2>4. \A c \in RequiredSet : Held(CredentialTypeToHex(c), seen)
    BY <2>1 DEF ReaderInv, IssuanceKnown, CredentialsKnown, After
  <2>5. HasDomain => FoundMember
    BY <2>1 DEF ReaderInv, IssuanceKnown, DomainKnown, After
  <2> QED
    BY <2>2, <2>3, <2>4, <2>5
<1> QED
  BY <1>1, <1>2, <1>3, PTL DEF ReaderSpec

\* resolve: what a destination satisfies during the whole call is never found missing.
THEOREM SteadyRecognised == ReaderSpec => []SteadyFactsRecognised
<1>1. ReaderInit => ReaderInv
  BY ReaderInvInit
<1>2. ReaderInv /\ [ReaderNext]_vars => ReaderInv'
  BY ReaderInvStep
<1>3. ReaderInv => SteadyFactsRecognised
  <2> SUFFICES ASSUME ReaderInv, outcome = "resolved"
               PROVE  SteadyFactsRecognised
    BY DEF SteadyFactsRecognised
  <2>1. /\ "rwa_destination_not_authorized" \in RwaFindings(rwa) =>
             rwa.requires_authorization /\ rwa.destination_authorized # "yes"
        /\ "rwa_missing_required_credential" \in RwaFindings(rwa) =>
             ~(rwa.required_credentials \subseteq rwa.destination_credentials)
        /\ "rwa_destination_outside_permissioned_domain" \in RwaFindings(rwa) =>
             rwa.has_domain /\ rwa.destination_in_domain # "yes"
    BY DEF RwaFindings, When
  <2>2. steady \cap {<<"authorized">>, <<"needs no authorization">>} # {} =>
          "rwa_destination_not_authorized" \notin RwaFindings(rwa)
    BY <2>1 DEF ReaderInv, IssuanceKnown, MPTokenKnown, After
  <2>3. (\A c \in RequiredSet : Held(CredentialTypeToHex(c), steady)) =>
          "rwa_missing_required_credential" \notin RwaFindings(rwa)
    BY <2>1 DEF ReaderInv, WorldTyped, IssuanceKnown, CredentialsKnown, After
  <2>4. (\E x \in Range(Encoded) : Member(x, steady)) =>
          "rwa_destination_outside_permissioned_domain" \notin RwaFindings(rwa)
    BY <2>1 DEF ReaderInv, IssuanceKnown, DomainKnown, NoSteadyMember, After
  <2> QED
    BY <2>2, <2>3, <2>4 DEF SteadyFactsRecognised
<1> QED
  BY <1>1, <1>2, <1>3, PTL DEF ReaderSpec
=============================================================================
