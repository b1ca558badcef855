-------------------------- MODULE AgentIdentityProofs --------------------------
(***************************************************************************)
(* Proofs about one verification of a signer, for any directory, page size, *)
(* page limit, objects and requests, and any number of changes between the  *)
(* pages.                                                                  *)
(*                                                                         *)
(* Soundness rests on what was valid when a page was read having been valid *)
(* since the directory last changed, or since verify began.  Completeness    *)
(* rests on the marker: every credential that stayed put is either found or *)
(* still ahead of it.                                                      *)
(***************************************************************************)
EXTENDS AgentIdentity, NaturalsInduction, WellFoundedInduction, TLAPS

\* What is valid now has been seen, and so has what was found and is valid still.
SeenKnown ==
  stage # "idle" =>
    /\ ValidNow => seen_valid
    /\ \A c \in found :
         /\ Owned(c)
         /\ Matching(c) /\ c.accepted /\ ~Expired(c) => seen_valid

\* A credential that stayed put is found once the marker is past it.
StableFound ==
  \A k \in stable : Owned(directory[k]) =>
    /\ stage = "reading" /\ k < marker => directory[k] \in found
    /\ stage = "deciding" => directory[k] \in found

IInv == IdentityTypeOK /\ SeenKnown /\ StableFound /\ AcceptSound

-----------------------------------------------------------------------------
\* A set of places that is not empty has a first one, and Min is it.
LEMMA FirstPlace ==
  ASSUME NEW S \in SUBSET Keys, S # {}
  PROVE  Min(S) \in S /\ \A k \in S : Min(S) <= k
<1> DEFINE R == {pair \in Nat \X Nat : pair[1] < pair[2]}
<1>1. R = OpToRel(<, Nat)
  BY DEF OpToRel
<1>2. IsWellFoundedOn(R, Nat)
  BY <1>1, NatLessThanWellFounded
<1>3. S \in SUBSET Nat
  BY KeysAssumption
<1>4. PICK m \in S : \A k \in S : ~ (<<k, m>> \in R)
  BY <1>2, <1>3, WFMin
<1>5. ASSUME NEW k \in S
      PROVE  m <= k
  <2>1. <<k, m>> \in Nat \X Nat /\ ~(<<k, m>> \in R)
    BY <1>3, <1>4
  <2> QED
    BY <2>1
<1> QED
  BY <1>5 DEF Min

\* What is held is present, and one of the objects.
LEMMA OwnedPresent ==
  ASSUME IdentityTypeOK, NEW k \in Keys
  PROVE  /\ Owned(directory[k]) => Present(k)
         /\ Present(k) => directory[k] \in Objects
         /\ Held(directory[k]) = Owned(directory[k])
BY DEF IdentityTypeOK, Owned, Held, Present, Absent

\* A page is read up to the next marker, or to the end.
LEMMA PageCovers ==
  ASSUME IdentityTypeOK, NEW k \in Keys, Present(k), k >= marker
  PROVE  /\ AfterPage = {} => OnPage(k)
         /\ AfterPage # {} /\ k < Min(AfterPage) => OnPage(k)
<1>1. k \in Ahead
  BY DEF Ahead
<1>2. k \in AfterPage \/ OnPage(k)
  BY <1>1 DEF AfterPage
<1>3. AfterPage \in SUBSET Keys
  BY DEF AfterPage, Ahead
<1>4. ASSUME AfterPage # {}, k \in AfterPage
      PROVE  ~(k < Min(AfterPage))
  <2> DEFINE m == Min(AfterPage)
  <2>1. m \in AfterPage /\ m <= k
    BY <1>3, <1>4, FirstPlace
  <2> HIDE DEF m
  <2>2. m \in Nat /\ k \in Nat
    BY <1>3, <2>1, KeysAssumption
  <2>3. ~(k < m)
    BY <2>1, <2>2
  <2> QED
    BY <2>3 DEF m
<1> QED
  BY <1>2, <1>4

\* A credential valid after a tick was valid before it.
LEMMA ValidBefore ==
  ASSUME IdentityTypeOK, Tick
  PROVE  /\ ValidNow' => ValidNow
         /\ \A c \in Objects : Owned(c) /\ Expired(c) => Expired(c)'
<1>1. /\ clock \in Nat /\ clock' = clock + 1 /\ UNCHANGED <<directory, asked>>
  BY BoundAssumption DEF IdentityTypeOK, Tick
<1>2. \A c \in Objects : Owned(c) /\ c.has_expiration =>
        /\ clock' < c.expiration => clock < c.expiration
        /\ clock >= c.expiration => clock' >= c.expiration
  BY <1>1, ObjectsAssumption DEF Owned
<1>3. \A k \in Keys : Owned(directory[k]) => directory[k] \in Objects
  BY OwnedPresent
<1>4. ValidNow' => ValidNow
  <2> SUFFICES ASSUME ValidNow' PROVE ValidNow
    OBVIOUS
  <2>1. PICK k \in Keys :
          /\ Owned(directory[k]) /\ directory[k].accepted
          /\ directory[k].type = asked.type /\ directory[k].issuer \in asked.issuers
          /\ directory[k].has_expiration => clock' < directory[k].expiration
    BY <1>1 DEF ValidNow, Owned
  <2>2. directory[k].has_expiration => clock < directory[k].expiration
    BY <1>2, <1>3, <2>1
  <2> QED
    BY <2>1, <2>2 DEF ValidNow
<1>5. ASSUME NEW c \in Objects, Owned(c), Expired(c)
      PROVE  Expired(c)'
  BY <1>2, <1>5 DEF Expired
<1> QED
  BY <1>4, <1>5

-----------------------------------------------------------------------------
\* verify() starts over.
LEMMA VerifyKeeps ==
  ASSUME IInv, NEW request \in Requests, Verify(request)
  PROVE  IInv'
<1>1. /\ asked' = request /\ UNCHANGED worldVars /\ marker' = 0 /\ pages' = 0 /\ found' = {}
      /\ stable' = {k \in Keys : Present(k)} /\ seen_valid' = ValidNow'
      /\ \/ stage' = "reading" /\ outcome' = "none"
         \/ stage' = "idle" /\ outcome' = "not_configured"
  <2>1. CASE request.issuers = {} \/ request.type = ""
    BY <2>1 DEF Verify, End
  <2>2. CASE ~(request.issuers = {} \/ request.type = "")
    BY <2>2 DEF Verify
  <2> QED
    BY <2>1, <2>2
<1>2. ValidNow' \in BOOLEAN
  BY DEF ValidNow
<1>3. IdentityTypeOK'
  BY <1>1, <1>2, PagesAssumption DEF IInv, IdentityTypeOK, worldVars, Reasons
<1>4. SeenKnown' /\ AcceptSound'
  BY <1>1 DEF SeenKnown, AcceptSound
<1>5. StableFound'
  <2>1. \A k \in stable' : ~(k < 0)
    BY <1>1, KeysAssumption
  <2> QED
    BY <1>1, <2>1 DEF StableFound
<1> QED
  BY <1>3, <1>4, <1>5 DEF IInv

\* A page adds what the signer holds on it, and moves the marker past it.
LEMMA ReadPageKeeps ==
  ASSUME IInv, ReadPage PROVE IInv'
<1> DEFINE onpage == {j \in Ahead : OnPage(j) /\ Held(directory[j])}
<1>1. /\ stage = "reading" /\ pages' = pages + 1
      /\ found' = found \cup {directory[k] : k \in onpage}
      /\ UNCHANGED <<asked, worldVars, history>>
  BY DEF ReadPage
<1>2. \/ /\ AfterPage = {} /\ stage' = "deciding" /\ UNCHANGED <<marker, outcome>>
      \/ /\ AfterPage # {} /\ pages' = MaxPages
         /\ stage' = "idle" /\ outcome' = "too_many_pages" /\ UNCHANGED marker
      \/ /\ AfterPage # {} /\ pages' # MaxPages
         /\ marker' = Min(AfterPage) /\ UNCHANGED <<stage, outcome>>
  BY DEF ReadPage, End
<1>3. IdentityTypeOK /\ SeenKnown /\ StableFound /\ AcceptSound
  BY DEF IInv
<1>4. onpage \in SUBSET Keys /\ AfterPage \in SUBSET Keys
  BY DEF Ahead, AfterPage
<1>5. \A k \in onpage : directory[k] \in Objects /\ Owned(directory[k])
  BY <1>3, <1>4, OwnedPresent DEF Ahead
<1>6. \A k \in Keys : Owned(directory[k]) /\ k \in Ahead /\ OnPage(k) => k \in onpage
  BY <1>3, OwnedPresent
<1> HIDE DEF onpage
<1>7. UNCHANGED <<directory, clock, changes, stable, seen_valid, asked>>
  BY <1>1 DEF worldVars, history
<1>8. IdentityTypeOK'
  <2>1. found' \in SUBSET Objects
    BY <1>1, <1>3, <1>5 DEF IdentityTypeOK
  <2>2. marker' \in Keys \cup {0}
    BY <1>2, <1>3, <1>4, FirstPlace DEF IdentityTypeOK
  <2>3. pages' \in 0..MaxPages
    BY <1>1, <1>3, PagesAssumption DEF IdentityTypeOK
  <2>4. stage' = "reading" => pages' < MaxPages
    BY <1>1, <1>2, <2>3, PagesAssumption
  <2>5. stage' \in {"idle", "reading", "deciding"}
    BY <1>1, <1>2
  <2>6. outcome' \in {"none", "accepted"} \cup Reasons
    BY <1>2, <1>3 DEF IdentityTypeOK, Reasons
  <2> QED
    BY <1>3, <1>7, <2>1, <2>2, <2>3, <2>4, <2>5, <2>6 DEF IdentityTypeOK
<1>9. SeenKnown'
  <2>1. /\ ValidNow => seen_valid
        /\ \A c \in found : /\ Owned(c)
                            /\ Matching(c) /\ c.accepted /\ ~Expired(c) => seen_valid
    BY <1>1, <1>3 DEF SeenKnown
  <2>2. ASSUME NEW k \in onpage, Matching(directory[k]), directory[k].accepted,
               ~Expired(directory[k])
        PROVE  ValidNow
    <3>1. k \in Keys /\ Owned(directory[k]) /\ directory[k] \in Objects
      BY <1>4, <1>5
    <3>2. directory[k].has_expiration => clock < directory[k].expiration
      <4>1. clock \in Int
        BY <1>3 DEF IdentityTypeOK
      <4>2. directory[k].has_expiration => directory[k].expiration \in Int
        BY <3>1, ObjectsAssumption DEF Owned
      <4> QED
        BY <2>2, <4>1, <4>2 DEF Expired
    <3> QED
      BY <2>2, <3>1, <3>2 DEF ValidNow, Matching, TypeMatches, IssuerRecognized
  <2>3. \A c \in found' : /\ Owned(c)
                          /\ Matching(c) /\ c.accepted /\ ~Expired(c) => seen_valid
    BY <1>1, <1>5, <2>1, <2>2
  <2>4. ValidNow' = ValidNow
    BY <1>7 DEF ValidNow, Owned
  <2> QED
    BY <1>7, <2>1, <2>3, <2>4
       DEF SeenKnown, Matching, TypeMatches, IssuerRecognized, Expired, Owned
<1>10. StableFound'
  <2> SUFFICES ASSUME NEW k \in stable, Owned(directory[k]),
                      (stage' = "reading" /\ k < marker') \/ stage' = "deciding"
               PROVE  directory[k] \in found'
    BY <1>7 DEF StableFound, Owned
  <2>1. k \in Keys /\ k \in Nat /\ marker \in Nat /\ Present(k)
    BY <1>3, OwnedPresent, KeysAssumption DEF IdentityTypeOK
  <2>2. CASE k < marker
    BY <1>1, <1>3, <2>2 DEF StableFound
  <2>3. CASE ~(k < marker)
    <3>1. k >= marker /\ k \in Ahead
      BY <2>1, <2>3 DEF Ahead
    <3>2. AfterPage = {} \/ k < Min(AfterPage)
      BY <1>1, <1>2
    <3>3. OnPage(k)
      BY <1>3, <2>1, <3>1, <3>2, PageCovers
    <3> QED
      BY <1>1, <1>6, <2>1, <3>1, <3>3
  <2> QED
    BY <2>2, <2>3
<1>11. AcceptSound'
  BY <1>2, <1>3, <1>7 DEF AcceptSound
<1> QED
  BY <1>8, <1>9, <1>10, <1>11 DEF IInv

\* The decision is taken on what was found, at one instant.
LEMMA DecideKeeps ==
  ASSUME IInv, Decide PROVE IInv'
<1>1. /\ stage = "deciding" /\ stage' = "idle" /\ UNCHANGED <<asked, readVars, worldVars, history>>
      /\ \/ /\ \E c \in found : Matching(c) /\ c.accepted /\ ~Expired(c)
            /\ outcome' = "accepted"
         \/ outcome' = RefusalReason
  BY DEF Decide, End
<1>2. RefusalReason \in Reasons /\ RefusalReason # "accepted"
  BY DEF RefusalReason, Reasons
<1>3. IdentityTypeOK'
  BY <1>1, <1>2 DEF IInv, IdentityTypeOK, readVars, worldVars, history
<1>4. AcceptSound'
  BY <1>1, <1>2 DEF IInv, AcceptSound, SeenKnown, history
<1> QED
  BY <1>1, <1>3, <1>4 DEF IInv, SeenKnown, StableFound

\* What the signer does not see changes between the pages.
LEMMA ChangeKeeps ==
  ASSUME IInv, DirectoryChange PROVE IInv'
<1>1. /\ UNCHANGED <<stage, asked, readVars, outcome, clock>>
      /\ seen_valid' = (seen_valid \/ ValidNow') /\ changes' = changes + 1 /\ changes < MaxChanges
  BY DEF DirectoryChange
<1>2. PICK k \in Keys : \E o \in Objects \cup {Absent} :
        directory' = [directory EXCEPT ![k] = o] /\ stable' = stable \ {k}
  BY DEF DirectoryChange
<1>3. IdentityTypeOK'
  BY <1>1, <1>2, BoundAssumption DEF IInv, IdentityTypeOK, readVars
<1>4. SeenKnown' /\ AcceptSound'
  BY <1>1 DEF IInv, SeenKnown, AcceptSound, readVars, Matching, TypeMatches, IssuerRecognized,
              Expired, Owned
<1>5. StableFound'
  <2>1. \A j \in stable' : j \in stable /\ directory'[j] = directory[j]
    BY <1>2 DEF IInv, IdentityTypeOK
  <2> QED
    BY <1>1, <2>1 DEF IInv, StableFound, readVars, Owned
<1> QED
  BY <1>3, <1>4, <1>5 DEF IInv

\* Time only takes credentials away.
LEMMA TickKeeps ==
  ASSUME IInv, Tick PROVE IInv'
<1>1. /\ UNCHANGED <<stage, asked, readVars, outcome, directory, changes, history>>
      /\ clock' = clock + 1 /\ clock < MaxClock
  BY DEF Tick
<1>2. IdentityTypeOK /\ SeenKnown /\ StableFound /\ AcceptSound
  BY DEF IInv
<1>3. IdentityTypeOK'
  BY <1>1, <1>2, BoundAssumption DEF IdentityTypeOK, readVars, history
<1>4. SeenKnown'
  <2>1. ValidNow' => ValidNow
    BY <1>2, ValidBefore
  <2>2. \A c \in found : c \in Objects /\ (Owned(c) /\ Expired(c) => Expired(c)')
    BY <1>2, ValidBefore DEF IdentityTypeOK
  <2>3. UNCHANGED <<stage, asked, found, seen_valid>>
    BY <1>1 DEF readVars, history
  <2>4. \A c \in found : Matching(c)' = Matching(c)
    BY <2>3 DEF Matching, TypeMatches, IssuerRecognized
  <2> QED
    BY <1>2, <2>1, <2>2, <2>3, <2>4 DEF SeenKnown, Owned
<1>5. StableFound' /\ AcceptSound'
  BY <1>1, <1>2 DEF StableFound, AcceptSound, readVars, history, Owned
<1> QED
  BY <1>3, <1>4, <1>5 DEF IInv

\* Every step of the verifier, and of the world around it, keeps the invariant.
LEMMA StepKeeps ==
  ASSUME IInv, [IdentityNext]_vars PROVE IInv'
<1>1. CASE ReadFails
  <2>1. /\ stage' = "idle" /\ outcome' = "read_failed"
        /\ UNCHANGED <<asked, readVars, worldVars, history>>
    BY <1>1 DEF ReadFails, End
  <2>2. IdentityTypeOK'
    BY <2>1 DEF IInv, IdentityTypeOK, readVars, worldVars, history, Reasons
  <2> QED
    BY <2>1, <2>2 DEF IInv, SeenKnown, StableFound, AcceptSound
<1>2. CASE UNCHANGED vars
  <2>1. IdentityTypeOK' /\ AcceptSound'
    BY <1>2 DEF IInv, IdentityTypeOK, AcceptSound, vars, readVars, worldVars, history
  <2>2. UNCHANGED <<stage, asked, marker, found, directory, clock, stable, seen_valid>>
    BY <1>2 DEF vars, readVars, worldVars, history
  <2>3. ValidNow' = ValidNow
    BY <2>2 DEF ValidNow, Owned
  <2>4. SeenKnown'
    BY <2>2, <2>3 DEF IInv, SeenKnown, Matching, TypeMatches, IssuerRecognized, Expired, Owned
  <2>5. StableFound'
    BY <2>2 DEF IInv, StableFound, Owned
  <2> QED
    BY <2>1, <2>4, <2>5 DEF IInv
<1> QED
  BY <1>1, <1>2, VerifyKeeps, ReadPageKeeps, DecideKeeps, ChangeKeeps, TickKeeps
     DEF IdentityNext, VerifyStep

\* Nothing was asked yet.
LEMMA InitKeeps == IdentityInit => IInv
<1> SUFFICES ASSUME IdentityInit PROVE IInv
  OBVIOUS
<1>1. 0 \in 0..MaxPages /\ 0 < MaxPages /\ 0 \in 0..MaxClock /\ 0 \in 0..MaxChanges
  BY BoundAssumption, PagesAssumption
<1>2. IdentityTypeOK
  BY <1>1 DEF IdentityInit, IdentityTypeOK
<1>3. SeenKnown /\ StableFound /\ AcceptSound
  BY DEF IdentityInit, SeenKnown, StableFound, AcceptSound
<1> QED
  BY <1>2, <1>3 DEF IInv

\* A refusal for a defect names a defect of everything that matched, and "absent"
\* means that nothing was near.
LEMMA RefusalTrue ==
  ASSUME Decide
  PROVE  /\ outcome' # "accepted" =>
              \A c \in found : Matching(c) => ~c.accepted \/ Expired(c)
         /\ outcome' = "absent" =>
              \A c \in found : ~TypeMatches(c) /\ ~IssuerRecognized(c)
<1>1. \/ /\ \E c \in found : Matching(c) /\ c.accepted /\ ~Expired(c)
         /\ outcome' = "accepted"
      \/ /\ ~\E c \in found : Matching(c) /\ c.accepted /\ ~Expired(c)
         /\ outcome' = RefusalReason
  BY DEF Decide, End
<1>2. RefusalReason = "absent" =>
        \A c \in found : ~TypeMatches(c) /\ ~IssuerRecognized(c)
  BY DEF RefusalReason
<1> QED
  BY <1>1, <1>2

\* A decision is taken on every credential that stayed put.
LEMMA SteadyFound ==
  ASSUME IInv, stage = "deciding" PROVE Steady \subseteq found
BY DEF IInv, StableFound, Steady

LEMMA DecisionOnSteady ==
  ASSUME IInv, Decide
  PROVE  /\ outcome' # "accepted" =>
              \A c \in Steady :
                c.type = asked.type /\ c.issuer \in asked.issuers =>
                  ~c.accepted \/ (c.has_expiration /\ clock >= c.expiration)
         /\ outcome' = "absent" =>
              \A c \in Steady :
                c.type # asked.type /\ c.issuer \notin asked.issuers
<1>1. Steady \subseteq found
  BY SteadyFound DEF Decide
<1> QED
  BY <1>1, RefusalTrue DEF Matching, TypeMatches, IssuerRecognized, Expired

-----------------------------------------------------------------------------
\* A verification never reads more than MaxPages pages, and keeps only objects that
\* the directory held.
THEOREM IdentityTypeCorrect == IdentitySpec => []IdentityTypeOK
<1>1. IdentityInit => IInv
  BY InitKeeps
<1>2. IInv /\ [IdentityNext]_vars => IInv'
  BY StepKeeps
<1>3. IInv => IdentityTypeOK
  BY DEF IInv
<1> QED
  BY <1>1, <1>2, <1>3, PTL DEF IdentitySpec

\* A signer is accepted only if the ledger held a valid credential of it at some
\* instant since the verification began, whatever changed between the pages.
THEOREM AcceptanceSound == IdentitySpec => []AcceptSound
<1>1. IdentityInit => IInv
  BY InitKeeps
<1>2. IInv /\ [IdentityNext]_vars => IInv'
  BY StepKeeps
<1>3. IInv => AcceptSound
  BY DEF IInv
<1> QED
  BY <1>1, <1>2, <1>3, PTL DEF IdentitySpec

\* No verification decides on part of the directory: a credential that stayed put is
\* found, so a refusal for a defect is true of all those that did.
THEOREM DecisionsOnAll == IdentitySpec => DecidedOnAll
<1>1. IdentityInit => IInv
  BY InitKeeps
<1>2. IInv /\ [IdentityNext]_vars => IInv'
  BY StepKeeps
<1>3. IInv => (stage = "deciding" => Steady \subseteq found)
  BY SteadyFound
<1>4. IInv /\ [IdentityNext]_vars =>
        [ Decide =>
            /\ outcome' # "accepted" =>
                 \A c \in Steady :
                   c.type = asked.type /\ c.issuer \in asked.issuers =>
                     ~c.accepted \/ (c.has_expiration /\ clock >= c.expiration)
            /\ outcome' = "absent" =>
                 \A c \in Steady :
                   c.type # asked.type /\ c.issuer \notin asked.issuers ]_vars
  BY DecisionOnSteady
<1> QED
  BY <1>1, <1>2, <1>3, <1>4, PTL DEF IdentitySpec, DecidedOnAll
-----------------------------------------------------------------------------
(* Every verification comes to its end.                                    *)

\* How many steps the verification in progress may still take.
StepsLeft ==
  CASE stage = "idle"     -> 0
    [] stage = "deciding" -> 1
    [] stage = "reading"  -> MaxPages - pages + 1

\* A verification takes at most MaxPages requests and a decision: each step of
\* its own brings the end nearer, and no change of the directory moves it.
VerificationShrinks ==
  /\ [](StepsLeft \in 0..(MaxPages + 1))
  /\ [][stage # "idle" => IF VerifyStep THEN StepsLeft' < StepsLeft
                                        ELSE StepsLeft' = StepsLeft]_vars

LEMMA StepsBounded ==
  ASSUME IdentityTypeOK
  PROVE  /\ StepsLeft \in 0..(MaxPages + 1)
         /\ stage = "reading" => StepsLeft > 1
<1>1. MaxPages \in Nat /\ pages \in 0..MaxPages
  BY PagesAssumption DEF IdentityTypeOK
<1>2. stage \in {"idle", "deciding", "reading"} /\ (stage = "reading" => pages < MaxPages)
  BY DEF IdentityTypeOK
<1> QED
  BY <1>1, <1>2 DEF StepsLeft

LEMMA StepsShrink ==
  ASSUME IdentityTypeOK, VerifyStep
  PROVE  StepsLeft' < StepsLeft
<1>1. MaxPages \in Nat /\ pages \in 0..MaxPages /\ StepsLeft \in Int
  BY StepsBounded, PagesAssumption DEF IdentityTypeOK
<1>2. CASE stage' = "idle" /\ stage \in {"reading", "deciding"}
  <2>1. StepsLeft' = 0
    BY <1>2 DEF StepsLeft
  <2>2. StepsLeft >= 1
    BY <1>1, <1>2, StepsBounded DEF StepsLeft
  <2> QED
    BY <1>1, <2>1, <2>2
<1>3. CASE ReadPage /\ stage' # "idle"
  <2>1. /\ stage = "reading" /\ pages' = pages + 1
        /\ stage' = "deciding" \/ stage' = "reading"
    BY <1>3 DEF ReadPage, End
  <2>2. StepsLeft = MaxPages - pages + 1 /\ StepsLeft > 1
    BY <2>1, StepsBounded DEF StepsLeft
  <2>3. CASE stage' = "deciding"
    BY <1>1, <2>2, <2>3 DEF StepsLeft
  <2>4. CASE stage' = "reading"
    BY <1>1, <2>1, <2>2, <2>4 DEF StepsLeft
  <2> QED
    BY <2>1, <2>3, <2>4
<1>4. CASE ReadPage /\ stage' = "idle"
  BY <1>2, <1>4 DEF ReadPage
<1>5. CASE ReadFails \/ Decide
  BY <1>2, <1>5 DEF ReadFails, Decide, End
<1> QED
  BY <1>3, <1>4, <1>5 DEF VerifyStep

\* The reading of the directory ends, however the directory changes and even
\* if each page is empty (_fetch_credentials, max_pages).
THEOREM VerificationsShrink == IdentitySpec => VerificationShrinks
<1>1. IInv => StepsLeft \in 0..(MaxPages + 1)
  BY StepsBounded DEF IInv
<1>2. IInv /\ [IdentityNext]_vars =>
        [stage # "idle" => IF VerifyStep THEN StepsLeft' < StepsLeft
                           ELSE StepsLeft' = StepsLeft]_vars
  <2> SUFFICES ASSUME IInv, IdentityNext, stage # "idle"
               PROVE  IF VerifyStep THEN StepsLeft' < StepsLeft ELSE StepsLeft' = StepsLeft
    OBVIOUS
  <2>1. CASE VerifyStep
    BY <2>1, StepsShrink DEF IInv
  <2>2. CASE (DirectoryChange \/ Tick) /\ ~VerifyStep
    <3>1. stage' = stage /\ pages' = pages
      BY <2>2 DEF DirectoryChange, Tick, readVars
    <3>2. StepsLeft' = StepsLeft
      BY <3>1 DEF StepsLeft
    <3> QED
      BY <2>2, <3>2
  <2>3. ASSUME NEW request \in Requests, Verify(request) PROVE FALSE
    BY <2>3, Zenon DEF Verify
  <2> QED
    BY <2>1, <2>2, <2>3 DEF IdentityNext
<1> QED
  BY <1>1, <1>2, InitKeeps, StepKeeps, PTL DEF IdentitySpec, VerificationShrinks
=============================================================================
