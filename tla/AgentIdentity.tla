----------------------------- MODULE AgentIdentity -----------------------------
(***************************************************************************)
(* XrplAgentIdentityVerifier (policy/agent_identity.py): one verify() reads  *)
(* the Credential objects of a signer page by page, from a ledger that      *)
(* changes between the pages, and then decides on what it found.           *)
(*                                                                         *)
(* The owner directory holds at most one object per key.  A request for a   *)
(* page scans PageSize objects from its marker on and answers with those of *)
(* the requested type, hence a page may be empty and not the last one.     *)
(***************************************************************************)
EXTENDS Integers, FiniteSets, FiniteSetsExt

CONSTANTS
  Keys,        \* the places of the owner directory, in paging order
  Objects,     \* the objects that may be there
  Requests,    \* the (recognized_issuers, required_credential_type) asked for
  Signer,      \* signer_address
  PageSize,    \* objects the server scans for one page
  MaxPages,    \* max_pages
  MaxClock,    \* bound on the clock
  MaxChanges   \* bound on directory changes

ASSUME KeysAssumption == Keys \subseteq Nat \ {0} /\ IsFiniteSet(Keys)
ASSUME PagesAssumption == PageSize \in Nat \ {0} /\ MaxPages \in Nat \ {0}
ASSUME BoundAssumption == MaxClock \in Nat /\ MaxChanges \in Nat

\* Expiration is a UInt32 of the ledger; only a Credential may have one.
ASSUME ObjectsAssumption ==
  \A o \in Objects : o.kind = "Credential" /\ o.has_expiration => o.expiration \in Nat

VARIABLES
  stage,       \* "idle", "reading", "deciding"
  asked,       \* what the verification in progress, or the latest, requires
  marker,      \* where the next page starts; 0: at the beginning
  pages,       \* pages read
  found,       \* credentials held by the signer, on the pages read
  outcome,     \* "none", "accepted" or the reason of the refusal
  directory,   \* external: the owner directory of the signer
  clock,       \* the time, in seconds of the ripple epoch
  changes,     \* bound: directory changes so far
  stable,      \* history: keys whose object did not change since verify began
  seen_valid   \* history: a valid credential existed at some instant since

readVars  == <<marker, pages, found>>
worldVars == <<directory, clock, changes>>
history   == <<stable, seen_valid>>
vars      == <<stage, asked, readVars, outcome, worldVars, history>>

Absent == [kind |-> "absent"]

Present(k) == directory[k] # Absent

\* Mutant: a credential is taken for valid in its last second, and after it.
NeverExpired(c) == FALSE

\* CredentialDelete removes an entry; one without Expiration never expires.
Expired(c) == c.has_expiration /\ clock >= c.expiration

TypeMatches(c) == c.type = asked.type

IssuerRecognized(c) == c.issuer \in asked.issuers

Matching(c) == TypeMatches(c) /\ IssuerRecognized(c)

\* The Credential objects of which the signer is the Subject.
Held(o) == o.kind = "Credential" /\ o.subject = Signer

\* The ledger's own view, for the properties: a credential the signer holds,
\* and whether it is what was asked for and valid now.
Owned(o) == o.kind = "Credential" /\ o.subject = Signer

ValidNow ==
  \E k \in Keys :
    LET o == directory[k]
    IN  /\ Owned(o) /\ o.accepted
        /\ o.type = asked.type /\ o.issuer \in asked.issuers
        /\ o.has_expiration => clock < o.expiration

-----------------------------------------------------------------------------
IdentityInit ==
  /\ stage = "idle"
  /\ asked \in Requests
  /\ marker = 0 /\ pages = 0 /\ found = {}
  /\ outcome = "none"
  /\ directory \in [Keys -> Objects \cup {Absent}]
  /\ clock = 0
  /\ changes = 0
  /\ stable = {}
  /\ seen_valid = FALSE

End(result) ==
  /\ stage' = "idle"
  /\ outcome' = result

\* verify(): no recognized issuer never means any issuer, nor does no type
\* mean any type.
Verify(request) ==
  /\ stage = "idle"
  /\ asked' = request
  /\ UNCHANGED worldVars
  /\ IF request.issuers = {} \/ request.type = ""
     THEN End("not_configured")
     ELSE stage' = "reading" /\ outcome' = "none"
  /\ marker' = 0 /\ pages' = 0 /\ found' = {}
  /\ stable' = {k \in Keys : Present(k)}
  /\ seen_valid' = ValidNow'

\* The objects from the marker on, those of the page, and the first after it.
Ahead == {k \in Keys : Present(k) /\ k >= marker}

OnPage(k) == k \in Ahead /\ Cardinality({j \in Ahead : j < k}) < PageSize

AfterPage == {k \in Ahead : ~OnPage(k)}

\* Mutants: an empty page is taken for the last one; an empty page loses the
\* marker, and pages are not counted.
ReadPageStopsOnEmpty ==
  LET held == {j \in Ahead : OnPage(j) /\ Held(directory[j])}
  IN  /\ stage = "reading"
      /\ marker # 0 => Present(marker)
      /\ found' = found \cup {directory[k] : k \in held}
      /\ pages' = pages + 1
      /\ IF AfterPage = {} \/ held = {}
         THEN stage' = "deciding" /\ UNCHANGED <<marker, outcome>>
         ELSE IF pages' = MaxPages THEN End("too_many_pages") /\ UNCHANGED marker
         ELSE marker' = Min(AfterPage) /\ UNCHANGED <<stage, outcome>>
      /\ UNCHANGED <<asked, worldVars, history>>

ReadPageRestarts ==
  LET held == {j \in Ahead : OnPage(j) /\ Held(directory[j])}
  IN  /\ stage = "reading"
      /\ marker # 0 => Present(marker)
      /\ found' = found \cup {directory[k] : k \in held}
      /\ IF AfterPage = {} THEN stage' = "deciding" /\ UNCHANGED marker
         ELSE marker' = (IF held = {} THEN 0 ELSE Min(AfterPage)) /\ UNCHANGED stage
      /\ UNCHANGED <<pages, outcome, asked, worldVars, history>>

\* Mutant: the page limit is one page off.
ReadPageOneMore ==
  /\ stage = "reading"
  /\ marker # 0 => Present(marker)
  /\ found' = found \cup {directory[k] : k \in {j \in Ahead : OnPage(j) /\ Held(directory[j])}}
  /\ pages' = pages + 1
  /\ IF AfterPage = {} THEN stage' = "deciding" /\ UNCHANGED <<marker, outcome>>
     ELSE IF pages = MaxPages THEN End("too_many_pages") /\ UNCHANGED marker
     ELSE marker' = Min(AfterPage) /\ UNCHANGED <<stage, outcome>>
  /\ UNCHANGED <<asked, worldVars, history>>

\* One account_objects request of _fetch_credentials that succeeds; a missing
\* marker ends the reading, an empty page does not.
ReadPage ==
  /\ stage = "reading"
  /\ marker # 0 => Present(marker)
  /\ found' = found \cup {directory[k] : k \in {j \in Ahead : OnPage(j) /\ Held(directory[j])}}
  /\ pages' = pages + 1
  /\ IF AfterPage = {} THEN stage' = "deciding" /\ UNCHANGED <<marker, outcome>>
     ELSE IF pages' = MaxPages THEN End("too_many_pages") /\ UNCHANGED marker
     ELSE marker' = Min(AfterPage) /\ UNCHANGED <<stage, outcome>>
  /\ UNCHANGED <<asked, worldVars, history>>

\* The request fails, the account does not exist, or the object the marker
\* names is gone: refused.
ReadFails ==
  /\ stage = "reading"
  /\ End("read_failed")
  /\ UNCHANGED <<asked, readVars, worldVars, history>>

\* _refusal_reason: the most specific near miss.
RefusalReason ==
  LET matching == {c \in found : Matching(c)}
  IN  IF \E c \in matching : ~c.accepted THEN "not_accepted"
      ELSE IF \E c \in matching : Expired(c) THEN "expired"
      ELSE IF \E c \in found : TypeMatches(c) THEN "untrusted_issuer"
      ELSE IF \E c \in found : IssuerRecognized(c) THEN "wrong_type"
      ELSE "absent"

Decide ==
  /\ stage = "deciding"
  /\ IF \E c \in found : Matching(c) /\ c.accepted /\ ~Expired(c)
     THEN End("accepted")
     ELSE End(RefusalReason)
  /\ UNCHANGED <<asked, readVars, worldVars, history>>

VerifyStep == ReadPage \/ ReadFails \/ Decide

-----------------------------------------------------------------------------
\* External: an object is created, changed or deleted, or time passes.
DirectoryChange ==
  /\ changes < MaxChanges
  /\ changes' = changes + 1
  /\ \E k \in Keys : \E o \in (Objects \cup {Absent}) \ {directory[k]} :
       /\ directory' = [directory EXCEPT ![k] = o]
       /\ stable' = stable \ {k}
  /\ UNCHANGED <<stage, asked, readVars, outcome, clock>>
  /\ seen_valid' = (seen_valid \/ ValidNow')

Tick ==
  /\ clock < MaxClock
  /\ clock' = clock + 1
  /\ UNCHANGED <<stage, asked, readVars, outcome, directory, changes, history>>

IdentityNext ==
  \/ \E request \in Requests : Verify(request)
  \/ VerifyStep
  \/ DirectoryChange
  \/ Tick

IdentitySpec == IdentityInit /\ [][IdentityNext]_vars

\* Every request has a timeout, so a verification in progress takes steps.
FairIdentitySpec == IdentitySpec /\ WF_vars(VerifyStep)

-----------------------------------------------------------------------------
Reasons == {"not_configured", "too_many_pages", "read_failed", "not_accepted",
            "expired", "untrusted_issuer", "wrong_type", "absent"}

\* Type invariant; a verification never reads more than MaxPages pages.
IdentityTypeOK ==
  /\ stage \in {"idle", "reading", "deciding"}
  /\ asked \in Requests
  /\ marker \in Keys \cup {0}
  /\ pages \in 0..MaxPages
  /\ stage = "reading" => pages < MaxPages
  /\ found \in SUBSET Objects
  /\ outcome \in {"none", "accepted"} \cup Reasons
  /\ directory \in [Keys -> Objects \cup {Absent}]
  /\ clock \in 0..MaxClock
  /\ changes \in 0..MaxChanges
  /\ stable \in SUBSET Keys
  /\ seen_valid \in BOOLEAN

\* Soundness (verify, _fetch_credentials): a signer is accepted only if, at
\* one instant since the verification began, the ledger held a credential of
\* the signer of the required type from a recognized issuer that was accepted
\* and not expired, although the pages were read at different instants.
AcceptSound == outcome = "accepted" => seen_valid

\* A credential of the signer the ledger held unchanged since verify began.
Steady == {directory[k] : k \in {j \in stable : Owned(directory[j])}}

\* Completeness (_fetch_credentials, _refusal_reason): a decision is never
\* taken on part of the directory.  Whatever changes around it between two
\* pages, a credential that stayed put is found; so a refusal for a defect
\* of the credentials means none of those was valid when it was decided, and
\* "absent" that none of them was even of the required type or issuer.
DecidedOnAll ==
  /\ [](stage = "deciding" => Steady \subseteq found)
  /\ [][ Decide =>
         /\ outcome' # "accepted" =>
              \A c \in Steady :
                c.type = asked.type /\ c.issuer \in asked.issuers =>
                  ~c.accepted \/ (c.has_expiration /\ clock >= c.expiration)
         /\ outcome' = "absent" =>
              \A c \in Steady :
                c.type # asked.type /\ c.issuer \notin asked.issuers ]_vars

\* Every verification ends, however the directory changes between pages.
VerificationEnds == stage # "idle" ~> stage = "idle"
=============================================================================
