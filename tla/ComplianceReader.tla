--------------------------- MODULE ComplianceReader ---------------------------
(***************************************************************************)
(* XrplComplianceReader.resolve (policy/ledger_reader.py): the RWA context   *)
(* of an MPT transfer is put together from several ledger_entry requests,   *)
(* one after the other, while the ledger moves on; RwaComplianceRule then   *)
(* judges a context that no single ledger may ever have shown.             *)
(*                                                                         *)
(* A credential has two spellings: the program's, a pair of issuer and text  *)
(* type, in which rwa_required_credentials is written and contexts are       *)
(* judged; and the ledger's, whose type is arbitrary bytes.                  *)
(***************************************************************************)
EXTENDS Policy, Sequences, SequencesExt

CONSTANTS
  Encoded,       \* [the program's credentials -> the ledger's]: text to UTF-8
  Spelled,       \* [the ledger's credentials whose type is no UTF-8 -> the
                 \*  program's]: the hex digits of the type, read as a text
  Required,      \* rwa_required_credentials, in the order they are read
  HasDomain,     \* whether rwa_domain_id is configured
  DomainLists,   \* the AcceptedCredentials lists the domain may have
  Issuances,     \* the flags the issuance may have
  ToIssuer,      \* whether the destination is the issuer
  MaxClock,      \* bound on the clock
  MaxChanges     \* bound on ledger changes

ASSUME DomainAssumption == HasDomain \in BOOLEAN /\ ToIssuer \in BOOLEAN

VARIABLES
  stage,         \* the next read of resolve(); "idle" when none is in progress
  pending,       \* credentials still to be read at this stage, the program's
  rwa,           \* the context put together so far
  outcome,       \* "none", "resolved", or "raised" for ComplianceReadError
  issuance,      \* external: the MPTokenIssuance's flags
  mptoken,       \* external: the destination's MPToken and its lsfMPTAuthorized
  credentials,   \* external: the destination's Credential objects, by the ledger's
  domain,        \* external: what the permissioned domain accepts
  clock,         \* the time, in seconds of the ripple epoch
  changes,       \* bound: ledger changes so far
  seen,          \* history: facts that held at some instant of the call
  steady         \* history: facts that held at every instant of the call

readVars   == <<stage, pending, rwa, outcome>>
ledgerVars == <<issuance, mptoken, credentials, domain>>
history    == <<seen, steady>>
vars       == <<readVars, ledgerVars, clock, changes, history>>

RequiredSet == ToSet(Required)

Texts    == DOMAIN Encoded
Blobs    == DOMAIN Spelled
Readable == Range(Encoded) \cup Blobs

\* UTF-8 encodes two texts differently, and what is not UTF-8 encodes none.
ASSUME EncodingAssumption ==
  /\ IsInjective(Encoded)
  /\ Range(Encoded) \cap Blobs = {}
  /\ Spelled \in [Blobs -> Texts]

\* What is required is a list of the program's credentials, what a domain
\* accepts a list of the ledger's.
ASSUME ListsAssumption ==
  /\ Required \in Seq(Texts)
  /\ \A list \in DomainLists : list \in Seq(Readable)

\* lsfMPTRequireAuth, lsfMPTCanTransfer and lsfMPTCanClawback are bits of Flags.
ASSUME IssuancesAssumption ==
  \A i \in Issuances :
    /\ i.require_auth \in BOOLEAN /\ i.can_transfer \in BOOLEAN
    /\ i.can_clawback \in BOOLEAN

\* A credential is absent, issued, accepted, or accepted until second 1.
CredentialStates == {"absent", "issued", "accepted", "expiring"}
Expiration == 1

Blank ==
  [is_rwa |-> TRUE, requires_authorization |-> FALSE,
   destination_authorized |-> "unknown", transfer_disabled |-> FALSE,
   destination_is_issuer |-> FALSE, required_credentials |-> {},
   destination_credentials |-> {}, has_domain |-> FALSE,
   destination_in_domain |-> "unknown", clawback_enabled |-> FALSE]

-----------------------------------------------------------------------------
\* _credential_type_to_hex: what is asked of the ledger for c.
CredentialTypeToHex(c) == Encoded[c]

\* _credential_type_from_hex: the text that x encodes, or its hex digits.
CredentialTypeFromHex(x) ==
  IF x \in Blobs THEN Spelled[x] ELSE AntiFunction(Encoded)[x]

-----------------------------------------------------------------------------
\* The facts a compliant transfer rests on, as the ledger holds them now.
FactsNow ==
  (UNION { When(mptoken = "authorized", <<"authorized">>),
           When(~issuance.require_auth, <<"needs no authorization">>),
           When(issuance.can_transfer, <<"transferable">>),
           When(~issuance.can_clawback, <<"no clawback">>) })
  \cup {<<"holds", c>> : c \in {x \in Readable :
          \/ credentials[x] = "accepted"
          \/ credentials[x] = "expiring" /\ clock < Expiration}}
  \cup {<<"accepts", c>> : c \in ToSet(domain)}

Observe ==
  IF stage = "idle" THEN UNCHANGED history
  ELSE /\ seen' = seen \cup FactsNow'
       /\ steady' = steady \cap FactsNow'

ReaderInit ==
  /\ stage = "idle" /\ pending = <<>> /\ rwa = Blank /\ outcome = "none"
  /\ issuance \in Issuances
  /\ mptoken \in {"absent", "held", "authorized"}
  /\ credentials \in [Readable -> CredentialStates]
  /\ domain \in DomainLists
  /\ clock = 0
  /\ changes = 0
  /\ seen = {} /\ steady = {}

\* resolve(mpt_issuance_id, destination)
Resolve ==
  /\ stage = "idle"
  /\ stage' = "issuance"
  /\ pending' = <<>>
  /\ rwa' = Blank
  /\ outcome' = "none"
  /\ seen' = FactsNow
  /\ steady' = FactsNow
  /\ UNCHANGED <<ledgerVars, clock, changes>>

\* What is left once a read is done.
Proceed(stage1, pending1, rwa1) ==
  /\ stage' = stage1
  /\ pending' = pending1
  /\ rwa' = rwa1
  /\ outcome' = IF stage1 = "idle" THEN "resolved" ELSE outcome
  /\ UNCHANGED <<ledgerVars, clock, changes, history>>

\* _get_mpt_issuance, and the flags it shows.
ReadIssuance ==
  /\ stage = "issuance"
  /\ Proceed("mptoken", <<>>,
       [rwa EXCEPT !.requires_authorization = issuance.require_auth,
                   !.transfer_disabled = ~issuance.can_transfer,
                   !.clawback_enabled = issuance.can_clawback,
                   !.destination_is_issuer = ToIssuer,
                   !.required_credentials = RequiredSet,
                   !.has_domain = HasDomain])

\* _get_destination_authorized: no MPToken is a "no", not a failure.
ReadMPToken ==
  /\ stage = "mptoken"
  /\ Proceed("required", Required,
       [rwa EXCEPT !.destination_authorized =
                     IF mptoken = "authorized" THEN "yes" ELSE "no"])

\* Mutants: issued is as good as accepted; an expiry is as good as expired.
HoldsIssued(c) == credentials[CredentialTypeToHex(c)] # "absent"

HoldsForever(c) == credentials[CredentialTypeToHex(c)] = "accepted"

\* _holds_credential: accepted by the subject, and not expired.
HoldsCredential(c) ==
  LET held == credentials[CredentialTypeToHex(c)]
  IN  /\ held \in {"accepted", "expiring"}
      /\ held = "expiring" => clock < Expiration

\* One required credential, in order.
ReadRequired ==
  /\ stage = "required"
  /\ pending # <<>>
  /\ Proceed("required", Tail(pending),
       IF HoldsCredential(Head(pending))
       THEN [rwa EXCEPT !.destination_credentials = @ \cup {Head(pending)}]
       ELSE rwa)

FinishRequired ==
  /\ stage = "required"
  /\ pending = <<>>
  /\ Proceed(IF HasDomain THEN "domain" ELSE "idle", <<>>, rwa)

\* _get_domain_accepted_credentials, in the program's spelling.
ReadDomain ==
  /\ stage = "domain"
  /\ Proceed("members", [i \in DOMAIN domain |-> CredentialTypeFromHex(domain[i])], rwa)

\* any(): the first accepted credential the destination holds settles it.
ReadMembership ==
  /\ stage = "members"
  /\ IF pending = <<>> THEN Proceed("idle", <<>>, [rwa EXCEPT !.destination_in_domain = "no"])
     ELSE IF HoldsCredential(Head(pending))
     THEN Proceed("idle", <<>>, [rwa EXCEPT !.destination_in_domain = "yes"])
     ELSE Proceed("members", Tail(pending), rwa)

\* Any read may fail, or not find an object it must find.
ReadFails ==
  /\ stage # "idle"
  /\ ~(stage \in {"required", "members"} /\ pending = <<>>)
  /\ stage' = "idle"
  /\ outcome' = "raised"
  /\ UNCHANGED <<pending, rwa, ledgerVars, clock, changes, history>>

ReadStep ==
  \/ ReadIssuance \/ ReadMPToken \/ ReadRequired \/ FinishRequired
  \/ ReadDomain \/ ReadMembership \/ ReadFails

-----------------------------------------------------------------------------
\* External: the issuer, the destination, a credential issuer or the owner of
\* the domain changes an object; time passes.
LedgerChange ==
  /\ changes < MaxChanges
  /\ changes' = changes + 1
  /\ \/ /\ issuance' \in Issuances \ {issuance}
        /\ UNCHANGED <<mptoken, credentials, domain>>
     \/ /\ mptoken' \in {"absent", "held", "authorized"} \ {mptoken}
        /\ UNCHANGED <<issuance, credentials, domain>>
     \/ /\ \E c \in Readable, to \in CredentialStates :
             /\ to # credentials[c]
             /\ credentials' = [credentials EXCEPT ![c] = to]
        /\ UNCHANGED <<issuance, mptoken, domain>>
     \/ /\ domain' \in DomainLists \ {domain}
        /\ UNCHANGED <<issuance, mptoken, credentials>>
  /\ UNCHANGED <<readVars, clock>>
  /\ Observe

Tick ==
  /\ clock < MaxClock
  /\ clock' = clock + 1
  /\ UNCHANGED <<readVars, ledgerVars, changes>>
  /\ Observe

ReaderNext == Resolve \/ ReadStep \/ LedgerChange \/ Tick

ReaderSpec == ReaderInit /\ [][ReaderNext]_vars

-----------------------------------------------------------------------------
Held(x, facts)     == <<"holds", x>> \in facts
Accepted(x, facts) == <<"accepts", x>> \in facts

\* The destination has a credential that the domain accepts.
Member(x, facts) == Accepted(x, facts) /\ Held(x, facts)

\* The one exception: the domain accepts a type that is no UTF-8, and the
\* destination has the credential whose type is the text of its hex digits.
MistakenMember(x, facts) ==
  /\ x \in Blobs
  /\ Accepted(x, facts)
  /\ Held(CredentialTypeToHex(Spelled[x]), facts)

\* Soundness (resolve, RwaComplianceRule.evaluate): a context without any
\* finding rests on facts each of which the ledger held at some instant of
\* the call, although the reads were not made on one ledger: the holder was
\* authorized if it had to be, every required credential was held, accepted
\* and unexpired, and so was one that the domain accepted, or one mistaken
\* for an accepted one because of its spelling.
CompliantOnLiveFacts ==
  outcome = "resolved" /\ RwaFindings(rwa) = {} =>
    /\ seen \cap {<<"authorized">>, <<"needs no authorization">>} # {}
    /\ ToIssuer \/ <<"transferable">> \in seen
    /\ <<"no clawback">> \in seen
    /\ \A c \in RequiredSet : Held(CredentialTypeToHex(c), seen)
    /\ HasDomain => \E x \in Readable : Member(x, seen) \/ MistakenMember(x, seen)

\* Completeness (resolve): a destination that satisfies a requirement during
\* the whole call is never found to miss it, whatever else changes.  A domain
\* is satisfied with a text type only: one that is no UTF-8 is never asked for.
SteadyFactsRecognised ==
  outcome = "resolved" =>
    LET missed == RwaFindings(rwa)
    IN  /\ steady \cap {<<"authorized">>, <<"needs no authorization">>} # {} =>
             "rwa_destination_not_authorized" \notin missed
        /\ (\A c \in RequiredSet : Held(CredentialTypeToHex(c), steady)) =>
             "rwa_missing_required_credential" \notin missed
        /\ (\E x \in Range(Encoded) : Member(x, steady)) =>
             "rwa_destination_outside_permissioned_domain" \notin missed

\* What _credential_type_from_hex says of its fallback (ledger_reader.py:103):
\* it "will not equality-match a plain-string requirement, which is the safe
\* failure mode (treated as a different/unknown credential)".  Then whoever is
\* found inside a domain had a credential that it accepts.
FallbackFailsSafe ==
  outcome = "resolved" /\ rwa.destination_in_domain = "yes" =>
    \E x \in Readable : Member(x, seen)
=============================================================================
