----------------------------- MODULE GatedSigning -----------------------------
(***************************************************************************)
(* What the co-signer promises, with no word on how: a signature leaves it  *)
(* only for the request it is working on, only after every gate passed      *)
(* since that request was made, and at most once per request.               *)
(***************************************************************************)
EXTENDS Naturals

CONSTANTS
  Requests,   \* what may be asked for
  Gates,      \* the approvals a release needs
  NoRequest   \* no request is being worked on

VARIABLES
  request,    \* the request being worked on
  passed,     \* the gates it has passed
  released    \* how many signatures have been released for each request

gatedVars == <<request, passed, released>>

GatedInit ==
  /\ request = NoRequest
  /\ passed = {}
  /\ released = [r \in Requests |-> 0]

Ask(r) ==
  /\ request = NoRequest
  /\ request' = r
  /\ passed' = {}
  /\ UNCHANGED released

Pass(g) ==
  /\ request # NoRequest
  /\ passed' = passed \cup {g}
  /\ UNCHANGED <<request, released>>

\* A request is dropped, at any moment and for any reason.
Drop ==
  /\ request # NoRequest
  /\ request' = NoRequest
  /\ passed' = {}
  /\ UNCHANGED released

Release ==
  /\ request # NoRequest
  /\ passed = Gates
  /\ released' = [released EXCEPT ![request] = @ + 1]
  /\ request' = NoRequest
  /\ passed' = {}

GatedNext ==
  \/ \E r \in Requests : Ask(r)
  \/ \E g \in Gates : Pass(g)
  \/ Drop
  \/ Release

GatedSpec == GatedInit /\ [][GatedNext]_gatedVars
=============================================================================
