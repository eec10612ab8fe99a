------------------------------ MODULE CircleUpgrade ------------------------------
(***************************************************************************)
(* migrate of tgrade-trusted-circle: a contract that ran an earlier        *)
(* release, with the proposals and ballots that release stored, gets this  *)
(* code.  Releases before RENAMED store the points of a proposal as        *)
(* total_weight and those of a ballot as weight; this code reads           *)
(* total_points and points, and fails on what it cannot read.              *)
(***************************************************************************)
EXTENDS Integers, Sequences, FiniteSets

CONSTANTS
  Voters,            \* addresses with a point
  Releases,          \* releases that may have been running, in their order
  RENAMED,           \* 0.6.0-beta2, the first release with the new names
  MIGRATED_BELOW,    \* 0.6.0-beta1, the version that migrate_proposals asks for
  CONTRACT_VERSION,  \* this code
  MaxProposals       \* bound: proposals made

VARIABLES
  version,    \* the version stored with the contract
  proposals,  \* PROPOSALS: the form of each, its total and its Yes votes
  ballots     \* BALLOTS: the form of each

vars == <<version, proposals, ballots>>

ASSUME UpgradeAssumption ==
  /\ IsFiniteSet(Voters)
  /\ Releases \subseteq Nat /\ RENAMED \in Nat /\ MIGRATED_BELOW \in Nat
  /\ CONTRACT_VERSION \in Nat /\ \A r \in Releases : r < CONTRACT_VERSION
  /\ RENAMED <= CONTRACT_VERSION

\* The names under which a release stores points
form == IF version < RENAMED THEN "weight" ELSE "points"

Init == version \in Releases /\ proposals = << >> /\ ballots = {}

-----------------------------------------------------------------------------
\* Proposals are made and voted on before and after the upgrade

Ballot(id, a) == [id |-> id, voter |-> a, form |-> form]

Propose(a) ==
  LET id == Len(proposals) + 1
  IN /\ Len(proposals) < MaxProposals
     /\ proposals' = Append(proposals,
          [form |-> form, total |-> Cardinality(Voters), yes |-> 1])
     /\ ballots' = ballots \union {Ballot(id, a)}
     /\ UNCHANGED version

\* A ballot of either form forbids another: of the old one, as it cannot be read
Vote(a, id) ==
  /\ proposals[id].form = form
  /\ \A b \in ballots : ~(b.id = id /\ b.voter = a)
  /\ proposals' = [proposals EXCEPT ![id].yes = @ + 1]
  /\ ballots' = ballots \union {Ballot(id, a)}
  /\ UNCHANGED version

\* migrate: ballots are left as they are, proposals too from MIGRATED_BELOW on
needs_update == version < MIGRATED_BELOW
update_recounted(prop) ==   \* mutant: the tally starts again
  [prop EXCEPT !.form = "points", !.yes = 0]
update(prop) == [prop EXCEPT !.form = "points"]

migrate_proposals ==
  IF needs_update THEN [id \in DOMAIN proposals |-> update(proposals[id])]
                  ELSE proposals
Migrate ==
  /\ version <= CONTRACT_VERSION
  /\ needs_update => \A id \in DOMAIN proposals : proposals[id].form = "weight"
  /\ proposals' = migrate_proposals
  /\ version' = CONTRACT_VERSION
  /\ UNCHANGED ballots

Next ==
  \/ \E a \in Voters :
       \/ Propose(a)
       \/ \E id \in DOMAIN proposals : Vote(a, id)
  \/ Migrate

Spec == Init /\ [][Next]_vars

-----------------------------------------------------------------------------
\* After the upgrade every proposal of these releases can be read, and its tally
\* counts the votes cast before and after, although ballots keep the form they
\* were stored in and nobody can vote again.
TallySurvives ==
  /\ version = CONTRACT_VERSION =>
       \A id \in DOMAIN proposals : proposals[id].form = "points"
  /\ \A id \in DOMAIN proposals :
       /\ proposals[id].yes = Cardinality({b \in ballots : b.id = id})
       /\ proposals[id].yes <= proposals[id].total
=============================================================================
