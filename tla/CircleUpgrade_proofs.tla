-------------------------- MODULE CircleUpgrade_proofs --------------------------
(***************************************************************************)
(* What a migration of a circle keeps, for any voters, releases and order  *)
(* of proposals, votes and the migration: no ballot is lost or counted     *)
(* twice, and what was stored before can be read.                          *)
(***************************************************************************)
EXTENDS CircleUpgrade, FiniteSetTheorems, TLAPS

\* The releases that stored the old form are those that are migrated
AllMigrated == \A r \in Releases : r < MIGRATED_BELOW \/ r >= RENAMED

\* Addresses that voted on a proposal, and their ballots
ballots_of(id) == {b \in ballots : b.id = id}
voters_of(id) == {b.voter : b \in ballots_of(id)}

VersionOK ==
  /\ version \in Releases \union {CONTRACT_VERSION}
  /\ version \in Nat
  /\ version # CONTRACT_VERSION => version < MIGRATED_BELOW \/ version >= RENAMED

Stored == [form : {"weight", "points"}, total : {Cardinality(Voters)}, yes : Nat]
ProposalsOK ==
  /\ proposals \in Seq(Stored)
  /\ \A b \in ballots : b.id \in DOMAIN proposals /\ b.voter \in Voters

\* A proposal has as many Yes votes as ballots, and as many as voters
Tallied(p, B, V) ==
  /\ IsFiniteSet(B) /\ IsFiniteSet(V) /\ V \in SUBSET Voters
  /\ p.yes = Cardinality(B) /\ p.yes = Cardinality(V)

\* Everything is stored in the form of the running code
IInv ==
  /\ VersionOK /\ ProposalsOK
  /\ \A id \in DOMAIN proposals :
       /\ proposals[id].form = form
       /\ Tallied(proposals[id], ballots_of(id), voters_of(id))

-----------------------------------------------------------------------------
\* One more ballot, of somebody who has none yet.
LEMMA OneMore ==
  ASSUME NEW p, NEW q, NEW B, NEW V, Tallied(p, B, V), q.yes = p.yes + 1,
         NEW b, b \notin B, NEW a \in Voters, a \notin V
  PROVE  Tallied(q, B \union {b}, V \union {a})
<1>1. /\ IsFiniteSet(B \union {b}) /\ Cardinality(B \union {b}) = Cardinality(B) + 1
      /\ IsFiniteSet(V \union {a}) /\ Cardinality(V \union {a}) = Cardinality(V) + 1
  BY FS_AddElement DEF Tallied
<1> QED BY <1>1 DEF Tallied

LEMMA First ==
  ASSUME NEW p, p.yes = 1, NEW b, NEW a \in Voters
  PROVE  Tallied(p, {b}, {a})
BY FS_Singleton DEF Tallied

LEMMA InitHolds == AllMigrated /\ Init => IInv
<1> SUFFICES ASSUME AllMigrated, Init PROVE IInv
  OBVIOUS
<1>1. VersionOK
  BY UpgradeAssumption DEF Init, AllMigrated, VersionOK
<1>2. ProposalsOK /\ DOMAIN proposals = {}
  BY DEF Init, ProposalsOK
<1> QED BY <1>1, <1>2 DEF IInv

\* A ballot that is new to proposal id: the other proposals keep theirs.
LEMMA BallotAdded ==
  ASSUME NEW a, NEW id, ballots' = ballots \union {Ballot(id, a)}
  PROVE  /\ ballots_of(id)' = ballots_of(id) \union {Ballot(id, a)}
         /\ voters_of(id)' = voters_of(id) \union {a}
         /\ \A other : other # id =>
              ballots_of(other)' = ballots_of(other) /\ voters_of(other)' = voters_of(other)
<1>1. Ballot(id, a).id = id /\ Ballot(id, a).voter = a
  BY DEF Ballot
<1> HIDE DEF Ballot
<1>2. /\ ballots_of(id)' = ballots_of(id) \union {Ballot(id, a)}
      /\ \A other : other # id => ballots_of(other)' = ballots_of(other)
  BY <1>1 DEF ballots_of
<1>3. voters_of(id)' = voters_of(id) \union {a}
  BY <1>1, <1>2 DEF voters_of
<1> QED BY <1>2, <1>3 DEF voters_of

LEMMA ProposeKeeps ==
  ASSUME IInv, NEW a \in Voters, Propose(a)
  PROVE  IInv'
<1> PICK id, p : /\ id = Len(proposals) + 1
                 /\ p = [form |-> form, total |-> Cardinality(Voters), yes |-> 1]
  OBVIOUS
<1>1. /\ proposals' = Append(proposals, p) /\ version' = version
      /\ ballots' = ballots \union {Ballot(id, a)}
  BY DEF Propose
<1>2. form' = form /\ p \in Stored /\ p.form = form /\ p.yes = 1
  BY <1>1 DEF form, Stored
<1>3. /\ proposals' \in Seq(Stored) /\ DOMAIN proposals' = DOMAIN proposals \union {id}
      /\ id \notin DOMAIN proposals /\ proposals'[id] = p
      /\ \A other \in DOMAIN proposals : proposals'[other] = proposals[other]
  BY <1>1, <1>2 DEF IInv, ProposalsOK
<1>4. /\ ballots_of(id)' = ballots_of(id) \union {Ballot(id, a)}
      /\ voters_of(id)' = voters_of(id) \union {a}
      /\ \A other : other # id =>
           ballots_of(other)' = ballots_of(other) /\ voters_of(other)' = voters_of(other)
  BY <1>1, BallotAdded
<1>5. ballots_of(id) = {} /\ voters_of(id) = {}
  BY <1>3 DEF IInv, ProposalsOK, ballots_of, voters_of
<1>6. Tallied(p, ballots_of(id)', voters_of(id)')
  <2>1. ballots_of(id)' = {Ballot(id, a)} /\ voters_of(id)' = {a}
    BY <1>4, <1>5
  <2>2. Tallied(p, {Ballot(id, a)}, {a})
    BY <1>2, First
  <2> QED BY <2>1, <2>2
<1>7. ProposalsOK'
  BY <1>1, <1>3 DEF IInv, ProposalsOK, Ballot
<1>8. VersionOK'
  BY <1>1 DEF IInv, VersionOK
<1> QED BY <1>2, <1>3, <1>4, <1>6, <1>7, <1>8 DEF IInv

LEMMA VoteKeeps ==
  ASSUME IInv, NEW a \in Voters, NEW id \in DOMAIN proposals, Vote(a, id)
  PROVE  IInv'
<1> PICK p, q : p = proposals[id] /\ q = [p EXCEPT !.yes = @ + 1]
  OBVIOUS
<1>1. /\ proposals' = [proposals EXCEPT ![id] = q] /\ version' = version
      /\ ballots' = ballots \union {Ballot(id, a)}
      /\ \A b \in ballots : ~(b.id = id /\ b.voter = a)
  BY DEF Vote
<1>2. p \in Stored /\ Tallied(p, ballots_of(id), voters_of(id)) /\ p.form = form
  BY DEF IInv, ProposalsOK
<1>3. form' = form /\ q \in Stored /\ q.form = form /\ q.yes = p.yes + 1
  BY <1>1, <1>2 DEF form, Stored
<1>4. /\ proposals' \in Seq(Stored) /\ DOMAIN proposals' = DOMAIN proposals
      /\ proposals'[id] = q
      /\ \A other \in DOMAIN proposals : other # id => proposals'[other] = proposals[other]
  BY <1>1, <1>3 DEF IInv, ProposalsOK
<1>5. /\ ballots_of(id)' = ballots_of(id) \union {Ballot(id, a)}
      /\ voters_of(id)' = voters_of(id) \union {a}
      /\ \A other : other # id =>
           ballots_of(other)' = ballots_of(other) /\ voters_of(other)' = voters_of(other)
  BY <1>1, BallotAdded
<1>6. a \notin voters_of(id) /\ Ballot(id, a) \notin ballots_of(id)
  BY <1>1 DEF voters_of, ballots_of, Ballot
<1>7. Tallied(q, ballots_of(id)', voters_of(id)')
  <2> PICK B, V, b : B = ballots_of(id) /\ V = voters_of(id) /\ b = Ballot(id, a)
    OBVIOUS
  <2>1. Tallied(p, B, V) /\ q.yes = p.yes + 1 /\ b \notin B /\ a \notin V
    BY <1>2, <1>3, <1>6
  <2>2. Tallied(q, B \union {b}, V \union {a})
    BY <2>1, OneMore
  <2>3. ballots_of(id)' = B \union {b} /\ voters_of(id)' = V \union {a}
    BY <1>5
  <2> QED BY <2>2, <2>3
<1>8. ProposalsOK'
  BY <1>1, <1>4 DEF IInv, ProposalsOK, Ballot
<1>9. VersionOK'
  BY <1>1 DEF IInv, VersionOK
<1>10. \A other \in DOMAIN proposals' :
         /\ proposals'[other].form = form'
         /\ Tallied(proposals'[other], ballots_of(other)', voters_of(other)')
  <2> SUFFICES ASSUME NEW other \in DOMAIN proposals
               PROVE  /\ proposals'[other].form = form'
                      /\ Tallied(proposals'[other], ballots_of(other)', voters_of(other)')
    BY <1>4
  <2>1. CASE other = id
    BY <2>1, <1>3, <1>4, <1>7
  <2>2. CASE other # id
    <3>1. /\ proposals[other].form = form
          /\ Tallied(proposals[other], ballots_of(other), voters_of(other))
      BY DEF IInv
    <3>2. proposals'[other] = proposals[other] /\ form' = form
      BY <2>2, <1>3, <1>4
    <3>3. ballots_of(other)' = ballots_of(other) /\ voters_of(other)' = voters_of(other)
      BY <2>2, <1>5
    <3> QED BY <3>1, <3>2, <3>3
  <2> QED BY <2>1, <2>2
<1> QED BY <1>8, <1>9, <1>10 DEF IInv

\* The migration rewrites the proposals, if any has the old form.
LEMMA MigrateKeeps ==
  ASSUME IInv, Migrate
  PROVE  IInv'
<1>1. version' = CONTRACT_VERSION /\ ballots' = ballots /\ form' = "points"
  BY UpgradeAssumption DEF Migrate, form
<1>2. VersionOK'
  BY <1>1, UpgradeAssumption DEF VersionOK
<1>3. \A id : ballots_of(id)' = ballots_of(id) /\ voters_of(id)' = voters_of(id)
  BY <1>1 DEF ballots_of, voters_of
<1>4. /\ proposals' \in Seq(Stored) /\ DOMAIN proposals' = DOMAIN proposals
      /\ \A id \in DOMAIN proposals :
           proposals'[id].form = "points" /\ proposals'[id].yes = proposals[id].yes
  <2> PICK n : n = Len(proposals)
    OBVIOUS
  <2>1. n \in Nat /\ DOMAIN proposals = 1 .. n /\ \A id \in 1 .. n : proposals[id] \in Stored
    BY DEF IInv, ProposalsOK
  <2>2. CASE needs_update
    <3>1. proposals' = [id \in 1 .. n |-> update(proposals[id])]
      BY <2>1, <2>2 DEF Migrate, migrate_proposals
    <3>2. \A id \in 1 .. n : /\ update(proposals[id]) \in Stored
                             /\ update(proposals[id]).form = "points"
                             /\ update(proposals[id]).yes = proposals[id].yes
      BY <2>1 DEF update, Stored
    <3>3. proposals' \in Seq(Stored) /\ DOMAIN proposals' = 1 .. n
      BY <2>1, <3>1, <3>2
    <3> QED BY <2>1, <3>1, <3>2, <3>3
  <2>3. CASE ~needs_update
    <3>1. version >= RENAMED
      BY <2>3, UpgradeAssumption DEF IInv, VersionOK, needs_update
    <3>2. form = "points"
      BY <3>1, UpgradeAssumption DEF form, IInv, VersionOK
    <3>3. proposals' = proposals
      BY <2>3 DEF Migrate, migrate_proposals
    <3> QED BY <3>2, <3>3 DEF IInv, ProposalsOK
  <2> QED BY <2>2, <2>3
<1>5. ProposalsOK'
  BY <1>1, <1>4 DEF IInv, ProposalsOK
<1>6. \A id \in DOMAIN proposals' : Tallied(proposals'[id], ballots_of(id)', voters_of(id)')
  BY <1>3, <1>4 DEF IInv, Tallied
<1> QED BY <1>1, <1>2, <1>4, <1>5, <1>6 DEF IInv

LEMMA NextKeeps == IInv /\ [Next]_vars => IInv'
<1> SUFFICES ASSUME IInv, [Next]_vars PROVE IInv'
  OBVIOUS
<1>1. CASE UNCHANGED vars
  BY <1>1 DEF vars, IInv, VersionOK, ProposalsOK, form, ballots_of, voters_of
<1>2. CASE Next
  BY <1>2, ProposeKeeps, VoteKeeps, MigrateKeeps DEF Next
<1> QED BY <1>1, <1>2

\* A migrated circle reads all its proposals, and each counts the votes of before
\* and after, one of each voter and never more than its total, if every release
\* of the old form is one that migrate_proposals rewrites.
THEOREM TalliesKept ==
  ASSUME AllMigrated
  PROVE  Spec => []TallySurvives
<1>1. Init => IInv
  BY InitHolds
<1>2. IInv => TallySurvives
  <2> SUFFICES ASSUME IInv PROVE TallySurvives
    OBVIOUS
  <2>1. version = CONTRACT_VERSION => form = "points"
    BY UpgradeAssumption DEF form
  <2>2. ASSUME NEW id \in DOMAIN proposals
        PROVE  /\ proposals[id].yes = Cardinality({b \in ballots : b.id = id})
               /\ proposals[id].yes <= proposals[id].total
    <3>0. proposals[id] \in Stored
      BY DEF IInv, ProposalsOK
    <3>1. /\ Tallied(proposals[id], ballots_of(id), voters_of(id))
          /\ proposals[id].total = Cardinality(Voters)
      BY <3>0 DEF IInv, Stored
    <3>2. Cardinality(voters_of(id)) <= Cardinality(Voters)
      BY <3>1, UpgradeAssumption, FS_Subset DEF Tallied
    <3> QED BY <3>1, <3>2 DEF Tallied, ballots_of
  <2> QED BY <2>1, <2>2 DEF TallySurvives, IInv
<1> QED BY <1>1, <1>2, NextKeeps, PTL DEF Spec
=============================================================================
