-------------------------- MODULE TrustedCircle_proofs --------------------------
(***************************************************************************)
(* What the helpers of Membership preserve; on top of it the inductive     *)
(* invariant of TrustedCircle, along its actions; and what follows for     *)
(* what a circle decides and whom it lets in: a proposal is decided once,  *)
(* frozen rules stay, nobody gets in who is denied and no contract gets a  *)
(* vote, and what passed keeps its quorum and threshold.                   *)
(***************************************************************************)
EXTENDS TrustedCircle, SequenceTheorems, Collections_proofs

-----------------------------------------------------------------------------
\* What the helpers of Membership preserve.  MembersOK ties points and total to
\* the statuses of a store, StoreOK adds the types of the batches

StoreFields == {"escrows", "points", "changelog", "total", "batches", "distribution"}

Points == {ABSENT, 0, VOTING_POINTS}
points_of(status) ==
  IF status = "None" THEN ABSENT ELSE IF status = "Voting" THEN VOTING_POINTS ELSE 0

\* Snapshots hold points, at heights
LogOK(log) ==
  \A x \in Addr : /\ DOMAIN log[x] \subseteq Nat
                  /\ \A h \in DOMAIN log[x] : log[x][h] \in Points

\* The statuses decide the points, and the total
MembersOK(s) ==
  /\ DOMAIN s = StoreFields
  /\ s.escrows \in [Addr -> EscrowStatus]
  /\ s.points \in [Addr -> Points]
  /\ \A x \in Addr : s.points[x] = points_of(s.escrows[x].status)
  /\ s.total = Cardinality(WithStatus(s, "Voting"))
  /\ LogOK(s.changelog)

-----------------------------------------------------------------------------
\* Any set of addresses is finite, and disjoint ones add up.
LEMMA AddrSubsets ==
  ASSUME NEW A \in SUBSET Addr
  PROVE  IsFiniteSet(A) /\ Cardinality(A) \in Nat
BY AddrAssumption, FS_Subset, FS_CardinalityType

LEMMA DisjointSum ==
  ASSUME NEW A \in SUBSET Addr, NEW B \in SUBSET Addr, A \cap B = {}
  PROVE  Cardinality(A \cup B) = Cardinality(A) + Cardinality(B)
<1>1. Cardinality(A \cup B) = Cardinality(A) + Cardinality(B) - Cardinality(A \cap B)
  BY AddrSubsets, FS_Union
<1>2. Cardinality(A) \in Nat /\ Cardinality(B) \in Nat
  BY AddrSubsets
<1>3. Cardinality(A \cap B) = 0
  BY FS_EmptySet
<1> QED BY <1>1, <1>2, <1>3

LEMMA SubsetDifference ==
  ASSUME NEW A \in SUBSET Addr, NEW B \in SUBSET A
  PROVE  Cardinality(A \ B) = Cardinality(A) - Cardinality(B)
<1>1. /\ A \ B \in SUBSET Addr /\ B \in SUBSET Addr
      /\ (A \ B) \cap B = {} /\ (A \ B) \cup B = A
  OBVIOUS
<1>2. Cardinality(A) = Cardinality(A \ B) + Cardinality(B)
  BY <1>1, DisjointSum
<1>3. Cardinality(A \ B) \in Nat /\ Cardinality(B) \in Nat
  BY <1>1, AddrSubsets
<1> QED BY <1>2, <1>3

-----------------------------------------------------------------------------
\* Become changes the status fields of an escrow and keeps the amount.
LEMMA BecomeEscrow ==
  ASSUME NEW e \in EscrowStatus, NEW status \in MemberStatus, NEW id \in Nat, NEW claim \in Nat
  PROVE  /\ Become(e, status, id, claim) \in EscrowStatus
         /\ Become(e, status, id, claim).status = status
         /\ Become(e, status, id, claim).proposal_id = id
         /\ Become(e, status, id, claim).claim_at = claim
         /\ Become(e, status, id, claim).paid = e.paid
BY DEF EscrowStatus, Become

\* The changelog of save_points keeps points, and heights.
LEMMA LoggedPoints ==
  ASSUME NEW s, MembersOK(s), NEW A, NEW h \in Nat
  PROVE  LogOK([x \in Addr |-> IF x \in A THEN record_change(s.changelog[x], h, s.points[x])
                                        ELSE s.changelog[x]])
<1> DEFINE log == [x \in Addr |-> IF x \in A THEN record_change(s.changelog[x], h, s.points[x])
                                           ELSE s.changelog[x]]
<1> SUFFICES ASSUME NEW x \in Addr
             PROVE  DOMAIN log[x] \subseteq Nat /\ \A k \in DOMAIN log[x] : log[x][k] \in Points
  BY DEF LogOK
<1>1. /\ DOMAIN s.changelog[x] \subseteq Nat
      /\ \A k \in DOMAIN s.changelog[x] : s.changelog[x][k] \in Points
      /\ s.points[x] \in Points
  BY DEF MembersOK, LogOK
<1>2. CASE x \in A
  BY <1>1, <1>2 DEF record_change
<1>3. CASE x \notin A
  BY <1>1, <1>3
<1> QED BY <1>2, <1>3

\* promote: a set of paid pending members all become voters, each counted once.
LEMMA PromoteMembers ==
  ASSUME NEW s, MembersOK(s), NEW A \in SUBSET WithStatus(s, "PendingPaid"), NEW h \in Nat
  PROVE  /\ MembersOK(promote(s, A, h))
         /\ promote(s, A, h).batches = s.batches
         /\ promote(s, A, h).escrows = [x \in Addr |->
              IF x \in A THEN Become(s.escrows[x], "Voting", 0, 0) ELSE s.escrows[x]]
<1> DEFINE t == promote(s, A, h)
<1>1. /\ DOMAIN t = StoreFields
      /\ t.escrows = [x \in Addr |-> IF x \in A THEN Become(s.escrows[x], "Voting", 0, 0)
                                               ELSE s.escrows[x]]
      /\ t.points = [x \in Addr |-> IF x \in A THEN VOTING_POINTS ELSE s.points[x]]
      /\ t.total = s.total + VOTING_POINTS * Cardinality(A)
      /\ t.batches = s.batches
      /\ t.changelog = [x \in Addr |-> IF x \in A
                          THEN record_change(s.changelog[x], h, s.points[x])
                          ELSE s.changelog[x]]
  BY DEF MembersOK, StoreFields, promote, save_points, set_status
<1> HIDE DEF t
<1>2. A \subseteq Addr /\ WithStatus(s, "Voting") \subseteq Addr
  BY DEF WithStatus
<1>3. \A x \in Addr : s.escrows[x] \in EscrowStatus
  BY DEF MembersOK
<1>4. \A x \in A : /\ Become(s.escrows[x], "Voting", 0, 0) \in EscrowStatus
                   /\ Become(s.escrows[x], "Voting", 0, 0).status = "Voting"
  <2>1. "Voting" \in MemberStatus /\ 0 \in Nat
    BY DEF MemberStatus
  <2> QED BY <2>1, <1>2, <1>3, BecomeEscrow
<1>5. t.escrows \in [Addr -> EscrowStatus]
  BY <1>1, <1>3, <1>4
<1>6. \A x \in Addr : t.escrows[x].status = IF x \in A THEN "Voting" ELSE s.escrows[x].status
  BY <1>1, <1>4
<1>7. WithStatus(t, "Voting") = WithStatus(s, "Voting") \cup A
  BY <1>2, <1>6 DEF WithStatus
<1>8. WithStatus(s, "Voting") \cap A = {}
  BY DEF WithStatus
<1>9. t.total = Cardinality(WithStatus(t, "Voting"))
  <2>1. s.total = Cardinality(WithStatus(s, "Voting"))
    BY DEF MembersOK
  <2>2. Cardinality(A) \in Nat
    BY <1>2, AddrSubsets
  <2> QED BY <2>1, <2>2, <1>1, <1>2, <1>7, <1>8, DisjointSum DEF VOTING_POINTS
<1>10. \A x \in Addr : t.points[x] = points_of(t.escrows[x].status)
  <2>1. \A x \in Addr : s.points[x] = points_of(s.escrows[x].status)
    BY DEF MembersOK
  <2> QED BY <2>1, <1>1, <1>6 DEF points_of
<1>11. t.points \in [Addr -> Points]
  BY <1>1 DEF MembersOK, Points
<1>20. LogOK(t.changelog)
  BY <1>1, LoggedPoints
<1>12. MembersOK(t)
  BY <1>20, <1>1, <1>5, <1>9, <1>10, <1>11 DEF MembersOK
<1> QED BY <1>1, <1>12 DEF t

\* strip_points followed by a new status for a set A of members that includes
\* the stripped voters V: a demotion or a leave, each lost voter counted once.
LEMMA DemoteMembers ==
  ASSUME NEW s, MembersOK(s), NEW A \in SUBSET Members(s), NEW V,
         V = A \cap WithStatus(s, "Voting"), NEW h \in Nat,
         NEW status \in {"Pending", "Leaving"}, NEW id \in Nat, NEW claim \in Nat
  PROVE  MembersOK(set_status(strip_points(s, V, h), A, status, id, claim))
<1> DEFINE t == set_status(strip_points(s, V, h), A, status, id, claim)
<1>1. /\ DOMAIN t = StoreFields
      /\ t.escrows = [x \in Addr |-> IF x \in A THEN Become(s.escrows[x], status, id, claim)
                                               ELSE s.escrows[x]]
      /\ t.points = [x \in Addr |-> IF x \in V THEN 0 ELSE s.points[x]]
      /\ t.total = s.total - VOTING_POINTS * Cardinality(V)
      /\ t.changelog = [x \in Addr |-> IF x \in V
                          THEN record_change(s.changelog[x], h, s.points[x])
                          ELSE s.changelog[x]]
  BY DEF MembersOK, StoreFields, strip_points, save_points, set_status
<1> HIDE DEF t
<1>2. A \subseteq Addr /\ WithStatus(s, "Voting") \subseteq Addr /\ V \subseteq Addr
  BY DEF WithStatus, Members
<1>3. \A x \in Addr : s.escrows[x] \in EscrowStatus
  BY DEF MembersOK
<1>4. \A x \in A : /\ Become(s.escrows[x], status, id, claim) \in EscrowStatus
                   /\ Become(s.escrows[x], status, id, claim).status = status
  <2>1. status \in MemberStatus
    BY DEF MemberStatus
  <2> QED BY <2>1, <1>2, <1>3, BecomeEscrow
<1>5. t.escrows \in [Addr -> EscrowStatus]
  BY <1>1, <1>3, <1>4
<1>6. \A x \in Addr : t.escrows[x].status = IF x \in A THEN status ELSE s.escrows[x].status
  BY <1>1, <1>4
<1>7. WithStatus(t, "Voting") = WithStatus(s, "Voting") \ V
  BY <1>2, <1>6 DEF WithStatus
<1>8. t.total = Cardinality(WithStatus(t, "Voting"))
  <2>1. s.total = Cardinality(WithStatus(s, "Voting"))
    BY DEF MembersOK
  <2>2. Cardinality(V) \in Nat /\ Cardinality(WithStatus(s, "Voting")) \in Nat
    BY <1>2, AddrSubsets
  <2>3. Cardinality(WithStatus(s, "Voting") \ V)
          = Cardinality(WithStatus(s, "Voting")) - Cardinality(V)
    <3>1. V \in SUBSET WithStatus(s, "Voting")
      OBVIOUS
    <3> QED BY <3>1, <1>2, SubsetDifference
  <2>4. t.total = Cardinality(WithStatus(s, "Voting")) - Cardinality(V)
    BY <2>1, <2>2, <1>1 DEF VOTING_POINTS
  <2> QED BY <2>3, <2>4, <1>7
<1>9. \A x \in Addr : t.points[x] = points_of(t.escrows[x].status)
  <2>1. \A x \in Addr : s.points[x] = points_of(s.escrows[x].status)
    BY DEF MembersOK
  <2>2. \A x \in A \ V : s.escrows[x].status \notin {"Voting", "None"}
    BY <1>2 DEF Members, WithStatus
  <2> QED BY <2>1, <2>2, <1>1, <1>2, <1>6 DEF points_of
<1>10. t.points \in [Addr -> Points]
  BY <1>1 DEF MembersOK, Points
<1>20. LogOK(t.changelog)
  <2>1. LogOK([x \in Addr |-> IF x \in V THEN record_change(s.changelog[x], h, s.points[x])
                                       ELSE s.changelog[x]])
    BY LoggedPoints
  <2> QED BY <2>1, <1>1
<1>11. MembersOK(t)
  BY <1>20, <1>1, <1>5, <1>8, <1>9, <1>10 DEF MembersOK
<1> QED BY <1>11 DEF t

\* add_members: strangers and non-voting members enter without a point.
LEMMA AddMembers ==
  ASSUME NEW s, MembersOK(s), NEW h \in Nat, NEW id \in Nat,
         NEW A \in SUBSET (WithStatus(s, "None") \cup WithStatus(s, "NonVoting")),
         NEW status \in {"NonVoting", "Pending"}
  PROVE  MembersOK(add_members(s, A, status, id, h))
<1> DEFINE t == add_members(s, A, status, id, h)
<1>1. /\ DOMAIN t = StoreFields
      /\ t.escrows = [x \in Addr |-> IF x \in A THEN Become(NoEscrow, status, id, 0)
                                               ELSE s.escrows[x]]
      /\ t.points = [x \in Addr |-> IF x \in A THEN 0 ELSE s.points[x]]
      /\ t.total = s.total
      /\ t.changelog = [x \in Addr |-> IF x \in A
                          THEN record_change(s.changelog[x], h, s.points[x])
                          ELSE s.changelog[x]]
  BY DEF MembersOK, StoreFields, add_members, save_points
<1> HIDE DEF t
<1>2. NoEscrow \in EscrowStatus
  BY DEF NoEscrow, EscrowStatus, MemberStatus
<1>3. /\ Become(NoEscrow, status, id, 0) \in EscrowStatus
      /\ Become(NoEscrow, status, id, 0).status = status
  <2>1. status \in MemberStatus /\ 0 \in Nat
    BY DEF MemberStatus
  <2> QED BY <2>1, <1>2, BecomeEscrow
<1>4. t.escrows \in [Addr -> EscrowStatus]
  BY <1>1, <1>3 DEF MembersOK
<1>5. \A x \in Addr : t.escrows[x].status = IF x \in A THEN status ELSE s.escrows[x].status
  BY <1>1, <1>3
<1>6. \A x \in A : s.escrows[x].status \in {"None", "NonVoting"}
  BY DEF WithStatus
<1>7. WithStatus(t, "Voting") = WithStatus(s, "Voting")
  BY <1>5, <1>6 DEF WithStatus
<1>8. \A x \in Addr : t.points[x] = points_of(t.escrows[x].status)
  <2>1. \A x \in Addr : s.points[x] = points_of(s.escrows[x].status)
    BY DEF MembersOK
  <2> QED BY <2>1, <1>1, <1>5 DEF points_of
<1>9. t.points \in [Addr -> Points]
  BY <1>1 DEF MembersOK, Points
<1>20. LogOK(t.changelog)
  BY <1>1, LoggedPoints
<1>10. MembersOK(t)
  BY <1>20, <1>1, <1>4, <1>7, <1>8, <1>9 DEF MembersOK
<1> QED BY <1>10 DEF t

\* remove_members: members without a vote disappear, with their points.
LEMMA RemoveMembers ==
  ASSUME NEW s, MembersOK(s), NEW h \in Nat,
         NEW A \in SUBSET Addr, A \cap WithStatus(s, "Voting") = {}
  PROVE  MembersOK(remove_members(s, A, h))
<1> DEFINE t == remove_members(s, A, h)
<1>1. /\ DOMAIN t = StoreFields
      /\ t.escrows = [x \in Addr |-> IF x \in A THEN NoEscrow ELSE s.escrows[x]]
      /\ t.points = [x \in Addr |-> IF x \in A THEN ABSENT ELSE s.points[x]]
      /\ t.total = s.total
      /\ t.changelog = [x \in Addr |-> IF x \in A
                          THEN record_change(s.changelog[x], h, s.points[x])
                          ELSE s.changelog[x]]
  BY DEF MembersOK, StoreFields, remove_members, save_points
<1> HIDE DEF t
<1>2. NoEscrow \in EscrowStatus /\ NoEscrow.status = "None"
  BY DEF NoEscrow, EscrowStatus, MemberStatus
<1>3. t.escrows \in [Addr -> EscrowStatus]
  BY <1>1, <1>2 DEF MembersOK
<1>4. \A x \in Addr : t.escrows[x].status = IF x \in A THEN "None" ELSE s.escrows[x].status
  BY <1>1, <1>2
<1>5. WithStatus(t, "Voting") = WithStatus(s, "Voting")
  BY <1>4 DEF WithStatus
<1>6. \A x \in Addr : t.points[x] = points_of(t.escrows[x].status)
  <2>1. \A x \in Addr : s.points[x] = points_of(s.escrows[x].status)
    BY DEF MembersOK
  <2> QED BY <2>1, <1>1, <1>4 DEF points_of
<1>7. t.points \in [Addr -> Points]
  BY <1>1 DEF MembersOK, Points
<1>20. LogOK(t.changelog)
  BY <1>1, LoggedPoints
<1>8. MembersOK(t)
  BY <1>20, <1>1, <1>3, <1>5, <1>6, <1>7 DEF MembersOK
<1> QED BY <1>8 DEF t

\* Escrows that change without making or unmaking a member or a voter.
LEMMA SameStanding ==
  ASSUME NEW s, MembersOK(s), NEW t, DOMAIN t = StoreFields,
         t.points = s.points, t.total = s.total, t.changelog = s.changelog,
         t.escrows \in [Addr -> EscrowStatus],
         \A x \in Addr : points_of(t.escrows[x].status) = points_of(s.escrows[x].status)
  PROVE  MembersOK(t)
<1>1. \A x \in Addr : t.escrows[x].status = "Voting" <=> s.escrows[x].status = "Voting"
  BY DEF points_of, VOTING_POINTS, ABSENT
<1>2. WithStatus(t, "Voting") = WithStatus(s, "Voting")
  BY <1>1 DEF WithStatus
<1> QED BY <1>2 DEF MembersOK

\* Batches do not matter to the members.
LEMMA SameMembers ==
  ASSUME NEW s, MembersOK(s), NEW b
  PROVE  MembersOK([s EXCEPT !.batches = b])
<1> DEFINE t == [s EXCEPT !.batches = b]
<1>1. /\ DOMAIN t = StoreFields /\ t.points = s.points /\ t.total = s.total
      /\ t.escrows = s.escrows /\ t.changelog = s.changelog
  BY DEF MembersOK, StoreFields
<1> HIDE DEF t
<1>2. MembersOK(t)
  BY <1>1, SameStanding DEF MembersOK
<1> QED BY <1>2 DEF t

-----------------------------------------------------------------------------
\* Batches are well typed; a store is when its members and its batches are.
BatchesTyped(bs) == DOMAIN bs \subseteq Nat /\ \A id \in DOMAIN bs : bs[id] \in Batch

StoreOK(s) == MembersOK(s) /\ BatchesTyped(s.batches)

\* The store with other batches: the rest stays.
LEMMA ReplaceBatches ==
  ASSUME NEW s, MembersOK(s), NEW b, BatchesTyped(b)
  PROVE  /\ StoreOK([s EXCEPT !.batches = b])
         /\ [s EXCEPT !.batches = b].escrows = s.escrows
<1>1. MembersOK([s EXCEPT !.batches = b])
  BY SameMembers
<1>2. DOMAIN s = StoreFields
  BY DEF MembersOK
<1>3. /\ [s EXCEPT !.batches = b].escrows = s.escrows
      /\ [s EXCEPT !.batches = b].batches = b
  BY <1>2 DEF StoreFields
<1> QED BY <1>1, <1>3 DEF StoreOK

\* create_batch adds a batch and touches no member.
LEMMA CreateBatch ==
  ASSUME NEW s, StoreOK(s), NEW id \in Nat, NEW grace \in Nat,
         NEW A \in SUBSET Addr, NEW count \in Nat
  PROVE  /\ StoreOK(create_batch(s, id, grace, A, count))
         /\ create_batch(s, id, grace, A, count).escrows = s.escrows
<1> DEFINE batch == [grace_ends_at |-> grace, waiting_escrow |-> count,
                     batch_promoted |-> FALSE, members |-> A]
           bs == [x \in DOMAIN s.batches \cup {id} |-> IF x = id THEN batch ELSE s.batches[x]]
<1>1. batch \in Batch
  BY DEF Batch
<1>2. BatchesTyped(bs)
  BY <1>1 DEF StoreOK, BatchesTyped
<1>3. CASE count = 0
  BY <1>3 DEF create_batch
<1>4. CASE count # 0
  <2>1. create_batch(s, id, grace, A, count) = [s EXCEPT !.batches = bs]
    BY <1>4 DEF create_batch
  <2> HIDE DEF bs
  <2> QED BY <2>1, <1>2, ReplaceBatches DEF StoreOK
<1> QED BY <1>3, <1>4

\* convert_all_paid_members_to_voters promotes the paid pending ones it lists.
LEMMA ConvertAll ==
  ASSUME NEW s, StoreOK(s), NEW ready \in SUBSET DOMAIN s.batches, NEW h \in Nat
  PROVE  StoreOK(convert_all_paid_members_to_voters(s, ready, h))
<1> DEFINE A == listed(s, ready) \cap WithStatus(s, "PendingPaid")
           t == promote(s, A, h)
           bs == [x \in DOMAIN s.batches |->
                    IF x \in ready THEN [s.batches[x] EXCEPT !.batch_promoted = TRUE]
                                   ELSE s.batches[x]]
<1>1. MembersOK(t)
  BY PromoteMembers DEF StoreOK
<1>2. BatchesTyped(bs)
  BY DEF StoreOK, BatchesTyped, Batch
<1>3. convert_all_paid_members_to_voters(s, ready, h) = [t EXCEPT !.batches = bs]
  BY DEF convert_all_paid_members_to_voters
<1> HIDE DEF t, bs
<1> QED BY <1>1, <1>2, <1>3, ReplaceBatches

\* update_batch_after_escrow_paid: the payer alone, its whole batch, or nobody.
LEMMA UpdateBatch ==
  ASSUME NEW s, StoreOK(s), NEW a \in WithStatus(s, "PendingPaid"),
         NEW id \in DOMAIN s.batches, NEW time \in Nat, NEW h \in Nat
  PROVE  StoreOK(update_batch_after_escrow_paid(s, a, id, time, h))
<1> DEFINE bs == [s.batches EXCEPT ![id].waiting_escrow = @ - 1]
           t == [s EXCEPT !.batches = bs]
           u == [s EXCEPT !.batches[id].waiting_escrow = @ - 1]
<1>1. BatchesTyped(bs)
  BY DEF StoreOK, BatchesTyped, Batch
<1>2. u = t
  OBVIOUS
<1>3. StoreOK(t) /\ t.escrows = s.escrows /\ DOMAIN t.batches = DOMAIN s.batches
  <2>1. DOMAIN s = StoreFields
    BY DEF StoreOK, MembersOK
  <2>2. t.batches = bs
    BY <2>1 DEF StoreFields
  <2>3. DOMAIN bs = DOMAIN s.batches
    OBVIOUS
  <2> HIDE DEF bs
  <2> QED BY <2>2, <2>3, <1>1, ReplaceBatches DEF StoreOK
<1>4. StoreOK(promote(t, {a}, h))
  <2>1. {a} \in SUBSET WithStatus(t, "PendingPaid")
    BY <1>3 DEF WithStatus
  <2> HIDE DEF t
  <2> QED BY <2>1, <1>3, PromoteMembers DEF StoreOK
<1>5. StoreOK(convert_all_paid_members_to_voters(t, {id}, h))
  <2> HIDE DEF t
  <2> QED BY <1>3, ConvertAll
<1> HIDE DEF t
<1> QED BY <1>2, <1>3, <1>4, <1>5 DEF update_batch_after_escrow_paid

\* Members without a vote leave, with their points.
LEMMA Removed ==
  ASSUME NEW s, StoreOK(s), NEW h \in Nat,
         NEW A \in SUBSET Addr, A \cap WithStatus(s, "Voting") = {}
  PROVE  StoreOK(remove_members(s, A, h))
<1> DEFINE t == remove_members(s, A, h)
<1>1. MembersOK(s) /\ DOMAIN s = StoreFields
  BY DEF StoreOK, MembersOK
<1>2. MembersOK(t)
  BY <1>1, RemoveMembers
<1>3. t.batches = s.batches
  BY <1>1 DEF StoreFields, remove_members, save_points
<1> HIDE DEF t
<1>4. StoreOK(t)
  BY <1>2, <1>3 DEF StoreOK
<1> QED BY <1>4 DEF t

\* Addresses enter without a point.
LEMMA Added ==
  ASSUME NEW s, StoreOK(s), NEW h \in Nat, NEW id \in Nat,
         NEW A \in SUBSET (WithStatus(s, "None") \cup WithStatus(s, "NonVoting")),
         NEW status \in {"NonVoting", "Pending"}
  PROVE  StoreOK(add_members(s, A, status, id, h))
<1> DEFINE t == add_members(s, A, status, id, h)
<1>1. MembersOK(s) /\ DOMAIN s = StoreFields
  BY DEF StoreOK, MembersOK
<1>2. MembersOK(t)
  BY <1>1, AddMembers
<1>3. t.batches = s.batches
  BY <1>1 DEF StoreFields, add_members, save_points
<1> HIDE DEF t
<1>4. StoreOK(t)
  BY <1>2, <1>3 DEF StoreOK
<1> QED BY <1>4 DEF t

\* Demoted members are pending again, in a batch yet to be created.
LEMMA Demoted ==
  ASSUME NEW s, StoreOK(s), NEW A \in SUBSET Members(s), NEW V,
         V = A \cap WithStatus(s, "Voting"), NEW h \in Nat, NEW id \in Nat
  PROVE  StoreOK(set_status(strip_points(s, V, h), A, "Pending", id, 0))
<1> DEFINE t == set_status(strip_points(s, V, h), A, "Pending", id, 0)
<1>1. /\ MembersOK(s) /\ DOMAIN s = StoreFields
      /\ 0 \in Nat /\ "Pending" \in {"Pending", "Leaving"}
  BY DEF StoreOK, MembersOK
<1>2. MembersOK(t)
  BY <1>1, DemoteMembers
<1>3. t.batches = s.batches
  BY <1>1 DEF StoreFields, set_status, strip_points, save_points
<1> HIDE DEF t
<1>4. StoreOK(t)
  BY <1>2, <1>3 DEF StoreOK
<1> QED BY <1>4 DEF t

\* Escrows that change without making or unmaking a member or a voter.
LEMMA ReplaceEscrows ==
  ASSUME NEW s, StoreOK(s), NEW es \in [Addr -> EscrowStatus],
         \A x \in Addr : points_of(es[x].status) = points_of(s.escrows[x].status)
  PROVE  /\ StoreOK([s EXCEPT !.escrows = es])
         /\ [s EXCEPT !.escrows = es].escrows = es
         /\ [s EXCEPT !.escrows = es].batches = s.batches
<1> DEFINE t == [s EXCEPT !.escrows = es]
<1>1. DOMAIN s = StoreFields
  BY DEF StoreOK, MembersOK
<1>2. /\ DOMAIN t = StoreFields /\ t.points = s.points /\ t.total = s.total
      /\ t.changelog = s.changelog /\ t.escrows = es /\ t.batches = s.batches
  BY <1>1 DEF StoreFields
<1> HIDE DEF t
<1>3. MembersOK(t)
  BY <1>2, SameStanding DEF StoreOK
<1> QED BY <1>2, <1>3 DEF StoreOK, t

\* A payment, a refund or a slash of one escrow.
LEMMA PayEscrow ==
  ASSUME NEW s, StoreOK(s), NEW a \in Addr, NEW paid \in Nat
  PROVE  /\ StoreOK([s EXCEPT !.escrows[a].paid = paid])
         /\ [s EXCEPT !.escrows[a].paid = paid].escrows = [s.escrows EXCEPT ![a].paid = paid]
         /\ [s EXCEPT !.escrows[a].paid = paid].batches = s.batches
<1> DEFINE es == [s.escrows EXCEPT ![a].paid = paid]
<1>1. s.escrows \in [Addr -> EscrowStatus]
  BY DEF StoreOK, MembersOK
<1>2. es \in [Addr -> EscrowStatus]
  BY <1>1 DEF EscrowStatus
<1>3. \A x \in Addr : es[x].status = s.escrows[x].status
  BY <1>1 DEF EscrowStatus
<1>4. [s EXCEPT !.escrows[a].paid = paid] = [s EXCEPT !.escrows = es]
  OBVIOUS
<1> HIDE DEF es
<1>5. /\ StoreOK([s EXCEPT !.escrows = es])
      /\ [s EXCEPT !.escrows = es].escrows = es
      /\ [s EXCEPT !.escrows = es].batches = s.batches
  BY <1>2, <1>3, ReplaceEscrows
<1> QED BY <1>4, <1>5 DEF es

\* A pending member that completes its escrow becomes pending paid.
LEMMA PaidPending ==
  ASSUME NEW s, StoreOK(s), NEW a \in Addr, s.escrows[a].status = "Pending"
  PROVE  LET t == [s EXCEPT !.escrows[a].status = "PendingPaid"]
         IN /\ StoreOK(t)
            /\ a \in WithStatus(t, "PendingPaid")
            /\ t.batches = s.batches
<1> DEFINE es == [s.escrows EXCEPT ![a].status = "PendingPaid"]
           t == [s EXCEPT !.escrows = es]
<1>1. s.escrows \in [Addr -> EscrowStatus]
  BY DEF StoreOK, MembersOK
<1>2. es \in [Addr -> EscrowStatus]
  BY <1>1 DEF EscrowStatus, MemberStatus
<1>3. \A x \in Addr : points_of(es[x].status) = points_of(s.escrows[x].status)
  BY <1>1 DEF EscrowStatus, points_of
<1>4. [s EXCEPT !.escrows[a].status = "PendingPaid"] = t
  OBVIOUS
<1>5. es[a].status = "PendingPaid"
  BY <1>1 DEF EscrowStatus
<1> HIDE DEF es
<1>6. StoreOK(t) /\ t.escrows = es /\ t.batches = s.batches
  BY <1>2, <1>3, ReplaceEscrows
<1>7. a \in WithStatus(t, "PendingPaid")
  BY <1>5, <1>6 DEF WithStatus
<1> HIDE DEF t
<1> QED BY <1>4, <1>6, <1>7

-----------------------------------------------------------------------------
\* Arithmetic

\* A share of at most one leaves no more than the whole.
LEMMA ShareBound ==
  ASSUME NEW x \in Nat, NEW y \in 0..DECIMAL_ONE
  PROVE  (x * y) \div DECIMAL_ONE \in 0..x
<1>1. DECIMAL_ONE \in Nat /\ DECIMAL_ONE > 0
  BY RulesAssumption
<1>2. x * y \in Nat /\ x * y <= x * DECIMAL_ONE
  BY <1>1
<1> DEFINE q == (x * y) \div DECIMAL_ONE
<1>3. q \in Nat /\ q * DECIMAL_ONE <= x * y
  BY <1>1, <1>2
<1>4. q * DECIMAL_ONE <= x * DECIMAL_ONE
  BY <1>1, <1>2, <1>3
<1>5. q <= x
  BY <1>1, <1>3, <1>4
<1> QED BY <1>3, <1>5

\* The points a snapshot answers with are points.
LEMMA SnapshotPoints ==
  ASSUME NEW s, MembersOK(s), NEW a \in Addr, NEW h \in Nat
  PROVE  points_at_height(s, a, h) \in Points
<1> DEFINE later == {k \in DOMAIN s.changelog[a] : k >= h}
           first == CHOOSE f \in later : \A k \in later : f <= k
<1>1. /\ DOMAIN s.changelog[a] \subseteq Nat
      /\ \A k \in DOMAIN s.changelog[a] : s.changelog[a][k] \in Points
      /\ s.points[a] \in Points
  BY DEF MembersOK, LogOK
<1>2. CASE later = {}
  BY <1>1, <1>2 DEF points_at_height
<1>3. CASE later # {}
  <2>1. \E f \in later : \A k \in later : f <= k
    BY <1>1, <1>3, LeastNumber
  <2>2. first \in later
    BY <2>1
  <2>3. s.changelog[a][first] \in Points
    BY <1>1, <2>2
  <2> QED BY <1>3, <2>3 DEF points_at_height
<1> QED BY <1>2, <1>3

LEMMA PowerOfPoints ==
  ASSUME NEW p \in Points
  PROVE  vote_power(p) \in Nat
BY DEF Points, vote_power, ABSENT, VOTING_POINTS

-----------------------------------------------------------------------------
\* The circle: well typed, and the escrow it requires, now or when a pending
\* change is enforced, is positive

CircleOK(k) ==
  /\ k \in CircleType
  /\ k.escrow_amount > 0
  /\ k.escrow_pending # NoPending => k.escrow_pending.amount > 0

\* No edit asks for an empty escrow
PositiveEdit(content) ==
  content.kind = "EditTrustedCircle" =>
    \A x \in content.adjustments.escrow_amount : x > 0

LEMMA NoPendingType == NoPending \in PendingEscrow
BY DEF NoPending, PendingEscrow

LEMMA UnwrapOption ==
  ASSUME NEW S, NEW option, IsOption(option, S), NEW default \in S
  PROVE  /\ Unwrap(option, default) \in S
         /\ option # {} => Unwrap(option, default) \in option
BY DEF IsOption, Unwrap

LEMMA PeriodType ==
  ASSUME NEW rules \in VotingRulesType
  PROVE  voting_period_secs(rules) \in Nat
<1>1. rules.voting_period \in Nat /\ DAY \in Nat
  BY CircleAssumption DEF VotingRulesType
<1>2. \A x, y \in Nat : x * y \in Nat
  OBVIOUS
<1> QED BY <1>1, <1>2 DEF voting_period_secs

LEMMA RequiredEscrow ==
  ASSUME NEW k, CircleOK(k)
  PROVE  get_escrow(k) \in Nat /\ get_escrow(k) > 0
<1>1. k.escrow_amount \in Nat /\ k.escrow_pending.amount \in Nat
  BY DEF CircleOK, CircleType, PendingEscrow
<1> QED BY <1>1 DEF get_escrow, CircleOK

\* Enforcing a pending escrow keeps the circle well typed and its escrow positive.
LEMMA EnforceCircle ==
  ASSUME NEW k, CircleOK(k)
  PROVE  CircleOK(enforce_escrow(k))
<1>1. CASE escrow_due(k)
  <2>1. k.escrow_pending.amount \in Nat /\ k.escrow_pending.amount > 0
    BY <1>1 DEF escrow_due, CircleOK, CircleType, PendingEscrow
  <2> DEFINE e == [k EXCEPT !.escrow_amount = k.escrow_pending.amount,
                            !.escrow_pending = NoPending]
  <2>2. /\ e \in CircleType /\ e.escrow_amount = k.escrow_pending.amount
        /\ e.escrow_pending = NoPending
    BY <2>1, NoPendingType DEF CircleOK, CircleType
  <2> HIDE DEF e
  <2>3. CircleOK(e)
    BY <2>1, <2>2 DEF CircleOK
  <2> QED BY <1>1, <2>3 DEF enforce_escrow, e
<1>2. CASE ~escrow_due(k)
  BY <1>2 DEF enforce_escrow
<1> QED BY <1>1, <1>2

\* An edit keeps the circle well typed; its pending escrow is positive when the edit is.
LEMMA AdjustCircle ==
  ASSUME NEW k, CircleOK(k), NEW adj, IsAdjustments(adj), NEW id \in Nat, now \in Nat,
         \A x \in adj.escrow_amount : x > 0
  PROVE  CircleOK(apply_adjustments(k, adj, id))
<1> DEFINE rules == [voting_period   |-> Unwrap(adj.voting_period, k.rules.voting_period),
                     quorum          |-> Unwrap(adj.quorum, k.rules.quorum),
                     threshold       |-> Unwrap(adj.threshold, k.rules.threshold),
                     allow_end_early |-> Unwrap(adj.allow_end_early, k.rules.allow_end_early)]
           amount == Unwrap(adj.escrow_amount, k.escrow_amount)
           new == [proposal_id |-> id, amount |-> amount,
                   grace_ends_at |-> now + voting_period_secs(rules)]
           pending == IF amount = k.escrow_amount THEN k.escrow_pending ELSE new
           disabled == Unwrap(adj.edit_trusted_circle_disabled, k.edit_trusted_circle_disabled)
<1>1. /\ k.escrow_amount \in Nat /\ k.escrow_pending \in PendingEscrow
      /\ k.rules \in VotingRulesType /\ k.edit_trusted_circle_disabled \in BOOLEAN
  BY DEF CircleOK, CircleType
<1>2. rules \in VotingRulesType
  <2>1. /\ k.rules.voting_period \in Nat /\ k.rules.quorum \in 0..DECIMAL_ONE
        /\ k.rules.threshold \in 0..DECIMAL_ONE /\ k.rules.allow_end_early \in BOOLEAN
    BY <1>1 DEF VotingRulesType
  <2>2. /\ rules.voting_period \in Nat /\ rules.quorum \in 0..DECIMAL_ONE
        /\ rules.threshold \in 0..DECIMAL_ONE /\ rules.allow_end_early \in BOOLEAN
    BY <2>1, UnwrapOption DEF IsAdjustments
  <2> QED BY <2>2 DEF VotingRulesType
<1>3. amount \in Nat /\ amount > 0
  <2>1. amount \in Nat /\ (adj.escrow_amount # {} => amount \in adj.escrow_amount)
    BY <1>1, UnwrapOption DEF IsAdjustments
  <2>2. adj.escrow_amount = {} => amount = k.escrow_amount
    BY DEF Unwrap
  <2> QED BY <2>1, <2>2 DEF CircleOK
<1>4. disabled \in BOOLEAN
  BY <1>1, UnwrapOption DEF IsAdjustments
<1>5. new \in PendingEscrow /\ new.amount = amount
  <2>1. now + voting_period_secs(rules) \in Nat
    BY <1>2, PeriodType
  <2> QED BY <2>1, <1>3 DEF PendingEscrow
<1> HIDE DEF rules, amount, new, disabled
<1> DEFINE e == [escrow_amount |-> k.escrow_amount, escrow_pending |-> pending,
                 rules |-> rules, edit_trusted_circle_disabled |-> disabled]
<1>6. CircleOK(e)
  BY <1>1, <1>2, <1>3, <1>4, <1>5 DEF CircleOK, CircleType
<1>7. apply_adjustments(k, adj, id) = e
  BY DEF apply_adjustments, rules, amount, new, disabled
<1> QED BY <1>6, <1>7

-----------------------------------------------------------------------------
\* Proposals: well typed, and no edit to an empty escrow among them

ProposalsOK(ps) ==
  ps \in Seq(Proposal) /\ \A id \in DOMAIN ps : PositiveEdit(ps[id].content)

\* A proposal is replaced by one of the same content.
LEMMA ReplaceProposal ==
  ASSUME NEW ps, ProposalsOK(ps), NEW id \in DOMAIN ps,
         NEW q \in Proposal, q.content = ps[id].content
  PROVE  /\ ProposalsOK([ps EXCEPT ![id] = q])
         /\ DOMAIN [ps EXCEPT ![id] = q] = DOMAIN ps
<1> DEFINE qs == [ps EXCEPT ![id] = q]
<1>1. id \in 1..Len(ps)
  BY LenProperties DEF ProposalsOK
<1>2. qs \in Seq(Proposal)
  BY <1>1, ExceptSeq DEF ProposalsOK
<1>3. DOMAIN qs = DOMAIN ps
  OBVIOUS
<1>4. \A x \in DOMAIN ps : qs[x].content = ps[x].content
  OBVIOUS
<1> HIDE DEF qs
<1>5. \A x \in DOMAIN qs : PositiveEdit(qs[x].content)
  BY <1>3, <1>4 DEF ProposalsOK
<1> QED BY <1>2, <1>3, <1>5 DEF ProposalsOK, qs

\* update_status and a status given by hand keep the type and the content.
LEMMA StatusType ==
  ASSUME NEW p \in Proposal, NEW time, NEW status \in ProposalStatus
  PROVE  /\ current_status(p, time) \in ProposalStatus
         /\ [p EXCEPT !.status = status] \in Proposal
         /\ [p EXCEPT !.status = status].content = p.content
<1>1. p.status \in ProposalStatus
  BY DEF Proposal
<1>2. current_status(p, time) \in {"Passed", "Rejected", p.status}
  BY DEF current_status
<1>3. current_status(p, time) \in ProposalStatus
  BY <1>1, <1>2 DEF ProposalStatus
<1> QED BY <1>3 DEF Proposal

LEMMA UpdatedProposal ==
  ASSUME NEW p \in Proposal, NEW time
  PROVE  update_status(p, time) \in Proposal /\ update_status(p, time).content = p.content
<1>1. PICK status \in ProposalStatus : update_status(p, time) = [p EXCEPT !.status = status]
  <2>1. "Open" \in ProposalStatus
    BY DEF ProposalStatus
  <2> QED BY <2>1, StatusType DEF update_status
<1> QED BY <1>1, StatusType

\* The proposals after one of them was executed.
LEMMA ExecutedProposals ==
  ASSUME ProposalsOK(proposals), NEW id \in DOMAIN proposals
  PROVE  ProposalsOK(executed(id)) /\ DOMAIN executed(id) = DOMAIN proposals
<1> DEFINE q == [proposals[id] EXCEPT !.status = "Executed"]
<1>1. proposals[id] \in Proposal
  BY LenProperties, ElementOfSeq DEF ProposalsOK
<1>2. q \in Proposal /\ q.content = proposals[id].content
  BY <1>1, StatusType DEF ProposalStatus
<1>3. executed(id) = [proposals EXCEPT ![id] = q]
  BY DEF executed
<1> HIDE DEF q
<1>4. /\ ProposalsOK([proposals EXCEPT ![id] = q])
      /\ DOMAIN [proposals EXCEPT ![id] = q] = DOMAIN proposals
  BY <1>2, ReplaceProposal
<1> QED BY <1>3, <1>4

\* Leavers lower the total of open proposals, modulo the width of a u64.
LEMMA AdjustedProposals ==
  ASSUME NEW ps, ProposalsOK(ps), NEW L \in SUBSET Addr
  PROVE  /\ ProposalsOK(adjust_open_proposals(ps, L))
         /\ DOMAIN adjust_open_proposals(ps, L) = DOMAIN ps
<1> DEFINE qs == adjust_open_proposals(ps, L)
           silent(id) == {a \in L : ~ \E b \in ballots : b.proposal_id = id /\ b.voter = a}
           lowered(id) == (ps[id].total_points - VOTING_POINTS * Cardinality(silent(id)))
                            % U64_MODULUS
<1>1. DOMAIN qs = DOMAIN ps
  BY DEF adjust_open_proposals
<1>2. \A id \in DOMAIN ps : ps[id] \in Proposal
  BY LenProperties, ElementOfSeq DEF ProposalsOK
<1>3. \A id \in DOMAIN ps : qs[id] = ps[id] \/ qs[id] = [ps[id] EXCEPT !.total_points = lowered(id)]
  BY DEF adjust_open_proposals
<1>4. \A id \in DOMAIN ps : lowered(id) \in Nat
  <2> TAKE id \in DOMAIN ps
  <2>1. silent(id) \in SUBSET Addr
    OBVIOUS
  <2> HIDE DEF silent
  <2>2. Cardinality(silent(id)) \in Nat
    BY <2>1, AddrSubsets
  <2>3. ps[id].total_points \in Nat
    BY <1>2 DEF Proposal
  <2>4. U64_MODULUS \in Nat /\ U64_MODULUS > 0
    BY RulesAssumption
  <2> QED BY <2>2, <2>3, <2>4 DEF VOTING_POINTS
<1> HIDE DEF qs, lowered
<1>5. \A id \in DOMAIN ps : qs[id] \in Proposal /\ qs[id].content = ps[id].content
  BY <1>2, <1>3, <1>4 DEF Proposal
<1>6. qs \in Seq(Proposal)
  <2>1. Len(ps) \in Nat /\ DOMAIN ps = 1..Len(ps)
    BY LenProperties DEF ProposalsOK
  <2>2. \A id \in DOMAIN ps : qs[id] \in Proposal
    BY <1>5
  <2>3. qs = [id \in DOMAIN ps |-> qs[id]]
    BY <1>1 DEF qs, adjust_open_proposals
  <2>4. qs \in [1..Len(ps) -> Proposal]
    BY <2>1, <2>2, <2>3
  <2> QED BY <2>1, <2>4, SeqDef
<1>7. \A id \in DOMAIN qs : PositiveEdit(qs[id].content)
  BY <1>1, <1>5 DEF ProposalsOK
<1> QED BY <1>1, <1>6, <1>7 DEF ProposalsOK, qs

-----------------------------------------------------------------------------
\* The store across a step

LEMMA StoreShape ==
  /\ DOMAIN Store = StoreFields
  /\ Store.escrows = escrows /\ Store.points = points /\ Store.changelog = changelog
  /\ Store.total = total /\ Store.batches = batches /\ Store.distribution = distribution
BY DEF Store, StoreFields

\* What a handler commits is the next store.
LEMMA CommitStore ==
  ASSUME NEW s, StoreOK(s), Commit(s)
  PROVE  StoreOK(Store)'
<1>1. /\ DOMAIN Store' = StoreFields
      /\ Store'.escrows = s.escrows /\ Store'.points = s.points
      /\ Store'.changelog = s.changelog /\ Store'.total = s.total
      /\ Store'.batches = s.batches
  BY DEF Store, StoreFields, Commit
<1>2. WithStatus(Store', "Voting") = WithStatus(s, "Voting")
  BY <1>1 DEF WithStatus
<1>3. MembersOK(Store')
  BY <1>1, <1>2 DEF StoreOK, MembersOK
<1>4. BatchesTyped(Store'.batches)
  BY <1>1 DEF StoreOK
<1> QED BY <1>3, <1>4 DEF StoreOK

\* A step that leaves the members and the batches alone.
LEMMA SameStore ==
  ASSUME StoreOK(Store), UNCHANGED <<escrows, points, changelog, total, batches>>
  PROVE  StoreOK(Store)'
<1>1. /\ DOMAIN Store' = StoreFields
      /\ Store'.escrows = Store.escrows /\ Store'.points = Store.points
      /\ Store'.changelog = Store.changelog /\ Store'.total = Store.total
      /\ Store'.batches = Store.batches
  BY DEF Store, StoreFields
<1>2. WithStatus(Store', "Voting") = WithStatus(Store, "Voting")
  BY <1>1 DEF WithStatus
<1>3. MembersOK(Store')
  BY <1>1, <1>2 DEF StoreOK, MembersOK
<1>4. BatchesTyped(Store'.batches)
  BY <1>1 DEF StoreOK
<1> QED BY <1>3, <1>4 DEF StoreOK

-----------------------------------------------------------------------------
\* check_pending

\* check_pending_escrow, whichever way the escrow changes.
LEMMA PendingEscrowChecked ==
  ASSUME NEW s, StoreOK(s), NEW k, CircleOK(k), NEW h \in Nat, now \in Nat
  PROVE  StoreOK(check_pending_escrow(s, k, h))
<1>0. k.escrow_pending.amount \in Nat /\ k.escrow_amount \in Nat
  BY DEF CircleOK, CircleType, PendingEscrow
<1>1. CASE escrow_due(k) /\ k.escrow_pending.amount > k.escrow_amount
  <2> DEFINE D == short_voters(s, k)
             id == k.escrow_pending.proposal_id
             t == set_status(strip_points(s, D, h), D, "Pending", id, 0)
  <2>1. D \in SUBSET Members(s) /\ D \in SUBSET Addr /\ D = D \cap WithStatus(s, "Voting")
    BY DEF short_voters, WithStatus, Members
  <2>2. id \in Nat
    BY DEF CircleOK, CircleType, PendingEscrow
  <2>3. Cardinality(D) \in Nat
    BY <2>1, AddrSubsets
  <2>4. check_pending_escrow(s, k, h) = create_batch(t, id, now, D, Cardinality(D))
    <3>1. check_pending_escrow(s, k, h) = demote_short_voters(s, k, h)
      BY <1>0, <1>1 DEF check_pending_escrow
    <3> QED BY <3>1 DEF demote_short_voters
  <2> HIDE DEF D, id
  <2>5. StoreOK(t)
    BY <2>1, <2>2, Demoted
  <2> HIDE DEF t
  <2>6. StoreOK(create_batch(t, id, now, D, Cardinality(D)))
    BY <2>1, <2>2, <2>3, <2>5, CreateBatch
  <2> QED BY <2>4, <2>6
<1>2. CASE escrow_due(k) /\ k.escrow_pending.amount < k.escrow_amount
  <2> DEFINE es == [x \in Addr |->
               IF x \in paid_pending(s, k) THEN [s.escrows[x] EXCEPT !.status = "PendingPaid"]
                                           ELSE s.escrows[x]]
  <2>2. check_pending_escrow(s, k, h) = [s EXCEPT !.escrows = es]
    BY <1>0, <1>2 DEF check_pending_escrow, promote_paid_pending
  <2>3. \A x \in Addr : s.escrows[x] \in EscrowStatus
    BY DEF StoreOK, MembersOK
  <2>4. es \in [Addr -> EscrowStatus]
    BY <2>3 DEF EscrowStatus, MemberStatus
  <2>5. \A x \in Addr : points_of(es[x].status) = points_of(s.escrows[x].status)
    BY <2>3 DEF EscrowStatus, paid_pending, WithStatus, points_of
  <2> HIDE DEF es
  <2> QED BY <2>2, <2>4, <2>5, ReplaceEscrows
<1>3. CASE ~escrow_due(k) \/ k.escrow_pending.amount = k.escrow_amount
  BY <1>0, <1>3 DEF check_pending_escrow
<1> QED BY <1>0, <1>1, <1>2, <1>3

\* The promotion of the ready batches follows.
LEMMA PendingChecked ==
  ASSUME NEW s, StoreOK(s), NEW k, CircleOK(k), NEW h \in Nat, now \in Nat
  PROVE  StoreOK(check_pending(s, k, h))
<1> DEFINE t == check_pending_escrow(s, k, h)
<1>1. StoreOK(t)
  BY PendingEscrowChecked
<1>2. ready_batches(t, now) \in SUBSET DOMAIN t.batches
  BY DEF ready_batches
<1>3. check_pending(s, k, h) = convert_all_paid_members_to_voters(t, ready_batches(t, now), h)
  BY DEF check_pending
<1> HIDE DEF t
<1> QED BY <1>1, <1>2, <1>3, ConvertAll

-----------------------------------------------------------------------------
\* The inductive invariant

ExpiryOK(index, ps) ==
  DOMAIN index \subseteq Nat /\ \A t \in DOMAIN index : index[t] \in DOMAIN ps

BlockOK == height \in Nat /\ now \in Nat

IInv ==
  /\ StoreOK(Store)
  /\ CircleOK(circle)
  /\ ProposalsOK(proposals)
  /\ ExpiryOK(by_expiry, proposals)
  /\ ballots \subseteq Ballot
  /\ BlockOK

\* The invariant says what the runs check, but for the balance and the rewards.
LEMMA InvariantSays ==
  ASSUME IInv
  PROVE  /\ VotingMatchesTotal
         /\ EscrowsOK /\ PointsOK /\ BatchesOK /\ total \in Nat /\ circle \in CircleType
         /\ \A id \in DOMAIN proposals : proposals[id] \in Proposal
<1>1. MembersOK(Store) /\ BatchesTyped(batches)
  BY StoreShape DEF IInv, StoreOK
<1>2. /\ escrows \in [Addr -> EscrowStatus] /\ points \in [Addr -> Points]
      /\ \A x \in Addr : points[x] = points_of(escrows[x].status)
      /\ total = Cardinality(Voters) /\ LogOK(changelog)
  BY <1>1, StoreShape DEF MembersOK, Voters
<1>3. VotingMatchesTotal
  <2>1. \A a \in Addr : points[a] = CASE escrows[a].status = "None"   -> ABSENT
                                      [] escrows[a].status = "Voting" -> VOTING_POINTS
                                      [] OTHER                        -> 0
    <3> TAKE a \in Addr
    <3>1. points[a] = points_of(escrows[a].status)
      BY <1>2
    <3>2. CASE escrows[a].status = "None"
      BY <3>1, <3>2 DEF points_of
    <3>3. CASE escrows[a].status = "Voting"
      BY <3>1, <3>3 DEF points_of
    <3>4. CASE escrows[a].status # "None" /\ escrows[a].status # "Voting"
      BY <3>1, <3>4 DEF points_of
    <3> QED BY <3>2, <3>3, <3>4
  <2> QED BY <2>1, <1>2 DEF VotingMatchesTotal
<1>4. EscrowsOK /\ PointsOK /\ BatchesOK
  BY <1>1, <1>2 DEF EscrowsOK, PointsOK, BatchesOK, BatchesTyped, LogOK, Points
<1>5. Voters \in SUBSET Addr
  BY DEF Voters, WithStatus
<1>6. total \in Nat
  BY <1>2, <1>5, AddrSubsets
<1>7. circle \in CircleType
  BY DEF IInv, CircleOK
<1>8. \A id \in DOMAIN proposals : proposals[id] \in Proposal
  BY LenProperties, ElementOfSeq DEF IInv, ProposalsOK
<1> QED BY <1>3, <1>4, <1>6, <1>7, <1>8

LEMMA ClaimTime ==
  ASSUME IInv
  PROVE  claim_time \in Nat
<1>1. circle.rules \in VotingRulesType
  BY DEF IInv, CircleOK, CircleType
<1>2. voting_period_secs(circle.rules) \in Nat
  BY <1>1, PeriodType
<1> QED BY <1>2 DEF IInv, BlockOK, claim_time

\* Leavers lose their points, and nothing else of the store is theirs.
LEMMA Leavers ==
  ASSUME IInv, NEW s, StoreOK(s), NEW L \in SUBSET Members(s)
  PROVE  /\ StoreOK(trigger_long_leave(s, L))
         /\ trigger_long_leave(s, L).escrows = [x \in Addr |->
              IF x \in L THEN Become(s.escrows[x], "Leaving", 0, claim_time) ELSE s.escrows[x]]
<1> DEFINE V == L \cap WithStatus(s, "Voting")
           t == set_status(strip_points(s, V, height), L, "Leaving", 0, claim_time)
<1>1. MembersOK(s) /\ DOMAIN s = StoreFields
  BY DEF StoreOK, MembersOK
<1>2. 0 \in Nat /\ claim_time \in Nat /\ height \in Nat /\ "Leaving" \in {"Pending", "Leaving"}
  BY ClaimTime DEF IInv, BlockOK
<1>3. MembersOK(t)
  BY <1>1, <1>2, DemoteMembers
<1>4. t.batches = s.batches
  BY <1>1 DEF StoreFields, set_status, strip_points, save_points
<1>5. t.escrows = [x \in Addr |->
        IF x \in L THEN Become(s.escrows[x], "Leaving", 0, claim_time) ELSE s.escrows[x]]
  BY <1>1 DEF StoreFields, set_status, strip_points, save_points
<1>6. trigger_long_leave(s, L) = t
  BY DEF trigger_long_leave
<1> HIDE DEF t
<1> QED BY <1>3, <1>4, <1>5, <1>6 DEF StoreOK

-----------------------------------------------------------------------------
\* One lemma per action: it keeps the invariant.  Most leave everything but the
\* store and the proposals alone.

LEMMA MembersStep ==
  ASSUME IInv, StoreOK(Store)', UNCHANGED <<circle, by_expiry, ballots, block_vars>>,
         ProposalsOK(proposals'), DOMAIN proposals' = DOMAIN proposals
  PROVE  IInv'
<1>1. CircleOK(circle')
  BY DEF IInv
<1>2. ExpiryOK(by_expiry', proposals')
  BY DEF IInv, ExpiryOK
<1>3. ballots' \subseteq Ballot /\ BlockOK'
  BY DEF IInv, BlockOK, block_vars
<1> QED BY <1>1, <1>2, <1>3 DEF IInv

LEMMA SameProposals ==
  ASSUME IInv, UNCHANGED proposals
  PROVE  ProposalsOK(proposals') /\ DOMAIN proposals' = DOMAIN proposals
BY DEF IInv

LEMMA DepositKeeps ==
  ASSUME IInv, NEW a \in Addr, NEW amount \in Payments, DepositEscrow(a, amount)
  PROVE  IInv'
<1> DEFINE e == escrows[a]
           paid == e.paid + amount
           s == [Store EXCEPT !.escrows[a].paid = paid]
           complete == e.status = "Pending" /\ paid >= get_escrow(circle)
           t == [s EXCEPT !.escrows[a].status = "PendingPaid"]
<1>1. e \in EscrowStatus /\ amount \in Nat
  BY InvariantSays, CircleAssumption DEF EscrowsOK
<1>2. paid \in Nat
  BY <1>1 DEF EscrowStatus
<1>3. StoreOK(Store) /\ now \in Nat /\ height \in Nat
  BY DEF IInv, BlockOK
<1> HIDE DEF paid
<1>4. /\ StoreOK(s) /\ s.batches = batches
      /\ s.escrows = [escrows EXCEPT ![a].paid = paid]
  BY <1>2, <1>3, PayEscrow, StoreShape
<1>5. s.escrows[a].status = e.status
  BY <1>1, <1>4, InvariantSays DEF EscrowsOK, EscrowStatus
<1>6. StoreOK(Store)'
  <2>1. CASE ~complete /\ Commit(s)
    <3> HIDE DEF s
    <3> QED BY <2>1, <1>4, CommitStore
  <2>2. CASE /\ complete
             /\ can_update_batch(t, a, e.proposal_id, now)
             /\ Commit(update_batch_after_escrow_paid(t, a, e.proposal_id, now, height))
    <3> HIDE DEF s
    <3>1. /\ StoreOK(t) /\ a \in WithStatus(t, "PendingPaid")
          /\ t.batches = s.batches
      BY <2>2, <1>4, <1>5, PaidPending
    <3>2. e.proposal_id \in DOMAIN t.batches
      BY <2>2 DEF can_update_batch
    <3> HIDE DEF t
    <3>3. StoreOK(update_batch_after_escrow_paid(t, a, e.proposal_id, now, height))
      BY <3>1, <3>2, <1>3, UpdateBatch
    <3> QED BY <3>3, <2>2, CommitStore
  <2> QED BY <2>1, <2>2 DEF DepositEscrow, paid
<1> QED BY <1>6, SameProposals, MembersStep DEF DepositEscrow, proposal_vars

LEMMA ReturnKeeps ==
  ASSUME IInv, NEW a \in Addr, ReturnEscrow(a)
  PROVE  IInv'
<1> DEFINE e == escrows[a]
           refund == refundable(e)
           left == e.paid - refund
           s == [Store EXCEPT !.escrows[a].paid = left]
<1>1. e \in EscrowStatus /\ StoreOK(Store) /\ height \in Nat
  BY InvariantSays DEF EscrowsOK, IInv, BlockOK
<1>2. get_escrow(circle) \in Nat /\ get_escrow(circle) > 0
  BY RequiredEscrow DEF IInv
<1>3. /\ \/ e.status = "Voting" /\ e.paid >= get_escrow(circle)
         \/ e.status = "Leaving"
      /\ Commit(IF refund = e.paid THEN remove_members(Store, {a}, height) ELSE s)
  BY StoreShape DEF ReturnEscrow
<1>4. e.paid \in Nat
  BY <1>1 DEF EscrowStatus
<1>5. ASSUME e.status = "Voting"
      PROVE  StoreOK(Store)'
  <2>1. left = get_escrow(circle) /\ refund # e.paid
    BY <1>2, <1>4, <1>5 DEF refundable
  <2> HIDE DEF left
  <2>2. StoreOK(s)
    BY <2>1, <1>1, <1>2, PayEscrow
  <2> HIDE DEF s
  <2> QED BY <2>1, <2>2, <1>3, CommitStore
<1>6. ASSUME e.status = "Leaving"
      PROVE  StoreOK(Store)'
  <2>1. refund = e.paid
    BY <1>6 DEF refundable
  <2>2. {a} \in SUBSET Addr /\ {a} \cap WithStatus(Store, "Voting") = {}
    BY <1>6, StoreShape DEF WithStatus
  <2>3. StoreOK(remove_members(Store, {a}, height))
    BY <2>2, <1>1, Removed
  <2> QED BY <2>1, <2>3, <1>3, CommitStore
<1>7. StoreOK(Store)'
  BY <1>3, <1>5, <1>6
<1> QED BY <1>7, SameProposals, MembersStep DEF ReturnEscrow, proposal_vars

LEMMA LeaveImmediatelyKeeps ==
  ASSUME IInv, NEW a \in Addr, LeaveImmediately(a)
  PROVE  IInv'
<1>1. StoreOK(Store) /\ height \in Nat
  BY DEF IInv, BlockOK
<1>2. {a} \in SUBSET Addr /\ {a} \cap WithStatus(Store, "Voting") = {}
  BY StoreShape DEF LeaveImmediately, WithStatus
<1>3. StoreOK(remove_members(Store, {a}, height))
  BY <1>1, <1>2, Removed
<1>4. StoreOK(Store)'
  BY <1>3, CommitStore DEF LeaveImmediately
<1> QED BY <1>4, SameProposals, MembersStep DEF LeaveImmediately, proposal_vars

LEMMA LeaveTrustedCircleKeeps ==
  ASSUME IInv, NEW a \in Addr, LeaveTrustedCircle(a)
  PROVE  IInv'
<1> DEFINE L == {a} \cap WithStatus(Store, "Voting")
<1>1. StoreOK(Store) /\ ProposalsOK(proposals)
  BY DEF IInv
<1>2. {a} \in SUBSET Members(Store) /\ L \in SUBSET Addr
  BY StoreShape DEF LeaveTrustedCircle, Members
<1>3. StoreOK(trigger_long_leave(Store, {a}))
  BY <1>1, <1>2, Leavers
<1>4. StoreOK(Store)'
  BY <1>3, CommitStore DEF LeaveTrustedCircle
<1>5. proposals' = adjust_open_proposals(proposals, L)
  BY DEF LeaveTrustedCircle
<1> HIDE DEF L
<1>6. ProposalsOK(proposals') /\ DOMAIN proposals' = DOMAIN proposals
  BY <1>1, <1>2, <1>5, AdjustedProposals
<1> QED BY <1>4, <1>6, MembersStep DEF LeaveTrustedCircle

\* What validate_proposal lets through asks for no empty escrow.
LEMMA ValidEdit ==
  ASSUME NEW s, NEW k, CircleOK(k), NEW content \in Contents, ValidProposal(s, k, content),
         now \in Nat, Len(proposals) \in Nat
  PROVE  PositiveEdit(content)
<1> SUFFICES ASSUME content.kind = "EditTrustedCircle",
                    NEW x \in content.adjustments.escrow_amount
             PROVE  x > 0
  BY DEF PositiveEdit
<1> DEFINE adj == content.adjustments
           j == apply_adjustments(k, adj, Len(proposals) + 1)
<1>1. can_adjust(k, adj) /\ ValidCircle(j)
  BY DEF ValidProposal
<1>2. IsAdjustments(adj)
  BY CircleAssumption DEF IsProposalContent
<1>3. x \in Nat /\ Unwrap(adj.escrow_amount, k.escrow_amount) = x
  BY <1>2 DEF IsAdjustments, IsOption, Unwrap
<1>4. CASE x = k.escrow_amount
  BY <1>4 DEF CircleOK
<1>5. CASE x # k.escrow_amount
  <2>1. j.escrow_pending.proposal_id = Len(proposals) + 1 /\ j.escrow_pending.amount = x
    BY <1>3, <1>5 DEF apply_adjustments
  <2>2. j.escrow_pending # NoPending
    BY <2>1 DEF NoPending
  <2>3. x >= ONE_TGD
    BY <1>1, <2>1, <2>2 DEF ValidCircle
  <2> QED BY <2>3, <1>3, CircleAssumption
<1> QED BY <1>4, <1>5

LEMMA ProposeKeeps ==
  ASSUME IInv, NEW a \in Addr, NEW content \in Contents, Propose(a, content)
  PROVE  IInv'
<1> DEFINE checked == height > 0
           s == IF checked THEN check_pending(Store, circle, height - 1) ELSE Store
           k == IF checked THEN enforce_escrow(circle) ELSE circle
           power == vote_power(s.points[a])
           expires == now + voting_period_secs(k.rules)
           id == Len(proposals) + 1
           prop == [start_height |-> height, expires |-> expires, content |-> content,
                    status |-> "Open", rules |-> k.rules, total_points |-> s.total,
                    votes |-> add_vote(NoVotes, "Yes", power)]
           ballot == [proposal_id |-> id, voter |-> a, vote |-> "Yes", points |-> power]
<1>1. /\ StoreOK(Store) /\ CircleOK(circle) /\ ProposalsOK(proposals)
      /\ height \in Nat /\ now \in Nat
  BY DEF IInv, BlockOK
<1>2. StoreOK(s)
  BY <1>1, PendingChecked
<1>3. CircleOK(k)
  BY <1>1, EnforceCircle
<1>4. /\ ValidProposal(s, k, content)
      /\ Commit(s)
      /\ circle' = k
      /\ create_proposal(update_status(prop, now))
      /\ ballots' = ballots \cup {ballot}
      /\ UNCHANGED <<height, now>>
  BY DEF Propose, block_vars
<1>5. power \in Nat
  <2>1. s.points[a] \in Points
    BY <1>2 DEF StoreOK, MembersOK
  <2> HIDE DEF s
  <2> QED BY <2>1, PowerOfPoints
<1>6. k.rules \in VotingRulesType /\ expires \in Nat
  <2>1. k.rules \in VotingRulesType
    BY <1>3 DEF CircleOK, CircleType
  <2> HIDE DEF k
  <2> QED BY <2>1, <1>1, PeriodType
<1>7. s.total \in Nat
  <2>1. s.total = Cardinality(WithStatus(s, "Voting"))
    BY <1>2 DEF StoreOK, MembersOK
  <2>2. WithStatus(s, "Voting") \in SUBSET Addr
    BY DEF WithStatus
  <2> QED BY <2>1, <2>2, AddrSubsets
<1>8. Len(proposals) \in Nat /\ DOMAIN proposals = 1..Len(proposals)
  BY <1>1, LenProperties DEF ProposalsOK
<1>9. PositiveEdit(content)
  BY <1>1, <1>3, <1>4, <1>8, ValidEdit
<1> HIDE DEF s, k, power, expires
<1>10. prop \in Proposal /\ prop.content = content
  <2>1. add_vote(NoVotes, "Yes", power) \in Votes
    BY <1>5 DEF add_vote, NoVotes, Votes, VoteOption
  <2> QED BY <2>1, <1>1, <1>6, <1>7 DEF Proposal, ProposalStatus
<1> HIDE DEF prop
<1> DEFINE q == update_status(prop, now)
<1>11. q \in Proposal /\ q.content = content
  BY <1>10, UpdatedProposal
<1> HIDE DEF q
<1>12. /\ proposals' = Append(proposals, q)
       /\ by_expiry' = [t \in DOMAIN by_expiry \cup {q.expires} |->
                          IF t = q.expires THEN Len(proposals) + 1 ELSE by_expiry[t]]
  BY <1>4 DEF q, create_proposal
<1>13. /\ proposals' \in Seq(Proposal) /\ Len(proposals') = id
       /\ \A i \in 1..Len(proposals) : proposals'[i] = proposals[i]
       /\ proposals'[id] = q
  BY <1>1, <1>11, <1>12, AppendProperties DEF ProposalsOK
<1>14. DOMAIN proposals' = DOMAIN proposals \cup {id} /\ id \in Nat
  BY <1>8, <1>13, LenProperties
<1>15. ProposalsOK(proposals')
  BY <1>1, <1>8, <1>9, <1>11, <1>13, <1>14 DEF ProposalsOK
<1>16. ExpiryOK(by_expiry', proposals')
  <2>1. q.expires \in Nat
    BY <1>11 DEF Proposal
  <2>2. ExpiryOK(by_expiry, proposals)
    BY DEF IInv
  <2> QED BY <1>12, <1>14, <2>1, <2>2 DEF ExpiryOK
<1>17. ballots' \subseteq Ballot
  <2>1. ballot \in Ballot
    BY <1>5, <1>14 DEF Ballot, VoteOption
  <2> HIDE DEF ballot
  <2> QED BY <2>1, <1>4 DEF IInv
<1>18. StoreOK(Store)'
  BY <1>2, <1>4, CommitStore
<1>19. CircleOK(circle') /\ BlockOK'
  BY <1>1, <1>3, <1>4 DEF BlockOK
<1> QED BY <1>15, <1>16, <1>17, <1>18, <1>19 DEF IInv

\* A step on one proposal and on nothing that members hold.
LEMMA ProposalStep ==
  ASSUME IInv, NEW id \in DOMAIN proposals, NEW q \in Proposal,
         q.content = proposals[id].content,
         proposals' = [proposals EXCEPT ![id] = q],
         ballots' \subseteq Ballot, UNCHANGED <<store_vars, circle, by_expiry, block_vars>>
  PROVE  IInv'
<1>1. ProposalsOK(proposals') /\ DOMAIN proposals' = DOMAIN proposals
  <2>1. /\ ProposalsOK([proposals EXCEPT ![id] = q])
        /\ DOMAIN [proposals EXCEPT ![id] = q] = DOMAIN proposals
    BY ReplaceProposal DEF IInv
  <2> QED BY <2>1
<1>2. StoreOK(Store)'
  BY SameStore DEF IInv, store_vars
<1>3. CircleOK(circle')
  BY DEF IInv
<1>4. ExpiryOK(by_expiry', proposals')
  BY <1>1 DEF IInv, ExpiryOK
<1>5. BlockOK'
  BY DEF IInv, BlockOK, block_vars
<1> QED BY <1>1, <1>2, <1>3, <1>4, <1>5 DEF IInv

LEMMA VoteKeeps ==
  ASSUME IInv, NEW a \in Addr, NEW id \in DOMAIN proposals, NEW vote \in CastVotes,
         Vote(a, id, vote)
  PROVE  IInv'
<1> DEFINE prop == proposals[id]
           power == vote_power(points_at_height(Store, a, prop.start_height))
           p == [prop EXCEPT !.votes = add_vote(@, vote, power)]
           q == update_status(p, now)
           ballot == [proposal_id |-> id, voter |-> a, vote |-> vote, points |-> power]
<1>1. prop \in Proposal
  BY InvariantSays
<1>2. power \in Nat
  <2>1. prop.start_height \in Nat /\ MembersOK(Store)
    BY <1>1 DEF Proposal, IInv, StoreOK
  <2> QED BY <2>1, SnapshotPoints, PowerOfPoints
<1>3. vote \in VoteOption
  BY CircleAssumption
<1>4. ballots' = ballots \cup {ballot} /\ proposals' = [proposals EXCEPT ![id] = q]
  BY DEF Vote
<1> HIDE DEF power
<1>5. p \in Proposal /\ p.content = prop.content
  <2>1. prop.votes \in Votes
    BY <1>1 DEF Proposal
  <2>2. add_vote(prop.votes, vote, power) \in Votes
    BY <2>1, <1>2, <1>3 DEF add_vote, Votes
  <2>3. p = [prop EXCEPT !.votes = add_vote(prop.votes, vote, power)]
    BY <1>1 DEF Proposal
  <2> HIDE DEF prop, p
  <2> QED BY <2>2, <2>3, <1>1 DEF Proposal
<1> HIDE DEF p
<1>6. q \in Proposal /\ q.content = proposals[id].content
  BY <1>5, UpdatedProposal
<1> HIDE DEF q
<1>7. ballots' \subseteq Ballot
  <2>1. id \in Nat
    BY LenProperties DEF IInv, ProposalsOK
  <2>2. ballot \in Ballot
    BY <2>1, <1>2, <1>3 DEF Ballot
  <2> HIDE DEF ballot
  <2> QED BY <2>2, <1>4 DEF IInv
<1>8. UNCHANGED <<store_vars, circle, by_expiry, block_vars>>
  BY DEF Vote
<1> QED BY <1>4, <1>6, <1>7, <1>8, ProposalStep

LEMMA CloseKeeps ==
  ASSUME IInv, NEW id \in DOMAIN proposals, Close(id)
  PROVE  IInv'
<1> DEFINE q == [proposals[id] EXCEPT !.status = "Rejected"]
<1>1. proposals[id] \in Proposal /\ "Rejected" \in ProposalStatus
  BY InvariantSays DEF ProposalStatus
<1>2. q \in Proposal /\ q.content = proposals[id].content
  BY <1>1, StatusType
<1>3. proposals' = [proposals EXCEPT ![id] = q]
  BY DEF Close
<1>4. /\ UNCHANGED <<store_vars, circle, by_expiry, block_vars>>
      /\ ballots' \subseteq Ballot
  BY DEF Close, IInv
<1> HIDE DEF q
<1> QED BY <1>2, <1>3, <1>4, ProposalStep

-----------------------------------------------------------------------------
\* Execute

LEMMA ExecutedContent ==
  ASSUME IInv, NEW id \in DOMAIN proposals
  PROVE  /\ id \in Nat
         /\ IsProposalContent(proposals[id].content)
         /\ PositiveEdit(proposals[id].content)
         /\ ProposalsOK(executed(id)) /\ DOMAIN executed(id) = DOMAIN proposals
<1>1. id \in Nat
  BY LenProperties DEF IInv, ProposalsOK
<1>2. proposals[id].content \in Contents
  BY InvariantSays DEF Proposal
<1>3. PositiveEdit(proposals[id].content)
  BY DEF IInv, ProposalsOK
<1>4. ProposalsOK(executed(id)) /\ DOMAIN executed(id) = DOMAIN proposals
  BY ExecutedProposals DEF IInv
<1> QED BY <1>1, <1>2, <1>3, <1>4, CircleAssumption

LEMMA EditKeeps ==
  ASSUME IInv, NEW id \in DOMAIN proposals, ExecuteEditTrustedCircle(id)
  PROVE  IInv'
<1> DEFINE adj == proposals[id].content.adjustments
<1>1. proposals[id].content.kind = "EditTrustedCircle"
  BY DEF ExecuteEditTrustedCircle, Executable
<1>2. /\ IsAdjustments(adj) /\ (\A x \in adj.escrow_amount : x > 0) /\ id \in Nat
      /\ ProposalsOK(executed(id)) /\ DOMAIN executed(id) = DOMAIN proposals
  BY <1>1, ExecutedContent DEF IsProposalContent, PositiveEdit
<1>3. circle' = apply_adjustments(circle, adj, id) /\ proposals' = executed(id)
  BY DEF ExecuteEditTrustedCircle
<1>4. CircleOK(circle')
  BY <1>2, <1>3, AdjustCircle DEF IInv, BlockOK
<1>5. StoreOK(Store)'
  BY SameStore DEF ExecuteEditTrustedCircle, store_vars, IInv
<1>6. ExpiryOK(by_expiry', proposals')
  BY <1>2, <1>3 DEF ExecuteEditTrustedCircle, IInv, ExpiryOK
<1>7. ballots' \subseteq Ballot /\ BlockOK'
  BY DEF ExecuteEditTrustedCircle, IInv, BlockOK, block_vars
<1> QED BY <1>2, <1>3, <1>4, <1>5, <1>6, <1>7 DEF IInv

LEMMA AddVotingKeeps ==
  ASSUME IInv, NEW id \in DOMAIN proposals, ExecuteAddVotingMembers(id)
  PROVE  IInv'
<1> DEFINE content == proposals[id].content
           voters == voters_of(content)
           added == {a \in voters : escrows[a].status \in {"None", "NonVoting"}}
           count == Len(content.voters)
           grace == now + voting_period_secs(circle.rules)
           s == create_batch(Store, id, grace, voters, count)
<1>1. content.kind = "AddVotingMembers"
  BY DEF ExecuteAddVotingMembers, Executable
<1>2. /\ content.voters \in Seq(Addr) /\ id \in Nat
      /\ ProposalsOK(executed(id)) /\ DOMAIN executed(id) = DOMAIN proposals
  BY <1>1, ExecutedContent DEF IsProposalContent
<1>3. voters \in SUBSET Addr /\ count \in Nat
  BY <1>2, LenProperties, ElementOfSeq DEF voters_of
<1>4. StoreOK(Store) /\ height \in Nat /\ grace \in Nat
  <2>1. circle.rules \in VotingRulesType
    BY DEF IInv, CircleOK, CircleType
  <2> QED BY <2>1, PeriodType DEF IInv, BlockOK
<1>5. /\ Commit(add_members(s, added, "Pending", id, height))
      /\ proposals' = executed(id)
      /\ UNCHANGED <<circle, by_expiry, ballots, block_vars>>
  BY DEF ExecuteAddVotingMembers
<1> HIDE DEF voters, count, grace
<1>6. StoreOK(s) /\ s.escrows = escrows
  BY <1>2, <1>3, <1>4, CreateBatch, StoreShape
<1> HIDE DEF s
<1>7. added \in SUBSET (WithStatus(s, "None") \cup WithStatus(s, "NonVoting"))
  BY <1>3, <1>6 DEF WithStatus
<1> HIDE DEF added
<1>8. StoreOK(add_members(s, added, "Pending", id, height))
  BY <1>2, <1>4, <1>6, <1>7, Added
<1>9. StoreOK(Store)'
  BY <1>5, <1>8, CommitStore
<1> QED BY <1>2, <1>5, <1>9, MembersStep

\* The three contents that add or remove non-voting members.
LEMMA AddRemoveKeeps ==
  ASSUME IInv, NEW id \in DOMAIN proposals, NEW add \in SUBSET Addr, NEW remove \in SUBSET Addr,
         AddRemove(id, add, remove)
  PROVE  IInv'
<1> DEFINE added == {a \in add : points[a] = ABSENT}
           s == add_members(Store, added, "NonVoting", 0, height)
           removed == remove \cap Members(s)
<1>1. StoreOK(Store) /\ height \in Nat /\ 0 \in Nat
  BY DEF IInv, BlockOK
<1>2. added \in SUBSET (WithStatus(Store, "None") \cup WithStatus(Store, "NonVoting"))
  <2>1. \A a \in Addr : points[a] = points_of(escrows[a].status)
    BY <1>1, StoreShape DEF StoreOK, MembersOK
  <2>2. \A a \in Addr : points[a] = ABSENT => escrows[a].status = "None"
    BY <2>1 DEF points_of, ABSENT, VOTING_POINTS
  <2> QED BY <2>2, StoreShape DEF WithStatus
<1>3. /\ \A a \in remove : s.escrows[a].status \in {"None", "NonVoting"}
      /\ Commit(remove_members(s, removed, height))
      /\ proposals' = executed(id)
      /\ UNCHANGED <<circle, by_expiry, ballots, block_vars>>
  BY DEF AddRemove
<1> HIDE DEF added
<1>4. StoreOK(s)
  BY <1>1, <1>2, Added
<1> HIDE DEF s
<1>5. removed \in SUBSET Addr /\ removed \cap WithStatus(s, "Voting") = {}
  BY <1>3 DEF WithStatus
<1> HIDE DEF removed
<1>6. StoreOK(remove_members(s, removed, height))
  BY <1>1, <1>4, <1>5, Removed
<1>7. StoreOK(Store)'
  BY <1>3, <1>6, CommitStore
<1> QED BY <1>3, <1>7, ExecutedContent, MembersStep

\* What a punishment leaves in an escrow is an amount: slashing takes at most
\* what was paid, and a distribution gives back less than a share per recipient.
LEMMA RemainingEscrow ==
  ASSUME NEW paid \in Nat, NEW p \in Punishment
  PROVE  escrow_remaining(paid, p) \in Nat
<1> DEFINE slashed == escrow_slashed(paid, p)
<1>1. p.slashing_percentage \in 0..DECIMAL_ONE /\ p.recipients \in Nat
  BY DEF Punishment
<1>2. slashed \in 0..paid
  BY <1>1, ShareBound DEF escrow_slashed
<1> HIDE DEF slashed
<1>3. p.recipients # 0 => slashed % p.recipients \in Nat
  BY <1>1, <1>2
<1>4. escrow_remaining(paid, p) =
        paid - slashed + IF p.recipients = 0 THEN 0 ELSE slashed % p.recipients
  BY DEF escrow_remaining, slashed
<1> QED BY <1>1, <1>2, <1>3, <1>4

LEMMA PunishKeeps ==
  ASSUME IInv, NEW id \in DOMAIN proposals, ExecutePunishMembers(id)
  PROVE  IInv'
<1> DEFINE punishments == proposals[id].content.punishments
           named == DOMAIN punishments
           left(a) == escrow_remaining(escrows[a].paid, punishments[a])
           kicked == {a \in named : punishments[a].kick_out}
           demoted == {a \in named \ kicked : left(a) < get_escrow(circle)}
           voting == WithStatus(Store, "Voting")
           es == [a \in Addr |-> IF a \in named THEN [escrows[a] EXCEPT !.paid = left(a)]
                                                ELSE escrows[a]]
           slashed == [Store EXCEPT !.escrows = es]
           t == trigger_long_leave(slashed, kicked)
           s == set_status(strip_points(t, demoted \cap voting, height),
                           demoted, "Pending", id, 0)
<1>1. /\ StoreOK(Store) /\ height \in Nat /\ now \in Nat /\ ProposalsOK(proposals)
      /\ escrows \in [Addr -> EscrowStatus]
  BY InvariantSays DEF IInv, BlockOK, EscrowsOK
<1>2. proposals[id].content.kind = "PunishMembers"
  BY DEF ExecutePunishMembers, Executable
<1>3. /\ named \in SUBSET Addr /\ \A a \in named : punishments[a] \in Punishment
      /\ id \in Nat /\ ProposalsOK(executed(id)) /\ DOMAIN executed(id) = DOMAIN proposals
  BY <1>2, ExecutedContent DEF IsProposalContent
<1>4. /\ \A a \in named : escrows[a].status \notin {"None", "NonVoting"}
      /\ Commit(create_batch(s, id, now, demoted, Cardinality(demoted)))
      /\ proposals' = adjust_open_proposals(executed(id), kicked \cap voting)
      /\ UNCHANGED <<circle, by_expiry, ballots, block_vars>>
  BY DEF ExecutePunishMembers
<1>5. kicked \in SUBSET named /\ demoted \in SUBSET named /\ kicked \cap demoted = {}
  OBVIOUS
<1>6. \A a \in named : left(a) \in Nat
  BY <1>1, <1>3, RemainingEscrow DEF EscrowStatus
<1> HIDE DEF named, left, kicked, demoted, punishments
<1>7. es \in [Addr -> EscrowStatus] /\ \A a \in Addr : es[a].status = escrows[a].status
  BY <1>1, <1>3, <1>6 DEF EscrowStatus
<1> HIDE DEF es
<1>8. StoreOK(slashed) /\ slashed.escrows = es
  BY <1>1, <1>7, ReplaceEscrows, StoreShape
<1> HIDE DEF slashed
<1>9. kicked \in SUBSET Members(slashed) /\ kicked \in SUBSET Addr
  BY <1>3, <1>4, <1>5, <1>7, <1>8 DEF Members
<1>10. /\ StoreOK(t)
       /\ t.escrows = [x \in Addr |-> IF x \in kicked THEN Become(es[x], "Leaving", 0, claim_time)
                                                      ELSE es[x]]
  BY <1>8, <1>9, Leavers
<1> HIDE DEF t
<1>11. \A x \in demoted : t.escrows[x].status = escrows[x].status
  BY <1>3, <1>5, <1>7, <1>10
<1>12. /\ demoted \in SUBSET Members(t)
       /\ demoted \cap voting = demoted \cap WithStatus(t, "Voting")
  BY <1>3, <1>4, <1>5, <1>11, StoreShape DEF Members, WithStatus
<1>13. StoreOK(s)
  BY <1>1, <1>3, <1>10, <1>12, Demoted
<1> HIDE DEF s
<1>14. demoted \in SUBSET Addr /\ Cardinality(demoted) \in Nat
  BY <1>3, <1>5, AddrSubsets
<1>15. StoreOK(create_batch(s, id, now, demoted, Cardinality(demoted)))
  BY <1>1, <1>3, <1>13, <1>14, CreateBatch
<1>16. StoreOK(Store)'
  BY <1>4, <1>15, CommitStore
<1>17. kicked \cap voting \in SUBSET Addr
  BY <1>9
<1> HIDE DEF voting
<1>18. ProposalsOK(proposals') /\ DOMAIN proposals' = DOMAIN proposals
  BY <1>3, <1>4, <1>17, AdjustedProposals
<1> QED BY <1>4, <1>16, <1>18, MembersStep

LEMMA ExecuteKeeps ==
  ASSUME IInv, NEW id \in DOMAIN proposals, Execute(id)
  PROVE  IInv'
<1> DEFINE content == proposals[id].content
<1>1. CASE ExecuteEditTrustedCircle(id)
  BY <1>1, EditKeeps
<1>2. CASE ExecuteAddVotingMembers(id)
  BY <1>2, AddVotingKeeps
<1>3. CASE ExecuteAddRemoveNonVotingMembers(id)
  <2>1. AddRemove(id, content.add, content.remove)
    BY <1>3 DEF ExecuteAddRemoveNonVotingMembers
  <2>2. content.add \in SUBSET Addr /\ content.remove \in SUBSET Addr
    BY <1>3, ExecutedContent DEF ExecuteAddRemoveNonVotingMembers, Executable, IsProposalContent
  <2> QED BY <2>1, <2>2, AddRemoveKeeps
<1>4. CASE ExecuteWhitelistContract(id)
  <2>1. AddRemove(id, {content.addr}, {})
    BY <1>4 DEF ExecuteWhitelistContract, whitelist_contract_addr
  <2>2. content.addr \in Addr
    BY <1>4, ExecutedContent DEF ExecuteWhitelistContract, Executable, IsProposalContent
  <2> QED BY <2>1, <2>2, AddRemoveKeeps
<1>5. CASE ExecuteRemoveContract(id)
  <2>1. AddRemove(id, {}, {content.addr})
    BY <1>5 DEF ExecuteRemoveContract, remove_contract_addr
  <2>2. content.addr \in Addr
    BY <1>5, ExecutedContent DEF ExecuteRemoveContract, Executable, IsProposalContent
  <2> QED BY <2>1, <2>2, AddRemoveKeeps
<1>6. CASE ExecutePunishMembers(id)
  BY <1>6, PunishKeeps
<1> QED BY <1>1, <1>2, <1>3, <1>4, <1>5, <1>6 DEF Execute

-----------------------------------------------------------------------------
LEMMA CheckPendingKeeps ==
  ASSUME IInv, CheckPending
  PROVE  IInv'
<1>1. StoreOK(check_pending(Store, circle, height))
  BY PendingChecked DEF IInv, BlockOK
<1>2. StoreOK(Store)'
  BY <1>1, CommitStore DEF CheckPending
<1>3. CircleOK(circle')
  BY EnforceCircle DEF CheckPending, IInv
<1>4. /\ ProposalsOK(proposals') /\ ExpiryOK(by_expiry', proposals')
      /\ ballots' \subseteq Ballot /\ BlockOK'
  BY DEF CheckPending, IInv, BlockOK, proposal_vars, block_vars
<1> QED BY <1>2, <1>3, <1>4 DEF IInv

\* Steps on the rewards, the balance or the block, and stuttering.
LEMMA ElsewhereKeeps ==
  ASSUME IInv,
         UNCHANGED <<escrows, points, changelog, total, batches, circle, proposal_vars>>,
         BlockOK'
  PROVE  IInv'
<1>1. StoreOK(Store)'
  BY SameStore DEF IInv
<1>2. /\ CircleOK(circle') /\ ProposalsOK(proposals') /\ ExpiryOK(by_expiry', proposals')
      /\ ballots' \subseteq Ballot
  BY DEF IInv, proposal_vars
<1> QED BY <1>1, <1>2 DEF IInv

\* instantiate: the creator is the one voter.
LEMMA InitHolds == Init => IInv
<1> SUFFICES ASSUME Init PROVE IInv
  OBVIOUS
<1> DEFINE empty == [escrows |-> [a \in Addr |-> NoEscrow], points |-> [a \in Addr |-> ABSENT],
                     changelog |-> [a \in Addr |-> <<>>], total |-> 0,
                     batches |-> <<>>, distribution |-> InitDistribution]
           founded == [save_points(empty, {Creator}, VOTING_POINTS, InitialHeight)
                         EXCEPT !.total = VOTING_POINTS]
           creator(amount) == Become([NoEscrow EXCEPT !.paid = amount], "Voting", 0, 0)
           first(amount) == [founded EXCEPT !.escrows[Creator] = creator(amount)]
           s(amount) == add_members(first(amount), InitialMembers \ {Creator},
                                    "NonVoting", 0, InitialHeight)
<1>1. PICK amount \in Payments :
        /\ escrows = s(amount).escrows /\ points = s(amount).points
        /\ changelog = s(amount).changelog
        /\ total = s(amount).total /\ batches = s(amount).batches
        /\ ValidCircle(InitialCircle) /\ InitialCircle.escrow_pending = NoPending
  BY DEF Init
<1>2. /\ amount \in Nat /\ Creator \in Addr /\ InitialHeight \in Nat
      /\ InitialMembers \subseteq Addr /\ InitialCircle \in CircleType
  BY CircleAssumption
<1> DEFINE f == first(amount)
<1>3. /\ DOMAIN f = StoreFields
      /\ f.escrows = [a \in Addr |-> IF a = Creator THEN creator(amount) ELSE NoEscrow]
      /\ f.points = [a \in Addr |-> IF a = Creator THEN VOTING_POINTS ELSE ABSENT]
      /\ f.changelog = [a \in Addr |-> IF a = Creator
                          THEN record_change(<<>>, InitialHeight, ABSENT) ELSE <<>>]
      /\ f.total = 1 /\ f.batches = <<>>
  BY <1>2 DEF save_points, StoreFields, VOTING_POINTS
<1> HIDE DEF founded, empty, first
<1>4. NoEscrow \in EscrowStatus /\ NoEscrow.status = "None"
  BY DEF NoEscrow, EscrowStatus, MemberStatus
<1>5. creator(amount) \in EscrowStatus /\ creator(amount).status = "Voting"
  <2>1. [NoEscrow EXCEPT !.paid = amount] \in EscrowStatus
    BY <1>2, <1>4 DEF EscrowStatus
  <2>2. "Voting" \in MemberStatus /\ 0 \in Nat
    BY DEF MemberStatus
  <2> QED BY <2>1, <2>2, BecomeEscrow
<1> HIDE DEF f, creator
<1>6. MembersOK(f)
  <2>1. f.escrows \in [Addr -> EscrowStatus] /\ f.points \in [Addr -> Points]
    BY <1>3, <1>4, <1>5 DEF Points
  <2>2. \A a \in Addr : f.points[a] = points_of(f.escrows[a].status)
    BY <1>3, <1>4, <1>5 DEF points_of
  <2>3. WithStatus(f, "Voting") = {Creator}
    BY <1>2, <1>3, <1>4, <1>5 DEF WithStatus
  <2>4. Cardinality({Creator}) = 1
    BY FS_Singleton
  <2>5. LogOK(f.changelog)
    <3>1. DOMAIN <<>> = {}
      OBVIOUS
    <3>2. \A a \in Addr : f.changelog[a] = <<>>
             \/ f.changelog[a] = record_change(<<>>, InitialHeight, ABSENT)
      BY <1>3
    <3>3. record_change(<<>>, InitialHeight, ABSENT) = [h \in {InitialHeight} |-> ABSENT]
      BY <3>1 DEF record_change
    <3> QED BY <1>2, <3>1, <3>2, <3>3 DEF LogOK, Points
  <2> QED BY <1>3, <2>1, <2>2, <2>3, <2>4, <2>5 DEF MembersOK
<1>7. BatchesTyped(f.batches)
  BY <1>3 DEF BatchesTyped
<1> DEFINE t == s(amount)
<1>8. StoreOK(t)
  <2>1. InitialMembers \ {Creator} \in SUBSET (WithStatus(f, "None") \cup WithStatus(f, "NonVoting"))
    BY <1>2, <1>3, <1>4 DEF WithStatus
  <2>2. StoreOK(f)
    BY <1>6, <1>7 DEF StoreOK
  <2>3. StoreOK(add_members(f, InitialMembers \ {Creator}, "NonVoting", 0, InitialHeight))
    BY <1>2, <2>1, <2>2, Added
  <2> QED BY <2>3 DEF f
<1>9. /\ escrows = t.escrows /\ points = t.points /\ changelog = t.changelog
      /\ total = t.total /\ batches = t.batches
  BY <1>1
<1> HIDE DEF t
<1>10. StoreOK(Store)
  <2>1. WithStatus(Store, "Voting") = WithStatus(t, "Voting")
    BY <1>9, StoreShape DEF WithStatus
  <2> QED BY <1>8, <1>9, <2>1, StoreShape DEF StoreOK, MembersOK
<1>11. CircleOK(circle)
  <2>1. circle = InitialCircle
    BY DEF Init
  <2> QED BY <1>1, <1>2, <2>1, CircleAssumption DEF CircleOK, ValidCircle, CircleType
<1>12. ProposalsOK(proposals) /\ ExpiryOK(by_expiry, proposals) /\ ballots \subseteq Ballot
  <2>1. proposals = <<>> /\ by_expiry = <<>> /\ ballots = {}
    BY DEF Init
  <2>2. <<>> \in Seq(Proposal)
    BY EmptySeq
  <2> QED BY <2>1, <2>2 DEF ProposalsOK, ExpiryOK
<1>13. BlockOK
  BY <1>2 DEF Init, BlockOK
<1> QED BY <1>10, <1>11, <1>12, <1>13 DEF IInv

-----------------------------------------------------------------------------
LEMMA NextKeeps == IInv /\ [Next]_vars => IInv'
<1> SUFFICES ASSUME IInv, [Next]_vars PROVE IInv'
  OBVIOUS
<1>1. ASSUME NEW a \in Addr, NEW amount \in Payments, DepositEscrow(a, amount)
      PROVE  IInv'
  BY <1>1, DepositKeeps
<1>2. ASSUME NEW a \in Addr, ReturnEscrow(a)
      PROVE  IInv'
  BY <1>2, ReturnKeeps
<1>3. ASSUME NEW a \in Addr, LeaveImmediately(a) \/ LeaveTrustedCircle(a)
      PROVE  IInv'
  BY <1>3, LeaveImmediatelyKeeps, LeaveTrustedCircleKeeps
<1>4. ASSUME NEW a \in Addr, NEW content \in Contents, Propose(a, content)
      PROVE  IInv'
  BY <1>4, ProposeKeeps
<1>5. ASSUME NEW id \in DOMAIN proposals, NEW a \in Addr, NEW vote \in CastVotes,
             Vote(a, id, vote)
      PROVE  IInv'
  BY <1>5, VoteKeeps
<1>6. ASSUME NEW id \in DOMAIN proposals, Execute(id) \/ Close(id)
      PROVE  IInv'
  BY <1>6, ExecuteKeeps, CloseKeeps
<1>7. CASE CheckPending
  BY <1>7, CheckPendingKeeps
<1>8. ASSUME NEW a \in Addr, WithdrawRewards(a)
      PROVE  IInv'
  BY <1>8, ElsewhereKeeps DEF WithdrawRewards, IInv, BlockOK, block_vars
<1>9. CASE DistributeRewards
  BY <1>9, ElsewhereKeeps DEF DistributeRewards, IInv, BlockOK, block_vars
<1>10. ASSUME NEW amount \in Rewards, SendRewards(amount)
       PROVE  IInv'
  BY <1>10, ElsewhereKeeps DEF SendRewards, IInv, BlockOK, block_vars, store_vars
<1>11. CASE NextBlock
  <2>1. BlockOK'
    BY <1>11, CircleAssumption DEF NextBlock, IInv, BlockOK
  <2> QED BY <1>11, <2>1, ElsewhereKeeps DEF NextBlock, store_vars
<1>12. CASE UNCHANGED vars
  BY <1>12, ElsewhereKeeps DEF vars, store_vars, block_vars, IInv, BlockOK
<1> QED BY <1>1, <1>2, <1>3, <1>4, <1>5, <1>6, <1>7, <1>8, <1>9, <1>10, <1>11, <1>12 DEF Next

\* The storage keeps its types, and the invariant is inductive.
THEOREM Invariant == Spec => []IInv
<1>1. Init => IInv
  BY InitHolds
<1>2. IInv /\ [Next]_vars => IInv'
  BY NextKeeps
<1> QED BY <1>1, <1>2, PTL DEF Spec

\* The points of every address follow its status and TOTAL is the number of
\* voters, whatever mix of promotions, demotions, kick-outs and leaves happened.
THEOREM MembersCounted == Spec => []VotingMatchesTotal
<1>1. IInv => VotingMatchesTotal
  BY InvariantSays
<1> QED BY <1>1, Invariant, PTL

-----------------------------------------------------------------------------
\* Frozen rules

\* Enforcing a pending escrow changes nothing but the escrow.
LEMMA EnforcedRules ==
  ASSUME NEW k, CircleOK(k)
  PROVE  /\ enforce_escrow(k).rules = k.rules
         /\ enforce_escrow(k).edit_trusted_circle_disabled = k.edit_trusted_circle_disabled
         /\ enforce_escrow(k).escrow_amount \in {k.escrow_amount, k.escrow_pending.amount}
BY DEF enforce_escrow, CircleOK, CircleType

LEMMA SameRules ==
  ASSUME UNCHANGED circle
  PROVE  RulesStay
BY DEF RulesStay

\* Only an edit changes the rules, and it is refused once editing is disabled;
\* CheckPending, also the one in Propose, changes the escrow to the pending one.
LEMMA RulesKept == IInv /\ [Next]_vars => RulesStay
<1> SUFFICES ASSUME IInv, [Next]_vars PROVE RulesStay
  OBVIOUS
<1>1. CircleOK(circle)
  BY DEF IInv
<1>2. ASSUME circle' = enforce_escrow(circle) PROVE RulesStay
  BY <1>1, <1>2, EnforcedRules DEF RulesStay
<1>3. ASSUME NEW a \in Addr, NEW content \in Contents, Propose(a, content)
      PROVE  RulesStay
  <2>1. circle' = enforce_escrow(circle) \/ circle' = circle
    BY <1>3 DEF Propose
  <2> QED BY <2>1, <1>2, SameRules
<1>4. ASSUME NEW id \in DOMAIN proposals, Execute(id)
      PROVE  RulesStay
  <2>1. CASE ExecuteEditTrustedCircle(id)
    BY <2>1 DEF ExecuteEditTrustedCircle, RulesStay
  <2>2. CASE ExecuteAddVotingMembers(id) \/ ExecutePunishMembers(id)
    BY <2>2, SameRules DEF ExecuteAddVotingMembers, ExecutePunishMembers
  <2>3. CASE \/ ExecuteAddRemoveNonVotingMembers(id)
             \/ ExecuteWhitelistContract(id) \/ ExecuteRemoveContract(id)
    BY <2>3, SameRules DEF ExecuteAddRemoveNonVotingMembers, ExecuteWhitelistContract,
       ExecuteRemoveContract, whitelist_contract_addr, remove_contract_addr, AddRemove
  <2> QED BY <1>4, <2>1, <2>2, <2>3 DEF Execute
<1>5. ASSUME NEW a \in Addr,
             \/ \E amount \in Payments : DepositEscrow(a, amount)
             \/ ReturnEscrow(a) \/ LeaveImmediately(a) \/ LeaveTrustedCircle(a)
             \/ WithdrawRewards(a)
      PROVE  RulesStay
  BY <1>5, SameRules DEF DepositEscrow, ReturnEscrow, LeaveImmediately, LeaveTrustedCircle,
     WithdrawRewards
<1>6. ASSUME NEW id \in DOMAIN proposals,
             Close(id) \/ \E a \in Addr, vote \in CastVotes : Vote(a, id, vote)
      PROVE  RulesStay
  BY <1>6, SameRules DEF Close, Vote
<1>7. CASE CheckPending
  BY <1>2, <1>7 DEF CheckPending
<1>8. CASE DistributeRewards \/ NextBlock \/ \E amount \in Rewards : SendRewards(amount)
  BY <1>8, SameRules DEF DistributeRewards, NextBlock, SendRewards
<1>9. CASE UNCHANGED vars
  BY <1>9, SameRules DEF vars
<1> QED BY <1>3, <1>4, <1>5, <1>6, <1>7, <1>8, <1>9 DEF Next

\* Once editing is disabled the rules stay, also against an edit that had
\* already passed, and the escrow becomes at most the one then pending.
THEOREM RulesFrozen == Spec => FrozenRulesStay
<1>1. IInv /\ [Next]_vars => RulesStay
  BY RulesKept
<1> QED BY <1>1, Invariant, PTL DEF Spec, FrozenRulesStay

-----------------------------------------------------------------------------
\* Decisions

LEMMA AdvanceSame == ASSUME NEW p PROVE Advances(p, p)
BY DEF Advances

\* Nothing happens to the proposals.
LEMMA NoneAdvances ==
  ASSUME UNCHANGED proposals
  PROVE  AllAdvance
BY AdvanceSame DEF AllAdvance

\* One proposal is replaced by one that it may become.
LEMMA OneAdvances ==
  ASSUME NEW id \in DOMAIN proposals, NEW q, Advances(proposals[id], q),
         proposals' = [proposals EXCEPT ![id] = q]
  PROVE  AllAdvance
<1> SUFFICES ASSUME NEW x \in DOMAIN proposals
             PROVE  Advances(proposals[x], proposals'[x])
  BY DEF AllAdvance
<1>1. CASE x = id
  BY <1>1
<1>2. CASE x # id
  BY <1>2, AdvanceSame
<1> QED BY <1>1, <1>2

\* A new status of a proposal that may still get it.
LEMMA StatusAdvances ==
  ASSUME NEW p \in Proposal, NEW status \in ProposalStatus,
         <<p.status, status>> \in
           {<<"Open", "Passed">>, <<"Open", "Rejected">>, <<"Passed", "Executed">>}
  PROVE  Advances(p, [p EXCEPT !.status = status])
<1> DEFINE q == [p EXCEPT !.status = status]
<1>1. /\ q.status = status /\ q.content = p.content /\ q.rules = p.rules
      /\ q.expires = p.expires /\ q.start_height = p.start_height
  BY DEF Proposal
<1>2. p.status \notin {"Rejected", "Executed"}
  OBVIOUS
<1> HIDE DEF q
<1>3. Advances(p, q)
  BY <1>1, <1>2 DEF Advances
<1> QED BY <1>3 DEF q

\* A vote may decide an open proposal; one that passed stays passed.
LEMMA VoteAdvances ==
  ASSUME IInv, NEW a \in Addr, NEW id \in DOMAIN proposals, NEW vote \in CastVotes,
         Vote(a, id, vote)
  PROVE  AllAdvance
<1> DEFINE prop == proposals[id]
           votes == add_vote(prop.votes, vote,
                      vote_power(points_at_height(Store, a, prop.start_height)))
           p == [prop EXCEPT !.votes = votes]
           q == update_status(p, now)
<1>1. prop \in Proposal /\ prop.status \in {"Open", "Passed"}
  BY InvariantSays DEF Vote
<1>2. proposals' = [proposals EXCEPT ![id] = q]
  BY DEF Vote
<1> HIDE DEF votes
<1>3. /\ DOMAIN p = DOMAIN prop /\ p.status = prop.status /\ p.content = prop.content
      /\ p.rules = prop.rules /\ p.expires = prop.expires
      /\ p.start_height = prop.start_height
      /\ "status" \in DOMAIN prop
  BY <1>1 DEF Proposal
<1> HIDE DEF p, prop
<1>4. \/ current_status(p, now) = p.status
      \/ p.status = "Open" /\ current_status(p, now) \in {"Passed", "Rejected"}
  BY DEF current_status
<1>5. /\ q.status = current_status(p, now) /\ q.content = prop.content
      /\ q.rules = prop.rules /\ q.expires = prop.expires
      /\ q.start_height = prop.start_height
  BY <1>3 DEF update_status
<1> HIDE DEF q
<1>6. Advances(prop, q)
  BY <1>1, <1>3, <1>4, <1>5 DEF Advances
<1> QED BY <1>2, <1>6, OneAdvances DEF prop

\* An executed proposal had passed.
LEMMA ExecutedAdvances ==
  ASSUME IInv, NEW id \in DOMAIN proposals, proposals[id].status = "Passed"
  PROVE  /\ Advances(proposals[id], [proposals[id] EXCEPT !.status = "Executed"])
         /\ executed(id) = [proposals EXCEPT ![id] =
              [proposals[id] EXCEPT !.status = "Executed"]]
<1>1. proposals[id] \in Proposal /\ "Executed" \in ProposalStatus
  BY InvariantSays DEF ProposalStatus
<1> QED BY <1>1, StatusAdvances DEF executed

\* Leavers change the total of open proposals only.
LEMMA AdjustAdvances ==
  ASSUME NEW ps, NEW L, NEW id \in DOMAIN ps, ps[id] \in Proposal
  PROVE  /\ Advances(ps[id], adjust_open_proposals(ps, L)[id])
         /\ ps[id].status # "Open" => adjust_open_proposals(ps, L)[id] = ps[id]
<1> DEFINE p == ps[id]
           q == adjust_open_proposals(ps, L)[id]
<1>1. PICK n : \/ q = p
               \/ p.status = "Open" /\ q = [p EXCEPT !.total_points = n]
  BY DEF adjust_open_proposals
<1>2. CASE q = p
  BY <1>2, AdvanceSame
<1>3. CASE p.status = "Open" /\ q = [p EXCEPT !.total_points = n]
  <2>1. /\ q.status = p.status /\ q.content = p.content /\ q.rules = p.rules
        /\ q.expires = p.expires /\ q.start_height = p.start_height
    BY <1>3 DEF Proposal
  <2> QED BY <1>3, <2>1 DEF Advances
<1> QED BY <1>1, <1>2, <1>3

LEMMA PunishAdvances ==
  ASSUME IInv, NEW id \in DOMAIN proposals, NEW L, proposals[id].status = "Passed",
         proposals' = adjust_open_proposals(executed(id), L)
  PROVE  AllAdvance
<1> DEFINE q == [proposals[id] EXCEPT !.status = "Executed"]
           ps == executed(id)
<1>1. /\ Advances(proposals[id], q)
      /\ ps = [proposals EXCEPT ![id] = q]
      /\ q \in Proposal /\ q.status = "Executed"
  <2>1. proposals[id] \in Proposal /\ "Executed" \in ProposalStatus
    BY InvariantSays DEF ProposalStatus
  <2>2. q \in Proposal
    BY <2>1, StatusType
  <2>3. q.status = "Executed"
    BY <2>1 DEF Proposal
  <2> QED BY <2>2, <2>3, ExecutedAdvances
<1> HIDE DEF q
<1>2. /\ DOMAIN ps = DOMAIN proposals /\ ps[id] = q
      /\ \A x \in DOMAIN proposals : x # id => ps[x] = proposals[x]
      /\ proposals' = adjust_open_proposals(ps, L)
  BY <1>1
<1> HIDE DEF ps
<1> SUFFICES ASSUME NEW x \in DOMAIN proposals
             PROVE  Advances(proposals[x], proposals'[x])
  BY DEF AllAdvance
<1>3. CASE x = id
  <2>1. adjust_open_proposals(ps, L)[x] = q
    BY <1>1, <1>2, <1>3, AdjustAdvances
  <2> QED BY <1>1, <1>2, <1>3, <2>1
<1>4. CASE x # id
  <2>1. ps[x] = proposals[x] /\ ps[x] \in Proposal
    BY <1>2, <1>4, InvariantSays
  <2> QED BY <1>2, <2>1, AdjustAdvances
<1> QED BY <1>3, <1>4

LEMMA LeaveAdvances ==
  ASSUME IInv, NEW a \in Addr, LeaveTrustedCircle(a)
  PROVE  AllAdvance
<1>1. proposals' = adjust_open_proposals(proposals, {a} \cap WithStatus(Store, "Voting"))
  BY DEF LeaveTrustedCircle
<1> QED BY <1>1, AdjustAdvances, InvariantSays DEF AllAdvance

\* Proposing adds one at the end.
LEMMA ProposeAdvances ==
  ASSUME IInv, NEW a \in Addr, NEW content \in Contents, Propose(a, content)
  PROVE  AllAdvance
<1>1. PICK q : proposals' = Append(proposals, q)
  BY DEF Propose, create_proposal
<1>2. proposals \in Seq(Proposal)
  BY DEF IInv, ProposalsOK
<1>3. \A id \in DOMAIN proposals : proposals'[id] = proposals[id]
  BY <1>1, <1>2, LenProperties
<1> QED BY <1>3, AdvanceSame DEF AllAdvance

LEMMA CloseAdvances ==
  ASSUME IInv, NEW id \in DOMAIN proposals, Close(id)
  PROVE  AllAdvance
<1> DEFINE q == [proposals[id] EXCEPT !.status = "Rejected"]
<1>1. /\ proposals[id] \in Proposal /\ proposals[id].status = "Open"
      /\ "Rejected" \in ProposalStatus
  BY InvariantSays DEF Close, ProposalStatus
<1>2. Advances(proposals[id], q)
  BY <1>1, StatusAdvances
<1>3. proposals' = [proposals EXCEPT ![id] = q]
  BY DEF Close
<1> HIDE DEF q
<1> QED BY <1>2, <1>3, OneAdvances

LEMMA ExecuteAdvances ==
  ASSUME IInv, NEW id \in DOMAIN proposals, Execute(id)
  PROVE  AllAdvance
<1>1. proposals[id].status = "Passed"
  BY DEF Execute, ExecuteEditTrustedCircle, ExecuteAddVotingMembers,
     ExecuteAddRemoveNonVotingMembers, ExecuteWhitelistContract, ExecuteRemoveContract,
     ExecutePunishMembers, Executable
<1>2. CASE ExecutePunishMembers(id)
  <2>1. \E L : proposals' = adjust_open_proposals(executed(id), L)
    BY <1>2 DEF ExecutePunishMembers
  <2> QED BY <1>1, <2>1, PunishAdvances
<1>3. CASE ~ExecutePunishMembers(id)
  <2>1. proposals' = executed(id)
    BY <1>3 DEF Execute, ExecuteEditTrustedCircle, ExecuteAddVotingMembers,
       ExecuteAddRemoveNonVotingMembers, ExecuteWhitelistContract, ExecuteRemoveContract,
       whitelist_contract_addr, remove_contract_addr, AddRemove
  <2> QED BY <1>1, <2>1, ExecutedAdvances, OneAdvances
<1> QED BY <1>2, <1>3

LEMMA NextAdvances == IInv /\ [Next]_vars => AllAdvance
<1> SUFFICES ASSUME IInv, [Next]_vars PROVE AllAdvance
  OBVIOUS
<1>1. ASSUME NEW a \in Addr,
             \/ \E amount \in Payments : DepositEscrow(a, amount)
             \/ ReturnEscrow(a) \/ LeaveImmediately(a) \/ WithdrawRewards(a)
      PROVE  AllAdvance
  BY <1>1, NoneAdvances DEF DepositEscrow, ReturnEscrow, LeaveImmediately, WithdrawRewards,
     proposal_vars
<1>2. ASSUME NEW a \in Addr,
             LeaveTrustedCircle(a) \/ \E content \in Contents : Propose(a, content)
      PROVE  AllAdvance
  BY <1>2, LeaveAdvances, ProposeAdvances
<1>3. ASSUME NEW id \in DOMAIN proposals, NEW a \in Addr, NEW vote \in CastVotes,
             Vote(a, id, vote)
      PROVE  AllAdvance
  BY <1>3, VoteAdvances
<1>4. ASSUME NEW id \in DOMAIN proposals, Execute(id) \/ Close(id)
      PROVE  AllAdvance
  BY <1>4, ExecuteAdvances, CloseAdvances
<1>5. CASE CheckPending \/ DistributeRewards \/ NextBlock
           \/ \E amount \in Rewards : SendRewards(amount)
  BY <1>5, NoneAdvances DEF CheckPending, DistributeRewards, NextBlock, SendRewards,
     proposal_vars
<1>6. CASE UNCHANGED vars
  BY <1>6, NoneAdvances DEF vars, proposal_vars
<1> QED BY <1>1, <1>2, <1>3, <1>4, <1>5, <1>6 DEF Next

\* Every proposal is decided once and executed at most once, after it passed.
THEOREM Decisions == Spec => DecidedOnce
<1>1. IInv /\ [Next]_vars => AllAdvance
  BY NextAdvances
<1> QED BY <1>1, Invariant, PTL DEF Spec, DecidedOnce

-----------------------------------------------------------------------------
\* Admission.  NoEntry says that a change of the escrows lets nobody in:
\* strangers stay strangers, non-voting members stay non-voting or leave.
\* Every handler lets nobody in, or it checked the ones it lets in.

Outside == {"None", "NonVoting"}

NoEntry(es, fs) ==
  \A x \in Addr : /\ es[x].status = "None" => fs[x].status = "None"
                  /\ es[x].status \in Outside => fs[x].status \in Outside

\* Proposals to vote members in name humans only: validate_proposal asks once,
\* the execution relies on it
HumanVoters(ps) ==
  \A id \in DOMAIN ps :
    ps[id].content.kind = "AddVotingMembers" => human(voters_of(ps[id].content))

AInv == OnlyAllowedMembers /\ HumanVoters(proposals)

-----------------------------------------------------------------------------
\* Changes that let nobody in

LEMMA NoEntryTransitive ==
  ASSUME NEW es, NEW fs, NEW gs, NoEntry(es, fs), NoEntry(fs, gs)
  PROVE  NoEntry(es, gs)
BY DEF NoEntry

\* Statuses change only of who is in already, or become "None".
LEMMA Insiders ==
  ASSUME NEW es, NEW fs,
         \A x \in Addr : \/ fs[x].status = es[x].status
                         \/ fs[x].status = "None"
                         \/ es[x].status \notin Outside
  PROVE  NoEntry(es, fs)
BY DEF NoEntry, Outside

LEMMA AllowedKept ==
  ASSUME OnlyAllowedMembers, NoEntry(escrows, escrows')
  PROVE  OnlyAllowedMembers'
BY CircleAssumption DEF OnlyAllowedMembers, NoEntry, Outside

LEMMA PromoteNoEntry ==
  ASSUME NEW s, MembersOK(s), NEW A \in SUBSET WithStatus(s, "PendingPaid"), NEW h \in Nat
  PROVE  NoEntry(s.escrows, promote(s, A, h).escrows)
<1> DEFINE fs == promote(s, A, h).escrows
<1>1. fs = [x \in Addr |-> IF x \in A THEN Become(s.escrows[x], "Voting", 0, 0)
                                      ELSE s.escrows[x]]
  BY PromoteMembers
<1>2. \A x \in A : s.escrows[x].status \notin Outside
  BY DEF WithStatus, Outside
<1> HIDE DEF fs
<1> QED BY <1>1, <1>2, Insiders DEF fs

LEMMA ConvertNoEntry ==
  ASSUME NEW s, StoreOK(s), NEW ready, NEW h \in Nat
  PROVE  NoEntry(s.escrows, convert_all_paid_members_to_voters(s, ready, h).escrows)
<1> DEFINE A == listed(s, ready) \cap WithStatus(s, "PendingPaid")
           t == promote(s, A, h)
           bs == [x \in DOMAIN s.batches |->
                    IF x \in ready THEN [s.batches[x] EXCEPT !.batch_promoted = TRUE]
                                   ELSE s.batches[x]]
<1>1. MembersOK(t) /\ NoEntry(s.escrows, t.escrows)
  BY PromoteMembers, PromoteNoEntry DEF StoreOK
<1>2. convert_all_paid_members_to_voters(s, ready, h) = [t EXCEPT !.batches = bs]
  BY DEF convert_all_paid_members_to_voters
<1> HIDE DEF t, bs
<1>3. [t EXCEPT !.batches = bs].escrows = t.escrows
  BY <1>1 DEF MembersOK, StoreFields
<1> QED BY <1>1, <1>2, <1>3

LEMMA UpdateNoEntry ==
  ASSUME NEW s, StoreOK(s), NEW a \in WithStatus(s, "PendingPaid"),
         NEW id \in DOMAIN s.batches, NEW time \in Nat, NEW h \in Nat
  PROVE  NoEntry(s.escrows, update_batch_after_escrow_paid(s, a, id, time, h).escrows)
<1> DEFINE bs == [s.batches EXCEPT ![id].waiting_escrow = @ - 1]
           t == [s EXCEPT !.batches = bs]
           u == [s EXCEPT !.batches[id].waiting_escrow = @ - 1]
<1>1. BatchesTyped(bs)
  BY DEF StoreOK, BatchesTyped, Batch
<1>2. u = t
  OBVIOUS
<1>3. StoreOK(t) /\ t.escrows = s.escrows
  <2> HIDE DEF bs
  <2> QED BY <1>1, ReplaceBatches DEF StoreOK
<1> HIDE DEF t
<1>4. NoEntry(s.escrows, t.escrows)
  BY <1>3, Insiders
<1>5. NoEntry(s.escrows, promote(t, {a}, h).escrows)
  <2>1. {a} \in SUBSET WithStatus(t, "PendingPaid")
    BY <1>3 DEF WithStatus
  <2> QED BY <2>1, <1>3, PromoteNoEntry DEF StoreOK
<1>6. NoEntry(s.escrows, convert_all_paid_members_to_voters(t, {id}, h).escrows)
  BY <1>3, ConvertNoEntry
<1> QED BY <1>2, <1>4, <1>5, <1>6 DEF update_batch_after_escrow_paid

LEMMA DemoteNoEntry ==
  ASSUME NEW s, StoreOK(s), NEW A \in SUBSET Addr, NEW V, NEW h, NEW id,
         \A x \in A : s.escrows[x].status \notin Outside
  PROVE  NoEntry(s.escrows, set_status(strip_points(s, V, h), A, "Pending", id, 0).escrows)
<1> DEFINE fs == set_status(strip_points(s, V, h), A, "Pending", id, 0).escrows
<1>1. fs = [x \in Addr |-> IF x \in A THEN Become(s.escrows[x], "Pending", id, 0)
                                      ELSE s.escrows[x]]
  BY DEF StoreOK, MembersOK, StoreFields, strip_points, save_points, set_status
<1> HIDE DEF fs
<1> QED BY <1>1, Insiders DEF fs

\* check_pending promotes and demotes members; both are in already.
LEMMA PendingEscrowNoEntry ==
  ASSUME NEW s, StoreOK(s), NEW k, CircleOK(k), NEW h \in Nat, now \in Nat
  PROVE  NoEntry(s.escrows, check_pending_escrow(s, k, h).escrows)
<1>0. k.escrow_pending.amount \in Nat /\ k.escrow_amount \in Nat
  BY DEF CircleOK, CircleType, PendingEscrow
<1>1. CASE escrow_due(k) /\ k.escrow_pending.amount > k.escrow_amount
  <2> DEFINE D == short_voters(s, k)
             id == k.escrow_pending.proposal_id
             t == set_status(strip_points(s, D, h), D, "Pending", id, 0)
  <2>1. /\ D \in SUBSET Members(s) /\ D \in SUBSET Addr /\ D = D \cap WithStatus(s, "Voting")
        /\ \A x \in D : s.escrows[x].status \notin Outside
    BY DEF short_voters, WithStatus, Members, Outside
  <2>2. id \in Nat
    BY DEF CircleOK, CircleType, PendingEscrow
  <2>3. Cardinality(D) \in Nat
    BY <2>1, AddrSubsets
  <2>4. check_pending_escrow(s, k, h) = create_batch(t, id, now, D, Cardinality(D))
    <3>1. check_pending_escrow(s, k, h) = demote_short_voters(s, k, h)
      BY <1>0, <1>1 DEF check_pending_escrow
    <3> QED BY <3>1 DEF demote_short_voters
  <2> HIDE DEF D, id
  <2>5. StoreOK(t) /\ NoEntry(s.escrows, t.escrows)
    BY <2>1, <2>2, Demoted, DemoteNoEntry
  <2> HIDE DEF t
  <2>6. create_batch(t, id, now, D, Cardinality(D)).escrows = t.escrows
    BY <2>1, <2>2, <2>3, <2>5, CreateBatch
  <2> QED BY <2>4, <2>5, <2>6
<1>2. CASE escrow_due(k) /\ k.escrow_pending.amount < k.escrow_amount
  <2> DEFINE es == [x \in Addr |->
               IF x \in paid_pending(s, k) THEN [s.escrows[x] EXCEPT !.status = "PendingPaid"]
                                           ELSE s.escrows[x]]
  <2>1. check_pending_escrow(s, k, h) = [s EXCEPT !.escrows = es]
    BY <1>0, <1>2 DEF check_pending_escrow, promote_paid_pending
  <2>2. \A x \in paid_pending(s, k) : s.escrows[x].status \notin Outside
    BY DEF paid_pending, WithStatus, Outside
  <2>3. NoEntry(s.escrows, es)
    BY <2>2, Insiders
  <2> HIDE DEF es
  <2>4. [s EXCEPT !.escrows = es].escrows = es
    BY DEF StoreOK, MembersOK, StoreFields
  <2> QED BY <2>1, <2>3, <2>4
<1>3. CASE ~escrow_due(k) \/ k.escrow_pending.amount = k.escrow_amount
  <2>1. check_pending_escrow(s, k, h) = s
    BY <1>0, <1>3 DEF check_pending_escrow
  <2> QED BY <2>1, Insiders
<1> QED BY <1>0, <1>1, <1>2, <1>3

LEMMA PendingNoEntry ==
  ASSUME NEW s, StoreOK(s), NEW k, CircleOK(k), NEW h \in Nat, now \in Nat
  PROVE  NoEntry(s.escrows, check_pending(s, k, h).escrows)
<1> DEFINE t == check_pending_escrow(s, k, h)
<1>1. StoreOK(t) /\ NoEntry(s.escrows, t.escrows)
  BY PendingEscrowChecked, PendingEscrowNoEntry
<1>2. check_pending(s, k, h) = convert_all_paid_members_to_voters(t, ready_batches(t, now), h)
  BY DEF check_pending
<1> HIDE DEF t
<1>3. NoEntry(t.escrows, check_pending(s, k, h).escrows)
  BY <1>1, <1>2, ConvertNoEntry
<1> QED BY <1>1, <1>3, NoEntryTransitive

-----------------------------------------------------------------------------
\* One lemma per message that changes a status: who gets in was allowed to

LEMMA DepositAdmits ==
  ASSUME IInv, NEW a \in Addr, NEW amount \in Payments, DepositEscrow(a, amount)
  PROVE  NoEntry(escrows, escrows')
<1> DEFINE e == escrows[a]
           paid == e.paid + amount
           s == [Store EXCEPT !.escrows[a].paid = paid]
           complete == e.status = "Pending" /\ paid >= get_escrow(circle)
           t == [s EXCEPT !.escrows[a].status = "PendingPaid"]
<1>1. e \in EscrowStatus /\ amount \in Nat /\ escrows \in [Addr -> EscrowStatus]
  BY InvariantSays, CircleAssumption DEF EscrowsOK
<1>2. paid \in Nat
  BY <1>1 DEF EscrowStatus
<1>3. StoreOK(Store) /\ now \in Nat /\ height \in Nat
  BY DEF IInv, BlockOK
<1> HIDE DEF paid
<1>4. StoreOK(s) /\ s.escrows = [escrows EXCEPT ![a].paid = paid]
  BY <1>2, <1>3, PayEscrow, StoreShape
<1> HIDE DEF s
<1>5. s.escrows[a].status = e.status /\ NoEntry(escrows, s.escrows)
  <2>1. \A x \in Addr : s.escrows[x].status = escrows[x].status
    BY <1>1, <1>4 DEF EscrowStatus
  <2> QED BY <2>1, Insiders
<1>6. CASE Commit(s)
  BY <1>5, <1>6 DEF Commit
<1>7. CASE /\ complete
           /\ can_update_batch(t, a, e.proposal_id, now)
           /\ Commit(update_batch_after_escrow_paid(t, a, e.proposal_id, now, height))
  <2>1. StoreOK(t) /\ a \in WithStatus(t, "PendingPaid")
    BY <1>4, <1>5, <1>7, PaidPending
  <2>2. NoEntry(s.escrows, t.escrows)
    <3> DEFINE es == [s.escrows EXCEPT ![a].status = "PendingPaid"]
    <3>1. t.escrows = es
      BY <1>4 DEF StoreOK, MembersOK, StoreFields
    <3>2. s.escrows \in [Addr -> EscrowStatus] /\ s.escrows[a].status \notin Outside
      BY <1>4, <1>5, <1>7 DEF StoreOK, MembersOK, Outside
    <3>3. \A x \in Addr : x # a => es[x] = s.escrows[x]
      BY <3>2
    <3> HIDE DEF es
    <3>4. NoEntry(s.escrows, es)
      BY <3>2, <3>3, Insiders
    <3> QED BY <3>1, <3>4
  <2>3. e.proposal_id \in DOMAIN t.batches
    BY <1>7 DEF can_update_batch
  <2> HIDE DEF t
  <2>4. NoEntry(t.escrows,
          update_batch_after_escrow_paid(t, a, e.proposal_id, now, height).escrows)
    BY <2>1, <2>3, <1>3, UpdateNoEntry
  <2>5. NoEntry(escrows, t.escrows)
    BY <2>2, <1>5, NoEntryTransitive
  <2> QED BY <2>4, <2>5, <1>7, NoEntryTransitive DEF Commit
<1> QED BY <1>6, <1>7 DEF DepositEscrow, paid, s

\* A refund empties the escrow of a leaver, or lowers that of a voter.
LEMMA ReturnAdmits ==
  ASSUME IInv, NEW a \in Addr, ReturnEscrow(a)
  PROVE  NoEntry(escrows, escrows')
<1> DEFINE refund == refundable(escrows[a])
           s == [Store EXCEPT !.escrows[a].paid = @ - refund]
           t == remove_members(Store, {a}, height)
<1>1. /\ escrows[a].status \in {"Voting", "Leaving"}
      /\ Commit(IF refund = escrows[a].paid THEN t ELSE s)
  BY DEF ReturnEscrow
<1>2. \A x \in Addr : x # a => s.escrows[x] = escrows[x] /\ t.escrows[x] = escrows[x]
  BY StoreShape DEF Store, StoreFields, remove_members, save_points
<1> HIDE DEF s, t, refund
<1>3. \A x \in Addr : x # a => escrows'[x] = escrows[x]
  BY <1>1, <1>2 DEF Commit
<1>4. escrows[a].status \notin Outside
  BY <1>1 DEF Outside
<1> QED BY <1>3, <1>4, Insiders

LEMMA LeaveImmediatelyAdmits ==
  ASSUME IInv, NEW a \in Addr, LeaveImmediately(a)
  PROVE  NoEntry(escrows, escrows')
<1>1. escrows' = [x \in Addr |-> IF x \in {a} THEN NoEscrow ELSE escrows[x]]
  BY StoreShape DEF LeaveImmediately, Commit, Store, StoreFields, remove_members, save_points
<1> QED BY <1>1, Insiders DEF NoEscrow

LEMMA LeaveTrustedCircleAdmits ==
  ASSUME IInv, NEW a \in Addr, LeaveTrustedCircle(a)
  PROVE  NoEntry(escrows, escrows')
<1>1. {a} \in SUBSET Members(Store) /\ escrows[a].status \notin Outside
  BY StoreShape DEF LeaveTrustedCircle, Members, Outside
<1>2. trigger_long_leave(Store, {a}).escrows = [x \in Addr |->
        IF x \in {a} THEN Become(Store.escrows[x], "Leaving", 0, claim_time)
                     ELSE Store.escrows[x]]
  BY <1>1, Leavers DEF IInv
<1>3. escrows' = trigger_long_leave(Store, {a}).escrows
  BY DEF LeaveTrustedCircle, Commit
<1> QED BY <1>1, <1>2, <1>3, StoreShape, Insiders

\* The check_pending in Propose and in CheckPending.
LEMMA ProposeAdmits ==
  ASSUME IInv, NEW a \in Addr, NEW content \in Contents, Propose(a, content)
  PROVE  NoEntry(escrows, escrows')
<1>1. /\ StoreOK(Store) /\ CircleOK(circle) /\ now \in Nat /\ height \in Nat
      /\ height > 0 => height - 1 \in Nat
  BY DEF IInv, BlockOK
<1>2. CASE height > 0
  <2>1. Commit(check_pending(Store, circle, height - 1))
    BY <1>2 DEF Propose
  <2> QED BY <2>1, <1>1, <1>2, PendingNoEntry, StoreShape DEF Commit
<1>3. CASE ~(height > 0)
  <2>1. escrows' = escrows
    BY <1>3, StoreShape DEF Propose, Commit
  <2> QED BY <2>1, Insiders
<1> QED BY <1>2, <1>3

LEMMA CheckPendingAdmits ==
  ASSUME IInv, CheckPending
  PROVE  NoEntry(escrows, escrows')
<1>1. StoreOK(Store) /\ CircleOK(circle) /\ now \in Nat /\ height \in Nat
  BY DEF IInv, BlockOK
<1> QED BY <1>1, PendingNoEntry, StoreShape DEF CheckPending, Commit

\* The ones voted in were checked: for being human when they were proposed,
\* against the deny list now.
LEMMA AddVotingAdmits ==
  ASSUME IInv, AInv, NEW id \in DOMAIN proposals, ExecuteAddVotingMembers(id)
  PROVE  OnlyAllowedMembers'
<1> DEFINE voters == voters_of(proposals[id].content)
           added == {a \in voters : escrows[a].status \in {"None", "NonVoting"}}
           count == Len(proposals[id].content.voters)
           grace == now + voting_period_secs(circle.rules)
           s == create_batch(Store, id, grace, voters, count)
           t == add_members(s, added, "Pending", id, height)
<1>1. /\ proposals[id].content.kind = "AddVotingMembers"
      /\ allowed(voters) /\ Commit(t)
  BY DEF ExecuteAddVotingMembers, Executable
<1>2. human(voters)
  BY <1>1 DEF AInv, HumanVoters
<1> HIDE DEF voters
<1>3. added \cap Denied = {} /\ added \cap Contracts = {}
  BY <1>1, <1>2 DEF allowed, human, is_contract
<1>4. DOMAIN s = StoreFields /\ s.escrows = escrows
  BY StoreShape DEF create_batch, Store, StoreFields
<1> HIDE DEF s, added
<1>5. t.escrows = [x \in Addr |-> IF x \in added THEN Become(NoEscrow, "Pending", id, 0)
                                                 ELSE escrows[x]]
  BY <1>4 DEF StoreFields, add_members, save_points
<1> HIDE DEF t
<1>6. \A x \in Denied \cup Contracts : escrows'[x] = escrows[x]
  BY <1>1, <1>3, <1>5, CircleAssumption DEF Commit
<1> QED BY <1>6 DEF AInv, OnlyAllowedMembers

\* A contract may be added, without a vote; the denied are not.
LEMMA AddRemoveAdmits ==
  ASSUME IInv, AInv, NEW id \in DOMAIN proposals, NEW add, NEW remove, AddRemove(id, add, remove)
  PROVE  OnlyAllowedMembers'
<1> DEFINE added == {a \in add : points[a] = ABSENT}
           s == add_members(Store, added, "NonVoting", 0, height)
           gone == remove \cap Members(s)
           t == remove_members(s, gone, height)
<1>1. allowed(add) /\ Commit(t)
  BY DEF AddRemove
<1>2. added \cap Denied = {}
  BY <1>1 DEF allowed
<1> HIDE DEF added
<1>3. /\ DOMAIN s = StoreFields
      /\ s.escrows = [x \in Addr |-> IF x \in added THEN Become(NoEscrow, "NonVoting", 0, 0)
                                                    ELSE escrows[x]]
  BY StoreShape DEF Store, StoreFields, add_members, save_points
<1> HIDE DEF s, gone
<1>4. t.escrows = [x \in Addr |-> IF x \in gone THEN NoEscrow ELSE s.escrows[x]]
  BY <1>3 DEF StoreFields, remove_members, save_points
<1> HIDE DEF t
<1>5. NoEscrow.status = "None" /\ Become(NoEscrow, "NonVoting", 0, 0).status = "NonVoting"
  BY DEF NoEscrow, Become
<1>6. \A x \in Addr :
        \/ escrows'[x].status = escrows[x].status
        \/ escrows'[x].status = "None"
        \/ x \notin Denied /\ escrows'[x].status = "NonVoting"
  BY <1>1, <1>2, <1>3, <1>4, <1>5 DEF Commit
<1> QED BY <1>6, CircleAssumption DEF AInv, OnlyAllowedMembers

\* Only members that were voted in are punished.
LEMMA PunishAdmits ==
  ASSUME IInv, NEW id \in DOMAIN proposals, ExecutePunishMembers(id)
  PROVE  NoEntry(escrows, escrows')
<1> DEFINE punishments == proposals[id].content.punishments
           named == DOMAIN punishments
           left(a) == escrow_remaining(escrows[a].paid, punishments[a])
           kicked == {a \in named : punishments[a].kick_out}
           demoted == {a \in named \ kicked : left(a) < get_escrow(circle)}
           voting == WithStatus(Store, "Voting")
           slashed == [Store EXCEPT !.escrows = [a \in Addr |->
                         IF a \in named THEN [escrows[a] EXCEPT !.paid = left(a)]
                                        ELSE escrows[a]]]
           u == trigger_long_leave(slashed, kicked)
           s == set_status(strip_points(u, demoted \cap voting, height),
                           demoted, "Pending", id, 0)
           t == create_batch(s, id, now, demoted, Cardinality(demoted))
<1>1. /\ \A a \in named : escrows[a].status \notin {"None", "NonVoting"}
      /\ Commit(t)
  BY DEF ExecutePunishMembers
<1>2. /\ DOMAIN slashed = StoreFields
      /\ \A x \in Addr : x \notin named => slashed.escrows[x] = escrows[x]
  BY StoreShape DEF Store, StoreFields
<1>3. kicked \subseteq named /\ demoted \subseteq named
  OBVIOUS
<1> HIDE DEF slashed, named, kicked, demoted, voting
<1>4. /\ DOMAIN u = StoreFields
      /\ \A x \in Addr : x \notin named => u.escrows[x] = escrows[x]
  BY <1>2, <1>3 DEF trigger_long_leave, set_status, strip_points, save_points, StoreFields
<1> HIDE DEF u
<1>5. /\ DOMAIN s = StoreFields
      /\ \A x \in Addr : x \notin named => s.escrows[x] = escrows[x]
  BY <1>3, <1>4 DEF set_status, strip_points, save_points, StoreFields
<1> HIDE DEF s
<1>6. t.escrows = s.escrows
  BY <1>5 DEF create_batch, StoreFields
<1> HIDE DEF t
<1>7. \A x \in Addr : escrows'[x] = escrows[x] \/ escrows[x].status \notin Outside
  BY <1>1, <1>5, <1>6 DEF Commit, Outside
<1> QED BY <1>7, Insiders

-----------------------------------------------------------------------------
\* Proposals that name humans only

\* Contents stay, so a step that makes no proposal keeps the humans.
LEMMA HumanKept ==
  ASSUME IInv, HumanVoters(proposals), AllAdvance, DOMAIN proposals' = DOMAIN proposals
  PROVE  HumanVoters(proposals')
BY DEF HumanVoters, AllAdvance, Advances

\* A new one was validated.
LEMMA ProposeHuman ==
  ASSUME IInv, HumanVoters(proposals), NEW a \in Addr, NEW content \in Contents,
         Propose(a, content)
  PROVE  HumanVoters(proposals')
<1>1. PICK s, k, p : /\ ValidProposal(s, k, content)
                     /\ p.content = content /\ "status" \in DOMAIN p
                     /\ proposals' = Append(proposals, update_status(p, now))
  <2> DEFINE s == IF height > 0 THEN check_pending(Store, circle, height - 1) ELSE Store
             k == IF height > 0 THEN enforce_escrow(circle) ELSE circle
             p == [start_height |-> height, expires |-> now + voting_period_secs(k.rules),
                   content |-> content, status |-> "Open", rules |-> k.rules,
                   total_points |-> s.total,
                   votes |-> add_vote(NoVotes, "Yes", vote_power(s.points[a]))]
  <2>1. ValidProposal(s, k, content) /\ create_proposal(update_status(p, now))
    BY DEF Propose
  <2>2. p.content = content /\ "status" \in DOMAIN p
    OBVIOUS
  <2> HIDE DEF s, k, p
  <2> QED BY <2>1, <2>2 DEF create_proposal
<1> DEFINE q == update_status(p, now)
<1>2. q.content = content
  BY <1>1 DEF update_status
<1>3. content.kind = "AddVotingMembers" => human(voters_of(content))
  BY <1>1 DEF ValidProposal
<1> HIDE DEF q
<1>4. /\ proposals \in Seq(Proposal) /\ proposals' = Append(proposals, q)
      /\ Len(proposals) \in Nat /\ DOMAIN proposals = 1..Len(proposals)
  BY <1>1, LenProperties DEF IInv, ProposalsOK, q
<1>5. /\ DOMAIN proposals' = 1..Len(proposals) + 1
      /\ \A id \in DOMAIN proposals' :
           proposals'[id] = IF id = Len(proposals) + 1 THEN q ELSE proposals[id]
  BY <1>4
<1> QED BY <1>2, <1>3, <1>4, <1>5 DEF HumanVoters

\* Every other step keeps the set of proposals.
LEMMA NextHuman ==
  ASSUME IInv, HumanVoters(proposals), [Next]_vars
  PROVE  HumanVoters(proposals')
<1>0. AllAdvance
  BY NextAdvances
<1>1. ASSUME NEW a \in Addr, NEW content \in Contents, Propose(a, content)
      PROVE  HumanVoters(proposals')
  BY <1>1, ProposeHuman
<1>2. ASSUME UNCHANGED proposals
      PROVE  HumanVoters(proposals')
  BY <1>2
<1>3. ASSUME NEW a \in Addr,
             \/ \E amount \in Payments : DepositEscrow(a, amount)
             \/ ReturnEscrow(a) \/ LeaveImmediately(a) \/ WithdrawRewards(a)
      PROVE  HumanVoters(proposals')
  BY <1>2, <1>3 DEF DepositEscrow, ReturnEscrow, LeaveImmediately, WithdrawRewards,
     proposal_vars
<1>4. ASSUME NEW a \in Addr, LeaveTrustedCircle(a)
      PROVE  HumanVoters(proposals')
  <2>1. DOMAIN proposals' = DOMAIN proposals
    BY <1>4 DEF LeaveTrustedCircle, adjust_open_proposals
  <2> QED BY <2>1, <1>0, HumanKept
<1>5. ASSUME NEW id \in DOMAIN proposals,
             Close(id) \/ \E a \in Addr, vote \in CastVotes : Vote(a, id, vote)
      PROVE  HumanVoters(proposals')
  <2>1. DOMAIN proposals' = DOMAIN proposals
    BY <1>5 DEF Close, Vote
  <2> QED BY <2>1, <1>0, HumanKept
<1>6. ASSUME NEW id \in DOMAIN proposals, Execute(id)
      PROVE  HumanVoters(proposals')
  <2>1. DOMAIN executed(id) = DOMAIN proposals
    BY DEF executed
  <2>2. \/ proposals' = executed(id)
        \/ \E L : proposals' = adjust_open_proposals(executed(id), L)
    BY <1>6 DEF Execute, ExecuteEditTrustedCircle, ExecuteAddVotingMembers,
       ExecuteAddRemoveNonVotingMembers, ExecuteWhitelistContract, ExecuteRemoveContract,
       whitelist_contract_addr, remove_contract_addr, AddRemove, ExecutePunishMembers
  <2>3. DOMAIN proposals' = DOMAIN proposals
    BY <2>1, <2>2 DEF adjust_open_proposals
  <2> QED BY <2>3, <1>0, HumanKept
<1>7. CASE CheckPending \/ DistributeRewards \/ NextBlock
           \/ \E amount \in Rewards : SendRewards(amount)
  BY <1>2, <1>7 DEF CheckPending, DistributeRewards, NextBlock, SendRewards, proposal_vars
<1>8. CASE UNCHANGED vars
  BY <1>2, <1>8 DEF vars, proposal_vars
<1> QED BY <1>1, <1>3, <1>4, <1>5, <1>6, <1>7, <1>8 DEF Next

-----------------------------------------------------------------------------
\* The theorem

LEMMA InitAdmits == Init => AInv
<1> SUFFICES ASSUME Init PROVE AInv
  OBVIOUS
<1>1. HumanVoters(proposals)
  BY DEF Init, HumanVoters
<1> DEFINE empty == [escrows |-> [a \in Addr |-> NoEscrow],
                     points |-> [a \in Addr |-> ABSENT],
                     changelog |-> [a \in Addr |-> <<>>], total |-> 0,
                     batches |-> <<>>, distribution |-> InitDistribution]
           founded == [save_points(empty, {Creator}, VOTING_POINTS, InitialHeight)
                         EXCEPT !.total = VOTING_POINTS]
           first(creator) == [founded EXCEPT !.escrows[Creator] = creator]
           L == InitialMembers \ {Creator}
<1>2. PICK creator :
        /\ escrows = add_members(first(creator), L, "NonVoting", 0, InitialHeight).escrows
        /\ InitialMembers \cap Denied = {}
  BY DEF Init
<1>3. DOMAIN founded = StoreFields /\ founded.escrows = [a \in Addr |-> NoEscrow]
  BY DEF save_points, StoreFields
<1> HIDE DEF founded
<1>4. /\ DOMAIN first(creator) = StoreFields
      /\ \A x \in Addr \ {Creator} : first(creator).escrows[x] = NoEscrow
  BY <1>3 DEF StoreFields
<1> HIDE DEF first
<1>5. escrows = [x \in Addr |-> IF x \in L THEN Become(NoEscrow, "NonVoting", 0, 0)
                                           ELSE first(creator).escrows[x]]
  BY <1>2, <1>4 DEF add_members, save_points, StoreFields
<1>6. NoEscrow.status = "None" /\ Become(NoEscrow, "NonVoting", 0, 0).status = "NonVoting"
  BY DEF NoEscrow, Become
<1>7. \A x \in Addr \ {Creator} :
        escrows[x].status = IF x \in InitialMembers THEN "NonVoting" ELSE "None"
  BY <1>4, <1>5, <1>6
<1>8. OnlyAllowedMembers
  BY <1>2, <1>7, CircleAssumption DEF OnlyAllowedMembers
<1> QED BY <1>1, <1>8 DEF AInv

LEMMA NextAdmits == IInv /\ AInv /\ [Next]_vars => AInv'
<1> SUFFICES ASSUME IInv, AInv, [Next]_vars PROVE AInv'
  OBVIOUS
<1>1. OnlyAllowedMembers /\ HumanVoters(proposals')
  BY NextHuman DEF AInv
<1> SUFFICES OnlyAllowedMembers'
  BY <1>1 DEF AInv, HumanVoters
<1>2. ASSUME NoEntry(escrows, escrows') PROVE OnlyAllowedMembers'
  BY <1>1, <1>2, AllowedKept
<1>3. ASSUME UNCHANGED escrows PROVE OnlyAllowedMembers'
  BY <1>2, <1>3, Insiders
<1>4. ASSUME NEW a \in Addr,
             \/ \E amount \in Payments : DepositEscrow(a, amount)
             \/ ReturnEscrow(a) \/ LeaveImmediately(a) \/ LeaveTrustedCircle(a)
             \/ \E content \in Contents : Propose(a, content)
      PROVE  OnlyAllowedMembers'
  BY <1>2, <1>4, DepositAdmits, ReturnAdmits, LeaveImmediatelyAdmits,
     LeaveTrustedCircleAdmits, ProposeAdmits
<1>5. ASSUME NEW a \in Addr, WithdrawRewards(a) PROVE OnlyAllowedMembers'
  BY <1>3, <1>5 DEF WithdrawRewards
<1>6. ASSUME NEW id \in DOMAIN proposals,
             Close(id) \/ \E a \in Addr, vote \in CastVotes : Vote(a, id, vote)
      PROVE  OnlyAllowedMembers'
  BY <1>3, <1>6 DEF Close, Vote, store_vars
<1>7. ASSUME NEW id \in DOMAIN proposals, Execute(id) PROVE OnlyAllowedMembers'
  <2>1. CASE ExecuteEditTrustedCircle(id)
    BY <2>1, <1>3 DEF ExecuteEditTrustedCircle, store_vars
  <2>2. CASE ExecuteAddVotingMembers(id)
    BY <2>2, AddVotingAdmits
  <2>3. CASE ExecutePunishMembers(id)
    BY <2>3, <1>2, PunishAdmits
  <2>4. CASE \/ ExecuteAddRemoveNonVotingMembers(id)
             \/ ExecuteWhitelistContract(id) \/ ExecuteRemoveContract(id)
    BY <2>4, AddRemoveAdmits DEF ExecuteAddRemoveNonVotingMembers, ExecuteWhitelistContract,
       ExecuteRemoveContract, whitelist_contract_addr, remove_contract_addr
  <2> QED BY <1>7, <2>1, <2>2, <2>3, <2>4 DEF Execute
<1>8. CASE CheckPending
  BY <1>2, <1>8, CheckPendingAdmits
<1>9. CASE DistributeRewards \/ NextBlock \/ \E amount \in Rewards : SendRewards(amount)
  BY <1>3, <1>9 DEF DistributeRewards, NextBlock, SendRewards, store_vars
<1>10. CASE UNCHANGED vars
  BY <1>3, <1>10 DEF vars, store_vars
<1> QED BY <1>4, <1>5, <1>6, <1>7, <1>8, <1>9, <1>10 DEF Next

\* Whatever the members propose, vote, pay and leave: no denied address gets
\* into the circle, and no contract gets a vote or a seat that leads to one.
THEOREM Admission == Spec => []OnlyAllowedMembers
<1>1. Init => AInv
  BY InitAdmits
<1>2. IInv /\ AInv /\ [Next]_vars => AInv'
  BY NextAdmits
<1>3. AInv => OnlyAllowedMembers
  BY DEF AInv
<1> QED BY <1>1, <1>2, <1>3, Invariant, PTL DEF Spec

-----------------------------------------------------------------------------
\* Blocks follow each other, and time passes with them.
LEMMA TimePasses == IInv /\ [Next]_vars => now' \in Nat /\ now' >= now
<1> SUFFICES ASSUME IInv, [Next]_vars PROVE now' \in Nat /\ now' >= now
  OBVIOUS
<1>1. now \in Nat
  BY DEF IInv, BlockOK
<1>2. CASE NextBlock
  BY <1>1, <1>2, CircleAssumption DEF NextBlock
<1>3. CASE now' = now
  BY <1>1, <1>3
<1>4. ASSUME \/ \E a \in Addr : \/ \E amount \in Payments : DepositEscrow(a, amount)
                               \/ ReturnEscrow(a) \/ LeaveImmediately(a)
                               \/ LeaveTrustedCircle(a) \/ WithdrawRewards(a)
                               \/ \E content \in Contents : Propose(a, content)
             \/ CheckPending \/ DistributeRewards \/ UNCHANGED vars
             \/ \E amount \in Rewards : SendRewards(amount)
             \/ \E id \in DOMAIN proposals :
                  Close(id) \/ \E a \in Addr, vote \in CastVotes : Vote(a, id, vote)
      PROVE  now' = now
  BY <1>4 DEF DepositEscrow, ReturnEscrow, LeaveImmediately, LeaveTrustedCircle, Propose,
       WithdrawRewards, CheckPending, DistributeRewards, SendRewards, Close, Vote, vars,
       block_vars
<1>5. ASSUME NEW id \in DOMAIN proposals, Execute(id)
      PROVE  now' = now
  BY <1>5 DEF Execute, ExecuteEditTrustedCircle, ExecuteAddVotingMembers, block_vars,
       ExecuteAddRemoveNonVotingMembers, ExecuteWhitelistContract, ExecuteRemoveContract,
       whitelist_contract_addr, remove_contract_addr, AddRemove, ExecutePunishMembers
<1> QED BY <1>2, <1>3, <1>4, <1>5 DEF Next

-----------------------------------------------------------------------------
\* What a decision rests on.  A leaver lowers the total of an open proposal even
\* when it had no vote there (the run claim_early_pass), so a total may fall
\* below the votes cast: what passed is decided as long as it did not.

LEMMA VotesAdd ==
  ASSUME NEW votes \in Votes, NEW choice \in VoteOption, NEW n \in Nat
  PROVE  /\ add_vote(votes, choice, n) \in Votes
         /\ total_votes(add_vote(votes, choice, n)) = total_votes(votes) + n
         /\ add_vote(votes, choice, n)["Yes"] >= votes["Yes"]
         /\ add_vote(votes, choice, n)["Abstain"] >= votes["Abstain"]
BY DEF add_vote, total_votes, Votes, VoteOption

LEMMA VotesType ==
  ASSUME NEW votes \in Votes
  PROVE  /\ total_votes(votes) \in Nat
         /\ votes["Yes"] \in Nat /\ votes["Abstain"] \in Nat
         /\ votes["Abstain"] <= total_votes(votes)
BY DEF total_votes, Votes, VoteOption

LEMMA NeededOrder ==
  ASSUME NEW a \in Nat, NEW b \in Nat, NEW percentage \in Nat, a <= b
  PROVE  /\ votes_needed(a, percentage) <= votes_needed(b, percentage)
         /\ votes_needed(a, percentage) \in Nat /\ votes_needed(b, percentage) \in Nat
<1> DEFINE applied(n) == (percentage * (PRECISION_FACTOR * n)) \div DECIMAL_ONE
<1>1. PRECISION_FACTOR \in Nat \ {0} /\ DECIMAL_ONE \in Nat \ {0}
  BY RulesAssumption
<1>2. \A n \in Nat : percentage * (PRECISION_FACTOR * n) \in Nat
  BY <1>1
<1>3. percentage * (PRECISION_FACTOR * a) <= percentage * (PRECISION_FACTOR * b)
  BY <1>1, TimesOrder
<1>4. applied(a) \in Nat /\ applied(b) \in Nat /\ applied(a) <= applied(b)
  BY <1>1, <1>2, <1>3, Quotient, QuotientOrder
<1> HIDE DEF applied
<1>5. /\ applied(a) + PRECISION_FACTOR - 1 \in Nat
      /\ applied(b) + PRECISION_FACTOR - 1 \in Nat
      /\ applied(a) + PRECISION_FACTOR - 1 <= applied(b) + PRECISION_FACTOR - 1
  BY <1>1, <1>4
<1>6. /\ (applied(a) + PRECISION_FACTOR - 1) \div PRECISION_FACTOR
           <= (applied(b) + PRECISION_FACTOR - 1) \div PRECISION_FACTOR
      /\ (applied(a) + PRECISION_FACTOR - 1) \div PRECISION_FACTOR \in Nat
      /\ (applied(b) + PRECISION_FACTOR - 1) \div PRECISION_FACTOR \in Nat
  BY <1>1, <1>5, Quotient, QuotientOrder
<1> QED BY <1>6 DEF votes_needed, applied

\* The quorum, and enough Yes votes: of all points unless they abstain, or at
\* the end of those that were cast
Sure(p, t) ==
  /\ total_votes(p.votes) >= votes_needed(p.total_points, p.rules.quorum)
  /\ \/ p.votes["Yes"] >= votes_needed(p.total_points - p.votes["Abstain"], p.rules.threshold)
     \/ /\ t >= p.expires
        /\ p.votes["Yes"] >= votes_needed(total_votes(p.votes) - p.votes["Abstain"],
                                          p.rules.threshold)

LEMMA ProposalType ==
  ASSUME NEW p \in Proposal
  PROVE  /\ p.votes \in Votes /\ p.total_points \in Nat /\ p.expires \in Nat
         /\ p.rules.quorum \in Nat /\ p.rules.threshold \in Nat
         /\ p.status \in ProposalStatus /\ p.start_height \in Nat
BY RulesAssumption DEF Proposal, VotingRulesType

\* is_passed, on a total that covers the votes and is counted with 64 bits.
LEMMA PassIsSure ==
  ASSUME NEW p \in Proposal, NEW t \in Nat, total_votes(p.votes) <= p.total_points,
         p.total_points < U64_MODULUS, is_passed(p, t)
  PROVE  Sure(p, t)
<1> PICK all, abstain, m : all = p.total_points /\ abstain = p.votes["Abstain"]
                             /\ m = U64_MODULUS
  OBVIOUS
<1>1. all \in Nat /\ abstain \in Nat /\ m \in Nat \ {0} /\ abstain <= all /\ all < m
  BY ProposalType, VotesType, RulesAssumption
<1>2. (all - abstain) % m = all - abstain
  BY <1>1
<1> QED BY <1>2 DEF is_passed, Sure

\* A vote before the end cannot undo a decision.
LEMMA SureVoted ==
  ASSUME NEW p \in Proposal, NEW t \in Nat, t < p.expires, Sure(p, t),
         NEW q \in Proposal, q.total_points = p.total_points, q.rules = p.rules,
         NEW choice \in VoteOption, NEW n \in Nat, q.votes = add_vote(p.votes, choice, n),
         total_votes(q.votes) <= p.total_points
  PROVE  Sure(q, t)
<1> PICK all, yes, abstain, more_yes, more_abstain, threshold :
      /\ all = p.total_points /\ threshold = p.rules.threshold
      /\ yes = p.votes["Yes"] /\ abstain = p.votes["Abstain"]
      /\ more_yes = q.votes["Yes"] /\ more_abstain = q.votes["Abstain"]
  OBVIOUS
<1>1. /\ all \in Nat /\ threshold \in Nat /\ yes \in Nat /\ abstain \in Nat
      /\ more_yes \in Nat /\ more_abstain \in Nat
      /\ more_yes >= yes /\ more_abstain >= abstain /\ more_abstain <= all
      /\ total_votes(q.votes) >= total_votes(p.votes)
      /\ total_votes(q.votes) \in Nat /\ total_votes(p.votes) \in Nat
      /\ p.expires \in Nat /\ p.rules.quorum \in Nat
  <2>1. /\ p.votes \in Votes /\ all \in Nat /\ threshold \in Nat
        /\ p.expires \in Nat /\ p.rules.quorum \in Nat
    BY ProposalType
  <2>2. PICK more : more = add_vote(p.votes, choice, n)
    OBVIOUS
  <2>3. /\ more \in Votes /\ total_votes(more) = total_votes(p.votes) + n
        /\ more["Yes"] >= yes /\ more["Abstain"] >= abstain
    BY <2>1, <2>2, VotesAdd
  <2>4. /\ yes \in Nat /\ abstain \in Nat /\ total_votes(p.votes) \in Nat
    BY <2>1, VotesType
  <2>5. /\ more["Yes"] \in Nat /\ more["Abstain"] \in Nat /\ total_votes(more) \in Nat
        /\ more["Abstain"] <= total_votes(more)
    BY <2>3, VotesType
  <2>6. /\ total_votes(q.votes) = total_votes(more)
        /\ more_yes = more["Yes"] /\ more_abstain = more["Abstain"]
    BY <2>2
  <2>7. total_votes(more) <= all
    BY <2>6
  <2> QED BY <2>1, <2>3, <2>4, <2>5, <2>6, <2>7
<1>2. /\ total_votes(p.votes) >= votes_needed(all, p.rules.quorum)
      /\ yes >= votes_needed(all - abstain, threshold)
  BY <1>1 DEF Sure
<1>3. /\ all - more_abstain \in Nat /\ all - abstain \in Nat
      /\ all - more_abstain <= all - abstain
  BY <1>1
<1>4. /\ votes_needed(all - more_abstain, threshold) <= votes_needed(all - abstain, threshold)
      /\ votes_needed(all - more_abstain, threshold) \in Nat
      /\ votes_needed(all - abstain, threshold) \in Nat
      /\ votes_needed(all, p.rules.quorum) \in Nat
  BY <1>1, <1>3, NeededOrder
<1>5. /\ total_votes(q.votes) >= votes_needed(all, p.rules.quorum)
      /\ more_yes >= votes_needed(all - more_abstain, threshold)
  BY <1>1, <1>2, <1>4
<1> QED BY <1>5 DEF Sure

\* What PassedIsDecided asks of a proposal
HasPassed(p) ==
  /\ total_votes(p.votes) >= votes_needed(p.total_points, p.rules.quorum)
  /\ p.votes["Yes"] >= votes_needed(total_votes(p.votes) - p.votes["Abstain"],
                                    p.rules.threshold)

\* Counted at the end, a sure decision has its quorum and its threshold.
LEMMA SureSays ==
  ASSUME NEW p \in Proposal, NEW t, Sure(p, t), total_votes(p.votes) <= p.total_points
  PROVE  HasPassed(p)
<1> PICK all, yes, abstain, tally, threshold :
      /\ all = p.total_points /\ threshold = p.rules.threshold
      /\ yes = p.votes["Yes"] /\ abstain = p.votes["Abstain"]
      /\ tally = total_votes(p.votes)
  OBVIOUS
<1>1. /\ all \in Nat /\ threshold \in Nat /\ yes \in Nat /\ abstain \in Nat
      /\ tally \in Nat /\ abstain <= tally /\ tally <= all
  BY ProposalType, VotesType
<1>2. tally - abstain \in Nat /\ all - abstain \in Nat /\ tally - abstain <= all - abstain
  BY <1>1
<1>3. /\ votes_needed(tally - abstain, threshold) <= votes_needed(all - abstain, threshold)
      /\ votes_needed(tally - abstain, threshold) \in Nat
      /\ votes_needed(all - abstain, threshold) \in Nat
  BY <1>1, <1>2, NeededOrder
<1> QED BY <1>1, <1>3 DEF Sure, HasPassed

-----------------------------------------------------------------------------
\* The invariant of the decisions

\* One more address than a u64 counts would let the first total wrap
Few == Cardinality(Addr) < U64_MODULUS

Decided(p, t) ==
  /\ p.total_points < U64_MODULUS
  /\ /\ p.status \in {"Passed", "Executed"}
     /\ total_votes(p.votes) <= p.total_points
     => Sure(p, t)

PInv == \A id \in DOMAIN proposals : Decided(proposals[id], now)

\* A step of a proposal that takes no vote, at most lowers the total while it is
\* open, and passes nothing
Unvoted(p, q) ==
  /\ q.votes = p.votes /\ q.rules = p.rules /\ q.expires = p.expires
  /\ p.total_points < U64_MODULUS => q.total_points < U64_MODULUS
  /\ q.status \in {"Passed", "Executed"} =>
       p.status \in {"Passed", "Executed"} /\ q.total_points = p.total_points

LEMMA UnvotedDecided ==
  ASSUME NEW p \in Proposal, NEW q, NEW t \in Nat, NEW u \in Nat, t <= u,
         Decided(p, t), Unvoted(p, q)
  PROVE  Decided(q, u)
<1>1. q.total_points < U64_MODULUS
  BY DEF Decided, Unvoted
<1>2. ASSUME q.status \in {"Passed", "Executed"}, total_votes(q.votes) <= q.total_points
      PROVE  Sure(q, u)
  <2>1. /\ q.total_points = p.total_points /\ q.votes = p.votes /\ q.rules = p.rules
        /\ q.expires = p.expires /\ Sure(p, t)
    BY <1>2 DEF Decided, Unvoted
  <2>2. p.expires \in Nat
    BY ProposalType
  <2> QED BY <2>1, <2>2 DEF Sure
<1> QED BY <1>1, <1>2 DEF Decided

\* A vote, with the status that it brings about.
LEMMA VotedDecided ==
  ASSUME NEW p \in Proposal, NEW t \in Nat, t < p.expires, Decided(p, t),
         p.status \in {"Open", "Passed"},
         NEW v \in Proposal, v.total_points = p.total_points, v.rules = p.rules,
         v.status = p.status, v.expires = p.expires,
         NEW choice \in VoteOption, NEW n \in Nat, v.votes = add_vote(p.votes, choice, n)
  PROVE  Decided(update_status(v, t), t)
<1> DEFINE q == update_status(v, t)
<1>1. /\ q.votes = v.votes /\ q.rules = v.rules /\ q.expires = v.expires
      /\ q.total_points = v.total_points /\ q.status = current_status(v, t)
  BY DEF update_status, Proposal
<1> HIDE DEF q
<1>2. q.total_points < U64_MODULUS
  BY <1>1 DEF Decided
<1>3. ASSUME q.status \in {"Passed", "Executed"}, total_votes(q.votes) <= q.total_points
      PROVE  Sure(q, t)
  <2>1. total_votes(v.votes) <= v.total_points
    BY <1>1, <1>3
  <2>2. CASE p.status = "Open"
    <3>1. is_passed(v, t)
      BY <1>1, <1>3, <2>2 DEF current_status
    <3>2. Sure(v, t)
      BY <3>1, <2>1, PassIsSure DEF Decided
    <3> QED BY <1>1, <3>2 DEF Sure
  <2>3. CASE p.status = "Passed"
    <3>1. /\ total_votes(p.votes) \in Nat /\ p.total_points \in Nat
          /\ total_votes(v.votes) = total_votes(p.votes) + n
      <4>1. p.votes \in Votes /\ p.total_points \in Nat
        BY ProposalType
      <4>2. total_votes(p.votes) \in Nat
        BY <4>1, VotesType
      <4>3. total_votes(add_vote(p.votes, choice, n)) = total_votes(p.votes) + n
        BY <4>1, VotesAdd
      <4> QED BY <4>1, <4>2, <4>3
    <3>2. total_votes(p.votes) <= p.total_points
      BY <3>1, <2>1
    <3>3. Sure(p, t)
      BY <2>3, <3>2 DEF Decided
    <3>4. Sure(v, t)
      BY <2>1, <3>3, SureVoted
    <3> QED BY <1>1, <3>4 DEF Sure
  <2> QED BY <2>2, <2>3
<1> QED BY <1>2, <1>3 DEF Decided, q

\* A new proposal, with its proposer's vote.
LEMMA NewDecided ==
  ASSUME NEW p \in Proposal, NEW t \in Nat, p.status = "Open", p.total_points < U64_MODULUS
  PROVE  Decided(update_status(p, t), t)
<1> DEFINE q == update_status(p, t)
<1>1. /\ q.votes = p.votes /\ q.rules = p.rules /\ q.expires = p.expires
      /\ q.total_points = p.total_points /\ q.status = current_status(p, t)
  BY DEF update_status, Proposal
<1> HIDE DEF q
<1>2. ASSUME q.status \in {"Passed", "Executed"}, total_votes(q.votes) <= q.total_points
      PROVE  Sure(q, t)
  <2>1. is_passed(p, t) /\ total_votes(p.votes) <= p.total_points
    BY <1>1, <1>2 DEF current_status
  <2>2. Sure(p, t)
    BY <2>1, PassIsSure
  <2> QED BY <1>1, <2>2 DEF Sure
<1> QED BY <1>1, <1>2 DEF Decided, q

LEMMA SameDecided ==
  ASSUME IInv, PInv, UNCHANGED proposals, now' \in Nat, now' >= now
  PROVE  PInv'
<1> SUFFICES ASSUME NEW id \in DOMAIN proposals
             PROVE  Decided(proposals[id], now')
  BY DEF PInv
<1>1. proposals[id] \in Proposal /\ now \in Nat /\ Decided(proposals[id], now)
  BY InvariantSays DEF IInv, BlockOK, PInv
<1>2. Unvoted(proposals[id], proposals[id])
  BY DEF Unvoted
<1> QED BY <1>1, <1>2, UnvotedDecided

\* A proposal that closes or is executed.
LEMMA StatusUnvoted ==
  ASSUME NEW p \in Proposal, NEW status \in {"Rejected", "Executed"},
         status = "Executed" => p.status = "Passed"
  PROVE  Unvoted(p, [p EXCEPT !.status = status])
<1> DEFINE q == [p EXCEPT !.status = status]
<1>1. /\ q.votes = p.votes /\ q.rules = p.rules /\ q.expires = p.expires
      /\ q.total_points = p.total_points /\ q.status = status
  BY DEF Proposal
<1> HIDE DEF q
<1>2. Unvoted(p, q)
  BY <1>1 DEF Unvoted
<1> QED BY <1>2 DEF q

LEMMA OneUnvoted ==
  ASSUME IInv, PInv, NEW id \in DOMAIN proposals, NEW q, Unvoted(proposals[id], q),
         proposals' = [proposals EXCEPT ![id] = q], UNCHANGED now
  PROVE  PInv'
<1> SUFFICES ASSUME NEW x \in DOMAIN proposals
             PROVE  Decided(proposals'[x], now)
  BY DEF PInv
<1>1. proposals[x] \in Proposal /\ now \in Nat /\ Decided(proposals[x], now)
  BY InvariantSays DEF IInv, BlockOK, PInv
<1>2. Unvoted(proposals[x], proposals'[x])
  <2>1. Unvoted(proposals[x], proposals[x])
    BY DEF Unvoted
  <2> QED BY <2>1
<1> QED BY <1>1, <1>2, UnvotedDecided

\* Leavers lower the totals of open proposals, modulo the width of a u64.
LEMMA LoweredUnvoted ==
  ASSUME NEW ps, NEW L \in SUBSET Addr, NEW id \in DOMAIN ps, ps[id] \in Proposal
  PROVE  Unvoted(ps[id], adjust_open_proposals(ps, L)[id])
<1> DEFINE silent == {a \in L : ~ \E b \in ballots : b.proposal_id = id /\ b.voter = a}
           p == ps[id]
           q == adjust_open_proposals(ps, L)[id]
           n == (p.total_points - VOTING_POINTS * Cardinality(silent)) % U64_MODULUS
<1>1. \/ q = p
      \/ p.status = "Open" /\ q = [p EXCEPT !.total_points = n]
  BY DEF adjust_open_proposals
<1>2. n < U64_MODULUS
  <2>1. silent \in SUBSET Addr
    OBVIOUS
  <2> HIDE DEF silent
  <2>2. Cardinality(silent) \in Nat /\ p.total_points \in Nat /\ U64_MODULUS \in Nat \ {0}
    BY <2>1, AddrSubsets, RulesAssumption DEF Proposal
  <2> QED BY <2>2 DEF VOTING_POINTS
<1> HIDE DEF n, q
<1>3. CASE q = p
  BY <1>3 DEF Unvoted, q
<1>4. CASE p.status = "Open" /\ q = [p EXCEPT !.total_points = n]
  <2>1. /\ q.votes = p.votes /\ q.rules = p.rules /\ q.expires = p.expires
        /\ q.total_points = n /\ q.status = "Open"
    BY <1>4 DEF Proposal
  <2>2. Unvoted(p, q)
    BY <1>2, <2>1 DEF Unvoted
  <2> QED BY <2>2 DEF q
<1> QED BY <1>1, <1>3, <1>4

LEMMA ProposeDecided ==
  ASSUME IInv, PInv, Few, NEW a \in Addr, NEW content \in Contents, Propose(a, content)
  PROVE  PInv'
<1> DEFINE s == IF height > 0 THEN check_pending(Store, circle, height - 1) ELSE Store
           k == IF height > 0 THEN enforce_escrow(circle) ELSE circle
           power == vote_power(s.points[a])
           prop == [start_height |-> height, expires |-> now + voting_period_secs(k.rules),
                    content |-> content,
                    status |-> "Open", rules |-> k.rules, total_points |-> s.total,
                    votes |-> add_vote(NoVotes, "Yes", power)]
<1>1. /\ StoreOK(Store) /\ CircleOK(circle) /\ ProposalsOK(proposals)
      /\ height \in Nat /\ now \in Nat
  BY DEF IInv, BlockOK
<1>2. StoreOK(s) /\ CircleOK(k)
  BY <1>1, PendingChecked, EnforceCircle
<1>3. create_proposal(update_status(prop, now)) /\ UNCHANGED <<height, now>>
  BY DEF Propose, block_vars
<1>4. s.total \in Nat /\ s.total < U64_MODULUS
  <2>1. s.total = Cardinality(WithStatus(s, "Voting"))
    BY <1>2 DEF StoreOK, MembersOK
  <2>2. WithStatus(s, "Voting") \in SUBSET Addr
    BY DEF WithStatus
  <2> HIDE DEF s
  <2>3. /\ Cardinality(WithStatus(s, "Voting")) \in Nat /\ Cardinality(Addr) \in Nat
        /\ Cardinality(WithStatus(s, "Voting")) <= Cardinality(Addr)
    BY <2>2, AddrAssumption, FS_Subset, FS_CardinalityType
  <2> QED BY <2>1, <2>3, RulesAssumption DEF Few
<1>5. power \in Nat
  <2>1. s.points[a] \in Points
    BY <1>2 DEF StoreOK, MembersOK
  <2> HIDE DEF s
  <2> QED BY <2>1, PowerOfPoints
<1>6. k.rules \in VotingRulesType /\ voting_period_secs(k.rules) \in Nat
  <2>1. k.rules \in VotingRulesType
    BY <1>2 DEF CircleOK, CircleType
  <2> HIDE DEF k
  <2> QED BY <2>1, PeriodType
<1> HIDE DEF s, k, power
<1>7. prop \in Proposal /\ prop.status = "Open" /\ prop.total_points < U64_MODULUS
  <2>1. add_vote(NoVotes, "Yes", power) \in Votes
    BY <1>5 DEF add_vote, NoVotes, Votes, VoteOption
  <2> QED BY <2>1, <1>1, <1>4, <1>6 DEF Proposal, ProposalStatus
<1> HIDE DEF prop
<1> DEFINE q == update_status(prop, now)
<1>8. Decided(q, now)
  BY <1>1, <1>7, NewDecided
<1> HIDE DEF q
<1>9. proposals' = Append(proposals, q)
  BY <1>3 DEF q, create_proposal
<1>10. \A x \in DOMAIN proposals' :
          \/ x \in DOMAIN proposals /\ proposals'[x] = proposals[x]
          \/ proposals'[x] = q
  BY <1>1, <1>9, LenProperties DEF ProposalsOK
<1> QED BY <1>3, <1>8, <1>10 DEF PInv

LEMMA VoteDecided ==
  ASSUME IInv, PInv, NEW a \in Addr, NEW id \in DOMAIN proposals, NEW vote \in CastVotes,
         Vote(a, id, vote)
  PROVE  PInv'
<1> DEFINE p == proposals[id]
           power == vote_power(points_at_height(Store, a, p.start_height))
           v == [p EXCEPT !.votes = add_vote(@, vote, power)]
           q == update_status(v, now)
<1>1. p \in Proposal /\ now \in Nat /\ Decided(p, now)
  BY InvariantSays DEF IInv, BlockOK, PInv
<1>2. power \in Nat
  <2>1. p.start_height \in Nat /\ MembersOK(Store)
    BY <1>1 DEF Proposal, IInv, StoreOK
  <2> QED BY <2>1, SnapshotPoints, PowerOfPoints
<1>3. vote \in VoteOption
  BY CircleAssumption
<1>4. /\ proposals' = [proposals EXCEPT ![id] = q] /\ UNCHANGED now
      /\ p.status \in {"Open", "Passed"} /\ now < p.expires
  BY DEF Vote, block_vars
<1> HIDE DEF power
<1>5. /\ v \in Proposal /\ v.total_points = p.total_points /\ v.rules = p.rules
      /\ v.status = p.status /\ v.expires = p.expires /\ v.votes = add_vote(p.votes, vote, power)
  <2>1. add_vote(p.votes, vote, power) \in Votes
    BY <1>1, <1>2, <1>3, ProposalType, VotesAdd
  <2>2. v = [p EXCEPT !.votes = add_vote(p.votes, vote, power)]
    BY <1>1 DEF Proposal
  <2> HIDE DEF p, v
  <2> QED BY <2>1, <2>2, <1>1 DEF Proposal
<1> HIDE DEF v
<1>6. Decided(q, now)
  BY <1>1, <1>2, <1>3, <1>4, <1>5, VotedDecided
<1> HIDE DEF q
<1>7. \A x \in DOMAIN proposals' :
         x \in DOMAIN proposals /\ (proposals'[x] = proposals[x] \/ proposals'[x] = q)
  BY <1>4
<1> QED BY <1>4, <1>6, <1>7 DEF PInv

LEMMA LeaveDecided ==
  ASSUME IInv, PInv, NEW a \in Addr, LeaveTrustedCircle(a)
  PROVE  PInv'
<1> PICK L : L = {a} \cap WithStatus(Store, "Voting")
  OBVIOUS
<1>1. L \in SUBSET Addr /\ proposals' = adjust_open_proposals(proposals, L) /\ UNCHANGED now
  BY DEF LeaveTrustedCircle, WithStatus, block_vars
<1>2. DOMAIN proposals' = DOMAIN proposals
  BY <1>1 DEF adjust_open_proposals
<1> SUFFICES ASSUME NEW x \in DOMAIN proposals
             PROVE  Decided(proposals'[x], now)
  BY <1>1, <1>2 DEF PInv
<1>3. proposals[x] \in Proposal /\ now \in Nat /\ Decided(proposals[x], now)
  BY InvariantSays DEF IInv, BlockOK, PInv
<1>4. Unvoted(proposals[x], proposals'[x])
  BY <1>1, <1>3, LoweredUnvoted
<1> QED BY <1>3, <1>4, UnvotedDecided

LEMMA PunishDecided ==
  ASSUME IInv, PInv, NEW id \in DOMAIN proposals, proposals[id].status = "Passed",
         NEW L \in SUBSET Addr, UNCHANGED now,
         proposals' = adjust_open_proposals(executed(id), L)
  PROVE  PInv'
<1> DEFINE q == [proposals[id] EXCEPT !.status = "Executed"]
           ps == executed(id)
<1>1. /\ Unvoted(proposals[id], q)
      /\ ps = [proposals EXCEPT ![id] = q]
      /\ q \in Proposal
  <2>1. proposals[id] \in Proposal /\ "Executed" \in ProposalStatus
    BY InvariantSays DEF ProposalStatus
  <2> QED BY <2>1, StatusType, StatusUnvoted DEF executed
<1> HIDE DEF q
<1>2. /\ DOMAIN ps = DOMAIN proposals /\ ps[id] = q
      /\ \A x \in DOMAIN proposals : x # id => ps[x] = proposals[x]
      /\ proposals' = adjust_open_proposals(ps, L)
      /\ DOMAIN proposals' = DOMAIN proposals
  <2>1. DOMAIN ps = DOMAIN proposals
    BY <1>1
  <2> QED BY <1>1, <2>1 DEF adjust_open_proposals
<1> HIDE DEF ps
<1> SUFFICES ASSUME NEW x \in DOMAIN proposals
             PROVE  Decided(proposals'[x], now)
  BY <1>2 DEF PInv
<1>3. proposals[x] \in Proposal /\ now \in Nat /\ Decided(proposals[x], now)
  BY InvariantSays DEF IInv, BlockOK, PInv
<1>4. ps[x] \in Proposal /\ Unvoted(proposals[x], ps[x])
  <2>1. Unvoted(proposals[x], proposals[x])
    BY DEF Unvoted
  <2> QED BY <1>1, <1>2, <1>3, <2>1
<1>5. Unvoted(ps[x], proposals'[x])
  BY <1>2, <1>4, LoweredUnvoted
<1>6. Decided(ps[x], now)
  BY <1>3, <1>4, UnvotedDecided
<1> QED BY <1>3, <1>4, <1>5, <1>6, UnvotedDecided

LEMMA ExecuteDecided ==
  ASSUME IInv, PInv, NEW id \in DOMAIN proposals, Execute(id)
  PROVE  PInv'
<1>1. proposals[id].status = "Passed" /\ proposals[id] \in Proposal
  BY InvariantSays DEF Execute, ExecuteEditTrustedCircle, ExecuteAddVotingMembers,
     ExecuteAddRemoveNonVotingMembers, ExecuteWhitelistContract, ExecuteRemoveContract,
     ExecutePunishMembers, Executable
<1>2. UNCHANGED now
  BY DEF Execute, ExecuteEditTrustedCircle, ExecuteAddVotingMembers, block_vars,
     ExecuteAddRemoveNonVotingMembers, ExecuteWhitelistContract, ExecuteRemoveContract,
     whitelist_contract_addr, remove_contract_addr, AddRemove, ExecutePunishMembers
<1>3. CASE ExecutePunishMembers(id)
  <2>1. \E L \in SUBSET Addr : proposals' = adjust_open_proposals(executed(id), L)
    BY <1>3 DEF ExecutePunishMembers, WithStatus
  <2> QED BY <1>1, <1>2, <2>1, PunishDecided
<1>4. CASE ~ExecutePunishMembers(id)
  <2>1. proposals' = executed(id)
    BY <1>4 DEF Execute, ExecuteEditTrustedCircle, ExecuteAddVotingMembers,
       ExecuteAddRemoveNonVotingMembers, ExecuteWhitelistContract, ExecuteRemoveContract,
       whitelist_contract_addr, remove_contract_addr, AddRemove
  <2>2. Unvoted(proposals[id], [proposals[id] EXCEPT !.status = "Executed"])
    BY <1>1, StatusUnvoted
  <2>3. proposals' = [proposals EXCEPT ![id] = [proposals[id] EXCEPT !.status = "Executed"]]
    BY <2>1 DEF executed
  <2> QED BY <1>2, <2>2, <2>3, OneUnvoted
<1> QED BY <1>3, <1>4

LEMMA CloseDecided ==
  ASSUME IInv, PInv, NEW id \in DOMAIN proposals, Close(id)
  PROVE  PInv'
<1> DEFINE q == [proposals[id] EXCEPT !.status = "Rejected"]
<1>1. Unvoted(proposals[id], q)
  BY InvariantSays, StatusUnvoted
<1>2. proposals' = [proposals EXCEPT ![id] = q] /\ UNCHANGED now
  BY DEF Close, block_vars
<1> HIDE DEF q
<1> QED BY <1>1, <1>2, OneUnvoted

LEMMA NextDecided == Few /\ IInv /\ PInv /\ [Next]_vars => PInv'
<1> SUFFICES ASSUME Few, IInv, PInv, [Next]_vars PROVE PInv'
  OBVIOUS
<1> USE TimePasses
<1>1. ASSUME NEW a \in Addr,
             \/ \E amount \in Payments : DepositEscrow(a, amount)
             \/ ReturnEscrow(a) \/ LeaveImmediately(a) \/ WithdrawRewards(a)
      PROVE  PInv'
  BY <1>1, SameDecided DEF DepositEscrow, ReturnEscrow, LeaveImmediately, WithdrawRewards,
     proposal_vars
<1>2. ASSUME NEW a \in Addr,
             LeaveTrustedCircle(a) \/ \E content \in Contents : Propose(a, content)
      PROVE  PInv'
  BY <1>2, LeaveDecided, ProposeDecided
<1>3. ASSUME NEW id \in DOMAIN proposals, NEW a \in Addr, NEW vote \in CastVotes,
             Vote(a, id, vote)
      PROVE  PInv'
  BY <1>3, VoteDecided
<1>4. ASSUME NEW id \in DOMAIN proposals, Execute(id) \/ Close(id)
      PROVE  PInv'
  BY <1>4, ExecuteDecided, CloseDecided
<1>5. CASE CheckPending \/ DistributeRewards \/ NextBlock
           \/ \E amount \in Rewards : SendRewards(amount)
  BY <1>5, SameDecided DEF CheckPending, DistributeRewards, NextBlock, SendRewards,
     proposal_vars
<1>6. CASE UNCHANGED vars
  BY <1>6, SameDecided DEF vars, proposal_vars
<1> QED BY <1>1, <1>2, <1>3, <1>4, <1>5, <1>6 DEF Next

\* What passed is decided by its votes, if they are within its total
DecidedWithinTotal ==
  \A id \in DOMAIN proposals :
    /\ proposals[id].status \in {"Passed", "Executed"}
    /\ total_votes(proposals[id].votes) <= proposals[id].total_points
    => HasPassed(proposals[id])

\* A proposal that passed has its quorum and its threshold, whatever was voted
\* since and whoever left, unless leavers took its total below the votes it got.
THEOREM DecisionsRest == ASSUME Few PROVE Spec => []DecidedWithinTotal
<1>1. Init => PInv
  <2>1. DOMAIN <<>> = {}
    OBVIOUS
  <2> QED BY <2>1 DEF Init, PInv
<1>2. IInv /\ PInv /\ [Next]_vars => PInv'
  BY NextDecided
<1>3. IInv /\ PInv => DecidedWithinTotal
  <2> SUFFICES ASSUME IInv, PInv, NEW id \in DOMAIN proposals,
                      proposals[id].status \in {"Passed", "Executed"},
                      total_votes(proposals[id].votes) <= proposals[id].total_points
               PROVE  HasPassed(proposals[id])
    BY DEF DecidedWithinTotal
  <2>1. proposals[id] \in Proposal /\ Sure(proposals[id], now)
    BY InvariantSays DEF PInv, Decided
  <2> QED BY <2>1, SureSays
<1> QED BY <1>1, <1>2, <1>3, Invariant, PTL DEF Spec

\* The totals cover the votes: no leaver without a vote on a proposal lowers its
\* total below the votes it gets
VotesWithinTotal ==
  \A id \in DOMAIN proposals :
    total_votes(proposals[id].votes) <= proposals[id].total_points

\* Where the totals cover the votes, every decision is one that no later vote
\* can undo.
THEOREM DecisionsHold ==
  ASSUME Few PROVE Spec /\ []VotesWithinTotal => []PassedIsDecided
<1>1. DecidedWithinTotal /\ VotesWithinTotal => PassedIsDecided
  BY DEF DecidedWithinTotal, VotesWithinTotal, PassedIsDecided, HasPassed
<1> QED BY <1>1, DecisionsRest, PTL
=============================================================================
