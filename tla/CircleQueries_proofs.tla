--------------------------- MODULE CircleQueries_proofs ---------------------------
(***************************************************************************)
(* What a circle tells its clients, for all values of the constants.       *)
(* Rewards: what members are told they may withdraw is covered; what an    *)
(* address has earned grows by distributions only, since whoever gets or   *)
(* loses a vote is corrected for what was distributed without it.  Lists:  *)
(* they show what the statuses and points hold, which are kept apart.      *)
(* Electorates: the snapshot a proposal is voted under does not change.    *)
(* Votes: the listed ones are those that the tally counts.                 *)
(***************************************************************************)
EXTENDS CircleBatches_proofs, CircleQueries

-----------------------------------------------------------------------------
\* What an address has earned, along the helpers of Membership

\* Entitlement, with the points that the address has in the store
earned(s, x) ==
  s.distribution.points_per_points * vote_power(s.points[x])
    + s.distribution.points_correction[x]

EarnTyped(s) ==
  /\ DOMAIN s = StoreFields
  /\ s.distribution \in DistributionType
  /\ s.points \in [Addr -> Points]

\* From s to t every change of points is recorded at height h, with the value
\* before the first of them
Logged(s, t, h) ==
  \A x \in Addr :
    \/ t.points[x] = s.points[x] /\ t.changelog[x] = s.changelog[x]
    \/ t.changelog[x] = record_change(s.changelog[x], h, s.points[x])

\* From s to t nobody earns anything, nothing is distributed or withdrawn, and
\* what changes is recorded
NoMore(s, t, h) ==
  /\ Logged(s, t, h)
  /\ EarnTyped(t)
  /\ t.distribution.points_per_points = s.distribution.points_per_points
  /\ t.distribution.points_leftover = s.distribution.points_leftover
  /\ t.distribution.distributed_total = s.distribution.distributed_total
  /\ t.distribution.withdrawable_total = s.distribution.withdrawable_total
  /\ t.distribution.withdrawn_funds = s.distribution.withdrawn_funds
  /\ \A x \in Addr : earned(t, x) <= earned(s, x)

LEMMA EarnedType ==
  ASSUME NEW s, EarnTyped(s), NEW x \in Addr
  PROVE  /\ earned(s, x) \in Int
         /\ s.distribution.points_per_points \in Nat
         /\ s.distribution.points_correction[x] \in Int
         /\ s.points[x] \in Points /\ vote_power(s.points[x]) \in {0, 1}
<1>1. /\ s.distribution.points_per_points \in Nat
      /\ s.distribution.points_correction[x] \in Int
  BY DEF EarnTyped, DistributionType
<1>2. s.points[x] \in Points
  BY DEF EarnTyped
<1>3. vote_power(s.points[x]) \in {0, 1}
  BY <1>2 DEF vote_power, Points, ABSENT, VOTING_POINTS
<1> QED BY <1>1, <1>2, <1>3 DEF earned

LEMMA LoggedTransitive ==
  ASSUME NEW s, NEW t, NEW u, NEW h, Logged(s, t, h), Logged(t, u, h)
  PROVE  Logged(s, u, h)
<1>1. \A log, old, new :
        record_change(record_change(log, h, old), h, new) = record_change(log, h, old)
  BY DEF record_change
<1> QED BY <1>1 DEF Logged

LEMMA NoMoreTransitive ==
  ASSUME NEW s, EarnTyped(s), NEW t, NEW u, NEW h, NoMore(s, t, h), NoMore(t, u, h)
  PROVE  NoMore(s, u, h)
<1>1. EarnTyped(t) /\ EarnTyped(u)
  BY DEF NoMore
<1>2. ASSUME NEW x \in Addr
      PROVE  earned(u, x) <= earned(s, x)
  <2>1. earned(s, x) \in Int /\ earned(t, x) \in Int /\ earned(u, x) \in Int
    BY <1>1, EarnedType
  <2>2. earned(u, x) <= earned(t, x) /\ earned(t, x) <= earned(s, x)
    BY DEF NoMore
  <2> QED BY <2>1, <2>2
<1>3. Logged(s, u, h)
  BY LoggedTransitive DEF NoMore
<1> QED BY <1>2, <1>3 DEF NoMore

\* What an address has, what it had and what it earns
SamePoints(s, t) ==
  /\ DOMAIN t = StoreFields
  /\ t.points = s.points /\ t.changelog = s.changelog /\ t.distribution = s.distribution

\* Points and rewards untouched.
LEMMA NoMoreSame ==
  ASSUME NEW s, EarnTyped(s), NEW t, SamePoints(s, t), NEW h
  PROVE  NoMore(s, t, h)
<1>1. EarnTyped(t)
  BY DEF EarnTyped, SamePoints
<1>2. ASSUME NEW x \in Addr
      PROVE  earned(t, x) <= earned(s, x)
  <2>1. earned(t, x) = earned(s, x) /\ earned(s, x) \in Int
    BY EarnedType DEF earned, SamePoints
  <2> QED BY <2>1
<1>3. Logged(s, t, h)
  BY DEF Logged, SamePoints
<1> QED BY <1>1, <1>2, <1>3 DEF NoMore, SamePoints

\* A correction in numbers.
LEMMA Corrected ==
  ASSUME NEW d \in DistributionType, NEW A, NEW diff \in Int
  PROVE  LET c == apply_points_correction(d, A, diff)
         IN /\ c \in DistributionType
            /\ c.points_per_points = d.points_per_points
            /\ c.points_leftover = d.points_leftover
            /\ c.distributed_total = d.distributed_total
            /\ c.withdrawable_total = d.withdrawable_total
            /\ c.withdrawn_funds = d.withdrawn_funds
            /\ \A x \in Addr : c.points_correction[x] =
                 IF x \in A THEN d.points_correction[x] - d.points_per_points * diff
                            ELSE d.points_correction[x]
<1>1. apply_points_correction(d, A, diff) \in DistributionType
  BY CorrectedType
<1> QED BY <1>1 DEF apply_points_correction, DistributionType

\* A voter that loses its point keeps what it has earned.
LEMMA StripNoMore ==
  ASSUME NEW s, EarnTyped(s), NEW A \in SUBSET Addr,
         \A x \in A : s.points[x] = VOTING_POINTS, NEW h
  PROVE  NoMore(s, strip_points(s, A, h), h)
<1> DEFINE d == s.distribution
           c == apply_points_correction(d, A, -VOTING_POINTS)
           t == strip_points(s, A, h)
<1>1. /\ DOMAIN t = StoreFields /\ t.distribution = c
      /\ t.points = [x \in Addr |-> IF x \in A THEN 0 ELSE s.points[x]]
      /\ t.changelog = [x \in Addr |->
           IF x \in A THEN record_change(s.changelog[x], h, s.points[x]) ELSE s.changelog[x]]
  BY DEF EarnTyped, StoreFields, strip_points, save_points
<1>2. d \in DistributionType /\ -VOTING_POINTS \in Int
  BY DEF EarnTyped, VOTING_POINTS
<1> HIDE DEF t
<1>3. /\ c \in DistributionType
      /\ c.points_per_points = d.points_per_points
      /\ c.points_leftover = d.points_leftover
      /\ c.distributed_total = d.distributed_total
      /\ c.withdrawable_total = d.withdrawable_total
      /\ c.withdrawn_funds = d.withdrawn_funds
      /\ \A x \in Addr : c.points_correction[x] =
           IF x \in A THEN d.points_correction[x] - d.points_per_points * (-VOTING_POINTS)
                      ELSE d.points_correction[x]
  BY <1>2, Corrected
<1> HIDE DEF c
<1>4. EarnTyped(t)
  BY <1>1, <1>3 DEF EarnTyped, Points
<1>5. ASSUME NEW x \in Addr
      PROVE  earned(t, x) <= earned(s, x)
  <2>1. /\ d.points_per_points \in Nat /\ d.points_correction[x] \in Int
        /\ vote_power(s.points[x]) \in {0, 1}
    BY EarnedType
  <2>2. CASE x \in A
    <3>1. vote_power(s.points[x]) = 1 /\ vote_power(t.points[x]) = 0
      BY <1>1, <2>2 DEF vote_power, VOTING_POINTS, ABSENT
    <3>2. c.points_correction[x] = d.points_correction[x] - d.points_per_points * (-VOTING_POINTS)
      BY <1>3, <2>2
    <3>3. c.points_correction[x] = d.points_correction[x] + d.points_per_points
      BY <2>1, <3>2 DEF VOTING_POINTS
    <3> QED BY <1>1, <1>3, <2>1, <3>1, <3>3 DEF earned
  <2>3. CASE x \notin A
    <3>1. t.points[x] = s.points[x] /\ c.points_correction[x] = d.points_correction[x]
      BY <1>1, <1>3, <2>3
    <3>2. earned(t, x) = earned(s, x) /\ earned(s, x) \in Int
      BY <1>1, <1>3, <3>1, EarnedType DEF earned
    <3> QED BY <3>2
  <2> QED BY <2>2, <2>3
<1>6. Logged(s, t, h)
  BY <1>1 DEF Logged
<1>7. NoMore(s, t, h)
  BY <1>1, <1>3, <1>4, <1>5, <1>6 DEF NoMore
<1> QED BY <1>7 DEF t

\* Who gets a point is corrected twice for it, and owes what one point has earned.
LEMMA PromoteNoMore ==
  ASSUME NEW s, EarnTyped(s), NEW A \in SUBSET Addr, \A x \in A : s.points[x] = 0, NEW h
  PROVE  NoMore(s, promote(s, A, h), h)
<1> DEFINE d == s.distribution
           c == apply_points_correction(d, A, VOTING_POINTS)
           e == apply_points_correction(c, A, VOTING_POINTS)
           t == promote(s, A, h)
<1>1. /\ DOMAIN t = StoreFields /\ t.distribution = e
      /\ t.points = [x \in Addr |-> IF x \in A THEN VOTING_POINTS ELSE s.points[x]]
      /\ t.changelog = [x \in Addr |->
           IF x \in A THEN record_change(s.changelog[x], h, s.points[x]) ELSE s.changelog[x]]
  BY DEF EarnTyped, StoreFields, promote, save_points, set_status
<1>2. d \in DistributionType /\ VOTING_POINTS \in Int
  BY DEF EarnTyped, VOTING_POINTS
<1> HIDE DEF t
<1>3. /\ c \in DistributionType
      /\ c.points_per_points = d.points_per_points
      /\ c.points_leftover = d.points_leftover
      /\ c.distributed_total = d.distributed_total
      /\ c.withdrawable_total = d.withdrawable_total
      /\ c.withdrawn_funds = d.withdrawn_funds
      /\ \A x \in Addr : c.points_correction[x] =
           IF x \in A THEN d.points_correction[x] - d.points_per_points * VOTING_POINTS
                      ELSE d.points_correction[x]
  BY <1>2, Corrected
<1> HIDE DEF c
<1>4. /\ e \in DistributionType
      /\ e.points_per_points = c.points_per_points
      /\ e.points_leftover = c.points_leftover
      /\ e.distributed_total = c.distributed_total
      /\ e.withdrawable_total = c.withdrawable_total
      /\ e.withdrawn_funds = c.withdrawn_funds
      /\ \A x \in Addr : e.points_correction[x] =
           IF x \in A THEN c.points_correction[x] - c.points_per_points * VOTING_POINTS
                      ELSE c.points_correction[x]
  BY <1>2, <1>3, Corrected
<1> HIDE DEF e
<1>5. EarnTyped(t)
  BY <1>1, <1>4 DEF EarnTyped, Points
<1>6. ASSUME NEW x \in Addr
      PROVE  earned(t, x) <= earned(s, x)
  <2>1. /\ d.points_per_points \in Nat /\ d.points_correction[x] \in Int
        /\ vote_power(s.points[x]) \in {0, 1}
    BY EarnedType
  <2>2. CASE x \in A
    <3>1. vote_power(s.points[x]) = 0 /\ vote_power(t.points[x]) = 1
      BY <1>1, <2>2 DEF vote_power, VOTING_POINTS, ABSENT
    <3>2. c.points_correction[x] = d.points_correction[x] - d.points_per_points
      BY <1>3, <2>1, <2>2 DEF VOTING_POINTS
    <3>3. e.points_correction[x] = c.points_correction[x] - d.points_per_points
      BY <1>3, <1>4, <2>1, <2>2, <3>2 DEF VOTING_POINTS
    <3> QED BY <1>1, <1>3, <1>4, <2>1, <3>1, <3>2, <3>3 DEF earned
  <2>3. CASE x \notin A
    <3>1. t.points[x] = s.points[x] /\ e.points_correction[x] = d.points_correction[x]
      BY <1>1, <1>3, <1>4, <2>3
    <3>2. earned(t, x) = earned(s, x) /\ earned(s, x) \in Int
      BY <1>1, <1>3, <1>4, <3>1, EarnedType DEF earned
    <3> QED BY <3>2
  <2> QED BY <2>2, <2>3
<1>7. Logged(s, t, h)
  BY <1>1 DEF Logged
<1>8. NoMore(s, t, h)
  BY <1>1, <1>3, <1>4, <1>5, <1>6, <1>7 DEF NoMore
<1> QED BY <1>8 DEF t

\* Who has no vote enters or leaves without earning.
LEMMA MembersNoMore ==
  ASSUME NEW s, EarnTyped(s), NEW t, DOMAIN t = StoreFields,
         t.distribution = s.distribution, t.points \in [Addr -> Points],
         \A x \in Addr : vote_power(t.points[x]) = vote_power(s.points[x]),
         NEW h, Logged(s, t, h)
  PROVE  NoMore(s, t, h)
<1>1. EarnTyped(t)
  BY DEF EarnTyped
<1>2. ASSUME NEW x \in Addr
      PROVE  earned(t, x) <= earned(s, x)
  <2>1. earned(t, x) = earned(s, x) /\ earned(s, x) \in Int
    BY EarnedType DEF earned
  <2> QED BY <2>1
<1> QED BY <1>1, <1>2 DEF NoMore

-----------------------------------------------------------------------------
\* The helpers that several handlers share

EarnOK(s) == StoreOK(s) /\ s.distribution \in DistributionType

LEMMA EarnShape ==
  ASSUME NEW s, EarnOK(s)
  PROVE  /\ EarnTyped(s)
         /\ \A x \in Addr : s.points[x] = points_of(s.escrows[x].status)
BY DEF EarnOK, StoreOK, MembersOK, EarnTyped

LEMMA ConvertNoMore ==
  ASSUME NEW s, EarnOK(s), NEW ready, NEW h
  PROVE  NoMore(s, convert_all_paid_members_to_voters(s, ready, h), h)
<1> DEFINE A == listed(s, ready) \cap WithStatus(s, "PendingPaid")
           t == promote(s, A, h)
           bs == [x \in DOMAIN s.batches |->
                    IF x \in ready THEN [s.batches[x] EXCEPT !.batch_promoted = TRUE]
                                   ELSE s.batches[x]]
           u == [t EXCEPT !.batches = bs]
<1>1. EarnTyped(s) /\ A \in SUBSET Addr
  BY EarnShape DEF WithStatus
<1>2. \A x \in A : s.points[x] = 0
  BY EarnShape DEF WithStatus, points_of
<1>3. convert_all_paid_members_to_voters(s, ready, h) = u
  BY DEF convert_all_paid_members_to_voters
<1> HIDE DEF A
<1>4. NoMore(s, t, h)
  BY <1>1, <1>2, PromoteNoMore
<1>5. EarnTyped(t)
  BY <1>4 DEF NoMore
<1> HIDE DEF t, bs
<1>6. SamePoints(t, u)
  BY <1>5 DEF EarnTyped, StoreFields, SamePoints
<1> HIDE DEF u
<1>7. NoMore(t, u, h)
  BY <1>5, <1>6, NoMoreSame
<1> QED BY <1>1, <1>3, <1>4, <1>7, NoMoreTransitive

LEMMA UpdateNoMore ==
  ASSUME NEW s, EarnOK(s), NEW a \in WithStatus(s, "PendingPaid"),
         NEW id \in DOMAIN s.batches, NEW time, NEW h
  PROVE  NoMore(s, update_batch_after_escrow_paid(s, a, id, time, h), h)
<1> DEFINE bs == one_less(s.batches, id)
           t == [s EXCEPT !.batches = bs]
           w == [s EXCEPT !.batches[id].waiting_escrow = @ - 1]
<1>1. BatchesTyped(bs)
  BY DEF EarnOK, StoreOK, BatchesTyped, Batch, one_less
<1>2. w = t
  BY DEF one_less
<1>3. EarnTyped(s) /\ DOMAIN s = StoreFields
  BY EarnShape DEF EarnTyped
<1> HIDE DEF bs
<1>4. /\ DOMAIN t = StoreFields /\ t.points = s.points /\ t.distribution = s.distribution
      /\ t.escrows = s.escrows /\ t.changelog = s.changelog
  BY <1>3 DEF StoreFields
<1>5. EarnOK(t)
  BY <1>1, <1>4, ReplaceBatches DEF EarnOK, StoreOK
<1> HIDE DEF t
<1>6. NoMore(s, t, h) /\ EarnTyped(t)
  BY <1>3, <1>4, <1>5, NoMoreSame, EarnShape DEF SamePoints
<1>7. {a} \in SUBSET Addr /\ \A x \in {a} : t.points[x] = 0
  BY <1>4, <1>5, EarnShape DEF WithStatus, points_of
<1>8. NoMore(t, promote(t, {a}, h), h) /\ NoMore(t, convert_all_paid_members_to_voters(t, {id}, h), h)
  BY <1>5, <1>6, <1>7, PromoteNoMore, ConvertNoMore
<1>9. /\ NoMore(s, promote(t, {a}, h), h)
      /\ NoMore(s, convert_all_paid_members_to_voters(t, {id}, h), h)
  BY <1>3, <1>6, <1>8, NoMoreTransitive
<1> QED BY <1>2, <1>6, <1>9 DEF update_batch_after_escrow_paid

\* Members A that include the voters V are demoted, or leave.
LEMMA DemoteNoMore ==
  ASSUME NEW s, EarnTyped(s), NEW V \in SUBSET Addr,
         \A x \in V : s.points[x] = VOTING_POINTS,
         NEW h, NEW A, NEW status, NEW id, NEW claim
  PROVE  NoMore(s, set_status(strip_points(s, V, h), A, status, id, claim), h)
<1> DEFINE t == strip_points(s, V, h)
           u == set_status(t, A, status, id, claim)
<1>1. NoMore(s, t, h)
  BY StripNoMore
<1> HIDE DEF t
<1>2. EarnTyped(t)
  BY <1>1 DEF NoMore
<1>3. SamePoints(t, u)
  BY <1>2 DEF EarnTyped, StoreFields, set_status, SamePoints
<1> HIDE DEF u
<1>4. NoMore(t, u, h)
  BY <1>2, <1>3, NoMoreSame
<1>5. NoMore(s, u, h)
  BY <1>1, <1>4, NoMoreTransitive
<1> QED BY <1>5 DEF t, u

LEMMA BatchNoMore ==
  ASSUME NEW s, EarnTyped(s), NEW id, NEW grace, NEW A, NEW count, NEW h
  PROVE  NoMore(s, create_batch(s, id, grace, A, count), h)
<1> DEFINE t == create_batch(s, id, grace, A, count)
<1>1. SamePoints(s, t)
  BY DEF EarnTyped, StoreFields, create_batch, SamePoints
<1> HIDE DEF t
<1>2. NoMore(s, t, h)
  BY <1>1, NoMoreSame
<1> QED BY <1>2 DEF t

LEMMA EnforceNoMore ==
  ASSUME NEW s, EarnOK(s), NEW k, NEW h
  PROVE  NoMore(s, check_pending_escrow(s, k, h), h)
<1> DEFINE t == check_pending_escrow(s, k, h)
           D == short_voters(s, k)
           id == k.escrow_pending.proposal_id
           u == set_status(strip_points(s, D, h), D, "Pending", id, 0)
           v == create_batch(u, id, now, D, Cardinality(D))
           w == promote_paid_pending(s, k)
<1>1. EarnTyped(s) /\ DOMAIN s = StoreFields
  BY EarnShape DEF EarnTyped
<1>2. D \in SUBSET Addr /\ \A x \in D : s.points[x] = VOTING_POINTS
  BY EarnShape DEF short_voters, WithStatus, points_of
<1>3. demote_short_voters(s, k, h) = v
  BY DEF demote_short_voters
<1>4. SamePoints(s, w) /\ SamePoints(s, s)
  BY <1>1 DEF promote_paid_pending, StoreFields, SamePoints
<1>5. t \in {v, w, s}
  BY <1>3 DEF check_pending_escrow, v
<1> HIDE DEF D, id, v, w, t
<1>6. NoMore(s, u, h)
  BY <1>1, <1>2, DemoteNoMore
<1>7. EarnTyped(u)
  BY <1>6 DEF NoMore
<1> HIDE DEF u
<1>8. NoMore(u, v, h)
  BY <1>7, BatchNoMore DEF v
<1>9. NoMore(s, v, h)
  BY <1>1, <1>6, <1>8, NoMoreTransitive
<1>10. NoMore(s, w, h) /\ NoMore(s, s, h)
  BY <1>1, <1>4, NoMoreSame
<1>11. NoMore(s, t, h)
  BY <1>5, <1>9, <1>10
<1> QED BY <1>11 DEF t

LEMMA CheckNoMore ==
  ASSUME NEW s, EarnOK(s), NEW k, CircleOK(k), NEW h \in Nat, now \in Nat
  PROVE  NoMore(s, check_pending(s, k, h), h)
<1> DEFINE t == check_pending_escrow(s, k, h)
           u == convert_all_paid_members_to_voters(t, ready_batches(t, now), h)
<1>1. NoMore(s, t, h)
  BY EnforceNoMore
<1>2. StoreOK(t)
  BY PendingEscrowChecked DEF EarnOK
<1>3. EarnOK(t)
  BY <1>1, <1>2 DEF EarnOK, NoMore, EarnTyped
<1>4. check_pending(s, k, h) = u
  BY DEF check_pending
<1> HIDE DEF t
<1>5. NoMore(t, u, h)
  BY <1>3, ConvertNoMore
<1>6. EarnTyped(s)
  BY EarnShape
<1> QED BY <1>1, <1>4, <1>5, <1>6, NoMoreTransitive

-----------------------------------------------------------------------------
\* The actions that distribute and withdraw nothing

LEMMA CommitNoMore ==
  ASSUME NEW t, NEW h, NoMore(Store, t, h), Commit(t)
  PROVE  NoMore(Store, Store', h)
<1>1. /\ DOMAIN Store' = StoreFields /\ Store'.points = t.points
      /\ Store'.changelog = t.changelog /\ Store'.distribution = t.distribution
  BY DEF Store, StoreFields, Commit
<1> DEFINE u == Store'
<1>2. EarnTyped(t)
  BY DEF NoMore
<1>3. SamePoints(t, u)
  BY <1>1 DEF SamePoints
<1> HIDE DEF u
<1>4. EarnTyped(u)
  BY <1>2, <1>3 DEF EarnTyped, SamePoints
<1>5. \A x \in Addr : earned(u, x) = earned(t, x)
  BY <1>3 DEF earned, SamePoints
<1>6. NoMore(Store, u, h)
  BY <1>3, <1>4, <1>5 DEF NoMore, Logged, SamePoints
<1> QED BY <1>6 DEF u

LEMMA StoreEarns ==
  ASSUME IInv, DInv
  PROVE  EarnOK(Store) /\ EarnTyped(Store)
<1>1. EarnOK(Store)
  BY StoreShape DEF IInv, DInv, EarnOK
<1> QED BY <1>1, EarnShape

LEMMA DepositNoMore ==
  ASSUME IInv, DInv, NEW a \in Addr, NEW amount \in Payments, DepositEscrow(a, amount)
  PROVE  NoMore(Store, Store', height)
<1> DEFINE paid == escrows[a].paid + amount
           id == escrows[a].proposal_id
           s == [Store EXCEPT !.escrows[a].paid = paid]
           t == [s EXCEPT !.escrows[a].status = "PendingPaid"]
           u == update_batch_after_escrow_paid(t, a, id, now, height)
<1>1. escrows \in [Addr -> EscrowStatus] /\ amount \in Nat
  BY InvariantSays, CircleAssumption DEF EscrowsOK
<1>2. StoreOK(Store) /\ paid \in Nat /\ EarnTyped(Store)
  BY <1>1, StoreEarns DEF EscrowStatus, IInv
<1> HIDE DEF paid
<1>3. StoreOK(s) /\ s.escrows = [escrows EXCEPT ![a].paid = paid]
  BY <1>2, PayEscrow, StoreShape
<1>4. DOMAIN s = StoreFields /\ SamePoints(Store, s)
  BY StoreShape DEF StoreFields, SamePoints
<1> HIDE DEF s
<1>5. NoMore(Store, s, height)
  BY <1>2, <1>4, NoMoreSame
<1>6. CASE Commit(s)
  BY <1>5, <1>6, CommitNoMore
<1>7. CASE escrows[a].status = "Pending" /\ can_update_batch(t, a, id, now) /\ Commit(u)
  <2>1. s.escrows[a].status = "Pending"
    BY <1>1, <1>3, <1>7, OnlyPaid
  <2>2. StoreOK(t) /\ a \in WithStatus(t, "PendingPaid")
    BY <1>3, <2>1, PaidPending
  <2>3. SamePoints(Store, t)
    BY <1>4 DEF StoreFields, SamePoints
  <2>4. id \in DOMAIN t.batches
    BY <1>7 DEF can_update_batch
  <2> HIDE DEF t, id
  <2>5. NoMore(Store, t, height)
    BY <1>2, <2>3, NoMoreSame
  <2>6. EarnOK(t)
    BY <2>2, <2>5 DEF EarnOK, NoMore, EarnTyped
  <2>7. NoMore(t, u, height)
    BY <2>2, <2>4, <2>6, UpdateNoMore
  <2> HIDE DEF u
  <2>8. NoMore(Store, u, height)
    BY <1>2, <2>5, <2>7, NoMoreTransitive
  <2> QED BY <1>7, <2>8, CommitNoMore
<1> QED BY <1>6, <1>7 DEF DepositEscrow, paid, s

\* Members without a vote are removed.
LEMMA RemoveNoMore ==
  ASSUME NEW s, EarnTyped(s), NEW A, \A x \in Addr : x \in A => vote_power(s.points[x]) = 0, NEW h
  PROVE  NoMore(s, remove_members(s, A, h), h)
<1> DEFINE t == remove_members(s, A, h)
<1>1. /\ DOMAIN t = StoreFields /\ t.distribution = s.distribution
      /\ t.points = [x \in Addr |-> IF x \in A THEN ABSENT ELSE s.points[x]]
      /\ t.changelog = [x \in Addr |->
           IF x \in A THEN record_change(s.changelog[x], h, s.points[x]) ELSE s.changelog[x]]
  BY DEF EarnTyped, StoreFields, remove_members, save_points
<1> HIDE DEF t
<1>2. t.points \in [Addr -> Points]
  BY <1>1 DEF EarnTyped, Points
<1>3. \A x \in Addr : vote_power(t.points[x]) = vote_power(s.points[x])
  BY <1>1 DEF vote_power
<1>4. Logged(s, t, h)
  BY <1>1 DEF Logged
<1>5. NoMore(s, t, h)
  BY <1>1, <1>2, <1>3, <1>4, MembersNoMore
<1> QED BY <1>5 DEF t

LEMMA AddNoMore ==
  ASSUME NEW s, EarnTyped(s), NEW A, \A x \in Addr : x \in A => vote_power(s.points[x]) = 0,
         NEW status, NEW id, NEW h
  PROVE  NoMore(s, add_members(s, A, status, id, h), h)
<1> DEFINE t == add_members(s, A, status, id, h)
<1>1. /\ DOMAIN t = StoreFields /\ t.distribution = s.distribution
      /\ t.points = [x \in Addr |-> IF x \in A THEN 0 ELSE s.points[x]]
      /\ t.changelog = [x \in Addr |->
           IF x \in A THEN record_change(s.changelog[x], h, s.points[x]) ELSE s.changelog[x]]
  BY DEF EarnTyped, StoreFields, add_members, save_points
<1> HIDE DEF t
<1>2. t.points \in [Addr -> Points]
  BY <1>1 DEF EarnTyped, Points
<1>3. \A x \in Addr : vote_power(t.points[x]) = vote_power(s.points[x])
  BY <1>1 DEF vote_power, ABSENT
<1>4. Logged(s, t, h)
  BY <1>1 DEF Logged
<1>5. NoMore(s, t, h)
  BY <1>1, <1>2, <1>3, <1>4, MembersNoMore
<1> QED BY <1>5 DEF t

\* Only voters have a point.
LEMMA NoVote ==
  ASSUME IInv, NEW x \in Addr, escrows[x].status # "Voting"
  PROVE  vote_power(Store.points[x]) = 0
<1>1. Store.points[x] = points_of(escrows[x].status)
  BY StoreShape DEF IInv, StoreOK, MembersOK
<1> QED BY <1>1 DEF points_of, vote_power, ABSENT

LEMMA ReturnNoMore ==
  ASSUME IInv, DInv, NEW a \in Addr, ReturnEscrow(a)
  PROVE  NoMore(Store, Store', height)
<1> DEFINE e == escrows[a]
           refund == refundable(e)
           s == [Store EXCEPT !.escrows[a].paid = @ - refund]
           t == remove_members(Store, {a}, height)
<1>1. /\ e.status \in {"Voting", "Leaving"}
      /\ Commit(IF refund = e.paid THEN t ELSE s)
  BY DEF ReturnEscrow
<1>2. EarnTyped(Store)
  BY StoreEarns
<1>3. SamePoints(Store, s)
  BY StoreShape DEF StoreFields, SamePoints
<1> HIDE DEF s
<1>4. NoMore(Store, s, height)
  BY <1>2, <1>3, NoMoreSame
<1>5. ASSUME refund = e.paid
      PROVE  NoMore(Store, t, height)
  <2>1. e.paid \in Nat /\ get_escrow(circle) \in Nat /\ get_escrow(circle) > 0
    BY RequiredEscrow, InvariantSays DEF IInv, EscrowsOK, EscrowStatus
  <2>2. e.status # "Voting"
    BY <1>5, <2>1 DEF refundable
  <2> QED BY <1>2, <2>2, NoVote, RemoveNoMore
<1> HIDE DEF t
<1> QED BY <1>1, <1>4, <1>5, CommitNoMore DEF s

LEMMA LeaveNoMore ==
  ASSUME IInv, DInv, NEW a \in Addr, LeaveImmediately(a) \/ LeaveTrustedCircle(a)
  PROVE  NoMore(Store, Store', height)
<1>1. EarnTyped(Store)
  BY StoreEarns
<1>2. CASE LeaveImmediately(a)
  <2>1. escrows[a].status # "Voting" /\ Commit(remove_members(Store, {a}, height))
    BY <1>2 DEF LeaveImmediately
  <2>2. NoMore(Store, remove_members(Store, {a}, height), height)
    BY <1>1, <2>1, NoVote, RemoveNoMore
  <2> QED BY <2>1, <2>2, CommitNoMore
<1>3. CASE LeaveTrustedCircle(a)
  <2> DEFINE V == {a} \cap WithStatus(Store, "Voting")
             t == trigger_long_leave(Store, {a})
  <2>1. Commit(t)
    BY <1>3 DEF LeaveTrustedCircle
  <2>2. V \in SUBSET Addr /\ \A x \in V : Store.points[x] = VOTING_POINTS
    BY StoreShape DEF WithStatus, IInv, StoreOK, MembersOK, points_of
  <2>3. t = set_status(strip_points(Store, V, height), {a}, "Leaving", 0, claim_time)
    BY DEF trigger_long_leave
  <2> HIDE DEF V
  <2>4. NoMore(Store, t, height)
    BY <1>1, <2>2, <2>3, DemoteNoMore
  <2> QED BY <2>1, <2>4, CommitNoMore
<1> QED BY <1>2, <1>3

LEMMA AddVotingNoMore ==
  ASSUME IInv, DInv, NEW id \in DOMAIN proposals, ExecuteAddVotingMembers(id)
  PROVE  NoMore(Store, Store', height)
<1> DEFINE voters == voters_of(proposals[id].content)
           added == {a \in voters : escrows[a].status \in {"None", "NonVoting"}}
           count == Len(proposals[id].content.voters)
           grace == now + voting_period_secs(circle.rules)
           s == create_batch(Store, id, grace, voters, count)
           t == add_members(s, added, "Pending", id, height)
<1>1. Commit(t)
  BY DEF ExecuteAddVotingMembers
<1>2. EarnTyped(Store)
  BY StoreEarns
<1>3. NoMore(Store, s, height) /\ s.points = Store.points
  <2>1. NoMore(Store, s, height)
    BY <1>2, BatchNoMore
  <2>2. s.points = Store.points
    BY StoreShape DEF create_batch, StoreFields
  <2> QED BY <2>1, <2>2
<1>4. \A x \in Addr : x \in added => escrows[x].status # "Voting"
  OBVIOUS
<1> HIDE DEF s, added
<1>5. \A x \in Addr : x \in added => vote_power(s.points[x]) = 0
  BY <1>3, <1>4, NoVote
<1>6. EarnTyped(s)
  BY <1>3 DEF NoMore
<1>7. NoMore(s, t, height)
  BY <1>5, <1>6, AddNoMore
<1> HIDE DEF t
<1> QED BY <1>1, <1>2, <1>3, <1>7, NoMoreTransitive, CommitNoMore

LEMMA AddRemoveNoMore ==
  ASSUME IInv, DInv, NEW id, NEW add, NEW remove, AddRemove(id, add, remove)
  PROVE  NoMore(Store, Store', height)
<1> DEFINE added == {a \in add : points[a] = ABSENT}
           s == add_members(Store, added, "NonVoting", 0, height)
           gone == remove \cap Members(s)
           t == remove_members(s, gone, height)
<1>1. Commit(t) /\ \A x \in remove : s.escrows[x].status \in {"None", "NonVoting"}
  BY DEF AddRemove
<1>2. EarnTyped(Store) /\ StoreOK(Store)
  BY StoreEarns DEF IInv
<1>3. \A x \in added : Store.points[x] = ABSENT
  BY StoreShape
<1>4. /\ s.points = [x \in Addr |-> IF x \in added THEN 0 ELSE points[x]]
      /\ s.escrows = [x \in Addr |-> IF x \in added THEN Become(NoEscrow, "NonVoting", 0, 0)
                                                    ELSE escrows[x]]
  BY StoreShape DEF StoreFields, add_members, save_points
<1> HIDE DEF added
<1>5. NoMore(Store, s, height)
  BY <1>2, <1>3, AddNoMore DEF vote_power
<1>6. EarnTyped(s)
  BY <1>5 DEF NoMore
<1>7. \A x \in Addr : x \in gone => vote_power(s.points[x]) = 0
  <2> SUFFICES ASSUME NEW x \in Addr, x \in remove PROVE vote_power(s.points[x]) = 0
    OBVIOUS
  <2>1. CASE x \in added
    BY <1>4, <2>1 DEF vote_power, ABSENT
  <2>2. CASE x \notin added
    <3>1. escrows[x].status # "Voting" /\ s.points[x] = Store.points[x]
      BY <1>1, <1>4, <2>2, StoreShape
    <3> QED BY <3>1, NoVote
  <2> QED BY <2>1, <2>2
<1> HIDE DEF s, gone
<1>8. NoMore(s, t, height)
  BY <1>6, <1>7, RemoveNoMore
<1> HIDE DEF t
<1> QED BY <1>1, <1>2, <1>5, <1>8, NoMoreTransitive, CommitNoMore

LEMMA PunishNoMore ==
  ASSUME IInv, DInv, NEW id \in DOMAIN proposals, ExecutePunishMembers(id)
  PROVE  NoMore(Store, Store', height)
<1> DEFINE punishments == proposals[id].content.punishments
           all == DOMAIN punishments
           left(a) == escrow_remaining(escrows[a].paid, punishments[a])
           kicked == {a \in all : punishments[a].kick_out}
           demoted == {a \in all \ kicked : left(a) < get_escrow(circle)}
           voters == WithStatus(Store, "Voting")
           es == [a \in Addr |-> IF a \in all THEN [escrows[a] EXCEPT !.paid = left(a)]
                                             ELSE escrows[a]]
           s == [Store EXCEPT !.escrows = es]
           t == trigger_long_leave(s, kicked)
           u == set_status(strip_points(t, demoted \cap voters, height), demoted, "Pending", id, 0)
           v == create_batch(u, id, now, demoted, Cardinality(demoted))
<1>1. Commit(v)
  BY DEF ExecutePunishMembers
<1>2. EarnTyped(Store) /\ escrows \in [Addr -> EscrowStatus]
  BY StoreEarns, InvariantSays DEF EscrowsOK
<1>3. \A x \in Addr : x \in voters => Store.points[x] = VOTING_POINTS
  BY StoreShape DEF WithStatus, IInv, StoreOK, MembersOK, points_of
<1>4. kicked \cap demoted = {}
  OBVIOUS
<1>5. \A x \in Addr : es[x].status = escrows[x].status
  BY <1>2 DEF EscrowStatus
<1> HIDE DEF es, kicked, demoted, all
<1>6. /\ DOMAIN s = StoreFields /\ s.points = Store.points /\ s.escrows = es
      /\ s.distribution = Store.distribution /\ s.changelog = Store.changelog
  BY StoreShape DEF StoreFields
<1>7. WithStatus(s, "Voting") = voters
  BY <1>5, <1>6, StoreShape DEF WithStatus
<1>8. NoMore(Store, s, height) /\ EarnTyped(s)
  BY <1>2, <1>6, NoMoreSame DEF NoMore, SamePoints
<1> HIDE DEF s
<1> DEFINE V == kicked \cap voters
           W == demoted \cap voters
<1>9. /\ V \in SUBSET Addr /\ W \in SUBSET Addr /\ V \cap W = {}
      /\ \A x \in V : s.points[x] = VOTING_POINTS
      /\ \A x \in W : Store.points[x] = VOTING_POINTS
  BY <1>3, <1>4, <1>6 DEF WithStatus
<1>10. t = set_status(strip_points(s, V, height), kicked, "Leaving", 0, claim_time)
  BY <1>7 DEF trigger_long_leave
<1>11. t.points = [x \in Addr |-> IF x \in V THEN 0 ELSE s.points[x]]
  BY <1>8, <1>10 DEF EarnTyped, StoreFields, set_status, strip_points, save_points
<1>12. \A x \in W : t.points[x] = VOTING_POINTS
  BY <1>6, <1>9, <1>11
<1> HIDE DEF V
<1>13. NoMore(s, t, height)
  BY <1>8, <1>9, <1>10, DemoteNoMore
<1>14. EarnTyped(t)
  BY <1>13 DEF NoMore
<1> HIDE DEF t, W
<1>15. NoMore(t, u, height)
  <2>1. u = set_status(strip_points(t, W, height), demoted, "Pending", id, 0)
    BY DEF W
  <2> HIDE DEF u
  <2> QED BY <1>9, <1>12, <1>14, <2>1, DemoteNoMore
<1>16. EarnTyped(u)
  BY <1>15 DEF NoMore
<1> HIDE DEF u
<1>17. NoMore(u, v, height)
  BY <1>16, BatchNoMore
<1> HIDE DEF v
<1>18. NoMore(Store, t, height)
  BY <1>2, <1>8, <1>13, NoMoreTransitive
<1>19. NoMore(Store, u, height)
  BY <1>2, <1>15, <1>18, NoMoreTransitive
<1>20. NoMore(Store, v, height)
  BY <1>2, <1>17, <1>19, NoMoreTransitive
<1> QED BY <1>1, <1>20, CommitNoMore

LEMMA CheckPendingNoMore ==
  ASSUME IInv, DInv, CheckPending
  PROVE  NoMore(Store, Store', height)
<1>1. EarnOK(Store) /\ CircleOK(circle) /\ now \in Nat /\ height \in Nat
  BY StoreEarns DEF IInv, BlockOK
<1>2. Commit(check_pending(Store, circle, height))
  BY DEF CheckPending
<1> QED BY <1>1, <1>2, CheckNoMore, CommitNoMore

\* Propose checks at the height before, if there is one.
LEMMA ProposeNoMore ==
  ASSUME IInv, DInv, NEW a \in Addr, NEW content \in Contents, Propose(a, content)
  PROVE  \/ height > 0 /\ NoMore(Store, Store', height - 1)
         \/ height = 0 /\ NoMore(Store, Store', height)
<1>1. /\ EarnOK(Store) /\ EarnTyped(Store) /\ CircleOK(circle) /\ now \in Nat /\ height \in Nat
  BY StoreEarns DEF IInv, BlockOK
<1>2. CASE height > 0
  <2>1. Commit(check_pending(Store, circle, height - 1)) /\ height - 1 \in Nat
    BY <1>1, <1>2 DEF Propose
  <2> QED BY <1>1, <1>2, <2>1, CheckNoMore, CommitNoMore
<1>3. CASE ~(height > 0)
  <2>1. Commit(Store) /\ height = 0
    BY <1>1, <1>3 DEF Propose
  <2>2. SamePoints(Store, Store)
    BY StoreShape DEF SamePoints
  <2> QED BY <1>1, <2>1, <2>2, NoMoreSame, CommitNoMore
<1> QED BY <1>2, <1>3

\* What distributes and withdraws nothing
Elsewhere ==
  \/ \E a \in Addr :
       \/ \E amount \in Payments : DepositEscrow(a, amount)
       \/ ReturnEscrow(a) \/ LeaveImmediately(a) \/ LeaveTrustedCircle(a)
       \/ \E content \in Contents : Propose(a, content)
  \/ \E id \in DOMAIN proposals :
       \/ \E a \in Addr, vote \in CastVotes : Vote(a, id, vote)
       \/ Execute(id) \/ Close(id)
  \/ CheckPending \/ NextBlock \/ UNCHANGED vars
  \/ \E amount \in Rewards : SendRewards(amount)

LEMMA ElsewhereNoMore ==
  ASSUME IInv, DInv, Elsewhere
  PROVE  \/ NoMore(Store, Store', height)
         \/ /\ \E a \in Addr, content \in Contents : Propose(a, content)
            /\ height > 0 /\ NoMore(Store, Store', height - 1)
<1> DEFINE Earns == NoMore(Store, Store', height)
           Early == /\ \E a \in Addr, content \in Contents : Propose(a, content)
                    /\ height > 0 /\ NoMore(Store, Store', height - 1)
<1>1. ASSUME NEW id \in DOMAIN proposals, Execute(id), ~ExecuteEditTrustedCircle(id)
      PROVE  Earns
  BY <1>1, AddVotingNoMore, AddRemoveNoMore, PunishNoMore DEF Execute,
     ExecuteAddRemoveNonVotingMembers, ExecuteWhitelistContract, ExecuteRemoveContract,
     whitelist_contract_addr, remove_contract_addr
<1>2. ASSUME store_vars' = store_vars
      PROVE  Earns
  <2>1. Store' = Store
    BY <1>2 DEF Store, store_vars
  <2>2. SamePoints(Store, Store)
    BY StoreShape DEF SamePoints
  <2>3. NoMore(Store, Store, height)
    BY <2>2, StoreEarns, NoMoreSame
  <2> QED BY <2>1, <2>3
<1>3. ASSUME \/ \E id \in DOMAIN proposals :
                  \/ ExecuteEditTrustedCircle(id) \/ Close(id)
                  \/ \E a \in Addr, vote \in CastVotes : Vote(a, id, vote)
             \/ NextBlock \/ UNCHANGED vars \/ \E amount \in Rewards : SendRewards(amount)
      PROVE  store_vars' = store_vars
  BY <1>3 DEF ExecuteEditTrustedCircle, Close, Vote, NextBlock, SendRewards, vars
<1>4. ASSUME NEW a \in Addr,
             \/ \E amount \in Payments : DepositEscrow(a, amount)
             \/ ReturnEscrow(a) \/ LeaveImmediately(a) \/ LeaveTrustedCircle(a)
      PROVE  Earns
  BY <1>4, DepositNoMore, ReturnNoMore, LeaveNoMore
<1>5. ASSUME CheckPending \/ \E a \in Addr, content \in Contents : Propose(a, content)
      PROVE  Earns \/ Early
  BY <1>5, CheckPendingNoMore, ProposeNoMore
<1> HIDE DEF Earns, Early
<1>6. Earns \/ Early
  BY <1>1, <1>2, <1>3, <1>4, <1>5 DEF Elsewhere
<1> QED BY <1>6 DEF Earns, Early

-----------------------------------------------------------------------------
\* Rewards stay covered

larger(x, y) == IF x > y THEN x ELSE y

\* The points that an address has earned, or was paid for
peak(s, x) == larger(earned(s, x), POINT_SCALE * s.distribution.withdrawn_funds[x])
peaks(s) == [x \in Addr |-> peak(s, x)]

\* What was distributed covers what was ever earned, with the remainder, and is
\* withdrawn or still assigned
Covered(s) ==
  LET d == s.distribution
  IN /\ SumOf(peaks(s)) + d.points_leftover <= d.distributed_total * POINT_SCALE
     /\ d.distributed_total = d.withdrawable_total + SumOf(d.withdrawn_funds)

RInv == Covered(Store) /\ bank[reward_denom] >= distribution.withdrawable_total

LEMMA PeaksType ==
  ASSUME NEW s, EarnTyped(s)
  PROVE  /\ peaks(s) \in [Addr -> Int]
         /\ SumOf(peaks(s)) \in Int
         /\ \A x \in Addr : /\ peak(s, x) >= earned(s, x)
                            /\ peak(s, x) >= POINT_SCALE * s.distribution.withdrawn_funds[x]
                            /\ peaks(s)[x] = peak(s, x) /\ peak(s, x) \in Int
         /\ s.distribution.withdrawn_funds \in [Addr -> Nat]
         /\ SumOf(s.distribution.withdrawn_funds) \in Nat
<1>1. s.distribution.withdrawn_funds \in [Addr -> Nat] /\ POINT_SCALE \in Nat
  BY ScaleAssumption DEF EarnTyped, DistributionType
<1>2. ASSUME NEW x \in Addr
      PROVE  /\ peak(s, x) >= earned(s, x)
             /\ peak(s, x) >= POINT_SCALE * s.distribution.withdrawn_funds[x]
             /\ peak(s, x) \in Int
  <2>1. earned(s, x) \in Int /\ POINT_SCALE * s.distribution.withdrawn_funds[x] \in Int
    BY <1>1, EarnedType
  <2> QED BY <2>1 DEF peak, larger
<1>3. peaks(s) \in [Addr -> Int]
  BY <1>2 DEF peaks
<1>4. SumOf(peaks(s)) \in Int /\ SumOf(s.distribution.withdrawn_funds) \in Nat
  BY <1>1, <1>3, AddrAssumption, SumOfType, SumNat
<1> QED BY <1>1, <1>2, <1>3, <1>4 DEF peaks

LEMMA CoveredKept ==
  ASSUME NEW s, EarnTyped(s), Covered(s), NEW t, NEW h, NoMore(s, t, h)
  PROVE  Covered(t)
<1>1. EarnTyped(t)
  BY DEF NoMore
<1> DEFINE f == peaks(t)
           g == peaks(s)
<1>2. f \in [Addr -> Int] /\ g \in [Addr -> Int] /\ SumOf(f) \in Int /\ SumOf(g) \in Int
  BY <1>1, PeaksType
<1>3. ASSUME NEW x \in Addr
      PROVE  f[x] <= g[x]
  <2> DEFINE w == POINT_SCALE * s.distribution.withdrawn_funds[x]
  <2>1. w = POINT_SCALE * t.distribution.withdrawn_funds[x] /\ earned(t, x) <= earned(s, x)
    BY DEF NoMore
  <2>2. f[x] = larger(earned(t, x), w) /\ g[x] = larger(earned(s, x), w)
    BY <2>1 DEF peaks, peak
  <2>3. earned(t, x) \in Int /\ earned(s, x) \in Int
    BY <1>1, EarnedType
  <2>4. w \in Int
    BY PeaksType, ScaleAssumption
  <2> HIDE DEF w, f, g
  <2> QED BY <2>1, <2>2, <2>3, <2>4 DEF larger
<1> HIDE DEF f, g
<1>4. SumOf(f) <= SumOf(g)
  BY <1>2, <1>3, AddrAssumption, SumOrder
<1>5. /\ s.distribution.points_leftover \in Nat
      /\ s.distribution.distributed_total * POINT_SCALE \in Int
  <2>1. s.distribution.distributed_total \in Nat /\ s.distribution.points_leftover \in Nat
    BY DEF EarnTyped, DistributionType
  <2> QED BY <2>1, ScaleAssumption
<1>6. SumOf(g) + s.distribution.points_leftover <= s.distribution.distributed_total * POINT_SCALE
  BY DEF Covered, g
<1>7. SumOf(f) + s.distribution.points_leftover <= s.distribution.distributed_total * POINT_SCALE
  BY <1>2, <1>4, <1>5, <1>6
<1>8. s.distribution.distributed_total
        = s.distribution.withdrawable_total + SumOf(s.distribution.withdrawn_funds)
  BY DEF Covered
<1> QED BY <1>7, <1>8 DEF Covered, NoMore, f

\* A distribution gives every voter the same share of a point, and keeps what
\* does not divide.
LEMMA DistributeCovered ==
  ASSUME IInv, DInv, RInv, DistributeRewards
  PROVE  RInv'
<1> DEFINE d == distribution
           V == WithStatus(Store, "Voting")
           amount == Undistributed(d, bank[reward_denom])
           share == amount * POINT_SCALE + d.points_leftover
           q == share \div total
           r == share % total
           t == Store'
<1>1. /\ total > 0 /\ amount > 0 /\ bank' = bank /\ points' = points
      /\ distribution' = distribute_rewards(d, bank[reward_denom], total)
  BY DEF DistributeRewards
<1>2. /\ d \in DistributionType /\ total \in Nat /\ bank[reward_denom] \in Nat
      /\ POINT_SCALE \in Nat
  BY InvariantSays, ScaleAssumption DEF DInv
<1>3. /\ d.points_leftover \in Nat /\ d.points_per_points \in Nat
      /\ d.distributed_total \in Nat /\ d.withdrawable_total \in Nat
  BY <1>2 DEF DistributionType
<1>4. amount \in Nat /\ bank[reward_denom] = d.withdrawable_total + amount
  BY <1>1, <1>2, <1>3 DEF Undistributed
<1> HIDE DEF amount
<1>5. amount * POINT_SCALE \in Nat /\ share \in Nat
  <2>1. amount * POINT_SCALE \in Nat
    BY <1>2, <1>4
  <2> QED BY <2>1, <1>3
<1>6. distribution' = [d EXCEPT !.points_leftover    = r,
                                !.points_per_points  = @ + q,
                                !.distributed_total  = @ + amount,
                                !.withdrawable_total = @ + amount]
  BY <1>1 DEF distribute_rewards, amount
<1>7. /\ share = amount * POINT_SCALE + d.points_leftover
      /\ share = q * total + r /\ q \in Nat /\ r \in Nat
  <2>1. share \in Nat /\ total \in Nat /\ total > 0
    BY <1>1, <1>2, <1>5
  <2> HIDE DEF share
  <2>2. share = q * total + r /\ q \in Nat /\ r \in Nat
    BY <2>1
  <2> QED BY <2>2 DEF share
<1> HIDE DEF share, q, r
<1>8. /\ distribution'.points_leftover = r
      /\ distribution'.points_per_points = d.points_per_points + q
      /\ distribution'.distributed_total = d.distributed_total + amount
      /\ distribution'.withdrawable_total = d.withdrawable_total + amount
      /\ distribution'.points_correction = d.points_correction
      /\ distribution'.withdrawn_funds = d.withdrawn_funds
  BY <1>2, <1>6 DEF DistributionType
<1>9. EarnTyped(Store) /\ Store.distribution = d /\ Store.points = points
  BY StoreEarns, StoreShape
<1>10. /\ DOMAIN t = StoreFields /\ t.distribution = distribution' /\ t.points = points
  BY <1>1 DEF Store, StoreFields
<1>11. EarnTyped(t)
  <2>1. DInv'
    BY DistributeTyped
  <2> QED BY <2>1, <1>9, <1>10 DEF DInv, EarnTyped
<1>12. /\ V \in SUBSET Addr /\ total = Cardinality(V)
       /\ \A x \in V : vote_power(points[x]) = 1
       /\ \A x \in Addr \ V : vote_power(points[x]) = 0
  <2>1. total = Cardinality(V) /\ \A x \in Addr : points[x] = points_of(escrows[x].status)
    BY StoreShape DEF IInv, StoreOK, MembersOK
  <2>2. \A x \in Addr : x \in V <=> escrows[x].status = "Voting"
    BY StoreShape DEF WithStatus
  <2>3. V \in SUBSET Addr
    BY DEF WithStatus
  <2> HIDE DEF V
  <2> QED BY <2>1, <2>2, <2>3 DEF points_of, vote_power, VOTING_POINTS, ABSENT
<1> HIDE DEF V, t, d
<1> DEFINE f == peaks(t)
           g == peaks(Store)
<1>13. f \in [Addr -> Int] /\ g \in [Addr -> Int] /\ SumOf(f) \in Int /\ SumOf(g) \in Int
  BY <1>9, <1>11, PeaksType
<1>14. ASSUME NEW x \in Addr
       PROVE  f[x] <= g[x] + (IF x \in V THEN q ELSE 0)
  <2> DEFINE w == POINT_SCALE * d.withdrawn_funds[x]
  <2>1. f[x] = larger(earned(t, x), w) /\ g[x] = larger(earned(Store, x), w)
    BY <1>8, <1>9, <1>10 DEF peaks, peak
  <2>2. w \in Int /\ earned(Store, x) \in Int /\ earned(t, x) \in Int
    BY <1>2, <1>9, <1>11, EarnedType, PeaksType
  <2>3. earned(t, x) = earned(Store, x) + (IF x \in V THEN q ELSE 0)
    <3>1. d.points_correction[x] \in Int
      BY <1>2 DEF DistributionType
    <3>2. earned(t, x) = (d.points_per_points + q) * vote_power(points[x]) + d.points_correction[x]
      BY <1>8, <1>10 DEF earned
    <3>3. earned(Store, x) = d.points_per_points * vote_power(points[x]) + d.points_correction[x]
      BY <1>9 DEF earned
    <3>4. CASE x \in V
      BY <1>3, <1>7, <1>12, <3>1, <3>2, <3>3, <3>4
    <3>5. CASE x \notin V
      BY <1>3, <1>7, <1>12, <3>1, <3>2, <3>3, <3>5
    <3> QED BY <3>4, <3>5
  <2> HIDE DEF w, f, g
  <2> QED BY <1>7, <2>1, <2>2, <2>3 DEF larger
<1> HIDE DEF f, g
<1>15. SumOf(f) <= SumOf(g) + q * Cardinality(V)
  BY <1>7, <1>12, <1>13, <1>14, AddrAssumption, SumRaised
<1>16. SumOf(g) + d.points_leftover <= d.distributed_total * POINT_SCALE
  BY <1>9 DEF RInv, Covered, g
<1>17. SumOf(f) + r <= (d.distributed_total + amount) * POINT_SCALE
  <2>1. (d.distributed_total + amount) * POINT_SCALE
          = d.distributed_total * POINT_SCALE + amount * POINT_SCALE
    BY <1>2, <1>3, <1>4
  <2>2. q * Cardinality(V) + r = amount * POINT_SCALE + d.points_leftover
    BY <1>7, <1>12
  <2>3. d.distributed_total * POINT_SCALE \in Int /\ q * Cardinality(V) \in Int
    BY <1>2, <1>3, <1>7, <1>12
  <2> DEFINE p == q * Cardinality(V)
             m == amount * POINT_SCALE
             n == d.distributed_total * POINT_SCALE
  <2>4. /\ p \in Int /\ m \in Int /\ n \in Int /\ p + r = m + d.points_leftover
        /\ SumOf(f) <= SumOf(g) + p /\ SumOf(g) + d.points_leftover <= n
    BY <1>5, <1>15, <1>16, <2>2, <2>3
  <2> HIDE DEF p, m, n
  <2>5. SumOf(f) + r <= n + m
    BY <1>3, <1>7, <1>13, <2>4
  <2> QED BY <2>1, <2>5 DEF m, n
<1>18. d.distributed_total + amount = d.withdrawable_total + amount + SumOf(d.withdrawn_funds)
  <2>1. d.distributed_total = d.withdrawable_total + SumOf(d.withdrawn_funds)
    BY <1>9 DEF RInv, Covered
  <2>2. SumOf(d.withdrawn_funds) \in Nat
    BY <1>9, PeaksType
  <2> QED BY <1>3, <1>4, <2>1, <2>2
<1>19. Covered(t)
  BY <1>8, <1>10, <1>17, <1>18 DEF Covered, f
<1>20. bank'[reward_denom] >= distribution'.withdrawable_total
  BY <1>1, <1>2, <1>4, <1>8
<1> QED BY <1>19, <1>20 DEF RInv, t

\* A division leaves no more than was divided.
LEMMA Divided ==
  ASSUME NEW e \in Int, NEW c \in Nat \ {0}
  PROVE  e \div c \in Int /\ c * (e \div c) <= e
OBVIOUS

\* A withdrawal takes what was earned, and no more.
LEMMA WithdrawCovered ==
  ASSUME IInv, DInv, RInv, NEW a \in Addr, WithdrawRewards(a)
  PROVE  RInv'
<1> DEFINE d == distribution
           n == earned(Store, a) \div POINT_SCALE
           amount == withdrawable_rewards(d, a, 1)
           t == Store'
<1>1. /\ escrows[a].status = "Voting" /\ amount > 0 /\ amount <= d.withdrawable_total
      /\ bank[reward_denom] >= amount /\ points' = points
      /\ bank' = [bank EXCEPT ![reward_denom] = @ - amount]
      /\ distribution' = withdraw_rewards(d, a, 1)
  BY DEF WithdrawRewards, CanWithdraw
<1>2. /\ d \in DistributionType /\ bank \in [{denom, reward_denom} -> Nat]
      /\ POINT_SCALE \in Nat \ {0}
  BY ScaleAssumption DEF DInv
<1>3. /\ d.points_leftover \in Nat /\ d.points_per_points \in Nat
      /\ d.points_correction[a] \in Int /\ d.withdrawn_funds \in [Addr -> Nat]
      /\ d.distributed_total \in Nat /\ d.withdrawable_total \in Nat
  BY <1>2 DEF DistributionType
<1>4. EarnTyped(Store) /\ Store.distribution = d /\ Store.points = points
  BY StoreEarns, StoreShape
<1>5. vote_power(points[a]) = 1
  <2>1. points[a] = points_of(escrows[a].status)
    BY StoreShape DEF IInv, StoreOK, MembersOK
  <2> QED BY <1>1, <2>1 DEF points_of, vote_power, VOTING_POINTS, ABSENT
<1>6. earned(Store, a) \in Int /\ earned(Store, a) = Entitlement(d, a, 1)
  BY <1>3, <1>4, <1>5, EarnedType DEF earned, Entitlement
<1>7. n \in Int /\ POINT_SCALE * n <= earned(Store, a)
  BY <1>2, <1>6, Divided
<1>8. amount \in Nat /\ n = d.withdrawn_funds[a] + amount
  BY <1>1, <1>3, <1>6, <1>7 DEF withdrawable_rewards
<1> HIDE DEF amount, n
<1>9. distribution' = [d EXCEPT !.withdrawn_funds[a] = @ + amount, !.withdrawable_total = @ - amount]
  BY <1>1 DEF withdraw_rewards, amount
<1>10. /\ distribution'.points_leftover = d.points_leftover
       /\ distribution'.points_per_points = d.points_per_points
       /\ distribution'.distributed_total = d.distributed_total
       /\ distribution'.withdrawable_total = d.withdrawable_total - amount
       /\ distribution'.points_correction = d.points_correction
       /\ distribution'.withdrawn_funds =
            [d.withdrawn_funds EXCEPT ![a] = d.withdrawn_funds[a] + amount]
  BY <1>2, <1>9 DEF DistributionType
<1>11. /\ DOMAIN t = StoreFields /\ t.distribution = distribution' /\ t.points = points
  BY <1>1 DEF Store, StoreFields
<1>12. EarnTyped(t)
  <2>1. DInv'
    BY WithdrawTyped
  <2> QED BY <2>1, <1>4, <1>11 DEF DInv, EarnTyped
<1> HIDE DEF t, d
<1> DEFINE f == peaks(t)
           g == peaks(Store)
           w == d.withdrawn_funds
           v == distribution'.withdrawn_funds
<1>13. f \in [Addr -> Int] /\ g \in [Addr -> Int] /\ SumOf(f) \in Int /\ SumOf(g) \in Int
  BY <1>4, <1>12, PeaksType
<1>14. ASSUME NEW x \in Addr
       PROVE  f[x] <= g[x]
  <2>1. /\ f[x] = larger(earned(t, x), POINT_SCALE * v[x])
        /\ g[x] = larger(earned(Store, x), POINT_SCALE * w[x])
    BY <1>4, <1>11 DEF peaks, peak
  <2>2. earned(t, x) = earned(Store, x) /\ earned(Store, x) \in Int
    BY <1>4, <1>10, <1>11, EarnedType DEF earned
  <2>3. v[x] \in Nat /\ w[x] \in Nat /\ POINT_SCALE * v[x] \in Int /\ POINT_SCALE * w[x] \in Int
    BY <1>2, <1>3, <1>8, <1>10
  <2>4. CASE x = a
    <3>1. v[a] = n
      BY <1>3, <1>8, <1>10
    <3> QED BY <1>7, <2>1, <2>2, <2>3, <2>4, <3>1 DEF larger
  <2>5. CASE x # a
    <3>1. v[x] = w[x]
      BY <1>3, <1>10, <2>5
    <3> HIDE DEF f, g, v, w
    <3> QED BY <1>13, <2>1, <2>2, <2>3, <3>1
  <2> QED BY <2>4, <2>5
<1> HIDE DEF f, g
<1>15. SumOf(f) <= SumOf(g)
  BY <1>13, <1>14, AddrAssumption, SumOrder
<1>16. SumOf(f) + d.points_leftover <= d.distributed_total * POINT_SCALE
  <2>1. SumOf(g) + d.points_leftover <= d.distributed_total * POINT_SCALE
    BY <1>4 DEF RInv, Covered, g
  <2>2. d.distributed_total * POINT_SCALE \in Int
    BY <1>2, <1>3
  <2> QED BY <1>3, <1>13, <1>15, <2>1, <2>2
<1>17. SumOf(v) = SumOf(w) + amount /\ SumOf(w) \in Nat
  <2>1. w \in [Addr -> Int] /\ v \in [Addr -> Int] /\ v[a] = w[a] + amount
    BY <1>3, <1>8, <1>10
  <2>2. \A x \in Addr : x # a => v[x] = w[x]
    BY <1>3, <1>10
  <2>3. SumOf(w) \in Nat
    BY <1>3, AddrAssumption, SumNat
  <2>4. amount \in Int
    BY <1>8
  <2> HIDE DEF v, w
  <2> QED BY <2>1, <2>2, <2>3, <2>4, AddrAssumption, SumOne
<1>18. d.distributed_total = d.withdrawable_total - amount + SumOf(v)
  <2>1. d.distributed_total = d.withdrawable_total + SumOf(w)
    BY <1>4 DEF RInv, Covered
  <2> HIDE DEF v, w
  <2> QED BY <1>3, <1>8, <1>17, <2>1
<1>19. Covered(t)
  BY <1>10, <1>11, <1>16, <1>18 DEF Covered, f
<1>20. bank'[reward_denom] >= distribution'.withdrawable_total
  <2>1. bank[reward_denom] >= d.withdrawable_total
    BY DEF RInv, d
  <2>2. bank'[reward_denom] = bank[reward_denom] - amount /\ bank[reward_denom] \in Nat
    BY <1>1, <1>2
  <2> QED BY <1>3, <1>8, <1>10, <2>1, <2>2
<1> QED BY <1>19, <1>20 DEF RInv, t

\* Escrows are paid in another token: elsewhere the balance of rewards only grows.
LEMMA ElsewhereBank ==
  ASSUME denom # reward_denom, DInv, Elsewhere
  PROVE  bank'[reward_denom] >= bank[reward_denom]
<1> DEFINE Grows == bank'[reward_denom] >= bank[reward_denom]
<1>1. DOMAIN bank = {denom, reward_denom} /\ bank[reward_denom] \in Nat
  BY DEF DInv
<1>2. ASSUME bank' = bank
      PROVE  Grows
  BY <1>1, <1>2
<1>3. ASSUME NEW new, bank' = [bank EXCEPT ![denom] = new]
      PROVE  Grows
  BY <1>1, <1>3
<1>4. ASSUME NEW amount \in Rewards, SendRewards(amount)
      PROVE  Grows
  <2>1. amount \in Nat
    BY CircleAssumption
  <2> QED BY <1>1, <1>4, <2>1 DEF SendRewards
<1> HIDE DEF Grows
<1>5. ASSUME NEW a \in Addr, NEW amount \in Payments, DepositEscrow(a, amount)
      PROVE  Grows
  BY <1>3, <1>5 DEF DepositEscrow
<1>6. ASSUME NEW a \in Addr,
             ReturnEscrow(a) \/ LeaveImmediately(a) \/ LeaveTrustedCircle(a)
               \/ \E content \in Contents : Propose(a, content)
      PROVE  Grows
  <2>1. CASE ReturnEscrow(a)
    BY <1>3, <2>1 DEF ReturnEscrow
  <2>2. CASE LeaveImmediately(a) \/ LeaveTrustedCircle(a)
               \/ \E content \in Contents : Propose(a, content)
    BY <1>2, <2>2 DEF LeaveImmediately, LeaveTrustedCircle, Propose
  <2> QED BY <1>6, <2>1, <2>2
<1>7. ASSUME NEW id \in DOMAIN proposals, ExecutePunishMembers(id)
      PROVE  Grows
  BY <1>3, <1>7 DEF ExecutePunishMembers
<1>8. ASSUME NEW id \in DOMAIN proposals, Execute(id), ~ExecutePunishMembers(id)
      PROVE  Grows
  BY <1>2, <1>8 DEF Execute, ExecuteEditTrustedCircle, ExecuteAddVotingMembers, AddRemove,
     ExecuteAddRemoveNonVotingMembers, ExecuteWhitelistContract, ExecuteRemoveContract,
     whitelist_contract_addr, remove_contract_addr
<1>9. ASSUME \/ \E id \in DOMAIN proposals :
                  \/ Close(id) \/ \E a \in Addr, vote \in CastVotes : Vote(a, id, vote)
             \/ CheckPending \/ NextBlock \/ UNCHANGED vars
      PROVE  Grows
  BY <1>2, <1>9 DEF Close, Vote, CheckPending, NextBlock, vars
<1>10. Grows
  BY <1>4, <1>5, <1>6, <1>7, <1>8, <1>9 DEF Elsewhere
<1> QED BY <1>10 DEF Grows

LEMMA NextCovered ==
  ASSUME denom # reward_denom, IInv, DInv, RInv, [Next]_vars
  PROVE  RInv'
<1>1. \/ Elsewhere \/ DistributeRewards \/ \E a \in Addr : WithdrawRewards(a)
  BY DEF Next, Elsewhere
<1>2. ASSUME Elsewhere
      PROVE  RInv'
  <2> DEFINE t == Store'
  <2>1. /\ EarnTyped(Store) /\ Covered(Store)
        /\ NoMore(Store, t, height) \/ NoMore(Store, t, height - 1)
    BY <1>2, StoreEarns, ElsewhereNoMore DEF RInv
  <2>2. /\ t.distribution = distribution' /\ Store.distribution = distribution
        /\ distribution.withdrawable_total \in Nat
    BY StoreShape DEF Store, DInv, DistributionType
  <2> HIDE DEF t
  <2>3. Covered(t) /\ distribution'.withdrawable_total = distribution.withdrawable_total
    BY <2>1, <2>2, CoveredKept DEF NoMore
  <2>4. bank'[reward_denom] >= bank[reward_denom]
    BY <1>2, ElsewhereBank
  <2>5. bank[reward_denom] \in Nat /\ bank'[reward_denom] \in Nat
    BY NextTyped DEF DInv
  <2>6. bank'[reward_denom] >= distribution'.withdrawable_total
    BY <2>2, <2>3, <2>4, <2>5 DEF RInv
  <2> QED BY <2>3, <2>6 DEF RInv, t
<1> QED BY <1>1, <1>2, DistributeCovered, WithdrawCovered

LEMMA InitCovered ==
  ASSUME denom # reward_denom, Init
  PROVE  RInv
<1> DEFINE zero == [x \in Addr |-> 0]
<1>1. distribution = InitDistribution /\ bank[reward_denom] = 0
  <2>1. distribution = InitDistribution
    BY DEF Init, add_members, save_points
  <2> QED BY <2>1, InitStore
<1>2. EarnTyped(Store) /\ Store.distribution = distribution
  <2>1. IInv /\ DInv
    BY InitHolds, InitTyped
  <2> QED BY <2>1, StoreEarns, StoreShape
<1>3. POINT_SCALE \in Nat
  BY ScaleAssumption
<1>4. ASSUME NEW x \in Addr
      PROVE  peak(Store, x) = 0
  <2>1. vote_power(Store.points[x]) \in {0, 1}
    BY <1>2, EarnedType
  <2>2. earned(Store, x) = 0
    BY <1>1, <1>2, <2>1 DEF earned, InitDistribution
  <2> QED BY <1>1, <1>2, <1>3, <2>2 DEF peak, larger, InitDistribution
<1>5. peaks(Store) = zero /\ Store.distribution.withdrawn_funds = zero
  BY <1>1, <1>2, <1>4 DEF peaks, InitDistribution
<1>6. SumOf(zero) = 0
  BY AddrAssumption, SumOfNone
<1> HIDE DEF zero
<1>7. Covered(Store)
  BY <1>1, <1>2, <1>3, <1>5, <1>6 DEF Covered, InitDistribution
<1> QED BY <1>1, <1>7 DEF RInv, InitDistribution

\* What the members are told adds up to what is assigned, at most.
LEMMA CoveredSays ==
  ASSUME IInv, DInv, RInv
  PROVE  RewardsSolvent
<1> DEFINE d == distribution
           f == [a \in Addr |-> Unwrap(query_withdrawable_funds(a), 0)]
           w == d.withdrawn_funds
           g == peaks(Store)
           both == [x \in Addr |-> w[x] + f[x]]
           scaled == [x \in Addr |-> POINT_SCALE * both[x]]
<1>1. /\ EarnTyped(Store) /\ Store.distribution = d /\ Store.points = points
      /\ d \in DistributionType /\ POINT_SCALE \in Nat \ {0}
  BY StoreEarns, StoreShape, ScaleAssumption DEF DInv
<1>2. /\ d.points_leftover \in Nat /\ w \in [Addr -> Nat] /\ d.withdrawable_total \in Nat
      /\ d.distributed_total \in Nat
  BY <1>1 DEF DistributionType
<1>3. g \in [Addr -> Int] /\ SumOf(g) \in Int /\ SumOf(w) \in Nat
  BY <1>1, PeaksType
<1>4. ASSUME NEW x \in Addr
      PROVE  f[x] \in Nat /\ POINT_SCALE * (w[x] + f[x]) <= g[x]
  <2> DEFINE e == earned(Store, x)
             funds == e \div POINT_SCALE - w[x]
             told == query_withdrawable_funds(x)
  <2>1. e \in Int /\ w[x] \in Nat /\ POINT_SCALE * w[x] \in Int /\ g[x] \in Int
    BY <1>1, <1>2, <1>3, EarnedType
  <2>2. g[x] >= e /\ g[x] >= POINT_SCALE * w[x]
    BY <1>1, PeaksType
  <2>3. e \div POINT_SCALE \in Int /\ POINT_SCALE * (e \div POINT_SCALE) <= e
    BY <1>1, <2>1, Divided
  <2>4. told \subseteq {funds} \cap Nat
    <3>1. vote_power(points[x]) = IF escrows[x].status = "Voting" THEN 1 ELSE 0
      <4>1. points[x] = points_of(escrows[x].status)
        BY StoreShape DEF IInv, StoreOK, MembersOK
      <4> QED BY <4>1 DEF points_of, vote_power, VOTING_POINTS, ABSENT
    <3>2. withdrawable_rewards(d, x, IF escrows[x].status = "Voting" THEN 1 ELSE 0) = funds
      BY <1>1, <3>1 DEF withdrawable_rewards, Entitlement, earned
    <3> QED BY <3>2 DEF query_withdrawable_funds, adjusted_withdrawable_rewards
  <2>5. f[x] = Unwrap(told, 0)
    OBVIOUS
  <2> HIDE DEF told, f
  <2>6. f[x] = 0 \/ (f[x] = funds /\ funds \in Nat)
    BY <2>4, <2>5 DEF Unwrap
  <2>7. CASE f[x] = 0
    BY <2>1, <2>2, <2>7
  <2>8. CASE f[x] = funds /\ funds \in Nat
    <3>1. w[x] + f[x] = e \div POINT_SCALE
      BY <2>1, <2>3, <2>8
    <3>2. POINT_SCALE * (w[x] + f[x]) <= e
      BY <2>3, <3>1
    <3> HIDE DEF e, w
    <3>3. POINT_SCALE * (w[x] + f[x]) \in Int
      BY <1>1, <2>1, <2>8
    <3> QED BY <2>1, <2>2, <2>8, <3>2, <3>3
  <2> QED BY <2>6, <2>7, <2>8
<1>5. f \in [Addr -> Nat]
  <2>1. f = [x \in Addr |-> f[x]]
    OBVIOUS
  <2> HIDE DEF f
  <2> QED BY <1>4, <2>1
<1> HIDE DEF f, d
<1>6. both \in [Addr -> Int] /\ scaled \in [Addr -> Int] /\ \A x \in Addr : scaled[x] <= g[x]
  BY <1>1, <1>2, <1>4, <1>5
<1>7. SumOf(f) \in Nat /\ SumOf(both) = SumOf(w) + SumOf(f)
  <2>1. MoreBy(both, w, f, Addr, Addr)
    BY <1>2, <1>5, <1>6, AddrAssumption DEF MoreBy
  <2> HIDE DEF both, w
  <2> QED BY <1>5, <2>1, AddrAssumption, SumNat, SumAdd
<1>8. SumOf(scaled) <= SumOf(g)
  BY <1>3, <1>6, AddrAssumption, SumOrder
<1>9. SumOf(scaled) = POINT_SCALE * SumOf(both)
  <2>1. \A x \in Addr : scaled[x] = POINT_SCALE * both[x]
    OBVIOUS
  <2>2. POINT_SCALE \in Int
    BY <1>1
  <2> HIDE DEF scaled, both
  <2> QED BY <1>6, <2>1, <2>2, AddrAssumption, SumScaled
<1>10. /\ SumOf(g) + d.points_leftover <= d.distributed_total * POINT_SCALE
       /\ d.distributed_total = d.withdrawable_total + SumOf(w)
  BY <1>1 DEF RInv, Covered
<1> HIDE DEF g, w, both, scaled
<1>11. POINT_SCALE * SumOf(both) <= d.distributed_total * POINT_SCALE /\ SumOf(both) \in Int
  <2>1. SumOf(both) \in Int
    BY <1>3, <1>7
  <2>2. POINT_SCALE * SumOf(both) \in Int /\ d.distributed_total * POINT_SCALE \in Int
    BY <1>1, <1>2, <2>1
  <2> QED BY <1>2, <1>3, <1>8, <1>9, <1>10, <2>1, <2>2
<1>12. SumOf(both) <= d.distributed_total
  <2>1. \A c \in Nat \ {0}, x, y \in Int : c * x <= y * c => x <= y
    OBVIOUS
  <2> QED BY <1>1, <1>2, <1>11, <2>1
<1>13. SumOf(f) <= d.withdrawable_total
  BY <1>2, <1>3, <1>7, <1>10, <1>12
<1>14. Undistributed(d, bank[reward_denom]) >= 0
  BY <1>2 DEF RInv, DInv, Undistributed, d
<1>15. /\ FoldFunction(+, 0, f) = SumOf(f)
       /\ FoldFunction(+, 0, w) = SumOf(w)
  BY FoldIsSum
<1> QED BY <1>10, <1>13, <1>14, <1>15
        DEF RewardsSolvent, query_undistributed_funds, query_distributed_funds,
            distributed_rewards, d, f, w

\* What all members together are told they may withdraw is assigned to members
\* in the contract's balance, and what was distributed is withdrawn or still
\* assigned, as long as escrows are paid in another token.
THEOREM RewardsCovered == ASSUME denom # reward_denom PROVE Spec => []RewardsSolvent
<1>1. Init => IInv /\ DInv /\ RInv
  BY InitHolds, InitTyped, InitCovered
<1>2. IInv /\ DInv /\ RInv /\ [Next]_vars => (IInv /\ DInv /\ RInv)'
  BY NextKeeps, NextTyped, NextCovered
<1>3. IInv /\ DInv /\ RInv => RewardsSolvent
  BY CoveredSays
<1> QED BY <1>1, <1>2, <1>3, PTL DEF Spec

-----------------------------------------------------------------------------
\* ListsAgree: an address that is no member has no escrow, so the list of the
\* escrows and the list of the members name the same addresses

NothingHeld == \A x \in Addr : escrows[x].status = "None" => escrows[x] = NoEscrow

LEMMA InitNothingHeld == Init => NothingHeld
<1> SUFFICES ASSUME Init, NEW x \in Addr, escrows[x].status = "None"
             PROVE  escrows[x] = NoEscrow
  BY DEF NothingHeld
<1> DEFINE empty == [escrows |-> [a \in Addr |-> NoEscrow], points |-> [a \in Addr |-> ABSENT],
                     changelog |-> [a \in Addr |-> <<>>], total |-> 0,
                     batches |-> <<>>, distribution |-> InitDistribution]
           founded == [save_points(empty, {Creator}, VOTING_POINTS, InitialHeight)
                         EXCEPT !.total = VOTING_POINTS]
           creator(amount) == Become([NoEscrow EXCEPT !.paid = amount], "Voting", 0, 0)
           with(amount) == [founded EXCEPT !.escrows[Creator] = creator(amount)]
<1>1. PICK amount \in Payments :
        escrows = add_members(with(amount), InitialMembers \ {Creator}, "NonVoting", 0,
                              InitialHeight).escrows
  BY DEF Init
<1>2. /\ DOMAIN founded = StoreFields
      /\ founded.escrows = [a \in Addr |-> NoEscrow]
  BY DEF save_points, StoreFields
<1> HIDE DEF founded, creator
<1>3. /\ DOMAIN with(amount) = StoreFields
      /\ with(amount).escrows = [[a \in Addr |-> NoEscrow] EXCEPT ![Creator] = creator(amount)]
  BY <1>2 DEF StoreFields
<1> HIDE DEF with
<1>4. escrows = [a \in Addr |-> IF a \in InitialMembers \ {Creator}
                                  THEN Become(NoEscrow, "NonVoting", 0, 0)
                                ELSE with(amount).escrows[a]]
  BY <1>1, <1>3 DEF add_members, save_points, StoreFields
<1>5. creator(amount).status = "Voting" /\ Become(NoEscrow, "NonVoting", 0, 0).status = "NonVoting"
  BY DEF creator, Become, NoEscrow
<1> QED BY <1>3, <1>4, <1>5

LEMMA NextNothingHeld ==
  ASSUME IInv, NothingHeld, [Next]_vars
  PROVE  NothingHeld'
<1>0. escrows \in [Addr -> EscrowStatus] /\ escrows' \in [Addr -> EscrowStatus]
  BY NextKeeps, TypedStep
<1>1. ASSUME \A x \in Addr : escrows'[x].status = "None" =>
               escrows'[x] = escrows[x] \/ escrows'[x] = NoEscrow
      PROVE  NothingHeld'
  BY <1>1 DEF NothingHeld
<1>2. ASSUME NEW a \in Addr, NEW amount \in Payments, DepositEscrow(a, amount)
      PROVE  NothingHeld'
  BY <1>1, <1>2, DepositKept DEF Settled
<1>3. ASSUME NEW a \in Addr, ReturnEscrow(a)
      PROVE  NothingHeld'
  BY <1>1, <1>3, ReturnKept
<1>4. ASSUME NEW a \in Addr, LeaveImmediately(a)
      PROVE  NothingHeld'
  <2>1. escrows' = [x \in Addr |-> IF x \in {a} THEN NoEscrow ELSE escrows[x]]
    BY <1>4, StoreShape
       DEF LeaveImmediately, Commit, Store, StoreFields, remove_members, save_points
  <2> QED BY <1>1, <2>1
<1>5. ASSUME NEW a \in Addr, LeaveTrustedCircle(a)
      PROVE  NothingHeld'
  BY <1>1, <1>5, LeaveKept
<1>6. ASSUME CheckPending \/ \E a \in Addr, content \in Contents : Propose(a, content)
      PROVE  NothingHeld'
  BY <1>1, <1>6, CheckKept DEF Kept, Settled
<1>7. ASSUME NEW id \in DOMAIN proposals, ExecuteAddVotingMembers(id)
      PROVE  NothingHeld'
  <2>1. Become(NoEscrow, "Pending", id, 0).status = "Pending"
    BY DEF Become, NoEscrow
  <2> QED BY <1>1, <1>7, <2>1, AddVotingKept
<1>8. ASSUME NEW id, NEW add, NEW remove, AddRemove(id, add, remove)
      PROVE  NothingHeld'
  <2>1. Become(NoEscrow, "NonVoting", 0, 0).status = "NonVoting"
    BY DEF Become, NoEscrow
  <2> QED BY <1>1, <1>8, <2>1, AddRemoveKept
<1>9. ASSUME NEW id \in DOMAIN proposals, ExecutePunishMembers(id)
      PROVE  NothingHeld'
  <2>1. ASSUME NEW x \in Addr, escrows'[x].status = "None"
        PROVE  escrows'[x] = escrows[x]
    <3>1. x \notin kicked_out(id) /\ x \notin demoted_by(id)
      BY <1>9, <2>1, Punished
    <3>2. /\ escrows'[x].status = escrows[x].status
          /\ escrows'[x].proposal_id = escrows[x].proposal_id
          /\ escrows'[x].claim_at = escrows[x].claim_at
          /\ x \notin named(id)
      BY <1>9, <2>1, <3>1, Punished
    <3>3. escrows'[x].paid = escrows[x].paid
      BY <1>9, <3>2, Punished
    <3> QED BY <1>0, <3>2, <3>3 DEF EscrowStatus
  <2> QED BY <1>1, <2>1
<1>10. ASSUME NEW id \in DOMAIN proposals, Execute(id)
       PROVE  NothingHeld' \/ ExecuteEditTrustedCircle(id)
  BY <1>10, <1>7, <1>8, <1>9 DEF Execute, ExecuteAddRemoveNonVotingMembers,
       ExecuteWhitelistContract, ExecuteRemoveContract, whitelist_contract_addr,
       remove_contract_addr
<1>11. ASSUME \/ \E id \in DOMAIN proposals :
                   \/ ExecuteEditTrustedCircle(id) \/ Close(id)
                   \/ \E a \in Addr, vote \in CastVotes : Vote(a, id, vote)
              \/ \E a \in Addr : WithdrawRewards(a)
              \/ \E amount \in Rewards : SendRewards(amount)
              \/ DistributeRewards \/ NextBlock \/ UNCHANGED vars
       PROVE  NothingHeld'
  <2>1. escrows' = escrows
    BY <1>11 DEF ExecuteEditTrustedCircle, Close, Vote, WithdrawRewards, SendRewards,
         DistributeRewards, NextBlock, vars, store_vars
  <2> QED BY <1>1, <2>1
<1> QED BY <1>2, <1>3, <1>4, <1>5, <1>6, <1>10, <1>11 DEF Next

\* What the proofs about the lists assume of those who read them: addresses are
\* ordered, and a limit asks for something.
Readers == Addr \in SUBSET Int /\ \A limit \in PageLimits : IsLimit(limit)

LEMMA ListsSay ==
  ASSUME Readers, IInv, NothingHeld
  PROVE  ListsAgree
<1>1. /\ VotingMatchesTotal /\ IsFiniteSet(Addr) /\ Addr \in SUBSET Int
      /\ \A limit \in PageLimits : IsLimit(limit)
  BY InvariantSays, AddrAssumption DEF Readers
<1> DEFINE escrowed == {a \in Addr : query_escrow(a) # {}}
           voters == {a \in Addr : query_member(a, {}) = {VOTING_POINTS}}
           inside == {a \in Addr : points[a] # ABSENT}
           others == {a \in Addr : points[a] = 0}
<1>2. ASSUME NEW a \in Addr
      PROVE  /\ query_escrow(a) # {} <=> escrows[a].status # "None"
             /\ query_member(a, {}) = {VOTING_POINTS} <=> points[a] = VOTING_POINTS
  <2>1. escrows[a] = NoEscrow <=> escrows[a].status = "None"
    BY DEF NothingHeld, NoEscrow
  <2>2. query_member(a, {}) = {points[a]} \ {ABSENT}
    BY DEF query_member
  <2>3. VOTING_POINTS # ABSENT
    BY DEF VOTING_POINTS, ABSENT
  <2> QED BY <2>1, <2>2, <2>3 DEF query_escrow
<1>3. ASSUME NEW a \in Addr
      PROVE  /\ points[a] # ABSENT <=> escrows[a].status # "None"
             /\ points[a] = VOTING_POINTS <=> escrows[a].status = "Voting"
             /\ points[a] = 0 <=> escrows[a].status \notin {"None", "Voting"}
  <2>1. points[a] = CASE escrows[a].status = "None"   -> ABSENT
                      [] escrows[a].status = "Voting" -> VOTING_POINTS
                      [] OTHER                        -> 0
    BY <1>1 DEF VotingMatchesTotal
  <2> QED BY <2>1 DEF ABSENT, VOTING_POINTS
<1>4. /\ escrowed = Members(Store) /\ escrowed = inside
      /\ voters = {a \in Addr : points[a] = VOTING_POINTS} /\ voters = Voters
      /\ others = escrowed \ voters
  BY <1>2, <1>3, StoreShape DEF Members, Voters, WithStatus
<1>5. /\ escrowed \in SUBSET Addr /\ voters \in SUBSET Addr
      /\ escrowed \ voters \in SUBSET Addr
  OBVIOUS
<1> HIDE DEF escrowed, voters, inside, others
<1>6. ASSUME NEW limit \in PageLimits
      PROVE  /\ Shows(Pages(LAMBDA s : list_escrows(s, limit), Cardinality(Addr)), escrowed)
             /\ Shows(Pages(LAMBDA s : list_members(s, limit), Cardinality(Addr)), escrowed)
             /\ Shows(Pages(LAMBDA s : list_voting_members(s, limit), Cardinality(Addr)), voters)
             /\ Shows(Pages(LAMBDA s : list_non_voting_members(s, limit), Cardinality(Addr)),
                      escrowed \ voters)
  <2>1. Pages(LAMBDA s : list_escrows(s, limit), Cardinality(Addr))
          = PagesOf(Members(Store), limit, Cardinality(Addr))
    BY DEF PagesOf, list_escrows
  <2>2. Pages(LAMBDA s : list_members(s, limit), Cardinality(Addr))
          = PagesOf(inside, limit, Cardinality(Addr))
    BY DEF PagesOf, list_members, inside
  <2>3. Pages(LAMBDA s : list_voting_members(s, limit), Cardinality(Addr))
          = PagesOf({a \in Addr : points[a] = VOTING_POINTS}, limit, Cardinality(Addr))
    BY DEF PagesOf, list_voting_members
  <2>4. Pages(LAMBDA s : list_non_voting_members(s, limit), Cardinality(Addr))
          = PagesOf(others, limit, Cardinality(Addr))
    BY DEF PagesOf, list_non_voting_members, others
  <2>5. /\ Shows(PagesOf(escrowed, limit, Cardinality(Addr)), escrowed)
        /\ Shows(PagesOf(voters, limit, Cardinality(Addr)), voters)
        /\ Shows(PagesOf(escrowed \ voters, limit, Cardinality(Addr)), escrowed \ voters)
    BY <1>1, <1>5, KeysOfShown
  <2>6. /\ PagesOf(Members(Store), limit, Cardinality(Addr)) = PagesOf(escrowed, limit, Cardinality(Addr))
        /\ PagesOf(inside, limit, Cardinality(Addr)) = PagesOf(escrowed, limit, Cardinality(Addr))
        /\ PagesOf({a \in Addr : points[a] = VOTING_POINTS}, limit, Cardinality(Addr))
             = PagesOf(voters, limit, Cardinality(Addr))
        /\ PagesOf(others, limit, Cardinality(Addr))
             = PagesOf(escrowed \ voters, limit, Cardinality(Addr))
    BY <1>4
  <2> QED BY <2>1, <2>2, <2>3, <2>4, <2>5, <2>6
<1>7. Cardinality(voters) = query_total_points
  BY <1>1, <1>4 DEF VotingMatchesTotal, query_total_points
<1> QED BY <1>6, <1>7 DEF ListsAgree, escrowed, voters

\* Whoever pages through the lists of a circle, with any limit, sees every member
\* once, and as many voters as TotalPoints says.
THEOREM ListsShown == ASSUME Readers PROVE Spec => []ListsAgree
<1>1. Init => IInv /\ NothingHeld
  BY InitHolds, InitNothingHeld
<1>2. IInv /\ NothingHeld /\ [Next]_vars => (IInv /\ NothingHeld)'
  BY NextKeeps, NextNothingHeld
<1>3. IInv /\ NothingHeld => ListsAgree
  BY ListsSay
<1> QED BY <1>1, <1>2, <1>3, PTL DEF Spec
-----------------------------------------------------------------------------
\* The electorate of a proposal: snapshots

\* Every record is of a height up to h
Past(log, h) == \A x \in Addr : \A k \in DOMAIN log[x] : k <= h

LEMMA LoggedPast ==
  ASSUME NEW s, NEW t, NEW h, Logged(s, t, h), NEW g, Past(s.changelog, g), h <= g
  PROVE  Past(t.changelog, g)
<1> SUFFICES ASSUME NEW x \in Addr, NEW k \in DOMAIN t.changelog[x]
             PROVE  k <= g
  BY DEF Past
<1>1. \/ t.changelog[x] = s.changelog[x]
      \/ t.changelog[x] = record_change(s.changelog[x], h, s.points[x])
  BY DEF Logged
<1>2. DOMAIN record_change(s.changelog[x], h, s.points[x]) = DOMAIN s.changelog[x] \cup {h}
  BY DEF record_change
<1>3. k \in DOMAIN s.changelog[x] \/ k = h
  BY <1>1, <1>2
<1> QED BY <1>3 DEF Past

LEMMA LoggedRecords ==
  ASSUME NEW s, NEW t, NEW h, Logged(s, t, h), NEW x \in Addr
  PROVE  \A k \in DOMAIN s.changelog[x] :
           k \in DOMAIN t.changelog[x] /\ t.changelog[x][k] = s.changelog[x][k]
BY DEF Logged, record_change

\* The snapshot of an address at a height is its first record from there on.
LEMMA FirstRecord ==
  ASSUME NEW s, NEW x, DOMAIN s.changelog[x] \subseteq Nat, NEW g,
         NEW f \in DOMAIN s.changelog[x], f >= g,
         \A k \in DOMAIN s.changelog[x] : k >= g => f <= k
  PROVE  points_at_height(s, x, g) = s.changelog[x][f]
<1> DEFINE later == {k \in DOMAIN s.changelog[x] : k >= g}
           first == CHOOSE k \in later : \A n \in later : k <= n
<1>1. f \in later /\ \A n \in later : f <= n
  OBVIOUS
<1>2. first \in later /\ \A n \in later : first <= n
  BY <1>1
<1>3. first <= f /\ f <= first /\ first \in Nat /\ f \in Nat
  BY <1>1, <1>2
<1>4. first = f
  BY <1>3
<1> QED BY <1>1, <1>4 DEF points_at_height

\* ... or, without one, what it has.
LEMMA NoRecord ==
  ASSUME NEW s, NEW x, NEW g, \A k \in DOMAIN s.changelog[x] : ~(k >= g)
  PROVE  points_at_height(s, x, g) = s.points[x]
BY DEF points_at_height

\* A change that is recorded after the records there are, or that the height
\* already has a record of, changes no snapshot of that height or before.
LEMMA SnapshotKept ==
  ASSUME NEW s, LogOK(s.changelog), NEW t, NEW h \in Nat, NEW x \in Addr,
         \/ t.points[x] = s.points[x] /\ t.changelog[x] = s.changelog[x]
         \/ t.changelog[x] = record_change(s.changelog[x], h, s.points[x]),
         \/ h \in DOMAIN s.changelog[x]
         \/ \A k \in DOMAIN s.changelog[x] : k <= h,
         NEW g \in Nat, g <= h
  PROVE  points_at_height(t, x, g) = points_at_height(s, x, g)
<1> DEFINE D == DOMAIN s.changelog[x]
           later == {k \in D : k >= g}
<1>1. D \subseteq Nat
  BY DEF LogOK
<1>2. CASE t.points[x] = s.points[x] /\ t.changelog[x] = s.changelog[x]
  BY <1>2 DEF points_at_height
<1>3. CASE t.changelog[x] = record_change(s.changelog[x], h, s.points[x])
  <2>1. /\ DOMAIN t.changelog[x] = D \cup {h}
        /\ \A k \in D : t.changelog[x][k] = s.changelog[x][k]
        /\ h \notin D => t.changelog[x][h] = s.points[x]
    BY <1>3 DEF record_change
  <2>2. CASE later # {}
    <3>1. PICK f \in later : \A k \in later : f <= k
      BY <1>1, <2>2, LeastNumber
    <3>2. points_at_height(s, x, g) = s.changelog[x][f]
      BY <1>1, <3>1, FirstRecord
    <3>3. f <= h
      <4>1. CASE h \in D
        BY <3>1, <4>1
      <4>2. CASE h \notin D
        BY <3>1, <4>2
      <4> QED BY <4>1, <4>2
    <3>4. /\ f \in DOMAIN t.changelog[x] /\ f >= g /\ DOMAIN t.changelog[x] \subseteq Nat
          /\ \A k \in DOMAIN t.changelog[x] : k >= g => f <= k
      BY <1>1, <2>1, <3>1, <3>3
    <3>5. points_at_height(t, x, g) = t.changelog[x][f]
      BY <3>4, FirstRecord
    <3> QED BY <2>1, <3>1, <3>2, <3>5
  <2>3. CASE later = {}
    <3>1. h \notin D /\ \A k \in D : ~(k >= g)
      BY <2>3
    <3>2. points_at_height(s, x, g) = s.points[x]
      BY <3>1, NoRecord
    <3>3. /\ h \in DOMAIN t.changelog[x] /\ h >= g /\ DOMAIN t.changelog[x] \subseteq Nat
          /\ \A k \in DOMAIN t.changelog[x] : k >= g => h <= k
      BY <1>1, <2>1, <3>1
    <3>4. points_at_height(t, x, g) = t.changelog[x][h]
      BY <3>3, FirstRecord
    <3> QED BY <2>1, <3>1, <3>2, <3>4
  <2> QED BY <2>2, <2>3
<1> QED BY <1>2, <1>3

\* Who has a record of the last height has it as its snapshot there.
LEMMA RecordedPoints ==
  ASSUME NEW s, LogOK(s.changelog), NEW x \in Addr, NEW h \in DOMAIN s.changelog[x]
  PROVE  points_at_height(s, x, h) = s.changelog[x][h]
<1>1. DOMAIN s.changelog[x] \subseteq Nat /\ h >= h
  BY DEF LogOK
<1>2. \A k \in DOMAIN s.changelog[x] : k >= h => h <= k
  BY <1>1
<1> QED BY <1>1, <1>2, FirstRecord
-----------------------------------------------------------------------------
\* What a proposal finds checked: of the batches that are ready, nobody is left
\* to promote who has no record of this height

AtRest(s, x, h, time) ==
  \/ h \in DOMAIN s.changelog[x]
  \/ s.escrows[x].status \notin {"Pending", "PendingPaid"}
  \/ /\ s.escrows[x].status = "Pending"
     /\ s.batches[s.escrows[x].proposal_id].grace_ends_at <= time

AllAtRest(s, n, h, time) ==
  \A x \in Addr : x \in s.batches[n].members => AtRest(s, x, h, time)
UpkeptIn(s, h, time) == \A n \in ready_batches(s, time) : AllAtRest(s, n, h, time)

\* From s to t, an address waits as before, waits no longer, is recorded, was
\* not due, or is due: then it stays at rest
RestKept(s, t, x, h, time) ==
  \/ t.escrows[x].status \notin {"Pending", "PendingPaid"}
  \/ /\ t.escrows[x].status = s.escrows[x].status
     /\ t.escrows[x].proposal_id = s.escrows[x].proposal_id
  \/ h \in DOMAIN t.changelog[x]
  \/ /\ s.escrows[x].status = "Pending"
     /\ ~(s.batches[s.escrows[x].proposal_id].grace_ends_at <= time)
  \/ /\ t.escrows[x].status = "Pending"
     /\ t.batches[t.escrows[x].proposal_id].grace_ends_at <= time

\* From s to t batches keep their members and their end, and none gets ready
\* but with everybody at rest
BatchesKept(s, t, h, time) ==
  /\ \A n \in DOMAIN s.batches :
       /\ n \in DOMAIN t.batches
       /\ t.batches[n].members = s.batches[n].members
       /\ t.batches[n].grace_ends_at = s.batches[n].grace_ends_at
  /\ \A n \in ready_batches(t, time) :
       n \in ready_batches(s, time) \/ AllAtRest(t, n, h, time)

LEMMA UpkeptKept ==
  ASSUME NEW s, WaitOK(s), NEW t, NEW h, NEW time, Logged(s, t, h), UpkeptIn(s, h, time),
         BatchesKept(s, t, h, time), \A x \in Addr : RestKept(s, t, x, h, time)
  PROVE  UpkeptIn(t, h, time)
<1>1. ASSUME NEW x \in Addr, AtRest(s, x, h, time)
      PROVE  AtRest(t, x, h, time)
  <2> DEFINE id == s.escrows[x].proposal_id
  <2>1. RestKept(s, t, x, h, time)
    OBVIOUS
  <2>2. CASE h \in DOMAIN s.changelog[x]
    BY <2>2, LoggedRecords DEF AtRest
  <2>3. CASE t.escrows[x].status = "Pending" /\ s.escrows[x].status = "Pending"
             /\ s.batches[id].grace_ends_at <= time /\ t.escrows[x].proposal_id = id
    <3>1. id \in DOMAIN s.batches
      BY <2>3 DEF WaitOK
    <3>2. t.batches[id].grace_ends_at <= time
      BY <2>3, <3>1 DEF BatchesKept
    <3> QED BY <2>3, <3>2 DEF AtRest
  <2> QED BY <1>1, <2>1, <2>2, <2>3 DEF AtRest, RestKept
<1>2. ASSUME NEW n \in ready_batches(t, time)
      PROVE  AllAtRest(t, n, h, time)
  <2>1. CASE n \in ready_batches(s, time)
    <3>1. n \in DOMAIN s.batches
      BY <2>1 DEF ready_batches
    <3>2. t.batches[n].members = s.batches[n].members
      BY <3>1 DEF BatchesKept
    <3>3. AllAtRest(s, n, h, time)
      BY <2>1 DEF UpkeptIn
    <3> QED BY <1>1, <3>2, <3>3 DEF AllAtRest
  <2>2. CASE n \notin ready_batches(s, time)
    BY <2>2 DEF BatchesKept
  <2> QED BY <2>1, <2>2
<1> QED BY <1>2 DEF UpkeptIn

\* Nobody gets to wait, and the batches stay.
LEMMA UpkeptSame ==
  ASSUME NEW s, WaitOK(s), NEW t, NEW h, NEW time, Logged(s, t, h), UpkeptIn(s, h, time),
         t.batches = s.batches,
         \A x \in Addr : t.escrows[x].status \in {"Pending", "PendingPaid"} =>
           /\ t.escrows[x].status = s.escrows[x].status
           /\ t.escrows[x].proposal_id = s.escrows[x].proposal_id
  PROVE  UpkeptIn(t, h, time)
<1>1. BatchesKept(s, t, h, time)
  BY DEF BatchesKept, ready_batches
<1>2. \A x \in Addr : RestKept(s, t, x, h, time)
  BY DEF RestKept
<1> QED BY <1>1, <1>2, UpkeptKept

\* A new batch that is not ready, or has everybody at rest.
LEMMA BatchKept ==
  ASSUME NEW s, NEW t, NEW h, NEW time, NEW id, NEW grace, NEW A, NEW count \in Nat,
         t.batches = with_batch(s.batches, id, grace, A, count),
         count > 0 => id \notin DOMAIN s.batches,
         count > 0 => \/ ~(grace <= time)
                      \/ \A x \in Addr : x \in A => AtRest(t, x, h, time)
  PROVE  BatchesKept(s, t, h, time)
<1>1. CASE count = 0
  <2>1. t.batches = s.batches
    BY <1>1 DEF with_batch
  <2> QED BY <2>1 DEF BatchesKept, ready_batches
<1>2. CASE count > 0
  <2>1. /\ DOMAIN t.batches = DOMAIN s.batches \cup {id}
        /\ \A n \in DOMAIN s.batches : n # id /\ t.batches[n] = s.batches[n]
        /\ t.batches[id].grace_ends_at = grace /\ t.batches[id].members = A
    BY <1>2 DEF with_batch
  <2>2. ASSUME NEW n \in ready_batches(t, time), n \notin ready_batches(s, time)
        PROVE  AllAtRest(t, n, h, time)
    <3>1. n = id
      BY <2>1, <2>2 DEF ready_batches
    <3>2. grace <= time
      BY <2>1, <3>1 DEF ready_batches
    <3> QED BY <1>2, <2>1, <3>1, <3>2 DEF AllAtRest
  <2> QED BY <2>1, <2>2 DEF BatchesKept
<1> QED BY <1>1, <1>2

\* After a check no batch is ready.
LEMMA CheckedUpkept ==
  ASSUME NEW s, StoreOK(s), NEW k, CircleOK(k), NEW h \in Nat, now \in Nat, NEW t,
         t.batches = check_pending(s, k, h).batches
  PROVE  ready_batches(t, now) = {}
<1> DEFINE u == check_pending_escrow(s, k, h)
           ready == ready_batches(u, now)
<1>1. StoreOK(u)
  BY PendingEscrowChecked
<1>2. t.batches = flagged(u.batches, ready)
  <2>1. check_pending(s, k, h) = convert_all_paid_members_to_voters(u, ready, h)
    BY DEF check_pending
  <2> HIDE DEF u, ready
  <2> QED BY <1>1, <2>1, ConvertedStore
<1>3. ready = {n \in DOMAIN u.batches : ~u.batches[n].batch_promoted
                                        /\ u.batches[n].grace_ends_at <= now}
  BY DEF ready_batches
<1> HIDE DEF u, ready
<1>4. /\ DOMAIN t.batches = DOMAIN u.batches
      /\ \A n \in DOMAIN u.batches :
           /\ t.batches[n].grace_ends_at = u.batches[n].grace_ends_at
           /\ t.batches[n].batch_promoted = (n \in ready \/ u.batches[n].batch_promoted)
  BY <1>1, <1>2, FlaggedBatches DEF StoreOK, SameBatches
<1>5. \A n \in DOMAIN t.batches : ~t.batches[n].batch_promoted =>
        ~(t.batches[n].grace_ends_at <= now)
  BY <1>3, <1>4
<1> QED BY <1>5 DEF ready_batches
-----------------------------------------------------------------------------
\* The invariant behind a fixed electorate: nothing is recorded of the future,
\* voting periods are positive, so that no batch or escrow is due when it is
\* made, and a block that has a proposal was checked before it

PositivePeriod(content) ==
  content.kind = "EditTrustedCircle" => \A x \in content.adjustments.voting_period : x > 0

RecordsPast == Past(changelog, height)
StartsPast == \A id \in DOMAIN proposals : proposals[id].start_height <= height
PositivePeriods ==
  /\ circle.rules.voting_period > 0
  /\ \A id \in DOMAIN proposals : PositivePeriod(proposals[id].content)

\* A proposal was made in this block, after its check
Proposed == height > 0 /\ \E id \in DOMAIN proposals : proposals[id].start_height = height
Upkept == Proposed => ~escrow_due(circle) /\ UpkeptIn(Store, height, now)

EInv == RecordsPast /\ StartsPast /\ PositivePeriods /\ Upkept

\* A step makes a proposal, or there are the same ones.
LEMMA ProposalsSince ==
  ASSUME IInv, [Next]_vars, ~ \E a \in Addr, content \in Contents : Propose(a, content)
  PROVE  DOMAIN proposals' = DOMAIN proposals
<1>1. ASSUME NEW id \in DOMAIN proposals, Execute(id)
      PROVE  DOMAIN proposals' = DOMAIN proposals
  <2>1. \/ proposals' = executed(id)
        \/ \E L : proposals' = adjust_open_proposals(executed(id), L)
    BY <1>1 DEF Execute, ExecuteEditTrustedCircle, ExecuteAddVotingMembers,
         ExecuteAddRemoveNonVotingMembers, ExecuteWhitelistContract, ExecuteRemoveContract,
         whitelist_contract_addr, remove_contract_addr, AddRemove, ExecutePunishMembers
  <2>2. DOMAIN executed(id) = DOMAIN proposals
    BY DEF executed
  <2> QED BY <2>1, <2>2 DEF adjust_open_proposals
<1>2. ASSUME \/ \E a \in Addr : LeaveTrustedCircle(a)
             \/ \E id \in DOMAIN proposals :
                  Close(id) \/ \E a \in Addr, vote \in CastVotes : Vote(a, id, vote)
      PROVE  DOMAIN proposals' = DOMAIN proposals
  BY <1>2 DEF LeaveTrustedCircle, adjust_open_proposals, Close, Vote
<1>3. ASSUME \/ \E a \in Addr : \/ \E amount \in Payments : DepositEscrow(a, amount)
                               \/ ReturnEscrow(a) \/ LeaveImmediately(a) \/ WithdrawRewards(a)
             \/ CheckPending \/ DistributeRewards \/ NextBlock \/ UNCHANGED vars
             \/ \E amount \in Rewards : SendRewards(amount)
      PROVE  UNCHANGED proposals
  BY <1>3 DEF DepositEscrow, ReturnEscrow, LeaveImmediately, WithdrawRewards, CheckPending,
       DistributeRewards, NextBlock, SendRewards, vars, proposal_vars
<1> QED BY <1>1, <1>2, <1>3 DEF Next

\* A new proposal starts at the current height.
NewProposal(q, a, content, power) ==
  /\ q.start_height = height /\ q.content = content
  /\ q.votes = add_vote(NoVotes, "Yes", power)
  /\ proposals' = Append(proposals, q)
  /\ ballots' = ballots \cup
       {[proposal_id |-> Len(proposals) + 1, voter |-> a, vote |-> "Yes", points |-> power]}

LEMMA ProposeAppends ==
  ASSUME IInv, NEW a \in Addr, NEW content \in Contents, Propose(a, content)
  PROVE  /\ \E q : NewProposal(q, a, content, vote_power(points'[a]))
         /\ vote_power(points'[a]) > 0
         /\ \E s, k : /\ ValidProposal(s, k, content) /\ CircleOK(k) /\ circle' = k
                      /\ k \in {circle, enforce_escrow(circle)}
         /\ Len(proposals') = Len(proposals) + 1
<1> DEFINE s == IF height > 0 THEN check_pending(Store, circle, height - 1) ELSE Store
           k == IF height > 0 THEN enforce_escrow(circle) ELSE circle
           p == [start_height |-> height, expires |-> now + voting_period_secs(k.rules),
                 content |-> content, status |-> "Open", rules |-> k.rules,
                 total_points |-> s.total,
                 votes |-> add_vote(NoVotes, "Yes", vote_power(s.points[a]))]
           q == update_status(p, now)
<1>1. /\ ValidProposal(s, k, content) /\ create_proposal(q) /\ circle' = k /\ Commit(s)
      /\ vote_power(s.points[a]) > 0
      /\ ballots' = ballots \cup {[proposal_id |-> Len(proposals) + 1, voter |-> a,
                                   vote |-> "Yes", points |-> vote_power(s.points[a])]}
  BY DEF Propose
<1>2. CircleOK(k) /\ k \in {circle, enforce_escrow(circle)}
  BY EnforceCircle DEF IInv
<1>3. /\ p.start_height = height /\ p.content = content /\ "status" \in DOMAIN p
      /\ p.votes = add_vote(NoVotes, "Yes", vote_power(s.points[a]))
  OBVIOUS
<1> HIDE DEF s, k, p
<1>4. /\ q.start_height = height /\ q.content = content
      /\ q.votes = add_vote(NoVotes, "Yes", vote_power(s.points[a]))
  BY <1>3 DEF update_status
<1> HIDE DEF q
<1>5. proposals' = Append(proposals, q) /\ points' = s.points
  BY <1>1 DEF create_proposal, Commit
<1>6. NewProposal(q, a, content, vote_power(points'[a]))
  BY <1>1, <1>4, <1>5 DEF NewProposal
<1>7. Len(proposals') = Len(proposals) + 1
  BY <1>5, AppendProperties DEF IInv, ProposalsOK
<1> QED BY <1>1, <1>2, <1>5, <1>6, <1>7

LEMMA NewProposals ==
  ASSUME IInv, NEW q, NEW a, NEW content, NEW power, NewProposal(q, a, content, power)
  PROVE  /\ DOMAIN proposals' = DOMAIN proposals \cup {Len(proposals) + 1}
         /\ Len(proposals) + 1 \notin DOMAIN proposals
         /\ proposals'[Len(proposals) + 1] = q
         /\ \A id \in DOMAIN proposals : proposals'[id] = proposals[id]
<1>1. proposals \in Seq(Proposal) /\ proposals' = Append(proposals, q)
  BY DEF IInv, ProposalsOK, NewProposal
<1>2. /\ Len(proposals) \in Nat /\ DOMAIN proposals = 1..Len(proposals)
      /\ DOMAIN proposals' = 1..Len(proposals) + 1
  BY <1>1, LenProperties
<1>3. /\ proposals'[Len(proposals) + 1] = q
      /\ \A id \in 1..Len(proposals) : proposals'[id] = proposals[id]
  BY <1>1, <1>2
<1> QED BY <1>2, <1>3

\* The current block goes on, or the next one begins.
LEMMA HeightSteps ==
  ASSUME IInv, [Next]_vars
  PROVE  \/ height' = height /\ now' = now
         \/ NextBlock /\ height' = height + 1 /\ store_vars' = store_vars
<1>1. CASE NextBlock
  BY <1>1 DEF NextBlock
<1>2. ASSUME \/ \E a \in Addr : \/ \E amount \in Payments : DepositEscrow(a, amount)
                               \/ ReturnEscrow(a) \/ LeaveImmediately(a)
                               \/ LeaveTrustedCircle(a) \/ WithdrawRewards(a)
                               \/ \E content \in Contents : Propose(a, content)
             \/ CheckPending \/ DistributeRewards \/ UNCHANGED vars
             \/ \E amount \in Rewards : SendRewards(amount)
             \/ \E id \in DOMAIN proposals :
                  Close(id) \/ \E a \in Addr, vote \in CastVotes : Vote(a, id, vote)
      PROVE  height' = height /\ now' = now
  BY <1>2 DEF DepositEscrow, ReturnEscrow, LeaveImmediately, LeaveTrustedCircle, Propose,
       WithdrawRewards, CheckPending, DistributeRewards, SendRewards, Close, Vote, vars,
       block_vars
<1>3. ASSUME NEW id \in DOMAIN proposals, Execute(id)
      PROVE  height' = height /\ now' = now
  BY <1>3 DEF Execute, ExecuteEditTrustedCircle, ExecuteAddVotingMembers, block_vars,
       ExecuteAddRemoveNonVotingMembers, ExecuteWhitelistContract, ExecuteRemoveContract,
       whitelist_contract_addr, remove_contract_addr, AddRemove, ExecutePunishMembers
<1> QED BY <1>1, <1>2, <1>3 DEF Next

LEMMA NextStarts == IInv /\ StartsPast /\ [Next]_vars => StartsPast'
<1> SUFFICES ASSUME IInv, StartsPast, [Next]_vars PROVE StartsPast'
  OBVIOUS
<1>1. AllAdvance /\ height \in Nat /\ height' \in Nat /\ height' >= height
  BY NextAdvances, HeightSteps DEF IInv, BlockOK
<1>2. \A id \in DOMAIN proposals : proposals[id].start_height \in Nat
  BY InvariantSays DEF Proposal
<1>3. \A id \in DOMAIN proposals : proposals'[id].start_height <= height'
  BY <1>1, <1>2 DEF StartsPast, AllAdvance, Advances
<1>4. ASSUME NEW a \in Addr, NEW content \in Contents, Propose(a, content)
      PROVE  StartsPast'
  <2>1. PICK q : NewProposal(q, a, content, vote_power(points'[a]))
    BY <1>4, ProposeAppends
  <2>2. height' = height
    BY <1>4 DEF Propose, block_vars
  <2>3. q.start_height <= height'
    BY <1>1, <2>1, <2>2 DEF NewProposal
  <2> QED BY <1>3, <2>1, <2>3, NewProposals DEF StartsPast
<1>5. CASE ~ \E a \in Addr, content \in Contents : Propose(a, content)
  BY <1>3, <1>5, ProposalsSince DEF StartsPast
<1> QED BY <1>4, <1>5

\* An edit that may be proposed has a positive voting period.
LEMMA ValidPeriod ==
  ASSUME NEW s, NEW k, NEW content \in Contents, ValidProposal(s, k, content)
  PROVE  PositivePeriod(content)
<1> SUFFICES ASSUME content.kind = "EditTrustedCircle",
                    NEW x \in content.adjustments.voting_period
             PROVE  x > 0
  BY DEF PositivePeriod
<1> DEFINE adj == content.adjustments
           j == apply_adjustments(k, adj, Len(proposals) + 1)
<1>1. ValidCircle(j)
  BY DEF ValidProposal
<1>2. IsAdjustments(adj)
  BY CircleAssumption DEF IsProposalContent
<1>3. Unwrap(adj.voting_period, k.rules.voting_period) = x
  BY <1>2 DEF IsAdjustments, IsOption, Unwrap
<1>4. j.rules.voting_period = x
  BY <1>3 DEF apply_adjustments
<1> HIDE DEF j
<1> QED BY <1>1, <1>4 DEF ValidCircle, ValidRules
LEMMA EnforcedPeriod ==
  ASSUME NEW k
  PROVE  /\ enforce_escrow(k).rules = k.rules
         /\ CircleOK(k) => ~escrow_due(enforce_escrow(k))
<1>1. CASE escrow_due(k)
  <2>1. enforce_escrow(k) = [k EXCEPT !.escrow_amount = k.escrow_pending.amount,
                                      !.escrow_pending = NoPending]
    BY <1>1 DEF enforce_escrow
  <2>2. enforce_escrow(k).rules = k.rules
    BY <2>1
  <2>3. CircleOK(k) => enforce_escrow(k).escrow_pending = NoPending
    BY <2>1 DEF CircleOK, CircleType
  <2> QED BY <2>2, <2>3 DEF escrow_due
<1>2. CASE ~escrow_due(k)
  BY <1>2 DEF enforce_escrow
<1> QED BY <1>1, <1>2

LEMMA PeriodSeconds ==
  ASSUME NEW rules \in VotingRulesType, rules.voting_period > 0
  PROVE  voting_period_secs(rules) \in Nat /\ voting_period_secs(rules) > 0
<1>1. rules.voting_period \in Nat /\ DAY \in Nat \ {0}
  BY CircleAssumption DEF VotingRulesType
<1>2. \A x, y \in Nat : x > 0 /\ y > 0 => x * y \in Nat /\ x * y > 0
  OBVIOUS
<1> QED BY <1>1, <1>2 DEF voting_period_secs

\* An edit that is executed: its rules, and the escrow it leaves pending.
LEMMA EditPeriod ==
  ASSUME IInv, PositivePeriods, NEW id \in DOMAIN proposals, ExecuteEditTrustedCircle(id)
  PROVE  /\ circle'.rules.voting_period > 0
         /\ ~escrow_due(circle) => ~escrow_due(circle')
<1> DEFINE adj == proposals[id].content.adjustments
           k == apply_adjustments(circle, adj, id)
<1>1. /\ circle' = k /\ proposals[id].content.kind = "EditTrustedCircle" /\ IInv'
  BY EditKeeps DEF ExecuteEditTrustedCircle, Executable
<1>2. IsAdjustments(adj) /\ circle.rules.voting_period \in Nat /\ now \in Nat
  <2>1. IsAdjustments(adj)
    BY <1>1, ExecutedContent DEF IsProposalContent
  <2>2. circle.rules.voting_period \in Nat
    BY DEF IInv, CircleOK, CircleType, VotingRulesType
  <2> QED BY <2>1, <2>2 DEF IInv, BlockOK
<1>3. k.rules.voting_period = Unwrap(adj.voting_period, circle.rules.voting_period)
  BY DEF apply_adjustments
<1>4. \/ k.escrow_pending = circle.escrow_pending
      \/ k.escrow_pending.grace_ends_at = now + voting_period_secs(k.rules)
  BY DEF apply_adjustments
<1>5. \A x \in adj.voting_period : x > 0
  BY <1>1 DEF PositivePeriods, PositivePeriod
<1>6. k.rules \in VotingRulesType
  BY <1>1 DEF IInv, CircleOK, CircleType
<1> HIDE DEF k
<1>7. k.rules.voting_period > 0
  <2>1. CASE adj.voting_period = {}
    BY <1>3, <2>1 DEF Unwrap, PositivePeriods
  <2>2. CASE adj.voting_period # {}
    BY <1>2, <1>3, <1>5, <2>2, UnwrapOption DEF IsAdjustments
  <2> QED BY <2>1, <2>2
<1>8. ~escrow_due(circle) => ~escrow_due(k)
  <2>1. CASE k.escrow_pending = circle.escrow_pending
    BY <2>1 DEF escrow_due
  <2>2. CASE k.escrow_pending.grace_ends_at = now + voting_period_secs(k.rules)
    BY <1>2, <1>6, <1>7, <2>2, PeriodSeconds DEF escrow_due
  <2> QED BY <1>4, <2>1, <2>2
<1> QED BY <1>1, <1>7, <1>8

\* The circle changes by a check or by an edit.
LEMMA CircleSteps ==
  ASSUME IInv, [Next]_vars
  PROVE  \/ circle' \in {circle, enforce_escrow(circle)}
         \/ \E id \in DOMAIN proposals : ExecuteEditTrustedCircle(id)
<1>1. ASSUME NEW id \in DOMAIN proposals, Execute(id), ~ExecuteEditTrustedCircle(id)
      PROVE  circle' = circle
  BY <1>1 DEF Execute, ExecuteAddVotingMembers, ExecuteAddRemoveNonVotingMembers,
     ExecuteWhitelistContract, ExecuteRemoveContract, whitelist_contract_addr,
     remove_contract_addr, AddRemove, ExecutePunishMembers
<1>2. ASSUME CheckPending \/ \E a \in Addr, content \in Contents : Propose(a, content)
      PROVE  circle' \in {circle, enforce_escrow(circle)}
  BY <1>2 DEF CheckPending, Propose
<1>3. ASSUME \/ \E a \in Addr : \/ \E amount \in Payments : DepositEscrow(a, amount)
                               \/ ReturnEscrow(a) \/ LeaveImmediately(a)
                               \/ LeaveTrustedCircle(a) \/ WithdrawRewards(a)
             \/ DistributeRewards \/ NextBlock \/ UNCHANGED vars
             \/ \E amount \in Rewards : SendRewards(amount)
             \/ \E id \in DOMAIN proposals :
                  Close(id) \/ \E a \in Addr, vote \in CastVotes : Vote(a, id, vote)
      PROVE  circle' = circle
  BY <1>3 DEF DepositEscrow, ReturnEscrow, LeaveImmediately, LeaveTrustedCircle,
       WithdrawRewards, DistributeRewards, NextBlock, SendRewards, Close, Vote, vars
<1> QED BY <1>1, <1>2, <1>3 DEF Next

LEMMA NextPeriods == IInv /\ PositivePeriods /\ [Next]_vars => PositivePeriods'
<1> SUFFICES ASSUME IInv, PositivePeriods, [Next]_vars PROVE PositivePeriods'
  OBVIOUS
<1>1. circle'.rules.voting_period > 0
  BY CircleSteps, EnforcedPeriod, EditPeriod DEF PositivePeriods
<1>2. \A id \in DOMAIN proposals : PositivePeriod(proposals'[id].content)
  BY NextAdvances DEF PositivePeriods, AllAdvance, Advances
<1>3. ASSUME NEW a \in Addr, NEW content \in Contents, Propose(a, content)
      PROVE  PositivePeriods'
  <2>1. PICK q : NewProposal(q, a, content, vote_power(points'[a]))
    BY <1>3, ProposeAppends
  <2>2. PositivePeriod(q.content)
    BY <1>3, <2>1, ProposeAppends, ValidPeriod DEF NewProposal
  <2> QED BY <1>1, <1>2, <2>1, <2>2, NewProposals DEF PositivePeriods
<1>4. CASE ~ \E a \in Addr, content \in Contents : Propose(a, content)
  BY <1>1, <1>2, <1>4, ProposalsSince DEF PositivePeriods
<1> QED BY <1>3, <1>4

\* Every step records what it changes.
LEMMA NextLogged ==
  ASSUME IInv, DInv, [Next]_vars
  PROVE  \/ Logged(Store, Store', height)
         \/ /\ \E a \in Addr, content \in Contents : Propose(a, content)
            /\ height > 0 /\ Logged(Store, Store', height - 1)
<1>1. CASE Elsewhere
  BY <1>1, ElsewhereNoMore DEF NoMore
<1>2. CASE ~Elsewhere
  <2>1. DistributeRewards \/ \E a \in Addr : WithdrawRewards(a)
    BY <1>2 DEF Elsewhere, Next
  <2>2. points' = points /\ changelog' = changelog
    BY <2>1 DEF DistributeRewards, WithdrawRewards
  <2>3. /\ Store'.points = Store.points /\ Store'.changelog = Store.changelog
    BY <2>2, StoreShape DEF Store
  <2> QED BY <2>3 DEF Logged
<1> QED BY <1>1, <1>2

LEMMA NextRecords == IInv /\ DInv /\ RecordsPast /\ [Next]_vars => RecordsPast'
<1> SUFFICES ASSUME IInv, DInv, RecordsPast, [Next]_vars PROVE RecordsPast'
  OBVIOUS
<1>1. /\ height \in Nat /\ height' \in Nat /\ height' >= height
  BY HeightSteps DEF IInv, BlockOK
<1>2. /\ Store.changelog = changelog /\ LogOK(changelog)
      /\ Store'.changelog = changelog'
  <2>1. Store.changelog = changelog /\ LogOK(changelog)
    BY StoreShape DEF IInv, StoreOK, MembersOK
  <2>2. Store'.changelog = changelog'
    BY DEF Store
  <2> QED BY <2>1, <2>2
<1> DEFINE s == Store
           t == Store'
<1>3. Past(s.changelog, height')
  <2>1. Past(changelog, height')
    BY <1>1, <1>2 DEF RecordsPast, Past, LogOK
  <2> QED BY <1>2, <2>1
<1>4. \/ Logged(s, t, height)
      \/ height > 0 /\ Logged(s, t, height - 1)
  BY NextLogged
<1>5. t.changelog = changelog'
  BY <1>2
<1> HIDE DEF s, t
<1>6. Past(t.changelog, height')
  BY <1>1, <1>3, <1>4, LoggedPast
<1> QED BY <1>5, <1>6 DEF RecordsPast
-----------------------------------------------------------------------------
\* The members at rest stay so, action by action

Held == UpkeptIn(Store, height, now)
HeldAfter == UpkeptIn(Store', height, now)

LEMMA NextStore ==
  /\ Store'.escrows = escrows' /\ Store'.points = points'
  /\ Store'.changelog = changelog' /\ Store'.batches = batches'
BY DEF Store

\* Nobody gets to wait: who still does waits as before
Calm ==
  /\ batches' = batches
  /\ \A x \in Addr : escrows'[x].status \in {"Pending", "PendingPaid"} =>
       /\ escrows'[x].status = escrows[x].status
       /\ escrows'[x].proposal_id = escrows[x].proposal_id

LEMMA CalmUpkept ==
  ASSUME WaitOK(Store), Held, Calm, Logged(Store, Store', height)
  PROVE  HeldAfter
<1> DEFINE s == Store
           t == Store'
<1>1. /\ t.batches = s.batches
      /\ \A x \in Addr : t.escrows[x].status \in {"Pending", "PendingPaid"} =>
           /\ t.escrows[x].status = s.escrows[x].status
           /\ t.escrows[x].proposal_id = s.escrows[x].proposal_id
  BY NextStore, StoreShape DEF Calm
<1>2. WaitOK(s) /\ UpkeptIn(s, height, now) /\ Logged(s, t, height)
  BY DEF Held
<1> HIDE DEF s, t
<1>3. UpkeptIn(t, height, now)
  BY <1>1, <1>2, UpkeptSame
<1> QED BY <1>3 DEF HeldAfter, t

LEMMA CalmSteps ==
  ASSUME IInv,
         \/ \E a \in Addr : \/ ReturnEscrow(a) \/ LeaveImmediately(a) \/ LeaveTrustedCircle(a)
                            \/ WithdrawRewards(a)
         \/ \E id, add, remove : AddRemove(id, add, remove)
         \/ \E id \in DOMAIN proposals :
              \/ Close(id) \/ ExecuteEditTrustedCircle(id)
              \/ \E a \in Addr, vote \in CastVotes : Vote(a, id, vote)
         \/ DistributeRewards \/ NextBlock \/ UNCHANGED vars
         \/ \E amount \in Rewards : SendRewards(amount)
  PROVE  Calm
<1>0. NoEscrow.status = "None" /\ Become(NoEscrow, "NonVoting", 0, 0).status = "NonVoting"
  BY DEF NoEscrow, Become
<1>1. ASSUME NEW a \in Addr, ReturnEscrow(a)
      PROVE  Calm
  <2>1. batches' = batches
    <3>1. remove_members(Store, {a}, height).batches = batches
      BY StoreShape DEF Store, StoreFields, remove_members, save_points
    <3>2. [Store EXCEPT !.escrows[a].paid = @ - refundable(escrows[a])].batches = batches
      BY DEF Store
    <3> QED BY <1>1, <3>1, <3>2 DEF ReturnEscrow, Commit
  <2>2. \A x \in Addr : escrows'[x].status \notin {"Pending", "PendingPaid"}
                        \/ escrows'[x] = escrows[x]
    BY <1>0, <1>1, ReturnKept
  <2> QED BY <2>1, <2>2 DEF Calm
<1>2. ASSUME NEW a \in Addr, LeaveImmediately(a)
      PROVE  Calm
  <2>1. /\ escrows' = [y \in Addr |-> IF y \in {a} THEN NoEscrow ELSE escrows[y]]
        /\ batches' = batches
    BY <1>2, StoreShape
       DEF LeaveImmediately, Commit, Store, StoreFields, remove_members, save_points
  <2> QED BY <1>0, <2>1 DEF Calm
<1>3. ASSUME NEW a \in Addr, LeaveTrustedCircle(a)
      PROVE  Calm
  <2>1. batches' = batches
    BY <1>3, StoreShape DEF LeaveTrustedCircle, Commit, trigger_long_leave, StoreFields,
         set_status, strip_points, save_points
  <2> QED BY <1>3, <2>1, LeaveKept DEF Calm
<1>4. ASSUME NEW id, NEW add, NEW remove, AddRemove(id, add, remove)
      PROVE  Calm
  <2>1. batches' = batches
    BY <1>4, StoreShape DEF AddRemove, Commit, StoreFields, remove_members, add_members, save_points
  <2>2. \A x \in Addr : escrows'[x].status \in {"Pending", "PendingPaid"} => escrows'[x] = escrows[x]
    BY <1>0, <1>4, AddRemoveKept
  <2> QED BY <2>1, <2>2 DEF Calm
<1>5. ASSUME \/ \E id \in DOMAIN proposals :
                  \/ Close(id) \/ ExecuteEditTrustedCircle(id)
                  \/ \E a \in Addr, vote \in CastVotes : Vote(a, id, vote)
             \/ \E a \in Addr : WithdrawRewards(a)
             \/ DistributeRewards \/ NextBlock \/ UNCHANGED vars
             \/ \E amount \in Rewards : SendRewards(amount)
      PROVE  Calm
  <2>1. escrows' = escrows /\ batches' = batches
    BY <1>5 DEF Close, Vote, WithdrawRewards, DistributeRewards, NextBlock, SendRewards,
         ExecuteEditTrustedCircle, vars, store_vars
  <2> QED BY <2>1 DEF Calm
<1> QED BY <1>1, <1>2, <1>3, <1>4, <1>5

\* A batch is added, and who gets to wait does so as a member at rest of it.
LEMMA BatchUpkept ==
  ASSUME WaitOK(Store), Held, Logged(Store, Store', height), NEW id, NEW grace, NEW A,
         NEW count \in Nat, batches' = with_batch(batches, id, grace, A, count),
         count > 0 => id \notin DOMAIN batches,
         count > 0 => \/ ~(grace <= now)
                      \/ \A x \in Addr : x \in A => AtRest(Store', x, height, now),
         \A x \in Addr : \/ /\ escrows'[x].status = escrows[x].status
                            /\ escrows'[x].proposal_id = escrows[x].proposal_id
                         \/ escrows'[x].status \notin {"Pending", "PendingPaid"}
                         \/ height \in DOMAIN changelog'[x]
                         \/ /\ escrows'[x].status = "Pending"
                            /\ batches'[escrows'[x].proposal_id].grace_ends_at <= now
  PROVE  HeldAfter
<1> DEFINE s == Store
           t == Store'
<1>1. /\ t.batches = with_batch(s.batches, id, grace, A, count)
      /\ count > 0 => id \notin DOMAIN s.batches
      /\ count > 0 => \/ ~(grace <= now)
                      \/ \A x \in Addr : x \in A => AtRest(t, x, height, now)
  BY NextStore, StoreShape
<1>2. \A x \in Addr : RestKept(s, t, x, height, now)
  BY NextStore, StoreShape DEF RestKept
<1>3. WaitOK(s) /\ UpkeptIn(s, height, now) /\ Logged(s, t, height)
  BY DEF Held
<1> HIDE DEF s, t
<1>4. BatchesKept(s, t, height, now)
  BY <1>1, BatchKept
<1>5. UpkeptIn(t, height, now)
  BY <1>2, <1>3, <1>4, UpkeptKept
<1> QED BY <1>5 DEF HeldAfter, t

\* Voters are added with a batch of their own, which is not due yet.
LEMMA AddVotingUpkept ==
  ASSUME IInv, DInv, WaitOK(Store), PositivePeriods, Held,
         NEW id \in DOMAIN proposals, ExecuteAddVotingMembers(id)
  PROVE  HeldAfter
<1> DEFINE content == proposals[id].content
           voters == voters_of(content)
           added == {a \in voters : escrows[a].status \in {"None", "NonVoting"}}
           count == Len(content.voters)
           grace == now + voting_period_secs(circle.rules)
           s == create_batch(Store, id, grace, voters, count)
           t == add_members(s, added, "Pending", id, height)
<1>1. count \in Nat
  <2>1. content.kind = "AddVotingMembers"
    BY DEF ExecuteAddVotingMembers, Executable
  <2>2. content.voters \in Seq(Addr)
    BY <2>1, ExecutedContent DEF IsProposalContent
  <2> QED BY <2>2, LenProperties
<1>2. (count > 0 => id \notin DOMAIN batches) /\ Commit(t)
  BY StoreShape DEF ExecuteAddVotingMembers, can_create_batch
<1>3. ~(grace <= now)
  <2>1. circle.rules \in VotingRulesType /\ circle.rules.voting_period > 0 /\ now \in Nat
    BY DEF IInv, CircleOK, CircleType, BlockOK, PositivePeriods
  <2> QED BY <2>1, PeriodSeconds
<1> HIDE DEF voters, count, grace, added
<1>4. /\ DOMAIN s = StoreFields /\ s.escrows = escrows /\ s.changelog = changelog
      /\ s.points = points /\ s.batches = with_batch(batches, id, grace, voters, count)
  BY StoreShape DEF create_batch, with_batch, Store, StoreFields
<1> HIDE DEF s
<1>5. /\ t.escrows = [x \in Addr |-> IF x \in added THEN Become(NoEscrow, "Pending", id, 0)
                                                  ELSE escrows[x]]
      /\ t.changelog = [x \in Addr |-> IF x \in added
                                         THEN record_change(s.changelog[x], height, s.points[x])
                                         ELSE s.changelog[x]]
      /\ t.batches = s.batches
  BY <1>4 DEF StoreFields, add_members, save_points
<1> HIDE DEF t
<1>6. /\ escrows' = t.escrows /\ changelog' = t.changelog
      /\ batches' = with_batch(batches, id, grace, voters, count)
  BY <1>2, <1>4, <1>5 DEF Commit
<1>7. \A x \in Addr : x \in added => height \in DOMAIN changelog'[x]
  BY <1>5, <1>6 DEF record_change
<1>8. \A x \in Addr : x \notin added => escrows'[x] = escrows[x]
  BY <1>5, <1>6
<1>9. Logged(Store, Store', height)
  BY AddVotingNoMore DEF NoMore
<1> QED BY <1>1, <1>2, <1>3, <1>6, <1>7, <1>8, <1>9, BatchUpkept

\* Who is demoted by a punishment waits in a batch that is ready at once, and
\* has to pay first.
LEMMA PunishUpkept ==
  ASSUME IInv, DInv, WaitOK(Store), Held,
         NEW id \in DOMAIN proposals, ExecutePunishMembers(id)
  PROVE  HeldAfter
<1> DEFINE D == demoted_by(id)
           K == kicked_out(id)
<1>1. /\ D \in SUBSET Addr
      /\ \A x \in K : escrows'[x].status = "Leaving"
      /\ \A x \in D : escrows'[x].status = "Pending" /\ escrows'[x].proposal_id = id
      /\ \A x \in Addr \ (K \cup D) : /\ escrows'[x].status = escrows[x].status
                                      /\ escrows'[x].proposal_id = escrows[x].proposal_id
      /\ batches' = with_batch(batches, id, now, D, Cardinality(D))
      /\ Cardinality(D) > 0 => id \notin DOMAIN batches
  BY Punished DEF demoted_by
<1>2. Cardinality(D) \in Nat /\ IsFiniteSet(D) /\ now \in Nat
  BY <1>1, AddrSubsets DEF IInv, BlockOK
<1>3. Logged(Store, Store', height)
  BY PunishNoMore DEF NoMore
<1> HIDE DEF D, K
<1>4. \A x \in D : batches'[id].grace_ends_at <= now
  <2> SUFFICES ASSUME NEW x \in D PROVE batches'[id].grace_ends_at <= now
    OBVIOUS
  <2>1. Cardinality(D) # 0
    BY <1>2, FS_EmptySet
  <2> QED BY <1>1, <1>2, <2>1 DEF with_batch
<1>5. \A x \in Addr : x \in D => AtRest(Store', x, height, now)
  BY <1>1, <1>4, NextStore DEF AtRest
<1>6. \A x \in Addr : \/ /\ escrows'[x].status = escrows[x].status
                         /\ escrows'[x].proposal_id = escrows[x].proposal_id
                      \/ escrows'[x].status \notin {"Pending", "PendingPaid"}
                      \/ /\ escrows'[x].status = "Pending"
                         /\ batches'[escrows'[x].proposal_id].grace_ends_at <= now
  BY <1>1, <1>4
<1> QED BY <1>1, <1>2, <1>3, <1>5, <1>6, BatchUpkept

\* Who pays for a batch that is due is promoted with the payment.
LEMMA DepositUpkept ==
  ASSUME IInv, DInv, WaitOK(Store), Held,
         NEW a \in Addr, NEW amount \in Payments, DepositEscrow(a, amount)
  PROVE  HeldAfter
<1> DEFINE paid == escrows[a].paid + amount
           id == escrows[a].proposal_id
           s == [Store EXCEPT !.escrows[a].paid = paid]
           t == [s EXCEPT !.escrows[a].status = "PendingPaid"]
<1>0. Logged(Store, Store', height)
  BY DepositNoMore DEF NoMore
<1>1. escrows \in [Addr -> EscrowStatus] /\ amount \in Nat
  BY InvariantSays, CircleAssumption DEF EscrowsOK
<1>2. StoreOK(Store) /\ paid \in Nat /\ now \in Nat /\ height \in Nat
  BY <1>1 DEF EscrowStatus, IInv, BlockOK
<1> HIDE DEF paid
<1>3. /\ StoreOK(s) /\ s.batches = batches
      /\ s.escrows = [escrows EXCEPT ![a].paid = paid]
  BY <1>2, PayEscrow, StoreShape
<1> HIDE DEF s
<1>4. \A x \in Addr : /\ s.escrows[x].status = escrows[x].status
                      /\ s.escrows[x].proposal_id = escrows[x].proposal_id
  BY <1>1, <1>3, OnlyPaid
<1>6. CASE Commit(s)
  <2>1. Calm
    BY <1>3, <1>4, <1>6 DEF Commit, Calm
  <2> QED BY <1>0, <2>1, CalmUpkept
<1>7. CASE /\ escrows[a].status = "Pending"
           /\ Commit(update_batch_after_escrow_paid(t, a, id, now, height))
  <2> DEFINE u == update_batch_after_escrow_paid(t, a, id, now, height)
             bs == one_less(t.batches, id)
             all == t.batches[id].members \cap WithStatus(t, "PendingPaid")
  <2>1. /\ s.escrows[a].status = "Pending" /\ s.escrows[a].proposal_id = id
        /\ s.escrows \in [Addr -> EscrowStatus] /\ DOMAIN s = StoreFields
    BY <1>3, <1>4, <1>7 DEF StoreOK, MembersOK
  <2>2. StoreOK(t) /\ a \in WithStatus(t, "PendingPaid") /\ t.batches = batches
    BY <1>3, <2>1, PaidPending
  <2>3. t.escrows = [s.escrows EXCEPT ![a].status = "PendingPaid"]
    BY <2>1 DEF StoreFields
  <2>4. \A x \in Addr : x # a => t.escrows[x] = s.escrows[x]
    BY <2>1, <2>3 DEF EscrowStatus
  <2> HIDE DEF t
  <2>5. id \in DOMAIN t.batches /\ a \in t.batches[id].members
    BY <1>7, <2>2, StoreShape DEF WaitOK
  <2> HIDE DEF id
  <2>7. /\ DOMAIN bs = DOMAIN batches /\ BatchesTyped(bs)
        /\ \A x \in DOMAIN bs : /\ bs[x].batch_promoted = batches[x].batch_promoted
                                /\ bs[x].grace_ends_at = batches[x].grace_ends_at
                                /\ bs[x].members = batches[x].members
    BY <2>2, <2>5 DEF StoreOK, BatchesTyped, Batch, one_less
  <2>8. Updated(t, u, a, id, now)
    BY <1>2, <2>2, <2>5, UpdatedStore
  <2>9. escrows' = u.escrows /\ batches' = u.batches
    BY <1>7 DEF Commit, id
  <2> HIDE DEF u, bs, all
  <2>10. \A A, x : x \in Addr /\ x \in A => voting(t.escrows, A)[x].status = "Voting"
    <3>1. t.escrows \in [Addr -> EscrowStatus]
      BY <2>2 DEF StoreOK, MembersOK
    <3> QED BY <3>1 DEF voting, Become, EscrowStatus
  <2>11. \A A, x : x \in Addr /\ x \notin A => voting(t.escrows, A)[x] = t.escrows[x]
    BY DEF voting
  <2>12. /\ u.escrows \in {t.escrows, voting(t.escrows, {a}), voting(t.escrows, all)}
         /\ u.batches \in {bs, flagged(bs, {id})}
         /\ ~can_promote(bs[id], now) \/ u.escrows # t.escrows
    <3>1. a \in all
      BY <2>2, <2>5 DEF all, WithStatus
    <3>2. voting(t.escrows, {a}) # t.escrows /\ voting(t.escrows, all) # t.escrows
      <4>1. t.escrows[a].status = "PendingPaid"
        BY <2>2 DEF WithStatus
      <4> QED BY <2>10, <3>1, <4>1
    <3> QED BY <2>8, <3>2 DEF Updated, bs, all
  <2>13. ASSUME NEW x \in Addr, x # a
         PROVE  \/ escrows'[x].status = "Voting"
                \/ /\ escrows'[x].status = escrows[x].status
                   /\ escrows'[x].proposal_id = escrows[x].proposal_id
    <3>1. PICK A : u.escrows = t.escrows \/ u.escrows = voting(t.escrows, A)
      BY <2>12
    <3>2. u.escrows[x].status = "Voting" \/ u.escrows[x] = t.escrows[x]
      BY <2>10, <2>11, <3>1
    <3> QED BY <1>4, <2>4, <2>9, <2>13, <3>2
  <2>14. \/ escrows'[a].status = "Voting"
         \/ escrows[a].status = "Pending" /\ ~(batches[id].grace_ends_at <= now)
    <3>1. CASE u.escrows = t.escrows
      <4>1. ~(now >= bs[id].grace_ends_at)
        BY <2>12, <3>1 DEF can_promote
      <4>2. bs[id].grace_ends_at = batches[id].grace_ends_at /\ bs[id].grace_ends_at \in Nat
        BY <2>2, <2>5, <2>7 DEF BatchesTyped, Batch
      <4> QED BY <1>2, <1>7, <4>1, <4>2
    <3>2. CASE u.escrows # t.escrows
      <4>1. a \in {a} /\ a \in all
        BY <2>2, <2>5 DEF all, WithStatus
      <4> QED BY <2>9, <2>10, <2>12, <3>2, <4>1
    <3> QED BY <3>1, <3>2
  <2>15. /\ DOMAIN batches' = DOMAIN batches
         /\ \A n \in DOMAIN batches :
              /\ batches'[n].members = batches[n].members
              /\ batches'[n].grace_ends_at = batches[n].grace_ends_at
              /\ ~batches'[n].batch_promoted => ~batches[n].batch_promoted
    <3>1. CASE u.batches = bs
      BY <2>7, <2>9, <3>1
    <3>2. CASE u.batches = flagged(bs, {id})
      BY <2>7, <2>9, <3>2, FlaggedBatches DEF SameBatches, flagged
    <3> QED BY <2>12, <3>1, <3>2
  <2>16. BatchesKept(Store, Store', height, now)
    <3> DEFINE v == Store
               w == Store'
    <3>1. v.batches = batches /\ w.batches = batches'
      BY StoreShape, NextStore
    <3> HIDE DEF v, w
    <3>2. BatchesKept(v, w, height, now)
      BY <2>15, <3>1 DEF BatchesKept, ready_batches
    <3> QED BY <3>2 DEF v, w
  <2>17. \A x \in Addr : RestKept(Store, Store', x, height, now)
    <3> SUFFICES ASSUME NEW x \in Addr PROVE RestKept(Store, Store', x, height, now)
      OBVIOUS
    <3>1. CASE x # a
      BY <2>13, <3>1, StoreShape, NextStore DEF RestKept
    <3>2. CASE x = a
      BY <2>14, <3>2, StoreShape, NextStore DEF RestKept, id
    <3> QED BY <3>1, <3>2
  <2>18. UpkeptIn(Store', height, now)
    <3> DEFINE v == Store
               w == Store'
    <3>1. /\ WaitOK(v) /\ UpkeptIn(v, height, now) /\ Logged(v, w, height)
          /\ BatchesKept(v, w, height, now) /\ \A x \in Addr : RestKept(v, w, x, height, now)
      BY <1>0, <2>16, <2>17 DEF Held
    <3> HIDE DEF v, w
    <3>2. UpkeptIn(w, height, now)
      BY <3>1, UpkeptKept
    <3> QED BY <3>2 DEF w
  <2> QED BY <2>18 DEF HeldAfter
<1> QED BY <1>6, <1>7 DEF DepositEscrow, paid, s, t, id

\* After a check, nothing is due and no batch is ready.
LEMMA CheckedAfter ==
  ASSUME IInv, NEW h \in Nat, Commit(check_pending(Store, circle, h)),
         circle' = enforce_escrow(circle)
  PROVE  ~escrow_due(circle') /\ HeldAfter
<1>1. StoreOK(Store) /\ CircleOK(circle) /\ now \in Nat
  BY DEF IInv, BlockOK
<1>2. ~escrow_due(circle')
  BY <1>1, EnforcedPeriod
<1> DEFINE t == Store'
<1>3. t.batches = check_pending(Store, circle, h).batches
  BY NextStore DEF Commit
<1> HIDE DEF t
<1>4. ready_batches(t, now) = {}
  BY <1>1, <1>3, CheckedUpkept
<1>5. HeldAfter
  BY <1>4 DEF HeldAfter, UpkeptIn, t
<1> QED BY <1>2, <1>5

LEMMA UpkeptAfter ==
  ASSUME now' = now, height' = height, ~escrow_due(circle'), HeldAfter
  PROVE  Upkept'
BY DEF Upkept, HeldAfter, escrow_due, UpkeptIn, AllAtRest, AtRest, ready_batches

LEMMA ExecuteUpkept ==
  ASSUME IInv, DInv, WaitOK(Store), PositivePeriods, Held, NEW id \in DOMAIN proposals,
         Execute(id), Logged(Store, Store', height)
  PROVE  HeldAfter
<1>1. CASE ExecuteAddVotingMembers(id)
  BY <1>1, AddVotingUpkept
<1>2. CASE ExecutePunishMembers(id)
  BY <1>2, PunishUpkept
<1>3. CASE ExecuteEditTrustedCircle(id)
  BY <1>3, CalmSteps, CalmUpkept
<1>4. ASSUME NEW add, NEW remove, AddRemove(id, add, remove)
      PROVE  HeldAfter
  BY <1>4, CalmSteps, CalmUpkept
<1> QED BY <1>1, <1>2, <1>3, <1>4 DEF Execute, ExecuteAddRemoveNonVotingMembers,
        ExecuteWhitelistContract, ExecuteRemoveContract, whitelist_contract_addr,
        remove_contract_addr

LEMMA NextUpkept ==
  ASSUME IInv, DInv, WaitOK(Store), EInv, [Next]_vars
  PROVE  Upkept'
<1>0. height \in Nat /\ now \in Nat /\ CircleOK(circle)
  BY DEF IInv, BlockOK
<1>1. CASE NextBlock
  <2>1. proposals' = proposals /\ height' = height + 1
    BY <1>1 DEF NextBlock, proposal_vars
  <2>2. \A id \in DOMAIN proposals : proposals[id].start_height \in Nat
    BY InvariantSays DEF Proposal
  <2>3. \A id \in DOMAIN proposals' : proposals'[id].start_height # height'
    BY <1>0, <2>1, <2>2 DEF EInv, StartsPast
  <2> QED BY <2>3 DEF Upkept, Proposed
<1>2. ASSUME NEW a \in Addr, NEW content \in Contents, Propose(a, content)
      PROVE  Upkept'
  <2>1. height' = height /\ now' = now
    BY <1>2 DEF Propose, block_vars
  <2>2. CASE height > 0
    <3>1. /\ height - 1 \in Nat /\ Commit(check_pending(Store, circle, height - 1))
          /\ circle' = enforce_escrow(circle)
      BY <1>0, <1>2, <2>2 DEF Propose
    <3> QED BY <2>1, <3>1, CheckedAfter, UpkeptAfter
  <2>3. CASE ~(height > 0)
    BY <2>1, <2>3 DEF Upkept, Proposed
  <2> QED BY <2>2, <2>3
<1>3. CASE CheckPending
  <2>1. /\ Commit(check_pending(Store, circle, height)) /\ circle' = enforce_escrow(circle)
        /\ height' = height /\ now' = now
    BY <1>3 DEF CheckPending, block_vars
  <2> QED BY <1>0, <2>1, CheckedAfter, UpkeptAfter
<1>4. CASE /\ ~NextBlock /\ ~CheckPending
           /\ ~ \E a \in Addr, content \in Contents : Propose(a, content)
  <2>1. height' = height /\ now' = now
    BY <1>4, HeightSteps
  <2>2. DOMAIN proposals' = DOMAIN proposals
        /\ \A id \in DOMAIN proposals : proposals'[id].start_height = proposals[id].start_height
    BY <1>4, ProposalsSince, NextAdvances DEF AllAdvance, Advances
  <2>3. CASE ~Proposed
    <3>1. ~Proposed'
      BY <2>1, <2>2, <2>3 DEF Proposed
    <3> QED BY <3>1 DEF Upkept
  <2>4. CASE Proposed
    <3>1. ~escrow_due(circle) /\ Held /\ PositivePeriods
      BY <2>4 DEF EInv, Upkept, Held
    <3>2. ~escrow_due(circle')
      BY <1>0, <3>1, CircleSteps, EnforcedPeriod, EditPeriod
    <3>3. Logged(Store, Store', height)
      BY <1>4, NextLogged
    <3>4. HeldAfter
      <4>1. ASSUME NEW a \in Addr, NEW amount \in Payments, DepositEscrow(a, amount)
            PROVE  HeldAfter
        BY <3>1, <4>1, DepositUpkept
      <4>2. ASSUME NEW id \in DOMAIN proposals, Execute(id)
            PROVE  HeldAfter
        BY <3>1, <3>3, <4>2, ExecuteUpkept
      <4>3. CASE \/ \E a \in Addr : \/ ReturnEscrow(a) \/ LeaveImmediately(a)
                                    \/ LeaveTrustedCircle(a) \/ WithdrawRewards(a)
                 \/ \E id \in DOMAIN proposals :
                      \/ Close(id)
                      \/ \E a \in Addr, vote \in CastVotes : Vote(a, id, vote)
                 \/ DistributeRewards \/ UNCHANGED vars
                 \/ \E amount \in Rewards : SendRewards(amount)
        BY <3>1, <3>3, <4>3, CalmSteps, CalmUpkept
      <4> QED BY <1>4, <4>1, <4>2, <4>3 DEF Next
    <3> QED BY <2>1, <3>2, <3>4, UpkeptAfter
  <2> QED BY <2>3, <2>4
<1> QED BY <1>1, <1>2, <1>3, <1>4

LEMMA NextElectorate == IInv /\ DInv /\ WaitOK(Store) /\ EInv /\ [Next]_vars => EInv'
BY NextRecords, NextStarts, NextPeriods, NextUpkept DEF EInv

LEMMA InitElectorate == Init => EInv
<1> SUFFICES ASSUME Init PROVE EInv
  OBVIOUS
<1> DEFINE empty == [escrows |-> [a \in Addr |-> NoEscrow], points |-> [a \in Addr |-> ABSENT],
                     changelog |-> [a \in Addr |-> <<>>], total |-> 0,
                     batches |-> <<>>, distribution |-> InitDistribution]
           founded == [save_points(empty, {Creator}, VOTING_POINTS, InitialHeight)
                         EXCEPT !.total = VOTING_POINTS]
           creator(amount) == Become([NoEscrow EXCEPT !.paid = amount], "Voting", 0, 0)
           first(amount) == [founded EXCEPT !.escrows[Creator] = creator(amount)]
           s(amount) == add_members(first(amount), InitialMembers \ {Creator},
                                    "NonVoting", 0, InitialHeight)
<1>1. PICK amount \in Payments : changelog = s(amount).changelog
  BY DEF Init
<1>2. /\ proposals = <<>> /\ height = InitialHeight /\ InitialHeight \in Nat
      /\ circle = InitialCircle /\ ValidCircle(InitialCircle)
  BY CircleAssumption DEF Init
<1> DEFINE f == first(amount)
<1>3. /\ DOMAIN f = StoreFields
      /\ f.changelog = [a \in Addr |-> IF a = Creator
                          THEN record_change(<<>>, InitialHeight, ABSENT) ELSE <<>>]
  BY CircleAssumption DEF save_points, StoreFields
<1> HIDE DEF founded, empty, first, f, creator
<1>4. \A x \in Addr :
        \/ s(amount).changelog[x] = f.changelog[x]
        \/ s(amount).changelog[x] = record_change(f.changelog[x], InitialHeight, f.points[x])
  BY <1>3 DEF f, add_members, save_points, StoreFields
<1>5. RecordsPast
  <2> SUFFICES ASSUME NEW x \in Addr, NEW k \in DOMAIN changelog[x] PROVE k <= height
    BY DEF RecordsPast, Past
  <2>1. DOMAIN <<>> = {}
    OBVIOUS
  <2>2. DOMAIN f.changelog[x] \subseteq {InitialHeight}
    BY <1>3, <2>1 DEF record_change
  <2> HIDE DEF s
  <2>3. \/ changelog[x] = f.changelog[x]
        \/ changelog[x] = record_change(f.changelog[x], InitialHeight, f.points[x])
    BY <1>1, <1>4
  <2>4. DOMAIN changelog[x] \subseteq {InitialHeight}
    BY <2>2, <2>3 DEF record_change
  <2> QED BY <1>2, <2>4
<1>6. StartsPast /\ PositivePeriods /\ Upkept
  <2>1. DOMAIN proposals = {}
    BY <1>2
  <2>2. circle.rules.voting_period > 0
    BY <1>2 DEF ValidCircle, ValidRules
  <2> QED BY <2>1, <2>2 DEF StartsPast, PositivePeriods, Upkept, Proposed
<1> QED BY <1>5, <1>6 DEF EInv
-----------------------------------------------------------------------------
\* The electorate of a proposal stays

\* Who is not promoted keeps its points and its records.
LEMMA ConvertedOthers ==
  ASSUME NEW s, DOMAIN s = StoreFields, NEW ready, NEW h, NEW x \in Addr,
         x \notin listed(s, ready) \/ s.escrows[x].status # "PendingPaid"
  PROVE  LET t == convert_all_paid_members_to_voters(s, ready, h)
         IN t.points[x] = s.points[x] /\ t.changelog[x] = s.changelog[x]
<1> DEFINE A == listed(s, ready) \cap WithStatus(s, "PendingPaid")
           v == set_status(s, A, "Voting", 0, 0)
           t == convert_all_paid_members_to_voters(s, ready, h)
<1>1. x \notin A
  BY DEF WithStatus
<1> HIDE DEF A
<1>2. DOMAIN v = StoreFields /\ v.points = s.points /\ v.changelog = s.changelog
  BY DEF set_status, StoreFields
<1> HIDE DEF v
<1>3. /\ t.points = save_points(v, A, VOTING_POINTS, h).points
      /\ t.changelog = save_points(v, A, VOTING_POINTS, h).changelog
  BY <1>2 DEF convert_all_paid_members_to_voters, promote, A, v, save_points, StoreFields
<1> HIDE DEF t
<1>4. t.points[x] = s.points[x] /\ t.changelog[x] = s.changelog[x]
  BY <1>1, <1>2, <1>3 DEF save_points, StoreFields
<1> QED BY <1>4 DEF t

\* A second proposal of a block changes nobody without a record of the block.
LEMMA SecondProposal ==
  ASSUME IInv, EInv, Proposed, NEW a \in Addr, NEW content \in Contents, Propose(a, content),
         NEW x \in Addr
  PROVE  \/ height \in DOMAIN changelog[x]
         \/ points'[x] = points[x] /\ changelog'[x] = changelog[x]
<1> SUFFICES ASSUME height \notin DOMAIN changelog[x]
             PROVE  points'[x] = points[x] /\ changelog'[x] = changelog[x]
  OBVIOUS
<1> DEFINE ready == ready_batches(Store, now)
           t == convert_all_paid_members_to_voters(Store, ready, height - 1)
<1>1. ~escrow_due(circle) /\ UpkeptIn(Store, height, now) /\ height > 0
  BY DEF EInv, Upkept, Proposed
<1>2. check_pending_escrow(Store, circle, height - 1) = Store
  BY <1>1 DEF check_pending_escrow
<1>3. Commit(t)
  BY <1>1, <1>2 DEF Propose, check_pending
<1>4. x \notin listed(Store, ready) \/ escrows[x].status # "PendingPaid"
  <2> SUFFICES ASSUME NEW n \in ready, x \in batches[n].members
               PROVE  escrows[x].status # "PendingPaid"
    BY StoreShape DEF listed
  <2>1. AtRest(Store, x, height, now)
    BY <1>1, StoreShape DEF UpkeptIn, AllAtRest
  <2> QED BY <2>1, StoreShape DEF AtRest
<1> HIDE DEF ready
<1>5. t.points[x] = points[x] /\ t.changelog[x] = changelog[x]
  BY <1>4, ConvertedOthers, StoreShape
<1> HIDE DEF t
<1> QED BY <1>3, <1>5 DEF Commit

\* One address, and the start of one proposal.
LEMMA PowerStays ==
  ASSUME IInv, DInv, WaitOK(Store), EInv, [Next]_vars, UpkeepFirst,
         NEW id \in DOMAIN proposals, NEW x \in Addr
  PROVE  points_at_height(Store', x, proposals[id].start_height)
           = points_at_height(Store, x, proposals[id].start_height)
<1> DEFINE g == proposals[id].start_height
           s == Store
           t == Store'
<1>1. /\ height \in Nat /\ g \in Nat /\ g <= height
      /\ LogOK(s.changelog) /\ DOMAIN s.changelog[x] \subseteq Nat
      /\ \A k \in DOMAIN s.changelog[x] : k <= height
  <2>1. g \in Nat /\ height \in Nat
    BY InvariantSays DEF Proposal, IInv, BlockOK
  <2>2. LogOK(changelog) /\ s.changelog = changelog
    BY StoreShape DEF IInv, StoreOK, MembersOK
  <2> QED BY <2>1, <2>2 DEF EInv, StartsPast, RecordsPast, Past, LogOK
<1>2. /\ s.changelog = changelog /\ t.changelog = changelog'
      /\ s.points = points /\ t.points = points'
  BY StoreShape, NextStore
<1>3. CASE Logged(s, t, height)
  <2> HIDE DEF s, t, g
  <2>1. \/ t.points[x] = s.points[x] /\ t.changelog[x] = s.changelog[x]
        \/ t.changelog[x] = record_change(s.changelog[x], height, s.points[x])
    BY <1>3 DEF Logged
  <2>2. points_at_height(t, x, g) = points_at_height(s, x, g)
    BY <1>1, <2>1, SnapshotKept
  <2> QED BY <2>2 DEF s, t, g
<1>4. ASSUME NEW a \in Addr, NEW content \in Contents, Propose(a, content),
             height > 0, Logged(s, t, height - 1)
      PROVE  points_at_height(t, x, g) = points_at_height(s, x, g)
  <2>1. changelog'[x] = changelog[x] \/ height \notin DOMAIN changelog[x]
    <3>1. Len(proposals') = Len(proposals) + 1 /\ Len(proposals) \in Nat
      BY <1>4, ProposeAppends, LenProperties DEF IInv, ProposalsOK
    <3> QED BY <3>1 DEF UpkeepFirst
  <2>2. LogOK(t.changelog)
    <3>1. LogOK(changelog)'
      BY NextKeeps, StoreShape DEF IInv, StoreOK, MembersOK, Store
    <3> QED BY <1>2, <3>1
  <2>3. CASE g = height
    <3>1. Proposed
      BY <1>4, <2>3 DEF Proposed
    <3>2. CASE height \in DOMAIN s.changelog[x]
      <4> HIDE DEF s, t, g
      <4>1. height \in DOMAIN t.changelog[x] /\ t.changelog[x][height] = s.changelog[x][height]
        BY <1>4, <3>2, LoggedRecords
      <4>2. points_at_height(t, x, height) = t.changelog[x][height]
        BY <2>2, <4>1, RecordedPoints
      <4>3. points_at_height(s, x, height) = s.changelog[x][height]
        BY <1>1, <3>2, RecordedPoints
      <4> QED BY <2>3, <4>1, <4>2, <4>3
    <3>3. CASE height \notin DOMAIN s.changelog[x]
      <4>1. points'[x] = points[x] /\ changelog'[x] = changelog[x]
        BY <1>2, <1>4, <3>1, <3>3, SecondProposal
      <4>2. t.points[x] = s.points[x] /\ t.changelog[x] = s.changelog[x]
        BY <1>2, <4>1
      <4> HIDE DEF s, t, g
      <4> QED BY <4>2 DEF points_at_height
    <3> QED BY <3>2, <3>3
  <2>4. CASE g # height
    <3> DEFINE h == height - 1
    <3>1. h \in Nat /\ g <= h
      BY <1>1, <1>4, <2>4
    <3>2. \/ t.points[x] = s.points[x] /\ t.changelog[x] = s.changelog[x]
          \/ t.changelog[x] = record_change(s.changelog[x], h, s.points[x])
      BY <1>4 DEF Logged
    <3>3. t.changelog[x] = s.changelog[x] \/ height \notin DOMAIN s.changelog[x]
      BY <1>2, <2>1
    <3> HIDE DEF s, t, g
    <3>4. CASE t.points[x] = s.points[x] /\ t.changelog[x] = s.changelog[x]
      BY <3>4 DEF points_at_height
    <3>5. CASE t.changelog[x] = record_change(s.changelog[x], h, s.points[x])
      <4>1. h \in DOMAIN s.changelog[x] \/ \A k \in DOMAIN s.changelog[x] : k <= h
        <5>1. CASE t.changelog[x] = s.changelog[x]
          BY <3>5, <5>1 DEF record_change
        <5>2. CASE height \notin DOMAIN s.changelog[x]
          BY <1>1, <5>2
        <5> QED BY <3>3, <5>1, <5>2
      <4> HIDE DEF h
      <4> QED BY <1>1, <3>1, <3>5, <4>1, SnapshotKept
    <3> QED BY <3>2, <3>4, <3>5
  <2> QED BY <2>3, <2>4
<1> QED BY <1>3, <1>4, NextLogged

LEMMA NextElectorateStays ==
  IInv /\ DInv /\ WaitOK(Store) /\ EInv /\ [Next]_vars => (UpkeepFirst => ElectorateStays)
<1> SUFFICES ASSUME IInv, DInv, WaitOK(Store), EInv, [Next]_vars, UpkeepFirst,
                    NEW id \in DOMAIN proposals, NEW a \in Addr
             PROVE  vote_power(points_at_height(Store', a, proposals'[id].start_height))
                      = vote_power(points_at_height(Store, a, proposals[id].start_height))
  BY DEF ElectorateStays
<1>1. proposals'[id].start_height = proposals[id].start_height
  BY NextAdvances DEF AllAdvance, Advances
<1> QED BY <1>1, PowerStays

\* Whoever had a point at the start of a proposal keeps it there, through every
\* promotion, demotion, leave and return: a change is recorded with what it
\* changed, after every proposal that started before, and a second proposal in a
\* block finds nothing to check but members the block has a record of.
THEOREM ElectorateStaysFixed == Spec => ElectorateFrozen
<1> DEFINE Inv == IInv /\ DInv /\ WaitOK(Store) /\ EInv
<1>1. Init => Inv
  BY InitHolds, InitTyped, InitWaits, InitElectorate
<1>2. Inv /\ [Next]_vars => Inv'
  BY NextKeeps, NextTyped, NextWaits, NextElectorate
<1>3. Inv /\ [Next]_vars => [UpkeepFirst => ElectorateStays]_vars
  BY NextElectorateStays
<1> QED BY <1>1, <1>2, <1>3, PTL DEF Spec, ElectorateFrozen
-----------------------------------------------------------------------------
\* VotesExplainTally: a tally counts the addresses that have a ballot, and who
\* votes had a point when the proposal was made

VotersFor(id, option) ==
  {a \in Addr : \E b \in ballots : b.proposal_id = id /\ b.voter = a /\ b.vote = option}

BallotsCounted ==
  /\ \A b \in ballots : b.proposal_id \in DOMAIN proposals
  /\ \A id \in DOMAIN proposals, option \in VoteOption :
       proposals[id].votes[option] = Cardinality(VotersFor(id, option))

\* All but its proposer p
HadPoint(id, p) ==
  \A b \in ballots : b.proposal_id = id /\ b.voter # p =>
    points_at_height(Store, b.voter, proposals[id].start_height) = VOTING_POINTS
VotersHadPoint == \A id \in DOMAIN proposals : \E p \in Addr : HadPoint(id, p)

\* Elsewhere, the ballots and the tallies stay.
LEMMA TalliesStay ==
  ASSUME IInv, [Next]_vars,
         ~ \E a \in Addr, content \in Contents : Propose(a, content),
         ~ \E id \in DOMAIN proposals, a \in Addr, vote \in CastVotes : Vote(a, id, vote)
  PROVE  /\ ballots' = ballots /\ DOMAIN proposals' = DOMAIN proposals
         /\ \A id \in DOMAIN proposals : proposals'[id].votes = proposals[id].votes
<1> DEFINE Same(ps) == \A id \in DOMAIN proposals : ps[id].votes = proposals[id].votes
<1>1. DOMAIN proposals' = DOMAIN proposals
  BY ProposalsSince
<1>2. ASSUME NEW status, NEW id
      PROVE  Same([proposals EXCEPT ![id].status = status])
  <2> SUFFICES ASSUME NEW x \in DOMAIN proposals
               PROVE  [proposals EXCEPT ![id].status = status][x].votes = proposals[x].votes
    OBVIOUS
  <2>1. proposals[x] \in Proposal
    BY InvariantSays
  <2>2. [proposals[x] EXCEPT !.status = status].votes = proposals[x].votes
    BY <2>1 DEF Proposal
  <2> QED BY <2>2
<1>3. ASSUME NEW ps, DOMAIN ps = DOMAIN proposals, Same(ps), NEW L,
             \A id \in DOMAIN ps : DOMAIN ps[id] = DOMAIN proposals[id]
      PROVE  Same(adjust_open_proposals(ps, L))
  <2> SUFFICES ASSUME NEW x \in DOMAIN proposals
               PROVE  adjust_open_proposals(ps, L)[x].votes = proposals[x].votes
    OBVIOUS
  <2>1. proposals[x] \in Proposal /\ ps[x].votes = proposals[x].votes
    BY <1>3, InvariantSays
  <2>2. \A n : [ps[x] EXCEPT !.total_points = n].votes = ps[x].votes
    BY <1>3, <2>1 DEF Proposal
  <2> QED BY <1>3, <2>1, <2>2 DEF adjust_open_proposals
<1>4. ASSUME NEW id \in DOMAIN proposals, Execute(id)
      PROVE  ballots' = ballots /\ Same(proposals')
  <2>1. /\ ballots' = ballots
        /\ \/ proposals' = executed(id)
           \/ \E L : proposals' = adjust_open_proposals(executed(id), L)
    BY <1>4 DEF Execute, ExecuteEditTrustedCircle, ExecuteAddVotingMembers,
         ExecuteAddRemoveNonVotingMembers, ExecuteWhitelistContract, ExecuteRemoveContract,
         whitelist_contract_addr, remove_contract_addr, AddRemove, ExecutePunishMembers
  <2>2. /\ Same(executed(id)) /\ DOMAIN executed(id) = DOMAIN proposals
        /\ \A x \in DOMAIN executed(id) : DOMAIN executed(id)[x] = DOMAIN proposals[x]
    BY <1>2 DEF executed
  <2> HIDE DEF Same
  <2> QED BY <1>3, <2>1, <2>2
<1>5. ASSUME NEW a \in Addr, LeaveTrustedCircle(a)
      PROVE  ballots' = ballots /\ Same(proposals')
  <2>1. Same(proposals)
    OBVIOUS
  <2> HIDE DEF Same
  <2> QED BY <1>3, <1>5, <2>1 DEF LeaveTrustedCircle
<1>6. ASSUME NEW id \in DOMAIN proposals, Close(id)
      PROVE  ballots' = ballots /\ Same(proposals')
  <2> HIDE DEF Same
  <2> QED BY <1>2, <1>6 DEF Close
<1>7. ASSUME \/ \E a \in Addr : \/ \E amount \in Payments : DepositEscrow(a, amount)
                               \/ ReturnEscrow(a) \/ LeaveImmediately(a) \/ WithdrawRewards(a)
             \/ CheckPending \/ DistributeRewards \/ NextBlock \/ UNCHANGED vars
             \/ \E amount \in Rewards : SendRewards(amount)
      PROVE  ballots' = ballots /\ Same(proposals')
  BY <1>7 DEF DepositEscrow, ReturnEscrow, LeaveImmediately, WithdrawRewards, CheckPending,
       DistributeRewards, NextBlock, SendRewards, vars, proposal_vars
<1> HIDE DEF Same
<1>8. ballots' = ballots /\ Same(proposals')
  BY <1>4, <1>5, <1>6, <1>7 DEF Next
<1> QED BY <1>1, <1>8 DEF Same

\* The proposer of a new proposal is the only one counted.
LEMMA ProposeCounted ==
  ASSUME IInv, BallotsCounted, NEW a \in Addr, NEW content \in Contents, Propose(a, content)
  PROVE  BallotsCounted'
<1> PICK new : new = Len(proposals) + 1   \* the same number after the step
  OBVIOUS
<1> DEFINE power == vote_power(points'[a])
           ballot == [proposal_id |-> new, voter |-> a, vote |-> "Yes", points |-> power]
<1>1. PICK q : NewProposal(q, a, content, power)
  BY ProposeAppends
<1>2. /\ DOMAIN proposals' = DOMAIN proposals \cup {new} /\ new \notin DOMAIN proposals
      /\ proposals'[new] = q /\ \A id \in DOMAIN proposals : proposals'[id] = proposals[id]
  BY <1>1, NewProposals
<1>3. power = 1
  <2>1. IInv'
    BY NextKeeps DEF Next
  <2>2. points'[a] \in Points
    BY <2>1, NextStore DEF IInv, StoreOK, MembersOK
  <2> QED BY <2>2, ProposeAppends DEF Points, vote_power, VOTING_POINTS, ABSENT
<1>4. ballots' = ballots \cup {ballot} /\ q.votes = add_vote(NoVotes, "Yes", 1)
  BY <1>1, <1>3 DEF NewProposal
<1>5. ballot.proposal_id = new /\ ballot.voter = a /\ ballot.vote = "Yes"
  OBVIOUS
<1> HIDE DEF ballot
<1>6. \A b \in ballots' : b.proposal_id \in DOMAIN proposals'
  BY <1>2, <1>4, <1>5 DEF BallotsCounted
<1>7. ASSUME NEW id \in DOMAIN proposals, NEW option \in VoteOption
      PROVE  VotersFor(id, option)' = VotersFor(id, option)
  BY <1>2, <1>4, <1>5 DEF VotersFor
<1>8. ASSUME NEW option \in VoteOption
      PROVE  q.votes[option] = Cardinality(VotersFor(new, option)')
  <2>0. \A b \in ballots' : b.proposal_id = new <=> b = ballot
    BY <1>2, <1>4, <1>5 DEF BallotsCounted
  <2>1. VotersFor(new, option)' = IF option = "Yes" THEN {a} ELSE {}
    <3>1. VotersFor(new, option)'
            = {x \in Addr : \E b \in {ballot} : b.voter = x /\ b.vote = option}
      BY <1>4, <2>0 DEF VotersFor
    <3> QED BY <1>5, <3>1
  <2>2. Cardinality({a}) = 1 /\ Cardinality({}) = 0
    BY FS_Singleton, FS_EmptySet
  <2>3. q.votes[option] = IF option = "Yes" THEN 1 ELSE 0
    BY <1>4 DEF add_vote, NoVotes, VoteOption
  <2> QED BY <2>1, <2>2, <2>3
<1>9. ASSUME NEW id \in DOMAIN proposals', NEW option \in VoteOption
      PROVE  proposals'[id].votes[option] = Cardinality(VotersFor(id, option)')
  <2>1. CASE id = new
    BY <1>2, <1>8, <2>1
  <2>2. CASE id # new
    <3>1. id \in DOMAIN proposals /\ proposals'[id] = proposals[id]
      BY <1>2, <2>2
    <3>2. VotersFor(id, option)' = VotersFor(id, option)
      BY <1>7, <3>1
    <3> QED BY <3>1, <3>2 DEF BallotsCounted
  <2> QED BY <2>1, <2>2
<1> QED BY <1>6, <1>9 DEF BallotsCounted

\* Whoever votes is counted once more, for its option.
LEMMA VoteCounted ==
  ASSUME IInv, BallotsCounted, NEW a \in Addr, NEW id \in DOMAIN proposals,
         NEW vote \in CastVotes, Vote(a, id, vote)
  PROVE  BallotsCounted'
<1> DEFINE p == proposals[id]
           power == vote_power(points_at_height(Store, a, p.start_height))
           ballot == [proposal_id |-> id, voter |-> a, vote |-> vote, points |-> power]
           v == [p EXCEPT !.votes = add_vote(@, vote, power)]
           q == update_status(v, now)
<1>1. p \in Proposal /\ vote \in VoteOption
  BY InvariantSays, CircleAssumption
<1>2. /\ proposals' = [proposals EXCEPT ![id] = q] /\ ballots' = ballots \cup {ballot}
      /\ power > 0 /\ ~ \E b \in ballots : b.proposal_id = id /\ b.voter = a
  BY DEF Vote, has_voted
<1>3. power = 1
  <2>1. p.start_height \in Nat /\ MembersOK(Store)
    BY <1>1 DEF Proposal, IInv, StoreOK
  <2>2. points_at_height(Store, a, p.start_height) \in Points
    BY <2>1, SnapshotPoints
  <2> QED BY <1>2, <2>2 DEF Points, vote_power, VOTING_POINTS, ABSENT
<1>4. ballot.proposal_id = id /\ ballot.voter = a /\ ballot.vote = vote
  OBVIOUS
<1>5. /\ p.votes \in [VoteOption -> Nat] /\ q.votes = [p.votes EXCEPT ![vote] = @ + 1]
  <2>1. v.votes = add_vote(p.votes, vote, 1) /\ "status" \in DOMAIN v
    BY <1>1, <1>3 DEF Proposal
  <2> HIDE DEF v
  <2>2. q.votes = v.votes
    BY <2>1 DEF update_status
  <2> QED BY <1>1, <2>1, <2>2 DEF Proposal, Votes, add_vote
<1> HIDE DEF q, v, power, ballot
<1>6. /\ DOMAIN proposals' = DOMAIN proposals /\ proposals'[id] = q
      /\ \A x \in DOMAIN proposals : x # id => proposals'[x] = proposals[x]
  BY <1>2
<1>7. \A b \in ballots' : b.proposal_id \in DOMAIN proposals'
  BY <1>2, <1>4, <1>6 DEF BallotsCounted
<1>8. ASSUME NEW x \in DOMAIN proposals, NEW option \in VoteOption
      PROVE  proposals'[x].votes[option] = Cardinality(VotersFor(x, option)')
  <2>1. proposals[x].votes[option] = Cardinality(VotersFor(x, option))
    BY DEF BallotsCounted
  <2>2. CASE x = id /\ option = vote
    <3>1. VotersFor(x, option)' = VotersFor(x, option) \cup {a} /\ a \notin VotersFor(x, option)
      BY <1>2, <1>4, <2>2 DEF VotersFor
    <3>2. VotersFor(x, option) \in SUBSET Addr
      BY DEF VotersFor
    <3>3. IsFiniteSet(VotersFor(x, option))
      BY <3>2, AddrSubsets
    <3>4. Cardinality(VotersFor(x, option)') = Cardinality(VotersFor(x, option)) + 1
      BY <3>1, <3>3, FS_AddElement
    <3>5. q.votes[vote] = p.votes[vote] + 1
      BY <1>1, <1>5
    <3> QED BY <1>6, <2>1, <2>2, <3>4, <3>5
  <2>3. CASE ~(x = id /\ option = vote)
    <3>1. VotersFor(x, option)' = VotersFor(x, option)
      BY <1>2, <1>4, <2>3 DEF VotersFor
    <3>2. proposals'[x].votes[option] = proposals[x].votes[option]
      BY <1>1, <1>5, <1>6, <2>3
    <3> QED BY <2>1, <3>1, <3>2
  <2> QED BY <2>2, <2>3
<1> QED BY <1>6, <1>7, <1>8 DEF BallotsCounted

LEMMA NextCounted == IInv /\ BallotsCounted /\ [Next]_vars => BallotsCounted'
<1> SUFFICES ASSUME IInv, BallotsCounted, [Next]_vars PROVE BallotsCounted'
  OBVIOUS
<1>1. CASE /\ ~ \E a \in Addr, content \in Contents : Propose(a, content)
           /\ ~ \E id \in DOMAIN proposals, a \in Addr, vote \in CastVotes : Vote(a, id, vote)
  <2>1. /\ ballots' = ballots /\ DOMAIN proposals' = DOMAIN proposals
        /\ \A id \in DOMAIN proposals : proposals'[id].votes = proposals[id].votes
    BY <1>1, TalliesStay
  <2>2. \A id, option : VotersFor(id, option)' = VotersFor(id, option)
    BY <2>1 DEF VotersFor
  <2> QED BY <2>1, <2>2 DEF BallotsCounted
<1> QED BY <1>1, ProposeCounted, VoteCounted

LEMMA NextHadPoint ==
  ASSUME IInv, DInv, WaitOK(Store), EInv, BallotsCounted, VotersHadPoint,
         [Next]_vars, UpkeepFirst
  PROVE  VotersHadPoint'
<1>1. \A id \in DOMAIN proposals : proposals'[id].start_height = proposals[id].start_height
  BY NextAdvances DEF AllAdvance, Advances
<1>2. \A id \in DOMAIN proposals, x \in Addr :
        points_at_height(Store', x, proposals'[id].start_height)
          = points_at_height(Store, x, proposals[id].start_height)
  BY <1>1, PowerStays
<1>3. \A b \in ballots : b.voter \in Addr /\ b.proposal_id \in DOMAIN proposals
  BY DEF IInv, Ballot, BallotsCounted
<1>4. ASSUME NEW id \in DOMAIN proposals, NEW p, HadPoint(id, p),
             \A b \in ballots' : b.proposal_id = id /\ b \notin ballots => b.voter \in Addr
               /\ points_at_height(Store, b.voter, proposals[id].start_height) = VOTING_POINTS
      PROVE  HadPoint(id, p)'
  <2> SUFFICES ASSUME NEW b \in ballots', b.proposal_id = id, b.voter # p
               PROVE  points_at_height(Store', b.voter, proposals'[id].start_height)
                        = VOTING_POINTS
    BY DEF HadPoint
  <2>1. /\ b.voter \in Addr
        /\ points_at_height(Store, b.voter, proposals[id].start_height) = VOTING_POINTS
    BY <1>3, <1>4 DEF HadPoint
  <2> QED BY <1>2, <2>1
<1>5. ASSUME NEW a \in Addr, NEW content \in Contents, Propose(a, content)
      PROVE  VotersHadPoint'
  <2> PICK new : new = Len(proposals) + 1
    OBVIOUS
  <2> DEFINE power == vote_power(points'[a])
             ballot == [proposal_id |-> new, voter |-> a, vote |-> "Yes", points |-> power]
  <2>1. PICK q : NewProposal(q, a, content, power)
    BY <1>5, ProposeAppends
  <2>2. DOMAIN proposals' = DOMAIN proposals \cup {new} /\ new \notin DOMAIN proposals
    BY <2>1, NewProposals
  <2>3. ballots' = ballots \cup {ballot}
    BY <2>1 DEF NewProposal
  <2>4. ballot.proposal_id = new /\ ballot.voter = a
    OBVIOUS
  <2> HIDE DEF ballot
  <2>5. ASSUME NEW id \in DOMAIN proposals
        PROVE  \E p \in Addr : HadPoint(id, p)'
    <3>1. PICK p \in Addr : HadPoint(id, p)
      BY DEF VotersHadPoint
    <3>2. \A b \in ballots' : b.proposal_id = id => b \in ballots
      BY <2>2, <2>3, <2>4
    <3>3. HadPoint(id, p)'
      BY <1>4, <3>1, <3>2
    <3> QED BY <3>3
  <2>6. HadPoint(new, a)'
    <3>1. \A b \in ballots' : b.proposal_id = new => b.voter = a
      BY <1>3, <2>2, <2>3, <2>4
    <3> QED BY <3>1 DEF HadPoint
  <2> QED BY <2>2, <2>5, <2>6 DEF VotersHadPoint
<1>6. ASSUME NEW a \in Addr, NEW i \in DOMAIN proposals, NEW vote \in CastVotes, Vote(a, i, vote)
      PROVE  VotersHadPoint'
  <2> DEFINE power == vote_power(points_at_height(Store, a, proposals[i].start_height))
             ballot == [proposal_id |-> i, voter |-> a, vote |-> vote, points |-> power]
  <2>1. ballots' = ballots \cup {ballot} /\ DOMAIN proposals' = DOMAIN proposals /\ power > 0
    BY <1>6 DEF Vote
  <2>2. points_at_height(Store, a, proposals[i].start_height) = VOTING_POINTS
    <3>1. proposals[i].start_height \in Nat /\ MembersOK(Store)
      BY InvariantSays DEF Proposal, IInv, StoreOK
    <3>2. points_at_height(Store, a, proposals[i].start_height) \in Points
      BY <3>1, SnapshotPoints
    <3> QED BY <2>1, <3>2 DEF Points, vote_power, VOTING_POINTS, ABSENT
  <2>3. ballot.proposal_id = i /\ ballot.voter = a
    OBVIOUS
  <2> HIDE DEF ballot
  <2>4. ASSUME NEW id \in DOMAIN proposals
        PROVE  \E p \in Addr : HadPoint(id, p)'
    <3>1. PICK p \in Addr : HadPoint(id, p)
      BY DEF VotersHadPoint
    <3>2. HadPoint(id, p)'
      BY <1>4, <2>1, <2>2, <2>3, <3>1
    <3> QED BY <3>2
  <2> QED BY <2>1, <2>4 DEF VotersHadPoint
<1>7. CASE /\ ~ \E a \in Addr, content \in Contents : Propose(a, content)
           /\ ~ \E id \in DOMAIN proposals, a \in Addr, vote \in CastVotes : Vote(a, id, vote)
  <2>1. ballots' = ballots /\ DOMAIN proposals' = DOMAIN proposals
    BY <1>7, TalliesStay
  <2>2. ASSUME NEW id \in DOMAIN proposals
        PROVE  \E p \in Addr : HadPoint(id, p)'
    <3>1. PICK p \in Addr : HadPoint(id, p)
      BY DEF VotersHadPoint
    <3>2. HadPoint(id, p)'
      BY <1>4, <2>1, <3>1
    <3> QED BY <3>2
  <2> QED BY <2>1, <2>2 DEF VotersHadPoint
<1> QED BY <1>5, <1>6, <1>7
-----------------------------------------------------------------------------
\* What clients read of the votes

LEMMA ProposalsRead ==
  ASSUME Readers, IInv, NEW limit \in PageLimits
  PROVE  LET n == Len(proposals)
         IN /\ Shows(Pages(LAMBDA s : list_proposals(s, limit), n), DOMAIN proposals)
            /\ Shows(ReversePages(LAMBDA s : reverse_proposals(s, limit), n), DOMAIN proposals)
            /\ n \in Nat /\ DOMAIN proposals = 1 .. n
<1> PICK n : n = Len(proposals)
  OBVIOUS
<1>1. n \in Nat /\ DOMAIN proposals = 1 .. n
  BY LenProperties DEF IInv, ProposalsOK
<1>2. IsFiniteSet(1 .. n) /\ Cardinality(1 .. n) <= n /\ 1 .. n \in SUBSET Int
  <2>1. IsFiniteSet(1 .. n) /\ Cardinality(1 .. n) = IF 1 > n THEN 0 ELSE n - 1 + 1
    <3>1. 1 \in Int /\ n \in Int
      BY <1>1
    <3> QED BY <3>1, FS_Interval
  <2> QED BY <1>1, <2>1
<1>3. /\ Pages(LAMBDA s : list_proposals(s, limit), n) = PagesOf(DOMAIN proposals, limit, n)
      /\ ReversePages(LAMBDA s : reverse_proposals(s, limit), n)
           = ReversePagesOf(DOMAIN proposals, limit, n)
  BY DEF PagesOf, ReversePagesOf, list_proposals, reverse_proposals
<1>4. /\ Shows(PagesOf(1 .. n, limit, n), 1 .. n)
      /\ Shows(ReversePagesOf(1 .. n, limit, n), 1 .. n)
  BY <1>1, <1>2, KeysShown DEF Readers
<1> QED BY <1>1, <1>3, <1>4

\* The pages that start after each number show every proposal somebody voted on.
LEMMA VotedRead ==
  ASSUME Readers, IInv, BallotsCounted, NEW limit \in PageLimits, NEW a \in Addr
  PROVE  UNION {list_votes_by_voter(a, {n}, limit) : n \in 0 .. Len(proposals)}
           = {b.proposal_id : b \in {b \in ballots : b.voter = a}}
<1> PICK keys, n : /\ keys = {b.proposal_id : b \in {b \in ballots : b.voter = a}}
                   /\ n = Len(proposals)
  OBVIOUS
<1>1. n \in Nat /\ keys \in SUBSET (1 .. n)
  <2>1. n \in Nat /\ DOMAIN proposals = 1 .. n
    BY ProposalsRead
  <2> QED BY <2>1 DEF BallotsCounted
<1>2. \A s : list_votes_by_voter(a, s, limit) = page(keys, s, limit)
  BY DEF list_votes_by_voter
<1>3. ASSUME NEW k \in keys
      PROVE  \E m \in 0 .. n : k \in page(keys, {m}, limit)
  <2>1. k - 1 \in 0 .. n /\ k \in Int
    BY <1>1
  <2> PICK m : m = k - 1
    OBVIOUS
  <2> PICK rest : rest = {j \in keys : after(j, {m})}
    OBVIOUS
  <2>2. \A j \in keys : after(j, {m}) <=> j >= k
    BY <1>1, <2>1 DEF after
  <2>3. k \in rest /\ {j \in rest : j < k} = {}
    <3>1. \A j \in keys : j \in Int
      BY <1>1
    <3>2. k >= k /\ \A j \in keys : j >= k => ~(j < k)
      BY <2>1, <3>1
    <3>3. k \in rest
      BY <2>2, <3>2
    <3>4. \A j \in rest : j \in keys /\ j >= k
      BY <2>2
    <3> QED BY <3>2, <3>3, <3>4
  <2>4. align_limit(limit) \in Nat \ {0}
    BY LimitPositive DEF Readers
  <2>5. Cardinality({j \in rest : j < k}) < align_limit(limit)
    <3> PICK smaller : smaller = {j \in rest : j < k}
      OBVIOUS
    <3>1. Cardinality(smaller) = 0
      BY <2>3, FS_EmptySet
    <3> QED BY <2>4, <3>1
  <2>6. k \in page(keys, {m}, limit)
    BY <2>3, <2>5 DEF page
  <2> QED BY <2>1, <2>6
<1>4. \A m \in 0 .. n : page(keys, {m}, limit) \in SUBSET keys
  BY DEF page
<1>5. UNION {page(keys, {m}, limit) : m \in 0 .. n} = keys
  <2>1. \A k \in keys : k \in UNION {page(keys, {m}, limit) : m \in 0 .. n}
    BY <1>3, Zenon
  <2>2. \A k \in UNION {page(keys, {m}, limit) : m \in 0 .. n} : k \in keys
    BY <1>4, Zenon
  <2> QED BY <2>1, <2>2, Zenon
<1>6. {list_votes_by_voter(a, {m}, limit) : m \in 0 .. n}
        = {page(keys, {m}, limit) : m \in 0 .. n}
  BY <1>2
<1> QED BY <1>5, <1>6

\* What is read of proposal id, with the voters lv under whom it is listed
Explained(id, limit, lv) ==
  /\ Shows(Pages(LAMBDA s : list_votes_by_proposal(id, s, limit), Cardinality(lv)), lv)
  /\ \A option \in VoteOption :
       query_proposal(id).votes[option]
         = Cardinality({a \in lv : \E b \in query_vote(id, a) : b.vote = option})
  /\ Cardinality({a \in lv : query_member(a, {proposals[id].start_height})
                               # {VOTING_POINTS}}) <= 1

LEMMA VotesRead ==
  ASSUME Readers, IInv, BallotsCounted, VotersHadPoint,
         NEW limit \in PageLimits, NEW id \in DOMAIN proposals, NEW lv,
         \A a : a \in lv <=> a \in Addr /\ \E b \in ballots : b.proposal_id = id /\ b.voter = a
  PROVE  Explained(id, limit, lv)
<1>1. \A b \in ballots : b.voter \in Addr
  BY DEF IInv, Ballot
<1>2. lv = {a \in Addr : \E b \in ballots : b.proposal_id = id /\ b.voter = a}
  OBVIOUS
<1>3. lv = {b.voter : b \in {b \in ballots : b.proposal_id = id}}
  BY <1>1, <1>2
<1>4. lv \in SUBSET Addr /\ lv \in SUBSET Int /\ IsFiniteSet(lv)
  BY <1>2, AddrSubsets DEF Readers
<1>5. Shows(Pages(LAMBDA s : list_votes_by_proposal(id, s, limit), Cardinality(lv)), lv)
  <2>1. Pages(LAMBDA s : list_votes_by_proposal(id, s, limit), Cardinality(lv))
          = PagesOf({b.voter : b \in {b \in ballots : b.proposal_id = id}}, limit, Cardinality(lv))
    BY DEF PagesOf, list_votes_by_proposal
  <2>2. Shows(PagesOf(lv, limit, Cardinality(lv)), lv)
    BY <1>4, KeysOfShown DEF Readers
  <2> QED BY <1>3, <2>1, <2>2
<1>6. ASSUME NEW option \in VoteOption
      PROVE  query_proposal(id).votes[option]
               = Cardinality({a \in lv : \E b \in query_vote(id, a) : b.vote = option})
  <2>1. {a \in lv : \E b \in query_vote(id, a) : b.vote = option} = VotersFor(id, option)
    BY <1>2 DEF query_vote, VotersFor
  <2>2. query_proposal(id).votes = proposals[id].votes
    BY DEF query_proposal
  <2> QED BY <2>1, <2>2 DEF BallotsCounted
<1>7. Cardinality({a \in lv : query_member(a, {proposals[id].start_height})
                                # {VOTING_POINTS}}) <= 1
  <2> PICK h : h = proposals[id].start_height
    OBVIOUS
  <2> DEFINE others == {a \in lv : query_member(a, {h}) # {VOTING_POINTS}}
  <2>1. PICK p \in Addr : HadPoint(id, p)
    BY DEF VotersHadPoint
  <2>2. ASSUME NEW a \in lv, a # p PROVE query_member(a, {h}) = {VOTING_POINTS}
    <3>1. points_at_height(Store, a, h) = VOTING_POINTS
      BY <1>2, <2>1, <2>2 DEF HadPoint
    <3>2. (CHOOSE x \in {h} : TRUE) = h
      OBVIOUS
    <3>3. query_member(a, {h}) = {points_at_height(Store, a, h)} \ {ABSENT}
      BY <3>2 DEF query_member
    <3>4. VOTING_POINTS # ABSENT
      BY DEF VOTING_POINTS, ABSENT
    <3>5. {VOTING_POINTS} \ {ABSENT} = {VOTING_POINTS}
      BY <3>4
    <3> QED BY <3>1, <3>3, <3>5
  <2>3. others \in SUBSET {p}
    BY <2>2
  <2> HIDE DEF others
  <2>4. Cardinality(others) <= 1
    <3>1. IsFiniteSet({p}) /\ Cardinality({p}) = 1
      BY FS_Singleton
    <3> QED BY <2>3, <3>1, FS_Subset
  <2> QED BY <2>4 DEF others
<1> QED BY <1>5, <1>6, <1>7 DEF Explained

LEMMA VotesSay ==
  ASSUME Readers, IInv, BallotsCounted, VotersHadPoint
  PROVE  VotesExplainTally
<1> SUFFICES ASSUME NEW limit \in PageLimits
             PROVE  LET votes_of == [a \in Addr |->
                          UNION {list_votes_by_voter(a, {n}, limit) : n \in 0 .. Len(proposals)}]
                    IN \A id \in DOMAIN proposals :
                         Explained(id, limit, {a \in Addr : id \in votes_of[a]})
  BY ProposalsRead DEF VotesExplainTally, Explained
<1> DEFINE votes_of == [a \in Addr |->
             UNION {list_votes_by_voter(a, {n}, limit) : n \in 0 .. Len(proposals)}]
<1>1. \A a \in Addr : votes_of[a] = {b.proposal_id : b \in {b \in ballots : b.voter = a}}
  BY VotedRead
<1> HIDE DEF votes_of
<1>2. ASSUME NEW id \in DOMAIN proposals
      PROVE  Explained(id, limit, {a \in Addr : id \in votes_of[a]})
  <2> PICK lv : lv = {a \in Addr : id \in votes_of[a]}
    OBVIOUS
  <2>1. \A a \in Addr : id \in votes_of[a] <=> \E b \in ballots : b.proposal_id = id /\ b.voter = a
    BY <1>1
  <2>2. \A a : a \in lv <=> a \in Addr /\ \E b \in ballots : b.proposal_id = id /\ b.voter = a
    BY <2>1
  <2>3. Explained(id, limit, lv)
    BY <2>2, VotesRead
  <2> QED BY <2>3
<1> QED BY <1>2 DEF votes_of

\* The votes that clients read page by page are the ones that a tally counts, one
\* for every voter, and all but the proposer's are of addresses that are reported
\* with a point at the start of the proposal's block, as long as no proposal
\* changes a member for the second time in a block.
THEOREM VotesShown ==
  ASSUME Readers
  PROVE  Spec /\ [][UpkeepFirst]_vars => []VotesExplainTally
<1> DEFINE Inv == IInv /\ DInv /\ WaitOK(Store) /\ EInv /\ BallotsCounted /\ VotersHadPoint
<1>1. Init => Inv
  <2>1. Init => BallotsCounted /\ VotersHadPoint
    <3> SUFFICES ASSUME Init PROVE BallotsCounted /\ VotersHadPoint
      OBVIOUS
    <3>1. ballots = {} /\ proposals = <<>> /\ DOMAIN <<>> = {}
      BY DEF Init
    <3> QED BY <3>1 DEF BallotsCounted, VotersHadPoint
  <2> QED BY <2>1, InitHolds, InitTyped, InitWaits, InitElectorate
<1>2. Inv /\ [Next]_vars /\ [UpkeepFirst]_vars => Inv'
  <2>1. CASE UNCHANGED vars
    <3> SUFFICES ASSUME Inv, UNCHANGED vars PROVE Inv'
      BY <2>1
    <3>1. [Next]_vars
      OBVIOUS
    <3>2. UpkeepFirst
      BY DEF UpkeepFirst, vars, proposal_vars, store_vars
    <3> QED BY <3>1, <3>2, NextKeeps, NextTyped, NextWaits, NextElectorate, NextCounted,
               NextHadPoint
  <2>2. CASE ~UNCHANGED vars
    BY <2>2, NextKeeps, NextTyped, NextWaits, NextElectorate, NextCounted, NextHadPoint
  <2> QED BY <2>1, <2>2
<1>3. Inv => VotesExplainTally
  BY VotesSay
<1> QED BY <1>1, <1>2, <1>3, PTL DEF Spec
=============================================================================
