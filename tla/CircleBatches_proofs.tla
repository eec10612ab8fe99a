-------------------------- MODULE CircleBatches_proofs --------------------------
(***************************************************************************)
(* Escrows and batches of a circle, for all values of the constants: what  *)
(* the contract holds, whom its batches wait for, and what an id means.    *)
(* The helpers of Membership are first described by what they make of the  *)
(* escrows and of the batches, handlers are then followed along them.      *)
(***************************************************************************)
EXTENDS TrustedCircle_proofs

-----------------------------------------------------------------------------
\* What the helpers make of a store

flagged(bs, ready) ==
  [id \in DOMAIN bs |-> IF id \in ready THEN [bs[id] EXCEPT !.batch_promoted = TRUE]
                                        ELSE bs[id]]
voting(es, A) ==
  [x \in Addr |-> IF x \in A THEN Become(es[x], "Voting", 0, 0) ELSE es[x]]

\* The paid pending members of the ready batches vote, the batches are done.
LEMMA ConvertedStore ==
  ASSUME NEW s, StoreOK(s), NEW ready, NEW h \in Nat
  PROVE  LET t == convert_all_paid_members_to_voters(s, ready, h)
         IN /\ t.escrows = voting(s.escrows, listed(s, ready) \cap WithStatus(s, "PendingPaid"))
            /\ t.batches = flagged(s.batches, ready)
<1> DEFINE A == listed(s, ready) \cap WithStatus(s, "PendingPaid")
           t == promote(s, A, h)
           bs == [x \in DOMAIN s.batches |->
                    IF x \in ready THEN [s.batches[x] EXCEPT !.batch_promoted = TRUE]
                                   ELSE s.batches[x]]
<1>1. MembersOK(t) /\ t.escrows = voting(s.escrows, A)
  BY PromoteMembers DEF StoreOK, voting
<1>2. convert_all_paid_members_to_voters(s, ready, h) = [t EXCEPT !.batches = bs]
  BY DEF convert_all_paid_members_to_voters
<1>3. bs = flagged(s.batches, ready)
  BY DEF flagged
<1> HIDE DEF t, bs
<1>4. /\ [t EXCEPT !.batches = bs].escrows = t.escrows
      /\ [t EXCEPT !.batches = bs].batches = bs
  BY <1>1 DEF MembersOK, StoreFields
<1> QED BY <1>1, <1>2, <1>3, <1>4

one_less(bs, id) == [bs EXCEPT ![id].waiting_escrow = @ - 1]

\* After a payment the batch waits for one less; then nobody, the payer, or
\* everybody listed who has paid is promoted.
Updated(s, u, a, id, time) ==
  LET bs == one_less(s.batches, id)
      all == s.batches[id].members \cap WithStatus(s, "PendingPaid")
  IN \/ ~can_promote(bs[id], time) /\ u.escrows = s.escrows /\ u.batches = bs
     \/ /\ bs[id].batch_promoted
        /\ u.escrows = voting(s.escrows, {a}) /\ u.batches = bs
     \/ /\ can_promote(bs[id], time)
        /\ u.escrows = voting(s.escrows, all) /\ u.batches = flagged(bs, {id})

LEMMA UpdatedStore ==
  ASSUME NEW s, StoreOK(s), NEW a \in WithStatus(s, "PendingPaid"),
         NEW id \in DOMAIN s.batches, NEW time \in Nat, NEW h \in Nat
  PROVE  Updated(s, update_batch_after_escrow_paid(s, a, id, time, h), a, id, time)
<1> DEFINE u == update_batch_after_escrow_paid(s, a, id, time, h)
           bs == one_less(s.batches, id)
           all == s.batches[id].members \cap WithStatus(s, "PendingPaid")
           t == [s EXCEPT !.batches = bs]
           w == [s EXCEPT !.batches[id].waiting_escrow = @ - 1]
<1>1. BatchesTyped(bs)
  BY DEF StoreOK, BatchesTyped, Batch, one_less
<1>2. w = t
  BY DEF one_less
<1>3. /\ DOMAIN bs = DOMAIN s.batches /\ bs[id].members = s.batches[id].members
  BY DEF StoreOK, BatchesTyped, Batch, one_less
<1>4. StoreOK(t) /\ t.escrows = s.escrows /\ t.batches = bs
  <2>1. DOMAIN s = StoreFields
    BY DEF StoreOK, MembersOK
  <2> HIDE DEF bs
  <2>2. t.batches = bs
    BY <2>1 DEF StoreFields
  <2> QED BY <2>2, <1>1, ReplaceBatches DEF StoreOK
<1> HIDE DEF t, bs
<1>5. /\ promote(t, {a}, h).escrows = voting(s.escrows, {a})
      /\ promote(t, {a}, h).batches = bs
  <2>1. {a} \in SUBSET WithStatus(t, "PendingPaid")
    BY <1>4 DEF WithStatus
  <2> QED BY <2>1, <1>4, PromoteMembers DEF StoreOK, voting
<1>6. LET v == convert_all_paid_members_to_voters(t, {id}, h)
      IN v.escrows = voting(s.escrows, all) /\ v.batches = flagged(bs, {id})
  <2>1. listed(t, {id}) \cap WithStatus(t, "PendingPaid") = all
    BY <1>3, <1>4 DEF listed, WithStatus
  <2> HIDE DEF all
  <2> QED BY <2>1, <1>4, ConvertedStore
<1>7. u = CASE ~can_promote(bs[id], time)                     -> t
             [] can_promote(bs[id], time) /\ bs[id].batch_promoted -> promote(t, {a}, h)
             [] OTHER -> convert_all_paid_members_to_voters(t, {id}, h)
  BY <1>2, <1>4 DEF update_batch_after_escrow_paid
<1> HIDE DEF all, u
<1>8. CASE ~can_promote(bs[id], time)
  <2>1. u = t
    BY <1>7, <1>8
  <2> QED BY <2>1, <1>4, <1>8 DEF Updated, u, bs
<1>9. CASE can_promote(bs[id], time) /\ bs[id].batch_promoted
  <2>1. u = promote(t, {a}, h)
    BY <1>7, <1>9
  <2> QED BY <2>1, <1>5, <1>9 DEF Updated, u, bs
<1>10. CASE can_promote(bs[id], time) /\ ~bs[id].batch_promoted
  <2>1. u = convert_all_paid_members_to_voters(t, {id}, h)
    BY <1>7, <1>10
  <2> QED BY <2>1, <1>6, <1>10 DEF Updated, u, bs, all
<1> QED BY <1>8, <1>9, <1>10

pending(es, A, id) ==
  [x \in Addr |-> IF x \in A THEN Become(es[x], "Pending", id, 0) ELSE es[x]]
with_batch(bs, id, grace_ends_at, A, count) ==
  IF count = 0 THEN bs
  ELSE [x \in DOMAIN bs \cup {id} |->
          IF x = id THEN [grace_ends_at |-> grace_ends_at, waiting_escrow |-> count,
                          batch_promoted |-> FALSE, members |-> A]
                    ELSE bs[x]]

LEMMA BatchedStore ==
  ASSUME NEW s, DOMAIN s = StoreFields, NEW id, NEW grace, NEW A, NEW count
  PROVE  LET t == create_batch(s, id, grace, A, count)
         IN t.escrows = s.escrows /\ t.batches = with_batch(s.batches, id, grace, A, count)
BY DEF create_batch, with_batch, StoreFields

LEMMA DemotedStore ==
  ASSUME NEW s, DOMAIN s = StoreFields, NEW V, NEW h, NEW A, NEW id
  PROVE  LET t == set_status(strip_points(s, V, h), A, "Pending", id, 0)
         IN DOMAIN t = StoreFields /\ t.escrows = pending(s.escrows, A, id) /\ t.batches = s.batches
BY DEF pending, StoreFields, strip_points, save_points, set_status

\* A pending escrow that is due demotes the voters it is too high for, with a
\* batch of their own, or lets pending members have paid.
LEMMA EnforcedStore ==
  ASSUME NEW s, StoreOK(s), NEW k, CircleOK(k), NEW h
  PROVE  LET t == check_pending_escrow(s, k, h)
             id == k.escrow_pending.proposal_id
             D == short_voters(s, k)
         IN \/ /\ escrow_due(k) /\ k.escrow_pending.amount > k.escrow_amount
               /\ t.escrows = pending(s.escrows, D, id)
               /\ t.batches = with_batch(s.batches, id, now, D, Cardinality(D))
            \/ /\ escrow_due(k) /\ k.escrow_pending.amount < k.escrow_amount
               /\ t.escrows = [x \in Addr |->
                    IF x \in paid_pending(s, k) THEN [s.escrows[x] EXCEPT !.status = "PendingPaid"]
                                                ELSE s.escrows[x]]
               /\ t.batches = s.batches
            \/ /\ ~escrow_due(k) \/ k.escrow_pending.amount = k.escrow_amount
               /\ t = s
<1> DEFINE t == check_pending_escrow(s, k, h)
           id == k.escrow_pending.proposal_id
           D == short_voters(s, k)
           u == set_status(strip_points(s, D, h), D, "Pending", id, 0)
<1>1. DOMAIN s = StoreFields
  BY DEF StoreOK, MembersOK
<1>2. k.escrow_pending.amount \in Nat /\ k.escrow_amount \in Nat
  BY DEF CircleOK, CircleType, PendingEscrow
<1>3. CASE escrow_due(k) /\ k.escrow_pending.amount > k.escrow_amount
  <2>1. t = create_batch(u, id, now, D, Cardinality(D))
    BY <1>2, <1>3 DEF check_pending_escrow, demote_short_voters
  <2>2. DOMAIN u = StoreFields /\ u.escrows = pending(s.escrows, D, id) /\ u.batches = s.batches
    BY <1>1, DemotedStore
  <2> HIDE DEF u, t, D, id
  <2>3. t.escrows = u.escrows /\ t.batches = with_batch(u.batches, id, now, D, Cardinality(D))
    BY <2>1, <2>2, BatchedStore
  <2> QED BY <1>3, <2>2, <2>3 DEF t, D, id
<1>4. CASE escrow_due(k) /\ k.escrow_pending.amount < k.escrow_amount
  <2> DEFINE es == [x \in Addr |->
               IF x \in paid_pending(s, k) THEN [s.escrows[x] EXCEPT !.status = "PendingPaid"]
                                           ELSE s.escrows[x]]
  <2>1. t = [s EXCEPT !.escrows = es]
    BY <1>2, <1>4 DEF check_pending_escrow, promote_paid_pending
  <2> HIDE DEF es
  <2>2. t.escrows = es /\ t.batches = s.batches
    BY <1>1, <2>1 DEF StoreFields
  <2> QED BY <1>4, <2>2 DEF es
<1>5. CASE ~escrow_due(k) \/ k.escrow_pending.amount = k.escrow_amount
  BY <1>2, <1>5 DEF check_pending_escrow
<1> QED BY <1>2, <1>3, <1>4, <1>5

-----------------------------------------------------------------------------
\* Whom a batch waits for

waiting(s, id) == {x \in Addr : s.escrows[x].status = "Pending" /\ s.escrows[x].proposal_id = id}

\* WaitingCoversPending, of a store
WaitOK(s) ==
  /\ \A id \in DOMAIN s.batches : s.batches[id].waiting_escrow >= Cardinality(waiting(s, id))
  /\ \A x \in Addr : s.escrows[x].status \in {"Pending", "PendingPaid"} =>
       /\ s.escrows[x].proposal_id \in DOMAIN s.batches
       /\ x \in s.batches[s.escrows[x].proposal_id].members

\* Nobody starts to wait: from es to fs, at most Pending becomes PendingPaid, and
\* waiting ends
NobodyWaits(es, fs) ==
  \A x \in Addr :
    /\ fs[x].status \in {"Pending", "PendingPaid"} =>
         /\ es[x].status \in {"Pending", "PendingPaid"}
         /\ fs[x].proposal_id = es[x].proposal_id
    /\ fs[x].status = "Pending" => es[x].status = "Pending"

SameBatches(bs, cs) ==
  /\ DOMAIN cs = DOMAIN bs
  /\ \A id \in DOMAIN bs : /\ cs[id].members = bs[id].members
                           /\ cs[id].waiting_escrow = bs[id].waiting_escrow

LEMMA WaitKept ==
  ASSUME NEW s, BatchesTyped(s.batches), WaitOK(s), NEW t,
         NobodyWaits(s.escrows, t.escrows), SameBatches(s.batches, t.batches)
  PROVE  WaitOK(t)
<1>1. ASSUME NEW id \in DOMAIN t.batches
      PROVE  t.batches[id].waiting_escrow >= Cardinality(waiting(t, id))
  <2>1. waiting(t, id) \in SUBSET waiting(s, id) /\ waiting(s, id) \in SUBSET Addr
    BY DEF NobodyWaits, waiting
  <2>2. /\ Cardinality(waiting(t, id)) \in Nat /\ Cardinality(waiting(s, id)) \in Nat
        /\ Cardinality(waiting(t, id)) <= Cardinality(waiting(s, id))
    BY <2>1, AddrSubsets, FS_Subset
  <2>3. s.batches[id].waiting_escrow \in Int
    BY DEF SameBatches, BatchesTyped, Batch
  <2>4. s.batches[id].waiting_escrow >= Cardinality(waiting(s, id))
    BY DEF WaitOK, SameBatches
  <2>5. t.batches[id].waiting_escrow = s.batches[id].waiting_escrow
    BY DEF SameBatches
  <2> QED BY <2>2, <2>3, <2>4, <2>5
<1>2. ASSUME NEW x \in Addr, t.escrows[x].status \in {"Pending", "PendingPaid"}
      PROVE  /\ t.escrows[x].proposal_id \in DOMAIN t.batches
             /\ x \in t.batches[t.escrows[x].proposal_id].members
  BY <1>2 DEF WaitOK, NobodyWaits, SameBatches
<1> QED BY <1>1, <1>2 DEF WaitOK

\* A new batch that is large enough for the ones that wait for it.
Awaited(s, t, id, grace, A, count, D) ==
  /\ D \subseteq A /\ A \subseteq Addr
  /\ count \in Nat /\ Cardinality(D) <= count
  /\ count > 0 => id \notin DOMAIN s.batches
  /\ t.batches = with_batch(s.batches, id, grace, A, count)
  /\ \A x \in D : t.escrows[x].status = "Pending" /\ t.escrows[x].proposal_id = id
  /\ \A x \in Addr \ D :
       /\ t.escrows[x].status \in {"Pending", "PendingPaid"} =>
            /\ s.escrows[x].status \in {"Pending", "PendingPaid"}
            /\ t.escrows[x].proposal_id = s.escrows[x].proposal_id
       /\ t.escrows[x].status = "Pending" => s.escrows[x].status = "Pending"

LEMMA WaitBatch ==
  ASSUME NEW s, BatchesTyped(s.batches), WaitOK(s), NEW t, NEW id, NEW grace, NEW A,
         NEW count, NEW D, Awaited(s, t, id, grace, A, count, D)
  PROVE  WaitOK(t)
<1> USE DEF Awaited
<1>0. D \in SUBSET Addr /\ Cardinality(D) \in Nat /\ IsFiniteSet(D)
  BY AddrSubsets
<1>1. CASE count = 0
  <2>1. D = {}
    BY <1>0, <1>1, FS_EmptySet
  <2>2. NobodyWaits(s.escrows, t.escrows) /\ SameBatches(s.batches, t.batches)
    BY <1>1, <2>1 DEF NobodyWaits, SameBatches, with_batch
  <2> QED BY <2>2, WaitKept
<1>2. CASE count > 0
  <2>1. id \notin DOMAIN s.batches
    BY <1>2
  <2>2. /\ DOMAIN t.batches = DOMAIN s.batches \cup {id}
        /\ t.batches[id].waiting_escrow = count /\ t.batches[id].members = A
        /\ \A x \in DOMAIN s.batches : t.batches[x] = s.batches[x]
    BY <1>2, <2>1 DEF with_batch
  <2>3. \A x \in Addr : s.escrows[x].status \in {"Pending", "PendingPaid"} =>
          s.escrows[x].proposal_id \in DOMAIN s.batches /\ s.escrows[x].proposal_id # id
    BY <2>1 DEF WaitOK
  <2>4. waiting(t, id) = D
    BY <1>0, <2>3 DEF waiting
  <2>5. \A x \in DOMAIN s.batches : waiting(t, x) \in SUBSET waiting(s, x)
    BY <2>1 DEF waiting
  <2>6. ASSUME NEW x \in DOMAIN s.batches
        PROVE  t.batches[x].waiting_escrow >= Cardinality(waiting(t, x))
    <3>1. waiting(s, x) \in SUBSET Addr /\ waiting(t, x) \in SUBSET waiting(s, x)
      BY <2>5 DEF waiting
    <3>2. /\ Cardinality(waiting(t, x)) \in Nat /\ Cardinality(waiting(s, x)) \in Nat
          /\ Cardinality(waiting(t, x)) <= Cardinality(waiting(s, x))
      BY <3>1, AddrSubsets, FS_Subset
    <3>3. /\ s.batches[x].waiting_escrow \in Int
          /\ s.batches[x].waiting_escrow >= Cardinality(waiting(s, x))
      BY DEF WaitOK, BatchesTyped, Batch
    <3> QED BY <2>2, <3>2, <3>3
  <2>7. \A x \in DOMAIN t.batches : t.batches[x].waiting_escrow >= Cardinality(waiting(t, x))
    BY <1>0, <2>2, <2>4, <2>6
  <2>8. ASSUME NEW x \in Addr, t.escrows[x].status \in {"Pending", "PendingPaid"}
        PROVE  /\ t.escrows[x].proposal_id \in DOMAIN t.batches
               /\ x \in t.batches[t.escrows[x].proposal_id].members
    <3>1. CASE x \in D
      BY <2>2, <3>1
    <3>2. CASE x \notin D
      BY <2>2, <2>8, <3>2 DEF WaitOK
    <3> QED BY <3>1, <3>2
  <2> QED BY <2>7, <2>8 DEF WaitOK
<1> QED BY <1>1, <1>2

LEMMA FlaggedBatches ==
  ASSUME NEW bs, BatchesTyped(bs), NEW ready
  PROVE  /\ SameBatches(bs, flagged(bs, ready))
         /\ BatchesTyped(flagged(bs, ready))
         /\ \A id \in DOMAIN bs :
              /\ flagged(bs, ready)[id].grace_ends_at = bs[id].grace_ends_at
              /\ flagged(bs, ready)[id].batch_promoted = (id \in ready \/ bs[id].batch_promoted)
<1>1. \A id \in DOMAIN bs :
        LET b == flagged(bs, ready)[id]
        IN /\ b \in Batch /\ b.members = bs[id].members
           /\ b.waiting_escrow = bs[id].waiting_escrow
           /\ b.grace_ends_at = bs[id].grace_ends_at
           /\ b.batch_promoted = (id \in ready \/ bs[id].batch_promoted)
  <2> SUFFICES ASSUME NEW id \in DOMAIN bs
               PROVE  LET b == flagged(bs, ready)[id]
                      IN /\ b \in Batch /\ b.members = bs[id].members
                         /\ b.waiting_escrow = bs[id].waiting_escrow
                         /\ b.grace_ends_at = bs[id].grace_ends_at
                         /\ b.batch_promoted = (id \in ready \/ bs[id].batch_promoted)
    OBVIOUS
  <2>1. bs[id] \in Batch
    BY DEF BatchesTyped
  <2>2. CASE id \in ready
    BY <2>1, <2>2 DEF flagged, Batch
  <2>3. CASE id \notin ready
    BY <2>1, <2>3 DEF flagged, Batch
  <2> QED BY <2>2, <2>3
<1>2. DOMAIN flagged(bs, ready) = DOMAIN bs
  BY DEF flagged
<1> QED BY <1>1, <1>2 DEF SameBatches, BatchesTyped

LEMMA VotingWaits ==
  ASSUME NEW es, NEW A
  PROVE  NobodyWaits(es, voting(es, A))
<1>1. \A x \in Addr : Become(es[x], "Voting", 0, 0).status = "Voting"
                       \/ Become(es[x], "Voting", 0, 0) = es[x]
  BY DEF Become
<1> QED BY <1>1 DEF NobodyWaits, voting

LEMMA WaitConverted ==
  ASSUME NEW s, StoreOK(s), WaitOK(s), NEW ready, NEW h \in Nat
  PROVE  WaitOK(convert_all_paid_members_to_voters(s, ready, h))
<1> DEFINE t == convert_all_paid_members_to_voters(s, ready, h)
           A == listed(s, ready) \cap WithStatus(s, "PendingPaid")
<1>1. t.escrows = voting(s.escrows, A) /\ t.batches = flagged(s.batches, ready)
  BY ConvertedStore
<1>2. BatchesTyped(s.batches)
  BY DEF StoreOK
<1> HIDE DEF t, A
<1>3. NobodyWaits(s.escrows, t.escrows)
  BY <1>1, VotingWaits
<1>4. SameBatches(s.batches, t.batches)
  BY <1>1, <1>2, FlaggedBatches
<1>5. WaitOK(t)
  BY <1>2, <1>3, <1>4, WaitKept
<1> QED BY <1>5 DEF t

\* Who pays is one less to wait for.
LEMMA WaitUpdated ==
  ASSUME NEW s, StoreOK(s), WaitOK(s), NEW a \in Addr, s.escrows[a].status = "Pending",
         NEW time \in Nat, NEW h \in Nat
  PROVE  LET t == [s EXCEPT !.escrows[a].status = "PendingPaid"]
         IN WaitOK(update_batch_after_escrow_paid(t, a, s.escrows[a].proposal_id, time, h))
<1> DEFINE t == [s EXCEPT !.escrows[a].status = "PendingPaid"]
           id == s.escrows[a].proposal_id
           bs == one_less(s.batches, id)
           v == [escrows |-> t.escrows, batches |-> bs]
           u == update_batch_after_escrow_paid(t, a, id, time, h)
<1>1. /\ StoreOK(t) /\ a \in WithStatus(t, "PendingPaid") /\ t.batches = s.batches
      /\ id \in DOMAIN s.batches /\ s.batches[id].waiting_escrow \in Int
  BY PaidPending DEF WaitOK, StoreOK, BatchesTyped, Batch
<1>2. t.escrows = [s.escrows EXCEPT ![a].status = "PendingPaid"]
  BY DEF StoreOK, MembersOK, StoreFields
<1>3. /\ s.escrows \in [Addr -> EscrowStatus] /\ BatchesTyped(s.batches)
      /\ \A x \in Addr : x # a => t.escrows[x] = s.escrows[x]
      /\ t.escrows[a].status = "PendingPaid" /\ t.escrows[a].proposal_id = id
  BY <1>2 DEF StoreOK, MembersOK, EscrowStatus
<1>4. /\ DOMAIN bs = DOMAIN s.batches /\ BatchesTyped(bs)
      /\ bs[id].waiting_escrow = s.batches[id].waiting_escrow - 1
      /\ \A x \in DOMAIN bs : bs[x].members = s.batches[x].members
      /\ \A x \in DOMAIN bs : x # id => bs[x] = s.batches[x]
  BY <1>1 DEF StoreOK, BatchesTyped, Batch, one_less
<1> HIDE DEF t, bs
<1>5. WaitOK(v)
  <2>1. waiting(v, id) = waiting(s, id) \ {a} /\ a \in waiting(s, id)
    BY <1>3 DEF waiting
  <2>2. waiting(s, id) \in SUBSET Addr
    BY DEF waiting
  <2>3. Cardinality(waiting(v, id)) = Cardinality(waiting(s, id)) - 1
    BY <2>1, <2>2, AddrSubsets, FS_RemoveElement
  <2>4. \A x \in DOMAIN bs : x # id => waiting(v, x) = waiting(s, x)
    BY <1>3 DEF waiting
  <2>5. Cardinality(waiting(s, id)) \in Nat
    BY <2>2, AddrSubsets
  <2>6. \A x \in DOMAIN bs : bs[x].waiting_escrow >= Cardinality(waiting(v, x))
    <3> SUFFICES ASSUME NEW x \in DOMAIN bs
                 PROVE  bs[x].waiting_escrow >= Cardinality(waiting(v, x))
      OBVIOUS
    <3>1. s.batches[x].waiting_escrow >= Cardinality(waiting(s, x))
      BY <1>4 DEF WaitOK
    <3>2. CASE x = id
      BY <1>1, <1>4, <2>3, <2>5, <3>1, <3>2
    <3>3. CASE x # id
      BY <1>4, <2>4, <3>1, <3>3
    <3> QED BY <3>2, <3>3
  <2>7. ASSUME NEW x \in Addr, t.escrows[x].status \in {"Pending", "PendingPaid"}
        PROVE  t.escrows[x].proposal_id \in DOMAIN bs /\ x \in bs[t.escrows[x].proposal_id].members
    BY <1>3, <1>4, <2>7 DEF WaitOK
  <2> QED BY <2>6, <2>7 DEF WaitOK
<1>6. Updated(t, u, a, id, time)
  BY <1>1, UpdatedStore
<1>61. bs = one_less(t.batches, id)
  BY <1>1 DEF bs
<1> HIDE DEF u
<1> DEFINE all == t.batches[id].members \cap WithStatus(t, "PendingPaid")
<1>62. /\ u.escrows \in {t.escrows, voting(t.escrows, {a}), voting(t.escrows, all)}
       /\ u.batches \in {bs, flagged(bs, {id})}
  BY <1>6, <1>61 DEF Updated
<1> HIDE DEF all
<1>7. NobodyWaits(v.escrows, u.escrows)
  <2>1. NobodyWaits(t.escrows, t.escrows)
    BY DEF NobodyWaits
  <2>2. v.escrows = t.escrows
    OBVIOUS
  <2>3. /\ NobodyWaits(t.escrows, voting(t.escrows, {a}))
        /\ NobodyWaits(t.escrows, voting(t.escrows, all))
    BY VotingWaits
  <2> QED BY <2>1, <2>2, <2>3, <1>62
<1>8. SameBatches(v.batches, u.batches) /\ BatchesTyped(v.batches)
  BY <1>4, <1>62, FlaggedBatches DEF SameBatches
<1> HIDE DEF v
<1>9. WaitOK(u)
  BY <1>5, <1>7, <1>8, WaitKept
<1> QED BY <1>9 DEF u, t

\* Enforcing the escrow: who is demoted gets a batch.
LEMMA WaitEnforced ==
  ASSUME NEW s, StoreOK(s), WaitOK(s), NEW k, CircleOK(k), NEW h \in Nat,
         can_check_pending(s, k, h)
  PROVE  WaitOK(check_pending_escrow(s, k, h))
<1> DEFINE t == check_pending_escrow(s, k, h)
           id == k.escrow_pending.proposal_id
           D == short_voters(s, k)
<1>1. CASE /\ escrow_due(k) /\ k.escrow_pending.amount > k.escrow_amount
           /\ t.escrows = pending(s.escrows, D, id)
           /\ t.batches = with_batch(s.batches, id, now, D, Cardinality(D))
  <2>1. D \in SUBSET Addr /\ D \in SUBSET D
    BY DEF short_voters, WithStatus
  <2>2. Cardinality(D) \in Nat /\ (Cardinality(D) > 0 => id \notin DOMAIN s.batches)
    BY <1>1, <2>1, AddrSubsets DEF can_check_pending, can_create_batch
  <2> HIDE DEF t, D
  <2>3. \A x \in D : s.escrows[x] \in EscrowStatus
    BY <2>1 DEF StoreOK, MembersOK
  <2>4. id \in Nat
    BY DEF CircleOK, CircleType, PendingEscrow
  <2> HIDE DEF id
  <2>5. /\ \A x \in D : t.escrows[x].status = "Pending" /\ t.escrows[x].proposal_id = id
        /\ \A x \in Addr \ D : t.escrows[x] = s.escrows[x]
    BY <1>1, <2>1, <2>3, <2>4, BecomeEscrow DEF pending, MemberStatus
  <2>6. Awaited(s, t, id, now, D, Cardinality(D), D)
    BY <1>1, <2>1, <2>2, <2>5 DEF Awaited
  <2>7. WaitOK(t)
    BY <2>6, WaitBatch DEF StoreOK
  <2> QED BY <2>7 DEF t
<1>2. CASE /\ t.escrows = [x \in Addr |->
                IF x \in paid_pending(s, k) THEN [s.escrows[x] EXCEPT !.status = "PendingPaid"]
                                            ELSE s.escrows[x]]
           /\ t.batches = s.batches
  <2>1. \A x \in paid_pending(s, k) : x \in Addr /\ s.escrows[x].status = "Pending"
    BY DEF paid_pending, WithStatus
  <2>2. \A x \in Addr : s.escrows[x] \in EscrowStatus
    BY DEF StoreOK, MembersOK
  <2> HIDE DEF t
  <2>3. NobodyWaits(s.escrows, t.escrows) /\ SameBatches(s.batches, t.batches)
    BY <1>2, <2>1, <2>2 DEF NobodyWaits, SameBatches, EscrowStatus
  <2>4. WaitOK(t)
    BY <2>3, WaitKept DEF StoreOK
  <2> QED BY <2>4 DEF t
<1>3. CASE t = s
  BY <1>3
<1> QED BY <1>1, <1>2, <1>3, EnforcedStore

LEMMA WaitChecked ==
  ASSUME NEW s, StoreOK(s), WaitOK(s), NEW k, CircleOK(k), NEW h \in Nat, now \in Nat,
         can_check_pending(s, k, h)
  PROVE  WaitOK(check_pending(s, k, h))
<1>1. StoreOK(check_pending_escrow(s, k, h)) /\ WaitOK(check_pending_escrow(s, k, h))
  BY PendingEscrowChecked, WaitEnforced
<1> QED BY <1>1, WaitConverted DEF check_pending

-----------------------------------------------------------------------------
\* WaitingCoversPending, action by action

LEMMA WaitSays == WaitOK(Store) <=> WaitingCoversPending
BY StoreShape DEF WaitOK, WaitingCoversPending, waiting, PendingIn

LEMMA CommitWaits ==
  ASSUME NEW t, WaitOK(t), Commit(t)
  PROVE  WaitOK(Store)'
<1>1. Store'.escrows = t.escrows /\ Store'.batches = t.batches
  BY DEF Store, Commit
<1> QED BY <1>1 DEF WaitOK, waiting

\* Nobody starts to wait, and no batch is created or removed.
LEMMA NobodyWaitsStep ==
  ASSUME IInv, WaitOK(Store), NobodyWaits(escrows, escrows'), SameBatches(batches, batches')
  PROVE  WaitOK(Store)'
<1>1. Store'.escrows = escrows' /\ Store'.batches = batches'
  BY DEF Store
<1>2. BatchesTyped(Store.batches)
  BY DEF IInv, StoreOK
<1>3. NobodyWaits(Store.escrows, Store'.escrows) /\ SameBatches(Store.batches, Store'.batches)
  BY <1>1, StoreShape
<1> QED BY <1>2, <1>3, WaitKept

\* A payment or a refund changes an amount.
LEMMA OnlyPaid ==
  ASSUME NEW es \in [Addr -> EscrowStatus], NEW a \in Addr, NEW paid
  PROVE  LET fs == [es EXCEPT ![a].paid = paid]
         IN /\ \A x \in Addr : /\ fs[x].status = es[x].status
                               /\ fs[x].proposal_id = es[x].proposal_id
                               /\ fs[x].claim_at = es[x].claim_at
            /\ \A x \in Addr : fs[x].paid = IF x = a THEN paid ELSE es[x].paid
            /\ \A x \in Addr : x # a => fs[x] = es[x]
<1> DEFINE fs == [es EXCEPT ![a].paid = paid]
<1>1. \A x \in Addr : x # a => fs[x] = es[x]
  OBVIOUS
<1>2. /\ fs[a].status = es[a].status /\ fs[a].proposal_id = es[a].proposal_id
      /\ fs[a].claim_at = es[a].claim_at /\ fs[a].paid = paid
  BY DEF EscrowStatus
<1> HIDE DEF fs
<1> QED BY <1>1, <1>2 DEF fs

LEMMA DepositWaits ==
  ASSUME IInv, WaitOK(Store), NEW a \in Addr, NEW amount \in Payments, DepositEscrow(a, amount)
  PROVE  WaitOK(Store)'
<1> DEFINE e == escrows[a]
           paid == e.paid + amount
           s == [Store EXCEPT !.escrows[a].paid = paid]
           complete == e.status = "Pending" /\ paid >= get_escrow(circle)
           t == [s EXCEPT !.escrows[a].status = "PendingPaid"]
<1>1. /\ e \in EscrowStatus /\ amount \in Nat /\ escrows \in [Addr -> EscrowStatus]
      /\ StoreOK(Store) /\ now \in Nat /\ height \in Nat
  BY InvariantSays, CircleAssumption DEF EscrowsOK, IInv, BlockOK
<1>2. paid \in Nat
  BY <1>1 DEF EscrowStatus
<1> HIDE DEF paid
<1>3. /\ StoreOK(s) /\ s.batches = batches
      /\ s.escrows = [escrows EXCEPT ![a].paid = paid]
  BY <1>1, <1>2, PayEscrow, StoreShape
<1> HIDE DEF s
<1>4. \A x \in Addr : /\ s.escrows[x].status = escrows[x].status
                      /\ s.escrows[x].proposal_id = escrows[x].proposal_id
  BY <1>1, <1>3, OnlyPaid
<1>5. WaitOK(s)
  <2>1. NobodyWaits(Store.escrows, s.escrows) /\ SameBatches(Store.batches, s.batches)
    BY <1>3, <1>4, StoreShape DEF NobodyWaits, SameBatches
  <2> QED BY <2>1, <1>1, WaitKept DEF StoreOK
<1>6. CASE Commit(s)
  BY <1>5, <1>6, CommitWaits
<1>7. CASE /\ complete
           /\ Commit(update_batch_after_escrow_paid(t, a, e.proposal_id, now, height))
  <2>1. s.escrows[a].status = "Pending" /\ s.escrows[a].proposal_id = e.proposal_id
    BY <1>4, <1>7
  <2>2. WaitOK(update_batch_after_escrow_paid(t, a, s.escrows[a].proposal_id, now, height))
    BY <1>1, <1>3, <1>5, <2>1, WaitUpdated
  <2> HIDE DEF t
  <2>3. WaitOK(update_batch_after_escrow_paid(t, a, e.proposal_id, now, height))
    BY <2>1, <2>2
  <2> QED BY <2>3, <1>7, CommitWaits
<1> QED BY <1>6, <1>7 DEF DepositEscrow, paid, s

\* Who leaves or is refunded waits no more.
LEMMA ReturnWaits ==
  ASSUME IInv, WaitOK(Store), NEW a \in Addr, ReturnEscrow(a)
  PROVE  WaitOK(Store)'
<1> DEFINE refund == refundable(escrows[a])
           s == [Store EXCEPT !.escrows[a].paid = @ - refund]
           t == remove_members(Store, {a}, height)
<1>1. /\ escrows[a].status \in {"Voting", "Leaving"}
      /\ Commit(IF refund = escrows[a].paid THEN t ELSE s)
  BY DEF ReturnEscrow
<1>2. /\ t.batches = batches /\ t.escrows[a] = NoEscrow
      /\ \A x \in Addr : x # a => t.escrows[x] = escrows[x]
  BY StoreShape DEF Store, StoreFields, remove_members, save_points
<1>3. /\ s.batches = batches /\ s.escrows[a].status = escrows[a].status
      /\ \A x \in Addr : x # a => s.escrows[x] = escrows[x]
  <2>1. escrows \in [Addr -> EscrowStatus]
    BY InvariantSays DEF EscrowsOK
  <2>2. s.escrows = [escrows EXCEPT ![a].paid = @ - refund] /\ s.batches = batches
    BY DEF Store
  <2> HIDE DEF s, refund
  <2> QED BY <2>1, <2>2, OnlyPaid
<1> HIDE DEF s, t, refund
<1>4. NobodyWaits(escrows, t.escrows) /\ NobodyWaits(escrows, s.escrows)
  BY <1>1, <1>2, <1>3 DEF NobodyWaits, NoEscrow
<1>5. NobodyWaits(escrows, escrows') /\ SameBatches(batches, batches')
  BY <1>1, <1>2, <1>3, <1>4 DEF Commit, SameBatches
<1> QED BY <1>5, NobodyWaitsStep

LEMMA LeaveWaits ==
  ASSUME IInv, WaitOK(Store), NEW a \in Addr, LeaveImmediately(a) \/ LeaveTrustedCircle(a)
  PROVE  WaitOK(Store)'
<1>1. CASE LeaveImmediately(a)
  <2>1. /\ escrows' = [x \in Addr |-> IF x \in {a} THEN NoEscrow ELSE escrows[x]]
        /\ batches' = batches
    BY <1>1, StoreShape
       DEF LeaveImmediately, Commit, Store, StoreFields, remove_members, save_points
  <2>2. NobodyWaits(escrows, escrows') /\ SameBatches(batches, batches')
    BY <2>1 DEF NobodyWaits, SameBatches, NoEscrow
  <2> QED BY <2>2, NobodyWaitsStep
<1>2. CASE LeaveTrustedCircle(a)
  <2> DEFINE t == trigger_long_leave(Store, {a})
  <2>1. {a} \in SUBSET Members(Store) /\ Commit(t)
    BY <1>2, StoreShape DEF LeaveTrustedCircle, Members
  <2>2. t.escrows = [x \in Addr |-> IF x \in {a} THEN Become(escrows[x], "Leaving", 0, claim_time)
                                                 ELSE escrows[x]]
    BY <2>1, Leavers, StoreShape DEF IInv
  <2>3. t.batches = batches
    BY StoreShape DEF trigger_long_leave, StoreFields, set_status, strip_points, save_points
  <2> HIDE DEF t
  <2>4. Become(escrows[a], "Leaving", 0, claim_time).status = "Leaving"
    <3>1. escrows[a] \in EscrowStatus /\ claim_time \in Nat
      BY ClaimTime, InvariantSays DEF EscrowsOK
    <3>2. "Leaving" \in MemberStatus /\ 0 \in Nat
      BY DEF MemberStatus
    <3> QED BY <3>1, <3>2, BecomeEscrow
  <2>5. NobodyWaits(escrows, escrows') /\ SameBatches(batches, batches')
    BY <2>1, <2>2, <2>3, <2>4 DEF Commit, NobodyWaits, SameBatches
  <2> QED BY <2>5, NobodyWaitsStep
<1> QED BY <1>1, <1>2

\* The batch of a proposal waits for everybody it lists, not only the new ones.
LEMMA VotersCounted ==
  ASSUME NEW q \in Seq(Addr)
  PROVE  Cardinality({q[i] : i \in DOMAIN q}) <= Len(q)
<1> DEFINE A == {q[i] : i \in DOMAIN q}
<1>1. Len(q) \in Nat /\ DOMAIN q = 1..Len(q) /\ q \in [1..Len(q) -> Addr]
  BY LenProperties
<1>2. q \in Surjection(1..Len(q), A)
  BY <1>1 DEF Surjection
<1>3. IsFiniteSet(1..Len(q)) /\ Cardinality(1..Len(q)) = Len(q)
  BY <1>1, FS_Interval
<1>4. Cardinality(A) <= Cardinality(1..Len(q))
  BY <1>2, <1>3, FS_Surjection
<1> QED BY <1>3, <1>4

LEMMA AddVotingWaits ==
  ASSUME IInv, WaitOK(Store), NEW id \in DOMAIN proposals, ExecuteAddVotingMembers(id)
  PROVE  WaitOK(Store)'
<1> DEFINE content == proposals[id].content
           voters == voters_of(content)
           added == {a \in voters : escrows[a].status \in {"None", "NonVoting"}}
           count == Len(content.voters)
           grace == now + voting_period_secs(circle.rules)
           s == create_batch(Store, id, grace, voters, count)
           t == add_members(s, added, "Pending", id, height)
<1>1. content.kind = "AddVotingMembers"
  BY DEF ExecuteAddVotingMembers, Executable
<1>2. content.voters \in Seq(Addr) /\ id \in Nat
  BY <1>1, ExecutedContent DEF IsProposalContent
<1>3. /\ voters \in SUBSET Addr /\ count \in Nat /\ Cardinality(voters) <= count
      /\ added \in SUBSET voters
  BY <1>2, LenProperties, ElementOfSeq, VotersCounted DEF voters_of
<1>4. (count > 0 => id \notin DOMAIN batches) /\ Commit(t)
  BY StoreShape DEF ExecuteAddVotingMembers, can_create_batch
<1>5. Cardinality(added) \in Nat /\ Cardinality(added) <= Cardinality(voters)
  BY <1>3, AddrSubsets, FS_Subset
<1>6. Cardinality(added) <= count
  <2>1. Cardinality(voters) \in Nat
    BY <1>3, AddrSubsets
  <2> HIDE DEF voters, added, count
  <2> QED BY <2>1, <1>3, <1>5
<1> HIDE DEF voters, count, grace, added
<1>7. /\ DOMAIN s = StoreFields /\ s.escrows = escrows
      /\ s.batches = with_batch(batches, id, grace, voters, count)
  BY StoreShape DEF create_batch, with_batch, Store, StoreFields
<1> HIDE DEF s
<1>8. /\ t.escrows = [x \in Addr |-> IF x \in added THEN Become(NoEscrow, "Pending", id, 0)
                                                  ELSE escrows[x]]
      /\ t.batches = s.batches
  BY <1>7 DEF StoreFields, add_members, save_points
<1> HIDE DEF t
<1>9. /\ Become(NoEscrow, "Pending", id, 0).status = "Pending"
      /\ Become(NoEscrow, "Pending", id, 0).proposal_id = id
  BY DEF NoEscrow, Become
<1>10. Awaited(Store, t, id, grace, voters, count, added)
  BY <1>3, <1>4, <1>6, <1>7, <1>8, <1>9, StoreShape DEF Awaited
<1>11. WaitOK(t)
  BY <1>10, WaitBatch DEF IInv, StoreOK
<1> QED BY <1>4, <1>11, CommitWaits

LEMMA AddRemoveWaits ==
  ASSUME IInv, WaitOK(Store), NEW id, NEW add, NEW remove, AddRemove(id, add, remove)
  PROVE  WaitOK(Store)'
<1> DEFINE added == {a \in add : points[a] = ABSENT}
           s == add_members(Store, added, "NonVoting", 0, height)
           gone == remove \cap Members(s)
           t == remove_members(s, gone, height)
<1>1. Commit(t)
  BY DEF AddRemove
<1> HIDE DEF added
<1>2. /\ DOMAIN s = StoreFields /\ s.batches = batches
      /\ s.escrows = [x \in Addr |-> IF x \in added THEN Become(NoEscrow, "NonVoting", 0, 0)
                                                    ELSE escrows[x]]
  BY StoreShape DEF Store, StoreFields, add_members, save_points
<1> HIDE DEF s, gone
<1>3. /\ t.escrows = [x \in Addr |-> IF x \in gone THEN NoEscrow ELSE s.escrows[x]]
      /\ t.batches = s.batches
  BY <1>2 DEF StoreFields, remove_members, save_points
<1> HIDE DEF t
<1>4. NoEscrow.status = "None" /\ Become(NoEscrow, "NonVoting", 0, 0).status = "NonVoting"
  BY DEF NoEscrow, Become
<1>5. NobodyWaits(escrows, escrows') /\ SameBatches(batches, batches')
  BY <1>1, <1>2, <1>3, <1>4 DEF Commit, NobodyWaits, SameBatches
<1> QED BY <1>5, NobodyWaitsStep

\* A punishment: who it names, what it leaves them, who is kicked out or demoted.
named(id) == DOMAIN proposals[id].content.punishments
left_paid(id, a) == escrow_remaining(escrows[a].paid, proposals[id].content.punishments[a])
kicked_out(id) == {a \in named(id) : proposals[id].content.punishments[a].kick_out}
demoted_by(id) == {a \in named(id) \ kicked_out(id) : left_paid(id, a) < get_escrow(circle)}

LEMMA Punished ==
  ASSUME IInv, NEW id \in DOMAIN proposals, ExecutePunishMembers(id)
  PROVE  /\ named(id) \in SUBSET Addr
         /\ \A a \in named(id) :
              /\ proposals[id].content.punishments[a] \in Punishment
              /\ left_paid(id, a) \in Nat
              /\ escrows[a].status \notin {"None", "NonVoting"}
         /\ \A a \in kicked_out(id) :
              escrows'[a].status = "Leaving" /\ escrows'[a].claim_at = claim_time
         /\ \A a \in demoted_by(id) :
              escrows'[a].status = "Pending" /\ escrows'[a].proposal_id = id
         /\ \A a \in Addr \ (kicked_out(id) \cup demoted_by(id)) :
              /\ escrows'[a].status = escrows[a].status
              /\ escrows'[a].proposal_id = escrows[a].proposal_id
              /\ escrows'[a].claim_at = escrows[a].claim_at
         /\ \A a \in Addr :
              escrows'[a].paid = IF a \in named(id) THEN left_paid(id, a) ELSE escrows[a].paid
         /\ batches' = with_batch(batches, id, now, demoted_by(id), Cardinality(demoted_by(id)))
         /\ Cardinality(demoted_by(id)) > 0 => id \notin DOMAIN batches
<1> DEFINE punishments == proposals[id].content.punishments
           N == named(id)
           K == kicked_out(id)
           D == demoted_by(id)
           voters == WithStatus(Store, "Voting")
           es == [a \in Addr |-> IF a \in N THEN [escrows[a] EXCEPT !.paid = left_paid(id, a)]
                                           ELSE escrows[a]]
           slashed == [Store EXCEPT !.escrows = es]
           t == trigger_long_leave(slashed, K)
           u == set_status(strip_points(t, D \cap voters, height), D, "Pending", id, 0)
           v == create_batch(u, id, now, D, Cardinality(D))
<1>1. /\ StoreOK(Store) /\ escrows \in [Addr -> EscrowStatus]
  BY InvariantSays DEF IInv, EscrowsOK
<1>2. proposals[id].content.kind = "PunishMembers"
  BY DEF ExecutePunishMembers, Executable
<1>3. N \in SUBSET Addr /\ (\A a \in N : punishments[a] \in Punishment) /\ id \in Nat
  BY <1>2, ExecutedContent DEF IsProposalContent, named
<1>4. /\ \A a \in N : escrows[a].status \notin {"None", "NonVoting"}
      /\ Commit(v) /\ can_create_batch(u, id, Cardinality(D))
  BY DEF ExecutePunishMembers, named, left_paid, kicked_out, demoted_by
<1>5. K \in SUBSET N /\ D \in SUBSET N /\ K \cap D = {}
  BY DEF kicked_out, demoted_by
<1>6. \A a \in N : left_paid(id, a) \in Nat
  BY <1>1, <1>3, RemainingEscrow DEF EscrowStatus, left_paid
<1> HIDE DEF punishments, N, K, D
<1>7. /\ es \in [Addr -> EscrowStatus]
      /\ \A a \in Addr : /\ es[a].status = escrows[a].status
                          /\ es[a].proposal_id = escrows[a].proposal_id
                          /\ es[a].claim_at = escrows[a].claim_at
                          /\ es[a].paid = IF a \in N THEN left_paid(id, a) ELSE escrows[a].paid
  BY <1>1, <1>3, <1>6 DEF EscrowStatus
<1> HIDE DEF es
<1>8. StoreOK(slashed) /\ slashed.escrows = es /\ slashed.batches = batches
  BY <1>1, <1>7, ReplaceEscrows, StoreShape
<1> HIDE DEF slashed
<1>9. K \in SUBSET Members(slashed)
  BY <1>3, <1>4, <1>5, <1>7, <1>8 DEF Members
<1>10. /\ DOMAIN t = StoreFields
       /\ t.escrows = [x \in Addr |-> IF x \in K THEN Become(es[x], "Leaving", 0, claim_time)
                                                 ELSE es[x]]
       /\ t.batches = batches
  <2>1. DOMAIN slashed = StoreFields
    BY <1>8 DEF StoreOK, MembersOK
  <2>2. t.batches = batches
    BY <2>1, <1>8 DEF trigger_long_leave, StoreFields, set_status, strip_points, save_points
  <2> HIDE DEF t
  <2>3. StoreOK(t) /\ t.escrows = [x \in Addr |->
          IF x \in K THEN Become(es[x], "Leaving", 0, claim_time) ELSE es[x]]
    BY <1>8, <1>9, Leavers DEF t
  <2> QED BY <2>2, <2>3 DEF StoreOK, MembersOK
<1> HIDE DEF t
<1>11. /\ DOMAIN u = StoreFields /\ u.escrows = pending(t.escrows, D, id) /\ u.batches = t.batches
  BY <1>10, DemotedStore
<1> HIDE DEF u, voters
<1>12. v.escrows = u.escrows /\ v.batches = with_batch(u.batches, id, now, D, Cardinality(D))
  BY <1>11, BatchedStore
<1> HIDE DEF v
<1>13. escrows' = v.escrows /\ batches' = v.batches
  BY <1>4 DEF Commit
<1>14. /\ "Leaving" \in MemberStatus /\ "Pending" \in MemberStatus
       /\ 0 \in Nat /\ claim_time \in Nat
  BY ClaimTime DEF MemberStatus
<1>15. \A x \in Addr : escrows'[x] =
         IF x \in D THEN Become(es[x], "Pending", id, 0)
         ELSE IF x \in K THEN Become(es[x], "Leaving", 0, claim_time) ELSE es[x]
  BY <1>5, <1>10, <1>11, <1>12, <1>13 DEF pending
<1>16. \A x \in Addr :
         /\ Become(es[x], "Pending", id, 0).status = "Pending"
         /\ Become(es[x], "Pending", id, 0).proposal_id = id
         /\ Become(es[x], "Pending", id, 0).paid = es[x].paid
         /\ Become(es[x], "Leaving", 0, claim_time).status = "Leaving"
         /\ Become(es[x], "Leaving", 0, claim_time).claim_at = claim_time
         /\ Become(es[x], "Leaving", 0, claim_time).paid = es[x].paid
  BY <1>3, <1>7, <1>14, BecomeEscrow
<1>17. /\ \A a \in K : escrows'[a].status = "Leaving" /\ escrows'[a].claim_at = claim_time
       /\ \A a \in D : escrows'[a].status = "Pending" /\ escrows'[a].proposal_id = id
       /\ \A a \in Addr \ (K \cup D) :
              /\ escrows'[a].status = escrows[a].status
              /\ escrows'[a].proposal_id = escrows[a].proposal_id
              /\ escrows'[a].claim_at = escrows[a].claim_at
       /\ \A a \in Addr :
              escrows'[a].paid = IF a \in N THEN left_paid(id, a) ELSE escrows[a].paid
  BY <1>3, <1>5, <1>7, <1>15, <1>16
<1>18. /\ batches' = with_batch(batches, id, now, D, Cardinality(D))
       /\ Cardinality(D) > 0 => id \notin DOMAIN batches
  BY <1>4, <1>10, <1>11, <1>12, <1>13 DEF can_create_batch
<1> QED BY <1>3, <1>4, <1>6, <1>17, <1>18 DEF N, K, D, punishments

LEMMA PunishWaits ==
  ASSUME IInv, WaitOK(Store), NEW id \in DOMAIN proposals, ExecutePunishMembers(id)
  PROVE  WaitOK(Store)'
<1> DEFINE D == demoted_by(id)
           t == Store'
<1>1. D \in SUBSET Addr /\ Cardinality(D) \in Nat
  BY Punished, AddrSubsets DEF demoted_by
<1>2. t.escrows = escrows' /\ t.batches = batches'
  BY DEF Store
<1>3. /\ Cardinality(D) > 0 => id \notin DOMAIN batches
      /\ batches' = with_batch(batches, id, now, D, Cardinality(D))
      /\ \A x \in D : escrows'[x].status = "Pending" /\ escrows'[x].proposal_id = id
      /\ \A x \in Addr \ D :
           \/ escrows'[x].status = "Leaving"
           \/ /\ escrows'[x].status = escrows[x].status
              /\ escrows'[x].proposal_id = escrows[x].proposal_id
  BY Punished
<1> HIDE DEF D, t
<1>4. Awaited(Store, t, id, now, D, Cardinality(D), D)
  BY <1>1, <1>2, <1>3, StoreShape DEF Awaited
<1>5. WaitOK(t)
  BY <1>4, WaitBatch DEF IInv, StoreOK
<1> QED BY <1>5 DEF t

\* The check_pending of CheckPending, and the one in Propose.
LEMMA CheckedWaits ==
  ASSUME IInv, WaitOK(Store), CheckPending \/ \E a \in Addr, content \in Contents : Propose(a, content)
  PROVE  WaitOK(Store)'
<1>1. /\ StoreOK(Store) /\ CircleOK(circle) /\ now \in Nat /\ height \in Nat
      /\ height > 0 => height - 1 \in Nat
  BY DEF IInv, BlockOK
<1>2. CASE CheckPending
  <2>1. WaitOK(check_pending(Store, circle, height))
    BY <1>1, <1>2, WaitChecked DEF CheckPending
  <2> QED BY <2>1, <1>2, CommitWaits DEF CheckPending
<1>3. ASSUME NEW a \in Addr, NEW content \in Contents, Propose(a, content)
      PROVE  WaitOK(Store)'
  <2>1. CASE height > 0
    <3>1. /\ can_check_pending(Store, circle, height - 1)
          /\ Commit(check_pending(Store, circle, height - 1))
      BY <1>3, <2>1 DEF Propose
    <3>2. WaitOK(check_pending(Store, circle, height - 1))
      BY <1>1, <2>1, <3>1, WaitChecked
    <3> QED BY <3>1, <3>2, CommitWaits
  <2>2. CASE ~(height > 0)
    <3>1. Commit(Store)
      BY <1>3, <2>2 DEF Propose
    <3> QED BY <3>1, CommitWaits
  <2> QED BY <2>1, <2>2
<1> QED BY <1>2, <1>3

LEMMA ExecuteWaits ==
  ASSUME IInv, WaitOK(Store), NEW id \in DOMAIN proposals, Execute(id)
  PROVE  WaitOK(Store)'
<1>1. CASE ExecuteEditTrustedCircle(id)
  <2>1. escrows' = escrows /\ batches' = batches
    BY <1>1 DEF ExecuteEditTrustedCircle, store_vars
  <2> QED BY <2>1, NobodyWaitsStep DEF NobodyWaits, SameBatches
<1>2. CASE ExecuteAddVotingMembers(id)
  BY <1>2, AddVotingWaits
<1>3. CASE \/ ExecuteAddRemoveNonVotingMembers(id)
           \/ ExecuteWhitelistContract(id) \/ ExecuteRemoveContract(id)
  <2>1. \E add, remove : AddRemove(id, add, remove)
    BY <1>3 DEF ExecuteAddRemoveNonVotingMembers, ExecuteWhitelistContract,
                ExecuteRemoveContract, whitelist_contract_addr, remove_contract_addr
  <2> QED BY <2>1, AddRemoveWaits
<1>4. CASE ExecutePunishMembers(id)
  BY <1>4, PunishWaits
<1> QED BY <1>1, <1>2, <1>3, <1>4 DEF Execute

LEMMA NextWaits == IInv /\ WaitOK(Store) /\ [Next]_vars => WaitOK(Store)'
<1> SUFFICES ASSUME IInv, WaitOK(Store), [Next]_vars PROVE WaitOK(Store)'
  OBVIOUS
<1>1. ASSUME NEW a \in Addr, NEW amount \in Payments, DepositEscrow(a, amount)
      PROVE  WaitOK(Store)'
  BY <1>1, DepositWaits
<1>2. ASSUME NEW a \in Addr,
             ReturnEscrow(a) \/ LeaveImmediately(a) \/ LeaveTrustedCircle(a)
      PROVE  WaitOK(Store)'
  BY <1>2, ReturnWaits, LeaveWaits
<1>3. ASSUME CheckPending \/ \E a \in Addr, content \in Contents : Propose(a, content)
      PROVE  WaitOK(Store)'
  BY <1>3, CheckedWaits
<1>4. ASSUME NEW id \in DOMAIN proposals, Execute(id)
      PROVE  WaitOK(Store)'
  BY <1>4, ExecuteWaits
<1>5. CASE escrows' = escrows /\ batches' = batches
  BY <1>5, NobodyWaitsStep DEF NobodyWaits, SameBatches
<1>6. ASSUME NEW id \in DOMAIN proposals,
             Close(id) \/ \E a \in Addr, vote \in CastVotes : Vote(a, id, vote)
      PROVE  escrows' = escrows /\ batches' = batches
  BY <1>6 DEF Close, Vote, store_vars
<1>7. ASSUME \/ \E a \in Addr : WithdrawRewards(a)
             \/ DistributeRewards \/ NextBlock \/ UNCHANGED vars
             \/ \E amount \in Rewards : SendRewards(amount)
      PROVE  escrows' = escrows /\ batches' = batches
  BY <1>7 DEF WithdrawRewards, DistributeRewards, NextBlock, SendRewards, vars, store_vars
<1> QED BY <1>1, <1>2, <1>3, <1>4, <1>5, <1>6, <1>7 DEF Next

\* instantiate: a voter who paid, some non-voting members, no batch.
LEMMA InitStore ==
  ASSUME Init
  PROVE  /\ \A x \in Addr : escrows[x].status \in {"None", "NonVoting", "Voting"}
         /\ batches = <<>> /\ DOMAIN batches = {}
         /\ distribution = InitDistribution
         /\ \E amount \in Payments :
              /\ amount >= circle.escrow_amount
              /\ bank = [x \in {denom, reward_denom} |-> IF x = denom THEN amount ELSE 0]
              /\ \A x \in Addr :
                   /\ escrows[x].paid = IF x = Creator THEN amount ELSE 0
                   /\ x # Creator => escrows[x].status \in {"None", "NonVoting"}
                   /\ x = Creator => escrows[x].status = "Voting"
<1> DEFINE empty == [escrows |-> [a \in Addr |-> NoEscrow], points |-> [a \in Addr |-> ABSENT],
                     changelog |-> [a \in Addr |-> <<>>], total |-> 0,
                     batches |-> <<>>, distribution |-> InitDistribution]
           founded == [save_points(empty, {Creator}, VOTING_POINTS, InitialHeight)
                         EXCEPT !.total = VOTING_POINTS]
           creator(amount) == Become([NoEscrow EXCEPT !.paid = amount], "Voting", 0, 0)
           first(amount) == [founded EXCEPT !.escrows[Creator] = creator(amount)]
           s(amount) == add_members(first(amount), InitialMembers \ {Creator},
                                    "NonVoting", 0, InitialHeight)
<1>1. PICK amount \in Payments :
        /\ escrows = s(amount).escrows /\ batches = s(amount).batches
        /\ distribution = s(amount).distribution
        /\ amount >= circle.escrow_amount
        /\ bank = [x \in {denom, reward_denom} |-> IF x = denom THEN amount ELSE 0]
  BY DEF Init
<1> DEFINE f == first(amount)
<1>2. /\ DOMAIN f = StoreFields /\ f.batches = <<>> /\ f.distribution = InitDistribution
      /\ f.escrows = [a \in Addr |-> IF a = Creator THEN creator(amount) ELSE NoEscrow]
  BY CircleAssumption DEF save_points, StoreFields
<1> HIDE DEF f
<1> DEFINE A == InitialMembers \ {Creator}
           t == add_members(f, A, "NonVoting", 0, InitialHeight)
<1>3. t.escrows = [x \in Addr |-> IF x \in A THEN Become(NoEscrow, "NonVoting", 0, 0)
                                          ELSE f.escrows[x]]
  BY <1>2 DEF add_members, save_points, StoreFields
<1>4. t.batches = f.batches /\ t.distribution = f.distribution
  BY <1>2 DEF add_members, save_points, StoreFields
<1>5. escrows = t.escrows /\ batches = t.batches /\ distribution = t.distribution
  BY <1>1 DEF f
<1> HIDE DEF t, A, first, founded, empty
<1>6. /\ creator(amount).status = "Voting" /\ NoEscrow.status = "None"
      /\ creator(amount).paid = amount /\ NoEscrow.paid = 0
      /\ Become(NoEscrow, "NonVoting", 0, 0).status = "NonVoting"
      /\ Become(NoEscrow, "NonVoting", 0, 0).paid = 0
  BY DEF NoEscrow, Become
<1>61. Creator \notin A
  BY DEF A
<1> HIDE DEF creator
<1>7. \A x \in Addr : /\ x = Creator => escrows[x] = creator(amount)
                      /\ x # Creator => escrows[x] \in {NoEscrow, Become(NoEscrow, "NonVoting", 0, 0)}
  BY <1>2, <1>3, <1>5, <1>61
<1>8. DOMAIN <<>> = {}
  OBVIOUS
<1>9. \A x \in Addr : /\ escrows[x].paid = IF x = Creator THEN amount ELSE 0
                      /\ x # Creator => escrows[x].status \in {"None", "NonVoting"}
                      /\ x = Creator => escrows[x].status = "Voting"
  BY <1>6, <1>7
<1> QED BY <1>1, <1>2, <1>4, <1>5, <1>8, <1>9

LEMMA InitWaits == Init => WaitOK(Store)
BY InitStore, StoreShape DEF WaitOK

\* A batch waits for at least the members that still have to pay, and every
\* pending member is listed by the batch its escrow names.
THEOREM BatchesWait == Spec => []WaitingCoversPending
<1>1. Init => IInv /\ WaitOK(Store)
  BY InitHolds, InitWaits
<1>2. IInv /\ WaitOK(Store) /\ [Next]_vars => (IInv /\ WaitOK(Store))'
  BY NextKeeps, NextWaits
<1>3. WaitOK(Store) => WaitingCoversPending
  BY WaitSays
<1> QED BY <1>1, <1>2, <1>3, PTL DEF Spec

-----------------------------------------------------------------------------
\* BatchIdsFresh: an id is the id of an executed proposal, and is used once

IsExecuted(id) == id \in DOMAIN proposals /\ proposals[id].status = "Executed"

LEMMA ProposalsGrow == IInv /\ [Next]_vars => DOMAIN proposals \subseteq DOMAIN proposals'
<1> SUFFICES ASSUME IInv, [Next]_vars PROVE DOMAIN proposals \subseteq DOMAIN proposals'
  OBVIOUS
<1>1. ASSUME NEW a \in Addr, NEW content \in Contents, Propose(a, content)
      PROVE  DOMAIN proposals \subseteq DOMAIN proposals'
  <2>1. PICK q : proposals' = Append(proposals, q)
    BY <1>1 DEF Propose, create_proposal
  <2>2. proposals \in Seq(Proposal)
    BY DEF IInv, ProposalsOK
  <2> QED BY <2>1, <2>2, AppendProperties, LenProperties
<1>2. ASSUME NEW a \in Addr, LeaveTrustedCircle(a)
      PROVE  DOMAIN proposals \subseteq DOMAIN proposals'
  BY <1>2 DEF LeaveTrustedCircle, adjust_open_proposals
<1>3. ASSUME NEW id \in DOMAIN proposals, Execute(id)
      PROVE  DOMAIN proposals \subseteq DOMAIN proposals'
  <2>1. \/ proposals' = executed(id)
        \/ \E L : proposals' = adjust_open_proposals(executed(id), L)
    BY <1>3 DEF Execute, ExecuteEditTrustedCircle, ExecuteAddVotingMembers,
         ExecuteAddRemoveNonVotingMembers, ExecuteWhitelistContract, ExecuteRemoveContract,
         whitelist_contract_addr, remove_contract_addr, AddRemove, ExecutePunishMembers
  <2>2. DOMAIN executed(id) = DOMAIN proposals
    BY DEF executed
  <2> QED BY <2>1, <2>2 DEF adjust_open_proposals
<1>4. ASSUME NEW id \in DOMAIN proposals,
             Close(id) \/ \E a \in Addr, vote \in CastVotes : Vote(a, id, vote)
      PROVE  DOMAIN proposals \subseteq DOMAIN proposals'
  BY <1>4 DEF Close, Vote
<1>5. CASE UNCHANGED proposals
  BY <1>5
<1>6. ASSUME \/ \E a \in Addr : \/ \E amount \in Payments : DepositEscrow(a, amount)
                               \/ ReturnEscrow(a) \/ LeaveImmediately(a) \/ WithdrawRewards(a)
             \/ CheckPending \/ DistributeRewards \/ NextBlock \/ UNCHANGED vars
             \/ \E amount \in Rewards : SendRewards(amount)
      PROVE  UNCHANGED proposals
  BY <1>6 DEF DepositEscrow, ReturnEscrow, LeaveImmediately, WithdrawRewards, CheckPending,
       DistributeRewards, NextBlock, SendRewards, vars, proposal_vars
<1> QED BY <1>1, <1>2, <1>3, <1>4, <1>5, <1>6 DEF Next

\* What is executed stays so.
LEMMA ExecutedStays ==
  ASSUME IInv, [Next]_vars, NEW id, IsExecuted(id)
  PROVE  IsExecuted(id)'
BY NextAdvances, ProposalsGrow DEF IsExecuted, AllAdvance, Advances

\* A step that may use the id of the proposal it executes.
LEMMA FreshStep ==
  ASSUME IInv, [Next]_vars, BatchIdsFresh, circle' = circle, NEW id,
         DOMAIN batches' \subseteq DOMAIN batches \cup {id}, ~IsExecuted(id), IsExecuted(id)'
  PROVE  BatchIdsFresh'
<1> DEFINE pending_id == circle.escrow_pending.proposal_id
<1>1. \A x \in DOMAIN batches : IsExecuted(x)
  BY DEF BatchIdsFresh, IsExecuted
<1>2. circle.escrow_pending # NoPending => pending_id \notin DOMAIN batches /\ IsExecuted(pending_id)
  BY DEF BatchIdsFresh, IsExecuted
<1>3. \A x : IsExecuted(x) => IsExecuted(x)'
  BY ExecutedStays
<1>4. \A x \in DOMAIN batches' : IsExecuted(x)'
  BY <1>1, <1>3
<1>5. circle.escrow_pending # NoPending =>
        pending_id \notin DOMAIN batches' /\ IsExecuted(pending_id)'
  BY <1>2, <1>3
<1> QED BY <1>4, <1>5 DEF BatchIdsFresh, IsExecuted

LEMMA SameBatchIds ==
  ASSUME IInv, [Next]_vars, BatchIdsFresh, circle' = circle, DOMAIN batches' = DOMAIN batches
  PROVE  BatchIdsFresh'
<1> DEFINE pending_id == circle.escrow_pending.proposal_id
<1>1. \A x \in DOMAIN batches' : IsExecuted(x)'
  BY ExecutedStays DEF BatchIdsFresh, IsExecuted
<1>2. circle.escrow_pending # NoPending =>
        pending_id \notin DOMAIN batches' /\ IsExecuted(pending_id)'
  BY ExecutedStays DEF BatchIdsFresh, IsExecuted
<1> QED BY <1>1, <1>2 DEF BatchIdsFresh, IsExecuted

\* The id of a proposal that is being executed is not used yet.
LEMMA ExecutionIsNew ==
  ASSUME IInv, NEW id \in DOMAIN proposals, Execute(id)
  PROVE  ~IsExecuted(id)
BY DEF IsExecuted, Execute, ExecuteEditTrustedCircle, ExecuteAddVotingMembers,
     ExecuteAddRemoveNonVotingMembers, ExecuteWhitelistContract, ExecuteRemoveContract,
     ExecutePunishMembers, Executable

LEMMA ExecutionRecorded ==
  ASSUME IInv, [Next]_vars, NEW id \in DOMAIN proposals, Execute(id)
  PROVE  IsExecuted(id)'
<1>1. proposals[id] \in Proposal
  BY InvariantSays
<1>2. /\ DOMAIN executed(id) = DOMAIN proposals
      /\ executed(id)[id].status = "Executed"
  BY <1>1 DEF executed, Proposal
<1>3. \/ proposals' = executed(id)
      \/ \E L : proposals' = adjust_open_proposals(executed(id), L)
  BY DEF Execute, ExecuteEditTrustedCircle, ExecuteAddVotingMembers,
       ExecuteAddRemoveNonVotingMembers, ExecuteWhitelistContract, ExecuteRemoveContract,
       whitelist_contract_addr, remove_contract_addr, AddRemove, ExecutePunishMembers
<1>4. \A L : /\ DOMAIN adjust_open_proposals(executed(id), L) = DOMAIN executed(id)
            /\ adjust_open_proposals(executed(id), L)[id] = executed(id)[id]
  BY <1>2 DEF adjust_open_proposals
<1> QED BY <1>2, <1>3, <1>4 DEF IsExecuted

\* check_pending uses the id of the pending escrow, which it takes.
LEMMA CheckedBatches ==
  ASSUME NEW s, StoreOK(s), NEW k, CircleOK(k), NEW h \in Nat, now \in Nat
  PROVE  LET t == check_pending(s, k, h)
         IN /\ DOMAIN t.batches \subseteq DOMAIN s.batches \cup {k.escrow_pending.proposal_id}
            /\ ~escrow_due(k) => DOMAIN t.batches = DOMAIN s.batches
<1> DEFINE u == check_pending_escrow(s, k, h)
           t == check_pending(s, k, h)
           id == k.escrow_pending.proposal_id
           D == short_voters(s, k)
<1>1. StoreOK(u)
  BY PendingEscrowChecked
<1>2. t = convert_all_paid_members_to_voters(u, ready_batches(u, now), h)
  BY DEF check_pending
<1>3. t.batches = flagged(u.batches, ready_batches(u, now))
  BY <1>1, <1>2, ConvertedStore
<1>4. DOMAIN t.batches = DOMAIN u.batches
  BY <1>3 DEF flagged
<1>5. \/ escrow_due(k) /\ u.batches = with_batch(s.batches, id, now, D, Cardinality(D))
      \/ u.batches = s.batches
  BY EnforcedStore
<1>6. DOMAIN with_batch(s.batches, id, now, D, Cardinality(D)) \subseteq DOMAIN s.batches \cup {id}
  BY DEF with_batch
<1> HIDE DEF u, t, D, id
<1>7. /\ DOMAIN t.batches \subseteq DOMAIN s.batches \cup {id}
      /\ ~escrow_due(k) => DOMAIN t.batches = DOMAIN s.batches
  BY <1>4, <1>5, <1>6
<1> QED BY <1>7 DEF t, id

LEMMA CheckedFresh ==
  ASSUME IInv, [Next]_vars, BatchIdsFresh, NEW h \in Nat,
         Commit(check_pending(Store, circle, h)), circle' = enforce_escrow(circle)
  PROVE  BatchIdsFresh'
<1> DEFINE id == circle.escrow_pending.proposal_id
<1>1. /\ DOMAIN batches' \subseteq DOMAIN batches \cup {id}
      /\ ~escrow_due(circle) => DOMAIN batches' = DOMAIN batches
  BY CheckedBatches, StoreShape DEF IInv, BlockOK, Commit
<1>2. CASE escrow_due(circle)
  <2>1. circle'.escrow_pending = NoPending
    BY <1>2 DEF enforce_escrow, IInv, CircleOK, CircleType
  <2>2. \A x \in DOMAIN batches \cup {id} : IsExecuted(x)
    BY <1>2 DEF BatchIdsFresh, IsExecuted, escrow_due
  <2>3. \A x \in DOMAIN batches' : IsExecuted(x)'
    BY <1>1, <2>2, ExecutedStays
  <2> QED BY <2>1, <2>3 DEF BatchIdsFresh, IsExecuted
<1>3. CASE ~escrow_due(circle)
  <2>1. circle' = circle
    BY <1>3 DEF enforce_escrow
  <2> QED BY <1>1, <1>3, <2>1, SameBatchIds
<1> QED BY <1>2, <1>3

LEMMA ProposeFresh ==
  ASSUME IInv, [Next]_vars, BatchIdsFresh, NEW a \in Addr, NEW content \in Contents,
         Propose(a, content)
  PROVE  BatchIdsFresh'
<1>1. CASE height > 0
  <2>1. /\ Commit(check_pending(Store, circle, height - 1)) /\ circle' = enforce_escrow(circle)
        /\ height - 1 \in Nat
    BY <1>1 DEF Propose, IInv, BlockOK
  <2> QED BY <2>1, CheckedFresh
<1>2. CASE ~(height > 0)
  <2>1. circle' = circle /\ batches' = batches
    BY <1>2, StoreShape DEF Propose, Commit
  <2> QED BY <2>1, SameBatchIds
<1> QED BY <1>1, <1>2

\* An edit may leave its own id as that of the pending escrow.
LEMMA EditFresh ==
  ASSUME IInv, [Next]_vars, BatchIdsFresh, NEW id \in DOMAIN proposals,
         ExecuteEditTrustedCircle(id)
  PROVE  BatchIdsFresh'
<1> DEFINE adj == proposals[id].content.adjustments
<1>1. circle' = apply_adjustments(circle, adj, id) /\ batches' = batches
  BY DEF ExecuteEditTrustedCircle, store_vars
<1>2. ~IsExecuted(id) /\ IsExecuted(id)'
  BY ExecutionIsNew, ExecutionRecorded DEF Execute
<1>3. \/ circle'.escrow_pending = circle.escrow_pending
      \/ circle'.escrow_pending.proposal_id = id
  BY <1>1 DEF apply_adjustments
<1>4. \A x \in DOMAIN batches : IsExecuted(x) /\ IsExecuted(x)'
  BY ExecutedStays DEF BatchIdsFresh, IsExecuted
<1>5. CASE circle'.escrow_pending = circle.escrow_pending
  <2>1. circle'.escrow_pending # NoPending =>
          /\ circle'.escrow_pending.proposal_id \notin DOMAIN batches
          /\ IsExecuted(circle.escrow_pending.proposal_id)'
    BY <1>5, ExecutedStays DEF BatchIdsFresh, IsExecuted
  <2> QED BY <1>1, <1>4, <2>1 DEF BatchIdsFresh, IsExecuted
<1>6. CASE circle'.escrow_pending.proposal_id = id
  BY <1>1, <1>2, <1>4, <1>6 DEF BatchIdsFresh, IsExecuted
<1> QED BY <1>3, <1>5, <1>6

LEMMA ExecuteFresh ==
  ASSUME IInv, [Next]_vars, BatchIdsFresh, NEW id \in DOMAIN proposals, Execute(id)
  PROVE  BatchIdsFresh'
<1>1. ~IsExecuted(id) /\ IsExecuted(id)'
  BY ExecutionIsNew, ExecutionRecorded
<1>2. CASE ExecuteEditTrustedCircle(id)
  BY <1>2, EditFresh
<1>3. CASE ExecuteAddVotingMembers(id)
  <2> DEFINE voters == voters_of(proposals[id].content)
             added == {a \in voters : escrows[a].status \in {"None", "NonVoting"}}
             count == Len(proposals[id].content.voters)
             grace == now + voting_period_secs(circle.rules)
             s == create_batch(Store, id, grace, voters, count)
  <2>1. Commit(add_members(s, added, "Pending", id, height)) /\ circle' = circle
    BY <1>3 DEF ExecuteAddVotingMembers
  <2> HIDE DEF voters, added, count, grace
  <2>2. DOMAIN s = StoreFields /\ s.batches = with_batch(batches, id, grace, voters, count)
    BY StoreShape DEF create_batch, with_batch, Store, StoreFields
  <2> HIDE DEF s
  <2>3. batches' = s.batches
    BY <2>1, <2>2 DEF Commit, StoreFields, add_members, save_points
  <2>4. DOMAIN batches' \subseteq DOMAIN batches \cup {id}
    BY <2>2, <2>3 DEF with_batch
  <2> QED BY <1>1, <2>1, <2>4, FreshStep
<1>4. CASE \/ ExecuteAddRemoveNonVotingMembers(id)
           \/ ExecuteWhitelistContract(id) \/ ExecuteRemoveContract(id)
  <2>1. PICK add, remove : AddRemove(id, add, remove)
    BY <1>4 DEF ExecuteAddRemoveNonVotingMembers, ExecuteWhitelistContract,
                ExecuteRemoveContract, whitelist_contract_addr, remove_contract_addr
  <2>2. circle' = circle /\ batches' = batches
    BY <2>1, StoreShape
       DEF AddRemove, Commit, Store, StoreFields, add_members, remove_members, save_points
  <2> QED BY <2>2, SameBatchIds
<1>5. CASE ExecutePunishMembers(id)
  <2>1. batches' = with_batch(batches, id, now, demoted_by(id), Cardinality(demoted_by(id)))
    BY <1>5, Punished
  <2>2. DOMAIN batches' \subseteq DOMAIN batches \cup {id} /\ circle' = circle
    BY <1>5, <2>1 DEF with_batch, ExecutePunishMembers
  <2> QED BY <1>1, <2>2, FreshStep
<1> QED BY <1>2, <1>3, <1>4, <1>5 DEF Execute

\* A deposit lowers what a batch waits for, and may promote it.
LEMMA DepositBatches ==
  ASSUME IInv, NEW a \in Addr, NEW amount \in Payments, DepositEscrow(a, amount)
  PROVE  DOMAIN batches' = DOMAIN batches
<1> DEFINE paid == escrows[a].paid + amount
           id == escrows[a].proposal_id
           s == [Store EXCEPT !.escrows[a].paid = paid]
           t == [s EXCEPT !.escrows[a].status = "PendingPaid"]
<1>1. escrows \in [Addr -> EscrowStatus] /\ amount \in Nat
  BY InvariantSays, CircleAssumption DEF EscrowsOK
<1>2. StoreOK(Store) /\ paid \in Nat /\ now \in Nat /\ height \in Nat
  BY <1>1 DEF EscrowStatus, IInv, BlockOK
<1> HIDE DEF paid
<1>3. StoreOK(s) /\ s.batches = batches /\ s.escrows = [escrows EXCEPT ![a].paid = paid]
  BY <1>2, PayEscrow, StoreShape
<1> HIDE DEF s
<1>4. CASE Commit(s)
  BY <1>3, <1>4 DEF Commit
<1>5. CASE /\ escrows[a].status = "Pending" /\ can_update_batch(t, a, id, now)
           /\ Commit(update_batch_after_escrow_paid(t, a, id, now, height))
  <2> DEFINE u == update_batch_after_escrow_paid(t, a, id, now, height)
             bs == one_less(t.batches, id)
  <2>1. s.escrows[a].status = "Pending"
    BY <1>1, <1>3, <1>5, OnlyPaid
  <2>2. StoreOK(t) /\ a \in WithStatus(t, "PendingPaid") /\ t.batches = batches
    BY <1>3, <2>1, PaidPending
  <2>3. id \in DOMAIN t.batches
    BY <1>5 DEF can_update_batch
  <2> HIDE DEF t, id
  <2>4. Updated(t, u, a, id, now)
    BY <1>2, <2>2, <2>3, UpdatedStore
  <2>5. batches' = u.batches
    BY <1>5 DEF Commit
  <2> HIDE DEF u
  <2>6. u.batches = bs \/ u.batches = flagged(bs, {id})
    BY <2>4 DEF Updated
  <2>7. DOMAIN bs = DOMAIN batches
    BY <2>2 DEF one_less
  <2> QED BY <2>5, <2>6, <2>7 DEF flagged
<1> QED BY <1>4, <1>5 DEF DepositEscrow, s, t, paid, id

LEMMA NextFresh == IInv /\ BatchIdsFresh /\ [Next]_vars => BatchIdsFresh'
<1> SUFFICES ASSUME IInv, BatchIdsFresh, [Next]_vars PROVE BatchIdsFresh'
  OBVIOUS
<1>1. ASSUME NEW a \in Addr, NEW amount \in Payments, DepositEscrow(a, amount)
      PROVE  BatchIdsFresh'
  <2>1. DOMAIN batches' = DOMAIN batches /\ circle' = circle
    BY <1>1, DepositBatches DEF DepositEscrow
  <2> QED BY <2>1, SameBatchIds
<1>2. ASSUME NEW a \in Addr,
             ReturnEscrow(a) \/ LeaveImmediately(a) \/ LeaveTrustedCircle(a)
      PROVE  BatchIdsFresh'
  <2>1. batches' = batches /\ circle' = circle
    BY <1>2, StoreShape DEF ReturnEscrow, LeaveImmediately, LeaveTrustedCircle, Commit, Store,
         StoreFields, remove_members, trigger_long_leave, set_status, strip_points, save_points
  <2> QED BY <2>1, SameBatchIds
<1>3. CASE CheckPending
  BY <1>3, CheckedFresh DEF CheckPending, IInv, BlockOK
<1>4. ASSUME NEW a \in Addr, NEW content \in Contents, Propose(a, content)
      PROVE  BatchIdsFresh'
  BY <1>4, ProposeFresh
<1>5. ASSUME NEW id \in DOMAIN proposals, Execute(id)
      PROVE  BatchIdsFresh'
  BY <1>5, ExecuteFresh
<1>6. CASE batches' = batches /\ circle' = circle
  BY <1>6, SameBatchIds
<1>7. ASSUME NEW id \in DOMAIN proposals,
             Close(id) \/ \E a \in Addr, vote \in CastVotes : Vote(a, id, vote)
      PROVE  batches' = batches /\ circle' = circle
  BY <1>7 DEF Close, Vote, store_vars
<1>8. ASSUME \/ \E a \in Addr : WithdrawRewards(a)
             \/ DistributeRewards \/ NextBlock \/ UNCHANGED vars
             \/ \E amount \in Rewards : SendRewards(amount)
      PROVE  batches' = batches /\ circle' = circle
  BY <1>8 DEF WithdrawRewards, DistributeRewards, NextBlock, SendRewards, vars, store_vars
<1> QED BY <1>1, <1>2, <1>3, <1>4, <1>5, <1>6, <1>7, <1>8 DEF Next

\* Creating a batch never meets an id in use: an id is that of an executed
\* proposal, and the one whose change of the escrow is pending has no batch yet.
THEOREM BatchIds == Spec => []BatchIdsFresh
<1>1. Init => IInv /\ BatchIdsFresh
  <2>1. Init => circle.escrow_pending = NoPending
    BY DEF Init
  <2> QED BY <2>1, InitHolds, InitStore DEF BatchIdsFresh
<1>2. IInv /\ BatchIdsFresh /\ [Next]_vars => (IInv /\ BatchIdsFresh)'
  BY NextKeeps, NextFresh
<1> QED BY <1>1, <1>2, PTL DEF Spec

-----------------------------------------------------------------------------
\* What happens to each escrow: a helper that moves nobody out keeps what is paid

Settled == {"None", "NonVoting", "Leaving"}

Kept(es, fs) ==
  \A x \in Addr : /\ fs[x].paid = es[x].paid
                  /\ fs[x].status \in Settled => fs[x] = es[x]

LEMMA VotingKept ==
  ASSUME NEW es \in [Addr -> EscrowStatus], NEW A
  PROVE  Kept(es, voting(es, A))
<1>1. "Voting" \in MemberStatus /\ 0 \in Nat
  BY DEF MemberStatus
<1>2. \A x \in Addr : /\ Become(es[x], "Voting", 0, 0).status = "Voting"
                      /\ Become(es[x], "Voting", 0, 0).paid = es[x].paid
  BY <1>1, BecomeEscrow
<1> QED BY <1>2 DEF Kept, voting, Settled

LEMMA PendingKept ==
  ASSUME NEW es \in [Addr -> EscrowStatus], NEW A, NEW id \in Nat
  PROVE  Kept(es, pending(es, A, id))
<1>1. "Pending" \in MemberStatus /\ 0 \in Nat
  BY DEF MemberStatus
<1>2. \A x \in Addr : /\ Become(es[x], "Pending", id, 0).status = "Pending"
                      /\ Become(es[x], "Pending", id, 0).paid = es[x].paid
  BY <1>1, BecomeEscrow
<1> QED BY <1>2 DEF Kept, pending, Settled

LEMMA CheckedKept ==
  ASSUME NEW s, StoreOK(s), NEW k, CircleOK(k), NEW h \in Nat, now \in Nat
  PROVE  Kept(s.escrows, check_pending(s, k, h).escrows)
<1> DEFINE t == check_pending_escrow(s, k, h)
           ready == ready_batches(t, now)
           u == check_pending(s, k, h)
<1>1. StoreOK(t) /\ k.escrow_pending.proposal_id \in Nat
  BY PendingEscrowChecked DEF CircleOK, CircleType, PendingEscrow
<1>2. s.escrows \in [Addr -> EscrowStatus] /\ t.escrows \in [Addr -> EscrowStatus]
  BY <1>1 DEF StoreOK, MembersOK
<1>3. Kept(s.escrows, t.escrows)
  <2>1. CASE t.escrows = pending(s.escrows, short_voters(s, k), k.escrow_pending.proposal_id)
    BY <1>1, <1>2, <2>1, PendingKept
  <2>2. CASE t.escrows = [x \in Addr |->
               IF x \in paid_pending(s, k) THEN [s.escrows[x] EXCEPT !.status = "PendingPaid"]
                                           ELSE s.escrows[x]]
    BY <1>2, <2>2 DEF Kept, EscrowStatus, Settled
  <2>3. CASE t = s
    BY <2>3 DEF Kept
  <2> QED BY <2>1, <2>2, <2>3, EnforcedStore
<1>4. u = convert_all_paid_members_to_voters(t, ready, h)
  BY DEF check_pending
<1> HIDE DEF t, u, ready
<1>5. u.escrows = voting(t.escrows, listed(t, ready) \cap WithStatus(t, "PendingPaid"))
  BY <1>1, <1>4, ConvertedStore
<1>6. Kept(t.escrows, u.escrows)
  BY <1>2, <1>5, VotingKept
<1>7. Kept(s.escrows, u.escrows)
  BY <1>3, <1>6 DEF Kept
<1> QED BY <1>7 DEF u

\* Both messages that check what is pending.
LEMMA CheckKept ==
  ASSUME IInv, CheckPending \/ \E a \in Addr, content \in Contents : Propose(a, content)
  PROVE  Kept(escrows, escrows')
<1>1. /\ StoreOK(Store) /\ CircleOK(circle) /\ now \in Nat /\ height \in Nat
      /\ height > 0 => height - 1 \in Nat
  BY DEF IInv, BlockOK
<1>2. \A h \in Nat : Kept(escrows, check_pending(Store, circle, h).escrows)
  BY <1>1, CheckedKept, StoreShape
<1>3. CASE CheckPending
  BY <1>1, <1>2, <1>3 DEF CheckPending, Commit
<1>4. ASSUME NEW a \in Addr, NEW content \in Contents, Propose(a, content)
      PROVE  Kept(escrows, escrows')
  <2>1. CASE height > 0
    <3>1. Commit(check_pending(Store, circle, height - 1))
      BY <1>4, <2>1 DEF Propose
    <3> QED BY <3>1, <1>1, <1>2, <2>1 DEF Commit
  <2>2. CASE ~(height > 0)
    <3>1. Commit(Store)
      BY <1>4, <2>2 DEF Propose
    <3> QED BY <3>1, StoreShape DEF Commit, Kept
  <2> QED BY <2>1, <2>2
<1> QED BY <1>3, <1>4

\* A deposit adds to one escrow, and at most makes members pending paid or voters.
LEMMA DepositKept ==
  ASSUME IInv, NEW a \in Addr, NEW amount \in Payments, DepositEscrow(a, amount)
  PROVE  /\ escrows[a].status \notin Settled
         /\ \A x \in Addr :
              /\ escrows'[x].paid = IF x = a THEN escrows[a].paid + amount ELSE escrows[x].paid
              /\ escrows'[x].status \in Settled => escrows'[x] = escrows[x]
<1> DEFINE paid == escrows[a].paid + amount
           id == escrows[a].proposal_id
           s == [Store EXCEPT !.escrows[a].paid = paid]
           t == [s EXCEPT !.escrows[a].status = "PendingPaid"]
<1>1. escrows \in [Addr -> EscrowStatus] /\ amount \in Nat
  BY InvariantSays, CircleAssumption DEF EscrowsOK
<1>2. StoreOK(Store) /\ paid \in Nat /\ now \in Nat /\ height \in Nat
  BY <1>1 DEF EscrowStatus, IInv, BlockOK
<1>3. escrows[a].status \notin Settled
  BY DEF DepositEscrow, Settled
<1> HIDE DEF paid
<1>4. StoreOK(s) /\ s.escrows = [escrows EXCEPT ![a].paid = paid]
  BY <1>2, PayEscrow, StoreShape
<1> HIDE DEF s
<1>5. \A x \in Addr :
        /\ s.escrows[x].paid = IF x = a THEN paid ELSE escrows[x].paid
        /\ s.escrows[x].status = escrows[x].status
        /\ x # a => s.escrows[x] = escrows[x]
  BY <1>1, <1>4, OnlyPaid
<1>6. CASE Commit(s)
  BY <1>3, <1>5, <1>6 DEF Commit, paid
<1>7. CASE /\ escrows[a].status = "Pending" /\ can_update_batch(t, a, id, now)
           /\ Commit(update_batch_after_escrow_paid(t, a, id, now, height))
  <2> DEFINE u == update_batch_after_escrow_paid(t, a, id, now, height)
             all == t.batches[id].members \cap WithStatus(t, "PendingPaid")
  <2>1. s.escrows[a].status = "Pending"
    BY <1>5, <1>7
  <2>2. StoreOK(t) /\ a \in WithStatus(t, "PendingPaid")
    BY <1>4, <2>1, PaidPending
  <2>3. id \in DOMAIN t.batches
    BY <1>7 DEF can_update_batch
  <2>4. Kept(s.escrows, t.escrows)
    <3>1. s.escrows \in [Addr -> EscrowStatus] /\ DOMAIN s = StoreFields
      BY <1>4 DEF StoreOK, MembersOK
    <3>2. t.escrows = [s.escrows EXCEPT ![a].status = "PendingPaid"]
      BY <3>1 DEF StoreFields
    <3> QED BY <3>1, <3>2 DEF Kept, EscrowStatus, Settled
  <2> HIDE DEF t, id
  <2>5. Updated(t, u, a, id, now)
    BY <1>2, <2>2, <2>3, UpdatedStore
  <2>6. escrows' = u.escrows /\ t.escrows \in [Addr -> EscrowStatus]
    BY <1>7, <2>2 DEF Commit, StoreOK, MembersOK
  <2> HIDE DEF u
  <2>7. u.escrows \in {t.escrows, voting(t.escrows, {a}), voting(t.escrows, all)}
    BY <2>5 DEF Updated
  <2> HIDE DEF all
  <2>8. Kept(t.escrows, u.escrows)
    BY <2>6, <2>7, VotingKept DEF Kept
  <2>9. Kept(s.escrows, escrows')
    BY <2>4, <2>6, <2>8 DEF Kept
  <2>10. ASSUME NEW x \in Addr
         PROVE  /\ escrows'[x].paid = IF x = a THEN paid ELSE escrows[x].paid
                /\ escrows'[x].status \in Settled => escrows'[x] = escrows[x]
    <3>1. /\ escrows'[x].paid = s.escrows[x].paid
          /\ escrows'[x].status \in Settled => escrows'[x] = s.escrows[x]
      BY <2>9 DEF Kept
    <3> QED BY <3>1, <1>3, <1>5
  <2> QED BY <1>3, <2>10 DEF paid
<1> QED BY <1>6, <1>7 DEF DepositEscrow, paid, s, t, id

\* A refund lowers one escrow; when nothing is left its owner is gone.
LEMMA ReturnKept ==
  ASSUME IInv, NEW a \in Addr, ReturnEscrow(a)
  PROVE  LET refund == refundable(escrows[a])
         IN /\ refund \in Nat \ {0} /\ refund <= escrows[a].paid
            /\ escrows'[a].paid = escrows[a].paid - refund
            /\ \A x \in Addr : x # a => escrows'[x] = escrows[x]
            /\ \/ escrows'[a] = NoEscrow
               \/ /\ escrows'[a].status = escrows[a].status
                  /\ escrows'[a].claim_at = escrows[a].claim_at
            /\ escrows[a].status \in {"Voting", "Leaving"}
<1> DEFINE refund == refundable(escrows[a])
           left == escrows[a].paid - refund
           s == [Store EXCEPT !.escrows[a].paid = @ - refund]
           t == remove_members(Store, {a}, height)
<1>1. /\ escrows \in [Addr -> EscrowStatus] /\ escrows[a].paid \in Nat
      /\ get_escrow(circle) \in Nat /\ get_escrow(circle) > 0
  <2>1. escrows \in [Addr -> EscrowStatus]
    BY InvariantSays DEF EscrowsOK
  <2>2. get_escrow(circle) \in Nat /\ get_escrow(circle) > 0
    BY RequiredEscrow DEF IInv
  <2> QED BY <2>1, <2>2 DEF EscrowStatus
<1>2. refund > 0 /\ escrows[a].status \in {"Voting", "Leaving"}
  BY DEF ReturnEscrow
<1>3. refund \in Nat \ {0} /\ refund <= escrows[a].paid /\ left \in Nat
  BY <1>1, <1>2 DEF refundable
<1>4. Commit(IF refund = escrows[a].paid THEN t ELSE s)
  BY DEF ReturnEscrow
<1>5. t.escrows = [x \in Addr |-> IF x \in {a} THEN NoEscrow ELSE escrows[x]]
  BY StoreShape DEF Store, StoreFields, remove_members, save_points
<1>6. s.escrows = [escrows EXCEPT ![a].paid = left]
  BY <1>1 DEF Store
<1> HIDE DEF s, t, refund, left
<1>7. CASE refund = escrows[a].paid
  <2>1. escrows'[a] = NoEscrow /\ \A x \in Addr : x # a => escrows'[x] = escrows[x]
    BY <1>4, <1>5, <1>7 DEF Commit
  <2>2. NoEscrow.paid = 0
    BY DEF NoEscrow
  <2>3. escrows'[a].paid = escrows[a].paid - refund
    BY <1>1, <1>7, <2>1, <2>2
  <2> QED BY <1>2, <1>3, <2>1, <2>3 DEF refund
<1>8. CASE refund # escrows[a].paid
  <2>1. escrows' = [escrows EXCEPT ![a].paid = left]
    BY <1>4, <1>6, <1>8 DEF Commit
  <2>2. /\ escrows'[a].paid = left /\ \A x \in Addr : x # a => escrows'[x] = escrows[x]
        /\ escrows'[a].status = escrows[a].status /\ escrows'[a].claim_at = escrows[a].claim_at
    BY <1>1, <2>1, OnlyPaid
  <2> QED BY <1>2, <1>3, <2>2 DEF left, refund
<1> QED BY <1>7, <1>8

LEMMA LeaveKept ==
  ASSUME IInv, NEW a \in Addr, LeaveTrustedCircle(a)
  PROVE  /\ escrows[a].status \notin Settled
         /\ escrows'[a].status = "Leaving" /\ escrows'[a].claim_at = claim_time
         /\ escrows'[a].paid = escrows[a].paid
         /\ \A x \in Addr : x # a => escrows'[x] = escrows[x]
<1> DEFINE t == trigger_long_leave(Store, {a})
<1>1. {a} \in SUBSET Members(Store) /\ Commit(t) /\ escrows[a].status \notin Settled
  BY StoreShape DEF LeaveTrustedCircle, Members, Settled
<1>2. t.escrows = [x \in Addr |-> IF x \in {a} THEN Become(escrows[x], "Leaving", 0, claim_time)
                                               ELSE escrows[x]]
  BY <1>1, Leavers, StoreShape DEF IInv
<1> HIDE DEF t
<1>3. escrows[a] \in EscrowStatus /\ claim_time \in Nat /\ "Leaving" \in MemberStatus /\ 0 \in Nat
  BY ClaimTime, InvariantSays DEF EscrowsOK, MemberStatus
<1>4. /\ Become(escrows[a], "Leaving", 0, claim_time).status = "Leaving"
      /\ Become(escrows[a], "Leaving", 0, claim_time).claim_at = claim_time
      /\ Become(escrows[a], "Leaving", 0, claim_time).paid = escrows[a].paid
  BY <1>3, BecomeEscrow
<1> QED BY <1>1, <1>2, <1>4 DEF Commit

\* Whom a proposal adds or removes was outside before.
LEMMA AddVotingKept ==
  ASSUME IInv, NEW id \in DOMAIN proposals, ExecuteAddVotingMembers(id)
  PROVE  \A x \in Addr : \/ escrows'[x] = escrows[x]
                         \/ /\ escrows[x].status \in Outside
                            /\ escrows'[x] = Become(NoEscrow, "Pending", id, 0)
<1> DEFINE voters == voters_of(proposals[id].content)
           added == {a \in voters : escrows[a].status \in {"None", "NonVoting"}}
           count == Len(proposals[id].content.voters)
           s == create_batch(Store, id, now + voting_period_secs(circle.rules), voters, count)
           t == add_members(s, added, "Pending", id, height)
<1>1. Commit(t)
  BY DEF ExecuteAddVotingMembers
<1>2. DOMAIN s = StoreFields /\ s.escrows = escrows
  BY StoreShape DEF create_batch, Store, StoreFields
<1>3. \A x \in added : escrows[x].status \in Outside
  BY DEF Outside
<1> HIDE DEF s, added
<1>4. t.escrows = [x \in Addr |-> IF x \in added THEN Become(NoEscrow, "Pending", id, 0)
                                                 ELSE escrows[x]]
  BY <1>2 DEF StoreFields, add_members, save_points
<1> QED BY <1>1, <1>3, <1>4 DEF Commit

LEMMA AddRemoveKept ==
  ASSUME IInv, NEW id, NEW add, NEW remove, AddRemove(id, add, remove)
  PROVE  \A x \in Addr :
           \/ escrows'[x] = escrows[x]
           \/ /\ escrows[x].status \in Outside
              /\ escrows'[x] \in {NoEscrow, Become(NoEscrow, "NonVoting", 0, 0)}
<1> DEFINE added == {a \in add : points[a] = ABSENT}
           s == add_members(Store, added, "NonVoting", 0, height)
           gone == remove \cap Members(s)
           t == remove_members(s, gone, height)
<1>1. Commit(t) /\ \A x \in gone : s.escrows[x].status \in Outside
  BY DEF AddRemove, Outside
<1>2. \A x \in Addr : x \in added => escrows[x].status \in Outside
  <2>1. \A x \in Addr : points[x] = points_of(escrows[x].status)
    BY StoreShape DEF IInv, StoreOK, MembersOK
  <2> QED BY <2>1 DEF points_of, ABSENT, VOTING_POINTS, Outside
<1> HIDE DEF added
<1>3. /\ DOMAIN s = StoreFields
      /\ s.escrows = [x \in Addr |-> IF x \in added THEN Become(NoEscrow, "NonVoting", 0, 0)
                                                    ELSE escrows[x]]
  BY StoreShape DEF Store, StoreFields, add_members, save_points
<1> HIDE DEF s, gone
<1>4. t.escrows = [x \in Addr |-> IF x \in gone THEN NoEscrow ELSE s.escrows[x]]
  BY <1>3 DEF StoreFields, remove_members, save_points
<1> HIDE DEF t
<1> QED BY <1>1, <1>2, <1>3, <1>4 DEF Commit

-----------------------------------------------------------------------------
\* TypeOK: IInv, the reward accounting and the balances

LEMMA TypedStep ==
  ASSUME IInv, IInv'
  PROVE  escrows \in [Addr -> EscrowStatus] /\ escrows' \in [Addr -> EscrowStatus]
<1>1. EscrowsOK /\ EscrowsOK'
  BY InvariantSays, PTL
<1> QED BY <1>1 DEF EscrowsOK

\* A punishment sends what it does not leave.
LEMMA PunishmentSplit ==
  ASSUME NEW paid \in Nat, NEW p \in Punishment
  PROVE  /\ escrow_sent(paid, p) \in Nat
         /\ escrow_remaining(paid, p) + escrow_sent(paid, p) = paid
<1> DEFINE slashed == escrow_slashed(paid, p)
<1>1. p.slashing_percentage \in 0..DECIMAL_ONE /\ p.recipients \in Nat
  BY DEF Punishment
<1>2. slashed \in 0..paid
  BY <1>1, ShareBound DEF escrow_slashed
<1>3. slashed \in Nat
  BY <1>2
<1>4. CASE p.recipients = 0
  <2> HIDE DEF slashed
  <2>1. escrow_sent(paid, p) = slashed /\ escrow_remaining(paid, p) = paid - slashed + 0
    BY <1>4 DEF escrow_sent, escrow_remaining, slashed
  <2> QED BY <1>3, <2>1
<1>5. CASE p.recipients # 0
  <2> DEFINE n == p.recipients
             each == slashed \div n
             rest == slashed % n
  <2>1. n \in Nat /\ n > 0
    BY <1>1, <1>5
  <2>2. escrow_sent(paid, p) = n * each /\ escrow_remaining(paid, p) = paid - slashed + rest
    BY <1>5 DEF escrow_sent, escrow_remaining, escrow_each
  <2> HIDE DEF slashed, n
  <2>3. each \in Nat /\ rest \in Nat /\ slashed = n * each + rest
    BY <1>3, <2>1
  <2> HIDE DEF each, rest
  <2>4. n * each \in Nat
    BY <2>1, <2>3
  <2> QED BY <1>3, <2>2, <2>3, <2>4
<1> QED BY <1>4, <1>5

LEMMA CorrectedType ==
  ASSUME NEW d \in DistributionType, NEW A, NEW diff \in Int
  PROVE  apply_points_correction(d, A, diff) \in DistributionType
<1> DEFINE c == [a \in Addr |-> IF a \in A THEN d.points_correction[a] - d.points_per_points * diff
                                ELSE d.points_correction[a]]
<1>1. d.points_correction \in [Addr -> Int] /\ d.points_per_points \in Nat
  BY DEF DistributionType
<1>2. d.points_per_points * diff \in Int
  BY <1>1
<1>3. c \in [Addr -> Int]
  BY <1>1, <1>2
<1> HIDE DEF c
<1>4. [d EXCEPT !.points_correction = c] \in DistributionType
  BY <1>3 DEF DistributionType
<1> QED BY <1>4 DEF apply_points_correction, c

\* What a helper makes of the distribution of a store
LEMMA StrippedType ==
  ASSUME NEW s, DOMAIN s = StoreFields, s.distribution \in DistributionType,
         NEW V, NEW h, NEW A, NEW status, NEW id, NEW claim
  PROVE  set_status(strip_points(s, V, h), A, status, id, claim).distribution \in DistributionType
<1>1. set_status(strip_points(s, V, h), A, status, id, claim).distribution
        = apply_points_correction(s.distribution, V, -VOTING_POINTS)
  BY DEF StoreFields, set_status, strip_points, save_points
<1>2. -VOTING_POINTS \in Int
  BY DEF VOTING_POINTS
<1> QED BY <1>1, <1>2, CorrectedType

LEMMA PromotedType ==
  ASSUME NEW s, DOMAIN s = StoreFields, s.distribution \in DistributionType, NEW A, NEW h
  PROVE  promote(s, A, h).distribution \in DistributionType
<1> DEFINE d == apply_points_correction(s.distribution, A, VOTING_POINTS)
<1>1. VOTING_POINTS \in Int
  BY DEF VOTING_POINTS
<1>2. d \in DistributionType
  BY <1>1, CorrectedType
<1>3. promote(s, A, h).distribution = apply_points_correction(d, A, VOTING_POINTS)
  BY DEF StoreFields, promote, set_status, save_points
<1> QED BY <1>1, <1>2, <1>3, CorrectedType

LEMMA ConvertedType ==
  ASSUME NEW s, DOMAIN s = StoreFields, s.distribution \in DistributionType, NEW ready, NEW h
  PROVE  convert_all_paid_members_to_voters(s, ready, h).distribution \in DistributionType
<1> DEFINE t == promote(s, listed(s, ready) \cap WithStatus(s, "PendingPaid"), h)
<1>1. DOMAIN t = StoreFields
  BY DEF StoreFields, promote, set_status, save_points
<1>2. t.distribution \in DistributionType
  BY PromotedType
<1>3. convert_all_paid_members_to_voters(s, ready, h).distribution = t.distribution
  <2> HIDE DEF t
  <2> QED BY <1>1 DEF StoreFields, convert_all_paid_members_to_voters, t
<1> QED BY <1>2, <1>3

LEMMA UpdatedType ==
  ASSUME NEW s, DOMAIN s = StoreFields, s.distribution \in DistributionType,
         NEW a, NEW id, NEW time, NEW h
  PROVE  update_batch_after_escrow_paid(s, a, id, time, h).distribution \in DistributionType
<1> DEFINE t == [s EXCEPT !.batches[id].waiting_escrow = @ - 1]
<1>1. DOMAIN t = StoreFields /\ t.distribution = s.distribution
  BY DEF StoreFields
<1> HIDE DEF t
<1>2. /\ promote(t, {a}, h).distribution \in DistributionType
      /\ convert_all_paid_members_to_voters(t, {id}, h).distribution \in DistributionType
      /\ t.distribution \in DistributionType
  BY <1>1, PromotedType, ConvertedType
<1> QED BY <1>2 DEF update_batch_after_escrow_paid, t

LEMMA CheckedType ==
  ASSUME NEW s, DOMAIN s = StoreFields, s.distribution \in DistributionType, NEW k, NEW h
  PROVE  check_pending(s, k, h).distribution \in DistributionType
<1> DEFINE t == check_pending_escrow(s, k, h)
           D == short_voters(s, k)
           id == k.escrow_pending.proposal_id
           u == set_status(strip_points(s, D, h), D, "Pending", id, 0)
           v == demote_short_voters(s, k, h)
           w == promote_paid_pending(s, k)
<1>1. DOMAIN u = StoreFields /\ u.distribution \in DistributionType
  BY DemotedStore, StrippedType
<1>2. v = create_batch(u, id, now, D, Cardinality(D))
  BY DEF demote_short_voters
<1> HIDE DEF u, v, D, id
<1>3. DOMAIN v = StoreFields /\ v.distribution = u.distribution
  BY <1>1, <1>2 DEF create_batch, StoreFields
<1>4. DOMAIN w = StoreFields /\ w.distribution = s.distribution
  BY DEF promote_paid_pending, StoreFields
<1>5. t \in {v, w, s}
  BY DEF check_pending_escrow, v, w
<1>6. DOMAIN t = StoreFields /\ t.distribution \in DistributionType
  BY <1>1, <1>3, <1>4, <1>5
<1> HIDE DEF t
<1> QED BY <1>6, ConvertedType DEF check_pending, t

DInv == bank \in [{denom, reward_denom} -> Nat] /\ distribution \in DistributionType

\* The actions that move rewards.
LEMMA DistributeTyped ==
  ASSUME IInv, DInv, DistributeRewards
  PROVE  DInv'
<1> DEFINE d == distribution
           amount == Undistributed(d, bank[reward_denom])
           share == amount * POINT_SCALE + d.points_leftover
<1>1. /\ total > 0 /\ amount > 0 /\ bank' = bank
      /\ distribution' = distribute_rewards(d, bank[reward_denom], total)
  BY DEF DistributeRewards
<1>2. /\ d \in DistributionType /\ total \in Nat /\ bank[reward_denom] \in Nat
      /\ POINT_SCALE \in Nat
  BY InvariantSays, ScaleAssumption DEF DInv
<1>3. /\ d.points_leftover \in Nat /\ d.points_per_points \in Nat
      /\ d.distributed_total \in Nat /\ d.withdrawable_total \in Nat
  BY <1>2 DEF DistributionType
<1>4. amount \in Nat
  BY <1>1, <1>2, <1>3 DEF Undistributed
<1> HIDE DEF amount
<1>5. share \in Nat
  <2>1. amount * POINT_SCALE \in Nat
    BY <1>2, <1>4
  <2> QED BY <2>1, <1>3
<1>6. distribution' = [d EXCEPT !.points_leftover    = share % total,
                                !.points_per_points  = @ + share \div total,
                                !.distributed_total  = @ + amount,
                                !.withdrawable_total = @ + amount]
  BY <1>1 DEF distribute_rewards, amount
<1> HIDE DEF share
<1>7. /\ share % total \in Nat /\ d.points_per_points + share \div total \in Nat
      /\ d.distributed_total + amount \in Nat /\ d.withdrawable_total + amount \in Nat
  BY <1>1, <1>2, <1>3, <1>4, <1>5
<1>8. distribution' \in DistributionType
  BY <1>2, <1>6, <1>7 DEF DistributionType
<1> QED BY <1>1, <1>8 DEF DInv

LEMMA WithdrawTyped ==
  ASSUME IInv, DInv, NEW a \in Addr, WithdrawRewards(a)
  PROVE  DInv' /\ withdrawable_rewards(distribution, a, 1) \in Int
<1> DEFINE d == distribution
           amount == withdrawable_rewards(d, a, 1)
<1>1. /\ amount > 0 /\ bank[reward_denom] >= amount /\ amount <= d.withdrawable_total
      /\ distribution' = withdraw_rewards(d, a, 1)
      /\ bank' = [bank EXCEPT ![reward_denom] = @ - amount]
  BY DEF WithdrawRewards, CanWithdraw
<1>2. /\ d \in DistributionType /\ bank \in [{denom, reward_denom} -> Nat]
      /\ POINT_SCALE \in Nat \ {0}
  BY ScaleAssumption DEF DInv
<1>3. /\ d.points_per_points \in Nat /\ d.points_correction[a] \in Int
      /\ d.withdrawn_funds \in [Addr -> Nat] /\ d.withdrawable_total \in Nat
  BY <1>2 DEF DistributionType
<1>4. amount \in Int
  <2>1. Entitlement(d, a, 1) \in Int
    BY <1>3 DEF Entitlement
  <2> QED BY <2>1, <1>2, <1>3 DEF withdrawable_rewards
<1>5. distribution' = [d EXCEPT !.withdrawn_funds[a] = @ + amount,
                                !.withdrawable_total = @ - amount]
  BY <1>1 DEF withdraw_rewards
<1> HIDE DEF amount
<1>6. bank' \in [{denom, reward_denom} -> Nat]
  BY <1>1, <1>2, <1>4
<1>7. /\ [d.withdrawn_funds EXCEPT ![a] = @ + amount] \in [Addr -> Nat]
      /\ d.withdrawable_total - amount \in Nat
  BY <1>1, <1>3, <1>4
<1>8. distribution' \in DistributionType
  BY <1>2, <1>5, <1>7 DEF DistributionType
<1> QED BY <1>4, <1>6, <1>8 DEF DInv, amount

\* A handler that commits a store keeps the accounting typed.
LEMMA CommitTyped ==
  ASSUME DInv, NEW s, s.distribution \in DistributionType, Commit(s),
         bank' \in [{denom, reward_denom} -> Nat]
  PROVE  DInv'
BY DEF DInv, Commit

LEMMA DepositTyped ==
  ASSUME IInv, DInv, NEW a \in Addr, NEW amount \in Payments, DepositEscrow(a, amount)
  PROVE  DInv'
<1> DEFINE s == [Store EXCEPT !.escrows[a].paid = escrows[a].paid + amount]
           t == [s EXCEPT !.escrows[a].status = "PendingPaid"]
           u == update_batch_after_escrow_paid(t, a, escrows[a].proposal_id, now, height)
<1>1. DOMAIN t = StoreFields /\ t.distribution = distribution /\ s.distribution = distribution
  BY StoreShape DEF StoreFields
<1>2. Commit(s) \/ Commit(u)
  BY DEF DepositEscrow
<1>3. bank' \in [{denom, reward_denom} -> Nat]
  BY CircleAssumption DEF DepositEscrow, DInv
<1> HIDE DEF s, t
<1>4. u.distribution \in DistributionType
  BY <1>1, UpdatedType DEF DInv
<1> QED BY <1>1, <1>2, <1>3, <1>4, CommitTyped DEF DInv

LEMMA LeaversTyped ==
  ASSUME NEW s, DOMAIN s = StoreFields, s.distribution \in DistributionType, NEW L
  PROVE  trigger_long_leave(s, L).distribution \in DistributionType
BY StrippedType DEF trigger_long_leave

LEMMA PunishTyped ==
  ASSUME IInv, DInv, NEW id \in DOMAIN proposals, ExecutePunishMembers(id),
         bank' \in [{denom, reward_denom} -> Nat]
  PROVE  DInv'
<1> DEFINE K == kicked_out(id)
           D == demoted_by(id)
           N == named(id)
           es == [a \in Addr |-> IF a \in N THEN [escrows[a] EXCEPT !.paid = left_paid(id, a)]
                                           ELSE escrows[a]]
           slashed == [Store EXCEPT !.escrows = es]
           t == trigger_long_leave(slashed, K)
           u == set_status(strip_points(t, D \cap WithStatus(Store, "Voting"), height),
                           D, "Pending", id, 0)
           v == create_batch(u, id, now, D, Cardinality(D))
<1>1. Commit(v)
  BY DEF ExecutePunishMembers, named, left_paid, kicked_out, demoted_by
<1> HIDE DEF K, D, N, es
<1>2. DOMAIN slashed = StoreFields /\ slashed.distribution = distribution
  BY StoreShape DEF StoreFields
<1> HIDE DEF slashed
<1>3. DOMAIN t = StoreFields /\ t.distribution \in DistributionType
  BY <1>2, LeaversTyped DEF DInv, StoreFields, trigger_long_leave, set_status, strip_points,
                            save_points
<1> HIDE DEF t
<1>4. DOMAIN u = StoreFields /\ u.distribution \in DistributionType
  BY <1>3, DemotedStore, StrippedType
<1> HIDE DEF u
<1>5. v.distribution = u.distribution
  BY <1>4 DEF create_batch, StoreFields
<1> QED BY <1>1, <1>4, <1>5, CommitTyped

LEMMA ExecuteTyped ==
  ASSUME IInv, IInv', DInv, NEW id \in DOMAIN proposals, Execute(id)
  PROVE  DInv'
<1>1. CASE ExecuteEditTrustedCircle(id)
  BY <1>1 DEF ExecuteEditTrustedCircle, store_vars, DInv
<1>2. CASE ExecuteAddVotingMembers(id)
  <2> DEFINE voters == voters_of(proposals[id].content)
             added == {a \in voters : escrows[a].status \in {"None", "NonVoting"}}
             s == create_batch(Store, id, now + voting_period_secs(circle.rules), voters,
                               Len(proposals[id].content.voters))
  <2>1. Commit(add_members(s, added, "Pending", id, height)) /\ bank' = bank
    BY <1>2 DEF ExecuteAddVotingMembers
  <2> HIDE DEF added
  <2>2. DOMAIN s = StoreFields /\ s.distribution = distribution
    BY StoreShape DEF create_batch, Store, StoreFields
  <2> HIDE DEF s
  <2>3. distribution' = s.distribution
    BY <2>1, <2>2 DEF Commit, StoreFields, add_members, save_points
  <2> QED BY <2>1, <2>2, <2>3 DEF DInv
<1>3. CASE \/ ExecuteAddRemoveNonVotingMembers(id)
           \/ ExecuteWhitelistContract(id) \/ ExecuteRemoveContract(id)
  <2>1. PICK add, remove : AddRemove(id, add, remove)
    BY <1>3 DEF ExecuteAddRemoveNonVotingMembers, ExecuteWhitelistContract,
                ExecuteRemoveContract, whitelist_contract_addr, remove_contract_addr
  <2>2. distribution' = distribution /\ bank' = bank
    BY <2>1, StoreShape
       DEF AddRemove, Commit, Store, StoreFields, add_members, remove_members, save_points
  <2> QED BY <2>2 DEF DInv
<1>4. CASE ExecutePunishMembers(id)
  <2> DEFINE h == [a \in named(id) |->
                     escrow_sent(escrows[a].paid, proposals[id].content.punishments[a])]
  <2>1. bank' = [bank EXCEPT ![denom] = @ - SumOf(h)] /\ bank[denom] >= SumOf(h)
    BY <1>4, FoldIsSum DEF ExecutePunishMembers, named
  <2>2. IsFiniteSet(named(id))
    BY <1>4, Punished, AddrSubsets
  <2>3. \A a \in named(id) : escrow_sent(escrows[a].paid, proposals[id].content.punishments[a]) \in Nat
    <3>1. \A a \in Addr : escrows[a].paid \in Nat
      BY TypedStep DEF EscrowStatus
    <3> QED BY <1>4, <3>1, Punished, PunishmentSplit
  <2>4. SumOf(h) \in Int
    BY <2>2, <2>3, SumOfType
  <2> HIDE DEF h
  <2>5. bank' \in [{denom, reward_denom} -> Nat]
    BY <2>1, <2>4 DEF DInv
  <2> QED BY <1>4, <2>5, PunishTyped
<1> QED BY <1>1, <1>2, <1>3, <1>4 DEF Execute

LEMMA NextTyped ==
  ASSUME IInv, DInv, [Next]_vars
  PROVE  DInv'
<1>0. IInv'
  BY NextKeeps
<1>1. ASSUME NEW a \in Addr, NEW amount \in Payments, DepositEscrow(a, amount)
      PROVE  DInv'
  BY <1>1, DepositTyped
<1>2. ASSUME NEW a \in Addr, ReturnEscrow(a)
      PROVE  DInv'
  <2> DEFINE refund == refundable(escrows[a])
             s == [Store EXCEPT !.escrows[a].paid = @ - refund]
             t == remove_members(Store, {a}, height)
  <2>1. /\ bank' = [bank EXCEPT ![denom] = @ - refund] /\ bank[denom] >= refund
        /\ Commit(IF refund = escrows[a].paid THEN t ELSE s)
    BY <1>2 DEF ReturnEscrow
  <2>2. s.distribution = distribution /\ t.distribution = distribution
    BY StoreShape DEF Store, StoreFields, remove_members, save_points
  <2>3. refund \in Nat
    BY <1>2, ReturnKept
  <2> HIDE DEF s, t, refund
  <2>4. bank' \in [{denom, reward_denom} -> Nat]
    BY <2>1, <2>3 DEF DInv
  <2> QED BY <2>1, <2>2, <2>4, CommitTyped DEF DInv
<1>3. ASSUME NEW a \in Addr, LeaveImmediately(a) \/ LeaveTrustedCircle(a)
      PROVE  DInv'
  <2>1. bank' = bank
    BY <1>3 DEF LeaveImmediately, LeaveTrustedCircle
  <2>2. CASE LeaveImmediately(a)
    <3>1. remove_members(Store, {a}, height).distribution = distribution
      BY StoreShape DEF Store, StoreFields, remove_members, save_points
    <3> QED BY <2>1, <2>2, <3>1, CommitTyped DEF LeaveImmediately, DInv
  <2>3. CASE LeaveTrustedCircle(a)
    <3>1. trigger_long_leave(Store, {a}).distribution \in DistributionType
      BY StoreShape, LeaversTyped DEF DInv
    <3> QED BY <2>1, <2>3, <3>1, CommitTyped DEF LeaveTrustedCircle, DInv
  <2> QED BY <1>3, <2>2, <2>3
<1>4. ASSUME CheckPending \/ \E a \in Addr, content \in Contents : Propose(a, content)
      PROVE  DInv'
  <2>1. \A h : check_pending(Store, circle, h).distribution \in DistributionType
    BY StoreShape, CheckedType DEF DInv
  <2>2. Store.distribution \in DistributionType
    BY StoreShape DEF DInv
  <2>3. bank' = bank
    BY <1>4 DEF CheckPending, Propose
  <2>4. Commit(Store) \/ \E h : Commit(check_pending(Store, circle, h))
    BY <1>4 DEF CheckPending, Propose
  <2> QED BY <2>1, <2>2, <2>3, <2>4, CommitTyped DEF DInv
<1>5. ASSUME NEW id \in DOMAIN proposals, Execute(id)
      PROVE  DInv'
  BY <1>0, <1>5, ExecuteTyped
<1>6. ASSUME NEW a \in Addr, WithdrawRewards(a)
      PROVE  DInv'
  BY <1>6, WithdrawTyped
<1>7. CASE DistributeRewards
  BY <1>7, DistributeTyped
<1>8. ASSUME NEW amount \in Rewards, SendRewards(amount)
      PROVE  DInv'
  BY <1>8, CircleAssumption DEF SendRewards, store_vars, DInv
<1>9. ASSUME \/ \E id \in DOMAIN proposals :
                  Close(id) \/ \E a \in Addr, vote \in CastVotes : Vote(a, id, vote)
             \/ NextBlock \/ UNCHANGED vars
      PROVE  DInv'
  BY <1>9 DEF Close, Vote, NextBlock, vars, store_vars, DInv
<1> QED BY <1>1, <1>2, <1>3, <1>4, <1>5, <1>6, <1>7, <1>8, <1>9 DEF Next

-----------------------------------------------------------------------------
\* EscrowBacked: who is outside has paid nothing, and the balance is the sum

PaidBy(es) == [x \in Addr |-> es[x].paid]

BInv ==
  /\ bank \in [{denom, reward_denom} -> Nat]
  /\ bank[denom] = SumOf(PaidBy(escrows))
  /\ \A x \in Addr : escrows[x].status \in Outside => escrows[x].paid = 0

LEMMA BackedSays == BInv => EscrowBacked
<1>1. [a \in Addr |-> escrows[a].paid] = PaidBy(escrows)
  BY DEF PaidBy
<1> QED BY <1>1, FoldIsSum DEF BInv, EscrowBacked

LEMMA PaidType ==
  ASSUME NEW es \in [Addr -> EscrowStatus]
  PROVE  /\ PaidBy(es) \in [Addr -> Int]
         /\ \A x \in Addr : es[x].paid \in Nat /\ PaidBy(es)[x] = es[x].paid
BY DEF PaidBy, EscrowStatus

\* Nothing is paid in or out.
LEMMA SamePaid ==
  ASSUME IInv, IInv', BInv, bank' \in [{denom, reward_denom} -> Nat], bank'[denom] = bank[denom],
         \A x \in Addr : /\ escrows'[x].paid = escrows[x].paid
                         /\ escrows'[x].status \in Outside => escrows'[x].paid = 0
  PROVE  BInv'
<1>2. PaidBy(escrows') = PaidBy(escrows)
  BY DEF PaidBy
<1>3. bank'[denom] = SumOf(PaidBy(escrows'))
  BY <1>2 DEF BInv
<1> QED BY <1>3 DEF BInv, PaidBy

\* One address pays d, or gets it back.
LEMMA OnePays ==
  ASSUME IInv, IInv', BInv, NEW a \in Addr, NEW d \in Int,
         bank' \in [{denom, reward_denom} -> Nat], bank'[denom] = bank[denom] + d,
         escrows'[a].paid = escrows[a].paid + d,
         \A x \in Addr : /\ x # a => escrows'[x].paid = escrows[x].paid
                         /\ escrows'[x].status \in Outside => escrows'[x].paid = 0
  PROVE  BInv'
<1>1. escrows \in [Addr -> EscrowStatus] /\ escrows' \in [Addr -> EscrowStatus]
  BY TypedStep
<1>2. IsFiniteSet(Addr)
  BY AddrAssumption
<1> DEFINE f == PaidBy(escrows')
           g == PaidBy(escrows)
<1>3. f \in [Addr -> Int] /\ g \in [Addr -> Int]
  BY <1>1, PaidType
<1>4. f[a] = g[a] + d /\ \A x \in Addr : x # a => f[x] = g[x]
  BY <1>1, PaidType
<1> HIDE DEF f, g
<1>5. SumOf(f) = SumOf(g) + d
  BY <1>2, <1>3, <1>4, SumOne
<1>6. bank'[denom] = SumOf(PaidBy(escrows'))
  BY <1>5 DEF BInv, f, g
<1> QED BY <1>6 DEF BInv, PaidBy

LEMMA PunishBacked ==
  ASSUME IInv, IInv', BInv, NEW id \in DOMAIN proposals, ExecutePunishMembers(id)
  PROVE  BInv'
<1> DEFINE punishments == proposals[id].content.punishments
           N == named(id)
           h == [a \in N |-> escrow_sent(escrows[a].paid, punishments[a])]
           f == PaidBy(escrows)
           g == PaidBy(escrows')
<1>1. escrows \in [Addr -> EscrowStatus] /\ escrows' \in [Addr -> EscrowStatus]
  BY TypedStep
<1>2. N \in SUBSET Addr /\ IsFiniteSet(Addr)
  BY Punished, AddrAssumption
<1>3. \A a \in N : /\ punishments[a] \in Punishment
                   /\ escrows'[a].paid = escrow_remaining(escrows[a].paid, punishments[a])
  BY Punished DEF left_paid
<1>4. \A x \in Addr \ N : escrows'[x].paid = escrows[x].paid
  BY Punished
<1>5. bank' = [bank EXCEPT ![denom] = @ - SumOf(h)] /\ bank[denom] >= SumOf(h)
  BY FoldIsSum DEF ExecutePunishMembers, named
<1>6. \A x \in Addr : escrows'[x].status \in Outside => escrows'[x].paid = 0
  <2>1. \A x \in Addr : escrows'[x].status \in Outside =>
          x \notin N /\ escrows'[x].status = escrows[x].status
    BY Punished DEF Outside, kicked_out, demoted_by
  <2> QED BY <1>4, <2>1 DEF BInv
<1> HIDE DEF punishments, N
<1>7. f \in [Addr -> Int] /\ g \in [Addr -> Int]
  BY <1>1, PaidType
<1>8. \A a \in N : h[a] \in Nat /\ escrows[a].paid = escrows'[a].paid + h[a]
  BY <1>1, <1>2, <1>3, PunishmentSplit, PaidType
<1>9. h \in [N -> Int]
  BY <1>8
<1>10. /\ \A x \in N : f[x] = g[x] + h[x]
       /\ \A x \in Addr \ N : f[x] = g[x]
  BY <1>1, <1>2, <1>4, <1>8, PaidType
<1> HIDE DEF f, g, h
<1>11. MoreBy(f, g, h, Addr, N)
  BY <1>2, <1>7, <1>9, <1>10 DEF MoreBy
<1>12. SumOf(f) = SumOf(g) + SumOf(h)
  BY <1>11, SumAdd
<1>13. SumOf(g) \in Int /\ SumOf(h) \in Int
  BY <1>2, <1>7, <1>9, SumOfType, FS_Subset
<1>14. bank \in [{denom, reward_denom} -> Nat] /\ bank[denom] = SumOf(f)
  BY DEF BInv, f
<1>15. bank'[denom] = SumOf(g) /\ bank' \in [{denom, reward_denom} -> Nat]
  BY <1>5, <1>12, <1>13, <1>14
<1> QED BY <1>6, <1>15 DEF BInv, g

LEMMA NextBacked ==
  ASSUME denom # reward_denom, IInv, DInv, BInv, [Next]_vars
  PROVE  BInv'
<1> USE DEF Outside
<1>0. IInv'
  BY NextKeeps
<1>1. bank \in [{denom, reward_denom} -> Nat] /\ bank[denom] \in Nat
  BY DEF BInv
<1>2. ASSUME NEW a \in Addr, NEW amount \in Payments, DepositEscrow(a, amount)
      PROVE  BInv'
  <2>1. amount \in Nat /\ bank' = [bank EXCEPT ![denom] = @ + amount]
    BY <1>2, CircleAssumption DEF DepositEscrow
  <2>2. bank' \in [{denom, reward_denom} -> Nat] /\ bank'[denom] = bank[denom] + amount
    BY <1>1, <2>1
  <2>3. /\ escrows'[a].paid = escrows[a].paid + amount
        /\ \A x \in Addr : x # a => escrows'[x].paid = escrows[x].paid
        /\ \A x \in Addr : escrows'[x].status \in Settled => escrows'[x] = escrows[x]
    BY <1>2, DepositKept
  <2>4. \A x \in Addr : escrows'[x].status \in Outside => escrows'[x].paid = 0
    BY <2>3 DEF BInv, Settled
  <2> QED BY <1>0, <2>1, <2>2, <2>3, <2>4, OnePays
<1>3. ASSUME NEW a \in Addr, ReturnEscrow(a)
      PROVE  BInv'
  <2> DEFINE refund == refundable(escrows[a])
             d == 0 - refund
  <2>1. bank' = [bank EXCEPT ![denom] = @ - refund] /\ bank[denom] >= refund
    BY <1>3 DEF ReturnEscrow
  <2>2. /\ refund \in Nat /\ escrows'[a].paid = escrows[a].paid - refund
        /\ \A x \in Addr : x # a => escrows'[x] = escrows[x]
        /\ \/ escrows'[a] = NoEscrow
           \/ escrows'[a].status = escrows[a].status
        /\ escrows[a].status \in {"Voting", "Leaving"}
    BY <1>3, ReturnKept
  <2> HIDE DEF refund
  <2>3. escrows[a].paid \in Nat
    BY <1>0, TypedStep DEF EscrowStatus
  <2>4. /\ d \in Int /\ bank' \in [{denom, reward_denom} -> Nat]
        /\ bank'[denom] = bank[denom] + d /\ escrows'[a].paid = escrows[a].paid + d
    BY <1>1, <2>1, <2>2, <2>3
  <2>5. \A x \in Addr : escrows'[x].status \in Outside => escrows'[x].paid = 0
    BY <2>2 DEF BInv, NoEscrow
  <2> HIDE DEF d
  <2> QED BY <1>0, <2>2, <2>4, <2>5, OnePays
<1>4. ASSUME NEW a \in Addr, LeaveImmediately(a)
      PROVE  BInv'
  <2>1. escrows' = [x \in Addr |-> IF x \in {a} THEN NoEscrow ELSE escrows[x]]
    BY <1>4, StoreShape
       DEF LeaveImmediately, Commit, Store, StoreFields, remove_members, save_points
  <2>2. escrows[a].paid = 0 /\ bank' = bank
    BY <1>4 DEF LeaveImmediately, BInv
  <2>3. \A x \in Addr : /\ escrows'[x].paid = escrows[x].paid
                        /\ escrows'[x].status \in Outside => escrows'[x].paid = 0
    BY <2>1, <2>2 DEF NoEscrow, BInv
  <2> QED BY <1>0, <1>1, <2>2, <2>3, SamePaid
<1>5. ASSUME NEW a \in Addr, LeaveTrustedCircle(a)
      PROVE  BInv'
  <2>1. bank' = bank
    BY <1>5 DEF LeaveTrustedCircle
  <2>2. \A x \in Addr : /\ escrows'[x].paid = escrows[x].paid
                        /\ escrows'[x].status \in Outside => escrows'[x].paid = 0
    BY <1>5, LeaveKept DEF BInv
  <2> QED BY <1>0, <1>1, <2>1, <2>2, SamePaid
<1>6. ASSUME CheckPending \/ \E a \in Addr, content \in Contents : Propose(a, content)
      PROVE  BInv'
  <2>1. bank' = bank
    BY <1>6 DEF CheckPending, Propose
  <2>2. \A x \in Addr : /\ escrows'[x].paid = escrows[x].paid
                        /\ escrows'[x].status \in Outside => escrows'[x].paid = 0
    BY <1>6, CheckKept DEF BInv, Kept, Settled
  <2> QED BY <1>0, <1>1, <2>1, <2>2, SamePaid
<1>7. ASSUME NEW id \in DOMAIN proposals, ExecuteAddVotingMembers(id)
      PROVE  BInv'
  <2>1. bank' = bank /\ Become(NoEscrow, "Pending", id, 0).paid = 0
    BY <1>7 DEF ExecuteAddVotingMembers, NoEscrow, Become
  <2>2. \A x \in Addr : /\ escrows'[x].paid = escrows[x].paid
                        /\ escrows'[x].status \in Outside => escrows'[x].paid = 0
    BY <1>7, <2>1, AddVotingKept DEF BInv
  <2> QED BY <1>0, <1>1, <2>1, <2>2, SamePaid
<1>8. ASSUME NEW id, NEW add, NEW remove, AddRemove(id, add, remove)
      PROVE  BInv'
  <2>1. /\ bank' = bank /\ Become(NoEscrow, "NonVoting", 0, 0).paid = 0
        /\ NoEscrow.paid = 0
    BY <1>8 DEF AddRemove, NoEscrow, Become
  <2>2. \A x \in Addr : /\ escrows'[x].paid = escrows[x].paid
                        /\ escrows'[x].status \in Outside => escrows'[x].paid = 0
    BY <1>8, <2>1, AddRemoveKept DEF BInv
  <2> QED BY <1>0, <1>1, <2>1, <2>2, SamePaid
<1>9. ASSUME NEW id \in DOMAIN proposals, ExecutePunishMembers(id)
      PROVE  BInv'
  BY <1>0, <1>9, PunishBacked
<1>10. ASSUME NEW id \in DOMAIN proposals, Execute(id)
       PROVE  BInv' \/ ExecuteEditTrustedCircle(id)
  BY <1>10, <1>7, <1>8, <1>9 DEF Execute, ExecuteAddRemoveNonVotingMembers,
       ExecuteWhitelistContract, ExecuteRemoveContract, whitelist_contract_addr,
       remove_contract_addr
<1>11. ASSUME escrows' = escrows, bank' \in [{denom, reward_denom} -> Nat],
              bank'[denom] = bank[denom]
       PROVE  BInv'
  BY <1>0, <1>11, SamePaid DEF BInv
<1>12. ASSUME NEW a \in Addr, WithdrawRewards(a)
       PROVE  BInv'
  <2> DEFINE amount == withdrawable_rewards(distribution, a, 1)
  <2>1. /\ amount > 0 /\ bank[reward_denom] >= amount /\ escrows' = escrows
        /\ bank' = [bank EXCEPT ![reward_denom] = @ - amount]
    BY <1>12 DEF WithdrawRewards
  <2>2. amount \in Int
    BY <1>12, WithdrawTyped
  <2> HIDE DEF amount
  <2>3. bank' \in [{denom, reward_denom} -> Nat] /\ bank'[denom] = bank[denom]
    BY <1>1, <2>1, <2>2
  <2> QED BY <1>11, <2>1, <2>3
<1>13. ASSUME NEW amount \in Rewards, SendRewards(amount)
       PROVE  BInv'
  <2>1. /\ amount \in Nat /\ escrows' = escrows
        /\ bank' = [bank EXCEPT ![reward_denom] = @ + amount]
    BY <1>13, CircleAssumption DEF SendRewards, store_vars
  <2>2. bank' \in [{denom, reward_denom} -> Nat] /\ bank'[denom] = bank[denom]
    BY <1>1, <2>1
  <2> QED BY <1>11, <2>1, <2>2
<1>14. ASSUME \/ \E id \in DOMAIN proposals :
                   \/ ExecuteEditTrustedCircle(id) \/ Close(id)
                   \/ \E a \in Addr, vote \in CastVotes : Vote(a, id, vote)
              \/ DistributeRewards \/ NextBlock \/ UNCHANGED vars
       PROVE  BInv'
  <2>1. escrows' = escrows /\ bank' = bank
    BY <1>14 DEF ExecuteEditTrustedCircle, Close, Vote, DistributeRewards, NextBlock,
         vars, store_vars
  <2> QED BY <1>1, <1>11, <2>1
<1> QED BY <1>2, <1>3, <1>4, <1>5, <1>6, <1>10, <1>12, <1>13, <1>14 DEF Next

LEMMA InitTyped == Init => DInv
<1> SUFFICES ASSUME Init PROVE DInv
  OBVIOUS
<1>1. PICK amount \in Payments :
        bank = [x \in {denom, reward_denom} |-> IF x = denom THEN amount ELSE 0]
  BY InitStore
<1>2. amount \in Nat
  BY CircleAssumption
<1>3. distribution \in DistributionType
  BY InitStore DEF InitDistribution, DistributionType
<1> QED BY <1>1, <1>2, <1>3 DEF DInv

LEMMA InitBacked == Init => BInv
<1> SUFFICES ASSUME Init PROVE BInv
  OBVIOUS
<1>1. PICK amount \in Payments :
        /\ bank = [x \in {denom, reward_denom} |-> IF x = denom THEN amount ELSE 0]
        /\ \A x \in Addr :
             /\ escrows[x].paid = IF x = Creator THEN amount ELSE 0
             /\ x # Creator => escrows[x].status \in {"None", "NonVoting"}
             /\ x = Creator => escrows[x].status = "Voting"
  BY InitStore
<1>2. amount \in Nat /\ Creator \in Addr /\ IsFiniteSet(Addr)
  BY CircleAssumption, AddrAssumption
<1> DEFINE f == PaidBy(escrows)
           g == [x \in Addr |-> 0]
<1>3. f \in [Addr -> Int] /\ g \in [Addr -> Int]
  BY <1>1, <1>2 DEF PaidBy
<1>4. f[Creator] = g[Creator] + amount /\ \A x \in Addr : x # Creator => f[x] = g[x]
  BY <1>1, <1>2 DEF PaidBy
<1> HIDE DEF f
<1>5. SumOf(f) = SumOf(g) + amount
  <2>1. amount \in Int
    BY <1>2
  <2> HIDE DEF g
  <2> QED BY <2>1, <1>2, <1>3, <1>4, SumOne
<1>6. SumOf(g) = 0
  BY <1>2, SumOfNone DEF g
<1>7. bank[denom] = SumOf(PaidBy(escrows))
  BY <1>1, <1>2, <1>5, <1>6 DEF f
<1> QED BY <1>1, <1>2, <1>7 DEF BInv, Outside

\* The storage, the reward accounting and the balances keep their types.
THEOREM Typed == Spec => []TypeOK
<1>1. Init => IInv /\ DInv
  BY InitHolds, InitTyped
<1>2. IInv /\ DInv /\ [Next]_vars => (IInv /\ DInv)'
  BY NextKeeps, NextTyped
<1>3. IInv /\ DInv => TypeOK
  BY InvariantSays DEF IInv, DInv, ExpiryOK, BlockOK, TypeOK
<1> QED BY <1>1, <1>2, <1>3, PTL DEF Spec

\* The contract holds exactly what it owes to its members, as long as rewards
\* are paid in another token.
THEOREM EscrowsBacked == ASSUME denom # reward_denom PROVE Spec => []EscrowBacked
<1>1. Init => IInv /\ DInv /\ BInv
  BY InitHolds, InitTyped, InitBacked
<1>2. IInv /\ DInv /\ BInv /\ [Next]_vars => (IInv /\ DInv /\ BInv)'
  BY NextKeeps, NextTyped, NextBacked
<1>3. BInv => EscrowBacked
  BY BackedSays
<1> QED BY <1>1, <1>2, <1>3, PTL DEF Spec

-----------------------------------------------------------------------------
\* LeaverHeldToVotes: a vote ends within a voting period, and a leaver is held
\* for two of them, as long as the period is never shortened

PeriodGrows == circle'.rules.voting_period >= circle.rules.voting_period

HInv ==
  /\ \A id \in DOMAIN proposals :
       proposals[id].expires <= now + voting_period_secs(circle.rules)
  /\ \A b \in ballots : b.proposal_id \in DOMAIN proposals
  /\ \A x \in Addr, b \in ballots : escrows[x].status = "Leaving" /\ b.voter = x =>
       proposals[b.proposal_id].expires <= escrows[x].claim_at

LEMMA PeriodsCompare ==
  ASSUME NEW p \in VotingRulesType, NEW q \in VotingRulesType, q.voting_period >= p.voting_period
  PROVE  voting_period_secs(p) <= voting_period_secs(q)
<1> DEFINE m == p.voting_period
           n == q.voting_period
<1>1. m \in Nat /\ n \in Nat /\ DAY \in Nat
  BY CircleAssumption DEF VotingRulesType
<1> HIDE DEF m, n
<1>2. n >= m
  BY DEF m, n
<1>3. m * DAY <= n * DAY
  BY <1>1, <1>2
<1> QED BY <1>3 DEF voting_period_secs, m, n

\* Who leaves is held from then on, and nothing else happens in that step.
LEMMA LeavingStep ==
  ASSUME IInv, [Next]_vars, NEW x \in Addr, escrows'[x].status = "Leaving"
  PROVE  \/ escrows[x].status = "Leaving" /\ escrows'[x].claim_at = escrows[x].claim_at
         \/ /\ escrows'[x].claim_at = claim_time
            /\ ballots' = ballots
<1> DEFINE Stays == escrows[x].status = "Leaving" /\ escrows'[x].claim_at = escrows[x].claim_at
           Leaves == escrows'[x].claim_at = claim_time /\ ballots' = ballots
<1> USE DEF Settled
<1>1. ASSUME NEW a \in Addr, NEW amount \in Payments, DepositEscrow(a, amount)
      PROVE  Stays
  BY <1>1, DepositKept
<1>2. ASSUME NEW a \in Addr, ReturnEscrow(a)
      PROVE  Stays
  BY <1>2, ReturnKept DEF NoEscrow
<1>3. ASSUME NEW a \in Addr, LeaveImmediately(a)
      PROVE  Stays
  <2>1. escrows' = [y \in Addr |-> IF y \in {a} THEN NoEscrow ELSE escrows[y]]
    BY <1>3, StoreShape
       DEF LeaveImmediately, Commit, Store, StoreFields, remove_members, save_points
  <2> QED BY <2>1 DEF NoEscrow
<1>4. ASSUME NEW a \in Addr, LeaveTrustedCircle(a)
      PROVE  Stays \/ Leaves
  <2>1. ballots' = ballots
    BY <1>4 DEF LeaveTrustedCircle
  <2> QED BY <1>4, <2>1, LeaveKept
<1>5. ASSUME CheckPending \/ \E a \in Addr, content \in Contents : Propose(a, content)
      PROVE  Stays
  BY <1>5, CheckKept DEF Kept
<1>6. ASSUME NEW id \in DOMAIN proposals, ExecuteAddVotingMembers(id)
      PROVE  Stays
  <2>1. Become(NoEscrow, "Pending", id, 0).status = "Pending"
    BY DEF NoEscrow, Become
  <2> QED BY <1>6, <2>1, AddVotingKept
<1>7. ASSUME NEW id, NEW add, NEW remove, AddRemove(id, add, remove)
      PROVE  Stays
  <2>1. NoEscrow.status = "None" /\ Become(NoEscrow, "NonVoting", 0, 0).status = "NonVoting"
    BY DEF NoEscrow, Become
  <2> QED BY <1>7, <2>1, AddRemoveKept
<1>8. ASSUME NEW id \in DOMAIN proposals, ExecutePunishMembers(id)
      PROVE  Stays \/ Leaves
  <2>1. ballots' = ballots
    BY <1>8 DEF ExecutePunishMembers
  <2>2. CASE x \in kicked_out(id)
    BY <1>8, <2>1, <2>2, Punished
  <2>3. CASE x \in demoted_by(id)
    BY <1>8, <2>3, Punished
  <2>4. CASE x \notin kicked_out(id) \cup demoted_by(id)
    BY <1>8, <2>4, Punished
  <2> QED BY <2>2, <2>3, <2>4
<1>9. CASE escrows' = escrows
  BY <1>9
<1>10. ASSUME NEW id \in DOMAIN proposals, Execute(id)
       PROVE  Stays \/ Leaves \/ escrows' = escrows
  BY <1>10, <1>6, <1>7, <1>8 DEF Execute, ExecuteAddRemoveNonVotingMembers,
       ExecuteWhitelistContract, ExecuteRemoveContract, whitelist_contract_addr,
       remove_contract_addr, ExecuteEditTrustedCircle, store_vars
<1>11. ASSUME \/ \E id \in DOMAIN proposals :
                   Close(id) \/ \E a \in Addr, vote \in CastVotes : Vote(a, id, vote)
              \/ \E a \in Addr : WithdrawRewards(a)
              \/ DistributeRewards \/ NextBlock \/ UNCHANGED vars
              \/ \E amount \in Rewards : SendRewards(amount)
       PROVE  escrows' = escrows
  BY <1>11 DEF Close, Vote, WithdrawRewards, DistributeRewards, NextBlock, SendRewards,
       vars, store_vars
<1> QED BY <1>1, <1>2, <1>3, <1>4, <1>5, <1>9, <1>10, <1>11 DEF Next

\* A new ballot is for a proposal that exists, by a voter who stays one.
LEMMA BallotStep ==
  ASSUME IInv, [Next]_vars, NEW b \in ballots', b \notin ballots
  PROVE  b.proposal_id \in DOMAIN proposals' /\ escrows'[b.voter].status = "Voting"
<1>1. ASSUME NEW a \in Addr, NEW content \in Contents, Propose(a, content)
      PROVE  b.proposal_id \in DOMAIN proposals' /\ escrows'[b.voter].status = "Voting"
  <2> DEFINE s == IF height > 0 THEN check_pending(Store, circle, height - 1) ELSE Store
             power == vote_power(s.points[a])
  <2>1. /\ power > 0 /\ Commit(s)
        /\ ballots' = ballots \cup
             {[proposal_id |-> Len(proposals) + 1, voter |-> a, vote |-> "Yes", points |-> power]}
    BY <1>1 DEF Propose
  <2>2. PICK q : proposals' = Append(proposals, q)
    BY <1>1 DEF Propose, create_proposal
  <2>3. proposals \in Seq(Proposal)
    BY DEF IInv, ProposalsOK
  <2>4. Len(proposals) + 1 \in DOMAIN proposals'
    BY <2>2, <2>3, AppendProperties, LenProperties
  <2>5. StoreOK(s)
    BY PendingChecked DEF IInv, BlockOK
  <2> HIDE DEF s
  <2>6. s.points[a] \in Points /\ s.points[a] = points_of(s.escrows[a].status)
    BY <2>5 DEF StoreOK, MembersOK
  <2>7. s.escrows[a].status = "Voting"
    BY <2>1, <2>6 DEF points_of, vote_power, ABSENT, VOTING_POINTS
  <2>8. b.proposal_id = Len(proposals) + 1 /\ b.voter = a
    BY <2>1
  <2> QED BY <2>1, <2>4, <2>7, <2>8 DEF Commit
<1>2. ASSUME NEW id \in DOMAIN proposals, NEW a \in Addr, NEW vote \in CastVotes,
             Vote(a, id, vote)
      PROVE  b.proposal_id \in DOMAIN proposals' /\ escrows'[b.voter].status = "Voting"
  <2>1. b.proposal_id = id /\ b.voter = a
    BY <1>2 DEF Vote
  <2> QED BY <1>2, <2>1, ProposalsGrow DEF Vote, store_vars
<1>3. ASSUME \/ \E a \in Addr : \/ \E amount \in Payments : DepositEscrow(a, amount)
                               \/ ReturnEscrow(a) \/ LeaveImmediately(a)
                               \/ LeaveTrustedCircle(a) \/ WithdrawRewards(a)
             \/ CheckPending \/ DistributeRewards \/ NextBlock \/ UNCHANGED vars
             \/ \E amount \in Rewards : SendRewards(amount)
             \/ \E id \in DOMAIN proposals : Close(id)
      PROVE  ballots' = ballots
  BY <1>3 DEF DepositEscrow, ReturnEscrow, LeaveImmediately, LeaveTrustedCircle,
       WithdrawRewards, CheckPending, DistributeRewards, NextBlock, SendRewards, Close, vars,
       proposal_vars
<1>4. ASSUME NEW id \in DOMAIN proposals, Execute(id)
      PROVE  ballots' = ballots
  BY <1>4 DEF Execute, ExecuteEditTrustedCircle, ExecuteAddVotingMembers,
       ExecuteAddRemoveNonVotingMembers, ExecuteWhitelistContract, ExecuteRemoveContract,
       whitelist_contract_addr, remove_contract_addr, AddRemove, ExecutePunishMembers
<1> QED BY <1>1, <1>2, <1>3, <1>4 DEF Next

\* A proposal, when it is made, ends a voting period later.
LEMMA EndStep ==
  ASSUME IInv, [Next]_vars, NEW id \in DOMAIN proposals', id \notin DOMAIN proposals
  PROVE  proposals'[id].expires = now' + voting_period_secs(circle'.rules)
<1>1. ASSUME NEW a \in Addr, NEW content \in Contents, Propose(a, content)
      PROVE  proposals'[id].expires = now' + voting_period_secs(circle'.rules)
  <2> DEFINE s == IF height > 0 THEN check_pending(Store, circle, height - 1) ELSE Store
             k == IF height > 0 THEN enforce_escrow(circle) ELSE circle
             prop == [start_height |-> height, expires |-> now + voting_period_secs(k.rules),
                      content |-> content, status |-> "Open", rules |-> k.rules,
                      total_points |-> s.total,
                      votes |-> add_vote(NoVotes, "Yes", vote_power(s.points[a]))]
             q == update_status(prop, now)
  <2>1. proposals' = Append(proposals, q) /\ circle' = k /\ now' = now
    BY <1>1 DEF Propose, create_proposal, block_vars
  <2> HIDE DEF k, s
  <2>2. q.expires = now + voting_period_secs(k.rules)
    BY DEF update_status
  <2> HIDE DEF q
  <2>3. proposals \in Seq(Proposal)
    BY DEF IInv, ProposalsOK
  <2>4. proposals'[id] = q
    BY <2>1, <2>3, AppendProperties, LenProperties
  <2> QED BY <2>1, <2>2, <2>4
<1>2. ASSUME NEW a \in Addr, LeaveTrustedCircle(a)
      PROVE  FALSE
  BY <1>2 DEF LeaveTrustedCircle, adjust_open_proposals
<1>3. ASSUME NEW n \in DOMAIN proposals, Execute(n)
      PROVE  FALSE
  <2>1. \/ proposals' = executed(n)
        \/ \E L : proposals' = adjust_open_proposals(executed(n), L)
    BY <1>3 DEF Execute, ExecuteEditTrustedCircle, ExecuteAddVotingMembers,
         ExecuteAddRemoveNonVotingMembers, ExecuteWhitelistContract, ExecuteRemoveContract,
         whitelist_contract_addr, remove_contract_addr, AddRemove, ExecutePunishMembers
  <2>2. DOMAIN executed(n) = DOMAIN proposals
    BY DEF executed
  <2> QED BY <2>1, <2>2 DEF adjust_open_proposals
<1>4. ASSUME NEW n \in DOMAIN proposals,
             Close(n) \/ \E a \in Addr, vote \in CastVotes : Vote(a, n, vote)
      PROVE  FALSE
  BY <1>4 DEF Close, Vote
<1>5. ASSUME \/ \E a \in Addr : \/ \E amount \in Payments : DepositEscrow(a, amount)
                               \/ ReturnEscrow(a) \/ LeaveImmediately(a) \/ WithdrawRewards(a)
             \/ CheckPending \/ DistributeRewards \/ NextBlock \/ UNCHANGED vars
             \/ \E amount \in Rewards : SendRewards(amount)
      PROVE  FALSE
  BY <1>5 DEF DepositEscrow, ReturnEscrow, LeaveImmediately, WithdrawRewards, CheckPending,
       DistributeRewards, NextBlock, SendRewards, vars, proposal_vars
<1> QED BY <1>1, <1>2, <1>3, <1>4, <1>5 DEF Next

LEMMA NextHeld ==
  ASSUME IInv, HInv, [Next]_vars, [PeriodGrows]_vars
  PROVE  HInv'
<1> DEFINE span == voting_period_secs(circle.rules)
<1>0. IInv'
  BY NextKeeps
<1>1. /\ span \in Nat /\ voting_period_secs(circle'.rules) \in Nat
      /\ span <= voting_period_secs(circle'.rules)
  <2>1. circle \in CircleType /\ circle' \in CircleType
    BY <1>0 DEF IInv, CircleOK
  <2>2. circle.rules \in VotingRulesType /\ circle'.rules \in VotingRulesType
    BY <2>1 DEF CircleType
  <2>3. circle'.rules.voting_period >= circle.rules.voting_period
    BY <2>2 DEF PeriodGrows, VotingRulesType, vars
  <2> QED BY <2>2, <2>3, PeriodType, PeriodsCompare
<1> HIDE DEF span
<1>2. now \in Nat /\ now' \in Nat /\ now' >= now
  BY TimePasses DEF IInv, BlockOK
<1>3. /\ DOMAIN proposals \subseteq DOMAIN proposals'
      /\ \A id \in DOMAIN proposals : proposals'[id].expires = proposals[id].expires
      /\ \A id \in DOMAIN proposals : proposals[id].expires \in Nat
  BY ProposalsGrow, NextAdvances, InvariantSays DEF AllAdvance, Advances, Proposal
<1>4. ASSUME NEW id \in DOMAIN proposals'
      PROVE  proposals'[id].expires <= now' + voting_period_secs(circle'.rules)
  <2>1. CASE id \in DOMAIN proposals
    <3>1. proposals[id].expires <= now + span
      BY <2>1 DEF HInv, span
    <3> QED BY <2>1, <3>1, <1>1, <1>2, <1>3
  <2>2. CASE id \notin DOMAIN proposals
    BY <2>2, <1>1, <1>2, EndStep
  <2> QED BY <2>1, <2>2
<1>5. \A b \in ballots' : b.proposal_id \in DOMAIN proposals'
  BY <1>3, BallotStep DEF HInv
<1>6. ASSUME NEW x \in Addr, NEW b \in ballots', escrows'[x].status = "Leaving", b.voter = x
      PROVE  proposals'[b.proposal_id].expires <= escrows'[x].claim_at
  <2>1. b \in ballots
    BY <1>6, BallotStep
  <2>2. b.proposal_id \in DOMAIN proposals
    BY <2>1 DEF HInv
  <2>3. CASE escrows[x].status = "Leaving" /\ escrows'[x].claim_at = escrows[x].claim_at
    BY <1>3, <1>6, <2>1, <2>2, <2>3 DEF HInv
  <2>4. CASE escrows'[x].claim_at = claim_time
    <3>1. proposals[b.proposal_id].expires <= now + span
      BY <2>2 DEF HInv, span
    <3>2. claim_time = now + 2 * span
      BY DEF claim_time, span
    <3> QED BY <1>1, <1>2, <1>3, <2>2, <2>4, <3>1, <3>2
  <2> QED BY <1>6, <2>3, <2>4, LeavingStep
<1> QED BY <1>4, <1>5, <1>6 DEF HInv

\* The escrow of a leaver outlasts every vote the leaver took part in, unless
\* the circle shortens its voting period.
THEOREM LeaversHeld == Spec /\ [][PeriodGrows]_vars => []LeaverHeldToVotes
<1>1. Init => IInv /\ HInv
  <2>1. Init => proposals = <<>> /\ ballots = {}
    BY DEF Init
  <2>2. DOMAIN <<>> = {}
    OBVIOUS
  <2> QED BY <2>1, <2>2, InitHolds DEF HInv
<1>2. IInv /\ HInv /\ [Next]_vars /\ [PeriodGrows]_vars => (IInv /\ HInv)'
  BY NextKeeps, NextHeld
<1>3. HInv => LeaverHeldToVotes
  BY DEF HInv, LeaverHeldToVotes
<1> QED BY <1>1, <1>2, <1>3, PTL DEF Spec

-----------------------------------------------------------------------------
\* VotersHoldEscrow, as long as the escrow is not raised

NeverRaised == circle.escrow_pending.amount <= circle.escrow_amount

\* Whose escrow has been complete at some time
Full == {"PendingPaid", "Voting"}
HoldOK(es, amount) == \A x \in Addr : es[x].status \in Full => es[x].paid >= amount

\* Who votes now was pending paid, or a voter.
VotingOf(es, fs) ==
  \A x \in Addr : fs[x].status \in Full => es[x].status \in Full /\ fs[x].paid = es[x].paid

LEMMA VotingStays ==
  ASSUME NEW es \in [Addr -> EscrowStatus], NEW A, \A x \in A : es[x].status = "PendingPaid"
  PROVE  VotingOf(es, voting(es, A))
<1>1. Kept(es, voting(es, A))
  BY VotingKept
<1>2. \A x \in Addr : x \notin A => voting(es, A)[x] = es[x]
  BY DEF voting
<1> QED BY <1>1, <1>2 DEF VotingOf, Kept, Full

LEMMA CheckedHold ==
  ASSUME NEW s, StoreOK(s), NEW k, CircleOK(k), k.escrow_pending.amount <= k.escrow_amount,
         NEW h \in Nat, now \in Nat, HoldOK(s.escrows, k.escrow_amount)
  PROVE  HoldOK(check_pending(s, k, h).escrows, enforce_escrow(k).escrow_amount)
<1> DEFINE t == check_pending_escrow(s, k, h)
           ready == ready_batches(t, now)
           u == check_pending(s, k, h)
           amount == enforce_escrow(k).escrow_amount
<1>1. StoreOK(t) /\ s.escrows \in [Addr -> EscrowStatus] /\ t.escrows \in [Addr -> EscrowStatus]
  BY PendingEscrowChecked DEF StoreOK, MembersOK
<1>2. /\ k.escrow_pending.amount \in Nat /\ k.escrow_amount \in Nat
      /\ \A x \in Addr : s.escrows[x].paid \in Nat
  BY <1>1 DEF CircleOK, CircleType, PendingEscrow, EscrowStatus
<1>3. /\ amount <= k.escrow_amount /\ amount \in Nat
      /\ escrow_due(k) => amount = k.escrow_pending.amount
  <2>1. k \in CircleType
    BY DEF CircleOK
  <2>2. CASE escrow_due(k)
    BY <1>2, <2>1, <2>2 DEF enforce_escrow, CircleType
  <2>3. CASE ~escrow_due(k)
    BY <1>2, <2>3 DEF enforce_escrow
  <2> QED BY <2>2, <2>3
<1> HIDE DEF amount
<1>4. HoldOK(s.escrows, amount)
  BY <1>2, <1>3 DEF HoldOK
<1>5. HoldOK(t.escrows, amount)
  <2>1. CASE /\ escrow_due(k)
             /\ t.escrows = [x \in Addr |->
                  IF x \in paid_pending(s, k) THEN [s.escrows[x] EXCEPT !.status = "PendingPaid"]
                                              ELSE s.escrows[x]]
    <3>1. \A x \in paid_pending(s, k) : s.escrows[x].paid >= amount
      BY <1>3, <2>1 DEF paid_pending
    <3>2. \A x \in Addr : [s.escrows[x] EXCEPT !.status = "PendingPaid"].paid = s.escrows[x].paid
      BY <1>1 DEF EscrowStatus
    <3> HIDE DEF t
    <3> QED BY <2>1, <3>1, <3>2, <1>4 DEF HoldOK
  <2>2. CASE t = s
    BY <1>4, <2>2
  <2> QED BY <1>2, <2>1, <2>2, EnforcedStore
<1>6. u = convert_all_paid_members_to_voters(t, ready, h)
  BY DEF check_pending
<1> HIDE DEF t, u, ready
<1> DEFINE A == listed(t, ready) \cap WithStatus(t, "PendingPaid")
<1>7. u.escrows = voting(t.escrows, A) /\ \A x \in A : t.escrows[x].status = "PendingPaid"
  BY <1>1, <1>6, ConvertedStore DEF WithStatus
<1> HIDE DEF A
<1>8. VotingOf(t.escrows, u.escrows)
  BY <1>1, <1>7, VotingStays
<1>9. HoldOK(u.escrows, amount)
  BY <1>5, <1>8 DEF HoldOK, VotingOf
<1> QED BY <1>9 DEF u, amount

LEMMA DepositHold ==
  ASSUME IInv, NeverRaised, HoldOK(escrows, circle.escrow_amount),
         NEW a \in Addr, NEW amount \in Payments, DepositEscrow(a, amount)
  PROVE  HoldOK(escrows', circle.escrow_amount)
<1> DEFINE paid == escrows[a].paid + amount
           id == escrows[a].proposal_id
           s == [Store EXCEPT !.escrows[a].paid = paid]
           t == [s EXCEPT !.escrows[a].status = "PendingPaid"]
<1>1. escrows \in [Addr -> EscrowStatus] /\ amount \in Nat
  BY InvariantSays, CircleAssumption DEF EscrowsOK
<1>2. /\ StoreOK(Store) /\ paid \in Nat /\ paid >= escrows[a].paid /\ now \in Nat /\ height \in Nat
      /\ \A x \in Addr : escrows[x].paid \in Nat
  BY <1>1 DEF EscrowStatus, IInv, BlockOK
<1>3. get_escrow(circle) = circle.escrow_amount /\ circle.escrow_amount \in Nat
  <2>1. circle.escrow_amount \in Nat /\ circle.escrow_pending.amount \in Nat
    BY DEF IInv, CircleOK, CircleType, PendingEscrow
  <2> QED BY <2>1 DEF get_escrow, NeverRaised
<1> HIDE DEF paid
<1>4. StoreOK(s) /\ s.escrows = [escrows EXCEPT ![a].paid = paid]
  BY <1>2, PayEscrow, StoreShape
<1> HIDE DEF s
<1>5. \A x \in Addr :
        /\ s.escrows[x].paid = IF x = a THEN paid ELSE escrows[x].paid
        /\ s.escrows[x].status = escrows[x].status
  BY <1>1, <1>4, OnlyPaid
<1>6. HoldOK(s.escrows, circle.escrow_amount)
  BY <1>2, <1>3, <1>5 DEF HoldOK
<1>7. CASE Commit(s)
  BY <1>6, <1>7 DEF Commit
<1>8. CASE /\ escrows[a].status = "Pending" /\ paid >= get_escrow(circle)
           /\ can_update_batch(t, a, id, now)
           /\ Commit(update_batch_after_escrow_paid(t, a, id, now, height))
  <2> DEFINE u == update_batch_after_escrow_paid(t, a, id, now, height)
             all == t.batches[id].members \cap WithStatus(t, "PendingPaid")
  <2>1. s.escrows[a].status = "Pending" /\ s.escrows \in [Addr -> EscrowStatus]
        /\ DOMAIN s = StoreFields
    BY <1>4, <1>5, <1>8 DEF StoreOK, MembersOK
  <2>2. StoreOK(t) /\ a \in WithStatus(t, "PendingPaid")
    BY <1>4, <2>1, PaidPending
  <2>3. id \in DOMAIN t.batches
    BY <1>8 DEF can_update_batch
  <2>4. t.escrows = [s.escrows EXCEPT ![a].status = "PendingPaid"]
    BY <2>1 DEF StoreFields
  <2>5. \A x \in Addr : /\ t.escrows[x].paid = s.escrows[x].paid
                        /\ x # a => t.escrows[x] = s.escrows[x]
    BY <2>1, <2>4 DEF EscrowStatus
  <2>6. HoldOK(t.escrows, circle.escrow_amount)
    BY <1>3, <1>5, <1>6, <1>8, <2>5 DEF HoldOK
  <2> HIDE DEF t, id
  <2>7. Updated(t, u, a, id, now)
    BY <1>2, <2>2, <2>3, UpdatedStore
  <2>8. escrows' = u.escrows /\ t.escrows \in [Addr -> EscrowStatus]
    BY <1>8, <2>2 DEF Commit, StoreOK, MembersOK
  <2> HIDE DEF u
  <2>9. u.escrows \in {t.escrows, voting(t.escrows, {a}), voting(t.escrows, all)}
    BY <2>7 DEF Updated
  <2>10. /\ \A x \in all : t.escrows[x].status = "PendingPaid"
         /\ \A x \in {a} : t.escrows[x].status = "PendingPaid"
    BY <2>2 DEF WithStatus
  <2> HIDE DEF all
  <2>11. VotingOf(t.escrows, u.escrows)
    BY <2>8, <2>9, <2>10, VotingStays DEF VotingOf
  <2> QED BY <2>6, <2>8, <2>11 DEF HoldOK, VotingOf
<1> QED BY <1>7, <1>8 DEF DepositEscrow, paid, s, t, id

LEMMA NextHold ==
  ASSUME IInv, NeverRaised, HoldOK(escrows, circle.escrow_amount), [Next]_vars
  PROVE  HoldOK(escrows', circle'.escrow_amount)
<1> DEFINE Holds == HoldOK(escrows', circle'.escrow_amount)
<1>0. /\ StoreOK(Store) /\ CircleOK(circle) /\ now \in Nat /\ height \in Nat
      /\ circle.escrow_amount \in Nat /\ get_escrow(circle) = circle.escrow_amount
      /\ \A x \in Addr : escrows[x].paid \in Nat
  <2>1. circle.escrow_amount \in Nat /\ circle.escrow_pending.amount \in Nat
    BY DEF IInv, CircleOK, CircleType, PendingEscrow
  <2>2. \A x \in Addr : escrows[x].paid \in Nat
    BY InvariantSays DEF EscrowsOK, EscrowStatus
  <2> QED BY <2>1, <2>2 DEF IInv, BlockOK, get_escrow, NeverRaised
<1>1. ASSUME NEW a \in Addr, NEW amount \in Payments, DepositEscrow(a, amount)
      PROVE  Holds
  BY <1>1, DepositHold DEF DepositEscrow
<1>2. ASSUME NEW a \in Addr, ReturnEscrow(a)
      PROVE  Holds
  <2>1. circle' = circle
    BY <1>2 DEF ReturnEscrow
  <2>2. CASE escrows'[a] = NoEscrow
    BY <1>2, <2>1, <2>2, ReturnKept DEF HoldOK, NoEscrow, Full
  <2>3. CASE escrows[a].status = "Voting"
    <3>1. escrows'[a].paid = circle.escrow_amount
      BY <1>0, <1>2, <2>3, ReturnKept DEF refundable
    <3> QED BY <1>0, <1>2, <2>1, <3>1, ReturnKept DEF HoldOK
  <2>4. CASE escrows'[a].status = "Leaving"
    BY <1>2, <2>1, <2>4, ReturnKept DEF HoldOK, Full
  <2> QED BY <1>2, <2>2, <2>3, <2>4, ReturnKept
<1>3. ASSUME NEW a \in Addr, LeaveImmediately(a)
      PROVE  Holds
  <2>1. /\ escrows' = [y \in Addr |-> IF y \in {a} THEN NoEscrow ELSE escrows[y]]
        /\ circle' = circle
    BY <1>3, StoreShape
       DEF LeaveImmediately, Commit, Store, StoreFields, remove_members, save_points
  <2> QED BY <2>1 DEF NoEscrow, HoldOK, Full
<1>4. ASSUME NEW a \in Addr, LeaveTrustedCircle(a)
      PROVE  Holds
  <2>1. circle' = circle
    BY <1>4 DEF LeaveTrustedCircle
  <2> QED BY <1>4, <2>1, LeaveKept DEF HoldOK, Full
<1>5. CASE CheckPending
  <2>1. Commit(check_pending(Store, circle, height)) /\ circle' = enforce_escrow(circle)
    BY <1>5 DEF CheckPending
  <2> QED BY <1>0, <2>1, CheckedHold, StoreShape DEF Commit, NeverRaised
<1>6. ASSUME NEW a \in Addr, NEW content \in Contents, Propose(a, content)
      PROVE  Holds
  <2>1. CASE height > 0
    <3>1. /\ Commit(check_pending(Store, circle, height - 1)) /\ circle' = enforce_escrow(circle)
          /\ height - 1 \in Nat
      BY <1>0, <1>6, <2>1 DEF Propose
    <3> QED BY <1>0, <3>1, CheckedHold, StoreShape DEF Commit, NeverRaised
  <2>2. CASE ~(height > 0)
    <3>1. Commit(Store) /\ circle' = circle
      BY <1>6, <2>2 DEF Propose
    <3> QED BY <3>1, StoreShape DEF Commit
  <2> QED BY <2>1, <2>2
<1>7. ASSUME NEW id \in DOMAIN proposals, ExecuteEditTrustedCircle(id)
      PROVE  Holds
  <2>1. escrows' = escrows /\ circle'.escrow_amount = circle.escrow_amount
    BY <1>7 DEF ExecuteEditTrustedCircle, store_vars, apply_adjustments
  <2> QED BY <2>1
<1>8. ASSUME NEW id \in DOMAIN proposals, ExecuteAddVotingMembers(id)
      PROVE  Holds
  <2>1. circle' = circle /\ Become(NoEscrow, "Pending", id, 0).status = "Pending"
    BY <1>8 DEF ExecuteAddVotingMembers, NoEscrow, Become
  <2> QED BY <1>8, <2>1, AddVotingKept DEF HoldOK, Full
<1>9. ASSUME NEW id, NEW add, NEW remove, AddRemove(id, add, remove)
      PROVE  Holds
  <2>1. /\ circle' = circle /\ NoEscrow.status = "None"
        /\ Become(NoEscrow, "NonVoting", 0, 0).status = "NonVoting"
    BY <1>9 DEF AddRemove, NoEscrow, Become
  <2> QED BY <1>9, <2>1, AddRemoveKept DEF HoldOK, Full
<1>10. ASSUME NEW id \in DOMAIN proposals, ExecutePunishMembers(id)
       PROVE  Holds
  <2>1. circle' = circle
    BY <1>10 DEF ExecutePunishMembers
  <2>2. ASSUME NEW x \in Addr, escrows'[x].status \in Full
        PROVE  escrows'[x].paid >= circle.escrow_amount
    <3>1. x \notin kicked_out(id) \cup demoted_by(id) /\ escrows'[x].status = escrows[x].status
      BY <1>10, <2>2, Punished DEF Full
    <3>2. CASE x \in named(id)
      <4>1. left_paid(id, x) \in Nat /\ escrows'[x].paid = left_paid(id, x)
        BY <1>10, <3>2, Punished
      <4>2. ~(left_paid(id, x) < get_escrow(circle))
        BY <3>1, <3>2 DEF demoted_by
      <4> QED BY <1>0, <4>1, <4>2
    <3>3. CASE x \notin named(id)
      BY <1>10, <2>2, <3>1, <3>3, Punished DEF HoldOK
    <3> QED BY <3>2, <3>3
  <2> QED BY <2>1, <2>2 DEF HoldOK
<1>11. ASSUME NEW id \in DOMAIN proposals, Execute(id)
       PROVE  Holds
  BY <1>11, <1>7, <1>8, <1>9, <1>10 DEF Execute, ExecuteAddRemoveNonVotingMembers,
       ExecuteWhitelistContract, ExecuteRemoveContract, whitelist_contract_addr,
       remove_contract_addr
<1>12. ASSUME \/ \E id \in DOMAIN proposals :
                   Close(id) \/ \E a \in Addr, vote \in CastVotes : Vote(a, id, vote)
              \/ \E a \in Addr : WithdrawRewards(a)
              \/ DistributeRewards \/ NextBlock \/ UNCHANGED vars
              \/ \E amount \in Rewards : SendRewards(amount)
       PROVE  escrows' = escrows /\ circle' = circle
  BY <1>12 DEF Close, Vote, WithdrawRewards, DistributeRewards, NextBlock, SendRewards,
       vars, store_vars
<1>13. CASE escrows' = escrows /\ circle' = circle
  BY <1>13
<1> QED BY <1>1, <1>2, <1>3, <1>4, <1>5, <1>6, <1>11, <1>12, <1>13 DEF Next

\* A voter has the escrow the circle requires, also when it is lowered, unless
\* the escrow is raised: who is pending paid is promoted with what it has paid.
THEOREM VotersHold == Spec /\ []NeverRaised => []VotersHoldEscrow
<1> DEFINE Holds == HoldOK(escrows, circle.escrow_amount)
<1>1. Init => IInv /\ Holds
  <2> SUFFICES ASSUME Init PROVE Holds
    BY InitHolds
  <2>1. PICK amount \in Payments :
          /\ amount >= circle.escrow_amount
          /\ \A x \in Addr :
               /\ escrows[x].paid = IF x = Creator THEN amount ELSE 0
               /\ x # Creator => escrows[x].status \in {"None", "NonVoting"}
    BY InitStore
  <2> QED BY <2>1 DEF HoldOK, Full
<1>2. IInv /\ NeverRaised /\ Holds /\ [Next]_vars => (IInv /\ Holds)'
  BY NextKeeps, NextHold
<1>3. Holds => VotersHoldEscrow
  BY StoreShape DEF HoldOK, VotersHoldEscrow, Voters, WithStatus, Full
<1> QED BY <1>1, <1>2, <1>3, PTL DEF Spec

-----------------------------------------------------------------------------
\* Who has paid awaits the promotion of a batch

\* While an escrow edit is pending, it asks for no less than the circle does.
\* A lowering lets members have paid whose batches may be promoted already.
NeverLowered ==
  circle.escrow_pending # NoPending => circle.escrow_pending.amount >= circle.escrow_amount

\* PaidAwaitPromotion of the escrows es with the batches bs: inductive together
\* with why a batch was promoted
AwaitOK(es, bs, time) ==
  /\ \A id \in DOMAIN bs : bs[id].batch_promoted => can_promote(bs[id], time)
  /\ \A x \in Addr : es[x].status = "PendingPaid" => ~bs[es[x].proposal_id].batch_promoted

\* From es to fs, nobody gets to have paid
NobodyPays(es, fs) ==
  \A x \in Addr : fs[x].status = "PendingPaid" =>
    es[x].status = "PendingPaid" /\ fs[x].proposal_id = es[x].proposal_id

\* From bs to cs, batches are added that are to be promoted
BatchesAdded(bs, cs) ==
  /\ DOMAIN bs \subseteq DOMAIN cs
  /\ \A id \in DOMAIN bs : cs[id] = bs[id]
  /\ \A id \in DOMAIN cs \ DOMAIN bs : ~cs[id].batch_promoted

LEMMA AwaitKept ==
  ASSUME NEW s, BatchesTyped(s.batches), WaitOK(s), NEW time \in Nat,
         AwaitOK(s.escrows, s.batches, time), NEW fs, NobodyPays(s.escrows, fs),
         NEW cs, BatchesAdded(s.batches, cs), NEW later \in Nat, later >= time
  PROVE  AwaitOK(fs, cs, later)
<1>1. ASSUME NEW id \in DOMAIN cs, cs[id].batch_promoted
      PROVE  can_promote(cs[id], later)
  <2>1. id \in DOMAIN s.batches /\ cs[id] = s.batches[id]
    BY <1>1 DEF BatchesAdded
  <2>2. s.batches[id].grace_ends_at \in Nat /\ can_promote(s.batches[id], time)
    BY <1>1, <2>1 DEF AwaitOK, BatchesTyped, Batch
  <2> QED BY <2>1, <2>2 DEF can_promote
<1>2. ASSUME NEW x \in Addr, fs[x].status = "PendingPaid"
      PROVE  ~cs[fs[x].proposal_id].batch_promoted
  <2>1. s.escrows[x].status = "PendingPaid" /\ fs[x].proposal_id = s.escrows[x].proposal_id
    BY <1>2 DEF NobodyPays
  <2>2. s.escrows[x].proposal_id \in DOMAIN s.batches
    BY <2>1 DEF WaitOK
  <2> QED BY <2>1, <2>2 DEF AwaitOK, BatchesAdded
<1> QED BY <1>1, <1>2 DEF AwaitOK

\* A batch is promoted with everybody it lists who has paid.
LEMMA AwaitFlagged ==
  ASSUME NEW s, BatchesTyped(s.batches), s.escrows \in [Addr -> EscrowStatus], WaitOK(s),
         NEW time \in Nat, AwaitOK(s.escrows, s.batches, time),
         NEW ready, \A id \in ready : id \in DOMAIN s.batches => can_promote(s.batches[id], time),
         NEW A, \A id \in ready : \A x \in Addr :
           x \in s.batches[id].members /\ s.escrows[x].status = "PendingPaid" => x \in A
  PROVE  AwaitOK(voting(s.escrows, A), flagged(s.batches, ready), time)
<1> DEFINE cs == flagged(s.batches, ready)
           fs == voting(s.escrows, A)
<1>1. \A id \in DOMAIN s.batches :
        /\ cs[id].batch_promoted = (id \in ready \/ s.batches[id].batch_promoted)
        /\ can_promote(cs[id], time) = can_promote(s.batches[id], time)
  BY FlaggedBatches DEF SameBatches, can_promote
<1>2. DOMAIN cs = DOMAIN s.batches
  BY DEF flagged
<1>3. \A x \in Addr : fs[x].status = "PendingPaid" => fs[x] = s.escrows[x] /\ x \notin A
  <2> SUFFICES ASSUME NEW x \in Addr, fs[x].status = "PendingPaid"
               PROVE  fs[x] = s.escrows[x] /\ x \notin A
    OBVIOUS
  <2>1. fs[x] = IF x \in A THEN Become(s.escrows[x], "Voting", 0, 0) ELSE s.escrows[x]
    BY DEF voting
  <2>2. Become(s.escrows[x], "Voting", 0, 0).status = "Voting"
    BY DEF Become, EscrowStatus
  <2> HIDE DEF fs
  <2> QED BY <2>1, <2>2
<1> HIDE DEF cs, fs
<1>4. ASSUME NEW x \in Addr, fs[x].status = "PendingPaid"
      PROVE  ~cs[fs[x].proposal_id].batch_promoted
  <2> DEFINE id == s.escrows[x].proposal_id
  <2>1. fs[x] = s.escrows[x] /\ x \notin A
    BY <1>3, <1>4
  <2>2. id \in DOMAIN s.batches /\ x \in s.batches[id].members
    BY <1>4, <2>1 DEF WaitOK
  <2>3. id \notin ready /\ ~s.batches[id].batch_promoted
    BY <1>4, <2>1, <2>2 DEF AwaitOK
  <2> QED BY <1>1, <2>1, <2>2, <2>3
<1>5. \A id \in DOMAIN cs : cs[id].batch_promoted => can_promote(cs[id], time)
  BY <1>1, <1>2 DEF AwaitOK
<1>6. AwaitOK(fs, cs, time)
  BY <1>4, <1>5 DEF AwaitOK
<1> QED BY <1>6 DEF fs, cs

LEMMA CheckedAwait ==
  ASSUME NEW s, StoreOK(s), WaitOK(s), NEW k, CircleOK(k), NEW h \in Nat, now \in Nat,
         can_check_pending(s, k, h), AwaitOK(s.escrows, s.batches, now),
         k.escrow_pending # NoPending => k.escrow_pending.amount >= k.escrow_amount
  PROVE  LET u == check_pending(s, k, h) IN AwaitOK(u.escrows, u.batches, now)
<1> DEFINE t == check_pending_escrow(s, k, h)
           ready == ready_batches(t, now)
           u == check_pending(s, k, h)
           D == short_voters(s, k)
           id == k.escrow_pending.proposal_id
           A == listed(t, ready) \cap WithStatus(t, "PendingPaid")
<1>1. StoreOK(t) /\ WaitOK(t)
  BY PendingEscrowChecked, WaitEnforced
<1>2. AwaitOK(t.escrows, t.batches, now)
  <2>1. k.escrow_pending.amount \in Nat /\ k.escrow_amount \in Nat
    BY DEF CircleOK, CircleType, PendingEscrow
  <2>2. CASE /\ escrow_due(k) /\ k.escrow_pending.amount > k.escrow_amount
             /\ t.escrows = pending(s.escrows, D, id)
             /\ t.batches = with_batch(s.batches, id, now, D, Cardinality(D))
    <3>1. D \in SUBSET Addr
      BY DEF short_voters, WithStatus
    <3>2. Cardinality(D) \in Nat /\ (Cardinality(D) > 0 => id \notin DOMAIN s.batches)
      BY <2>2, <3>1, AddrSubsets DEF can_check_pending, can_create_batch
    <3> HIDE DEF t, D, id
    <3>3. BatchesAdded(s.batches, t.batches)
      <4>1. CASE Cardinality(D) = 0
        BY <2>2, <4>1 DEF BatchesAdded, with_batch
      <4>2. CASE Cardinality(D) > 0
        BY <2>2, <3>2, <4>2 DEF BatchesAdded, with_batch
      <4> QED BY <3>2, <4>1, <4>2
    <3>4. \A x \in Addr : Become(s.escrows[x], "Pending", id, 0).status # "PendingPaid"
                          \/ Become(s.escrows[x], "Pending", id, 0) = s.escrows[x]
      BY DEF Become
    <3>5. NobodyPays(s.escrows, t.escrows)
      BY <2>2, <3>4 DEF NobodyPays, pending
    <3> QED BY <3>3, <3>5, AwaitKept DEF StoreOK
  <2>3. ~(escrow_due(k) /\ k.escrow_pending.amount < k.escrow_amount)
    BY <2>1 DEF escrow_due
  <2> QED BY <2>2, <2>3, EnforcedStore
<1>3. u = convert_all_paid_members_to_voters(t, ready, h)
  BY DEF check_pending
<1>4. \A x \in ready : can_promote(t.batches[x], now)
  <2>1. \A x \in ready : x \in DOMAIN t.batches /\ t.batches[x].grace_ends_at <= now
    BY DEF ready_batches
  <2>2. \A x \in DOMAIN t.batches : t.batches[x].grace_ends_at \in Nat
    BY <1>1 DEF StoreOK, BatchesTyped, Batch
  <2> HIDE DEF t, ready
  <2> QED BY <2>1, <2>2 DEF can_promote
<1> HIDE DEF t, ready, u
<1>5. u.escrows = voting(t.escrows, A) /\ u.batches = flagged(t.batches, ready)
  BY <1>1, <1>3, ConvertedStore
<1>6. \A x \in ready : \A y \in Addr :
        y \in t.batches[x].members /\ t.escrows[y].status = "PendingPaid" => y \in A
  BY DEF listed, WithStatus
<1> HIDE DEF A
<1>7. AwaitOK(u.escrows, u.batches, now)
  BY <1>1, <1>2, <1>4, <1>5, <1>6, AwaitFlagged DEF StoreOK, MembersOK
<1> QED BY <1>7 DEF u

LEMMA DepositAwait ==
  ASSUME IInv, WaitOK(Store), AwaitOK(escrows, batches, now),
         NEW a \in Addr, NEW amount \in Payments, DepositEscrow(a, amount)
  PROVE  AwaitOK(escrows', batches', now)
<1> DEFINE paid == escrows[a].paid + amount
           id == escrows[a].proposal_id
           s == [Store EXCEPT !.escrows[a].paid = paid]
           t == [s EXCEPT !.escrows[a].status = "PendingPaid"]
<1>1. escrows \in [Addr -> EscrowStatus] /\ amount \in Nat
  BY InvariantSays, CircleAssumption DEF EscrowsOK
<1>2. StoreOK(Store) /\ paid \in Nat /\ now \in Nat /\ height \in Nat
  BY <1>1 DEF EscrowStatus, IInv, BlockOK
<1> HIDE DEF paid
<1>3. /\ StoreOK(s) /\ s.batches = batches
      /\ s.escrows = [escrows EXCEPT ![a].paid = paid]
  BY <1>2, PayEscrow, StoreShape
<1> HIDE DEF s
<1>4. \A x \in Addr : /\ s.escrows[x].status = escrows[x].status
                      /\ s.escrows[x].proposal_id = escrows[x].proposal_id
  BY <1>1, <1>3, OnlyPaid
<1>5. WaitOK(s) /\ AwaitOK(s.escrows, s.batches, now)
  <2>1. NobodyWaits(Store.escrows, s.escrows) /\ SameBatches(Store.batches, s.batches)
    BY <1>3, <1>4, StoreShape DEF NobodyWaits, SameBatches
  <2>2. WaitOK(s)
    BY <2>1, <1>2, WaitKept DEF StoreOK
  <2> QED BY <1>3, <1>4, <2>2 DEF AwaitOK
<1>6. CASE Commit(s)
  BY <1>5, <1>6 DEF Commit
<1>7. CASE /\ escrows[a].status = "Pending"
           /\ can_update_batch(t, a, id, now)
           /\ Commit(update_batch_after_escrow_paid(t, a, id, now, height))
  <2> DEFINE u == update_batch_after_escrow_paid(t, a, id, now, height)
             bs == one_less(t.batches, id)
             v == [escrows |-> t.escrows, batches |-> bs]
             all == t.batches[id].members \cap WithStatus(t, "PendingPaid")
  <2>1. /\ s.escrows[a].status = "Pending" /\ s.escrows[a].proposal_id = id
        /\ s.escrows \in [Addr -> EscrowStatus] /\ DOMAIN s = StoreFields
    BY <1>3, <1>4, <1>7 DEF StoreOK, MembersOK
  <2>2. StoreOK(t) /\ a \in WithStatus(t, "PendingPaid") /\ t.batches = s.batches
    BY <1>3, <2>1, PaidPending
  <2>3. t.escrows = [s.escrows EXCEPT ![a].status = "PendingPaid"]
    BY <2>1 DEF StoreFields
  <2>4. /\ \A x \in Addr : /\ t.escrows[x].proposal_id = s.escrows[x].proposal_id
                           /\ x # a => t.escrows[x] = s.escrows[x]
        /\ t.escrows[a].status = "PendingPaid"
    BY <2>1, <2>3 DEF EscrowStatus
  <2> HIDE DEF t
  <2>5. id \in DOMAIN t.batches /\ a \in t.batches[id].members
    BY <1>5, <2>1, <2>2 DEF WaitOK
  <2>6. s.batches[id].waiting_escrow >= 1 /\ s.batches[id].waiting_escrow \in Int
    <3>1. a \in waiting(s, id) /\ waiting(s, id) \in SUBSET Addr
      BY <2>1 DEF waiting
    <3>2. IsFiniteSet(waiting(s, id)) /\ Cardinality(waiting(s, id)) \in Nat
      BY <3>1, AddrSubsets
    <3>3. Cardinality(waiting(s, id)) # 0
      BY <3>1, <3>2, FS_EmptySet
    <3>4. s.batches[id].waiting_escrow >= Cardinality(waiting(s, id))
      BY <1>5, <2>2, <2>5 DEF WaitOK
    <3>5. s.batches[id].waiting_escrow \in Int
      BY <2>2, <2>5 DEF StoreOK, BatchesTyped, Batch
    <3> QED BY <3>2, <3>3, <3>4, <3>5
  <2> HIDE DEF id
  <2>7. /\ DOMAIN bs = DOMAIN t.batches /\ BatchesTyped(bs)
        /\ \A x \in DOMAIN bs : x # id => bs[x] = t.batches[x]
        /\ bs[id].batch_promoted = t.batches[id].batch_promoted
        /\ bs[id].grace_ends_at = t.batches[id].grace_ends_at
        /\ bs[id].members = t.batches[id].members
    BY <2>2, <2>5 DEF StoreOK, BatchesTyped, Batch, one_less
  <2>8. Updated(t, u, a, id, now)
    BY <1>2, <2>2, <2>5, UpdatedStore
  <2>9. escrows' = u.escrows /\ batches' = u.batches
    BY <1>7 DEF Commit, id
  <2> HIDE DEF u, bs, all
  <2>10. \A x \in DOMAIN bs : bs[x].batch_promoted => can_promote(bs[x], now)
    <3>1. CASE bs[id].batch_promoted
      <4>1. s.batches[id].batch_promoted /\ can_promote(s.batches[id], now)
        BY <1>5, <2>2, <2>5, <2>7, <3>1 DEF AwaitOK
      <4>2. now >= bs[id].grace_ends_at
        BY <2>2, <2>6, <2>7, <4>1 DEF can_promote
      <4> QED BY <1>5, <2>2, <2>7, <4>2 DEF AwaitOK, can_promote
    <3>2. CASE ~bs[id].batch_promoted
      BY <1>5, <2>2, <2>7, <3>2 DEF AwaitOK
    <3> QED BY <3>1, <3>2
  <2>11. \A x \in Addr : t.escrows[x].status = "PendingPaid" =>
           t.escrows[x].proposal_id \in DOMAIN bs /\ x \in bs[t.escrows[x].proposal_id].members
    BY <1>5, <2>1, <2>2, <2>4, <2>5, <2>7 DEF WaitOK
  <2>12. \A x \in Addr \ {a} : t.escrows[x].status = "PendingPaid" =>
           ~bs[t.escrows[x].proposal_id].batch_promoted
    BY <1>5, <2>2, <2>4, <2>7, <2>11 DEF AwaitOK
  <2>13. t.escrows \in [Addr -> EscrowStatus]
    BY <2>2 DEF StoreOK, MembersOK
  <2>14. \A A, x : x \in Addr /\ voting(t.escrows, A)[x].status = "PendingPaid" =>
           x \notin A /\ voting(t.escrows, A)[x] = t.escrows[x]
    BY <2>13 DEF voting, Become, EscrowStatus
  <2>15. CASE ~can_promote(bs[id], now) /\ u.escrows = t.escrows /\ u.batches = bs
    BY <2>1, <2>4, <2>5, <2>7, <2>9, <2>10, <2>12, <2>15 DEF AwaitOK
  <2>16. CASE u.escrows = voting(t.escrows, {a}) /\ u.batches = bs
    BY <2>9, <2>10, <2>12, <2>14, <2>16 DEF AwaitOK
  <2>17. CASE /\ can_promote(bs[id], now)
              /\ u.escrows = voting(t.escrows, all) /\ u.batches = flagged(bs, {id})
    <3>1. DOMAIN u.batches = DOMAIN bs
      BY <2>17 DEF flagged
    <3>2. \A x \in DOMAIN bs :
            /\ u.batches[x].batch_promoted = (x = id \/ bs[x].batch_promoted)
            /\ can_promote(u.batches[x], now) = can_promote(bs[x], now)
      BY <2>7, <2>17, FlaggedBatches DEF SameBatches, can_promote
    <3>3. ASSUME NEW x \in Addr, u.escrows[x].status = "PendingPaid"
          PROVE  ~u.batches[u.escrows[x].proposal_id].batch_promoted
      <4>1. x \notin all /\ u.escrows[x] = t.escrows[x]
        BY <2>14, <2>17, <3>3
      <4>2. x \notin t.batches[id].members
        BY <3>3, <4>1 DEF all, WithStatus
      <4>3. t.escrows[x].proposal_id # id /\ x # a
        BY <2>5, <2>7, <2>11, <3>3, <4>1, <4>2
      <4> QED BY <2>11, <2>12, <3>2, <3>3, <4>1, <4>3
    <3>4. \A x \in DOMAIN u.batches : u.batches[x].batch_promoted => can_promote(u.batches[x], now)
      BY <2>10, <2>17, <3>1, <3>2
    <3> QED BY <2>9, <3>3, <3>4 DEF AwaitOK
  <2> QED BY <2>8, <2>15, <2>16, <2>17 DEF Updated, bs, all
<1> QED BY <1>6, <1>7 DEF DepositEscrow, paid, s, t, id

LEMMA AwaitStep ==
  ASSUME IInv, WaitOK(Store), AwaitOK(escrows, batches, now),
         NobodyPays(escrows, escrows'), BatchesAdded(batches, batches'),
         now' \in Nat, now' >= now
  PROVE  AwaitOK(escrows', batches', now')
<1>1. BatchesTyped(Store.batches) /\ now \in Nat
  BY DEF IInv, StoreOK, BlockOK
<1>2. Store.escrows = escrows /\ Store.batches = batches
  BY StoreShape
<1> DEFINE s == Store
           es == escrows'
           bs == batches'
           time == now'
<1>3. NobodyPays(s.escrows, es) /\ BatchesAdded(s.batches, bs) /\ time \in Nat /\ time >= now
      /\ AwaitOK(s.escrows, s.batches, now)
  BY <1>2
<1> HIDE DEF s, es, bs, time
<1>4. AwaitOK(es, bs, time)
  BY <1>1, <1>3, AwaitKept DEF s
<1> QED BY <1>4 DEF es, bs, time

LEMMA NextAwait ==
  ASSUME IInv, WaitOK(Store), NeverLowered, AwaitOK(escrows, batches, now), [Next]_vars
  PROVE  AwaitOK(escrows', batches', now')
<1> DEFINE Holds == AwaitOK(escrows', batches', now')
<1>0. /\ StoreOK(Store) /\ CircleOK(circle) /\ now \in Nat /\ height \in Nat
      /\ now' \in Nat /\ now' >= now
  BY TimePasses DEF IInv, BlockOK
<1>1. ASSUME NEW a \in Addr, NEW amount \in Payments, DepositEscrow(a, amount)
      PROVE  Holds
  BY <1>1, DepositAwait DEF DepositEscrow, block_vars
<1>2. ASSUME NEW a \in Addr, ReturnEscrow(a)
      PROVE  NobodyPays(escrows, escrows') /\ batches' = batches
  <2>1. batches' = batches
    <3>1. remove_members(Store, {a}, height).batches = batches
      BY StoreShape DEF Store, StoreFields, remove_members, save_points
    <3>2. [Store EXCEPT !.escrows[a].paid = @ - refundable(escrows[a])].batches = batches
      BY DEF Store
    <3> QED BY <1>2, <3>1, <3>2 DEF ReturnEscrow, Commit
  <2>2. \A x \in Addr : escrows'[x].status # "PendingPaid" \/ escrows'[x] = escrows[x]
    BY <1>2, ReturnKept DEF NoEscrow
  <2> QED BY <2>1, <2>2 DEF NobodyPays
<1>3. ASSUME NEW a \in Addr, LeaveImmediately(a) \/ LeaveTrustedCircle(a)
      PROVE  NobodyPays(escrows, escrows') /\ batches' = batches
  <2>1. CASE LeaveImmediately(a)
    <3>1. /\ escrows' = [y \in Addr |-> IF y \in {a} THEN NoEscrow ELSE escrows[y]]
          /\ batches' = batches
      BY <2>1, StoreShape
         DEF LeaveImmediately, Commit, Store, StoreFields, remove_members, save_points
    <3> QED BY <3>1 DEF NoEscrow, NobodyPays
  <2>2. CASE LeaveTrustedCircle(a)
    <3>1. batches' = batches
      BY <2>2, StoreShape DEF LeaveTrustedCircle, Commit, trigger_long_leave, StoreFields,
           set_status, strip_points, save_points
    <3> QED BY <2>2, <3>1, LeaveKept DEF NobodyPays
  <2> QED BY <1>3, <2>1, <2>2
<1>5. CASE CheckPending
  <2>1. /\ Commit(check_pending(Store, circle, height)) /\ can_check_pending(Store, circle, height)
        /\ now' = now
    BY <1>5 DEF CheckPending, block_vars
  <2> QED BY <1>0, <2>1, CheckedAwait, StoreShape DEF Commit, NeverLowered
<1>6. ASSUME NEW a \in Addr, NEW content \in Contents, Propose(a, content)
      PROVE  Holds
  <2>0. now' = now
    BY <1>6 DEF Propose, block_vars
  <2>1. CASE height > 0
    <3>1. /\ Commit(check_pending(Store, circle, height - 1)) /\ height - 1 \in Nat
          /\ can_check_pending(Store, circle, height - 1)
      BY <1>0, <1>6, <2>1 DEF Propose
    <3> QED BY <1>0, <2>0, <3>1, CheckedAwait, StoreShape DEF Commit, NeverLowered
  <2>2. CASE ~(height > 0)
    <3>1. Commit(Store)
      BY <1>6, <2>2 DEF Propose
    <3> QED BY <2>0, <3>1, StoreShape DEF Commit
  <2> QED BY <2>1, <2>2
<1>8. ASSUME NEW id \in DOMAIN proposals, ExecuteAddVotingMembers(id)
      PROVE  NobodyPays(escrows, escrows') /\ BatchesAdded(batches, batches')
  <2> DEFINE voters == voters_of(proposals[id].content)
             count == Len(proposals[id].content.voters)
             grace == now + voting_period_secs(circle.rules)
             s == create_batch(Store, id, grace, voters, count)
             added == {a \in voters : escrows[a].status \in {"None", "NonVoting"}}
  <2>1. /\ Commit(add_members(s, added, "Pending", id, height))
        /\ can_create_batch(Store, id, count)
    BY <1>8 DEF ExecuteAddVotingMembers
  <2>2. count \in Nat
    <3>1. proposals[id].content.kind = "AddVotingMembers"
      BY <1>8 DEF ExecuteAddVotingMembers, Executable
    <3>2. proposals[id].content.voters \in Seq(Addr)
      BY <3>1, ExecutedContent DEF IsProposalContent
    <3> QED BY <3>2, LenProperties
  <2>3. s.batches = with_batch(batches, id, grace, voters, count)
    BY BatchedStore, StoreShape
  <2> HIDE DEF s, voters, grace, count, added
  <2>4. batches' = s.batches
    BY <2>1 DEF Commit, add_members, save_points
  <2>5. BatchesAdded(batches, batches')
    BY <2>1, <2>2, <2>3, <2>4, StoreShape DEF BatchesAdded, with_batch, can_create_batch
  <2>6. Become(NoEscrow, "Pending", id, 0).status = "Pending"
    BY DEF NoEscrow, Become
  <2>7. \A x \in Addr : escrows'[x].status = "PendingPaid" => escrows'[x] = escrows[x]
    BY <1>8, <2>6, AddVotingKept
  <2> QED BY <2>5, <2>7 DEF NobodyPays
<1>9. ASSUME NEW id, NEW add, NEW remove, AddRemove(id, add, remove)
      PROVE  NobodyPays(escrows, escrows') /\ batches' = batches
  <2>1. NoEscrow.status = "None" /\ Become(NoEscrow, "NonVoting", 0, 0).status = "NonVoting"
    BY DEF NoEscrow, Become
  <2>2. batches' = batches
    BY <1>9, StoreShape DEF AddRemove, Commit, StoreFields, remove_members, add_members, save_points
  <2>3. \A x \in Addr : escrows'[x].status = "PendingPaid" => escrows'[x] = escrows[x]
    BY <1>9, <2>1, AddRemoveKept
  <2> QED BY <2>2, <2>3 DEF NobodyPays
<1>10. ASSUME NEW id \in DOMAIN proposals, ExecutePunishMembers(id)
       PROVE  NobodyPays(escrows, escrows') /\ BatchesAdded(batches, batches')
  <2> DEFINE D == demoted_by(id)
  <2>1. /\ D \in SUBSET Addr
        /\ Cardinality(D) > 0 => id \notin DOMAIN batches
        /\ batches' = with_batch(batches, id, now, D, Cardinality(D))
    BY <1>10, Punished DEF demoted_by
  <2>2. \A x \in Addr : escrows'[x].status = "PendingPaid" =>
          escrows[x].status = "PendingPaid" /\ escrows'[x].proposal_id = escrows[x].proposal_id
    BY <1>10, Punished
  <2>3. Cardinality(D) \in Nat
    BY <2>1, AddrSubsets
  <2> HIDE DEF D
  <2>4. CASE Cardinality(D) = 0
    BY <2>1, <2>2, <2>4 DEF BatchesAdded, with_batch, NobodyPays
  <2>5. CASE Cardinality(D) > 0
    BY <2>1, <2>2, <2>5 DEF BatchesAdded, with_batch, NobodyPays
  <2> QED BY <2>3, <2>4, <2>5
<1>11. ASSUME \/ \E id \in DOMAIN proposals :
                   \/ Close(id) \/ ExecuteEditTrustedCircle(id)
                   \/ \E a \in Addr, vote \in CastVotes : Vote(a, id, vote)
              \/ \E a \in Addr : WithdrawRewards(a)
              \/ DistributeRewards \/ NextBlock \/ UNCHANGED vars
              \/ \E amount \in Rewards : SendRewards(amount)
       PROVE  NobodyPays(escrows, escrows') /\ batches' = batches
  <2>1. escrows' = escrows /\ batches' = batches
    BY <1>11 DEF Close, Vote, WithdrawRewards, DistributeRewards, NextBlock, SendRewards,
         ExecuteEditTrustedCircle, vars, store_vars
  <2> QED BY <2>1 DEF NobodyPays
<1>12. CASE NobodyPays(escrows, escrows') /\ batches' = batches
  <2>1. BatchesAdded(batches, batches')
    BY <1>12 DEF BatchesAdded
  <2> QED BY <1>0, <1>12, <2>1, AwaitStep
<1>13. CASE NobodyPays(escrows, escrows') /\ BatchesAdded(batches, batches')
  BY <1>0, <1>13, AwaitStep
<1>14. ASSUME NEW id \in DOMAIN proposals, Execute(id)
       PROVE  \/ ExecuteEditTrustedCircle(id) \/ ExecuteAddVotingMembers(id)
              \/ \E add, remove : AddRemove(id, add, remove)
              \/ ExecutePunishMembers(id)
  BY <1>14 DEF Execute, ExecuteAddRemoveNonVotingMembers, ExecuteWhitelistContract,
       ExecuteRemoveContract, whitelist_contract_addr, remove_contract_addr
<1>15. ASSUME NEW id \in DOMAIN proposals, Execute(id)
       PROVE  Holds
  BY <1>8, <1>9, <1>10, <1>11, <1>12, <1>13, <1>14, <1>15
<1> QED BY <1>1, <1>2, <1>3, <1>5, <1>6, <1>11, <1>12, <1>15 DEF Next

\* Somebody who paid waits only for a batch that is still to be promoted, unless
\* the escrow is lowered: a batch is promoted at once with everybody it lists who
\* has paid, and who pays for it later is promoted with the payment.
THEOREM PaidAwait == Spec /\ []NeverLowered => []PaidAwaitPromotion
<1> DEFINE Awaits == WaitOK(Store) /\ AwaitOK(escrows, batches, now)
<1>1. Init => IInv /\ Awaits
  <2> SUFFICES ASSUME Init PROVE AwaitOK(escrows, batches, now)
    BY InitHolds, InitWaits
  <2>1. batches = <<>> /\ \A x \in Addr : escrows[x].status # "PendingPaid"
    BY InitStore
  <2> QED BY <2>1 DEF AwaitOK
<1>2. IInv /\ NeverLowered /\ Awaits /\ [Next]_vars => (IInv /\ Awaits)'
  BY NextKeeps, NextWaits, NextAwait
<1>3. Awaits => PaidAwaitPromotion
  BY DEF AwaitOK, PaidAwaitPromotion
<1> QED BY <1>1, <1>2, <1>3, PTL DEF Spec

-----------------------------------------------------------------------------
\* MembersLifecycle: every transaction is a step of MemberLifecycle or none

LifeStep == AbstractMembers!Next \/ UNCHANGED <<standing, held, vault, fee>>

LEMMA MappingSays ==
  ASSUME IInv, IInv'
  PROVE  /\ \A x \in Addr : /\ standing[x] = escrows[x].status
                            /\ standing'[x] = escrows'[x].status
                            /\ held[x] = escrows[x].paid /\ held[x] \in Nat
                            /\ held'[x] = escrows'[x].paid /\ held'[x] \in Nat
         /\ standing \in [Addr -> AbstractMembers!Standing]
         /\ standing' \in [Addr -> AbstractMembers!Standing]
         /\ held \in [Addr -> Nat] /\ held' \in [Addr -> Nat]
         /\ vault = bank[denom] /\ vault' = bank'[denom]
         /\ fee = circle.escrow_amount /\ fee' = circle'.escrow_amount
         /\ fee \in Nat /\ fee' \in Nat
         /\ get_escrow(circle) \in Nat /\ fee > 0 /\ fee <= get_escrow(circle)
<1>1. escrows \in [Addr -> EscrowStatus] /\ escrows' \in [Addr -> EscrowStatus]
  BY TypedStep
<1>2. /\ \A x \in Addr : escrows[x].status \in MemberStatus /\ escrows[x].paid \in Nat
      /\ \A x \in Addr : escrows'[x].status \in MemberStatus /\ escrows'[x].paid \in Nat
  BY <1>1 DEF EscrowStatus
<1>3. AbstractMembers!Standing = MemberStatus
  BY DEF AbstractMembers!Standing, MemberStatus
<1>4. /\ circle.escrow_amount \in Nat /\ circle.escrow_amount > 0
      /\ circle.escrow_pending.amount \in Nat /\ circle'.escrow_amount \in Nat
  BY DEF IInv, CircleOK, CircleType, PendingEscrow
<1>5. get_escrow(circle) \in Nat /\ circle.escrow_amount <= get_escrow(circle)
  BY <1>4 DEF get_escrow
<1> QED BY <1>2, <1>3, <1>4, <1>5 DEF standing, held, vault, fee

LEMMA Moved ==
  ASSUME IInv, IInv', NEW moves,
         \A x \in Addr : \/ escrows'[x].status = escrows[x].status
                         \/ <<escrows[x].status, escrows'[x].status>> \in moves
  PROVE  AbstractMembers!Moves(moves)
<1>1. standing' \in [Addr -> AbstractMembers!Standing]
  BY MappingSays
<1>2. \A x \in Addr : \/ standing'[x] = standing[x]
                      \/ <<standing[x], standing'[x]>> \in moves
  <2> SUFFICES ASSUME NEW x \in Addr
               PROVE  \/ standing'[x] = standing[x]
                      \/ <<standing[x], standing'[x]>> \in moves
    OBVIOUS
  <2>1. standing[x] = escrows[x].status /\ standing'[x] = escrows'[x].status
    BY MappingSays
  <2> QED BY <2>1
<1> QED BY <1>1, <1>2 DEF AbstractMembers!Moves

LEMMA HeldStays ==
  ASSUME IInv, IInv', \A x \in Addr : escrows'[x].paid = escrows[x].paid
  PROVE  UNCHANGED held
<1>1. /\ held \in [Addr -> Nat] /\ held' \in [Addr -> Nat]
      /\ \A x \in Addr : held[x] = escrows[x].paid /\ held'[x] = escrows'[x].paid
  BY MappingSays
<1>2. \A x \in Addr : held'[x] = held[x]
  BY <1>1
<1> QED BY <1>1, <1>2

\* Standings change at a only.
LEMMA OneMoves ==
  ASSUME IInv, IInv', NEW a \in Addr,
         \A x \in Addr : x # a => escrows'[x].status = escrows[x].status
  PROVE  standing' = [standing EXCEPT ![a] = escrows'[a].status]
<1>1. /\ standing \in [Addr -> AbstractMembers!Standing]
      /\ standing' \in [Addr -> AbstractMembers!Standing]
      /\ \A x \in Addr : standing[x] = escrows[x].status /\ standing'[x] = escrows'[x].status
  BY MappingSays
<1> QED BY <1>1

LEMMA NobodyMoves ==
  ASSUME IInv, IInv', \A x \in Addr : escrows'[x].status = escrows[x].status
  PROVE  UNCHANGED standing
<1>1. /\ standing \in [Addr -> AbstractMembers!Standing]
      /\ standing' \in [Addr -> AbstractMembers!Standing]
      /\ \A x \in Addr : standing[x] = escrows[x].status /\ standing'[x] = escrows'[x].status
  BY MappingSays
<1>2. \A x \in Addr : standing'[x] = standing[x]
  BY <1>1
<1> QED BY <1>1, <1>2

LEMMA NothingLives ==
  ASSUME IInv, IInv', UNCHANGED escrows, bank'[denom] = bank[denom],
         circle'.escrow_amount = circle.escrow_amount
  PROVE  LifeStep
<1>1. UNCHANGED standing /\ UNCHANGED held
  BY HeldStays, NobodyMoves
<1>2. vault' = vault /\ fee' = fee
  BY MappingSays
<1> QED BY <1>1, <1>2 DEF LifeStep

\* Observers and members that are voted in: nobody pays.
LEMMA AdmitLives ==
  ASSUME IInv, IInv', UNCHANGED <<circle, bank>>,
         NEW to \in {"NonVoting", "Pending"},
         \A x \in Addr : escrows[x].status \in Outside => escrows[x].paid = 0,
         \A x \in Addr : \/ escrows'[x] = escrows[x]
                         \/ /\ escrows[x].status \in Outside /\ escrows'[x].paid = 0
                            /\ \/ escrows'[x].status = to
                               \/ escrows'[x].status = "None" /\ to = "NonVoting"
  PROVE  LifeStep
<1>1. UNCHANGED held
  <2>1. \A x \in Addr : escrows'[x].paid = escrows[x].paid
    OBVIOUS
  <2> QED BY <2>1, HeldStays
<1>2. vault' = vault /\ fee' = fee
  BY MappingSays
<1>3. CASE to = "NonVoting"
  <2> DEFINE moves == {<<"None", "NonVoting">>, <<"NonVoting", "None">>}
  <2>1. \A x \in Addr : \/ escrows'[x].status = escrows[x].status
                        \/ <<escrows[x].status, escrows'[x].status>> \in moves
    BY <1>3 DEF Outside
  <2> HIDE DEF moves
  <2>2. AbstractMembers!Moves(moves)
    BY <2>1, Moved
  <2> QED BY <1>1, <1>2, <2>2
          DEF moves, LifeStep, AbstractMembers!Next, AbstractMembers!Observe
<1>4. CASE to = "Pending"
  <2> DEFINE moves == {<<"None", "Pending">>, <<"NonVoting", "Pending">>}
  <2>1. \A x \in Addr : \/ escrows'[x].status = escrows[x].status
                        \/ <<escrows[x].status, escrows'[x].status>> \in moves
    BY <1>4 DEF Outside
  <2> HIDE DEF moves
  <2>2. AbstractMembers!Moves(moves)
    BY <2>1, Moved
  <2> QED BY <1>1, <1>2, <2>2
          DEF moves, LifeStep, AbstractMembers!Next, AbstractMembers!VoteIn
<1> QED BY <1>3, <1>4

\* A payment is credited to who makes it; with the fee it becomes pending paid
\* or a voter, and others follow only where it does.
LEMMA DepositPromotes ==
  ASSUME IInv, WaitOK(Store), NEW a \in Addr, NEW amount \in Payments, DepositEscrow(a, amount)
  PROVE  \/ \A x \in Addr : escrows'[x].status = escrows[x].status
         \/ /\ escrows[a].status = "Pending"
            /\ escrows[a].paid + amount >= get_escrow(circle)
            /\ \/ /\ escrows'[a].status = "PendingPaid"
                  /\ \A x \in Addr : x # a => escrows'[x].status = escrows[x].status
               \/ /\ escrows'[a].status = "Voting"
                  /\ \A x \in Addr : x # a =>
                       \/ escrows'[x].status = escrows[x].status
                       \/ escrows[x].status = "PendingPaid" /\ escrows'[x].status = "Voting"
<1> DEFINE paid == escrows[a].paid + amount
           id == escrows[a].proposal_id
           s == [Store EXCEPT !.escrows[a].paid = paid]
           t == [s EXCEPT !.escrows[a].status = "PendingPaid"]
<1>1. escrows \in [Addr -> EscrowStatus] /\ amount \in Nat
  BY InvariantSays, CircleAssumption DEF EscrowsOK
<1>2. StoreOK(Store) /\ paid \in Nat /\ now \in Nat /\ height \in Nat
  BY <1>1 DEF EscrowStatus, IInv, BlockOK
<1>3. StoreOK(s) /\ s.escrows = [escrows EXCEPT ![a].paid = paid] /\ s.batches = batches
  BY <1>2, PayEscrow, StoreShape
<1> HIDE DEF s, paid
<1>4. \A x \in Addr : s.escrows[x].status = escrows[x].status
  BY <1>1, <1>3, OnlyPaid
<1>5. CASE Commit(s)
  BY <1>4, <1>5 DEF Commit
<1>6. CASE /\ escrows[a].status = "Pending" /\ paid >= get_escrow(circle)
           /\ can_update_batch(t, a, id, now)
           /\ Commit(update_batch_after_escrow_paid(t, a, id, now, height))
  <2> DEFINE u == update_batch_after_escrow_paid(t, a, id, now, height)
             all == t.batches[id].members \cap WithStatus(t, "PendingPaid")
  <2>1. s.escrows[a].status = "Pending" /\ s.escrows \in [Addr -> EscrowStatus]
        /\ DOMAIN s = StoreFields
    BY <1>3, <1>4, <1>6 DEF StoreOK, MembersOK
  <2>2. StoreOK(t) /\ a \in WithStatus(t, "PendingPaid") /\ t.batches = batches
    BY <1>3, <2>1, PaidPending
  <2>3. id \in DOMAIN t.batches /\ a \in t.batches[id].members
    BY <1>6, <2>2, StoreShape DEF WaitOK
  <2>4. t.escrows = [s.escrows EXCEPT ![a].status = "PendingPaid"]
    BY <2>1 DEF StoreFields
  <2>5. /\ t.escrows[a].status = "PendingPaid"
        /\ \A x \in Addr : x # a => t.escrows[x].status = escrows[x].status
    BY <1>4, <2>1, <2>4 DEF EscrowStatus
  <2> HIDE DEF t, id
  <2>6. Updated(t, u, a, id, now)
    BY <1>2, <2>2, <2>3, UpdatedStore
  <2>7. escrows' = u.escrows /\ t.escrows \in [Addr -> EscrowStatus]
    BY <1>6, <2>2 DEF Commit, StoreOK, MembersOK
  <2> HIDE DEF u
  <2>8. u.escrows \in {t.escrows, voting(t.escrows, {a}), voting(t.escrows, all)}
    BY <2>6 DEF Updated
  <2>9. a \in all /\ \A x \in Addr : x \in all => t.escrows[x].status = "PendingPaid"
    BY <2>2, <2>3 DEF WithStatus
  <2> HIDE DEF all
  <2>10. CASE u.escrows = t.escrows
    BY <1>6, <2>5, <2>7, <2>10 DEF paid
  <2>11. ASSUME NEW A, u.escrows = voting(t.escrows, A), a \in A,
                \A x \in Addr : x \in A => t.escrows[x].status = "PendingPaid"
         PROVE  /\ escrows'[a].status = "Voting"
                /\ \A x \in Addr : x # a =>
                     \/ escrows'[x].status = escrows[x].status
                     \/ escrows[x].status = "PendingPaid" /\ escrows'[x].status = "Voting"
    <3>1. \A x \in Addr : Become(t.escrows[x], "Voting", 0, 0).status = "Voting"
      <4>1. /\ \A x \in Addr : t.escrows[x] \in EscrowStatus
            /\ "Voting" \in MemberStatus /\ 0 \in Nat
        BY <2>7 DEF MemberStatus
      <4> QED BY <4>1, BecomeEscrow
    <3>2. \A x \in Addr : escrows'[x] = IF x \in A THEN Become(t.escrows[x], "Voting", 0, 0)
                                                  ELSE t.escrows[x]
      BY <2>7, <2>11 DEF voting
    <3> QED BY <2>5, <2>11, <3>1, <3>2
  <2>12. CASE u.escrows = voting(t.escrows, {a})
    BY <1>6, <2>5, <2>11, <2>12 DEF paid
  <2>13. CASE u.escrows = voting(t.escrows, all)
    BY <1>6, <2>9, <2>11, <2>13 DEF paid
  <2> QED BY <2>8, <2>10, <2>12, <2>13
<1> QED BY <1>5, <1>6 DEF DepositEscrow, paid, s, t, id

LEMMA DepositLives ==
  ASSUME IInv, IInv', BInv, WaitOK(Store),
         NEW a \in Addr, NEW amount \in Payments, DepositEscrow(a, amount)
  PROVE  LifeStep
<1>1. /\ amount \in Nat /\ amount > 0 /\ circle' = circle
      /\ bank' = [bank EXCEPT ![denom] = @ + amount]
      /\ escrows[a].status \in {"Pending", "PendingPaid", "Voting"}
  BY CircleAssumption DEF DepositEscrow
<1>2. bank[denom] \in Nat /\ bank'[denom] = bank[denom] + amount
  BY <1>1 DEF BInv
<1>3. \A x \in Addr :
        escrows'[x].paid = IF x = a THEN escrows[a].paid + amount ELSE escrows[x].paid
  BY DepositKept
<1>4. /\ held'[a] = held[a] + amount /\ held[a] \in Nat
      /\ \A x \in Addr \ {a} : held'[x] = held[x]
      /\ vault' = vault + amount /\ vault \in Nat /\ fee' = fee
  BY <1>1, <1>2, <1>3, MappingSays
<1>5. AbstractMembers!OnlyOf(a) /\ held'[a] > held[a]
  BY <1>1, <1>4 DEF AbstractMembers!OnlyOf
<1> DEFINE moves == AbstractMembers!Promotion \cup ({"Pending"} \X {"PendingPaid", "Voting"})
<1>6. \A x \in Addr : standing[x] = escrows[x].status /\ standing'[x] = escrows'[x].status
  BY MappingSays
<1>7. /\ <<"PendingPaid", "Voting">> \in moves
      /\ <<"Pending", "PendingPaid">> \in moves /\ <<"Pending", "Voting">> \in moves
  BY DEF AbstractMembers!Promotion
<1> HIDE DEF moves
<1>8. AbstractMembers!Moves(moves)
  <2>1. \A x \in Addr : \/ escrows'[x].status = escrows[x].status
                        \/ <<escrows[x].status, escrows'[x].status>> \in moves
    BY <1>7, DepositPromotes
  <2> QED BY <2>1, Moved
<1>9. \A b \in Addr \ {a} : standing'[b] # standing[b] =>
        standing[b] = "PendingPaid" /\ <<standing[a], standing'[a]>> = <<"Pending", "Voting">>
  BY <1>6, DepositPromotes
<1>10. standing'[a] # standing[a] => standing[a] = "Pending" /\ held'[a] >= fee
  <2>1. escrows'[a].status # escrows[a].status =>
          escrows[a].status = "Pending" /\ escrows'[a].paid >= get_escrow(circle)
    BY <1>3, DepositPromotes
  <2>2. held'[a] = escrows'[a].paid /\ held'[a] \in Nat /\ fee \in Nat
        /\ get_escrow(circle) \in Nat /\ fee <= get_escrow(circle)
    BY MappingSays
  <2> QED BY <1>6, <2>1, <2>2
<1>11. AbstractMembers!Pay(a)
  BY <1>1, <1>5, <1>6, <1>8, <1>9, <1>10 DEF moves, AbstractMembers!Pay
<1> QED BY <1>11 DEF LifeStep, AbstractMembers!Next

LEMMA ReturnLives ==
  ASSUME IInv, IInv', BInv, NEW a \in Addr, ReturnEscrow(a)
  PROVE  LifeStep
<1> DEFINE refund == refundable(escrows[a])
           t == remove_members(Store, {a}, height)
<1>1. /\ refund \in Nat \ {0} /\ refund <= escrows[a].paid
      /\ escrows'[a].paid = escrows[a].paid - refund
      /\ \A x \in Addr : x # a => escrows'[x] = escrows[x]
      /\ escrows'[a] = NoEscrow \/ escrows'[a].status = escrows[a].status
      /\ escrows[a].status \in {"Voting", "Leaving"}
  BY ReturnKept
<1>2. /\ bank' = [bank EXCEPT ![denom] = @ - refund] /\ circle' = circle
      /\ refund = escrows[a].paid => Commit(t)
  BY DEF ReturnEscrow
<1>3. /\ escrows[a].status = "Voting" => refund = escrows[a].paid - get_escrow(circle)
      /\ escrows[a].status = "Leaving" => refund = escrows[a].paid
  BY DEF refundable
<1>4. t.escrows = [x \in Addr |-> IF x \in {a} THEN NoEscrow ELSE escrows[x]]
  BY StoreShape DEF Store, StoreFields, remove_members, save_points
<1> HIDE DEF refund, t
<1>5. bank[denom] \in Nat /\ bank'[denom] = bank[denom] - refund
  BY <1>2 DEF BInv
<1>6. /\ standing[a] = escrows[a].status /\ standing'[a] = escrows'[a].status
      /\ held[a] = escrows[a].paid /\ held'[a] = escrows'[a].paid
      /\ held[a] \in Nat /\ held'[a] \in Nat
      /\ get_escrow(circle) \in Nat /\ fee \in Nat /\ fee > 0 /\ fee <= get_escrow(circle)
  BY MappingSays
<1>7. AbstractMembers!OnlyOf(a)
  <2>1. \A x \in Addr \ {a} : held'[x] = held[x]
    BY <1>1, MappingSays
  <2>2. vault = bank[denom] /\ vault' = bank'[denom] /\ fee' = fee
    BY <1>2, MappingSays
  <2> QED BY <1>1, <1>5, <1>6, <2>1, <2>2 DEF AbstractMembers!OnlyOf
<1>8. held'[a] < held[a]
  BY <1>1, <1>6
<1>9. \A x \in Addr : x # a => escrows'[x].status = escrows[x].status
  BY <1>1
<1>10. CASE escrows[a].status = "Voting"
  <2>1. held'[a] = get_escrow(circle) /\ held'[a] >= fee /\ held'[a] # 0
    BY <1>1, <1>3, <1>6, <1>10
  <2>2. escrows'[a].status = escrows[a].status
    BY <1>1, <1>6, <2>1 DEF NoEscrow
  <2>3. UNCHANGED standing
    BY <1>9, <2>2, NobodyMoves
  <2>4. AbstractMembers!Refund(a)
    BY <1>6, <1>7, <1>8, <1>10, <2>1, <2>3 DEF AbstractMembers!Refund
  <2> QED BY <2>4 DEF LifeStep, AbstractMembers!Next
<1>11. CASE escrows[a].status = "Leaving"
  <2>1. escrows' = t.escrows
    BY <1>2, <1>3, <1>11 DEF Commit
  <2>2. escrows'[a] = NoEscrow
    BY <1>4, <2>1
  <2>3. held'[a] = 0 /\ escrows'[a].status = "None"
    BY <1>6, <2>2 DEF NoEscrow
  <2>4. standing' = [standing EXCEPT ![a] = "None"]
    BY <1>9, <2>3, OneMoves
  <2>5. AbstractMembers!Refund(a)
    BY <1>6, <1>7, <1>8, <1>11, <2>3, <2>4 DEF AbstractMembers!Refund
  <2> QED BY <2>5 DEF LifeStep, AbstractMembers!Next
<1> QED BY <1>1, <1>10, <1>11

LEMMA LeaveLives ==
  ASSUME IInv, IInv', BInv, NEW a \in Addr, LeaveImmediately(a) \/ LeaveTrustedCircle(a)
  PROVE  LifeStep
<1>1. standing[a] = escrows[a].status /\ held[a] = escrows[a].paid /\ held[a] \in Nat
  BY MappingSays
<1>2. vault' = vault /\ fee' = fee
  BY MappingSays DEF LeaveImmediately, LeaveTrustedCircle
<1>3. CASE LeaveImmediately(a)
  <2>1. escrows' = [x \in Addr |-> IF x \in {a} THEN NoEscrow ELSE escrows[x]]
    BY <1>3, StoreShape
       DEF LeaveImmediately, Commit, Store, StoreFields, remove_members, save_points
  <2>2. escrows[a].paid = 0 /\ escrows[a].status \in {"NonVoting", "Pending"}
    BY <1>3 DEF LeaveImmediately, BInv, Outside
  <2>3. NoEscrow.paid = 0 /\ NoEscrow.status = "None"
    BY DEF NoEscrow
  <2>4. UNCHANGED held
    <3>1. \A x \in Addr : escrows'[x].paid = escrows[x].paid
      BY <2>1, <2>2, <2>3
    <3> QED BY <3>1, HeldStays
  <2>5. standing' = [standing EXCEPT ![a] = "None"]
    <3>1. /\ escrows'[a].status = "None"
          /\ \A x \in Addr : x # a => escrows'[x].status = escrows[x].status
      BY <2>1, <2>3
    <3> QED BY <3>1, OneMoves
  <2>6. AbstractMembers!Leave(a)
    BY <1>1, <1>2, <2>2, <2>4, <2>5 DEF AbstractMembers!Leave
  <2> QED BY <2>6 DEF LifeStep, AbstractMembers!Next
<1>4. CASE LeaveTrustedCircle(a)
  <2>1. /\ escrows[a].status \in {"Pending", "PendingPaid", "Voting"}
        /\ escrows[a].status = "Pending" => escrows[a].paid > 0
    BY <1>4 DEF LeaveTrustedCircle
  <2>2. /\ escrows'[a].status = "Leaving" /\ escrows'[a].paid = escrows[a].paid
        /\ \A x \in Addr : x # a => escrows'[x] = escrows[x]
    BY <1>4, LeaveKept
  <2>3. UNCHANGED held
    <3>1. \A x \in Addr : escrows'[x].paid = escrows[x].paid
      BY <2>2
    <3> QED BY <3>1, HeldStays
  <2>4. standing' = [standing EXCEPT ![a] = "Leaving"]
    <3>1. \A x \in Addr : x # a => escrows'[x].status = escrows[x].status
      BY <2>2
    <3> QED BY <2>2, <3>1, OneMoves
  <2>5. AbstractMembers!Leave(a)
    BY <1>1, <1>2, <2>1, <2>3, <2>4 DEF AbstractMembers!Leave
  <2> QED BY <2>5 DEF LifeStep, AbstractMembers!Next
<1> QED BY <1>3, <1>4

\* What check_pending does to one member whose fee goes from f to g: no money
\* moves, who has paid becomes a voter, and the new fee is applied to both sides.
EnforcedTo(e, d, f, g) ==
  /\ d.paid = e.paid
  /\ \/ d.status = e.status
     \/ e.status = "PendingPaid" /\ d.status = "Voting"
     \/ g > f /\ e.status = "Voting" /\ d.status = "Pending"
     \/ g < f /\ e.status = "Pending" /\ d.status \in {"PendingPaid", "Voting"}
  /\ g > f /\ e.status = "Voting" => (d.status = "Pending" <=> e.paid < g)
  /\ g < f /\ e.status = "Pending" => (d.status # "Pending" <=> e.paid >= g)

Enforced(es, fs, f, g) == \A x \in Addr : EnforcedTo(es[x], fs[x], f, g)

LEMMA EnforcedFee ==
  ASSUME NEW k, CircleOK(k)
  PROVE  LET g == enforce_escrow(k).escrow_amount
         IN /\ k.escrow_amount \in Nat /\ g \in Nat /\ k.escrow_pending.amount \in Nat
            /\ escrow_due(k) => g = k.escrow_pending.amount
            /\ ~escrow_due(k) => g = k.escrow_amount
<1>1. k \in CircleType /\ k.escrow_amount \in Nat /\ k.escrow_pending.amount \in Nat
  BY DEF CircleOK, CircleType, PendingEscrow
<1>2. CASE escrow_due(k)
  BY <1>1, <1>2 DEF enforce_escrow, CircleType
<1>3. CASE ~escrow_due(k)
  BY <1>1, <1>3 DEF enforce_escrow
<1> QED BY <1>2, <1>3

LEMMA EscrowEnforced ==
  ASSUME NEW s, StoreOK(s), NEW k, CircleOK(k), NEW h
  PROVE  Enforced(s.escrows, check_pending_escrow(s, k, h).escrows,
                  k.escrow_amount, enforce_escrow(k).escrow_amount)
<1> DEFINE t == check_pending_escrow(s, k, h)
           f == k.escrow_amount
           g == enforce_escrow(k).escrow_amount
           D == short_voters(s, k)
           P == paid_pending(s, k)
           id == k.escrow_pending.proposal_id
<1>1. /\ s.escrows \in [Addr -> EscrowStatus] /\ id \in Nat
      /\ \A x \in Addr : s.escrows[x].paid \in Nat
  BY DEF StoreOK, MembersOK, CircleOK, CircleType, PendingEscrow, EscrowStatus
<1>2. /\ f \in Nat /\ g \in Nat
      /\ escrow_due(k) => g = k.escrow_pending.amount
      /\ ~escrow_due(k) => g = f
  BY EnforcedFee
<1>3. /\ \A x \in Addr : x \in D <=> /\ s.escrows[x].status = "Voting"
                                     /\ s.escrows[x].paid < k.escrow_pending.amount
      /\ \A x \in Addr : x \in P <=> /\ s.escrows[x].status = "Pending"
                                     /\ s.escrows[x].paid >= k.escrow_pending.amount
  BY DEF short_voters, paid_pending, WithStatus
<1>4. \/ /\ escrow_due(k) /\ k.escrow_pending.amount > f
         /\ t.escrows = pending(s.escrows, D, id)
      \/ /\ escrow_due(k) /\ k.escrow_pending.amount < f
         /\ t.escrows = [x \in Addr |->
              IF x \in P THEN [s.escrows[x] EXCEPT !.status = "PendingPaid"] ELSE s.escrows[x]]
      \/ /\ ~escrow_due(k) \/ k.escrow_pending.amount = f
         /\ t = s
  BY EnforcedStore
<1> HIDE DEF t, f, g, D, P, id
<1>5. SUFFICES ASSUME NEW x \in Addr PROVE EnforcedTo(s.escrows[x], t.escrows[x], f, g)
  BY DEF Enforced, t, f, g
<1>6. ASSUME escrow_due(k), k.escrow_pending.amount > f, t.escrows = pending(s.escrows, D, id)
      PROVE  EnforcedTo(s.escrows[x], t.escrows[x], f, g)
  <2>1. "Pending" \in MemberStatus /\ 0 \in Nat /\ s.escrows[x] \in EscrowStatus
    BY <1>1 DEF MemberStatus
  <2>2. /\ Become(s.escrows[x], "Pending", id, 0).status = "Pending"
        /\ Become(s.escrows[x], "Pending", id, 0).paid = s.escrows[x].paid
    BY <1>1, <2>1, BecomeEscrow
  <2>3. t.escrows[x] = IF x \in D THEN Become(s.escrows[x], "Pending", id, 0) ELSE s.escrows[x]
    BY <1>6 DEF pending
  <2>4. g > f /\ g = k.escrow_pending.amount
    BY <1>2, <1>6
  <2>5. CASE x \in D
    <3>1. s.escrows[x].status = "Voting" /\ s.escrows[x].paid < g
      BY <1>3, <2>4, <2>5
    <3>2. t.escrows[x].status = "Pending" /\ t.escrows[x].paid = s.escrows[x].paid
      BY <2>2, <2>3, <2>5
    <3> QED BY <1>2, <2>4, <3>1, <3>2 DEF EnforcedTo
  <2>6. CASE x \notin D
    <3>1. ~(s.escrows[x].status = "Voting" /\ s.escrows[x].paid < g)
      BY <1>3, <2>4, <2>6
    <3>2. t.escrows[x] = s.escrows[x]
      BY <2>3, <2>6
    <3> QED BY <1>2, <2>4, <3>1, <3>2 DEF EnforcedTo
  <2> QED BY <2>5, <2>6
<1>7. ASSUME escrow_due(k), k.escrow_pending.amount < f,
             t.escrows = [y \in Addr |-> IF y \in P THEN [s.escrows[y] EXCEPT !.status = "PendingPaid"]
                                                    ELSE s.escrows[y]]
      PROVE  EnforcedTo(s.escrows[x], t.escrows[x], f, g)
  <2>1. g < f /\ g = k.escrow_pending.amount
    BY <1>2, <1>7
  <2>2. CASE x \in P
    <3>1. s.escrows[x].status = "Pending" /\ s.escrows[x].paid >= g
      BY <1>3, <2>1, <2>2
    <3>2. t.escrows[x].status = "PendingPaid" /\ t.escrows[x].paid = s.escrows[x].paid
      BY <1>1, <1>7, <2>2 DEF EscrowStatus
    <3> QED BY <1>2, <2>1, <3>1, <3>2 DEF EnforcedTo
  <2>3. CASE x \notin P
    <3>1. ~(s.escrows[x].status = "Pending" /\ s.escrows[x].paid >= g)
      BY <1>3, <2>1, <2>3
    <3>2. t.escrows[x] = s.escrows[x]
      BY <1>7, <2>3
    <3> QED BY <1>2, <2>1, <3>1, <3>2 DEF EnforcedTo
  <2> QED BY <2>2, <2>3
<1>8. ASSUME ~escrow_due(k) \/ k.escrow_pending.amount = f, t = s
      PROVE  EnforcedTo(s.escrows[x], t.escrows[x], f, g)
  <2>1. g = f
    BY <1>2, <1>8
  <2> QED BY <1>2, <1>8, <2>1 DEF EnforcedTo
<1> QED BY <1>4, <1>6, <1>7, <1>8

LEMMA CheckedEnforced ==
  ASSUME NEW s, StoreOK(s), NEW k, CircleOK(k), NEW h \in Nat, now \in Nat
  PROVE  Enforced(s.escrows, check_pending(s, k, h).escrows,
                  k.escrow_amount, enforce_escrow(k).escrow_amount)
<1> DEFINE t == check_pending_escrow(s, k, h)
           ready == ready_batches(t, now)
           A == listed(t, ready) \cap WithStatus(t, "PendingPaid")
           u == check_pending(s, k, h)
           f == k.escrow_amount
           g == enforce_escrow(k).escrow_amount
<1>1. StoreOK(t) /\ t.escrows \in [Addr -> EscrowStatus]
  BY PendingEscrowChecked DEF StoreOK, MembersOK
<1>2. Enforced(s.escrows, t.escrows, f, g)
  BY EscrowEnforced
<1>3. u.escrows = voting(t.escrows, A)
  BY <1>1, ConvertedStore DEF check_pending
<1>4. \A x \in Addr : x \in A => t.escrows[x].status = "PendingPaid"
  BY DEF WithStatus
<1>5. f \in Nat /\ g \in Nat
  BY EnforcedFee
<1> HIDE DEF t, ready, A, u, f, g
<1>6. SUFFICES ASSUME NEW x \in Addr PROVE EnforcedTo(s.escrows[x], u.escrows[x], f, g)
  BY DEF Enforced, u, f, g
<1>7. EnforcedTo(s.escrows[x], t.escrows[x], f, g)
  BY <1>2 DEF Enforced
<1>8. CASE x \in A
  <2>1. "Voting" \in MemberStatus /\ 0 \in Nat
    BY DEF MemberStatus
  <2>2. u.escrows[x].status = "Voting" /\ u.escrows[x].paid = t.escrows[x].paid
    BY <1>1, <1>3, <1>8, <2>1, BecomeEscrow DEF voting
  <2>3. t.escrows[x].status = "PendingPaid"
    BY <1>4, <1>8
  <2> QED BY <1>5, <1>7, <2>2, <2>3 DEF EnforcedTo
<1>9. CASE x \notin A
  <2>1. u.escrows[x] = t.escrows[x]
    BY <1>3, <1>9 DEF voting
  <2> QED BY <1>7, <2>1
<1> QED BY <1>8, <1>9

LEMMA SettleLives ==
  ASSUME IInv, IInv', bank' = bank, NEW f, NEW g, fee = f, fee' = g,
         Enforced(escrows, escrows', f, g)
  PROVE  LifeStep
<1>1. f \in Nat /\ g \in Nat /\ vault' = vault
  BY MappingSays
<1>2. \A x \in Addr : EnforcedTo(escrows[x], escrows'[x], f, g)
  BY DEF Enforced
<1>3. UNCHANGED held
  <2>1. \A x \in Addr : escrows'[x].paid = escrows[x].paid
    BY <1>2 DEF EnforcedTo
  <2> QED BY <2>1, HeldStays
<1>4. \A x \in Addr : /\ standing[x] = escrows[x].status /\ standing'[x] = escrows'[x].status
                      /\ held[x] = escrows[x].paid
  BY MappingSays
<1>5. CASE g > f
  <2> DEFINE moves == AbstractMembers!Promotion \cup {<<"Voting", "Pending">>}
  <2>1. \A x \in Addr : \/ escrows'[x].status = escrows[x].status
                        \/ <<escrows[x].status, escrows'[x].status>> \in moves
    BY <1>1, <1>2, <1>5 DEF EnforcedTo, AbstractMembers!Promotion
  <2> HIDE DEF moves
  <2>2. AbstractMembers!Moves(moves)
    BY <2>1, Moved
  <2>3. \A x \in Addr : standing[x] = "Voting" => (standing'[x] = "Pending" <=> held[x] < g)
    BY <1>2, <1>4, <1>5 DEF EnforcedTo
  <2>4. AbstractMembers!Settle
    BY <1>1, <1>3, <1>5, <2>2, <2>3 DEF AbstractMembers!Settle, moves
  <2> QED BY <2>4 DEF LifeStep, AbstractMembers!Next
<1>6. CASE g < f
  <2> DEFINE moves == AbstractMembers!Promotion \cup ({"Pending"} \X {"PendingPaid", "Voting"})
  <2>1. \A x \in Addr : \/ escrows'[x].status = escrows[x].status
                        \/ <<escrows[x].status, escrows'[x].status>> \in moves
    BY <1>1, <1>2, <1>6 DEF EnforcedTo, AbstractMembers!Promotion
  <2> HIDE DEF moves
  <2>2. AbstractMembers!Moves(moves)
    BY <2>1, Moved
  <2>3. \A x \in Addr : standing[x] = "Pending" => (standing'[x] # "Pending" <=> held[x] >= g)
    BY <1>2, <1>4, <1>6 DEF EnforcedTo
  <2>4. ~(g > f)
    BY <1>1, <1>6
  <2>5. AbstractMembers!Settle
    BY <1>1, <1>3, <1>6, <2>2, <2>3, <2>4 DEF AbstractMembers!Settle, moves
  <2> QED BY <2>5 DEF LifeStep, AbstractMembers!Next
<1>7. CASE ~(g > f) /\ ~(g < f)
  <2> DEFINE moves == AbstractMembers!Promotion
  <2>1. \A x \in Addr : \/ escrows'[x].status = escrows[x].status
                        \/ <<escrows[x].status, escrows'[x].status>> \in moves
    BY <1>1, <1>2, <1>7 DEF EnforcedTo, AbstractMembers!Promotion
  <2> HIDE DEF moves
  <2>2. AbstractMembers!Moves(moves)
    BY <2>1, Moved
  <2>3. AbstractMembers!Settle
    BY <1>1, <1>3, <1>7, <2>2 DEF AbstractMembers!Settle, moves
  <2> QED BY <2>3 DEF LifeStep, AbstractMembers!Next
<1> QED BY <1>5, <1>6, <1>7

LEMMA CheckLives ==
  ASSUME IInv, IInv', CheckPending \/ \E a \in Addr, content \in Contents : Propose(a, content)
  PROVE  LifeStep
<1>1. /\ StoreOK(Store) /\ CircleOK(circle) /\ now \in Nat /\ height \in Nat
      /\ height > 0 => height - 1 \in Nat
  BY DEF IInv, BlockOK
<1>2. ASSUME NEW h \in Nat, Commit(check_pending(Store, circle, h)),
             circle' = enforce_escrow(circle), bank' = bank
      PROVE  LifeStep
  <2>1. Enforced(escrows, escrows', circle.escrow_amount, circle'.escrow_amount)
    BY <1>1, <1>2, CheckedEnforced, StoreShape DEF Commit
  <2>2. fee = circle.escrow_amount /\ fee' = circle'.escrow_amount
    BY DEF fee
  <2> QED BY <1>2, <2>1, <2>2, SettleLives
<1>3. CASE CheckPending
  BY <1>1, <1>2, <1>3 DEF CheckPending
<1>4. ASSUME NEW a \in Addr, NEW content \in Contents, Propose(a, content)
      PROVE  LifeStep
  <2>1. CASE height > 0
    <3>1. /\ Commit(check_pending(Store, circle, height - 1))
          /\ circle' = enforce_escrow(circle) /\ bank' = bank
      BY <1>4, <2>1 DEF Propose
    <3> QED BY <1>1, <1>2, <2>1, <3>1
  <2>2. CASE ~(height > 0)
    <3>1. Commit(Store) /\ circle' = circle /\ bank' = bank
      BY <1>4, <2>2 DEF Propose
    <3>2. escrows' = escrows
      BY <3>1, StoreShape DEF Commit
    <3> QED BY <3>1, <3>2, NothingLives
  <2> QED BY <2>1, <2>2
<1> QED BY <1>3, <1>4

\* The fold of MemberLifecycle adds up as that of the circle does.
LEMMA SameFold ==
  ASSUME NEW f
  PROVE  AbstractMembers!FoldFunction(+, 0, f) = FoldFunction(+, 0, f)
<1>1. AbstractMembers!FoldFunction(+, 0, f) = SumOf(f)
  BY DEF AbstractMembers!FoldFunction, AbstractMembers!FoldFunctionOnSet,
         AbstractMembers!MapThenFoldSet, SumOf, Sums, Adds, add_chosen, chosen
<1> QED BY <1>1, FoldIsSum

\* Who is neither kicked out nor demoted keeps its standing, and the fee.
LEMMA PunishLives ==
  ASSUME IInv, IInv', BInv, NEW id \in DOMAIN proposals, ExecutePunishMembers(id)
  PROVE  LifeStep
<1> DEFINE punishments == proposals[id].content.punishments
           N == named(id)
           h == [a \in N |-> escrow_sent(escrows[a].paid, punishments[a])]
<1>1. escrows \in [Addr -> EscrowStatus] /\ N \in SUBSET Addr
  BY TypedStep, Punished
<1>2. \A a \in N : /\ punishments[a] \in Punishment
                   /\ escrows[a].status \notin {"None", "NonVoting"}
                   /\ escrows'[a].paid = escrow_remaining(escrows[a].paid, punishments[a])
                   /\ left_paid(id, a) = escrows'[a].paid
  BY Punished DEF left_paid
<1>3. /\ \A a \in kicked_out(id) : escrows'[a].status = "Leaving"
      /\ \A a \in demoted_by(id) : escrows'[a].status = "Pending"
      /\ \A a \in Addr \ (kicked_out(id) \cup demoted_by(id)) : escrows'[a].status = escrows[a].status
      /\ \A a \in Addr \ N : escrows'[a].paid = escrows[a].paid
  BY Punished
<1>4. \A a : a \in kicked_out(id) \/ a \in demoted_by(id) => a \in N
  BY DEF kicked_out, demoted_by
<1>5. \A a \in N : a \notin kicked_out(id) /\ a \notin demoted_by(id) =>
        ~(left_paid(id, a) < get_escrow(circle))
  BY DEF demoted_by
<1>6. bank' = [bank EXCEPT ![denom] = @ - FoldFunction(+, 0, h)] /\ UNCHANGED circle
  BY DEF ExecutePunishMembers, named
<1> HIDE DEF punishments, N
<1>7. \A a \in N : h[a] \in Nat /\ escrows[a].paid = escrows'[a].paid + h[a]
  BY <1>1, <1>2, PunishmentSplit, PaidType
<1> HIDE DEF h
<1>8. /\ \A x \in Addr : /\ standing[x] = escrows[x].status /\ standing'[x] = escrows'[x].status
                         /\ held[x] = escrows[x].paid /\ held[x] \in Nat
                         /\ held'[x] = escrows'[x].paid /\ held'[x] \in Nat
      /\ get_escrow(circle) \in Nat /\ fee \in Nat /\ fee <= get_escrow(circle)
      /\ fee' = fee /\ vault = bank[denom] /\ vault' = bank'[denom]
      /\ standing' \in [Addr -> AbstractMembers!Standing]
  BY <1>6, MappingSays
<1>9. \A a \in N : held[a] - held'[a] = h[a] /\ held'[a] <= held[a]
  <2> SUFFICES ASSUME NEW a \in N PROVE held[a] - held'[a] = h[a] /\ held'[a] <= held[a]
    OBVIOUS
  <2>1. held[a] = escrows[a].paid /\ held'[a] = escrows'[a].paid /\ held'[a] \in Nat
    BY <1>1, <1>8
  <2>2. h[a] \in Nat /\ held[a] = held'[a] + h[a]
    BY <1>7, <2>1
  <2> QED BY <2>1, <2>2
<1>10. [a \in N |-> held[a] - held'[a]] = h
  <2>1. h = [a \in N |-> h[a]]
    BY DEF h
  <2> QED BY <1>9, <2>1
<1>11. vault' = vault - AbstractMembers!FoldFunction(+, 0, [a \in N |-> held[a] - held'[a]])
  <2>1. bank'[denom] = bank[denom] - FoldFunction(+, 0, h)
    <3>1. denom \in DOMAIN bank
      BY DEF BInv
    <3> QED BY <1>6, <3>1
  <2>2. AbstractMembers!FoldFunction(+, 0, h) = FoldFunction(+, 0, h)
    BY SameFold
  <2> QED BY <1>8, <1>10, <2>1, <2>2
<1>12. \A a \in N : \/ standing'[a] = standing[a] /\ held'[a] >= fee
                    \/ standing'[a] \in {"Pending", "Leaving"}
  <2> SUFFICES ASSUME NEW a \in N, a \notin kicked_out(id), a \notin demoted_by(id)
               PROVE  standing'[a] = standing[a] /\ held'[a] >= fee
    BY <1>1, <1>3, <1>8
  <2>1. standing'[a] = standing[a]
    BY <1>1, <1>3, <1>8
  <2>2. held'[a] = left_paid(id, a) /\ held'[a] \in Nat
    BY <1>1, <1>2, <1>8
  <2>3. ~(held'[a] < get_escrow(circle))
    BY <1>5, <2>2
  <2> QED BY <1>8, <2>1, <2>2, <2>3
<1>13. \A a \in Addr \ N : held'[a] = held[a] /\ standing'[a] = standing[a]
  BY <1>3, <1>4, <1>8
<1>14. \A a \in N : standing[a] \notin {"None", "NonVoting"}
  BY <1>1, <1>2, <1>8
<1>15. AbstractMembers!Punish(N)
  BY <1>8, <1>9, <1>11, <1>12, <1>13, <1>14 DEF AbstractMembers!Punish
<1> QED BY <1>1, <1>15 DEF LifeStep, AbstractMembers!Next

LEMMA NextLives ==
  ASSUME denom # reward_denom, IInv, DInv, BInv, WaitOK(Store), [Next]_vars
  PROVE  LifeStep
<1>0. IInv'
  BY NextKeeps
<1>1. bank \in [{denom, reward_denom} -> Nat]
      /\ \A x \in Addr : escrows[x].status \in Outside => escrows[x].paid = 0
  BY DEF BInv
<1>2. ASSUME NEW a \in Addr, NEW amount \in Payments, DepositEscrow(a, amount)
      PROVE  LifeStep
  BY <1>0, <1>2, DepositLives
<1>3. ASSUME NEW a \in Addr,
             ReturnEscrow(a) \/ LeaveImmediately(a) \/ LeaveTrustedCircle(a)
      PROVE  LifeStep
  BY <1>0, <1>3, ReturnLives, LeaveLives
<1>4. ASSUME CheckPending \/ \E a \in Addr, content \in Contents : Propose(a, content)
      PROVE  LifeStep
  BY <1>0, <1>4, CheckLives
<1>5. ASSUME NEW id \in DOMAIN proposals, ExecuteAddVotingMembers(id)
      PROVE  LifeStep
  <2>1. /\ UNCHANGED <<circle, bank>>
        /\ Become(NoEscrow, "Pending", id, 0).paid = 0
        /\ Become(NoEscrow, "Pending", id, 0).status = "Pending"
    BY <1>5 DEF ExecuteAddVotingMembers, NoEscrow, Become
  <2>2. \A x \in Addr : \/ escrows'[x] = escrows[x]
                        \/ /\ escrows[x].status \in Outside /\ escrows'[x].paid = 0
                           /\ escrows'[x].status = "Pending"
    BY <1>5, <2>1, AddVotingKept
  <2> QED BY <1>0, <1>1, <2>1, <2>2, AdmitLives
<1>6. ASSUME NEW id, NEW add, NEW remove, AddRemove(id, add, remove)
      PROVE  LifeStep
  <2>1. /\ UNCHANGED <<circle, bank>>
        /\ Become(NoEscrow, "NonVoting", 0, 0).paid = 0
        /\ Become(NoEscrow, "NonVoting", 0, 0).status = "NonVoting"
        /\ NoEscrow.paid = 0 /\ NoEscrow.status = "None"
    BY <1>6 DEF AddRemove, NoEscrow, Become
  <2>2. \A x \in Addr : \/ escrows'[x] = escrows[x]
                        \/ /\ escrows[x].status \in Outside /\ escrows'[x].paid = 0
                           /\ escrows'[x].status \in {"NonVoting", "None"}
    BY <1>6, <2>1, AddRemoveKept
  <2> QED BY <1>0, <1>1, <2>1, <2>2, AdmitLives
<1>7. ASSUME NEW id \in DOMAIN proposals, ExecutePunishMembers(id)
      PROVE  LifeStep
  BY <1>0, <1>7, PunishLives
<1>8. ASSUME NEW id \in DOMAIN proposals, Execute(id)
      PROVE  LifeStep \/ ExecuteEditTrustedCircle(id)
  BY <1>5, <1>6, <1>7, <1>8 DEF Execute, ExecuteAddRemoveNonVotingMembers,
     ExecuteWhitelistContract, ExecuteRemoveContract, whitelist_contract_addr,
     remove_contract_addr
<1>9. ASSUME UNCHANGED <<escrows, circle>>, bank'[denom] = bank[denom]
      PROVE  LifeStep
  BY <1>0, <1>9, NothingLives
<1>10. ASSUME NEW id \in DOMAIN proposals, ExecuteEditTrustedCircle(id)
       PROVE  LifeStep
  <2>1. escrows' = escrows /\ bank' = bank /\ circle'.escrow_amount = circle.escrow_amount
    BY <1>10 DEF ExecuteEditTrustedCircle, store_vars, apply_adjustments
  <2> QED BY <1>0, <2>1, NothingLives
<1>11. ASSUME NEW a \in Addr, WithdrawRewards(a)
       PROVE  LifeStep
  <2>1. /\ UNCHANGED <<escrows, circle>>
        /\ bank' = [bank EXCEPT ![reward_denom] = @ - withdrawable_rewards(distribution, a, 1)]
    BY <1>11 DEF WithdrawRewards
  <2>2. bank'[denom] = bank[denom]
    BY <1>1, <2>1
  <2> QED BY <1>9, <2>1, <2>2
<1>12. ASSUME NEW amount \in Rewards, SendRewards(amount)
       PROVE  LifeStep
  <2>1. /\ UNCHANGED <<escrows, circle>>
        /\ bank' = [bank EXCEPT ![reward_denom] = @ + amount]
    BY <1>12 DEF SendRewards, store_vars
  <2>2. bank'[denom] = bank[denom]
    BY <1>1, <2>1
  <2> QED BY <1>9, <2>1, <2>2
<1>13. ASSUME \/ \E id \in DOMAIN proposals :
                   Close(id) \/ \E a \in Addr, vote \in CastVotes : Vote(a, id, vote)
              \/ DistributeRewards \/ NextBlock \/ UNCHANGED vars
       PROVE  LifeStep
  <2>1. UNCHANGED <<escrows, circle>> /\ bank' = bank
    BY <1>13 DEF Close, Vote, DistributeRewards, NextBlock, vars, store_vars
  <2> QED BY <1>9, <2>1
<1> QED BY <1>2, <1>3, <1>4, <1>8, <1>10, <1>11, <1>12, <1>13 DEF Next

LEMMA InitLives == Init => AbstractMembers!Init
<1> SUFFICES ASSUME Init PROVE AbstractMembers!Init
  OBVIOUS
<1>1. PICK amount \in Payments :
        /\ amount >= circle.escrow_amount
        /\ bank = [x \in {denom, reward_denom} |-> IF x = denom THEN amount ELSE 0]
        /\ \A x \in Addr :
             /\ escrows[x].paid = IF x = Creator THEN amount ELSE 0
             /\ x # Creator => escrows[x].status \in {"None", "NonVoting"}
             /\ x = Creator => escrows[x].status = "Voting"
  BY InitStore
<1>2. circle.escrow_amount > 0
  BY InitHolds DEF IInv, CircleOK
<1>3. /\ standing \in [Addr -> {"None", "NonVoting", "Voting"}]
      /\ \A a \in Addr : standing[a] = "Voting" <=> a = Creator
  BY <1>1 DEF standing
<1>4. vault = amount /\ fee > 0 /\ vault >= fee
  BY <1>1, <1>2 DEF vault, fee
<1>5. held = [a \in Addr |-> IF a = Creator THEN vault ELSE 0]
  BY <1>1, <1>4 DEF held
<1> QED BY <1>3, <1>4, <1>5 DEF AbstractMembers!Init

\* The circle implements MemberLifecycle, as long as rewards are paid in another
\* token: a vote is paid for, lost by the rules only, and escrows are accounted for.
THEOREM MembersLive == ASSUME denom # reward_denom PROVE Spec => MembersLifecycle
<1> DEFINE Inv == IInv /\ DInv /\ BInv /\ WaitOK(Store)
<1>1. Init => Inv /\ AbstractMembers!Init
  BY InitHolds, InitTyped, InitBacked, InitWaits, InitLives
<1>2. Inv /\ [Next]_vars => Inv'
  <2>1. Inv /\ [Next]_vars => IInv' /\ DInv' /\ BInv'
    BY NextKeeps, NextTyped, NextBacked
  <2>2. Inv /\ [Next]_vars => WaitOK(Store)'
    BY NextWaits
  <2> QED BY <2>1, <2>2
<1>3. Inv /\ [Next]_vars => [AbstractMembers!Next]_AbstractMembers!vars
  BY NextLives DEF LifeStep, AbstractMembers!vars
<1> QED BY <1>1, <1>2, <1>3, PTL DEF Spec, MembersLifecycle, AbstractMembers!Spec
================================================================================
