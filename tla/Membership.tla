------------------------------- MODULE Membership -------------------------------
(***************************************************************************)
(* Members, escrows and batches of a trusted circle: the storage of        *)
(* tgrade-trusted-circle/src/state.rs and the helpers of contract.rs that  *)
(* several handlers share.                                                 *)
(*                                                                         *)
(* The helpers are operators on a store, a record of the storage items     *)
(* they touch:                                                             *)
(*   escrows      ESCROWS, with status "None" for an absent address        *)
(*   points       members(), the current voting points; ABSENT if none     *)
(*   changelog    members(), its snapshots: per address, the heights at    *)
(*                which the points changed, with the value they had before *)
(*   total        TOTAL                                                    *)
(*   batches      batches(), a function on the ids in use                  *)
(*   distribution DISTRIBUTION                                             *)
(* A handler is a composition of these operators, and the module           *)
(* TrustedCircle commits the resulting store in one step, since a CosmWasm *)
(* transaction is atomic.                                                  *)
(***************************************************************************)
EXTENDS Integers, FiniteSets, Distribution

ASSUME AddrAssumption == IsFiniteSet(Addr)

VOTING_POINTS == 1
ABSENT == -1

MemberStatus == {"None", "NonVoting", "Pending", "PendingPaid", "Voting", "Leaving"}

\* proposal_id is used by Pending and PendingPaid, claim_at by Leaving; else 0
EscrowStatus ==
  [status : MemberStatus, proposal_id : Nat, claim_at : Nat, paid : Nat]

NoEscrow == [status |-> "None", proposal_id |-> 0, claim_at |-> 0, paid |-> 0]

\* The status of an escrow changes, the amount paid stays
Become(escrow, status, proposal_id, claim_at) ==
  [escrow EXCEPT !.status = status, !.proposal_id = proposal_id,
                 !.claim_at = claim_at]

\* A batch: members voted in together; members may be listed twice in the
\* Vec, so waiting_escrow starts at its length, not at the size of the set
Batch ==
  [grace_ends_at : Nat, waiting_escrow : Int, batch_promoted : BOOLEAN,
   members : SUBSET Addr]

can_promote(batch, now) == batch.waiting_escrow = 0 \/ now >= batch.grace_ends_at

WithStatus(s, status) == {a \in Addr : s.escrows[a].status = status}
Members(s) == {a \in Addr : s.escrows[a].status # "None"}

-----------------------------------------------------------------------------
\* members().save / members().remove of an EveryBlock snapshot map: the first
\* change at a height records the value the key had before it

record_change(log, height, old) ==
  [h \in DOMAIN log \cup {height} |-> IF h \in DOMAIN log THEN log[h] ELSE old]

save_points(s, A, value, height) ==
  [s EXCEPT
     !.points = [a \in Addr |-> IF a \in A THEN value ELSE s.points[a]],
     !.changelog = [a \in Addr |->
        IF a \in A THEN record_change(s.changelog[a], height, s.points[a])
                   ELSE s.changelog[a]]]

\* members().may_load_at_height: the points before any change at that height
points_at_height_after(s, a, height) ==   \* mutant: skips a change at the height
  LET later == {h \in DOMAIN s.changelog[a] : h > height}
      first == CHOOSE h \in later : \A k \in later : h <= k
  IN IF later = {} THEN s.points[a] ELSE s.changelog[a][first]

points_at_height(s, a, height) ==
  LET later == {h \in DOMAIN s.changelog[a] : h >= height}
      first == CHOOSE h \in later : \A k \in later : h <= k
  IN IF later = {} THEN s.points[a] ELSE s.changelog[a][first]

\* may_load(..).unwrap_or_default().points
vote_power(value) == IF value = ABSENT THEN 0 ELSE value

-----------------------------------------------------------------------------
set_status(s, A, status, proposal_id, claim_at) ==
  [s EXCEPT !.escrows = [a \in Addr |->
     IF a \in A THEN Become(s.escrows[a], status, proposal_id, claim_at)
                ELSE s.escrows[a]]]

\* Addresses enter (status "NonVoting" or "Pending", nothing paid), no points
add_members(s, A, status, proposal_id, height) ==
  LET entry == Become(NoEscrow, status, proposal_id, 0)
      t == save_points(s, A, 0, height)
  IN [t EXCEPT !.escrows = [a \in Addr |-> IF a \in A THEN entry ELSE s.escrows[a]]]

\* ESCROWS.remove and members().remove
remove_members(s, A, height) ==
  LET t == save_points(s, A, ABSENT, height)
  IN [t EXCEPT !.escrows = [a \in Addr |-> IF a \in A THEN NoEscrow ELSE s.escrows[a]]]

\* Voters of A lose their point: members().save(0), TOTAL - 1 each, correction
strip_points(s, A, height) ==
  LET t == save_points(s, A, 0, height)
  IN [t EXCEPT !.total = @ - VOTING_POINTS * Cardinality(A),
               !.distribution = apply_points_correction(@, A, -VOTING_POINTS)]

\* convert_to_voter_if_paid for each address of A, all pending paid, followed
\* by its caller's update of TOTAL and its caller's own points correction

promote_uncorrected(s, A, height) ==   \* mutant: no points correction
  LET t == save_points(set_status(s, A, "Voting", 0, 0), A, VOTING_POINTS, height)
  IN [t EXCEPT !.total = @ + VOTING_POINTS * Cardinality(A)]

promote(s, A, height) ==
  LET t == save_points(set_status(s, A, "Voting", 0, 0), A, VOTING_POINTS, height)
      converted == apply_points_correction(s.distribution, A, VOTING_POINTS)
  IN [t EXCEPT !.total = @ + VOTING_POINTS * Cardinality(A),
               !.distribution = apply_points_correction(converted, A, VOTING_POINTS)]

-----------------------------------------------------------------------------
\* create_batch; the ids are the ids of executed proposals, and reusing one is
\* an error (AlreadyUsedProposal), see can_create_batch
can_create_batch(s, proposal_id, count) == count > 0 => proposal_id \notin DOMAIN s.batches

create_batch(s, proposal_id, grace_ends_at, A, count) ==
  LET batch == [grace_ends_at |-> grace_ends_at, waiting_escrow |-> count,
                batch_promoted |-> FALSE, members |-> A]
  IN IF count = 0 THEN s
     ELSE [s EXCEPT !.batches = [id \in DOMAIN s.batches \cup {proposal_id} |->
                                  IF id = proposal_id THEN batch ELSE s.batches[id]]]

\* convert_all_paid_members_to_voters for each batch of ready: it loads the
\* escrow of every listed member (an error if there is none) and promotes the
\* ones that are pending paid, whichever batch their status names
listed(s, ready) == UNION {s.batches[id].members : id \in ready}
can_convert_all(s, ready) == listed(s, ready) \subseteq Members(s)

convert_all_paid_members_to_voters(s, ready, height) ==
  LET t == promote(s, listed(s, ready) \cap WithStatus(s, "PendingPaid"), height)
  IN [t EXCEPT !.batches = [id \in DOMAIN s.batches |->
        IF id \in ready THEN [s.batches[id] EXCEPT !.batch_promoted = TRUE]
                        ELSE s.batches[id]]]

\* check_pending_batches: the index on (promoted, grace_ends_at)
ready_batches_complete(s, now) ==   \* mutant: only batches where all have paid
  {id \in DOMAIN s.batches : /\ ~s.batches[id].batch_promoted
                             /\ s.batches[id].waiting_escrow = 0}

ready_batches(s, now) ==
  {id \in DOMAIN s.batches : /\ ~s.batches[id].batch_promoted
                             /\ s.batches[id].grace_ends_at <= now}

\* update_batch_after_escrow_paid, for the address a that just became
\* pending paid in batch id
update_batch_once(s, a, id, now, height) ==   \* mutant: a promoted batch is done with
  LET t == [s EXCEPT !.batches[id].waiting_escrow = @ - 1]
  IN IF can_promote(t.batches[id], now) /\ ~t.batches[id].batch_promoted
       THEN convert_all_paid_members_to_voters(t, {id}, height) ELSE t

update_batch_after_escrow_paid(s, a, id, now, height) ==
  LET t == [s EXCEPT !.batches[id].waiting_escrow = @ - 1]
  IN CASE ~can_promote(t.batches[id], now)  -> t
       [] /\ can_promote(t.batches[id], now)
          /\ t.batches[id].batch_promoted   -> promote(t, {a}, height)
       [] OTHER -> convert_all_paid_members_to_voters(t, {id}, height)

can_update_batch(s, a, id, now) ==
  LET t == [s EXCEPT !.batches[id].waiting_escrow = @ - 1]
  IN /\ id \in DOMAIN s.batches
     /\ can_promote(t.batches[id], now) /\ ~t.batches[id].batch_promoted
          => can_convert_all(t, {id})
=============================================================================
