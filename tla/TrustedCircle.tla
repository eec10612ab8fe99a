----------------------------- MODULE TrustedCircle -----------------------------
(***************************************************************************)
(* The contract tgrade-trusted-circle: one action per message of           *)
(* contract.rs, on the storage of Membership, the proposals with their     *)
(* ballots, and the two things the chain provides: the current block and   *)
(* the contract's bank balance.  A message that the contract rejects, or   *)
(* that panics, aborts its transaction: its action is not enabled.         *)
(***************************************************************************)
EXTENDS Integers, FiniteSets, Sequences, Functions, Membership, VotingRules

CONSTANTS
  Creator,          \* sender of the instantiate message
  InitialMembers,   \* InstantiateMsg::initial_members
  InitialCircle,    \* escrow amount and voting rules of InstantiateMsg
  Denied,           \* members of the deny-list contract
  Contracts,        \* addresses of contracts, the others are human
  denom,            \* InstantiateMsg::denom, of the escrow
  reward_denom,     \* InstantiateMsg::reward_denom
  ONE_TGD,          \* the smallest escrow amount validate accepts
  DAY,              \* seconds in a day
  InitialHeight,    \* block height of the instantiation
  Contents,         \* the proposal contents that members may propose
  Payments,         \* the amounts that may be paid in one message
  Rewards,          \* the amounts that may be sent to the contract as rewards
  CastVotes,        \* the votes that may be cast
  BlockSteps,       \* the seconds that may pass between two blocks
  MaxHeight,        \* bound: the last block
  MaxProposals,     \* bound: proposals made
  MaxPaid,          \* bound: the escrow of one address
  MaxRewards        \* bound: the rewards the contract receives in all

VARIABLES
  \* storage of the contract
  escrows, points, changelog, total, batches, distribution,
  circle,        \* TRUSTED_CIRCLE
  proposals,     \* PROPOSALS, indexed by id; PROPOSAL_COUNT is the length
  by_expiry,     \* PROPOSAL_BY_EXPIRY, from an expiry to one proposal id
  ballots,       \* ballots(), a set of records
  \* the chain
  height, now,   \* the current block, its time in seconds
  bank           \* the contract's balance, per denom

store_vars == <<escrows, points, changelog, total, batches, distribution>>
proposal_vars == <<proposals, by_expiry, ballots>>
block_vars == <<height, now>>
vars == <<store_vars, circle, proposal_vars, block_vars, bank>>

-----------------------------------------------------------------------------
\* Types.  NoPending is the None of escrow_pending: proposal ids start at 1

NoPending == [proposal_id |-> 0, amount |-> 0, grace_ends_at |-> 0]
PendingEscrow == [proposal_id : Nat, amount : Nat, grace_ends_at : Nat]

CircleType ==
  [escrow_amount : Nat, escrow_pending : PendingEscrow,
   rules : VotingRulesType, edit_trusted_circle_disabled : BOOLEAN]

\* An Option<T> is a set of at most one value
IsOption(option, S) == option \subseteq S /\ \A x, y \in option : x = y
Unwrap(option, default) == IF option = {} THEN default ELSE CHOOSE x \in option : TRUE

IsAdjustments(adj) ==
  /\ IsOption(adj.escrow_amount, Nat)
  /\ IsOption(adj.voting_period, Nat)
  /\ IsOption(adj.quorum, 0..DECIMAL_ONE)
  /\ IsOption(adj.threshold, 0..DECIMAL_ONE)
  /\ IsOption(adj.allow_end_early, BOOLEAN)
  /\ IsOption(adj.edit_trusted_circle_disabled, BOOLEAN)

Punishment ==
  [slashing_percentage : 0..DECIMAL_ONE, recipients : Nat, kick_out : BOOLEAN]

\* ProposalContent.  Punishments are a function on the members they name: two
\* punishments of one member in one proposal are left out.  A punishment
\* without recipients burns what it slashes.
IsProposalContent(content) ==
  CASE content.kind = "AddVotingMembers" -> content.voters \in Seq(Addr)
    [] content.kind = "AddRemoveNonVotingMembers" ->
         content.add \subseteq Addr /\ content.remove \subseteq Addr
    [] content.kind = "EditTrustedCircle" -> IsAdjustments(content.adjustments)
    [] content.kind = "PunishMembers" ->
         /\ DOMAIN content.punishments \subseteq Addr
         /\ \A a \in DOMAIN content.punishments : content.punishments[a] \in Punishment
    [] content.kind \in {"WhitelistContract", "RemoveContract"} -> content.addr \in Addr

Proposal ==
  [start_height : Nat, expires : Nat, content : Contents, status : ProposalStatus,
   rules : VotingRulesType, total_points : Nat, votes : Votes]

Ballot == [proposal_id : Nat, voter : Addr, vote : VoteOption, points : Nat]

ASSUME CircleAssumption ==
  /\ Creator \in Addr
  /\ InitialMembers \subseteq Addr
  /\ Denied \subseteq Addr
  /\ Contracts \subseteq Addr
  /\ InitialCircle \in CircleType
  /\ ONE_TGD \in Nat \ {0}
  /\ DAY \in Nat \ {0}
  /\ InitialHeight \in Nat
  /\ \A content \in Contents : IsProposalContent(content)
  /\ Payments \subseteq Nat \ {0}
  /\ Rewards \subseteq Nat \ {0}
  /\ CastVotes \subseteq VoteOption
  /\ BlockSteps \subseteq Nat
  /\ MaxHeight \in Nat
  /\ MaxProposals \in Nat
  /\ MaxPaid \in Nat
  /\ MaxRewards \in Nat

-----------------------------------------------------------------------------
\* TrustedCircle of state.rs

voting_period_secs(rules) == rules.voting_period * DAY

get_escrow_pending(k) == k.escrow_pending.amount   \* mutant: 0 when none is pending

get_escrow(k) ==
  IF k.escrow_pending.amount > k.escrow_amount THEN k.escrow_pending.amount
                                               ELSE k.escrow_amount

ValidCircle(k) ==
  /\ ValidRules(k.rules)
  /\ k.escrow_amount >= ONE_TGD
  /\ k.escrow_pending # NoPending => k.escrow_pending.amount >= ONE_TGD

\* apply_adjustments; the grace period is the new voting period
can_adjust(k, adj) == adj.escrow_amount # {} => k.escrow_pending = NoPending

apply_adjustments(k, adj, proposal_id) ==
  LET rules == [voting_period   |-> Unwrap(adj.voting_period, k.rules.voting_period),
                quorum          |-> Unwrap(adj.quorum, k.rules.quorum),
                threshold       |-> Unwrap(adj.threshold, k.rules.threshold),
                allow_end_early |-> Unwrap(adj.allow_end_early, k.rules.allow_end_early)]
      amount == Unwrap(adj.escrow_amount, k.escrow_amount)
      pending == IF amount = k.escrow_amount THEN k.escrow_pending
                 ELSE [proposal_id |-> proposal_id, amount |-> amount,
                       grace_ends_at |-> now + voting_period_secs(rules)]
  IN [escrow_amount |-> k.escrow_amount, escrow_pending |-> pending, rules |-> rules,
      edit_trusted_circle_disabled |->
        Unwrap(adj.edit_trusted_circle_disabled, k.edit_trusted_circle_disabled)]

-----------------------------------------------------------------------------
\* The store as a value, and its commit at the end of a transaction.  A total
\* below zero is the "Total underflow" error that aborts it.

Store ==
  [escrows |-> escrows, points |-> points, changelog |-> changelog, total |-> total,
   batches |-> batches, distribution |-> distribution]

Commit(s) ==
  /\ s.total >= 0
  /\ escrows' = s.escrows
  /\ points' = s.points
  /\ changelog' = s.changelog
  /\ total' = s.total
  /\ batches' = s.batches
  /\ distribution' = s.distribution

-----------------------------------------------------------------------------
\* check_pending: first the pending escrow, then the batches

escrow_due(k) == k.escrow_pending # NoPending /\ now >= k.escrow_pending.grace_ends_at

short_voters(s, k) ==
  {a \in WithStatus(s, "Voting") : s.escrows[a].paid < k.escrow_pending.amount}
paid_pending(s, k) ==
  {a \in WithStatus(s, "Pending") : s.escrows[a].paid >= k.escrow_pending.amount}

demote_without_batch(s, k, h) ==   \* mutant: create_batch forgotten
  LET D == short_voters(s, k)
  IN set_status(strip_points(s, D, h), D, "Pending", k.escrow_pending.proposal_id, 0)

demote_short_voters(s, k, h) ==
  LET D == short_voters(s, k)
      id == k.escrow_pending.proposal_id
      t == set_status(strip_points(s, D, h), D, "Pending", id, 0)
  IN create_batch(t, id, now, D, Cardinality(D))

promote_paid_pending(s, k) ==
  [s EXCEPT !.escrows = [a \in Addr |->
     IF a \in paid_pending(s, k) THEN [s.escrows[a] EXCEPT !.status = "PendingPaid"]
                                 ELSE s.escrows[a]]]

check_pending_escrow(s, k, h) ==
  CASE escrow_due(k) /\ k.escrow_pending.amount > k.escrow_amount -> demote_short_voters(s, k, h)
    [] escrow_due(k) /\ k.escrow_pending.amount < k.escrow_amount -> promote_paid_pending(s, k)
    [] OTHER -> s

enforce_escrow_again(k) ==   \* mutant: escrow_pending is not taken
  IF escrow_due(k) THEN [k EXCEPT !.escrow_amount = k.escrow_pending.amount] ELSE k

enforce_escrow(k) ==
  IF escrow_due(k)
    THEN [k EXCEPT !.escrow_amount = k.escrow_pending.amount, !.escrow_pending = NoPending]
    ELSE k

check_pending(s, k, h) ==
  LET t == check_pending_escrow(s, k, h)
  IN convert_all_paid_members_to_voters(t, ready_batches(t, now), h)

\* Neither create_batch nor the promotion of a ready batch fails
can_check_pending(s, k, h) ==
  LET t == check_pending_escrow(s, k, h)
  IN /\ escrow_due(k) /\ k.escrow_pending.amount > k.escrow_amount
          => can_create_batch(s, k.escrow_pending.proposal_id, Cardinality(short_voters(s, k)))
     /\ can_convert_all(t, ready_batches(t, now))

CheckPending ==
  /\ can_check_pending(Store, circle, height)
  /\ Commit(check_pending(Store, circle, height))
  /\ circle' = enforce_escrow(circle)
  /\ UNCHANGED <<proposal_vars, block_vars, bank>>

-----------------------------------------------------------------------------
\* instantiate: the creator pays at least the escrow and is the first voter

Init ==
  LET empty == [escrows |-> [a \in Addr |-> NoEscrow], points |-> [a \in Addr |-> ABSENT],
                changelog |-> [a \in Addr |-> <<>>], total |-> 0,
                batches |-> <<>>, distribution |-> InitDistribution]
      founded == [save_points(empty, {Creator}, VOTING_POINTS, InitialHeight)
                    EXCEPT !.total = VOTING_POINTS]
  IN
  \E amount \in Payments :
    LET creator == Become([NoEscrow EXCEPT !.paid = amount], "Voting", 0, 0)
        s == add_members([founded EXCEPT !.escrows[Creator] = creator],
                         InitialMembers \ {Creator}, "NonVoting", 0, InitialHeight)
    IN
    /\ ValidCircle(InitialCircle) /\ InitialCircle.escrow_pending = NoPending
    /\ amount >= InitialCircle.escrow_amount /\ amount <= MaxPaid
    /\ InitialMembers \cap Denied = {}
    /\ escrows = s.escrows /\ points = s.points /\ changelog = s.changelog
    /\ total = s.total /\ batches = s.batches /\ distribution = s.distribution
    /\ circle = InitialCircle
    /\ proposals = <<>> /\ by_expiry = <<>> /\ ballots = {}
    /\ height = InitialHeight /\ now = 0
    /\ bank = [d \in {denom, reward_denom} |-> IF d = denom THEN amount ELSE 0]

-----------------------------------------------------------------------------
\* execute_deposit_escrow

DepositEscrow(a, amount) ==
  LET e == escrows[a]
      paid == e.paid + amount
      s == [Store EXCEPT !.escrows[a].paid = paid]
      complete == e.status = "Pending" /\ paid >= get_escrow(circle)
      t == [s EXCEPT !.escrows[a].status = "PendingPaid"]
  IN
  /\ e.status \in {"Pending", "PendingPaid", "Voting"}
  /\ paid <= MaxPaid
  /\ \/ ~complete /\ Commit(s)
     \/ /\ complete
        /\ can_update_batch(t, a, e.proposal_id, now)
        /\ Commit(update_batch_after_escrow_paid(t, a, e.proposal_id, now, height))
  /\ bank' = [bank EXCEPT ![denom] = @ + amount]
  /\ UNCHANGED <<circle, proposal_vars, block_vars>>

\* execute_return_escrow; a refund of nothing returns before any change
refundable_surplus(e) == e.paid - get_escrow(circle)   \* mutant: leavers pay the minimum

refundable(e) == IF e.status = "Voting" THEN e.paid - get_escrow(circle) ELSE e.paid

ReturnEscrow(a) ==
  LET e == escrows[a]
      refund == refundable(e)
      s == [Store EXCEPT !.escrows[a].paid = @ - refund]
  IN
  /\ \/ e.status = "Voting" /\ e.paid >= get_escrow(circle)
     \/ e.status = "Leaving" /\ e.claim_at <= now
  /\ refund > 0
  /\ bank[denom] >= refund
  /\ Commit(IF refund = e.paid THEN remove_members(Store, {a}, height) ELSE s)
  /\ bank' = [bank EXCEPT ![denom] = @ - refund]
  /\ UNCHANGED <<circle, proposal_vars, block_vars>>

-----------------------------------------------------------------------------
\* execute_leave_trusted_circle

\* adjust_open_proposals_for_leaver, for leavers L in any order: every open
\* proposal the expiry index leads to loses one point per leaver without ballot
adjust_open_proposals(ps, L) ==
  LET indexed == {by_expiry[t] : t \in {u \in DOMAIN by_expiry : u > now}}
      silent(id) == {a \in L : ~ \E b \in ballots : b.proposal_id = id /\ b.voter = a}
  IN [id \in DOMAIN ps |->
        IF id \in indexed /\ ps[id].status = "Open"
          THEN [ps[id] EXCEPT !.total_points =
                  (@ - VOTING_POINTS * Cardinality(silent(id))) % U64_MODULUS]
          ELSE ps[id]]

claim_time_days == now + 2 * circle.rules.voting_period   \* mutant: days for seconds

claim_time == now + 2 * voting_period_secs(circle.rules)

\* trigger_long_leave on the store, for leavers L
trigger_long_leave_voting(s, L) ==   \* mutant: keeps the points
  set_status(s, L, "Leaving", 0, claim_time)

trigger_long_leave(s, L) ==
  set_status(strip_points(s, L \cap WithStatus(s, "Voting"), height),
             L, "Leaving", 0, claim_time)

LeaveImmediately(a) ==
  /\ \/ escrows[a].status = "NonVoting"
     \/ escrows[a].status = "Pending" /\ escrows[a].paid = 0
  /\ Commit(remove_members(Store, {a}, height))
  /\ UNCHANGED <<circle, proposal_vars, block_vars, bank>>

LeaveTrustedCircle(a) ==
  /\ \/ escrows[a].status \in {"PendingPaid", "Voting"}
     \/ escrows[a].status = "Pending" /\ escrows[a].paid > 0
  /\ Commit(trigger_long_leave(Store, {a}))
  /\ proposals' = adjust_open_proposals(proposals, {a} \cap WithStatus(Store, "Voting"))
  /\ UNCHANGED <<circle, by_expiry, ballots, block_vars, bank>>

-----------------------------------------------------------------------------
\* execute_propose

\* ensure_not_denied and validate_human_addresses
allowed_all(A) == TRUE   \* mutant: deny list not asked

allowed(A) == A \cap Denied = {}
is_contract(a) == a \in Contracts
human(A) == \A a \in A : ~is_contract(a)

voters_of(content) == {content.voters[i] : i \in DOMAIN content.voters}

\* Punishment::validate: only members that were voted in are punished
valid_punishments(s, punishments) ==
  \A a \in DOMAIN punishments :
    /\ punishments[a].slashing_percentage \in 0 .. DECIMAL_ONE
    /\ s.escrows[a].status \notin {"None", "NonVoting"}

\* validate_proposal, on the store and circle that check_pending left
ValidProposal(s, k, content) ==
  CASE content.kind = "EditTrustedCircle" ->
         /\ ~k.edit_trusted_circle_disabled
         /\ can_adjust(k, content.adjustments)
         /\ ValidCircle(apply_adjustments(k, content.adjustments, Len(proposals) + 1))
    [] content.kind = "AddRemoveNonVotingMembers" ->
         /\ content.add \cup content.remove # {}
         /\ human(content.add) /\ allowed(content.add)
    [] content.kind = "AddVotingMembers" ->
         /\ content.voters # <<>>
         /\ human(voters_of(content)) /\ allowed(voters_of(content))
    [] content.kind = "PunishMembers" ->
         /\ DOMAIN content.punishments # {}
         /\ valid_punishments(s, content.punishments)
    [] OTHER -> is_contract(content.addr)

\* create_proposal: of two that expire in one second, the index has the later
create_proposal(prop) ==
  /\ proposals' = Append(proposals, prop)
  /\ by_expiry' = [t \in DOMAIN by_expiry \cup {prop.expires} |->
                     IF t = prop.expires THEN Len(proposals) + 1 ELSE by_expiry[t]]

Propose(a, content) ==
  LET checked == height > 0
      s == IF checked THEN check_pending(Store, circle, height - 1) ELSE Store
      k == IF checked THEN enforce_escrow(circle) ELSE circle
      power == vote_power(s.points[a])
      expires == now + voting_period_secs(k.rules)
      id == Len(proposals) + 1
      prop == [start_height |-> height, expires |-> expires, content |-> content,
               status |-> "Open", rules |-> k.rules, total_points |-> s.total,
               votes |-> add_vote(NoVotes, "Yes", power)]
  IN
  /\ Len(proposals) < MaxProposals
  /\ checked => can_check_pending(Store, circle, height - 1)
  /\ power > 0
  /\ ValidProposal(s, k, content)
  /\ Commit(s)
  /\ circle' = k
  /\ create_proposal(update_status(prop, now))
  /\ ballots' = ballots \cup
       {[proposal_id |-> id, voter |-> a, vote |-> "Yes", points |-> power]}
  /\ UNCHANGED <<block_vars, bank>>

\* execute_vote
has_voted_never(a, id) == FALSE   \* mutant: AlreadyVoted not checked

has_voted(a, id) == \E b \in ballots : b.proposal_id = id /\ b.voter = a

Vote(a, id, vote) ==
  LET prop == proposals[id]
      power == vote_power(points_at_height(Store, a, prop.start_height))
  IN
  /\ prop.status \in {"Open", "Passed"}
  /\ now < prop.expires
  /\ power > 0
  /\ escrows[a].status = "Voting"
  /\ ~has_voted(a, id)
  /\ ballots' = ballots \cup
       {[proposal_id |-> id, voter |-> a, vote |-> vote, points |-> power]}
  /\ proposals' = [proposals EXCEPT ![id] =
       update_status([prop EXCEPT !.votes = add_vote(@, vote, power)], now)]
  /\ UNCHANGED <<store_vars, circle, by_expiry, block_vars, bank>>

\* execute_close
Close_any(id) ==   \* mutant: the status is not checked
  /\ now >= proposals[id].expires
  /\ proposals' = [proposals EXCEPT ![id].status = "Rejected"]
  /\ UNCHANGED <<store_vars, circle, by_expiry, ballots, block_vars, bank>>

Close(id) ==
  /\ proposals[id].status = "Open"
  /\ now >= proposals[id].expires
  /\ proposals' = [proposals EXCEPT ![id].status = "Rejected"]
  /\ UNCHANGED <<store_vars, circle, by_expiry, ballots, block_vars, bank>>

-----------------------------------------------------------------------------
\* execute_execute, with proposal_execute for each kind of content

Executable(id, kind) ==
  /\ proposals[id].content.kind = kind
  /\ proposals[id].status = "Passed"

executed(id) == [proposals EXCEPT ![id].status = "Executed"]

ExecuteEdit_unchecked(id) ==   \* mutant: edit_trusted_circle_disabled not checked
  /\ Executable(id, "EditTrustedCircle")
  /\ can_adjust(circle, proposals[id].content.adjustments)
  /\ circle' = apply_adjustments(circle, proposals[id].content.adjustments, id)
  /\ proposals' = executed(id)
  /\ UNCHANGED <<store_vars, by_expiry, ballots, block_vars, bank>>

ExecuteEditTrustedCircle(id) ==
  LET adj == proposals[id].content.adjustments
  IN
  /\ Executable(id, "EditTrustedCircle")
  /\ ~circle.edit_trusted_circle_disabled
  /\ can_adjust(circle, adj)
  /\ circle' = apply_adjustments(circle, adj, id)
  /\ proposals' = executed(id)
  /\ UNCHANGED <<store_vars, by_expiry, ballots, block_vars, bank>>

\* proposal_add_voting_members: the batch lists every voter of the proposal,
\* the ones that are members already keep their status
ExecuteAddVotingMembers(id) ==
  LET voters == voters_of(proposals[id].content)
      added == {a \in voters : escrows[a].status \in {"None", "NonVoting"}}
      count == Len(proposals[id].content.voters)
      s == create_batch(Store, id, now + voting_period_secs(circle.rules), voters, count)
  IN
  /\ Executable(id, "AddVotingMembers")
  /\ allowed(voters)
  /\ can_create_batch(Store, id, count)
  /\ Commit(add_members(s, added, "Pending", id, height))
  /\ proposals' = executed(id)
  /\ UNCHANGED <<circle, by_expiry, ballots, block_vars, bank>>

\* add_remove_non_voting_members: adds first, then removes; removing a member
\* that is not a non-voting one is an error, removing a stranger is ignored
AddRemove(id, add, remove) ==
  LET added == {a \in add : points[a] = ABSENT}
      s == add_members(Store, added, "NonVoting", 0, height)
  IN
  /\ allowed(add)
  /\ \A a \in remove : s.escrows[a].status \in {"None", "NonVoting"}
  /\ Commit(remove_members(s, remove \cap Members(s), height))
  /\ proposals' = executed(id)
  /\ UNCHANGED <<circle, by_expiry, ballots, block_vars, bank>>

ExecuteAddRemoveNonVotingMembers(id) ==
  /\ Executable(id, "AddRemoveNonVotingMembers")
  /\ AddRemove(id, proposals[id].content.add, proposals[id].content.remove)

whitelist_contract_addr(id, addr) == AddRemove(id, {addr}, {})
remove_contract_addr(id, addr) == AddRemove(id, {}, {addr})

ExecuteWhitelistContract(id) ==
  /\ Executable(id, "WhitelistContract")
  /\ whitelist_contract_addr(id, proposals[id].content.addr)

ExecuteRemoveContract(id) ==
  /\ Executable(id, "RemoveContract")
  /\ remove_contract_addr(id, proposals[id].content.addr)

\* proposal_punish_members: what a punishment p takes from an escrow of paid
\* tokens, what it leaves there (a distribution leaves its remainder) and what
\* it sends away.  Sending shares of nothing fails on some chains: allowed here.
escrow_slashed(paid, p) == (paid * p.slashing_percentage) \div DECIMAL_ONE
escrow_each(paid, p) == escrow_slashed(paid, p) \div p.recipients

escrow_remaining_up(paid, p) ==   \* mutant: shares are rounded up
  paid - escrow_slashed(paid, p) -
    IF p.recipients = 0 THEN 0 ELSE escrow_slashed(paid, p) % p.recipients

escrow_remaining_lost(paid, p) ==   \* mutant: the remainder is not kept
  paid - escrow_slashed(paid, p)

escrow_remaining(paid, p) ==
  paid - escrow_slashed(paid, p) +
    IF p.recipients = 0 THEN 0 ELSE escrow_slashed(paid, p) % p.recipients

escrow_sent(paid, p) ==
  IF p.recipients = 0 THEN escrow_slashed(paid, p)
                      ELSE p.recipients * escrow_each(paid, p)

ExecutePunishMembers(id) ==
  LET punishments == proposals[id].content.punishments
      named == DOMAIN punishments
      left(a) == escrow_remaining(escrows[a].paid, punishments[a])
      kicked == {a \in named : punishments[a].kick_out}
      demoted == {a \in named \ kicked : left(a) < get_escrow(circle)}
      voting == WithStatus(Store, "Voting")
      slashed == [Store EXCEPT !.escrows = [a \in Addr |->
                    IF a \in named THEN [escrows[a] EXCEPT !.paid = left(a)]
                                   ELSE escrows[a]]]
      s == set_status(strip_points(trigger_long_leave(slashed, kicked),
                                   demoted \cap voting, height),
                      demoted, "Pending", id, 0)
      sent == FoldFunction(+, 0, [a \in named |->
                             escrow_sent(escrows[a].paid, punishments[a])])
  IN
  /\ Executable(id, "PunishMembers")
  /\ \A a \in named : escrows[a].status \notin {"None", "NonVoting"}
  /\ can_create_batch(s, id, Cardinality(demoted))
  /\ bank[denom] >= sent
  /\ Commit(create_batch(s, id, now, demoted, Cardinality(demoted)))
  /\ proposals' = adjust_open_proposals(executed(id), kicked \cap voting)
  /\ bank' = [bank EXCEPT ![denom] = @ - sent]
  /\ UNCHANGED <<circle, by_expiry, ballots, block_vars>>

Execute(id) ==
  \/ ExecuteEditTrustedCircle(id)
  \/ ExecuteAddVotingMembers(id)
  \/ ExecuteAddRemoveNonVotingMembers(id)
  \/ ExecuteWhitelistContract(id)
  \/ ExecuteRemoveContract(id)
  \/ ExecutePunishMembers(id)

-----------------------------------------------------------------------------
\* Rewards

\* Anybody sends reward tokens to the contract, with DistributeRewards or before
SendRewards(amount) ==
  /\ distribution.distributed_total + Undistributed(distribution, bank[reward_denom])
       + amount <= MaxRewards
  /\ bank' = [bank EXCEPT ![reward_denom] = @ + amount]
  /\ UNCHANGED <<store_vars, circle, proposal_vars, block_vars>>

\* execute_distribute_funds; a balance below what is assigned overflows
DistributeRewards ==
  /\ total > 0
  /\ Undistributed(distribution, bank[reward_denom]) > 0
  /\ distribution' = distribute_rewards(distribution, bank[reward_denom], total)
  /\ UNCHANGED <<escrows, points, changelog, total, batches, circle, proposal_vars,
                 block_vars, bank>>

\* execute_withdraw_funds
WithdrawRewards(a) ==
  LET amount == withdrawable_rewards(distribution, a, 1)
  IN
  /\ escrows[a].status = "Voting"
  /\ CanWithdraw(distribution, a, 1)
  /\ amount > 0
  /\ bank[reward_denom] >= amount
  /\ distribution' = withdraw_rewards(distribution, a, 1)
  /\ bank' = [bank EXCEPT ![reward_denom] = @ - amount]
  /\ UNCHANGED <<escrows, points, changelog, total, batches, circle, proposal_vars,
                 block_vars>>

-----------------------------------------------------------------------------
NextBlock ==
  /\ height < MaxHeight
  /\ height' = height + 1
  /\ \E d \in BlockSteps : now' = now + d
  /\ UNCHANGED <<store_vars, circle, proposal_vars, bank>>

Next ==
  \/ \E a \in Addr :
       \/ \E amount \in Payments : DepositEscrow(a, amount)
       \/ ReturnEscrow(a)
       \/ LeaveImmediately(a)
       \/ LeaveTrustedCircle(a)
       \/ WithdrawRewards(a)
       \/ \E content \in Contents : Propose(a, content)
  \/ \E id \in DOMAIN proposals :
       \/ \E a \in Addr, vote \in CastVotes : Vote(a, id, vote)
       \/ Execute(id)
       \/ Close(id)
  \/ CheckPending
  \/ DistributeRewards
  \/ \E amount \in Rewards : SendRewards(amount)
  \/ NextBlock

Spec == Init /\ [][Next]_vars

\* A leaver who may claim its escrow asks for it, blocks follow each other, and
\* somebody calls CheckPending: nothing else has to happen.
Fairness ==
  /\ \A a \in Addr : WF_vars(ReturnEscrow(a))
  /\ WF_vars(CheckPending)
  /\ WF_vars(NextBlock)

FairSpec == Spec /\ Fairness

-----------------------------------------------------------------------------
\* Types of the variables

EscrowsOK == escrows \in [Addr -> EscrowStatus]
PointsOK ==
  /\ points \in [Addr -> {ABSENT, 0, VOTING_POINTS}]
  /\ \A a \in Addr : /\ DOMAIN changelog[a] \subseteq Nat
                      /\ \A h \in DOMAIN changelog[a] :
                           changelog[a][h] \in {ABSENT, 0, VOTING_POINTS}
BatchesOK ==
  /\ DOMAIN batches \subseteq Nat
  /\ \A id \in DOMAIN batches : batches[id] \in Batch

\* The type of the storage and of the chain
TypeOK ==
  /\ EscrowsOK /\ PointsOK /\ BatchesOK
  /\ total \in Nat
  /\ distribution \in DistributionType
  /\ circle \in CircleType
  /\ \A id \in DOMAIN proposals : proposals[id] \in Proposal
  /\ DOMAIN by_expiry \subseteq Nat
  /\ \A t \in DOMAIN by_expiry : by_expiry[t] \in DOMAIN proposals
  /\ ballots \subseteq Ballot
  /\ height \in Nat /\ now \in Nat
  /\ bank \in [{denom, reward_denom} -> Nat]

Voters == WithStatus(Store, "Voting")
PendingIn(id) == {a \in Addr : escrows[a].status = "Pending" /\ escrows[a].proposal_id = id}

-----------------------------------------------------------------------------
\* Safety

\* The points of every address follow its status (state.rs: ESCROWS is set for
\* any address with points), and TOTAL is the number of voters: through every
\* mix of promotions, demotions, kick-outs and leaves, TOTAL never drifts.
VotingMatchesTotal ==
  /\ \A a \in Addr : points[a] = CASE escrows[a].status = "None"   -> ABSENT
                                    [] escrows[a].status = "Voting" -> VOTING_POINTS
                                    [] OTHER                        -> 0
  /\ total = Cardinality(Voters)

\* waiting_escrow of a batch never falls below the members that still have to
\* pay, so the unchecked decrement of update_batch_after_escrow_paid never
\* wraps, and every pending member is listed by a batch that exists, so its
\* deposit never fails to load it.
WaitingCoversPending ==
  /\ \A id \in DOMAIN batches : batches[id].waiting_escrow >= Cardinality(PendingIn(id))
  /\ \A a \in Addr : escrows[a].status \in {"Pending", "PendingPaid"} =>
       /\ escrows[a].proposal_id \in DOMAIN batches
       /\ a \in batches[escrows[a].proposal_id].members

\* create_batch never meets an id in use (AlreadyUsedProposal would abort
\* CheckPending or the execution for ever): only executed proposals have a
\* batch, and the one whose escrow change is pending has none yet.
BatchIdsFresh ==
  /\ \A id \in DOMAIN batches :
       id \in DOMAIN proposals /\ proposals[id].status = "Executed"
  /\ circle.escrow_pending # NoPending =>
       /\ circle.escrow_pending.proposal_id \notin DOMAIN batches
       /\ circle.escrow_pending.proposal_id \in DOMAIN proposals
       /\ proposals[circle.escrow_pending.proposal_id].status = "Executed"

\* The contract holds exactly the escrows it owes: what is slashed leaves the
\* contract, remainders of a distribution stay with their member, and every
\* refund is taken from the escrow of the one who gets it.
EscrowBacked == bank[denom] = FoldFunction(+, 0, [a \in Addr |-> escrows[a].paid])

\* Somebody who paid waits only for a batch that is still to be promoted: once
\* a batch is promoted, late payers are promoted with their payment.
PaidAwaitPromotion ==
  \A a \in Addr : escrows[a].status = "PendingPaid" =>
    ~batches[escrows[a].proposal_id].batch_promoted

\* A voter has the escrow the circle requires, unless it was raised while a batch
\* that already paid was waiting.
VotersHoldEscrow == \A a \in Voters : escrows[a].paid >= circle.escrow_amount

\* Nobody who is denied, and no contract, gets further than its creation allows:
\* the checks at proposal and at execution keep the denied out, and contracts
\* out of the vote.
OnlyAllowedMembers ==
  /\ \A a \in Denied \ {Creator} : escrows[a].status = "None"
  /\ \A a \in Contracts \ {Creator} : escrows[a].status \in {"None", "NonVoting"}

\* A proposal that passed has its quorum and its threshold among the votes
\* cast, and later votes cannot take it away: allow_end_early ends a vote only
\* when it is decided.
PassedIsDecided ==
  \A id \in DOMAIN proposals : proposals[id].status \in {"Passed", "Executed"} =>
    LET p == proposals[id]
        opinions == total_votes(p.votes) - p.votes["Abstain"]
    IN /\ total_votes(p.votes) >= votes_needed(p.total_points, p.rules.quorum)
       /\ p.votes["Yes"] >= votes_needed(opinions, p.rules.threshold)

\* While anybody may still vote on a proposal a leaver voted on, the leaver's
\* escrow is held: 2 voting periods outlast every vote the leaver took part in.
LeaverHeldToVotes ==
  \A a \in Addr, b \in ballots :
    /\ escrows[a].status = "Leaving"
    /\ b.voter = a
    /\ now < proposals[b.proposal_id].expires
    => proposals[b.proposal_id].expires <= escrows[a].claim_at

-----------------------------------------------------------------------------
\* Action properties

\* Propose runs check_pending at the height of the last block (contract.rs:405).
\* Whom it changes has then no record yet of the block that is running: else
\* the record it adds comes before that one, and hides the points it kept.
UpkeepFirst ==
  Len(proposals') > Len(proposals) =>
    \A a \in Addr : changelog'[a] = changelog[a] \/ height \notin DOMAIN changelog[a]

ElectorateStays ==
  \A id \in DOMAIN proposals, a \in Addr :
    LET h == proposals[id].start_height
    IN vote_power(points_at_height(Store, a, h))'
         = vote_power(points_at_height(Store, a, h))

\* The electorate of a proposal is fixed when it is made: no later promotion,
\* demotion, leave or return, and no check_pending that writes its snapshot at
\* the height of the last block, changes who held a point at its start.  The
\* exception is a Propose that changes a member for the second time in a block.
ElectorateFrozen == [][UpkeepFirst => ElectorateStays]_vars

Advances(p, q) ==
  /\ \/ p.status = q.status
     \/ <<p.status, q.status>> \in
          {<<"Open", "Passed">>, <<"Open", "Rejected">>, <<"Passed", "Executed">>}
  /\ p.content = q.content /\ p.rules = q.rules
  /\ p.start_height = q.start_height /\ p.expires = q.expires
  /\ p.status \in {"Rejected", "Executed"} => p = q
AllAdvance == \A id \in DOMAIN proposals : Advances(proposals[id], proposals'[id])

\* A proposal is decided once and executed at most once, and only after it
\* passed; what it proposes, its rules, start and end never change.
DecidedOnce == [][AllAdvance]_vars

RulesStay ==
  circle.edit_trusted_circle_disabled =>
    /\ circle'.edit_trusted_circle_disabled
    /\ circle'.rules = circle.rules
    /\ circle'.escrow_amount \in {circle.escrow_amount, circle.escrow_pending.amount}

\* Once editing is disabled the rules stay, even when an edit had already been
\* voted in, and the escrow changes only by the change that was then pending.
FrozenRulesStay == [][RulesStay]_vars

-----------------------------------------------------------------------------
\* Liveness

MayClaim(a) ==
  escrows[a].status = "Leaving" /\ escrows[a].paid > 0 /\ escrows[a].claim_at <= now

\* A leaver with some escrow gets it back and is gone once its time has come,
\* unless a punishment comes first: it loses all of it, is kicked out with a new
\* time, or is demoted to pending.
LeaverRefunded ==
  \A a \in Addr : MayClaim(a) ~> \/ escrows[a].status \in {"None", "Pending"}
                               \/ escrows[a].paid = 0 \/ escrows[a].claim_at > now

AwaitsDueBatch(a) ==
  /\ escrows[a].status = "PendingPaid"
  /\ ~batches[escrows[a].proposal_id].batch_promoted
  /\ batches[escrows[a].proposal_id].grace_ends_at <= now
DueListsGone ==
  \E id \in ready_batches(Store, now) : ~(batches[id].members \subseteq Members(Store))

\* Who has paid, or is made paid by a lowered escrow, does not wait for the others
\* of its batch beyond the grace period, with two exceptions: while a due batch
\* lists somebody who is gone, CheckPending promotes nobody (CheckPendingWorks),
\* and who is made paid under a batch that was promoted before waits on (README).
PaidIsPromoted ==
  \A a \in Addr :
    AwaitsDueBatch(a) ~> escrows[a].status # "PendingPaid" \/ DueListsGone

-----------------------------------------------------------------------------
\* Refinement

standing == [a \in Addr |-> escrows[a].status]
held == [a \in Addr |-> escrows[a].paid]
vault == bank[denom]
fee == circle.escrow_amount
AbstractMembers == INSTANCE MemberLifecycle WITH Founder <- Creator

\* The circle implements MemberLifecycle: every transaction is one of its steps
\* or none, whatever it does to batches, snapshots and proposals.
MembersLifecycle == AbstractMembers!Spec

=============================================================================
