------------------------------ MODULE CircleQueries ------------------------------
(***************************************************************************)
(* The queries of tgrade-trusted-circle: what a client is told of the      *)
(* members, the escrows, the proposals with their votes, and the rewards.  *)
(* A query reads the storage between two transactions; lists come in       *)
(* pages.                                                                  *)
(***************************************************************************)
EXTENDS TrustedCircle, Paging

CONSTANTS PageLimits   \* the limits that clients ask for, {} for none

\* A MemberResponse is the option of its points
query_total_points == total
query_trusted_circle == circle
query_rules == circle.rules
query_member(a, at_height) ==
  LET value == IF at_height = {} THEN points[a]
               ELSE points_at_height(Store, a, CHOOSE h \in at_height : TRUE)
  IN {value} \ {ABSENT}
query_escrow(a) == {escrows[a]} \ {NoEscrow}

list_members(start_after, limit) ==
  page({a \in Addr : points[a] # ABSENT}, start_after, limit)
list_voting_members(start_after, limit) ==
  page({a \in Addr : points[a] = VOTING_POINTS}, start_after, limit)
list_non_voting_members(start_after, limit) ==
  page({a \in Addr : points[a] = 0}, start_after, limit)
list_escrows(start_after, limit) ==
  page(Members(Store), start_after, limit)

query_proposal(id) ==
  [id |-> id, proposal |-> proposals[id].content, status |-> current_status(proposals[id], now),
   expires |-> proposals[id].expires, rules |-> proposals[id].rules,
   total_points |-> proposals[id].total_points, votes |-> proposals[id].votes]
list_proposals(start_after, limit) == page(DOMAIN proposals, start_after, limit)
reverse_proposals(start_before, limit) ==
  reverse_page(DOMAIN proposals, start_before, limit)

query_vote(id, voter) == {b \in ballots : b.proposal_id = id /\ b.voter = voter}
list_votes_by_proposal(id, start_after, limit) ==
  page({b.voter : b \in {b \in ballots : b.proposal_id = id}}, start_after, limit)
list_votes_by_voter(voter, start_after, limit) ==
  page({b.proposal_id : b \in {b \in ballots : b.voter = voter}}, start_after, limit)

\* The query fails for an address without escrow: {}, as when the answer is an
\* amount beyond every balance
query_withdrawable_funds(a) ==
  IF query_escrow(a) = {} THEN {}
  ELSE adjusted_withdrawable_rewards(distribution, a,
         IF escrows[a].status = "Voting" THEN 1 ELSE 0)
query_distributed_funds == distributed_rewards(distribution)
query_undistributed_funds == Undistributed(distribution, bank[reward_denom])

-----------------------------------------------------------------------------
\* Whoever pages through the lists, with any limit, sees every member once:
\* members are the voters and the others, the same addresses have an escrow,
\* and as many voters are listed as TotalPoints says.
ListsAgree ==
  \A limit \in PageLimits :
    LET pages(list(_)) == Pages(list, Cardinality(Addr))
        escrowed == {a \in Addr : query_escrow(a) # {}}
        voters == {a \in Addr : query_member(a, {}) = {VOTING_POINTS}}
    IN /\ Shows(pages(LAMBDA s : list_escrows(s, limit)), escrowed)
       /\ Shows(pages(LAMBDA s : list_members(s, limit)), escrowed)
       /\ Shows(pages(LAMBDA s : list_voting_members(s, limit)), voters)
       /\ Shows(pages(LAMBDA s : list_non_voting_members(s, limit)), escrowed \ voters)
       /\ Cardinality(voters) = query_total_points

\* The votes listed for a proposal are the ones its tally counts, one per voter
\* and listed again under their voters, and all but its proposer's are of
\* addresses that are reported with a point at the start of its block.
VotesExplainTally ==
  \A limit \in PageLimits :
    LET votes_of == [a \in Addr |->
                      UNION {list_votes_by_voter(a, {n}, limit) : n \in 0 .. Len(proposals)}]
    IN
    /\ Shows(Pages(LAMBDA s : list_proposals(s, limit), Len(proposals)), DOMAIN proposals)
    /\ Shows(ReversePages(LAMBDA s : reverse_proposals(s, limit), Len(proposals)),
             DOMAIN proposals)
    /\ \A id \in DOMAIN proposals :
         LET listed_voters == {a \in Addr : id \in votes_of[a]}
             with(option) == {a \in listed_voters :
                                \E b \in query_vote(id, a) : b.vote = option}
             others == {a \in listed_voters :
                          query_member(a, {proposals[id].start_height}) # {VOTING_POINTS}}
         IN /\ Shows(Pages(LAMBDA s : list_votes_by_proposal(id, s, limit),
                           Cardinality(listed_voters)), listed_voters)
            /\ \A option \in VoteOption :
                 query_proposal(id).votes[option] = Cardinality(with(option))
            /\ Cardinality(others) <= 1

\* What the members are told they may withdraw, when it is an amount at all, is
\* covered by what was assigned to them, and that by the balance: the rewards
\* reported as undistributed are never negative, and what was distributed is
\* withdrawn or still there.
RewardsSolvent ==
  LET assigned == distribution.withdrawable_total
      withdrawn == FoldFunction(+, 0, distribution.withdrawn_funds)
  IN /\ FoldFunction(+, 0, [a \in Addr |-> Unwrap(query_withdrawable_funds(a), 0)]) <= assigned
     /\ query_undistributed_funds >= 0
     /\ query_distributed_funds = assigned + withdrawn
=============================================================================
