------------------------------- MODULE OcQueries -------------------------------
(***************************************************************************)
(* The queries of tgrade-oc-proposals.  The contract passes them on to the *)
(* package tg_voting_contract and to the group, with its own limit for the *)
(* lists of proposals and votes.                                           *)
(***************************************************************************)
EXTENDS OcProposals, Paging

CONSTANTS PageLimits   \* the limits that clients ask for, {} for none

query_rules == rules
query_proposal(id) == [proposals[id] EXCEPT !.status = current_status(proposals[id], now)]
query_vote(id, voter) == {b \in BallotsOf(id) : b.voter = voter}
query_voter(a) == {group[a]} \ {0}

list_proposals(start_after, limit) == page(DOMAIN proposals, start_after, limit)
reverse_proposals(start_before, limit) ==
  reverse_page(DOMAIN proposals, start_before, limit)
list_votes(id, start_after, limit) ==
  page({b.voter : b \in BallotsOf(id)}, start_after, limit)
list_votes_by_voter(voter, start_after, limit) ==
  page({b.proposal_id : b \in {b \in ballots : b.voter = voter}}, start_after, limit)
list_voters(start_after, limit) ==
  page({a \in Addr : group[a] > 0}, start_after, limit)

-----------------------------------------------------------------------------
\* The points of the one ballot of a voter
Counted(id, a) == (CHOOSE b \in query_vote(id, a) : TRUE).points

\* The votes a client reads page by page are the ones a proposal's tally counts:
\* one per voter, with the points the voter held when the proposal's block began
\* (its proposer: when it proposed), whatever the group and the lists of voters
\* became since.  The pages of one voter's votes, and of the proposals up or
\* down, show each of them once, and the voters listed hold all points.
TallyOfElectorate ==
  \A limit \in PageLimits :
    LET n == Len(proposals)
        up == Pages(LAMBDA s : list_proposals(s, limit), n)
        down == ReversePages(LAMBDA s : reverse_proposals(s, limit), n)
        voters(id) == {b.voter : b \in BallotsOf(id)}
        listed == UNION {list_voters(s, limit) : s \in {{}} \union {{a} : a \in Addr}}
    IN /\ Shows(up, DOMAIN proposals) /\ Shows(down, DOMAIN proposals)
       /\ \A id \in DOMAIN proposals :
            LET p == query_proposal(id)
                of == voters(id)
            IN /\ Shows(Pages(LAMBDA s : list_votes(id, s, limit), Cardinality(of)), of)
               /\ \A a \in of : Cardinality(query_vote(id, a)) = 1
               /\ total_votes(p.votes) = FoldFunction(+, 0, [a \in of |-> Counted(id, a)])
               /\ \A a \in of \ {p.proposer} : Counted(id, a) = power_at(a, p.start_height)
       /\ \A a \in Addr :
            Shows(Pages(LAMBDA s : list_votes_by_voter(a, s, limit), n),
                  {id \in DOMAIN proposals : query_vote(id, a) # {}})
       /\ listed = {a \in Addr : query_voter(a) # {}}
       /\ FoldFunction(+, 0, [a \in listed |-> group[a]]) = total_points
=============================================================================
