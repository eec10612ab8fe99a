------------------------------- MODULE ApQueries -------------------------------
(***************************************************************************)
(* The queries of tgrade-ap-voting and of the multisigs it creates: what   *)
(* each of the two contracts tells of the complaint that both of them      *)
(* handle.  The pool reads one of the lists itself when it shares an       *)
(* award.                                                                  *)
(***************************************************************************)
EXTENDS ArbiterPool, Paging

CONSTANTS PageLimits   \* the limits that clients ask for, {} for none

\* Of tgrade-ap-voting: the complaints in the state they are in at this block
query_complaint(id) ==
  [complaints[id] EXCEPT !.state.kind = current_kind(complaints[id].state, now)]
query_list_complaints(start_after, limit) ==
  page(DOMAIN complaints, start_after, limit)

\* Of a multisig, which reports the status it stored last
query_threshold(k) ==
  [threshold |-> multisigs[k].threshold, total_weight |-> multisigs[k].total_weight]
query_vote(k, voter) == {ballot \in multisigs[k].ballots : ballot.voter = voter}
list_votes(k, start_after, limit) ==
  page({ballot.voter : ballot \in multisigs[k].ballots}, start_after, limit)
query_voter(k, voter) ==
  {multisigs[k].voters[v] : v \in DOMAIN multisigs[k].voters \intersect {voter}}
list_voters(k, start_after, limit) ==
  page(DOMAIN multisigs[k].voters, start_after, limit)
query_status(k) == multisigs[k].status
query_complaint_id(k) == multisigs[k].complaint_id
multisig_query_complaint(k) == query_complaint(query_complaint_id(k))

\* The pool asks a multisig for its voters until a page is empty
multisig_pages(k) == Pages(LAMBDA s : list_voters(k, s, {}), Cardinality(Addr))
query_multisig_voters(k) == LET pages == multisig_pages(k)
                            IN UNION {pages[i] : i \in DOMAIN pages}

-----------------------------------------------------------------------------
\* The award is shared by every voter of a multisig, however many pages they
\* fill, each counted once: the pool's loop over list_voters ends with all the
\* arbiters that were named.
AwardReachesAll ==
  \A k \in DOMAIN multisigs :
    /\ Shows(multisig_pages(k), DOMAIN multisigs[k].voters)
    /\ Cardinality(query_multisig_voters(k)) * share(query_multisig_voters(k))
         = awarded(multisigs[k])

\* A complaint is closed only by a decision that more than half of the arbiters
\* named for it voted for, each of them once: so a client finds who reads the
\* votes of its multisig page by page.
DecidedByMajority ==
  \A limit \in PageLimits, k \in DOMAIN multisigs :
    multisig_query_complaint(k).state.kind = "Closed" =>
      \E p \in DOMAIN proposals :
        LET pages == Pages(LAMBDA s : list_votes(k, s, limit), Cardinality(Addr))
            cast == {ballot.voter : ballot \in multisigs[k].ballots}
            yes == {a \in cast : \E ballot \in query_vote(k, a) : ballot.vote = "Yes"}
        IN /\ proposals[p].case_id = query_complaint_id(k)
           /\ proposals[p].status = "Executed"
           /\ Shows(pages, cast)
           /\ 2 * Cardinality(yes) > Len(proposals[p].arbiters)
           /\ Cardinality(yes) <= query_threshold(k).total_weight

\* The two contracts agree: a complaint is listed as closed exactly when the
\* multisig that handles it reports that its decision was executed, and as in
\* process as long as that multisig may still vote, although either is asked
\* without the other.
ContractsAgree ==
  \A limit \in PageLimits :
    LET listed == Pages(LAMBDA s : query_list_complaints(s, limit), MaxComplaints)
        handled == {query_complaint_id(k) : k \in DOMAIN multisigs}
    IN /\ Shows(listed, DOMAIN complaints)
       /\ \A k \in DOMAIN multisigs :
            multisig_query_complaint(k).state.kind =
              IF query_status(k) = "Executed" THEN "Closed" ELSE "Processing"
       /\ \A id \in DOMAIN complaints :
            query_complaint(id).state.kind \in {"Processing", "Closed"} => id \in handled

\* A migration changes the periods to come, not the ones that run: every
\* complaint and every multisig is reported as before it.
MigrationKeepsCases ==
  [][config' # config =>
       /\ \A id \in DOMAIN complaints : query_complaint(id)' = query_complaint(id)
       /\ \A k \in DOMAIN multisigs :
            current_status(multisigs[k], now) = current_status(multisigs'[k], now')]_vars
=============================================================================
