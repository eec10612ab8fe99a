------------------------------ MODULE CircleClaims ------------------------------
(***************************************************************************)
(* Statements of the README and of comments of tgrade-trusted-circle that  *)
(* its code does not keep, each with the run that shows how.  None of them *)
(* constrains the specification.                                           *)
(***************************************************************************)
EXTENDS CircleQueries

\* README: "anyone can call CheckPending": a due CheckPending never fails.
\* convert_to_voter_if_paid loads the escrow of every member a batch lists,
\* also of one that has left since.
CheckPendingWorks == can_check_pending(Store, circle, height)

\* msg.rs: DistributeRewards assigns the funds "to members equally [...] for
\* later withdrawal": after a distribution each voter can withdraw its share.
\* The points correction of a new voter is applied twice.
RewardsSharedEqually ==
  [][distribution'.distributed_total > distribution.distributed_total =>
       LET received == distribution'.distributed_total - distribution.distributed_total
       IN \A x \in Voters :
            /\ CanWithdraw(distribution', x, 1)
            /\ withdrawable_rewards(distribution', x, 1) >= received \div total]_vars

\* contract.rs: "If it was approved on time, it can be executed any time".  What
\* passes by its expiry is reported as passed, but its stored status is still
\* Open: Execute refuses it and Close rejects it.
ApprovedCanBeExecuted ==
  [][\A id \in DOMAIN proposals :
       query_proposal(id).status = "Passed" =>
         query_proposal(id).status' \in {"Passed", "Executed"}]_vars
=============================================================================
