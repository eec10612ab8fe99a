------------------------------ MODULE VotingRules ------------------------------
(***************************************************************************)
(* The vote tally of a trusted-circle proposal and the rule that decides   *)
(* whether it has passed: struct Votes and impl Proposal of                *)
(* tgrade-trusted-circle/src/state.rs.  Everything here is a pure operator *)
(* on a proposal record; TrustedCircle keeps the records.                  *)
(***************************************************************************)
EXTENDS Integers

CONSTANTS
  DECIMAL_ONE,        \* the Decimal 1.0 in its smallest unit (10^18 in the code)
  PRECISION_FACTOR,   \* the factor that makes the product round up (10^9)
  U64_MODULUS         \* u64 arithmetic wraps at this value (2^64)

ASSUME RulesAssumption ==
  /\ DECIMAL_ONE \in Nat \ {0}
  /\ PRECISION_FACTOR \in Nat \ {0}
  /\ U64_MODULUS \in Nat \ {0}

VoteOption == {"Yes", "No", "Abstain", "Veto"}
ProposalStatus == {"Open", "Passed", "Rejected", "Executed"}

Votes == [VoteOption -> Nat]
VotingRulesType ==
  [voting_period : Nat, quorum : 0..DECIMAL_ONE, threshold : 0..DECIMAL_ONE,
   allow_end_early : BOOLEAN]

\* points * percentage, rounded up once the product is cut to the precision
votes_needed(points, percentage) ==
  LET applied == (percentage * (PRECISION_FACTOR * points)) \div DECIMAL_ONE
  IN  (applied + PRECISION_FACTOR - 1) \div PRECISION_FACTOR

total_votes(votes) ==
  votes["Yes"] + votes["No"] + votes["Abstain"] + votes["Veto"]

NoVotes == [option \in VoteOption |-> 0]
add_vote(votes, vote, points) == [votes EXCEPT ![vote] = @ + points]

\* VotingRules::validate; a voting period is given in days
ValidRules(rules) ==
  /\ rules.quorum > 0 /\ rules.quorum <= DECIMAL_ONE
  /\ 2 * rules.threshold >= DECIMAL_ONE /\ rules.threshold <= DECIMAL_ONE
  /\ rules.voting_period > 0 /\ rules.voting_period <= 365

is_passed_so_far(prop, now) ==   \* mutant: ends early on the votes cast
  LET opinions == total_votes(prop.votes) - prop.votes["Abstain"]
  IN /\ total_votes(prop.votes) >= votes_needed(prop.total_points, prop.rules.quorum)
     /\ now >= prop.expires \/ prop.rules.allow_end_early
     /\ prop.votes["Yes"] >= votes_needed(opinions, prop.rules.threshold)

is_passed(prop, now) ==
  LET opinions == total_votes(prop.votes) - prop.votes["Abstain"]
      possible_opinions ==
        (prop.total_points - prop.votes["Abstain"]) % U64_MODULUS
  IN /\ total_votes(prop.votes) >= votes_needed(prop.total_points, prop.rules.quorum)
     /\ IF now >= prop.expires
          THEN prop.votes["Yes"] >= votes_needed(opinions, prop.rules.threshold)
          ELSE /\ prop.rules.allow_end_early
               /\ prop.votes["Yes"] >= votes_needed(possible_opinions, prop.rules.threshold)

current_status(prop, now) ==
  CASE prop.status = "Open" /\ is_passed(prop, now)  -> "Passed"
    [] prop.status = "Open" /\ ~is_passed(prop, now)
         /\ now >= prop.expires                      -> "Rejected"
    [] OTHER                                         -> prop.status

update_status(prop, now) == [prop EXCEPT !.status = current_status(prop, now)]
=============================================================================
