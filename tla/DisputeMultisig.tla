---------------------------- MODULE DisputeMultisig ----------------------------
(***************************************************************************)
(* The contract tgrade-dispute-multisig: one weighted vote on one          *)
(* complaint, its tally, the three kinds of threshold that decide it, and  *)
(* what each of its messages does to it.  Everything here is an operator   *)
(* on the record of one multisig (CONFIG, STATE, VOTERS and BALLOTS);      *)
(* ArbiterPool keeps the multisigs and the block they run in.              *)
(***************************************************************************)
EXTENDS Integers, Sequences, FiniteSets, Functions

CONSTANTS
  DECIMAL_ONE,        \* the Decimal 1.0 in its smallest unit (10^18 in the code)
  PRECISION_FACTOR    \* the factor that makes the product round up (10^9)

ASSUME MultisigAssumption ==
  /\ DECIMAL_ONE \in Nat \ {0}
  /\ PRECISION_FACTOR \in Nat \ {0}

Vote == {"Yes", "No", "Abstain", "Veto"}
Status == {"Open", "Passed", "Rejected", "Executed"}

Votes == [Vote -> Nat]
NoVotes == [vote \in Vote |-> 0]
add_vote(votes, vote, weight) == [votes EXCEPT ![vote] = @ + weight]
votes_total(votes) == votes["Yes"] + votes["No"] + votes["Abstain"] + votes["Veto"]

\* weight * percentage, rounded up once the product is cut to the precision
votes_needed(weight, percentage) ==
  LET applied == (percentage * (PRECISION_FACTOR * weight)) \div DECIMAL_ONE
  IN  (applied + PRECISION_FACTOR - 1) \div PRECISION_FACTOR

\* The three variants of cw_utils::Threshold
AbsoluteCount(weight) == [kind |-> "AbsoluteCount", weight |-> weight]
AbsolutePercentage(percentage) ==
  [kind |-> "AbsolutePercentage", percentage |-> percentage]
ThresholdQuorum(threshold, quorum) ==
  [kind |-> "ThresholdQuorum", threshold |-> threshold, quorum |-> quorum]

\* Threshold::validate: reachable, and at least half of the opinions
valid_threshold(threshold, total_weight) ==
  CASE threshold.kind = "AbsoluteCount" ->
         threshold.weight > 0 /\ threshold.weight <= total_weight
    [] threshold.kind = "AbsolutePercentage" ->
         2 * threshold.percentage >= DECIMAL_ONE /\ threshold.percentage <= DECIMAL_ONE
    [] threshold.kind = "ThresholdQuorum" ->
         /\ 2 * threshold.threshold >= DECIMAL_ONE /\ threshold.threshold <= DECIMAL_ONE
         /\ threshold.quorum > 0 /\ threshold.quorum <= DECIMAL_ONE

OpinionsCast(votes, total_weight, expired) ==   \* mutant: forgets the votes to come
  votes_total(votes) - votes["Abstain"]

\* Once a vote has expired the opinions are the votes cast; before that every
\* vote that is not cast counts as one
Opinions(votes, total_weight, expired) ==
  (IF expired THEN votes_total(votes) ELSE total_weight) - votes["Abstain"]

is_passed(votes, threshold, total_weight, expired) ==
  CASE threshold.kind = "AbsoluteCount" -> votes["Yes"] >= threshold.weight
    [] threshold.kind = "AbsolutePercentage" ->
         votes["Yes"] >= votes_needed(total_weight - votes["Abstain"], threshold.percentage)
    [] threshold.kind = "ThresholdQuorum" ->
         /\ votes_total(votes) >= votes_needed(total_weight, threshold.quorum)
         /\ votes["Yes"] >= votes_needed(Opinions(votes, total_weight, expired),
                                         threshold.threshold)


is_rejected(votes, threshold, total_weight, expired) ==
  CASE threshold.kind = "AbsoluteCount" -> votes["No"] > total_weight - threshold.weight
    [] threshold.kind = "AbsolutePercentage" ->
         votes["No"] > votes_needed(total_weight - votes["Abstain"],
                                    DECIMAL_ONE - threshold.percentage)
    [] threshold.kind = "ThresholdQuorum" ->
         votes["No"] > votes_needed(Opinions(votes, total_weight, expired),
                                    DECIMAL_ONE - threshold.threshold)

-----------------------------------------------------------------------------
\* The messages.  voters is the list of InstantiateMsg; its total weight counts
\* every entry, while VOTERS keeps one weight per address

Expired(m, now) == now >= m.expires

current_status(m, now) ==
  LET passed == /\ m.status = "Open"
                /\ is_passed(m.votes, m.threshold, m.total_weight, Expired(m, now))
      rejected == /\ m.status = "Open" /\ ~passed
                  /\ \/ is_rejected(m.votes, m.threshold, m.total_weight, Expired(m, now))
                     \/ Expired(m, now)
  IN CASE passed   -> "Passed"
       [] rejected -> "Rejected"
       [] OTHER    -> m.status

Weights(voters) == FoldFunction(+, 0, [i \in DOMAIN voters |-> voters[i].weight])
LastEntry(voters, a) ==
  CHOOSE i \in DOMAIN voters :
    voters[i].addr = a /\ \A j \in DOMAIN voters : voters[j].addr = a => j <= i

can_instantiate_unchecked(voters, threshold) ==   \* mutant: nothing is validated
  Weights(voters) >= 0
can_instantiate(voters, threshold) ==
  voters # << >> /\ valid_threshold(threshold, Weights(voters))
instantiate(complaint_id, voters, threshold, expires) ==
  [complaint_id |-> complaint_id, threshold |-> threshold,
   total_weight |-> Weights(voters), expires |-> expires,
   votes |-> NoVotes, status |-> "Open", ballots |-> {},
   voters |-> [a \in {voters[i].addr : i \in DOMAIN voters} |->
                 voters[LastEntry(voters, a)].weight]]

can_vote(m, a, now) ==
  /\ a \in DOMAIN m.voters /\ m.voters[a] >= 1
  /\ m.status \in {"Open", "Passed", "Rejected"}
  /\ ~Expired(m, now)
  /\ \A ballot \in m.ballots : ballot.voter # a

voted(m, a, vote, now) ==
  LET tallied == [m EXCEPT !.votes = add_vote(@, vote, m.voters[a]),
                           !.ballots = @ \union {[voter |-> a, vote |-> vote,
                                                  points |-> m.voters[a]]}]
  IN [tallied EXCEPT !.status = current_status(tallied, now)]

can_execute(m, now) == current_status(m, now) = "Passed"
executed(m) == [m EXCEPT !.status = "Executed"]

can_close(m, now) ==
  /\ m.status = "Open"
  /\ current_status(m, now) # "Passed"
  /\ Expired(m, now)
closed(m) == [m EXCEPT !.status = "Rejected"]
=============================================================================
