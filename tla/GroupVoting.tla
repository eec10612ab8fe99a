------------------------------ MODULE GroupVoting ------------------------------
(***************************************************************************)
(* The two contracts that tgrade-oc-proposals is built on and that are not *)
(* part of this repository: the package tg_voting_contract, which keeps    *)
(* proposals and ballots, and the tg4 group contract, whose members hold   *)
(* voting points.  Both are modelled from how tgrade-oc-proposals calls    *)
(* them and from what its tests say of them.  The rules of a vote are      *)
(* those of a trusted circle, in VotingRules.                              *)
(***************************************************************************)
EXTENDS Integers, Sequences, FiniteSets, Functions, VotingRules

CONSTANTS
  Addr,            \* the accounts
  Groups,          \* the points that the group may assign, functions on Addr
  rules,           \* InstantiateMsg::rules
  DAY,             \* seconds in a day
  BLOCK_SECONDS,   \* seconds from one block to the next
  CastVotes,       \* the votes that may be cast
  MaxHeight,       \* bound: the last block
  MaxProposals     \* bound: proposals made

VARIABLES
  group,       \* the group: the points of every address now
  electorates, \* the group's snapshots: the points at the start of each block
  proposals,   \* proposals(), in the order of their ids
  ballots      \* ballots(), a set of records

voting_vars == <<proposals, ballots>>
group_vars == <<group, electorates>>

ASSUME GroupAssumption ==
  /\ IsFiniteSet(Addr)
  /\ Groups \subseteq [Addr -> Nat]
  /\ rules \in VotingRulesType /\ ValidRules(rules)
  /\ DAY \in Nat \ {0} /\ BLOCK_SECONDS \in Nat \ {0}
  /\ CastVotes \subseteq VoteOption
  /\ MaxHeight \in Nat /\ MaxProposals \in Nat

height == Len(electorates)
now == height * BLOCK_SECONDS
power_at(a, h) == electorates[h][a]
total_points == FoldFunction(+, 0, group)

Ballot == [proposal_id : Nat, voter : Addr, vote : VoteOption, points : Nat]
ballot(id, a, choice, points) ==
  [proposal_id |-> id, voter |-> a, vote |-> choice, points |-> points]

-----------------------------------------------------------------------------
VotingInit ==
  /\ group \in Groups /\ electorates = <<group>>
  /\ proposals = << >> /\ ballots = {}

\* The group's admin changes it at any time
UpdateGroup(points) ==
  /\ group' = points
  /\ UNCHANGED <<electorates, voting_vars>>

NextBlock ==
  /\ height < MaxHeight
  /\ electorates' = Append(electorates, group)
  /\ UNCHANGED <<group, voting_vars>>

\* propose: the proposer's Yes counts with the points it holds now, everybody
\* else votes with the points held at the start of the block
propose(a, content) ==
  LET id == Len(proposals) + 1
      prop == [proposer |-> a, start_height |-> height,
               expires |-> now + rules.voting_period * DAY, content |-> content,
               status |-> "Open", rules |-> rules, total_points |-> total_points,
               votes |-> add_vote(NoVotes, "Yes", group[a])]
  IN /\ Len(proposals) < MaxProposals
     /\ group[a] > 0
     /\ proposals' = Append(proposals, update_status(prop, now))
     /\ ballots' = ballots \union {ballot(id, a, "Yes", group[a])}

has_voted(a, id) == \E b \in ballots : b.proposal_id = id /\ b.voter = a

\* vote: with the points of the start of the proposal's block
voting_power_now(a, prop) == group[a]   \* mutant: the points of today
voting_power(a, prop) == power_at(a, prop.start_height)

vote(a, id, choice) ==
  LET prop == proposals[id]
      power == voting_power(a, prop)
  IN /\ prop.status \in {"Open", "Passed", "Rejected"}
     /\ now < prop.expires
     /\ power > 0
     /\ ~has_voted(a, id)
     /\ ballots' = ballots \union {ballot(id, a, choice, power)}
     /\ proposals' = [proposals EXCEPT ![id] =
          update_status([prop EXCEPT !.votes = add_vote(@, choice, power)], now)]

\* mark_executed, of what has passed by now
can_mark_any(id) ==   \* mutant: an executed proposal may be executed again
  current_status(proposals[id], now) \in {"Passed", "Executed"}
can_mark_executed(id) == current_status(proposals[id], now) = "Passed"
mark_executed(id) == proposals' = [proposals EXCEPT ![id].status = "Executed"]

can_close_stored(id) ==   \* mutant: the stored status decides
  proposals[id].status = "Open" /\ now >= proposals[id].expires
can_close(id) ==
  /\ proposals[id].status = "Open"
  /\ current_status(proposals[id], now) # "Passed"
  /\ now >= proposals[id].expires
close(id) ==
  /\ can_close(id)
  /\ proposals' = [proposals EXCEPT ![id].status = "Rejected"]
=============================================================================
