------------------------------ MODULE ArbiterPool ------------------------------
(***************************************************************************)
(* The contract tgrade-ap-voting together with the dispute multisigs it    *)
(* creates: complaints and their deposits, the proposals that name the     *)
(* arbiters of a complaint, the vote of those arbiters in a multisig, and  *)
(* the decision the multisig sends back.  A message that calls another     *)
(* contract is one transaction with it: one action, which happens only     *)
(* when both succeed.                                                      *)
(***************************************************************************)
EXTENDS DisputeMultisig

CONSTANTS
  Addr,             \* users of the chain
  Group,            \* members of the group contract
  Disputes,         \* the pairs of a plaintiff and a defendant that may have one
  dispute_cost,     \* amount of Config::dispute_cost
  InitialConfigs,   \* what instantiate, or the chain's first version, may store
  MigrateMsgs,      \* the messages of migrations to this code
  MultisigCodes,    \* ids under which the chain has the code of the multisig
  ArbiterLists,     \* the lists of arbiters that may be proposed
  CastVotes,        \* the votes that may be cast
  MaxComplaints,    \* bound: complaints registered
  MaxProposals,     \* bound: proposals made
  MaxTime           \* bound: the last block's time

VARIABLES
  config,       \* the part of CONFIG that migrations change
  complaints,   \* COMPLAINTS, in the order of their ids
  proposals,    \* proposals of the group, in the order of their ids
  multisigs,    \* dispute multisigs, in the order of their creation
  bank,         \* the pool's balance of the dispute token
  now           \* the time of the current block

vars == <<config, complaints, proposals, multisigs, bank, now>>

\* Seconds of a period, and the code that a multisig is created from; 0 is what
\* has not been set
Config == [waiting_period : Nat, multisig_code_id : Nat]
waiting_period == config.waiting_period

ASSUME PoolAssumption ==
  /\ Group \subseteq Addr /\ Disputes \subseteq Addr \X Addr
  /\ dispute_cost \in Nat \ {0}
  /\ InitialConfigs \subseteq Config /\ MigrateMsgs \subseteq Config
  /\ ArbiterLists \subseteq Seq(Addr)
  /\ CastVotes \subseteq Vote
  /\ MaxComplaints \in Nat

\* A ComplaintState: until is the end of the period of Initiated and Waiting,
\* arbiters the multisig of Processing
ComplaintKind == {"Initiated", "Waiting", "Withdrawn", "Accepted", "Processing", "Closed"}
ComplaintState == [kind : ComplaintKind, until : Nat, arbiters : Nat]
State(kind) == [kind |-> kind, until |-> 0, arbiters |-> 0]
Until(kind, time) == [State(kind) EXCEPT !.until = time]
InProcess(arbiters) == [State("Processing") EXCEPT !.arbiters = arbiters]

Complaint == [plaintiff : Addr, defendant : Addr, state : ComplaintState]
Proposal == [kind : {"Text", "ProposeArbiters"}, case_id : 0 .. MaxComplaints,
             arbiters : Seq(Addr), status : {"Open", "Passed", "Rejected", "Executed"}]

\* The state a complaint is in at a block: periods end without a transaction
current_kind_configured(state, time) ==   \* mutant: the period of today is counted
  CASE state.kind = "Initiated" /\ waiting_period <= time -> "Aborted"
    [] state.kind = "Waiting" /\ waiting_period <= time   -> "Accepted"
    [] OTHER                                              -> state.kind
current_kind(state, time) ==
  CASE state.kind = "Initiated" /\ state.until <= time -> "Aborted"
    [] state.kind = "Waiting" /\ state.until <= time   -> "Accepted"
    [] OTHER                                           -> state.kind
current_state(id) == current_kind(complaints[id].state, now)

Become(id, state) == complaints' = [complaints EXCEPT ![id].state = state]

-----------------------------------------------------------------------------
Init ==
  /\ config \in InitialConfigs
  /\ complaints = << >> /\ proposals = << >> /\ multisigs = << >>
  /\ bank = 0 /\ now = 0

RegisterComplaint(a, defendant) ==
  /\ Len(complaints) < MaxComplaints
  /\ complaints' = Append(complaints,
       [plaintiff |-> a, defendant |-> defendant,
        state |-> Until("Initiated", now + waiting_period)])
  /\ bank' = bank + dispute_cost
  /\ UNCHANGED <<config, proposals, multisigs, now>>

can_accept_late(id) ==   \* mutant: the period is not looked at
  complaints[id].state.kind = "Initiated"
can_accept(id) == current_state(id) = "Initiated"
AcceptComplaint(a, id) ==
  /\ a = complaints[id].defendant
  /\ can_accept(id)
  /\ Become(id, Until("Waiting", now + waiting_period))
  /\ bank' = bank + dispute_cost
  /\ UNCHANGED <<config, proposals, multisigs, now>>

\* What withdrawing pays out: four fifths of each deposit, the whole deposit
\* when the defendant never answered
refund == (dispute_cost * 80) \div 100
refunds_both(kind) ==   \* mutant: pays a defendant who never answered
  IF kind = "Aborted" THEN dispute_cost ELSE 2 * refund
refunds(kind) ==
  CASE kind = "Initiated" -> refund
    [] kind = "Waiting"   -> 2 * refund
    [] kind = "Aborted"   -> dispute_cost

Withdrawable == {"Initiated", "Waiting", "Aborted"}

WithdrawComplaint(a, id) ==
  /\ a = complaints[id].plaintiff
  /\ current_state(id) \in Withdrawable
  /\ refunds(current_state(id)) <= bank
  /\ bank' = bank - refunds(current_state(id))
  /\ Become(id, State("Withdrawn"))
  /\ UNCHANGED <<config, proposals, multisigs, now>>

-----------------------------------------------------------------------------
\* Proposals.  How the group votes on one is the business of the package
\* tg_voting_contract: here a proposal just passes or is rejected

Propose(a, id, arbiters) ==
  /\ Len(proposals) < MaxProposals
  /\ current_state(id) = "Accepted"
  /\ a \in Group
  /\ \A i \in DOMAIN arbiters : arbiters[i] \in Group
  /\ proposals' = Append(proposals,
       [kind |-> "ProposeArbiters", case_id |-> id, arbiters |-> arbiters,
        status |-> "Open"])
  /\ UNCHANGED <<config, complaints, multisigs, bank, now>>

\* Whether the group contract knows the proposer is asked by tg_voting_contract
ProposeText(a) ==
  /\ Len(proposals) < MaxProposals
  /\ a \in Group
  /\ proposals' = Append(proposals,
       [kind |-> "Text", case_id |-> 0, arbiters |-> << >>, status |-> "Open"])
  /\ UNCHANGED <<config, complaints, multisigs, bank, now>>

DecideProposal(p, status) ==
  /\ proposals[p].status = "Open"
  /\ proposals' = [proposals EXCEPT ![p].status = status]
  /\ UNCHANGED <<config, complaints, multisigs, bank, now>>

pass_weight_half(arbiters) == (Len(arbiters) + 1) \div 2   \* mutant: half is enough
pass_weight(arbiters) == Len(arbiters) \div 2 + 1
one_vote_each(arbiters) ==
  [i \in DOMAIN arbiters |-> [addr |-> arbiters[i], weight |-> 1]]

\* The reply of the new multisig stores its address with the complaint
needs_arbiters_again(id) ==   \* mutant: a case in process gets new arbiters
  current_state(id) \in {"Accepted", "Processing"}
needs_arbiters(id) == current_state(id) = "Accepted"

ExecuteProposeArbiters(p) ==
  LET id == proposals[p].case_id
      arbiters == proposals[p].arbiters
      threshold == AbsoluteCount(pass_weight(arbiters))
  IN /\ proposals[p].kind = "ProposeArbiters" /\ proposals[p].status = "Passed"
     /\ needs_arbiters(id)
     /\ config.multisig_code_id \in MultisigCodes
     /\ can_instantiate(one_vote_each(arbiters), threshold)
     /\ multisigs' = Append(multisigs,
          instantiate(id, one_vote_each(arbiters), threshold, now + waiting_period))
     /\ Become(id, InProcess(Len(multisigs) + 1))
     /\ proposals' = [proposals EXCEPT ![p].status = "Executed"]
     /\ UNCHANGED <<config, bank, now>>

\* A text is on record once its proposal is executed
ExecuteText(p) ==
  /\ proposals[p].kind = "Text" /\ proposals[p].status = "Passed"
  /\ proposals' = [proposals EXCEPT ![p].status = "Executed"]
  /\ UNCHANGED <<config, complaints, multisigs, bank, now>>

Execute(p) == ExecuteProposeArbiters(p) \/ ExecuteText(p)

-----------------------------------------------------------------------------
\* The multisigs

share_up(voters) ==   \* mutant: the share is rounded up
  (2 * dispute_cost + Cardinality(voters) - 1) \div Cardinality(voters)
share(voters) == (2 * dispute_cost) \div Cardinality(voters)

can_render(sender, id) == complaints[id].state = InProcess(sender)

\* The voters of the multisig share both deposits
awarded(m) == Cardinality(DOMAIN m.voters) * share(DOMAIN m.voters)

RenderDecision(sender, id, m) ==
  /\ can_render(sender, id)
  /\ awarded(m) <= bank
  /\ bank' = bank - awarded(m)
  /\ Become(id, State("Closed"))

MultisigVote(k, a, vote) ==
  /\ can_vote(multisigs[k], a, now)
  /\ multisigs' = [multisigs EXCEPT ![k] = voted(@, a, vote, now)]
  /\ UNCHANGED <<config, complaints, proposals, bank, now>>

MultisigExecute_unsent(k) ==   \* mutant: the decision is not sent to the pool
  /\ can_execute(multisigs[k], now)
  /\ multisigs' = [multisigs EXCEPT ![k] = executed(@)]
  /\ UNCHANGED <<config, complaints, proposals, bank, now>>
MultisigExecute(k) ==
  /\ can_execute(multisigs[k], now)
  /\ multisigs' = [multisigs EXCEPT ![k] = executed(@)]
  /\ RenderDecision(k, multisigs[k].complaint_id, multisigs[k])
  /\ UNCHANGED <<config, proposals, now>>

MultisigClose(k) ==
  /\ can_close(multisigs[k], now)
  /\ multisigs' = [multisigs EXCEPT ![k] = closed(@)]
  /\ UNCHANGED <<config, complaints, proposals, bank, now>>

\* migrate: a value of 0 keeps what is stored, and a stored configuration from
\* before 0.6.3 has no code, which is 0 here
migrated(msg) ==
  [waiting_period |-> IF msg.waiting_period > 0 THEN msg.waiting_period
                      ELSE config.waiting_period,
   multisig_code_id |-> IF msg.multisig_code_id > 0 THEN msg.multisig_code_id
                        ELSE config.multisig_code_id]
Migrate(msg) ==
  /\ config' = migrated(msg)
  /\ UNCHANGED <<complaints, proposals, multisigs, bank, now>>

NextBlock ==
  /\ now < MaxTime
  /\ now' = now + 1
  /\ UNCHANGED <<config, complaints, proposals, multisigs, bank>>

Next ==
  \/ \E dispute \in Disputes : RegisterComplaint(dispute[1], dispute[2])
  \/ \E id \in DOMAIN complaints :
       \/ \E a \in Addr : AcceptComplaint(a, id)
       \/ \E a \in Addr : WithdrawComplaint(a, id)
       \/ \E a \in Addr, arbiters \in ArbiterLists : Propose(a, id, arbiters)
  \/ \E a \in Addr : ProposeText(a)
  \/ \E msg \in MigrateMsgs : Migrate(msg)
  \/ \E p \in DOMAIN proposals :
       \/ \E status \in {"Passed", "Rejected"} : DecideProposal(p, status)
       \/ Execute(p)
  \/ \E k \in DOMAIN multisigs :
       \/ \E a \in Addr, vote \in CastVotes : MultisigVote(k, a, vote)
       \/ MultisigExecute(k)
       \/ MultisigClose(k)
  \/ NextBlock

Spec == Init /\ [][Next]_vars

-----------------------------------------------------------------------------
\* Types

Ballot == [voter : Addr, vote : Vote, points : Nat]
MultisigOK(m) ==
  /\ m.complaint_id \in 1 .. MaxComplaints
  /\ m.votes \in Votes /\ m.status \in Status
  /\ m.expires \in Nat /\ m.total_weight \in Nat
  /\ m.voters \in [DOMAIN m.voters -> {1}]
  /\ DOMAIN m.voters \subseteq Addr /\ DOMAIN m.voters # {}
  /\ m.ballots \subseteq Ballot

\* The type of the storage of both contracts and of the chain
TypeOK ==
  /\ config \in Config
  /\ complaints \in Seq(Complaint) /\ Len(complaints) <= MaxComplaints
  /\ proposals \in Seq(Proposal)
  /\ \A k \in DOMAIN multisigs : MultisigOK(multisigs[k])
  /\ bank \in Nat /\ now \in Nat

-----------------------------------------------------------------------------
\* Safety

Case == 1 .. MaxComplaints
phase == [id \in Case |->
            IF id \in DOMAIN complaints THEN current_state(id) ELSE "Unknown"]
AbstractCase == INSTANCE DisputeCase WITH cost <- dispute_cost, pool <- bank

\* Complaints, their multisigs and the flow of tokens implement DisputeCase:
\* accepted in time or never, one withdrawal or one decision, and no payment
\* beyond the deposits of the case it settles.
CaseLifecycle == AbstractCase!Spec

\* The pool can pay what every open complaint may still cost it, through all
\* withdrawals, refunds and awards rounded to whole tokens.
DepositsBacked ==
  bank >= FoldFunction(+, 0, [id \in Case |-> AbstractCase!Deposited(phase[id])])

\* A complaint has one multisig: of two proposals that pass for one complaint
\* only one is executed, and the complaint names the multisig created for it.
OneMultisigPerCase ==
  /\ \A k, l \in DOMAIN multisigs :
       multisigs[k].complaint_id = multisigs[l].complaint_id => k = l
  /\ \A id \in DOMAIN complaints : complaints[id].state.kind = "Processing" =>
       LET k == complaints[id].state.arbiters
       IN k \in DOMAIN multisigs /\ multisigs[k].complaint_id = id

\* A multisig whose vote has passed can always send its decision: its complaint
\* still waits for it and the pool holds the award.
PassedCanRender ==
  \A k \in DOMAIN multisigs : can_execute(multisigs[k], now) =>
    /\ can_render(k, multisigs[k].complaint_id)
    /\ awarded(multisigs[k]) <= bank

-----------------------------------------------------------------------------
\* Action properties

\* The thresholds there are, up to the longest list of arbiters; which of them
\* validate accepts depends on the total weight
Thresholds ==
  LET percentages == 1 .. DECIMAL_ONE
      weights == UNION {1 .. Len(arbiters) : arbiters \in ArbiterLists}
  IN {AbsoluteCount(weight) : weight \in weights}
       \union {AbsolutePercentage(t) : t \in percentages}
       \union {ThresholdQuorum(t, q) : t, q \in percentages}

Passed(m, threshold) ==
  is_passed(m.votes, threshold, m.total_weight, Expired(m, now))
Rejected(m, threshold) ==
  is_rejected(m.votes, threshold, m.total_weight, Expired(m, now))
Counted(k) == <<multisigs[k].votes, Expired(multisigs[k], now)>>

\* state.rs of the multisig: is_passed is true of a vote that is "sure to pass
\* (even before expiration, if no future sequence of possible votes could cause
\* it to fail)", is_rejected of one that is "sure to be rejected": under every
\* threshold that validate accepts, no further vote and no expiry takes either
\* away or brings both.
DecisionIsSure ==
  [][\A k \in DOMAIN multisigs : Counted(k)' # Counted(k) =>
       \A threshold \in Thresholds : valid_threshold(threshold, multisigs[k].total_weight) =>
         /\ Passed(multisigs[k], threshold) => Passed(multisigs[k], threshold)'
         /\ Rejected(multisigs[k], threshold) =>
              (Rejected(multisigs[k], threshold) /\ ~Passed(multisigs[k], threshold))']_vars
=============================================================================
