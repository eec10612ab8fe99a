--------------------------- MODULE ArbiterPool_proofs ---------------------------
(***************************************************************************)
(* What ArbiterPool keeps for any number of complaints, arbiters and       *)
(* votes: one multisig per complaint and the lifecycle of DisputeCase, the *)
(* deposits, decisions that are sure and rest on a majority, and queries   *)
(* of the two contracts that agree.                                        *)
(***************************************************************************)
EXTENDS ApQueries, Collections_proofs, FunctionTheorems, SequenceTheorems

-----------------------------------------------------------------------------
\* Arithmetic

\* Equal whole shares never add up to more than what is shared.
LEMMA SharesWithin ==
  ASSUME NEW x \in Nat, NEW n \in Nat \ {0}
  PROVE  n * (x \div n) \in 0 .. x
<1>1. x \div n \in Nat /\ n * (x \div n) <= x
  OBVIOUS
<1>2. n * (x \div n) \in Nat
  BY <1>1
<1> QED BY <1>1, <1>2

\* A refund is at most the deposit it is taken from.
LEMMA RefundWithin == refund \in 0 .. dispute_cost
<1>1. dispute_cost \in Nat
  BY PoolAssumption
<1> QED BY <1>1 DEF refund

-----------------------------------------------------------------------------
\* The inductive invariant

ComplaintsOK == complaints \in Seq(Complaint) /\ Len(complaints) <= MaxComplaints

\* A multisig belongs to a complaint that waits for it or was closed by it; the
\* second part keeps a complaint from being accepted again, and with it from
\* getting a second multisig.
MultisigOf(k) ==
  LET id == multisigs[k].complaint_id
  IN /\ {"complaint_id", "voters"} \subseteq DOMAIN multisigs[k]
     /\ id \in DOMAIN complaints
     /\ complaints[id].state.kind \in {"Processing", "Closed"}
     /\ complaints[id].state.kind = "Processing" => complaints[id].state.arbiters = k
     /\ IsFiniteSet(DOMAIN multisigs[k].voters) /\ DOMAIN multisigs[k].voters # {}
MultisigsOK ==
  /\ \E M : multisigs \in Seq(M)
  /\ \A k \in DOMAIN multisigs : MultisigOf(k)

ProposalsOK ==
  /\ proposals \in Seq(Proposal)
  /\ \A p \in DOMAIN proposals : proposals[p].kind = "ProposeArbiters" =>
       proposals[p].case_id \in DOMAIN complaints

CasesInv ==
  /\ ComplaintsOK /\ ProposalsOK /\ MultisigsOK /\ OneMultisigPerCase
  /\ bank \in Nat /\ now \in Nat

ConfigOK == config \in Config
IInv == CasesInv /\ ConfigOK

-----------------------------------------------------------------------------
\* How a message changes the phases

\* A message that sets the state of one complaint moves the phase of that one.
LEMMA BecomeMoves ==
  ASSUME ComplaintsOK, NEW id \in DOMAIN complaints, NEW state \in ComplaintState,
         Become(id, state), now' = now
  PROVE  /\ ComplaintsOK'
         /\ DOMAIN complaints' = DOMAIN complaints
         /\ complaints'[id].state = state
         /\ \A other \in DOMAIN complaints : other # id =>
              complaints'[other] = complaints[other]
         /\ id \in Case /\ phase[id] = current_state(id)
         /\ phase' = [phase EXCEPT ![id] = current_kind(state, now)]
<1>1. /\ complaints \in Seq(Complaint) /\ complaints[id] \in Complaint
      /\ DOMAIN complaints = 1 .. Len(complaints) /\ Len(complaints) \in Nat
  BY DEF ComplaintsOK
<1>2. complaints' = [complaints EXCEPT ![id] = [complaints[id] EXCEPT !.state = state]]
  BY DEF Become
<1>3. [complaints[id] EXCEPT !.state = state] \in Complaint
  BY <1>1 DEF Complaint
<1>4. /\ complaints' \in Seq(Complaint) /\ Len(complaints') = Len(complaints)
      /\ DOMAIN complaints' = DOMAIN complaints
  BY <1>1, <1>2, <1>3
<1>5. /\ complaints'[id].state = state
      /\ \A other \in DOMAIN complaints : other # id => complaints'[other] = complaints[other]
  BY <1>1, <1>2 DEF Complaint
<1>6. ComplaintsOK'
  BY <1>4 DEF ComplaintsOK
<1>7. id \in Case
  BY <1>1, PoolAssumption DEF ComplaintsOK, Case
<1>8. phase' = [phase EXCEPT ![id] = current_kind(state, now)]
  <2>1. \A c \in Case : c \in DOMAIN complaints /\ c # id =>
          current_state(c)' = current_state(c)
    BY <1>5 DEF current_state
  <2>2. current_state(id)' = current_kind(state, now)
    BY <1>5 DEF current_state
  <2> QED BY <1>4, <1>7, <2>1, <2>2 DEF phase
<1> QED BY <1>4, <1>5, <1>6, <1>7, <1>8 DEF phase

\* A message that touches neither the complaints nor the time moves no phase.
LEMMA SamePhases ==
  ASSUME UNCHANGED <<complaints, now>>
  PROVE  phase' = phase /\ (ComplaintsOK => ComplaintsOK')
BY DEF phase, current_state, ComplaintsOK

\* The multisigs stay with their complaints when another complaint changes.
LEMMA MultisigsStay ==
  ASSUME MultisigsOK, OneMultisigPerCase, UNCHANGED multisigs,
         NEW id \in DOMAIN complaints,
         complaints[id].state.kind \notin {"Processing", "Closed"},
         complaints'[id].state.kind \notin {"Processing", "Closed"},
         DOMAIN complaints' = DOMAIN complaints,
         \A other \in DOMAIN complaints : other # id =>
           complaints'[other] = complaints[other]
  PROVE  MultisigsOK' /\ OneMultisigPerCase'
<1>1. \A k \in DOMAIN multisigs : MultisigOf(k)'
  BY DEF MultisigsOK, MultisigOf
<1>2. MultisigsOK'
  BY <1>1 DEF MultisigsOK
<1>3. OneMultisigPerCase'
  BY DEF OneMultisigPerCase
<1> QED BY <1>2, <1>3

\* What a multisig does to itself leaves its place and its voters.
LEMMA MultisigChanges ==
  ASSUME MultisigsOK, OneMultisigPerCase, UNCHANGED complaints,
         NEW k \in DOMAIN multisigs, NEW m, multisigs' = [multisigs EXCEPT ![k] = m],
         DOMAIN m = DOMAIN multisigs[k],
         m.complaint_id = multisigs[k].complaint_id, m.voters = multisigs[k].voters
  PROVE  MultisigsOK' /\ OneMultisigPerCase'
<1>1. PICK M : multisigs \in Seq(M)
  BY DEF MultisigsOK
<1>2. multisigs \in Seq(M \union {m}) /\ multisigs' \in Seq(M \union {m})
  BY <1>1
<1>3. DOMAIN multisigs' = DOMAIN multisigs
  BY <1>1
<1>4. \A l \in DOMAIN multisigs :
        /\ DOMAIN multisigs'[l] = DOMAIN multisigs[l]
        /\ multisigs'[l].complaint_id = multisigs[l].complaint_id
        /\ multisigs'[l].voters = multisigs[l].voters
  BY <1>3
<1>5. \A l \in DOMAIN multisigs' : MultisigOf(l)'
  BY <1>3, <1>4 DEF MultisigsOK, MultisigOf
<1>6. MultisigsOK'
  BY <1>2, <1>5 DEF MultisigsOK
<1>7. OneMultisigPerCase'
  BY <1>3, <1>4 DEF OneMultisigPerCase
<1> QED BY <1>6, <1>7

-----------------------------------------------------------------------------
\* One lemma per message: the invariant is kept, and the message is a step of
\* DisputeCase or none

Implements == AbstractCase!Next \/ UNCHANGED <<phase, bank>>

LEMMA RegisterKeeps ==
  ASSUME CasesInv, ConfigOK, NEW a \in Addr, NEW defendant \in Addr,
         RegisterComplaint(a, defendant)
  PROVE  CasesInv' /\ Implements
<1> DEFINE new == [plaintiff |-> a, defendant |-> defendant,
                   state |-> Until("Initiated", now + waiting_period)]
<1> PICK id : id = Len(complaints) + 1
  OBVIOUS
<1>1. /\ complaints \in Seq(Complaint) /\ Len(complaints) \in Nat
      /\ Len(complaints) < MaxComplaints /\ MaxComplaints \in Nat
      /\ now \in Nat /\ bank \in Nat /\ dispute_cost \in Nat
      /\ waiting_period \in Nat
  BY PoolAssumption DEF CasesInv, ComplaintsOK, RegisterComplaint, ConfigOK, Config,
                        waiting_period
<1>2. new \in Complaint /\ new.state.kind = "Initiated" /\ new.state.until = now + waiting_period
  BY <1>1 DEF Complaint, ComplaintState, ComplaintKind, Until, State
<1>3. complaints' = Append(complaints, new) /\ UNCHANGED <<proposals, multisigs, now>>
  BY DEF RegisterComplaint
<1> HIDE DEF new
<1>4. /\ complaints' \in Seq(Complaint) /\ Len(complaints') = id
      /\ DOMAIN complaints' = 1 .. id /\ DOMAIN complaints = 1 .. Len(complaints)
      /\ complaints'[id] = new
      /\ \A other \in DOMAIN complaints : complaints'[other] = complaints[other]
  BY <1>1, <1>2, <1>3
<1>5. ComplaintsOK'
  BY <1>1, <1>4 DEF ComplaintsOK
<1>6. ProposalsOK'
  BY <1>1, <1>3, <1>4 DEF CasesInv, ProposalsOK
<1>7. MultisigsOK' /\ OneMultisigPerCase'
  <2>1. \A k \in DOMAIN multisigs : MultisigOf(k)'
    BY <1>1, <1>3, <1>4 DEF CasesInv, MultisigsOK, MultisigOf
  <2>2. MultisigsOK'
    BY <1>3, <2>1 DEF CasesInv, MultisigsOK
  <2>3. OneMultisigPerCase'
    BY <1>1, <1>2, <1>3, <1>4 DEF CasesInv, OneMultisigPerCase
  <2> QED BY <2>2, <2>3
<1>8. AbstractCase!Register(id)
  <2>1. id \in Case /\ id \notin DOMAIN complaints
    BY <1>1, <1>4 DEF Case
  <2>2. current_state(id)' \in {"Initiated", "Aborted"}
    BY <1>1, <1>2, <1>3, <1>4 DEF current_state, current_kind
  <2>3. \A c \in Case : c # id => phase'[c] = phase[c]
    BY <1>1, <1>3, <1>4 DEF phase, current_state, Case
  <2>4. phase' = [phase EXCEPT ![id] = current_state(id)']
    <3>1. phase'[id] = current_state(id)'
      BY <1>1, <1>4, <2>1, <2>2 DEF phase
    <3>2. phase' = [c \in Case |-> phase'[c]] /\ phase = [c \in Case |-> phase[c]]
      BY DEF phase
    <3> QED BY <2>1, <2>3, <3>1, <3>2
  <2>5. phase[id] = "Unknown"
    BY <2>1 DEF phase
  <2> QED BY <2>2, <2>4, <2>5 DEF AbstractCase!Register, AbstractCase!Move, AbstractCase!Deposit, RegisterComplaint
<1>9. bank' \in Nat /\ now' \in Nat
  BY <1>1, <1>3 DEF RegisterComplaint
<1>10. id \in Case
  BY <1>1 DEF Case
<1> QED BY <1>5, <1>6, <1>7, <1>8, <1>9, <1>10 DEF CasesInv, Implements, AbstractCase!Next

LEMMA AcceptKeeps ==
  ASSUME CasesInv, ConfigOK, NEW a \in Addr, NEW id \in DOMAIN complaints,
         AcceptComplaint(a, id)
  PROVE  CasesInv' /\ Implements
<1> DEFINE state == Until("Waiting", now + waiting_period)
<1>1. /\ now \in Nat /\ bank \in Nat /\ dispute_cost \in Nat /\ dispute_cost > 0
      /\ waiting_period \in Nat
  BY PoolAssumption DEF CasesInv, ConfigOK, Config, waiting_period
<1>2. /\ state \in ComplaintState /\ state.kind = "Waiting"
      /\ current_kind(state, now) \in {"Waiting", "Accepted"}
  BY <1>1 DEF ComplaintState, ComplaintKind, Until, State, current_kind
<1>3. current_state(id) = "Initiated" /\ Become(id, state) /\ bank' = bank + dispute_cost
      /\ UNCHANGED <<proposals, multisigs, now>>
  BY DEF AcceptComplaint, can_accept
<1> HIDE DEF state
<1>4. complaints[id].state.kind = "Initiated"
  BY <1>3 DEF current_state, current_kind
<1>5. /\ ComplaintsOK' /\ DOMAIN complaints' = DOMAIN complaints
      /\ complaints'[id].state = state
      /\ \A other \in DOMAIN complaints : other # id => complaints'[other] = complaints[other]
      /\ id \in Case /\ phase[id] = "Initiated"
      /\ phase' = [phase EXCEPT ![id] = current_kind(state, now)]
  BY <1>2, <1>3, BecomeMoves DEF CasesInv
<1>6. MultisigsOK' /\ OneMultisigPerCase'
  BY <1>2, <1>3, <1>4, <1>5, MultisigsStay DEF CasesInv
<1>7. ProposalsOK' /\ bank' \in Nat /\ now' \in Nat
  BY <1>1, <1>3, <1>5 DEF CasesInv, ProposalsOK
<1>8. AbstractCase!Answer(id)
  BY <1>2, <1>3, <1>5 DEF AbstractCase!Answer, AbstractCase!Move, AbstractCase!Deposit
<1> QED BY <1>5, <1>6, <1>7, <1>8 DEF CasesInv, Implements, AbstractCase!Next

LEMMA WithdrawKeeps ==
  ASSUME CasesInv, NEW a \in Addr, NEW id \in DOMAIN complaints, WithdrawComplaint(a, id)
  PROVE  CasesInv' /\ Implements
<1> DEFINE from == current_state(id)
<1>1. /\ now \in Nat /\ bank \in Nat /\ dispute_cost \in Nat /\ refund \in 0 .. dispute_cost
  BY PoolAssumption, RefundWithin DEF CasesInv
<1>2. /\ State("Withdrawn") \in ComplaintState /\ State("Withdrawn").kind = "Withdrawn"
      /\ current_kind(State("Withdrawn"), now) = "Withdrawn"
  BY <1>1 DEF ComplaintState, ComplaintKind, State, current_kind
<1>3. /\ from \in {"Initiated", "Waiting", "Aborted"}
      /\ Become(id, State("Withdrawn"))
      /\ refunds(from) <= bank /\ bank' = bank - refunds(from)
      /\ UNCHANGED <<proposals, multisigs, now>>
  BY DEF WithdrawComplaint, Withdrawable
<1>4. complaints[id].state.kind \in {"Initiated", "Waiting"}
  <2>1. complaints[id] \in Complaint
    BY DEF CasesInv, ComplaintsOK
  <2> QED BY <1>3, <2>1 DEF current_state, current_kind, Complaint, ComplaintState, ComplaintKind
<1>5. /\ ComplaintsOK' /\ DOMAIN complaints' = DOMAIN complaints
      /\ complaints'[id].state = State("Withdrawn")
      /\ \A other \in DOMAIN complaints : other # id => complaints'[other] = complaints[other]
      /\ id \in Case /\ phase[id] = from
      /\ phase' = [phase EXCEPT ![id] = "Withdrawn"]
  BY <1>2, <1>3, BecomeMoves DEF CasesInv
<1>6. MultisigsOK' /\ OneMultisigPerCase'
  BY <1>2, <1>3, <1>4, <1>5, MultisigsStay DEF CasesInv
<1>7. refunds(from) \in 0 .. AbstractCase!Deposited(from)
  BY <1>1, <1>3 DEF refunds, AbstractCase!Deposited
<1>8. AbstractCase!Withdraw(id)
  BY <1>3, <1>5, <1>7 DEF AbstractCase!Withdraw, AbstractCase!Move, AbstractCase!PayOut
<1>9. ProposalsOK' /\ bank' \in Nat /\ now' \in Nat
  <2>1. refunds(from) \in Nat
    BY <1>1, <1>3 DEF refunds
  <2> QED BY <1>1, <1>3, <1>5, <2>1 DEF CasesInv, ProposalsOK
<1> QED BY <1>5, <1>6, <1>8, <1>9 DEF CasesInv, Implements, AbstractCase!Next

LEMMA ProposeKeeps ==
  ASSUME CasesInv, NEW a \in Addr, NEW id \in DOMAIN complaints, NEW arbiters \in ArbiterLists,
         Propose(a, id, arbiters)
  PROVE  CasesInv' /\ Implements
<1> DEFINE new == [kind |-> "ProposeArbiters", case_id |-> id, arbiters |-> arbiters,
                   status |-> "Open"]
<1>1. /\ proposals' = Append(proposals, new)
      /\ UNCHANGED <<complaints, multisigs, bank, now>>
  BY DEF Propose
<1>2. new \in Proposal
  <2>1. id \in 1 .. MaxComplaints
    BY PoolAssumption DEF CasesInv, ComplaintsOK
  <2>2. arbiters \in Seq(Addr)
    BY PoolAssumption
  <2> QED BY <2>1, <2>2 DEF Proposal
<1>3. new.case_id = id
  OBVIOUS
<1> HIDE DEF new
<1>4. ProposalsOK'
  BY <1>1, <1>2, <1>3 DEF CasesInv, ProposalsOK
<1>5. MultisigsOK' /\ OneMultisigPerCase'
  BY <1>1 DEF CasesInv, MultisigsOK, MultisigOf, OneMultisigPerCase
<1> QED BY <1>1, <1>4, <1>5, SamePhases DEF CasesInv, Implements

LEMMA ProposeTextKeeps ==
  ASSUME CasesInv, NEW a \in Addr, ProposeText(a)
  PROVE  CasesInv' /\ Implements
<1> DEFINE new == [kind |-> "Text", case_id |-> 0, arbiters |-> << >>, status |-> "Open"]
<1>1. /\ proposals' = Append(proposals, new)
      /\ UNCHANGED <<complaints, multisigs, bank, now>>
  BY DEF ProposeText
<1>2. new \in Proposal /\ new.kind = "Text"
  BY PoolAssumption DEF Proposal
<1> HIDE DEF new
<1>3. ProposalsOK'
  BY <1>1, <1>2 DEF CasesInv, ProposalsOK
<1>4. MultisigsOK' /\ OneMultisigPerCase'
  BY <1>1 DEF CasesInv, MultisigsOK, MultisigOf, OneMultisigPerCase
<1> QED BY <1>1, <1>3, <1>4, SamePhases DEF CasesInv, Implements

\* A proposal that gets another status stays with its complaint.
LEMMA StatusChanges ==
  ASSUME ProposalsOK, NEW p \in DOMAIN proposals,
         NEW status \in {"Open", "Passed", "Rejected", "Executed"},
         proposals' = [proposals EXCEPT ![p].status = status],
         DOMAIN complaints' = DOMAIN complaints
  PROVE  ProposalsOK' /\ proposals[p] \in Proposal
<1> DEFINE new == [proposals[p] EXCEPT !.status = status]
<1>1. proposals \in Seq(Proposal) /\ proposals[p] \in Proposal
  BY DEF ProposalsOK
<1>2. proposals' = [proposals EXCEPT ![p] = new]
  OBVIOUS
<1>3. new \in Proposal /\ new.case_id = proposals[p].case_id /\ new.kind = proposals[p].kind
  BY <1>1 DEF Proposal
<1> HIDE DEF new
<1>4. proposals' \in Seq(Proposal) /\ DOMAIN proposals' = DOMAIN proposals
  BY <1>1, <1>2, <1>3
<1>5. \A q \in DOMAIN proposals :
        proposals'[q].case_id = proposals[q].case_id /\ proposals'[q].kind = proposals[q].kind
  BY <1>1, <1>2, <1>3
<1> QED BY <1>1, <1>4, <1>5 DEF ProposalsOK

LEMMA DecideKeeps ==
  ASSUME CasesInv, NEW p \in DOMAIN proposals, NEW status \in {"Passed", "Rejected"},
         DecideProposal(p, status)
  PROVE  CasesInv' /\ Implements
<1>1. /\ proposals' = [proposals EXCEPT ![p].status = status]
      /\ UNCHANGED <<complaints, multisigs, bank, now>>
  BY DEF DecideProposal
<1>2. ProposalsOK'
  BY <1>1, StatusChanges DEF CasesInv
<1>3. MultisigsOK' /\ OneMultisigPerCase'
  BY <1>1 DEF CasesInv, MultisigsOK, MultisigOf, OneMultisigPerCase
<1> QED BY <1>1, <1>2, <1>3, SamePhases DEF CasesInv, Implements

\* A list of arbiters that is not empty names some addresses, finitely many.
LEMMA NamedArbiters ==
  ASSUME NEW arbiters \in Seq(Addr), one_vote_each(arbiters) # << >>
  PROVE  LET list == one_vote_each(arbiters)
             voters == {list[i].addr : i \in DOMAIN list}
         IN IsFiniteSet(voters) /\ voters # {}
<1> DEFINE list == one_vote_each(arbiters)
           voters == {list[i].addr : i \in DOMAIN list}
           f == [i \in DOMAIN list |-> list[i].addr]
<1>1. DOMAIN list = 1 .. Len(arbiters) /\ Len(arbiters) \in Nat
  BY DEF one_vote_each
<1>2. DOMAIN list # {}
  <2>1. list \in Seq([addr : Addr, weight : {1}])
    BY <1>1 DEF one_vote_each
  <2>2. list # << >>
    OBVIOUS
  <2> HIDE DEF list
  <2>3. Len(list) \in Nat \ {0}
    BY <2>1, <2>2, EmptySeq
  <2>4. DOMAIN list = 1 .. Len(list)
    BY <2>1
  <2>5. 1 \in DOMAIN list
    BY <2>3, <2>4
  <2> QED BY <2>5
<1>3. IsFiniteSet(DOMAIN list)
  BY <1>1, FS_Interval
<1>4. f \in Surjection(DOMAIN list, voters)
  BY DEF Surjection
<1>5. IsFiniteSet(voters)
  BY <1>3, <1>4, FS_Surjection
<1> QED BY <1>2, <1>5

LEMMA ExecuteTextKeeps ==
  ASSUME CasesInv, NEW p \in DOMAIN proposals, ExecuteText(p)
  PROVE  CasesInv' /\ Implements
<1>1. /\ proposals' = [proposals EXCEPT ![p].status = "Executed"]
      /\ UNCHANGED <<complaints, multisigs, bank, now>>
  BY DEF ExecuteText
<1>2. ProposalsOK'
  BY <1>1, StatusChanges DEF CasesInv
<1>3. MultisigsOK' /\ OneMultisigPerCase'
  BY <1>1 DEF CasesInv, MultisigsOK, MultisigOf, OneMultisigPerCase
<1> QED BY <1>1, <1>2, <1>3, SamePhases DEF CasesInv, Implements

LEMMA ExecuteKeeps ==
  ASSUME CasesInv, NEW p \in DOMAIN proposals, ExecuteProposeArbiters(p)
  PROVE  CasesInv' /\ Implements
<1> PICK id, arbiters, k :
      id = proposals[p].case_id /\ arbiters = proposals[p].arbiters /\ k = Len(multisigs) + 1
  OBVIOUS
<1> PICK threshold, expires :
      threshold = AbsoluteCount(pass_weight(arbiters)) /\ expires = now + waiting_period
  OBVIOUS
<1> PICK m : m = instantiate(id, one_vote_each(arbiters), threshold, expires)
  OBVIOUS
<1>1. /\ proposals[p].kind = "ProposeArbiters" /\ current_state(id) = "Accepted"
      /\ can_instantiate(one_vote_each(arbiters), threshold)
      /\ multisigs' = Append(multisigs, m)
      /\ Become(id, InProcess(k))
      /\ proposals' = [proposals EXCEPT ![p].status = "Executed"]
      /\ bank' = bank /\ now' = now
  BY DEF ExecuteProposeArbiters, needs_arbiters
<1>2. /\ proposals \in Seq(Proposal) /\ id \in DOMAIN complaints /\ arbiters \in Seq(Addr)
      /\ bank \in Nat /\ now \in Nat
  <2>1. proposals \in Seq(Proposal)
    BY DEF CasesInv, ProposalsOK
  <2>2. proposals[p] \in Proposal
    BY <2>1
  <2> QED BY <1>1, <2>1, <2>2 DEF CasesInv, ProposalsOK, Proposal
<1>3. /\ {"complaint_id", "voters"} \subseteq DOMAIN m
      /\ m.complaint_id = id /\ IsFiniteSet(DOMAIN m.voters) /\ DOMAIN m.voters # {}
  <2> PICK voters : voters = {one_vote_each(arbiters)[i].addr : i \in DOMAIN one_vote_each(arbiters)}
    OBVIOUS
  <2>1. one_vote_each(arbiters) # << >>
    BY <1>1 DEF can_instantiate
  <2>2. IsFiniteSet(voters) /\ voters # {}
    BY <1>2, <2>1, NamedArbiters
  <2>3. /\ {"complaint_id", "voters"} \subseteq DOMAIN m
        /\ m.complaint_id = id /\ DOMAIN m.voters = voters
    BY DEF instantiate
  <2> QED BY <2>2, <2>3
<1>4. PICK M : multisigs \in Seq(M)
  BY DEF CasesInv, MultisigsOK
<1>5. /\ multisigs' \in Seq(M \union {m}) /\ k \in Nat
      /\ DOMAIN multisigs = 1 .. k - 1 /\ DOMAIN multisigs' = 1 .. k
      /\ multisigs'[k] = m
      /\ \A l \in DOMAIN multisigs : multisigs'[l] = multisigs[l]
  <2>1. multisigs \in Seq(M \union {m}) /\ Len(multisigs) \in Nat
    BY <1>4
  <2> QED BY <1>1, <2>1
<1>6. complaints[id].state.kind \in {"Waiting", "Accepted"}
  BY <1>1 DEF current_state, current_kind
<1>7. /\ InProcess(k) \in ComplaintState /\ InProcess(k).kind = "Processing"
      /\ InProcess(k).arbiters = k /\ current_kind(InProcess(k), now) = "Processing"
  BY <1>5 DEF InProcess, State, ComplaintState, ComplaintKind, current_kind
<1>8. /\ ComplaintsOK' /\ DOMAIN complaints' = DOMAIN complaints
      /\ complaints'[id].state = InProcess(k)
      /\ \A other \in DOMAIN complaints : other # id => complaints'[other] = complaints[other]
      /\ id \in Case /\ phase[id] = "Accepted"
      /\ phase' = [phase EXCEPT ![id] = "Processing"]
  BY <1>1, <1>2, <1>7, BecomeMoves DEF CasesInv
<1>9. \A l \in DOMAIN multisigs : multisigs[l].complaint_id # id
  BY <1>6 DEF CasesInv, MultisigsOK, MultisigOf
<1>10. MultisigsOK'
  <2>1. \A l \in DOMAIN multisigs' : MultisigOf(l)'
    BY <1>2, <1>3, <1>5, <1>7, <1>8, <1>9 DEF CasesInv, MultisigsOK, MultisigOf
  <2> QED BY <1>5, <2>1 DEF MultisigsOK
<1>11. OneMultisigPerCase'
  BY <1>3, <1>5, <1>7, <1>8, <1>9 DEF CasesInv, OneMultisigPerCase
<1>12. ProposalsOK'
  BY <1>1, <1>8, StatusChanges DEF CasesInv
<1>13. AbstractCase!Assign(id)
  BY <1>1, <1>8 DEF AbstractCase!Assign, AbstractCase!Move
<1> QED BY <1>1, <1>2, <1>8, <1>10, <1>11, <1>12, <1>13 DEF CasesInv, Implements, AbstractCase!Next

\* Voting, executing and closing keep the fields they do not name.
LEMMA MultisigVoteKeeps ==
  ASSUME CasesInv, NEW k \in DOMAIN multisigs, NEW a \in Addr, NEW vote \in CastVotes,
         MultisigVote(k, a, vote)
  PROVE  CasesInv' /\ Implements
<1> PICK m : m = voted(multisigs[k], a, vote, now)
  OBVIOUS
<1>1. multisigs' = [multisigs EXCEPT ![k] = m] /\ UNCHANGED <<complaints, proposals, bank, now>>
  BY DEF MultisigVote
<1>2. {"complaint_id", "voters"} \subseteq DOMAIN multisigs[k]
  BY DEF CasesInv, MultisigsOK, MultisigOf
<1>3. /\ DOMAIN m = DOMAIN multisigs[k]
      /\ m.complaint_id = multisigs[k].complaint_id /\ m.voters = multisigs[k].voters
  BY <1>2 DEF voted
<1>4. MultisigsOK' /\ OneMultisigPerCase'
  BY <1>1, <1>3, MultisigChanges DEF CasesInv
<1> QED BY <1>1, <1>4, SamePhases DEF CasesInv, ProposalsOK, Implements

LEMMA MultisigCloseKeeps ==
  ASSUME CasesInv, NEW k \in DOMAIN multisigs, MultisigClose(k)
  PROVE  CasesInv' /\ Implements
<1> PICK m : m = closed(multisigs[k])
  OBVIOUS
<1>1. multisigs' = [multisigs EXCEPT ![k] = m] /\ UNCHANGED <<complaints, proposals, bank, now>>
  BY DEF MultisigClose
<1>2. {"complaint_id", "voters"} \subseteq DOMAIN multisigs[k]
  BY DEF CasesInv, MultisigsOK, MultisigOf
<1>3. /\ DOMAIN m = DOMAIN multisigs[k]
      /\ m.complaint_id = multisigs[k].complaint_id /\ m.voters = multisigs[k].voters
  BY <1>2 DEF closed
<1>4. MultisigsOK' /\ OneMultisigPerCase'
  BY <1>1, <1>3, MultisigChanges DEF CasesInv
<1> QED BY <1>1, <1>4, SamePhases DEF CasesInv, ProposalsOK, Implements

\* A multisig shares out what was deposited, in equal whole shares.
LEMMA AwardWithin ==
  ASSUME CasesInv, NEW k \in DOMAIN multisigs
  PROVE  awarded(multisigs[k]) \in 0 .. 2 * dispute_cost
<1> DEFINE voters == DOMAIN multisigs[k].voters
<1>1. IsFiniteSet(voters) /\ voters # {}
  BY DEF CasesInv, MultisigsOK, MultisigOf
<1>2. Cardinality(voters) \in Nat \ {0}
  BY <1>1, FS_CardinalityType, FS_EmptySet
<1>3. 2 * dispute_cost \in Nat
  BY PoolAssumption
<1> QED BY <1>2, <1>3, SharesWithin DEF awarded, share

LEMMA MultisigExecuteKeeps ==
  ASSUME CasesInv, NEW k \in DOMAIN multisigs, MultisigExecute(k)
  PROVE  CasesInv' /\ Implements
<1> PICK m, id, amount :
      m = executed(multisigs[k]) /\ id = multisigs[k].complaint_id /\ amount = awarded(multisigs[k])
  OBVIOUS
<1>1. /\ multisigs' = [multisigs EXCEPT ![k] = m]
      /\ complaints[id].state = InProcess(k) /\ Become(id, State("Closed"))
      /\ amount <= bank /\ bank' = bank - amount
      /\ UNCHANGED <<proposals, now>>
  BY DEF MultisigExecute, RenderDecision, can_render
<1>2. /\ id \in DOMAIN complaints /\ {"complaint_id", "voters"} \subseteq DOMAIN multisigs[k]
      /\ bank \in Nat /\ now \in Nat
  BY DEF CasesInv, MultisigsOK, MultisigOf
<1>3. /\ DOMAIN m = DOMAIN multisigs[k]
      /\ m.complaint_id = id /\ m.voters = multisigs[k].voters
  BY <1>2 DEF executed
<1>4. /\ State("Closed") \in ComplaintState /\ State("Closed").kind = "Closed"
      /\ current_kind(State("Closed"), now) = "Closed"
  BY DEF State, ComplaintState, ComplaintKind, current_kind
<1>5. current_state(id) = "Processing"
  BY <1>1 DEF current_state, current_kind, InProcess, State
<1>6. /\ ComplaintsOK' /\ DOMAIN complaints' = DOMAIN complaints
      /\ complaints'[id].state = State("Closed")
      /\ \A other \in DOMAIN complaints : other # id => complaints'[other] = complaints[other]
      /\ id \in Case /\ phase[id] = "Processing"
      /\ phase' = [phase EXCEPT ![id] = "Closed"]
  BY <1>1, <1>2, <1>4, <1>5, BecomeMoves DEF CasesInv
<1>7. PICK M : multisigs \in Seq(M)
  BY DEF CasesInv, MultisigsOK
<1>8. multisigs' \in Seq(M \union {m}) /\ DOMAIN multisigs' = DOMAIN multisigs
  <2>1. multisigs \in Seq(M \union {m})
    BY <1>7
  <2> QED BY <1>1, <2>1
<1>9. \A l \in DOMAIN multisigs :
        /\ DOMAIN multisigs'[l] = DOMAIN multisigs[l]
        /\ multisigs'[l].complaint_id = multisigs[l].complaint_id
        /\ multisigs'[l].voters = multisigs[l].voters
  BY <1>1, <1>3, <1>8
<1>10. MultisigsOK'
  <2>1. \A l \in DOMAIN multisigs' : MultisigOf(l)'
    BY <1>4, <1>6, <1>8, <1>9 DEF CasesInv, MultisigsOK, MultisigOf
  <2> QED BY <1>8, <2>1 DEF MultisigsOK
<1>11. OneMultisigPerCase'
  BY <1>4, <1>6, <1>8, <1>9 DEF CasesInv, OneMultisigPerCase
<1>12. amount \in 0 .. AbstractCase!Deposited("Processing")
  <2>1. AbstractCase!Deposited("Processing") = 2 * dispute_cost
    BY DEF AbstractCase!Deposited
  <2> QED BY <2>1, AwardWithin
<1>13. AbstractCase!Decide(id)
  BY <1>1, <1>6, <1>12 DEF AbstractCase!Decide, AbstractCase!Move, AbstractCase!PayOut
<1>14. bank' \in Nat /\ now' \in Nat
  <2>1. amount \in Nat
    BY <1>12, PoolAssumption DEF AbstractCase!Deposited
  <2> QED BY <1>1, <1>2, <2>1
<1>15. ProposalsOK'
  BY <1>1, <1>6 DEF CasesInv, ProposalsOK
<1> QED BY <1>6, <1>10, <1>11, <1>13, <1>14, <1>15 DEF CasesInv, Implements, AbstractCase!Next

\* When time passes, complaints whose period ends move, and only those.
LEMMA NextBlockKeeps ==
  ASSUME CasesInv, NextBlock
  PROVE  CasesInv' /\ Implements
<1>1. /\ UNCHANGED <<complaints, proposals, multisigs, bank>>
      /\ now \in Nat /\ now' = now + 1 /\ now' \in Nat
  BY DEF NextBlock, CasesInv
<1>2. CasesInv'
  BY <1>1 DEF CasesInv, ComplaintsOK, ProposalsOK, MultisigsOK, MultisigOf, OneMultisigPerCase
<1>3. \A c \in Case : phase'[c] \in {phase[c], AbstractCase!Elapsed(phase[c])}
  <2> SUFFICES ASSUME NEW c \in Case
               PROVE  phase'[c] \in {phase[c], AbstractCase!Elapsed(phase[c])}
    OBVIOUS
  <2>1. CASE c \notin DOMAIN complaints
    BY <1>1, <2>1 DEF phase
  <2>2. CASE c \in DOMAIN complaints
    <3>1. complaints[c] \in Complaint
      BY <2>2 DEF CasesInv, ComplaintsOK
    <3>2. /\ complaints[c].state.kind \in ComplaintKind /\ complaints[c].state.until \in Nat
      BY <3>1 DEF Complaint, ComplaintState
    <3>3. phase[c] = current_kind(complaints[c].state, now)
          /\ phase'[c] = current_kind(complaints[c].state, now + 1)
      BY <1>1, <2>2 DEF phase, current_state
    <3>4. current_kind(complaints[c].state, now + 1) \in
            {current_kind(complaints[c].state, now),
             AbstractCase!Elapsed(current_kind(complaints[c].state, now))}
      BY <1>1, <3>2 DEF current_kind, ComplaintKind, AbstractCase!Elapsed
    <3> QED BY <3>3, <3>4
  <2> QED BY <2>1, <2>2
<1>4. PICK C : C = {c \in Case : phase'[c] # phase[c]}
  OBVIOUS
<1>5. phase' = [c \in Case |-> IF c \in C THEN AbstractCase!Elapsed(phase[c]) ELSE phase[c]]
  <2>1. phase' = [c \in Case |-> phase'[c]]
    BY DEF phase
  <2>2. \A c \in Case :
          phase'[c] = IF c \in C THEN AbstractCase!Elapsed(phase[c]) ELSE phase[c]
    BY <1>3, <1>4
  <2> QED BY <2>1, <2>2
<1>6. AbstractCase!TimePasses
  BY <1>1, <1>4, <1>5 DEF AbstractCase!TimePasses
<1> QED BY <1>2, <1>6 DEF Implements, AbstractCase!Next

LEMMA InitEstablishes == Init => CasesInv /\ AbstractCase!Init
<1> SUFFICES ASSUME Init PROVE CasesInv /\ AbstractCase!Init
  OBVIOUS
<1>1. complaints = << >> /\ proposals = << >> /\ multisigs = << >> /\ bank = 0 /\ now = 0
  BY DEF Init
<1>2. ComplaintsOK
  BY <1>1, PoolAssumption DEF ComplaintsOK
<1>3. ProposalsOK /\ MultisigsOK /\ OneMultisigPerCase
  <2>1. multisigs \in Seq({})
    BY <1>1
  <2> QED BY <1>1, <2>1 DEF ProposalsOK, MultisigsOK, OneMultisigPerCase
<1>4. AbstractCase!Init
  BY <1>1 DEF AbstractCase!Init, phase
<1> QED BY <1>1, <1>2, <1>3, <1>4 DEF CasesInv

LEMMA NextKeeps == IInv /\ [Next]_vars => CasesInv' /\ [AbstractCase!Next]_<<phase, bank>>
<1> SUFFICES ASSUME IInv, [Next]_vars PROVE CasesInv' /\ Implements
  BY DEF Implements
<1> USE DEF IInv
<1>1. ASSUME NEW dispute \in Disputes, RegisterComplaint(dispute[1], dispute[2])
      PROVE  CasesInv' /\ Implements
  <2>1. dispute[1] \in Addr /\ dispute[2] \in Addr
    BY PoolAssumption
  <2> QED BY <1>1, <2>1, RegisterKeeps
<1>2. ASSUME NEW id \in DOMAIN complaints, NEW a \in Addr, AcceptComplaint(a, id)
      PROVE  CasesInv' /\ Implements
  BY <1>2, AcceptKeeps
<1>3. ASSUME NEW id \in DOMAIN complaints, NEW a \in Addr, WithdrawComplaint(a, id)
      PROVE  CasesInv' /\ Implements
  BY <1>3, WithdrawKeeps
<1>4. ASSUME NEW id \in DOMAIN complaints, NEW a \in Addr, NEW arbiters \in ArbiterLists,
             Propose(a, id, arbiters)
      PROVE  CasesInv' /\ Implements
  BY <1>4, ProposeKeeps
<1>5. ASSUME NEW p \in DOMAIN proposals, NEW status \in {"Passed", "Rejected"},
             DecideProposal(p, status)
      PROVE  CasesInv' /\ Implements
  BY <1>5, DecideKeeps
<1>6. ASSUME NEW p \in DOMAIN proposals, Execute(p)
      PROVE  CasesInv' /\ Implements
  BY <1>6, ExecuteKeeps, ExecuteTextKeeps DEF Execute
<1>7. ASSUME NEW k \in DOMAIN multisigs, NEW a \in Addr, NEW vote \in CastVotes,
             MultisigVote(k, a, vote)
      PROVE  CasesInv' /\ Implements
  BY <1>7, MultisigVoteKeeps
<1>8. ASSUME NEW k \in DOMAIN multisigs, MultisigExecute(k)
      PROVE  CasesInv' /\ Implements
  BY <1>8, MultisigExecuteKeeps
<1>9. ASSUME NEW k \in DOMAIN multisigs, MultisigClose(k)
      PROVE  CasesInv' /\ Implements
  BY <1>9, MultisigCloseKeeps
<1>10. CASE NextBlock
  BY <1>10, NextBlockKeeps
<1>11. CASE UNCHANGED <<complaints, proposals, multisigs, bank, now>>
  <2>1. CasesInv'
    BY <1>11 DEF CasesInv, ComplaintsOK, ProposalsOK, MultisigsOK, MultisigOf,
                 OneMultisigPerCase
  <2> QED BY <1>11, <2>1, SamePhases DEF Implements
<1>12. ASSUME NEW a \in Addr, ProposeText(a)
       PROVE  CasesInv' /\ Implements
  BY <1>12, ProposeTextKeeps
<1>13. ASSUME NEW msg \in MigrateMsgs, Migrate(msg)
       PROVE  CasesInv' /\ Implements
  BY <1>11, <1>13 DEF Migrate
<1>14. CASE UNCHANGED vars
  BY <1>11, <1>14 DEF vars
<1> QED BY <1>1, <1>2, <1>3, <1>4, <1>5, <1>6, <1>7, <1>8, <1>9, <1>10, <1>12, <1>13, <1>14
           DEF Next

\* Only a migration changes the configuration, and what it sets is one.
LEMMA ConfigKeeps == IInv /\ [Next]_vars => ConfigOK'
<1> SUFFICES ASSUME IInv, [Next]_vars PROVE ConfigOK'
  OBVIOUS
<1>1. CASE UNCHANGED config
  BY <1>1 DEF IInv, ConfigOK
<1>2. ASSUME NEW msg \in MigrateMsgs, Migrate(msg)
      PROVE  ConfigOK'
  <2>1. msg \in Config
    BY PoolAssumption
  <2> QED BY <1>2, <2>1 DEF IInv, ConfigOK, Config, Migrate, migrated
<1>3. CASE Next /\ ~(\E msg \in MigrateMsgs : Migrate(msg))
  <2>1. UNCHANGED config
    BY <1>3 DEF Next, RegisterComplaint, AcceptComplaint, WithdrawComplaint, Propose,
                ProposeText, DecideProposal, Execute, ExecuteProposeArbiters, ExecuteText,
                MultisigVote, MultisigExecute, MultisigClose, NextBlock
  <2> QED BY <1>1, <2>1
<1>4. CASE UNCHANGED vars
  BY <1>1, <1>4 DEF vars
<1> QED BY <1>2, <1>3, <1>4


-----------------------------------------------------------------------------
\* The theorems

\* In every reachable state each multisig belongs to a complaint that waits for
\* it or was closed by it (execute_execute and execute_render_decision of
\* tgrade-ap-voting).
THEOREM Invariant == Spec => []IInv
<1>1. Init => IInv
  BY InitEstablishes, PoolAssumption DEF IInv, ConfigOK, Init
<1>2. IInv /\ [Next]_vars => IInv'
  BY NextKeeps, ConfigKeeps DEF IInv
<1> QED BY <1>1, <1>2, PTL DEF Spec

\* However many proposals pass for a complaint, one multisig is created for it,
\* and the complaint names that one (the check of current_state in
\* execute_execute and the address stored by multisig_instantiate_reply).
THEOREM OneMultisig == Spec => []OneMultisigPerCase
<1>1. IInv => OneMultisigPerCase
  BY DEF IInv, CasesInv
<1> QED BY <1>1, Invariant, PTL

\* The messages of the pool and of its multisigs, the decision that a multisig
\* sends back and the passing of time implement DisputeCase: periods are kept,
\* a complaint is withdrawn or decided once, and never pays out more than its
\* deposits.
THEOREM Lifecycle == Spec => CaseLifecycle
<1>1. Init => AbstractCase!Init
  BY InitEstablishes
<1>2. IInv /\ [Next]_vars => [AbstractCase!Next]_(AbstractCase!vars)
  BY NextKeeps DEF AbstractCase!vars
<1> QED BY <1>1, <1>2, Invariant, PTL DEF Spec, CaseLifecycle, AbstractCase!Spec

-----------------------------------------------------------------------------
\* DepositsBacked, from DisputeCase: whatever leaves the pool settles its case

deposits == [id \in Case |-> AbstractCase!Deposited(phase[id])]
Backed == phase \in [Case -> AbstractCase!Phase] /\ bank >= SumOf(deposits)

LEMMA DepositsTyped ==
  ASSUME bank \in Nat
  PROVE  /\ IsFiniteSet(Case) /\ dispute_cost \in Nat
         /\ \A p \in AbstractCase!Phase : AbstractCase!Deposited(p) \in Nat
         /\ deposits \in [Case -> Nat] /\ SumOf(deposits) \in Nat
<1>1. IsFiniteSet(Case) /\ dispute_cost \in Nat
  BY PoolAssumption, FS_Interval DEF Case
<1>2. \A p : AbstractCase!Deposited(p) \in Nat
  BY <1>1 DEF AbstractCase!Deposited
<1>3. deposits \in [Case -> Nat]
  BY <1>2 DEF deposits
<1> QED BY <1>1, <1>2, <1>3, SumNat

\* A case moves, and the pool gets or pays the difference, or keeps more.
LEMMA MovedBacked ==
  ASSUME bank \in Nat, bank' \in Int, Backed, NEW c \in Case, NEW from, NEW to \in AbstractCase!Phase,
         AbstractCase!Move(c, from, to),
         bank' >= bank + AbstractCase!Deposited(to) - AbstractCase!Deposited(from)
  PROVE  Backed'
<1> DEFINE g == deposits
           f == deposits'
           d == AbstractCase!Deposited(to) - AbstractCase!Deposited(from)
<1>1. phase[c] = from /\ phase' = [phase EXCEPT ![c] = to]
  BY DEF AbstractCase!Move
<1>2. phase \in [Case -> AbstractCase!Phase] /\ bank >= SumOf(g)
  BY DEF Backed
<1>3. phase' \in [Case -> AbstractCase!Phase]
  BY <1>1, <1>2
<1>4. /\ IsFiniteSet(Case) /\ \A p \in AbstractCase!Phase : AbstractCase!Deposited(p) \in Nat
      /\ g \in [Case -> Nat] /\ SumOf(g) \in Nat
  BY DepositsTyped
<1>5. f = [id \in Case |-> AbstractCase!Deposited(phase'[id])]
  BY DEF deposits
<1>6. f \in [Case -> Nat]
  BY <1>3, <1>4, <1>5
<1>7. from \in AbstractCase!Phase /\ d \in Int
  BY <1>1, <1>2, <1>4
<1>8. f[c] = g[c] + d
  BY <1>1, <1>2, <1>4, <1>5, <1>7 DEF deposits
<1>9. \A x \in Case : x # c => f[x] = g[x]
  BY <1>1, <1>2, <1>5 DEF deposits
<1>10. bank' >= bank + d
  BY <1>1, <1>2, <1>4, <1>7
<1> HIDE DEF f, g, d
<1>11. SumOf(f) = SumOf(g) + d
  BY <1>4, <1>6, <1>7, <1>8, <1>9, SumOne
<1>12. bank' >= SumOf(f)
  BY <1>2, <1>4, <1>7, <1>10, <1>11
<1> QED BY <1>3, <1>12 DEF Backed, f

LEMMA NextBacked ==
  ASSUME bank \in Nat, bank' \in Nat, Backed, [AbstractCase!Next]_<<phase, bank>>
  PROVE  Backed'
<1>0. /\ phase \in [Case -> AbstractCase!Phase] /\ dispute_cost \in Nat
      /\ \A p \in AbstractCase!Phase : AbstractCase!Deposited(p) \in Nat
  BY DepositsTyped DEF Backed
<1>1. ASSUME NEW c \in Case, AbstractCase!Register(c)
      PROVE  Backed'
  <2>1. PICK to \in {"Initiated", "Aborted"} : AbstractCase!Move(c, "Unknown", to)
    BY <1>1 DEF AbstractCase!Register
  <2>2. /\ to \in AbstractCase!Phase /\ bank' = bank + dispute_cost
        /\ AbstractCase!Deposited(to) = dispute_cost /\ AbstractCase!Deposited("Unknown") = 0
    BY <1>1 DEF AbstractCase!Register, AbstractCase!Deposit, AbstractCase!Phase,
                AbstractCase!Deposited
  <2>3. bank' >= bank + AbstractCase!Deposited(to) - AbstractCase!Deposited("Unknown")
    BY <1>0, <2>2
  <2> QED BY <2>1, <2>2, <2>3, MovedBacked
<1>2. ASSUME NEW c \in Case, AbstractCase!Answer(c)
      PROVE  Backed'
  <2>1. PICK to \in {"Waiting", "Accepted"} : AbstractCase!Move(c, "Initiated", to)
    BY <1>2 DEF AbstractCase!Answer
  <2>2. /\ to \in AbstractCase!Phase /\ bank' = bank + dispute_cost
        /\ AbstractCase!Deposited(to) = 2 * dispute_cost
        /\ AbstractCase!Deposited("Initiated") = dispute_cost
    BY <1>2 DEF AbstractCase!Answer, AbstractCase!Deposit, AbstractCase!Phase,
                AbstractCase!Deposited
  <2>3. bank' >= bank + AbstractCase!Deposited(to) - AbstractCase!Deposited("Initiated")
    BY <1>0, <2>2
  <2> QED BY <2>1, <2>2, <2>3, MovedBacked
<1>3. ASSUME NEW c \in Case, NEW from, NEW to \in {"Withdrawn", "Closed"},
             AbstractCase!Move(c, from, to), AbstractCase!PayOut(c)
      PROVE  Backed'
  <2>1. phase[c] = from /\ from \in AbstractCase!Phase
    BY <1>0, <1>3 DEF AbstractCase!Move
  <2>2. PICK amount \in 0 .. AbstractCase!Deposited(from) : bank' = bank - amount
    BY <1>3, <2>1 DEF AbstractCase!PayOut
  <2>3. to \in AbstractCase!Phase /\ AbstractCase!Deposited(to) = 0
    BY <1>3 DEF AbstractCase!Phase, AbstractCase!Deposited
  <2>4. AbstractCase!Deposited(from) \in Nat
    BY <1>0, <2>1
  <2>5. bank' >= bank + AbstractCase!Deposited(to) - AbstractCase!Deposited(from)
    BY <2>2, <2>3, <2>4
  <2> QED BY <1>3, <2>3, <2>5, MovedBacked
<1>4. ASSUME NEW c \in Case, AbstractCase!Withdraw(c) \/ AbstractCase!Decide(c)
      PROVE  Backed'
  BY <1>3, <1>4 DEF AbstractCase!Withdraw, AbstractCase!Decide
<1>5. ASSUME NEW c \in Case, AbstractCase!Assign(c)
      PROVE  Backed'
  <2>1. AbstractCase!Move(c, "Accepted", "Processing") /\ bank' = bank
    BY <1>5 DEF AbstractCase!Assign
  <2>2. /\ "Processing" \in AbstractCase!Phase
        /\ AbstractCase!Deposited("Processing") = 2 * dispute_cost
        /\ AbstractCase!Deposited("Accepted") = 2 * dispute_cost
    BY DEF AbstractCase!Phase, AbstractCase!Deposited
  <2>3. bank' >= bank + AbstractCase!Deposited("Processing") - AbstractCase!Deposited("Accepted")
    BY <1>0, <2>1, <2>2
  <2> QED BY <2>1, <2>2, <2>3, MovedBacked
<1>6. ASSUME \A c \in Case : phase'[c] \in {phase[c], AbstractCase!Elapsed(phase[c])},
             DOMAIN phase' = Case, bank' = bank
      PROVE  Backed'
  <2>1. \A p \in AbstractCase!Phase :
          /\ AbstractCase!Elapsed(p) \in AbstractCase!Phase
          /\ AbstractCase!Deposited(AbstractCase!Elapsed(p)) = AbstractCase!Deposited(p)
    BY DEF AbstractCase!Phase, AbstractCase!Elapsed, AbstractCase!Deposited
  <2>2. phase' = [c \in Case |-> phase'[c]]
    BY DEF phase
  <2>3. phase' \in [Case -> AbstractCase!Phase]
    BY <1>0, <1>6, <2>1, <2>2
  <2>4. \A c \in Case :
          AbstractCase!Deposited(phase'[c]) = AbstractCase!Deposited(phase[c])
    BY <1>0, <1>6, <2>1
  <2>5. deposits' = deposits
    BY <2>4 DEF deposits
  <2> QED BY <1>6, <2>3, <2>5 DEF Backed
<1>7. CASE AbstractCase!TimePasses
  <2>1. PICK C \in SUBSET Case :
          phase' = [c \in Case |-> IF c \in C THEN AbstractCase!Elapsed(phase[c]) ELSE phase[c]]
    BY <1>7 DEF AbstractCase!TimePasses
  <2> QED BY <1>6, <1>7, <2>1 DEF AbstractCase!TimePasses
<1>8. CASE UNCHANGED <<phase, bank>>
  BY <1>0, <1>6, <1>8
<1> QED BY <1>1, <1>2, <1>4, <1>5, <1>7, <1>8 DEF AbstractCase!Next

LEMMA InitBacked == Init => Backed
<1> SUFFICES ASSUME Init PROVE Backed
  OBVIOUS
<1>1. bank = 0 /\ phase = [c \in Case |-> "Unknown"]
  BY InitEstablishes DEF AbstractCase!Init
<1>2. phase \in [Case -> AbstractCase!Phase]
  BY <1>1 DEF AbstractCase!Phase
<1>3. deposits = [c \in Case |-> 0]
  BY <1>1 DEF deposits, AbstractCase!Deposited
<1>4. IsFiniteSet(Case)
  BY <1>1, DepositsTyped
<1>5. SumOf(deposits) = 0
  BY <1>3, <1>4, SumOfNone
<1> QED BY <1>1, <1>2, <1>5 DEF Backed

\* The pool can pay what every open complaint may still cost it: each payment
\* settles a complaint, with no more than was deposited for it
\* (execute_withdraw_complaint and execute_render_decision of tgrade-ap-voting).
THEOREM PoolBacked == Spec => []DepositsBacked
<1>1. Init => IInv /\ Backed
  BY InitEstablishes, InitBacked, PoolAssumption DEF IInv, ConfigOK, Init
<1>2. IInv /\ Backed /\ [Next]_vars => (IInv /\ Backed)'
  BY NextKeeps, ConfigKeeps, NextBacked DEF IInv, CasesInv
<1>3. Backed => DepositsBacked
  BY FoldIsSum DEF Backed, DepositsBacked, deposits
<1> QED BY <1>1, <1>2, <1>3, PTL DEF Spec

\* Only a migration changes the configuration, and nothing else
\* (migrate of tgrade-ap-voting).
THEOREM Migration == Spec => MigrationKeepsCases
<1> DEFINE Kept == /\ \A id \in DOMAIN complaints : query_complaint(id)' = query_complaint(id)
                   /\ \A k \in DOMAIN multisigs : current_status(multisigs[k], now)
                                                    = current_status(multisigs'[k], now')
<1>1. [Next]_vars /\ config' # config => \E msg \in MigrateMsgs : Migrate(msg)
  BY DEF Next, RegisterComplaint, AcceptComplaint, WithdrawComplaint, Propose,
         ProposeText, DecideProposal, Execute, ExecuteProposeArbiters, ExecuteText,
         MultisigVote, MultisigExecute, MultisigClose, NextBlock, vars
<1>2. ASSUME NEW msg \in MigrateMsgs, Migrate(msg)
      PROVE  Kept
  BY <1>2 DEF Migrate, query_complaint
<1>3. [Next]_vars => [config' # config => Kept]_vars
  BY <1>1, <1>2
<1> QED BY <1>3, PTL DEF Spec, MigrationKeepsCases

-----------------------------------------------------------------------------
\* One multisig: its tally counts its ballots, one of each voter

MultisigFields == {"complaint_id", "threshold", "total_weight", "expires",
                   "votes", "status", "ballots", "voters"}

cast_by(m) == {ballot.voter : ballot \in m.ballots}
yes_of(m) == {ballot.voter : ballot \in {b \in m.ballots : b.vote = "Yes"}}

Tallied(m) ==
  /\ DOMAIN m = MultisigFields /\ MultisigOK(m)
  /\ IsFiniteSet(DOMAIN m.voters) /\ Cardinality(DOMAIN m.voters) <= m.total_weight
  /\ cast_by(m) \subseteq DOMAIN m.voters
  /\ votes_total(m.votes) = Cardinality(cast_by(m))
  /\ m.votes["Yes"] = Cardinality(yes_of(m))

\* Arbiters need more than half of their votes, also those of an address that is
\* named twice and votes once.
NeedsMajority(m) ==
  /\ \E arbiters \in Seq(Addr) : m.threshold = AbsoluteCount(pass_weight(arbiters))
  /\ m.status \in {"Passed", "Executed"} => m.votes["Yes"] >= m.threshold.weight

\* Every bounded set of numbers that is not empty has a greatest one.
LEMMA GreatestNumber ==
  ASSUME NEW n \in Nat, NEW S \in SUBSET (1 .. n), S # {}
  PROVE  \E most \in S : \A k \in S : k <= most
<1> DEFINE T == {n - k : k \in S}
<1>1. T \in SUBSET Nat /\ T # {}
  <2>1. \A k \in S : n - k \in Nat
    OBVIOUS
  <2> QED BY <2>1
<1>2. PICK least \in T : \A j \in T : least <= j
  BY <1>1, LeastNumber
<1>3. PICK most \in S : least = n - most
  BY <1>2
<1>4. \A k \in S : n - most <= n - k
  BY <1>2, <1>3
<1> QED BY <1>4

\* A list with one vote each: its weight is its length, and whoever it names has
\* one vote.
LEMMA OneVoteEach ==
  ASSUME NEW arbiters \in Seq(Addr), one_vote_each(arbiters) # << >>
  PROVE  LET list == one_vote_each(arbiters)
             named == {list[i].addr : i \in DOMAIN list}
         IN /\ Weights(list) = Len(arbiters) /\ Len(arbiters) \in Nat
            /\ IsFiniteSet(named) /\ named # {} /\ named \subseteq Addr
            /\ Cardinality(named) <= Len(arbiters)
            /\ \A a \in named : list[LastEntry(list, a)].weight = 1
<1> DEFINE list == one_vote_each(arbiters)
           named == {list[i].addr : i \in DOMAIN list}
           f == [i \in DOMAIN list |-> list[i].addr]
           weights == [i \in DOMAIN list |-> list[i].weight]
<1> PICK n : n = Len(arbiters)
  OBVIOUS
<1>1. /\ DOMAIN list = 1 .. n /\ n \in Nat
      /\ \A i \in 1 .. n : list[i].addr = arbiters[i] /\ list[i].weight = 1 /\ arbiters[i] \in Addr
  BY DEF one_vote_each
<1>2. IsFiniteSet(named) /\ named # {}
  BY NamedArbiters
<1>3. named \subseteq Addr
  BY <1>1
<1>4. IsFiniteSet(1 .. n) /\ Cardinality(1 .. n) = n
  <2>1. IsFiniteSet(1 .. n) /\ Cardinality(1 .. n) = IF 1 > n THEN 0 ELSE n - 1 + 1
    BY <1>1, FS_Interval
  <2> QED BY <1>1, <2>1
<1>5. Weights(list) = n
  <2>1. weights \in [1 .. n -> Int] /\ \A i \in 1 .. n : weights[i] = 1
    BY <1>1
  <2>2. Weights(list) = FoldFunction(+, 0, weights)
    BY DEF Weights
  <2> HIDE DEF weights
  <2>3. SumOf(weights) = n
    BY <1>4, <2>1, SumCounts
  <2> QED BY <2>2, <2>3, FoldIsSum
<1>6. Cardinality(named) <= n
  <2>1. f \in Surjection(1 .. n, named)
    BY <1>1 DEF Surjection
  <2> QED BY <1>4, <2>1, FS_Surjection
<1>7. ASSUME NEW a \in named
      PROVE  list[LastEntry(list, a)].weight = 1
  <2> DEFINE S == {i \in DOMAIN list : list[i].addr = a}
  <2>1. S \in SUBSET (1 .. n) /\ S # {}
    BY <1>1
  <2>2. \E i \in DOMAIN list :
          list[i].addr = a /\ \A j \in DOMAIN list : list[j].addr = a => j <= i
    BY <1>1, <2>1, GreatestNumber
  <2> HIDE DEF list
  <2>3. LastEntry(list, a) \in DOMAIN list
    BY <2>2 DEF LastEntry
  <2> QED BY <1>1, <2>3
<1> QED BY <1>1, <1>2, <1>3, <1>5, <1>6, <1>7

\* A new multisig has no ballots.
LEMMA InstantiateTallied ==
  ASSUME NEW arbiters \in Seq(Addr), one_vote_each(arbiters) # << >>,
         NEW id \in 1 .. MaxComplaints, NEW expires \in Nat
  PROVE  LET m == instantiate(id, one_vote_each(arbiters),
                              AbsoluteCount(pass_weight(arbiters)), expires)
         IN /\ Tallied(m) /\ NeedsMajority(m) /\ m.status = "Open" /\ m.complaint_id = id
            /\ m.threshold = AbsoluteCount(pass_weight(arbiters))
            /\ m.total_weight = Len(arbiters)
<1> DEFINE list == one_vote_each(arbiters)
           named == {list[i].addr : i \in DOMAIN list}
           threshold == AbsoluteCount(pass_weight(arbiters))
           m == instantiate(id, list, threshold, expires)
           voters == [a \in named |-> list[LastEntry(list, a)].weight]
<1>1. /\ Weights(list) = Len(arbiters) /\ Len(arbiters) \in Nat
      /\ IsFiniteSet(named) /\ named # {} /\ named \subseteq Addr
      /\ Cardinality(named) <= Len(arbiters)
      /\ \A a \in named : list[LastEntry(list, a)].weight = 1
  BY OneVoteEach
<1> HIDE DEF threshold
<1>2. /\ DOMAIN m = MultisigFields /\ m.complaint_id = id /\ m.threshold = threshold
      /\ m.total_weight = Weights(list) /\ m.expires = expires /\ m.votes = NoVotes
      /\ m.status = "Open" /\ m.ballots = {} /\ m.voters = voters
  BY DEF instantiate, MultisigFields
<1>3. voters \in [named -> {1}] /\ DOMAIN voters = named
  BY <1>1
<1> HIDE DEF m, voters, list, named
<1>4. MultisigOK(m)
  BY <1>1, <1>2, <1>3 DEF MultisigOK, NoVotes, Votes, Status
<1>5. cast_by(m) = {} /\ yes_of(m) = {}
  BY <1>2 DEF cast_by, yes_of
<1>6. votes_total(m.votes) = 0 /\ m.votes["Yes"] = 0
  BY <1>2 DEF NoVotes, Vote, votes_total
<1>7. Tallied(m)
  BY <1>1, <1>2, <1>3, <1>4, <1>5, <1>6, FS_EmptySet DEF Tallied
<1>8. NeedsMajority(m)
  BY <1>2 DEF NeedsMajority, threshold
<1> QED BY <1>1, <1>2, <1>7, <1>8 DEF m, list, threshold

\* A multisig passes when more than half of the votes are Yes, and is executed by
\* its own message only.
LEMMA StatusOf ==
  ASSUME NEW m, Tallied(m), NeedsMajority(m), NEW t \in Nat
  PROVE  /\ current_status(m, t) \in Status
         /\ current_status(m, t) = "Executed" <=> m.status = "Executed"
         /\ current_status(m, t) = "Passed" => m.votes["Yes"] >= m.threshold.weight
<1>1. m.status \in Status /\ m.threshold.kind = "AbsoluteCount"
  BY DEF Tallied, MultisigOK, NeedsMajority, AbsoluteCount
<1>2. /\ current_status(m, t) \in Status
      /\ current_status(m, t) = "Executed" <=> m.status = "Executed"
  BY <1>1 DEF current_status, Status
<1>3. ASSUME current_status(m, t) = "Passed"
      PROVE  m.votes["Yes"] >= m.threshold.weight
  <2>1. CASE m.status # "Open"
    BY <1>3, <2>1 DEF current_status, NeedsMajority
  <2>2. CASE m.status = "Open"
    <3>1. is_passed(m.votes, m.threshold, m.total_weight, Expired(m, t))
      BY <1>3, <2>2 DEF current_status
    <3> QED BY <1>1, <3>1 DEF is_passed
  <2> QED BY <2>1, <2>2
<1> QED BY <1>2, <1>3

\* Another status.
LEMMA StatusSet ==
  ASSUME NEW m, Tallied(m), NeedsMajority(m), NEW status \in Status,
         status \in {"Passed", "Executed"} => m.votes["Yes"] >= m.threshold.weight
  PROVE  LET n == [m EXCEPT !.status = status]
         IN /\ Tallied(n) /\ NeedsMajority(n) /\ n.status = status
            /\ n.complaint_id = m.complaint_id /\ n.voters = m.voters /\ n.votes = m.votes
            /\ n.threshold = m.threshold /\ n.total_weight = m.total_weight
            /\ n.expires = m.expires
<1> DEFINE n == [m EXCEPT !.status = status]
<1>1. /\ DOMAIN n = MultisigFields /\ n.status = status
      /\ n.complaint_id = m.complaint_id /\ n.voters = m.voters /\ n.votes = m.votes
      /\ n.threshold = m.threshold /\ n.total_weight = m.total_weight
      /\ n.expires = m.expires /\ n.ballots = m.ballots
  BY DEF Tallied, MultisigFields
<1> HIDE DEF n
<1>2. Tallied(n)
  BY <1>1 DEF Tallied, MultisigOK, cast_by, yes_of
<1>3. NeedsMajority(n)
  BY <1>1 DEF NeedsMajority
<1> QED BY <1>1, <1>2, <1>3 DEF n

\* A vote counts once, for an arbiter that had no ballot.
LEMMA VotedTallied ==
  ASSUME NEW m, Tallied(m), NeedsMajority(m), NEW a, NEW vote \in Vote, NEW t \in Nat,
         can_vote(m, a, t)
  PROVE  LET n == voted(m, a, vote, t)
         IN /\ Tallied(n) /\ NeedsMajority(n) /\ n.status # "Executed"
            /\ n.complaint_id = m.complaint_id /\ n.voters = m.voters
            /\ n.threshold = m.threshold /\ n.total_weight = m.total_weight
            /\ n.expires = m.expires /\ n.votes = add_vote(m.votes, vote, 1)
<1> DEFINE new == [voter |-> a, vote |-> vote, points |-> 1]
           n == [m EXCEPT !.votes = add_vote(@, vote, 1), !.ballots = @ \union {new}]
<1>1. /\ DOMAIN m = MultisigFields /\ MultisigOK(m)
      /\ IsFiniteSet(DOMAIN m.voters) /\ Cardinality(DOMAIN m.voters) <= m.total_weight
      /\ cast_by(m) \subseteq DOMAIN m.voters
      /\ votes_total(m.votes) = Cardinality(cast_by(m))
      /\ m.votes["Yes"] = Cardinality(yes_of(m))
  BY DEF Tallied
<1>2. a \in DOMAIN m.voters /\ a \in Addr /\ m.voters[a] = 1 /\ m.status # "Executed"
      /\ a \notin cast_by(m)
  BY <1>1 DEF can_vote, MultisigOK, cast_by
<1>3. /\ DOMAIN n = MultisigFields /\ n.status = m.status
      /\ n.complaint_id = m.complaint_id /\ n.voters = m.voters
      /\ n.threshold = m.threshold /\ n.total_weight = m.total_weight
      /\ n.expires = m.expires /\ n.votes = add_vote(m.votes, vote, 1)
      /\ n.ballots = m.ballots \union {new}
  BY <1>1 DEF MultisigFields
<1>4. voted(m, a, vote, t) = [n EXCEPT !.status = current_status(n, t)]
  BY <1>2 DEF voted
<1>5. /\ m.votes \in Votes /\ n.votes \in Votes
      /\ n.votes["Yes"] = IF vote = "Yes" THEN m.votes["Yes"] + 1 ELSE m.votes["Yes"]
      /\ votes_total(n.votes) = votes_total(m.votes) + 1
  <2>1. m.votes \in [Vote -> Nat]
    BY <1>1 DEF MultisigOK, Votes
  <2>2. n.votes = [m.votes EXCEPT ![vote] = m.votes[vote] + 1]
    BY <1>3 DEF add_vote
  <2> HIDE DEF n
  <2>3. n.votes \in [Vote -> Nat]
    BY <2>1, <2>2
  <2>4. votes_total(n.votes) = votes_total(m.votes) + 1
    BY <2>1, <2>2 DEF votes_total, Vote
  <2> QED BY <2>1, <2>2, <2>3, <2>4 DEF Votes, Vote
<1>6. new \in Ballot /\ new.voter = a /\ new.vote = vote
  BY <1>2 DEF Ballot
<1> HIDE DEF n, new
<1>7. /\ cast_by(n) = cast_by(m) \union {a}
      /\ yes_of(n) = IF vote = "Yes" THEN yes_of(m) \union {a} ELSE yes_of(m)
  BY <1>3, <1>6 DEF cast_by, yes_of
<1>8. IsFiniteSet(cast_by(m)) /\ IsFiniteSet(yes_of(m)) /\ a \notin yes_of(m)
  <2>1. yes_of(m) \subseteq cast_by(m)
    BY DEF cast_by, yes_of
  <2> QED BY <1>1, <1>2, <2>1, FS_Subset
<1>9. /\ Cardinality(cast_by(n)) = Cardinality(cast_by(m)) + 1
      /\ Cardinality(yes_of(n)) = IF vote = "Yes" THEN Cardinality(yes_of(m)) + 1
                                                  ELSE Cardinality(yes_of(m))
  BY <1>2, <1>7, <1>8, FS_AddElement
<1>10. Tallied(n)
  <2>1. MultisigOK(n)
    BY <1>1, <1>3, <1>5, <1>6 DEF MultisigOK
  <2>2. cast_by(n) \subseteq DOMAIN n.voters
    BY <1>1, <1>2, <1>3, <1>7
  <2>3. votes_total(n.votes) = Cardinality(cast_by(n))
    BY <1>1, <1>5, <1>9
  <2>4. n.votes["Yes"] = Cardinality(yes_of(n))
    BY <1>1, <1>5, <1>9
  <2> QED BY <1>1, <1>3, <2>1, <2>2, <2>3, <2>4 DEF Tallied
<1>11. NeedsMajority(n)
  <2>1. m.votes["Yes"] \in Nat /\ \E arbiters \in Seq(Addr) :
          m.threshold = AbsoluteCount(pass_weight(arbiters))
    BY <1>5 DEF Votes, Vote, NeedsMajority
  <2>2. m.threshold.weight \in Int
    BY <2>1 DEF AbsoluteCount, pass_weight
  <2>3. m.status = "Passed" => n.votes["Yes"] >= n.threshold.weight
    BY <1>3, <1>5, <2>1, <2>2 DEF NeedsMajority
  <2> QED BY <1>2, <1>3, <2>1, <2>3 DEF NeedsMajority
<1>12. /\ current_status(n, t) \in Status /\ current_status(n, t) # "Executed"
       /\ current_status(n, t) = "Passed" => n.votes["Yes"] >= n.threshold.weight
  BY <1>2, <1>3, <1>10, <1>11, StatusOf
<1> DEFINE u == [n EXCEPT !.status = current_status(n, t)]
<1>13. /\ Tallied(u) /\ NeedsMajority(u) /\ u.status # "Executed"
       /\ u.complaint_id = n.complaint_id /\ u.voters = n.voters /\ u.votes = n.votes
       /\ u.threshold = n.threshold /\ u.total_weight = n.total_weight
       /\ u.expires = n.expires
  <2> PICK status : status = current_status(n, t)
    OBVIOUS
  <2> QED BY <1>10, <1>11, <1>12, StatusSet
<1> HIDE DEF u
<1> QED BY <1>3, <1>4, <1>13 DEF u

-----------------------------------------------------------------------------
\* All multisigs: each handles its complaint until its decision is sent, and
\* counts for the arbiters of an executed proposal

Handled(k) ==
  complaints[multisigs[k].complaint_id].state =
    IF multisigs[k].status = "Executed" THEN State("Closed") ELSE InProcess(k)

NamedIn(m, p) ==
  /\ proposals[p].case_id = m.complaint_id /\ proposals[p].status = "Executed"
  /\ m.threshold = AbsoluteCount(pass_weight(proposals[p].arbiters))
  /\ m.total_weight = Len(proposals[p].arbiters)
Named(k) == \E p \in DOMAIN proposals : NamedIn(multisigs[k], p)

VotesInv ==
  \A k \in DOMAIN multisigs :
    Tallied(multisigs[k]) /\ NeedsMajority(multisigs[k]) /\ Handled(k) /\ Named(k)

\* Executed proposals stay as they are.
ExecutedStay ==
  \A p \in DOMAIN proposals :
    /\ p \in DOMAIN proposals'
    /\ proposals[p].status = "Executed" => proposals'[p] = proposals[p]

LEMMA NamedStays ==
  ASSUME ExecutedStay, NEW m, NEW n, n.complaint_id = m.complaint_id,
         n.threshold = m.threshold, n.total_weight = m.total_weight,
         \E p \in DOMAIN proposals : NamedIn(m, p)
  PROVE  \E p \in DOMAIN proposals' : NamedIn(n, p)'
BY DEF ExecutedStay, NamedIn

\* Multisigs are left alone, and so are the complaints they handle.
LEMMA VotesStay ==
  ASSUME VotesInv, ExecutedStay, UNCHANGED multisigs,
         \A k \in DOMAIN multisigs : complaints'[multisigs[k].complaint_id].state
                                       = complaints[multisigs[k].complaint_id].state
  PROVE  VotesInv'
<1>1. ASSUME NEW k \in DOMAIN multisigs'
      PROVE  /\ Tallied(multisigs[k])' /\ NeedsMajority(multisigs[k])'
             /\ Handled(k)' /\ Named(k)'
  <2> PICK m : m = multisigs[k]
    OBVIOUS
  <2>1. Tallied(m) /\ NeedsMajority(m) /\ Handled(k) /\ Named(k) /\ multisigs'[k] = m
    BY DEF VotesInv
  <2>2. Handled(k)'
    BY <2>1 DEF Handled
  <2>3. Named(k)'
    BY <2>1, NamedStays DEF Named
  <2> QED BY <2>1, <2>2, <2>3
<1> QED BY <1>1 DEF VotesInv

\* One multisig changes, and keeps what it was created with.
LEMMA VotesChange ==
  ASSUME CasesInv, VotesInv, ExecutedStay, NEW k \in DOMAIN multisigs, NEW n,
         multisigs' = [multisigs EXCEPT ![k] = n], Tallied(n), NeedsMajority(n),
         n.complaint_id = multisigs[k].complaint_id,
         n.threshold = multisigs[k].threshold, n.total_weight = multisigs[k].total_weight,
         complaints'[n.complaint_id].state =
           IF n.status = "Executed" THEN State("Closed") ELSE InProcess(k),
         \A id \in DOMAIN complaints : id # n.complaint_id =>
           complaints'[id].state = complaints[id].state
  PROVE  VotesInv'
<1>1. DOMAIN multisigs' = DOMAIN multisigs /\ multisigs'[k] = n
      /\ \A l \in DOMAIN multisigs : l # k => multisigs'[l] = multisigs[l]
  BY DEF CasesInv, MultisigsOK
<1>2. ASSUME NEW l \in DOMAIN multisigs'
      PROVE  /\ Tallied(multisigs[l])' /\ NeedsMajority(multisigs[l])'
             /\ Handled(l)' /\ Named(l)'
  <2>1. Tallied(multisigs[l]) /\ NeedsMajority(multisigs[l]) /\ Handled(l) /\ Named(l)
    BY <1>1 DEF VotesInv
  <2>2. CASE l = k
    <3>1. Handled(l)'
      BY <1>1, <2>2 DEF Handled
    <3>2. Named(l)'
      BY <1>1, <2>1, <2>2, NamedStays DEF Named
    <3> QED BY <1>1, <2>2, <3>1, <3>2
  <2>3. CASE l # k
    <3> PICK m : m = multisigs[l]
      OBVIOUS
    <3>1. multisigs'[l] = m
      BY <1>1, <2>3
    <3>2. m.complaint_id # n.complaint_id /\ m.complaint_id \in DOMAIN complaints
      BY <1>1, <2>3 DEF CasesInv, OneMultisigPerCase, MultisigsOK, MultisigOf
    <3>3. Handled(l)'
      BY <2>1, <3>1, <3>2 DEF Handled
    <3>4. Named(l)'
      BY <2>1, <3>1, NamedStays DEF Named
    <3> QED BY <2>1, <3>1, <3>3, <3>4
  <2> QED BY <2>2, <2>3
<1> QED BY <1>2 DEF VotesInv

\* No multisig handles a complaint before its period of waiting is over.
LEMMA NotYetHandled ==
  ASSUME CasesInv, VotesInv, NEW id \in DOMAIN complaints,
         complaints[id].state.kind \in {"Initiated", "Waiting", "Accepted"},
         NEW k \in DOMAIN multisigs
  PROVE  multisigs[k].complaint_id # id
BY DEF CasesInv, MultisigsOK, MultisigOf

LEMMA SameExecuted ==
  ASSUME UNCHANGED proposals
  PROVE  ExecutedStay
BY DEF ExecutedStay

\* A new proposal, or another status of one that was not executed.
LEMMA ProposalsExecuted ==
  ASSUME ProposalsOK,
         \/ \E new : proposals' = Append(proposals, new)
         \/ \E p \in DOMAIN proposals : \E status :
              /\ proposals[p].status # "Executed"
              /\ proposals' = [proposals EXCEPT ![p].status = status]
  PROVE  ExecutedStay
<1>1. proposals \in Seq(Proposal)
  BY DEF ProposalsOK
<1>2. ASSUME NEW new, proposals' = Append(proposals, new)
      PROVE  ExecutedStay
  <2>1. proposals \in Seq(Proposal \union {new}) /\ Len(proposals) \in Nat
    BY <1>1
  <2>2. DOMAIN proposals' = 1 .. Len(proposals) + 1
        /\ \A p \in DOMAIN proposals : proposals'[p] = proposals[p]
    BY <1>2, <2>1
  <2> QED BY <2>1, <2>2 DEF ExecutedStay
<1>3. ASSUME NEW p \in DOMAIN proposals, NEW status, proposals[p].status # "Executed",
             proposals' = [proposals EXCEPT ![p].status = status]
      PROVE  ExecutedStay
  BY <1>3 DEF ExecutedStay
<1> QED BY <1>2, <1>3

LEMMA NextVotes ==
  ASSUME IInv, VotesInv, [Next]_vars
  PROVE  VotesInv'
<1>0. CasesInv /\ ConfigOK /\ now \in Nat /\ ProposalsOK
  BY DEF IInv, CasesInv
<1>1. ASSUME UNCHANGED <<complaints, multisigs>>, ExecutedStay
      PROVE  VotesInv'
  BY <1>1, VotesStay
<1>2. ASSUME NEW id \in DOMAIN complaints, UNCHANGED <<proposals, multisigs>>,
             complaints[id].state.kind \in {"Initiated", "Waiting", "Accepted"},
             \A other \in DOMAIN complaints : other # id => complaints'[other] = complaints[other]
      PROVE  VotesInv'
  <2>1. ASSUME NEW k \in DOMAIN multisigs
        PROVE  complaints'[multisigs[k].complaint_id] = complaints[multisigs[k].complaint_id]
    BY <1>0, <1>2, NotYetHandled DEF CasesInv, MultisigsOK, MultisigOf
  <2> QED BY <1>2, <2>1, SameExecuted, VotesStay
<1>3. ASSUME NEW dispute \in Disputes, RegisterComplaint(dispute[1], dispute[2])
      PROVE  VotesInv'
  <2>1. \A id \in DOMAIN complaints : complaints'[id] = complaints[id]
    <3> PICK new : complaints' = Append(complaints, new)
      BY <1>3 DEF RegisterComplaint
    <3>1. complaints \in Seq(Complaint \union {new})
      BY <1>0 DEF CasesInv, ComplaintsOK
    <3> QED BY <3>1
  <2>2. \A k \in DOMAIN multisigs : multisigs[k].complaint_id \in DOMAIN complaints
    BY <1>0 DEF CasesInv, MultisigsOK, MultisigOf
  <2>3. UNCHANGED <<proposals, multisigs>>
    BY <1>3 DEF RegisterComplaint
  <2> QED BY <2>1, <2>2, <2>3, SameExecuted, VotesStay
<1>4. ASSUME NEW id \in DOMAIN complaints, NEW a \in Addr,
             AcceptComplaint(a, id) \/ WithdrawComplaint(a, id)
      PROVE  VotesInv'
  <2>1. complaints[id].state.kind \in {"Initiated", "Waiting"}
    <3>1. complaints[id] \in Complaint
      BY <1>0 DEF CasesInv, ComplaintsOK
    <3> QED BY <1>4, <3>1 DEF AcceptComplaint, can_accept, WithdrawComplaint, Withdrawable,
                              current_state, current_kind, Complaint, ComplaintState, ComplaintKind
  <2>2. \A other \in DOMAIN complaints : other # id => complaints'[other] = complaints[other]
    BY <1>4 DEF AcceptComplaint, WithdrawComplaint, Become
  <2> QED BY <1>2, <1>4, <2>1, <2>2 DEF AcceptComplaint, WithdrawComplaint
<1>5. ASSUME NEW id \in DOMAIN complaints, NEW a \in Addr, NEW arbiters \in ArbiterLists,
             Propose(a, id, arbiters)
      PROVE  VotesInv'
  BY <1>0, <1>1, <1>5, ProposalsExecuted DEF Propose
<1>6. ASSUME NEW a \in Addr, ProposeText(a)
      PROVE  VotesInv'
  BY <1>0, <1>1, <1>6, ProposalsExecuted DEF ProposeText
<1>7. ASSUME NEW p \in DOMAIN proposals, NEW status \in {"Passed", "Rejected"},
             DecideProposal(p, status)
      PROVE  VotesInv'
  BY <1>0, <1>1, <1>7, ProposalsExecuted DEF DecideProposal
<1>8. ASSUME NEW p \in DOMAIN proposals, ExecuteText(p)
      PROVE  VotesInv'
  BY <1>0, <1>1, <1>8, ProposalsExecuted DEF ExecuteText
<1>9. ASSUME NEW p \in DOMAIN proposals, ExecuteProposeArbiters(p)
      PROVE  VotesInv'
  <2> PICK id, arbiters, k :
        id = proposals[p].case_id /\ arbiters = proposals[p].arbiters /\ k = Len(multisigs) + 1
    OBVIOUS
  <2> PICK m : m = instantiate(id, one_vote_each(arbiters),
                               AbsoluteCount(pass_weight(arbiters)), now + waiting_period)
    OBVIOUS
  <2>1. /\ proposals[p].kind = "ProposeArbiters" /\ current_state(id) = "Accepted"
        /\ one_vote_each(arbiters) # << >> /\ proposals[p].status = "Passed"
        /\ multisigs' = Append(multisigs, m)
        /\ Become(id, InProcess(k))
        /\ proposals' = [proposals EXCEPT ![p].status = "Executed"]
    BY <1>9 DEF ExecuteProposeArbiters, needs_arbiters, can_instantiate
  <2>2. /\ arbiters \in Seq(Addr) /\ id \in DOMAIN complaints /\ proposals[p] \in Proposal
        /\ id \in 1 .. MaxComplaints
    <3>1. proposals[p] \in Proposal
      BY <1>0 DEF ProposalsOK
    <3>2. arbiters \in Seq(Addr)
      BY <3>1 DEF Proposal
    <3>3. id \in DOMAIN complaints
      BY <1>0, <2>1 DEF ProposalsOK
    <3>4. complaints \in Seq(Complaint) /\ Len(complaints) <= MaxComplaints
      BY <1>0 DEF CasesInv, ComplaintsOK
    <3>5. id \in 1 .. MaxComplaints
      BY <3>3, <3>4, PoolAssumption
    <3> QED BY <3>1, <3>2, <3>3, <3>5
  <2>3. now + waiting_period \in Nat
    BY <1>0 DEF ConfigOK, Config, waiting_period
  <2>4. /\ Tallied(m) /\ NeedsMajority(m) /\ m.status = "Open" /\ m.complaint_id = id
        /\ m.threshold = AbsoluteCount(pass_weight(arbiters)) /\ m.total_weight = Len(arbiters)
    BY <2>1, <2>2, <2>3, InstantiateTallied
  <2>5. ExecutedStay
    BY <1>0, <2>1, ProposalsExecuted
  <2>6. p \in DOMAIN proposals' /\ NamedIn(m, p)'
    <3>1. /\ p \in DOMAIN proposals'
          /\ proposals'[p] = [proposals[p] EXCEPT !.status = "Executed"]
      BY <1>0, <2>1 DEF ProposalsOK
    <3>2. /\ proposals'[p].case_id = id /\ proposals'[p].arbiters = arbiters
          /\ proposals'[p].status = "Executed"
      BY <2>2, <3>1 DEF Proposal
    <3> QED BY <2>4, <3>1, <3>2 DEF NamedIn
  <2>7. PICK M : multisigs \in Seq(M)
    BY <1>0 DEF CasesInv, MultisigsOK
  <2>8. /\ DOMAIN multisigs = 1 .. k - 1 /\ DOMAIN multisigs' = 1 .. k /\ k \in Nat
        /\ multisigs'[k] = m
        /\ \A l \in DOMAIN multisigs : multisigs'[l] = multisigs[l]
    <3>1. multisigs \in Seq(M \union {m}) /\ Len(multisigs) \in Nat
      BY <2>7
    <3> QED BY <2>1, <3>1
  <2>9. complaints[id].state.kind \in {"Waiting", "Accepted"}
    BY <2>1 DEF current_state, current_kind
  <2>10. /\ complaints'[id].state = InProcess(k)
         /\ \A other \in DOMAIN complaints : other # id => complaints'[other] = complaints[other]
    <3>1. complaints \in Seq(Complaint) /\ complaints[id] \in Complaint
      BY <1>0, <2>2 DEF CasesInv, ComplaintsOK
    <3> QED BY <2>1, <2>2, <3>1 DEF Become, Complaint
  <2>11. ASSUME NEW l \in DOMAIN multisigs'
         PROVE  /\ Tallied(multisigs[l])' /\ NeedsMajority(multisigs[l])'
                /\ Handled(l)' /\ Named(l)'
    <3>1. CASE l = k
      <4>1. Handled(l)'
        BY <2>4, <2>8, <2>10, <3>1 DEF Handled
      <4>2. Named(l)'
        BY <2>6, <2>8, <3>1 DEF Named
      <4> QED BY <2>4, <2>8, <3>1, <4>1, <4>2
    <3>2. CASE l # k
      <4>1. l \in DOMAIN multisigs /\ multisigs'[l] = multisigs[l]
        BY <2>8, <3>2
      <4>2. Tallied(multisigs[l]) /\ NeedsMajority(multisigs[l]) /\ Handled(l) /\ Named(l)
        BY <4>1 DEF VotesInv
      <4>3. multisigs[l].complaint_id # id /\ multisigs[l].complaint_id \in DOMAIN complaints
        BY <1>0, <2>2, <2>9, <4>1, NotYetHandled DEF CasesInv, MultisigsOK, MultisigOf
      <4>4. Handled(l)'
        BY <2>10, <4>1, <4>2, <4>3 DEF Handled
      <4>5. Named(l)'
        BY <2>5, <4>1, <4>2, NamedStays DEF Named
      <4> QED BY <4>1, <4>2, <4>4, <4>5
    <3> QED BY <3>1, <3>2
  <2> QED BY <2>11 DEF VotesInv
<1>10. ASSUME NEW k \in DOMAIN multisigs
       PROVE  /\ Tallied(multisigs[k]) /\ NeedsMajority(multisigs[k]) /\ Handled(k)
              /\ multisigs[k].complaint_id \in DOMAIN complaints
  BY <1>0 DEF VotesInv, CasesInv, MultisigsOK, MultisigOf
<1>11. ASSUME NEW k \in DOMAIN multisigs, NEW a \in Addr, NEW vote \in CastVotes,
              MultisigVote(k, a, vote)
       PROVE  VotesInv'
  <2> PICK n : n = voted(multisigs[k], a, vote, now)
    OBVIOUS
  <2>1. /\ can_vote(multisigs[k], a, now) /\ multisigs' = [multisigs EXCEPT ![k] = n]
        /\ UNCHANGED <<complaints, proposals>>
    BY <1>11 DEF MultisigVote
  <2>2. vote \in Vote /\ multisigs[k].status # "Executed"
    BY <2>1, PoolAssumption DEF can_vote
  <2>3. /\ Tallied(n) /\ NeedsMajority(n) /\ n.status # "Executed"
        /\ n.complaint_id = multisigs[k].complaint_id
        /\ n.threshold = multisigs[k].threshold /\ n.total_weight = multisigs[k].total_weight
    BY <1>0, <1>10, <2>1, <2>2, VotedTallied
  <2>4. complaints'[n.complaint_id].state = InProcess(k)
    BY <1>10, <2>1, <2>2, <2>3 DEF Handled
  <2> QED BY <1>0, <2>1, <2>3, <2>4, SameExecuted, VotesChange
<1>12. ASSUME NEW k \in DOMAIN multisigs, MultisigClose(k)
       PROVE  VotesInv'
  <2> PICK n : n = closed(multisigs[k])
    OBVIOUS
  <2>1. /\ multisigs[k].status = "Open" /\ multisigs' = [multisigs EXCEPT ![k] = n]
        /\ UNCHANGED <<complaints, proposals>>
    BY <1>12 DEF MultisigClose, can_close
  <2>2. /\ Tallied(n) /\ NeedsMajority(n) /\ n.status = "Rejected"
        /\ n.complaint_id = multisigs[k].complaint_id
        /\ n.threshold = multisigs[k].threshold /\ n.total_weight = multisigs[k].total_weight
    BY <1>10, StatusSet DEF closed, Status
  <2>3. complaints'[n.complaint_id].state = InProcess(k)
    BY <1>10, <2>1, <2>2 DEF Handled
  <2> QED BY <1>0, <2>1, <2>2, <2>3, SameExecuted, VotesChange
<1>13. ASSUME NEW k \in DOMAIN multisigs, MultisigExecute(k)
       PROVE  VotesInv'
  <2> PICK n, id : n = executed(multisigs[k]) /\ id = multisigs[k].complaint_id
    OBVIOUS
  <2>1. /\ current_status(multisigs[k], now) = "Passed"
        /\ multisigs' = [multisigs EXCEPT ![k] = n]
        /\ Become(id, State("Closed")) /\ UNCHANGED proposals
    BY <1>13 DEF MultisigExecute, can_execute, RenderDecision
  <2>2. multisigs[k].votes["Yes"] >= multisigs[k].threshold.weight
    BY <1>0, <1>10, <2>1, StatusOf
  <2>3. /\ Tallied(n) /\ NeedsMajority(n) /\ n.status = "Executed" /\ n.complaint_id = id
        /\ n.threshold = multisigs[k].threshold /\ n.total_weight = multisigs[k].total_weight
    BY <1>10, <2>2, StatusSet DEF executed, Status
  <2>4. /\ complaints'[id].state = State("Closed")
        /\ \A other \in DOMAIN complaints : other # id => complaints'[other] = complaints[other]
    <3>1. complaints \in Seq(Complaint) /\ id \in DOMAIN complaints /\ complaints[id] \in Complaint
      BY <1>0, <1>10 DEF CasesInv, ComplaintsOK
    <3> QED BY <2>1, <3>1 DEF Become, Complaint
  <2> QED BY <1>0, <2>1, <2>3, <2>4, SameExecuted, VotesChange
<1>14. ASSUME UNCHANGED <<complaints, multisigs, proposals>>
       PROVE  VotesInv'
  BY <1>1, <1>14, SameExecuted
<1>15. ASSUME (\E msg \in MigrateMsgs : Migrate(msg)) \/ NextBlock \/ UNCHANGED vars
       PROVE  VotesInv'
  BY <1>14, <1>15 DEF Migrate, NextBlock, vars
<1> QED BY <1>3, <1>4, <1>5, <1>6, <1>7, <1>8, <1>9, <1>11, <1>12, <1>13, <1>15 DEF Next, Execute

LEMMA InitVotes == Init => VotesInv
<1>1. ASSUME Init PROVE DOMAIN multisigs = {}
  BY <1>1 DEF Init
<1> QED BY <1>1 DEF VotesInv

\* In every reachable state each multisig handles its complaint until its
\* decision is sent, and counts one vote of every arbiter that was named.
LEMMA VotesInvariant == Spec => [](IInv /\ Backed /\ VotesInv)
<1>1. Init => IInv /\ Backed /\ VotesInv
  BY InitEstablishes, InitBacked, InitVotes, PoolAssumption DEF IInv, ConfigOK, Init
<1>2. IInv /\ Backed /\ VotesInv /\ [Next]_vars => (IInv /\ Backed /\ VotesInv)'
  BY NextKeeps, ConfigKeeps, NextBacked, NextVotes DEF IInv, CasesInv
<1> QED BY <1>1, <1>2, PTL DEF Spec

\* The storage of the pool and of the multisigs keeps its types through every
\* message (the state.rs of both contracts).
THEOREM Typed == Spec => []TypeOK
<1>1. IInv /\ VotesInv => TypeOK
  BY DEF IInv, CasesInv, ConfigOK, ComplaintsOK, ProposalsOK, VotesInv, Tallied, TypeOK
<1> QED BY <1>1, VotesInvariant, PTL

\* A multisig that has passed and was not executed is the one its complaint waits
\* for, and the award is part of what is still deposited for that complaint
\* (execute_execute of the multisig and execute_render_decision of the pool).
THEOREM DecisionsRender == Spec => []PassedCanRender
<1>1. ASSUME IInv, Backed, VotesInv PROVE PassedCanRender
  <2>1. ASSUME NEW k \in DOMAIN multisigs, can_execute(multisigs[k], now)
        PROVE  /\ can_render(k, multisigs[k].complaint_id)
               /\ awarded(multisigs[k]) <= bank
    <3> PICK id : id = multisigs[k].complaint_id
      OBVIOUS
    <3>1. CasesInv /\ now \in Nat /\ bank \in Nat
      BY <1>1 DEF IInv, CasesInv
    <3>2. multisigs[k].status # "Executed"
      BY <1>1, <2>1, <3>1, StatusOf DEF VotesInv, can_execute
    <3>3. complaints[id].state = InProcess(k)
      BY <1>1, <2>1, <3>2 DEF VotesInv, Handled
    <3>4. id \in DOMAIN complaints /\ id \in Case
      <4>1. id \in DOMAIN complaints
        BY <2>1, <3>1 DEF CasesInv, MultisigsOK, MultisigOf
      <4>2. complaints \in Seq(Complaint) /\ Len(complaints) <= MaxComplaints
        BY <3>1 DEF CasesInv, ComplaintsOK
      <4> QED BY <4>1, <4>2, PoolAssumption DEF Case
    <3>5. phase[id] = "Processing"
      BY <3>3, <3>4 DEF phase, current_state, current_kind, InProcess, State
    <3>6. deposits[id] = 2 * dispute_cost
      BY <3>4, <3>5 DEF deposits, AbstractCase!Deposited
    <3>7. deposits[id] <= SumOf(deposits)
      BY <3>1, <3>4, DepositsTyped, SumAtLeast
    <3>8. /\ SumOf(deposits) \in Nat /\ bank >= SumOf(deposits) /\ dispute_cost \in Nat
          /\ awarded(multisigs[k]) \in 0 .. 2 * dispute_cost
      BY <1>1, <2>1, <3>1, DepositsTyped, AwardWithin DEF Backed
    <3>9. awarded(multisigs[k]) <= bank
      BY <3>1, <3>6, <3>7, <3>8
    <3> QED BY <3>3, <3>9 DEF can_render
  <2> QED BY <2>1 DEF PassedCanRender
<1> QED BY <1>1, VotesInvariant, PTL

-----------------------------------------------------------------------------
\* DecisionIsSure: the shares that a threshold asks for

\* The product that votes_needed cuts to the precision, and what it rounds up
applied(weight, percentage) == (percentage * (PRECISION_FACTOR * weight)) \div DECIMAL_ONE

LEMMA Needed ==
  ASSUME NEW weight \in Nat, NEW percentage \in Nat
  PROVE  /\ percentage * (PRECISION_FACTOR * weight) \in Nat
         /\ applied(weight, percentage) \in Nat
         /\ votes_needed(weight, percentage) \in Nat
         /\ applied(weight, percentage) <= PRECISION_FACTOR * votes_needed(weight, percentage)
<1> PICK x, z, v : /\ x = applied(weight, percentage) /\ v = votes_needed(weight, percentage)
                   /\ z = percentage * (PRECISION_FACTOR * weight)
  OBVIOUS
<1>1. PRECISION_FACTOR \in Nat \ {0} /\ DECIMAL_ONE \in Nat \ {0}
  BY MultisigAssumption
<1>2. z \in Nat
  BY <1>1
<1>3. x = z \div DECIMAL_ONE /\ v = (x + PRECISION_FACTOR - 1) \div PRECISION_FACTOR
  BY DEF applied, votes_needed
<1>4. x \in Nat
  BY <1>1, <1>2, <1>3, Quotient
<1>5. x + PRECISION_FACTOR - 1 \in Nat
  BY <1>1, <1>4
<1>6. v \in Nat /\ x + PRECISION_FACTOR - 1 < PRECISION_FACTOR * v + PRECISION_FACTOR
  BY <1>1, <1>3, <1>5, Quotient
<1>7. PRECISION_FACTOR * v \in Int
  BY <1>1, <1>6
<1> QED BY <1>1, <1>2, <1>4, <1>6, <1>7

\* More opinions need more votes.
LEMMA NeededOrder ==
  ASSUME NEW a \in Nat, NEW b \in Nat, NEW percentage \in Nat, a <= b
  PROVE  votes_needed(a, percentage) <= votes_needed(b, percentage)
<1> PICK x, y : /\ x = percentage * (PRECISION_FACTOR * a)
                /\ y = percentage * (PRECISION_FACTOR * b)
  OBVIOUS
<1>1. PRECISION_FACTOR \in Nat \ {0} /\ DECIMAL_ONE \in Nat \ {0}
  BY MultisigAssumption
<1>2. x \in Nat /\ y \in Nat /\ x <= y
  BY <1>1, Needed, TimesOrder
<1>3. /\ applied(a, percentage) \in Nat /\ applied(b, percentage) \in Nat
      /\ applied(a, percentage) <= applied(b, percentage)
  BY <1>1, <1>2, Needed, QuotientOrder DEF applied
<1>4. /\ applied(a, percentage) + PRECISION_FACTOR - 1 \in Nat
      /\ applied(b, percentage) + PRECISION_FACTOR - 1 \in Nat
      /\ applied(a, percentage) + PRECISION_FACTOR - 1
           <= applied(b, percentage) + PRECISION_FACTOR - 1
  BY <1>1, <1>3
<1>5. (applied(a, percentage) + PRECISION_FACTOR - 1) \div PRECISION_FACTOR
        <= (applied(b, percentage) + PRECISION_FACTOR - 1) \div PRECISION_FACTOR
  BY <1>1, <1>4, QuotientOrder
<1> QED BY <1>5 DEF votes_needed, applied

\* What passes and what rejects are together no less than all opinions, so a
\* vote cannot have more than both: rounding up makes good for the cut, as long
\* as the precision is finer than one vote.
LEMMA NeededCovers ==
  ASSUME PRECISION_FACTOR > 1, NEW weight \in Nat, NEW percentage \in 0 .. DECIMAL_ONE
  PROVE  votes_needed(weight, percentage) + votes_needed(weight, DECIMAL_ONE - percentage)
           >= weight
<1> PICK PF, ONE, rest : PF = PRECISION_FACTOR /\ ONE = DECIMAL_ONE /\ rest = ONE - percentage
  OBVIOUS
<1> PICK x, y, u, v, z :
      /\ x = applied(weight, percentage) /\ y = applied(weight, rest)
      /\ u = votes_needed(weight, percentage) /\ v = votes_needed(weight, rest)
      /\ z = PF * weight
  OBVIOUS
<1>1. PF \in Nat \ {0} /\ ONE \in Nat \ {0} /\ percentage \in Nat /\ rest \in Nat /\ z \in Nat
  BY MultisigAssumption
<1>2. /\ x \in Nat /\ y \in Nat /\ u \in Nat /\ v \in Nat
      /\ percentage * z \in Nat /\ rest * z \in Nat
      /\ x <= PF * u /\ y <= PF * v
  BY <1>1, Needed
<1>3. percentage * z < ONE * x + ONE /\ rest * z < ONE * y + ONE
  BY <1>1, <1>2, Quotient DEF applied
<1>4. percentage * z + rest * z = ONE * z
  BY <1>1
<1>5. /\ ONE * x \in Int /\ ONE * y \in Int /\ ONE * z \in Int /\ PF * u \in Int /\ PF * v \in Int
      /\ ONE * (x + y + 2) = ONE * x + ONE * y + 2 * ONE
      /\ PF * (u + v) = PF * u + PF * v
  BY <1>1, <1>2
<1>6. x + y >= z - 1
  <2>1. ASSUME x + y + 2 <= z PROVE FALSE
    <3>1. ONE * (x + y + 2) <= ONE * z
      BY <1>1, <1>2, <2>1, TimesOrder
    <3> QED BY <1>1, <1>2, <1>3, <1>4, <1>5, <3>1
  <2> QED BY <1>1, <1>2, <2>1
<1>7. ASSUME u + v <= weight - 1 PROVE FALSE
  <2>1. PF * (u + v) <= PF * (weight - 1) /\ PF * (weight - 1) = z - PF
    BY <1>1, <1>2, <1>7, TimesOrder
  <2> QED BY <1>1, <1>2, <1>5, <1>6, <2>1
<1> QED BY <1>1, <1>2, <1>7

\* A vote that goes on: from v to w with further votes, or without one to its
\* expiry, of x = expired to y
GoesOn(v, w, total_weight, x, y) ==
  /\ v \in Votes /\ w \in Votes /\ \A vote \in Vote : v[vote] <= w[vote]
  /\ total_weight \in Nat /\ votes_total(w) <= total_weight
  /\ x \in BOOLEAN /\ y \in BOOLEAN /\ (x => y) /\ (~y \/ w = v)

\* Fewer opinions are left, and never fewer than were cast.
LEMMA OpinionsShrink ==
  ASSUME NEW v, NEW w, NEW total_weight, NEW x, NEW y, GoesOn(v, w, total_weight, x, y)
  PROVE  /\ \A vote \in Vote : v[vote] \in Nat /\ w[vote] \in Nat /\ v[vote] <= w[vote]
         /\ Opinions(v, total_weight, x) \in Nat /\ Opinions(w, total_weight, y) \in Nat
         /\ Opinions(w, total_weight, y) <= Opinions(v, total_weight, x)
         /\ w["Yes"] + w["No"] <= Opinions(w, total_weight, y)
         /\ votes_total(v) \in Nat /\ votes_total(w) \in Nat /\ votes_total(v) <= votes_total(w)
         /\ votes_total(w) <= total_weight /\ total_weight \in Nat
<1>1. /\ \A vote \in Vote : v[vote] \in Nat /\ w[vote] \in Nat /\ v[vote] <= w[vote]
      /\ votes_total(w) <= total_weight /\ total_weight \in Nat
  BY DEF GoesOn, Votes
<1>2. \A vote \in {"Yes", "No", "Abstain", "Veto"} :
        v[vote] \in Nat /\ w[vote] \in Nat /\ v[vote] <= w[vote]
  BY <1>1 DEF Vote
<1>3. votes_total(v) \in Nat /\ votes_total(w) \in Nat /\ votes_total(v) <= votes_total(w)
  BY <1>2 DEF votes_total
<1>4. CASE ~y
  <2>1. Opinions(v, total_weight, x) = total_weight - v["Abstain"]
        /\ Opinions(w, total_weight, y) = total_weight - w["Abstain"]
    BY <1>4 DEF Opinions, GoesOn
  <2> QED BY <1>1, <1>2, <1>3, <2>1 DEF votes_total
<1>5. CASE y
  <2>1. w = v
    BY <1>5 DEF GoesOn
  <2>2. Opinions(w, total_weight, y) = votes_total(v) - v["Abstain"]
        /\ Opinions(v, total_weight, x) \in
             {votes_total(v) - v["Abstain"], total_weight - v["Abstain"]}
    BY <1>5, <2>1 DEF Opinions
  <2> QED BY <1>1, <1>2, <1>3, <2>1, <2>2 DEF votes_total
<1> QED BY <1>1, <1>3, <1>4, <1>5 DEF GoesOn

\* Passing and rejecting are sure for a share of the opinions: what was enough of
\* more opinions is enough of fewer, and both together are more than all.
MoreCast(a, b, yes, no, more_yes, more_no) ==
  /\ a \in Nat /\ b \in Nat /\ b <= a
  /\ yes \in Nat /\ no \in Nat /\ more_yes \in Nat /\ more_no \in Nat
  /\ yes <= more_yes /\ no <= more_no /\ more_yes + more_no <= b

LEMMA ShareIsSure ==
  ASSUME PRECISION_FACTOR > 1, NEW share_needed \in 0 .. DECIMAL_ONE,
         NEW a, NEW b, NEW yes, NEW no, NEW more_yes, NEW more_no,
         MoreCast(a, b, yes, no, more_yes, more_no)
  PROVE  /\ yes >= votes_needed(a, share_needed) => more_yes >= votes_needed(b, share_needed)
         /\ no > votes_needed(a, DECIMAL_ONE - share_needed) =>
              /\ more_no > votes_needed(b, DECIMAL_ONE - share_needed)
              /\ ~(more_yes >= votes_needed(b, share_needed))
<1>0. /\ a \in Nat /\ b \in Nat /\ b <= a
      /\ yes \in Nat /\ no \in Nat /\ more_yes \in Nat /\ more_no \in Nat
      /\ yes <= more_yes /\ no <= more_no /\ more_yes + more_no <= b
  BY DEF MoreCast
<1> PICK rest : rest = DECIMAL_ONE - share_needed
  OBVIOUS
<1>1. share_needed \in Nat /\ rest \in Nat
  BY MultisigAssumption
<1>2. /\ votes_needed(a, share_needed) \in Nat /\ votes_needed(b, share_needed) \in Nat
      /\ votes_needed(a, rest) \in Nat /\ votes_needed(b, rest) \in Nat
  BY <1>0, <1>1, Needed
<1>3. /\ votes_needed(b, share_needed) <= votes_needed(a, share_needed)
      /\ votes_needed(b, rest) <= votes_needed(a, rest)
  BY <1>0, <1>1, NeededOrder
<1>4. votes_needed(b, share_needed) + votes_needed(b, rest) >= b
  BY <1>0, NeededCovers
<1> QED BY <1>0, <1>2, <1>3, <1>4

SureOf(v, w, threshold, total_weight, x, y) ==
  /\ is_passed(v, threshold, total_weight, x) => is_passed(w, threshold, total_weight, y)
  /\ is_rejected(v, threshold, total_weight, x) =>
       /\ is_rejected(w, threshold, total_weight, y)
       /\ ~is_passed(w, threshold, total_weight, y)

LEMMA CountIsSure ==
  ASSUME NEW v, NEW w, NEW total_weight, NEW x, NEW y, GoesOn(v, w, total_weight, x, y),
         NEW weight \in Nat
  PROVE  SureOf(v, w, AbsoluteCount(weight), total_weight, x, y)
<1> PICK threshold : threshold = AbsoluteCount(weight)
  OBVIOUS
<1>1. threshold.kind = "AbsoluteCount" /\ threshold.weight = weight
  BY DEF AbsoluteCount
<1>2. /\ v["Yes"] \in Nat /\ w["Yes"] \in Nat /\ v["Yes"] <= w["Yes"]
      /\ v["No"] \in Nat /\ w["No"] \in Nat /\ v["No"] <= w["No"]
      /\ Opinions(w, total_weight, y) \in Nat /\ total_weight \in Nat
      /\ w["Yes"] + w["No"] <= total_weight
  <2>1. "Yes" \in Vote /\ "No" \in Vote /\ w["Abstain"] \in Nat /\ w["Veto"] \in Nat
    BY OpinionsShrink DEF Vote
  <2> QED BY <2>1, OpinionsShrink DEF votes_total
<1>3. /\ is_passed(v, threshold, total_weight, x) <=> v["Yes"] >= weight
      /\ is_passed(w, threshold, total_weight, y) <=> w["Yes"] >= weight
      /\ is_rejected(v, threshold, total_weight, x) <=> v["No"] > total_weight - weight
      /\ is_rejected(w, threshold, total_weight, y) <=> w["No"] > total_weight - weight
  BY <1>1 DEF is_passed, is_rejected
<1> QED BY <1>2, <1>3 DEF SureOf

LEMMA PercentageIsSure ==
  ASSUME PRECISION_FACTOR > 1,
         NEW v, NEW w, NEW total_weight, NEW x, NEW y, GoesOn(v, w, total_weight, x, y),
         NEW percentage \in 0 .. DECIMAL_ONE
  PROVE  SureOf(v, w, AbsolutePercentage(percentage), total_weight, x, y)
<1> PICK threshold, a, b :
      /\ threshold = AbsolutePercentage(percentage)
      /\ a = total_weight - v["Abstain"] /\ b = total_weight - w["Abstain"]
  OBVIOUS
<1>1. threshold.kind = "AbsolutePercentage" /\ threshold.percentage = percentage
  BY DEF AbsolutePercentage
<1>2. /\ v["Yes"] \in Nat /\ w["Yes"] \in Nat /\ v["Yes"] <= w["Yes"]
      /\ v["No"] \in Nat /\ w["No"] \in Nat /\ v["No"] <= w["No"]
      /\ a \in Nat /\ b \in Nat /\ b <= a /\ w["Yes"] + w["No"] <= b
  <2>1. \A vote \in {"Yes", "No", "Abstain", "Veto"} :
          v[vote] \in Nat /\ w[vote] \in Nat /\ v[vote] <= w[vote]
    BY OpinionsShrink DEF Vote
  <2>2. /\ votes_total(w) <= total_weight /\ total_weight \in Nat
    BY OpinionsShrink
  <2>3. w["Yes"] + w["No"] + w["Abstain"] + w["Veto"] <= total_weight
    BY <2>2 DEF votes_total
  <2> QED BY <2>1, <2>2, <2>3
<1>3. /\ is_passed(v, threshold, total_weight, x) <=> v["Yes"] >= votes_needed(a, percentage)
      /\ is_passed(w, threshold, total_weight, y) <=> w["Yes"] >= votes_needed(b, percentage)
      /\ is_rejected(v, threshold, total_weight, x)
           <=> v["No"] > votes_needed(a, DECIMAL_ONE - percentage)
      /\ is_rejected(w, threshold, total_weight, y)
           <=> w["No"] > votes_needed(b, DECIMAL_ONE - percentage)
  BY <1>1 DEF is_passed, is_rejected
<1>4. MoreCast(a, b, v["Yes"], v["No"], w["Yes"], w["No"])
  BY <1>2 DEF MoreCast
<1>5. /\ v["Yes"] >= votes_needed(a, percentage) => w["Yes"] >= votes_needed(b, percentage)
      /\ v["No"] > votes_needed(a, DECIMAL_ONE - percentage) =>
           /\ w["No"] > votes_needed(b, DECIMAL_ONE - percentage)
           /\ ~(w["Yes"] >= votes_needed(b, percentage))
  BY <1>4, ShareIsSure
<1> QED BY <1>3, <1>5 DEF SureOf

LEMMA QuorumIsSure ==
  ASSUME PRECISION_FACTOR > 1,
         NEW v, NEW w, NEW total_weight, NEW x, NEW y, GoesOn(v, w, total_weight, x, y),
         NEW share_needed \in 0 .. DECIMAL_ONE, NEW quorum \in Nat
  PROVE  SureOf(v, w, ThresholdQuorum(share_needed, quorum), total_weight, x, y)
<1> PICK threshold, a, b, q :
      /\ threshold = ThresholdQuorum(share_needed, quorum)
      /\ a = Opinions(v, total_weight, x) /\ b = Opinions(w, total_weight, y)
      /\ q = votes_needed(total_weight, quorum)
  OBVIOUS
<1>1. /\ threshold.kind = "ThresholdQuorum" /\ threshold.threshold = share_needed
      /\ threshold.quorum = quorum
  BY DEF ThresholdQuorum
<1>2. /\ v["Yes"] \in Nat /\ w["Yes"] \in Nat /\ v["Yes"] <= w["Yes"]
      /\ v["No"] \in Nat /\ w["No"] \in Nat /\ v["No"] <= w["No"]
      /\ a \in Nat /\ b \in Nat /\ b <= a /\ w["Yes"] + w["No"] <= b
      /\ votes_total(v) \in Nat /\ votes_total(w) \in Nat /\ votes_total(v) <= votes_total(w)
      /\ total_weight \in Nat
  <2>1. "Yes" \in Vote /\ "No" \in Vote
    BY DEF Vote
  <2> QED BY <2>1, OpinionsShrink
<1>3. q \in Nat
  BY <1>2, Needed
<1>4. /\ is_passed(v, threshold, total_weight, x)
           <=> votes_total(v) >= q /\ v["Yes"] >= votes_needed(a, share_needed)
      /\ is_passed(w, threshold, total_weight, y)
           <=> votes_total(w) >= q /\ w["Yes"] >= votes_needed(b, share_needed)
      /\ is_rejected(v, threshold, total_weight, x)
           <=> v["No"] > votes_needed(a, DECIMAL_ONE - share_needed)
      /\ is_rejected(w, threshold, total_weight, y)
           <=> w["No"] > votes_needed(b, DECIMAL_ONE - share_needed)
  BY <1>1 DEF is_passed, is_rejected
<1>5. /\ v["Yes"] >= votes_needed(a, share_needed) => w["Yes"] >= votes_needed(b, share_needed)
      /\ v["No"] > votes_needed(a, DECIMAL_ONE - share_needed) =>
           /\ w["No"] > votes_needed(b, DECIMAL_ONE - share_needed)
           /\ ~(w["Yes"] >= votes_needed(b, share_needed))
  <2>1. MoreCast(a, b, v["Yes"], v["No"], w["Yes"], w["No"])
    BY <1>2 DEF MoreCast
  <2> QED BY <2>1, ShareIsSure
<1>6. votes_total(v) >= q => votes_total(w) >= q
  BY <1>2, <1>3
<1> QED BY <1>4, <1>5, <1>6 DEF SureOf

LEMMA AnyIsSure ==
  ASSUME PRECISION_FACTOR > 1,
         NEW v, NEW w, NEW total_weight, NEW x, NEW y, GoesOn(v, w, total_weight, x, y),
         NEW threshold \in Thresholds, valid_threshold(threshold, total_weight)
  PROVE  SureOf(v, w, threshold, total_weight, x, y)
<1>1. \/ \E weight \in Nat : threshold = AbsoluteCount(weight)
      \/ \E percentage \in Nat : threshold = AbsolutePercentage(percentage)
      \/ \E share_needed, quorum \in Nat : threshold = ThresholdQuorum(share_needed, quorum)
  BY PoolAssumption, MultisigAssumption DEF Thresholds
<1>2. ASSUME NEW weight \in Nat, threshold = AbsoluteCount(weight)
      PROVE  SureOf(v, w, threshold, total_weight, x, y)
  BY <1>2, CountIsSure
<1>3. ASSUME NEW percentage \in Nat, threshold = AbsolutePercentage(percentage)
      PROVE  SureOf(v, w, threshold, total_weight, x, y)
  <2>1. percentage <= DECIMAL_ONE
    BY <1>3 DEF valid_threshold, AbsolutePercentage
  <2>2. percentage \in 0 .. DECIMAL_ONE
    BY <2>1, MultisigAssumption
  <2> QED BY <1>3, <2>2, PercentageIsSure
<1>4. ASSUME NEW share_needed \in Nat, NEW quorum \in Nat,
             threshold = ThresholdQuorum(share_needed, quorum)
      PROVE  SureOf(v, w, threshold, total_weight, x, y)
  <2>1. share_needed <= DECIMAL_ONE
    BY <1>4 DEF valid_threshold, ThresholdQuorum
  <2>2. share_needed \in 0 .. DECIMAL_ONE
    BY <2>1, MultisigAssumption
  <2> QED BY <1>4, <2>2, QuorumIsSure
<1> QED BY <1>1, <1>2, <1>3, <1>4

\* No more votes than arbiters that may vote.
LEMMA TalliedWithin ==
  ASSUME NEW m, Tallied(m)
  PROVE  m.votes \in Votes /\ m.total_weight \in Nat /\ votes_total(m.votes) <= m.total_weight
         /\ m.expires \in Nat
<1>1. /\ IsFiniteSet(DOMAIN m.voters) /\ Cardinality(DOMAIN m.voters) <= m.total_weight
      /\ cast_by(m) \subseteq DOMAIN m.voters /\ votes_total(m.votes) = Cardinality(cast_by(m))
      /\ m.votes \in Votes /\ m.total_weight \in Nat /\ m.expires \in Nat
  BY DEF Tallied, MultisigOK
<1>2. /\ Cardinality(cast_by(m)) <= Cardinality(DOMAIN m.voters)
      /\ Cardinality(cast_by(m)) \in Nat /\ Cardinality(DOMAIN m.voters) \in Nat
  BY <1>1, FS_Subset, FS_CardinalityType
<1> QED BY <1>1, <1>2

\* A step that changes what a multisig counts: a vote in it, or its expiry.
LEMMA StepGoesOn ==
  ASSUME IInv, VotesInv, Next, NEW k \in DOMAIN multisigs, Counted(k)' # Counted(k)
  PROVE  /\ GoesOn(multisigs[k].votes, multisigs'[k].votes, multisigs[k].total_weight,
                   Expired(multisigs[k], now), Expired(multisigs'[k], now'))
         /\ multisigs'[k].total_weight = multisigs[k].total_weight
<1> DEFINE Goal == /\ GoesOn(multisigs[k].votes, multisigs'[k].votes, multisigs[k].total_weight,
                             Expired(multisigs[k], now), Expired(multisigs'[k], now'))
                   /\ multisigs'[k].total_weight = multisigs[k].total_weight
<1> PICK m : m = multisigs[k]
  OBVIOUS
<1>0. /\ Tallied(m) /\ NeedsMajority(m) /\ now \in Nat /\ m.votes \in Votes
      /\ m.total_weight \in Nat /\ votes_total(m.votes) <= m.total_weight /\ m.expires \in Nat
      /\ CasesInv
  BY TalliedWithin DEF VotesInv, IInv, CasesInv
<1>1. ASSUME multisigs'[k].votes = m.votes, multisigs'[k].expires = m.expires, now' = now
      PROVE  FALSE
  BY <1>1 DEF Counted, Expired
<1>2. ASSUME UNCHANGED <<multisigs, now>> PROVE FALSE
  BY <1>1, <1>2
<1>3. PICK M : multisigs \in Seq(M)
  BY <1>0 DEF CasesInv, MultisigsOK
<1>4. ASSUME NEW new, multisigs' = Append(multisigs, new), now' = now
      PROVE  FALSE
  <2>1. multisigs \in Seq(M \union {new})
    BY <1>3
  <2>2. multisigs'[k] = m
    BY <1>4, <2>1
  <2> QED BY <1>1, <1>4, <2>2
<1>5. ASSUME NEW l \in DOMAIN multisigs, NEW n, multisigs' = [multisigs EXCEPT ![l] = n],
             l = k => n.votes = m.votes /\ n.expires = m.expires, now' = now
      PROVE  FALSE
  <2>1. multisigs'[k] = IF l = k THEN n ELSE m
    BY <1>5
  <2> QED BY <1>1, <1>5, <2>1
<1>6. ASSUME NEW l \in DOMAIN multisigs, NEW a \in Addr, NEW vote \in CastVotes,
             MultisigVote(l, a, vote)
      PROVE  Goal
  <2> PICK n : n = voted(multisigs[l], a, vote, now)
    OBVIOUS
  <2>1. /\ can_vote(multisigs[l], a, now) /\ multisigs' = [multisigs EXCEPT ![l] = n]
        /\ now' = now
    BY <1>6 DEF MultisigVote
  <2>2. l = k
    BY <1>5, <2>1
  <2>3. vote \in Vote /\ ~Expired(m, now)
    BY <2>1, <2>2, PoolAssumption DEF can_vote
  <2>4. /\ Tallied(n) /\ n.total_weight = m.total_weight /\ n.expires = m.expires
        /\ n.votes = add_vote(m.votes, vote, 1)
    BY <1>0, <2>1, <2>2, <2>3, VotedTallied
  <2>5. n.votes \in Votes /\ votes_total(n.votes) <= m.total_weight
    BY <2>4, TalliedWithin
  <2>6. \A c \in Vote : m.votes[c] <= n.votes[c]
    BY <1>0, <2>4 DEF Votes, add_vote
  <2>7. multisigs'[k] = n /\ ~Expired(n, now')
    BY <2>1, <2>2, <2>3, <2>4 DEF Expired
  <2>8. Expired(m, now) \in BOOLEAN /\ Expired(n, now') \in BOOLEAN
    BY DEF Expired
  <2>9. GoesOn(m.votes, n.votes, m.total_weight, Expired(m, now), Expired(n, now'))
    BY <1>0, <2>3, <2>5, <2>6, <2>7, <2>8 DEF GoesOn
  <2> QED BY <2>4, <2>7, <2>9
<1>7. ASSUME NEW l \in DOMAIN multisigs, MultisigExecute(l) PROVE FALSE
  <2> PICK n : n = executed(multisigs[l])
    OBVIOUS
  <2>1. multisigs' = [multisigs EXCEPT ![l] = n] /\ now' = now
    BY <1>7 DEF MultisigExecute
  <2>2. l = k => n.votes = m.votes /\ n.expires = m.expires
    BY <1>0 DEF executed, Tallied, MultisigFields
  <2> QED BY <1>5, <2>1, <2>2
<1>8. ASSUME NEW l \in DOMAIN multisigs, MultisigClose(l) PROVE FALSE
  <2> PICK n : n = closed(multisigs[l])
    OBVIOUS
  <2>1. multisigs' = [multisigs EXCEPT ![l] = n] /\ now' = now
    BY <1>8 DEF MultisigClose
  <2>2. l = k => n.votes = m.votes /\ n.expires = m.expires
    BY <1>0 DEF closed, Tallied, MultisigFields
  <2> QED BY <1>5, <2>1, <2>2
<1>9. ASSUME NEW p \in DOMAIN proposals, Execute(p) PROVE FALSE
  BY <1>2, <1>4, <1>9 DEF Execute, ExecuteText, ExecuteProposeArbiters
<1>10. ASSUME NextBlock PROVE Goal
  <2>1. multisigs'[k] = m /\ now' = now + 1
    BY <1>10 DEF NextBlock
  <2>2. Expired(m, now) => Expired(m, now')
    BY <1>0, <2>1 DEF Expired
  <2>3. \A c \in Vote : m.votes[c] <= m.votes[c]
    BY <1>0 DEF Votes
  <2> QED BY <1>0, <2>1, <2>2, <2>3 DEF GoesOn, Expired
<1>11. ASSUME NEW dispute \in Disputes, RegisterComplaint(dispute[1], dispute[2]) PROVE FALSE
  BY <1>2, <1>11 DEF RegisterComplaint
<1>12. ASSUME NEW id \in DOMAIN complaints, NEW a \in Addr,
              \/ AcceptComplaint(a, id) \/ WithdrawComplaint(a, id)
              \/ \E arbiters \in ArbiterLists : Propose(a, id, arbiters)
       PROVE  FALSE
  BY <1>2, <1>12 DEF AcceptComplaint, WithdrawComplaint, Propose
<1>13. ASSUME \/ \E a \in Addr : ProposeText(a)
              \/ \E msg \in MigrateMsgs : Migrate(msg)
              \/ \E p \in DOMAIN proposals, status \in {"Passed", "Rejected"} :
                   DecideProposal(p, status)
       PROVE  FALSE
  BY <1>2, <1>13 DEF ProposeText, Migrate, DecideProposal
<1> HIDE DEF Goal
<1>14. Goal
  BY <1>6, <1>7, <1>8, <1>9, <1>10, <1>11, <1>12, <1>13 DEF Next
<1> QED BY <1>14 DEF Goal

\* is_passed and is_rejected of a multisig are sure under every threshold that
\* validate accepts: no further vote and no expiry takes either away or brings
\* both.  Rounding up needs a precision finer than one vote (10^9 in the code):
\* with a factor of 1 a vote could be passed and rejected.
THEOREM SureDecisions ==
  ASSUME PRECISION_FACTOR > 1
  PROVE  Spec => DecisionIsSure
<1> DEFINE Sure ==
      \A k \in DOMAIN multisigs : Counted(k)' # Counted(k) =>
        \A threshold \in Thresholds : valid_threshold(threshold, multisigs[k].total_weight) =>
          /\ Passed(multisigs[k], threshold) => Passed(multisigs[k], threshold)'
          /\ Rejected(multisigs[k], threshold) =>
               (Rejected(multisigs[k], threshold) /\ ~Passed(multisigs[k], threshold))'
<1>1. ASSUME IInv, VotesInv, Next PROVE Sure
  <2>1. ASSUME NEW k \in DOMAIN multisigs, Counted(k)' # Counted(k),
               NEW threshold \in Thresholds,
               valid_threshold(threshold, multisigs[k].total_weight)
        PROVE  /\ Passed(multisigs[k], threshold) => Passed(multisigs[k], threshold)'
               /\ Rejected(multisigs[k], threshold) =>
                    (Rejected(multisigs[k], threshold) /\ ~Passed(multisigs[k], threshold))'
    <3> PICK v, w, total_weight, x, y :
          /\ v = multisigs[k].votes /\ w = multisigs'[k].votes
          /\ total_weight = multisigs[k].total_weight
          /\ x = Expired(multisigs[k], now) /\ y = Expired(multisigs'[k], now')
      OBVIOUS
    <3>1. GoesOn(v, w, total_weight, x, y) /\ multisigs'[k].total_weight = total_weight
      BY <1>1, <2>1, StepGoesOn
    <3>2. SureOf(v, w, threshold, total_weight, x, y)
      BY <2>1, <3>1, AnyIsSure
    <3> QED BY <3>1, <3>2 DEF SureOf, Passed, Rejected
  <2> QED BY <2>1
<1>2. IInv /\ VotesInv /\ [Next]_vars => [Sure]_vars
  BY <1>1
<1> QED BY <1>2, VotesInvariant, PTL DEF Spec, DecisionIsSure

-----------------------------------------------------------------------------
\* What the queries show.  Addresses are ordered and finitely many, and a reader
\* asks for at least one entry

Readers ==
  /\ Addr \subseteq Int /\ IsFiniteSet(Addr)
  /\ \A limit \in PageLimits : IsLimit(limit)

\* A complaint that was given to arbiters has their multisig.
HandledInv ==
  \A id \in DOMAIN complaints : complaints[id].state.kind \in {"Processing", "Closed"} =>
    \E k \in DOMAIN multisigs : multisigs[k].complaint_id = id

LEMMA MultisigsLast ==
  ASSUME IInv, VotesInv, [Next]_vars, NEW k \in DOMAIN multisigs
  PROVE  k \in DOMAIN multisigs' /\ multisigs'[k].complaint_id = multisigs[k].complaint_id
<1>0. /\ CasesInv /\ Tallied(multisigs[k])
  BY DEF IInv, VotesInv
<1>1. PICK M : multisigs \in Seq(M)
  BY <1>0 DEF CasesInv, MultisigsOK
<1> DEFINE Kept == /\ k \in DOMAIN multisigs'
                   /\ multisigs'[k].complaint_id = multisigs[k].complaint_id
<1>2. ASSUME UNCHANGED multisigs PROVE Kept
  BY <1>2
<1>3. ASSUME NEW new, multisigs' = Append(multisigs, new) PROVE Kept
  <2>1. multisigs \in Seq(M \union {new})
    BY <1>1
  <2> QED BY <1>3, <2>1
<1>4. ASSUME NEW l \in DOMAIN multisigs, NEW n, multisigs' = [multisigs EXCEPT ![l] = n],
             n.complaint_id = multisigs[l].complaint_id
      PROVE  Kept
  BY <1>4
<1>5. ASSUME NEW l \in DOMAIN multisigs, NEW a \in Addr, NEW vote \in CastVotes,
             MultisigVote(l, a, vote)
      PROVE  Kept
  <2> PICK n : n = voted(multisigs[l], a, vote, now)
    OBVIOUS
  <2>1. can_vote(multisigs[l], a, now) /\ multisigs' = [multisigs EXCEPT ![l] = n]
    BY <1>5 DEF MultisigVote
  <2>2. vote \in Vote /\ now \in Nat /\ Tallied(multisigs[l]) /\ NeedsMajority(multisigs[l])
    BY <1>0, PoolAssumption DEF CasesInv, VotesInv
  <2>3. n.complaint_id = multisigs[l].complaint_id
    BY <2>1, <2>2, VotedTallied
  <2> QED BY <1>4, <2>1, <2>3
<1>6. ASSUME NEW l \in DOMAIN multisigs, MultisigExecute(l) \/ MultisigClose(l)
      PROVE  Kept
  <2>1. Tallied(multisigs[l])
    BY DEF VotesInv
  <2>2. \A status : [multisigs[l] EXCEPT !.status = status].complaint_id
                      = multisigs[l].complaint_id
    BY <2>1 DEF Tallied, MultisigFields
  <2> QED BY <1>4, <1>6, <2>2 DEF MultisigExecute, MultisigClose, executed, closed
<1>7. ASSUME NEW p \in DOMAIN proposals, Execute(p) PROVE Kept
  BY <1>2, <1>3, <1>7 DEF Execute, ExecuteText, ExecuteProposeArbiters
<1>8. ASSUME \/ \E dispute \in Disputes : RegisterComplaint(dispute[1], dispute[2])
             \/ \E id \in DOMAIN complaints :
                  \/ \E a \in Addr : AcceptComplaint(a, id)
                  \/ \E a \in Addr : WithdrawComplaint(a, id)
                  \/ \E a \in Addr, arbiters \in ArbiterLists : Propose(a, id, arbiters)
      PROVE  Kept
  BY <1>2, <1>8 DEF RegisterComplaint, AcceptComplaint, WithdrawComplaint, Propose
<1>9. ASSUME \/ \E a \in Addr : ProposeText(a)
             \/ \E msg \in MigrateMsgs : Migrate(msg)
             \/ \E p \in DOMAIN proposals, status \in {"Passed", "Rejected"} :
                  DecideProposal(p, status)
             \/ NextBlock \/ UNCHANGED vars
      PROVE  Kept
  BY <1>2, <1>9 DEF ProposeText, Migrate, DecideProposal, NextBlock, vars
<1> HIDE DEF Kept
<1>10. Kept
  BY <1>5, <1>6, <1>7, <1>8, <1>9 DEF Next
<1> QED BY <1>10 DEF Kept

LEMMA NextHandled ==
  ASSUME IInv, VotesInv, HandledInv, [Next]_vars
  PROVE  HandledInv'
<1>0. /\ complaints \in Seq(Complaint) /\ CasesInv
      /\ \A k \in DOMAIN multisigs :
           k \in DOMAIN multisigs' /\ multisigs'[k].complaint_id = multisigs[k].complaint_id
  BY MultisigsLast DEF IInv, CasesInv, ComplaintsOK
<1>1. ASSUME UNCHANGED complaints PROVE HandledInv'
  BY <1>0, <1>1 DEF HandledInv
<1>2. ASSUME NEW id \in DOMAIN complaints, NEW state, Become(id, state),
             state.kind \in {"Processing", "Closed"} =>
               \E k \in DOMAIN multisigs' : multisigs'[k].complaint_id = id
      PROVE  HandledInv'
  <2>1. complaints[id] \in Complaint
    BY <1>0
  <2>2. /\ DOMAIN complaints' = DOMAIN complaints /\ complaints'[id].state = state
        /\ \A other \in DOMAIN complaints : other # id => complaints'[other] = complaints[other]
    BY <1>0, <1>2, <2>1 DEF Become, Complaint
  <2> QED BY <1>0, <1>2, <2>2 DEF HandledInv
<1>3. ASSUME NEW dispute \in Disputes, RegisterComplaint(dispute[1], dispute[2])
      PROVE  HandledInv'
  <2> PICK new : new = [plaintiff |-> dispute[1], defendant |-> dispute[2],
                        state |-> Until("Initiated", now + waiting_period)]
    OBVIOUS
  <2>1. complaints' = Append(complaints, new) /\ new.state.kind = "Initiated"
    BY <1>3 DEF RegisterComplaint, Until, State
  <2>2. complaints \in Seq(Complaint \union {new})
    BY <1>0
  <2>3. \A id \in DOMAIN complaints' :
          \/ id \in DOMAIN complaints /\ complaints'[id] = complaints[id]
          \/ complaints'[id] = new
    BY <2>1, <2>2
  <2> QED BY <1>0, <2>1, <2>3 DEF HandledInv
<1>4. ASSUME NEW id \in DOMAIN complaints, NEW a \in Addr,
             AcceptComplaint(a, id) \/ WithdrawComplaint(a, id)
      PROVE  HandledInv'
  <2>1. \A time : Until("Waiting", time).kind = "Waiting"
    BY DEF Until, State
  <2>2. State("Withdrawn").kind = "Withdrawn"
    BY DEF State
  <2> QED BY <1>2, <1>4, <2>1, <2>2 DEF AcceptComplaint, WithdrawComplaint
<1>5. ASSUME NEW p \in DOMAIN proposals, ExecuteProposeArbiters(p)
      PROVE  HandledInv'
  <2> PICK id, k, threshold, arbiters :
        /\ id = proposals[p].case_id /\ k = Len(multisigs) + 1
        /\ arbiters = proposals[p].arbiters /\ threshold = AbsoluteCount(pass_weight(arbiters))
    OBVIOUS
  <2> PICK m : m = instantiate(id, one_vote_each(arbiters), threshold, now + waiting_period)
    OBVIOUS
  <2>1. multisigs' = Append(multisigs, m) /\ Become(id, InProcess(k)) /\ id \in DOMAIN complaints
    BY <1>0, <1>5 DEF ExecuteProposeArbiters, CasesInv, ProposalsOK
  <2>2. m.complaint_id = id
    BY DEF instantiate
  <2>3. PICK M : multisigs \in Seq(M)
    BY <1>0 DEF CasesInv, MultisigsOK
  <2>4. multisigs \in Seq(M \union {m}) /\ Len(multisigs) \in Nat
    BY <2>3
  <2>5. k \in DOMAIN multisigs' /\ multisigs'[k] = m
    BY <2>1, <2>4
  <2> QED BY <1>2, <2>1, <2>2, <2>5
<1>6. ASSUME NEW k \in DOMAIN multisigs, MultisigExecute(k) PROVE HandledInv'
  <2>1. multisigs[k].complaint_id \in DOMAIN complaints
    BY <1>0 DEF CasesInv, MultisigsOK, MultisigOf
  <2>2. Become(multisigs[k].complaint_id, State("Closed"))
    BY <1>6 DEF MultisigExecute, RenderDecision
  <2> QED BY <1>0, <1>2, <2>1, <2>2
<1>7. ASSUME NEW k \in DOMAIN multisigs,
             MultisigClose(k) \/ \E a \in Addr, vote \in CastVotes : MultisigVote(k, a, vote)
      PROVE  HandledInv'
  BY <1>1, <1>7 DEF MultisigClose, MultisigVote
<1>8. ASSUME NEW p \in DOMAIN proposals,
             ExecuteText(p) \/ \E status \in {"Passed", "Rejected"} : DecideProposal(p, status)
      PROVE  HandledInv'
  BY <1>1, <1>8 DEF ExecuteText, DecideProposal
<1>9. ASSUME NEW id \in DOMAIN complaints, NEW a \in Addr, NEW arbiters \in ArbiterLists,
             Propose(a, id, arbiters)
      PROVE  HandledInv'
  BY <1>1, <1>9 DEF Propose
<1>10. ASSUME \/ \E a \in Addr : ProposeText(a)
              \/ \E msg \in MigrateMsgs : Migrate(msg)
              \/ NextBlock \/ UNCHANGED vars
       PROVE  HandledInv'
  BY <1>1, <1>10 DEF ProposeText, Migrate, NextBlock, vars
<1> QED BY <1>3, <1>4, <1>5, <1>6, <1>7, <1>8, <1>9, <1>10 DEF Next, Execute

LEMMA QueriesInvariant == Spec => [](IInv /\ VotesInv /\ HandledInv)
<1>1. Init => HandledInv
  <2>1. ASSUME Init PROVE DOMAIN complaints = {}
    BY <2>1 DEF Init
  <2> QED BY <2>1 DEF HandledInv
<1>2. IInv /\ VotesInv /\ HandledInv /\ [Next]_vars => HandledInv'
  BY NextHandled
<1> QED BY <1>1, <1>2, VotesInvariant, PTL DEF Spec

\* What the pool asks for is more than half.
LEMMA MoreThanHalf ==
  ASSUME NEW n \in Nat, NEW count \in Nat, count >= n \div 2 + 1
  PROVE  2 * count > n
<1> PICK half : half = n \div 2
  OBVIOUS
<1>1. half \in Nat /\ n < 2 * half + 2
  OBVIOUS
<1> QED BY <1>1

\* The arbiters of a multisig are shown by its lists, and the votes of some.
LEMMA VotersShown ==
  ASSUME Readers, VotesInv, NEW k \in DOMAIN multisigs, NEW keys,
         NEW limit, IsLimit(limit),
         keys \in SUBSET (DOMAIN multisigs[k].voters)
  PROVE  Shows(PagesOf(keys, limit, Cardinality(Addr)), keys)
<1>1. keys \in SUBSET Addr
  BY DEF VotesInv, Tallied, MultisigOK
<1> QED BY <1>1, KeysOfShown DEF Readers

\* The loop of query_multisig_voters ends with all arbiters of a multisig, each
\* counted once, for lists of any length (execute_render_decision of
\* tgrade-ap-voting and list_voters of the multisig).
THEOREM AwardsReach ==
  ASSUME Readers
  PROVE  Spec => []AwardReachesAll
<1>1. ASSUME VotesInv PROVE AwardReachesAll
  <2>1. ASSUME NEW k \in DOMAIN multisigs
        PROVE  /\ Shows(multisig_pages(k), DOMAIN multisigs[k].voters)
               /\ Cardinality(query_multisig_voters(k)) * share(query_multisig_voters(k))
                    = awarded(multisigs[k])
    <3> PICK voters : voters = DOMAIN multisigs[k].voters
      OBVIOUS
    <3>1. multisig_pages(k) = PagesOf(voters, {}, Cardinality(Addr))
      BY DEF multisig_pages, PagesOf, list_voters
    <3>2. IsLimit({})
      BY DEF IsLimit
    <3>3. Shows(multisig_pages(k), voters)
      BY <1>1, <3>1, <3>2, VotersShown
    <3>4. query_multisig_voters(k) = voters
      BY <3>3, ShownUnion DEF query_multisig_voters
    <3> QED BY <3>3, <3>4 DEF awarded
  <2> QED BY <2>1 DEF AwardReachesAll
<1> QED BY <1>1, QueriesInvariant, PTL

\* What the pool tells of a complaint and what the multisig tells that handles it
\* agree in every reachable state (query_complaint of tgrade-ap-voting,
\* query_status of the multisig).
THEOREM ContractsTellTheSame ==
  ASSUME Readers
  PROVE  Spec => []ContractsAgree
<1>1. ASSUME IInv, VotesInv, HandledInv PROVE ContractsAgree
  <2>0. complaints \in Seq(Complaint) /\ Len(complaints) <= MaxComplaints /\ CasesInv
    BY <1>1 DEF IInv, CasesInv, ComplaintsOK
  <2>1. ASSUME NEW id \in DOMAIN complaints
        PROVE  /\ query_complaint(id).state.kind = current_kind(complaints[id].state, now)
               /\ current_kind(complaints[id].state, now) \in {"Processing", "Closed"} =>
                    complaints[id].state.kind \in {"Processing", "Closed"}
    <3>1. complaints[id] \in Complaint
      BY <2>0
    <3>2. query_complaint(id).state.kind = current_kind(complaints[id].state, now)
      BY <3>1 DEF query_complaint, Complaint, ComplaintState
    <3> QED BY <3>2 DEF current_kind
  <2>2. ASSUME NEW limit \in PageLimits
        PROVE  Shows(Pages(LAMBDA s : query_list_complaints(s, limit), MaxComplaints),
                     DOMAIN complaints)
    <3>1. Pages(LAMBDA s : query_list_complaints(s, limit), MaxComplaints)
            = PagesOf(DOMAIN complaints, limit, MaxComplaints)
      BY DEF PagesOf, query_list_complaints
    <3> PICK n : n = Len(complaints)
      OBVIOUS
    <3>2. n \in Nat /\ DOMAIN complaints = 1 .. n /\ n <= MaxComplaints /\ MaxComplaints \in Nat
      BY <2>0, PoolAssumption
    <3>3. IsFiniteSet(1 .. n) /\ Cardinality(1 .. n) = n
      <4>1. IsFiniteSet(1 .. n) /\ Cardinality(1 .. n) = IF 1 > n THEN 0 ELSE n - 1 + 1
        <5>1. 1 \in Int /\ n \in Int
          BY <3>2
        <5> QED BY <5>1, FS_Interval
      <4> QED BY <3>2, <4>1
    <3>4. DOMAIN complaints \in SUBSET Int /\ IsLimit(limit)
      BY <3>2 DEF Readers
    <3> QED BY <3>1, <3>2, <3>3, <3>4, KeysShown
  <2>3. ASSUME NEW k \in DOMAIN multisigs
        PROVE  multisig_query_complaint(k).state.kind =
                 IF query_status(k) = "Executed" THEN "Closed" ELSE "Processing"
    <3> PICK id : id = multisigs[k].complaint_id
      OBVIOUS
    <3>1. /\ id \in DOMAIN complaints
          /\ complaints[id].state =
               IF multisigs[k].status = "Executed" THEN State("Closed") ELSE InProcess(k)
      BY <1>1, <2>0 DEF CasesInv, MultisigsOK, MultisigOf, VotesInv, Handled
    <3>2. multisig_query_complaint(k).state.kind = current_kind(complaints[id].state, now)
      BY <2>1, <3>1 DEF multisig_query_complaint, query_complaint_id
    <3> QED BY <3>1, <3>2 DEF current_kind, State, InProcess, query_status
  <2>4. ASSUME NEW id \in DOMAIN complaints,
               query_complaint(id).state.kind \in {"Processing", "Closed"}
        PROVE  id \in {query_complaint_id(k) : k \in DOMAIN multisigs}
    BY <1>1, <2>1, <2>4 DEF HandledInv, query_complaint_id
  <2> QED BY <2>2, <2>3, <2>4 DEF ContractsAgree
<1> QED BY <1>1, QueriesInvariant, PTL

\* A complaint is closed only by the decision of more than half of the arbiters
\* that an executed proposal named for it, each of them counted once, also when
\* an address was named twice (execute_execute of tgrade-ap-voting, the ballots
\* and the tally of the multisig, list_votes).
THEOREM MajorityDecides ==
  ASSUME Readers
  PROVE  Spec => []DecidedByMajority
<1>1. ASSUME IInv, VotesInv, HandledInv PROVE DecidedByMajority
  <2>1. ASSUME NEW limit \in PageLimits, NEW k \in DOMAIN multisigs,
               multisig_query_complaint(k).state.kind = "Closed"
        PROVE  \E p \in DOMAIN proposals :
                 LET pages == Pages(LAMBDA s : list_votes(k, s, limit), Cardinality(Addr))
                     cast == {ballot.voter : ballot \in multisigs[k].ballots}
                     yes == {a \in cast : \E ballot \in query_vote(k, a) : ballot.vote = "Yes"}
                 IN /\ proposals[p].case_id = query_complaint_id(k)
                    /\ proposals[p].status = "Executed"
                    /\ Shows(pages, cast)
                    /\ 2 * Cardinality(yes) > Len(proposals[p].arbiters)
                    /\ Cardinality(yes) <= query_threshold(k).total_weight
    <3> DEFINE cast == {ballot.voter : ballot \in multisigs[k].ballots}
               yes == {a \in cast : \E ballot \in query_vote(k, a) : ballot.vote = "Yes"}
    <3> PICK m, id : m = multisigs[k] /\ id = multisigs[k].complaint_id
      OBVIOUS
    <3>0. Tallied(m) /\ NeedsMajority(m) /\ CasesInv /\ Handled(k) /\ Named(k)
      BY <1>1 DEF VotesInv, IInv
    <3>1. cast = cast_by(m) /\ yes = yes_of(m)
      BY DEF cast_by, yes_of, query_vote
    <3> HIDE DEF cast, yes
    <3>2. m.status = "Executed"
      <4>1. complaints \in Seq(Complaint) /\ id \in DOMAIN complaints
        BY <3>0 DEF CasesInv, ComplaintsOK, MultisigsOK, MultisigOf
      <4>2. complaints[id] \in Complaint
        BY <4>1
      <4>3. current_kind(complaints[id].state, now) = "Closed"
        BY <2>1, <4>2 DEF multisig_query_complaint, query_complaint, query_complaint_id,
                          Complaint, ComplaintState
      <4> QED BY <3>0, <4>3 DEF Handled, InProcess, State, current_kind
    <3>3. PICK p \in DOMAIN proposals : NamedIn(m, p)
      BY <3>0 DEF Named
    <3> PICK n : n = Len(proposals[p].arbiters)
      OBVIOUS
    <3>4. n \in Nat
      BY <3>0 DEF CasesInv, ProposalsOK, Proposal
    <3>5. m.votes["Yes"] >= n \div 2 + 1
      <4>1. m.threshold.weight = n \div 2 + 1
        BY <3>3 DEF NamedIn, AbsoluteCount, pass_weight
      <4>2. m.votes["Yes"] >= m.threshold.weight
        BY <3>0, <3>2 DEF NeedsMajority
      <4> QED BY <4>1, <4>2
    <3>6. m.votes["Yes"] = Cardinality(yes) /\ Cardinality(yes) \in Nat
      BY <3>0, <3>1 DEF Tallied, MultisigOK, Votes, Vote
    <3>7. 2 * Cardinality(yes) > n
      BY <3>4, <3>5, <3>6, MoreThanHalf
    <3>8. Cardinality(yes) <= m.total_weight
      <4>1. m.votes \in Votes /\ m.total_weight \in Nat /\ votes_total(m.votes) <= m.total_weight
        BY <3>0, TalliedWithin
      <4>2. \A vote \in {"Yes", "No", "Abstain", "Veto"} : m.votes[vote] \in Nat
        BY <4>1 DEF Votes, Vote
      <4> QED BY <3>6, <4>1, <4>2 DEF votes_total
    <3>9. Shows(Pages(LAMBDA s : list_votes(k, s, limit), Cardinality(Addr)), cast)
      <4>1. Pages(LAMBDA s : list_votes(k, s, limit), Cardinality(Addr))
              = PagesOf(cast, limit, Cardinality(Addr))
        BY DEF PagesOf, list_votes, cast
      <4>2. cast \in SUBSET (DOMAIN multisigs[k].voters) /\ IsLimit(limit)
        BY <3>0, <3>1 DEF Tallied, Readers
      <4> QED BY <1>1, <4>1, <4>2, VotersShown
    <3>10. proposals[p].case_id = query_complaint_id(k) /\ proposals[p].status = "Executed"
           /\ query_threshold(k).total_weight = m.total_weight
      BY <3>3 DEF NamedIn, query_complaint_id, query_threshold
    <3> QED BY <3>7, <3>8, <3>9, <3>10 DEF cast, yes
  <2> QED BY <2>1 DEF DecidedByMajority
<1> QED BY <1>1, QueriesInvariant, PTL
=============================================================================
