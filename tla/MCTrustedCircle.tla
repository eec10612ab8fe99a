---------------------------- MODULE MCTrustedCircle ----------------------------
(***************************************************************************)
(* Small instances of TrustedCircle for TLC.  The .cfg files choose among  *)
(* the proposal contents, rules and bounds defined here.                   *)
(***************************************************************************)
EXTENDS CircleClaims

CONSTANTS c, a, b, d, treasury

\* d is denied membership, treasury is a contract
AllAddr == {c, a, b, d, treasury}
MCAddr == {c, a, b}
Pair == {c, a}
NoAddr == {}
OnlyB == {b}
OnlyD == {d}
OnlyK == {treasury}

\* Clients ask for more than a page may hold
MCPageLimits == {{9}}

Rules(period, quorum, threshold, early) ==
  [voting_period |-> period, quorum |-> quorum, threshold |-> threshold,
   allow_end_early |-> early]
Circle(escrow, rules) ==
  [escrow_amount |-> escrow, escrow_pending |-> NoPending, rules |-> rules,
   edit_trusted_circle_disabled |-> FALSE]

\* A circle: percentages are in tenths (DECIMAL_ONE = 10), an escrow is 2 tokens
EarlyCircle  == Circle(2, Rules(1, 5, 5, TRUE))
\* the quorum of this one is a tenth: one vote may pass a proposal at its expiry
LateCircle   == Circle(2, Rules(1, 1, 5, TRUE))

\* Proposal contents
VoteIn(voters) == [kind |-> "AddVotingMembers", voters |-> voters]
VoteInBoth == VoteIn(<<a, b>>)
VoteInA == VoteIn(<<a>>)
VoteInB == VoteIn(<<b>>)
\* a batch that also lists the creator, a voter who may have left before it is due
VoteInWithCreator == VoteIn(<<c, a>>)

NoChange ==
  [escrow_amount |-> {}, voting_period |-> {}, quorum |-> {}, threshold |-> {},
   allow_end_early |-> {}, edit_trusted_circle_disabled |-> {}]
Edit(adjustments) == [kind |-> "EditTrustedCircle", adjustments |-> adjustments]
RaiseEscrow  == Edit([NoChange EXCEPT !.escrow_amount = {3}])
LowerEscrow  == Edit([NoChange EXCEPT !.escrow_amount = {1}])
Majority     == Edit([NoChange EXCEPT !.threshold = {8}])
\* the last edit, and one that it makes too late
RaiseAndFreeze   == Edit([NoChange EXCEPT !.escrow_amount = {3},
                                          !.edit_trusted_circle_disabled = {TRUE}])
LowerAndMajority == Edit([NoChange EXCEPT !.escrow_amount = {1}, !.threshold = {8}])

\* c loses half of its escrow, a all of it and its place
SlashBoth ==
  [kind |-> "PunishMembers",
   punishments |-> [x \in Pair |-> [slashing_percentage |-> IF x = a THEN 10 ELSE 5,
                                    recipients |-> 2, kick_out |-> x = a]]]

\* the creator is slashed, and kicked out or not, also as a leaver
SlashCreator(percentage, kick) ==
  [kind |-> "PunishMembers",
   punishments |-> [x \in {c} |-> [slashing_percentage |-> percentage, recipients |-> 0,
                                    kick_out |-> kick]]]

AddRemoveMembers(add, remove) ==
  [kind |-> "AddRemoveNonVotingMembers", add |-> add, remove |-> remove]
Contract(kind, x) == [kind |-> kind, addr |-> x]

\* The contents each run proposes
MembersContents   == {VoteInBoth, VoteInB}
RaiseContents     == {VoteInA, RaiseEscrow}
UpkeepContents    == {VoteInA, RaiseAndFreeze, LowerAndMajority, SlashBoth}
EditContents      == {VoteInBoth, Majority}
WaitContents      == {VoteInWithCreator, LowerEscrow, SlashCreator(10, TRUE), SlashCreator(5, FALSE)}
VotingContents    ==
  {VoteInBoth, VoteIn(<<d>>), VoteIn(<<treasury>>), Majority,
   AddRemoveMembers({b}, {a}), AddRemoveMembers({d}, {}),
   Contract("WhitelistContract", treasury), Contract("RemoveContract", treasury)}
=============================================================================
