# TLA+ models of the tgrade contracts

This directory verifies the contracts of `contracts/`: TLA+ modules translated
from their Rust source, configurations that check the modules on small
instances with TLC, and theorems proved with TLAPS.  `PROJECT.json` lists the
runs, the definition-to-source map, the mutants that show that each property can fail,
the findings and the hazards; this file explains them.

## The system

Five CosmWasm contracts run on the tgrade chain.  A message to a contract is one
transaction: it is executed completely or, on an error or a panic, not at all.
The difficulty is therefore not in threads but in the order of messages, in what
happens between two blocks, in timeouts that are only noticed when somebody sends
a message, and in state that several handlers keep consistent by hand.

| component | state | operations | interacts with |
|---|---|---|---|
| **tgrade-trusted-circle**, members and escrows | `ESCROWS` (status and paid amount per address), `members()` (points with height snapshots), `TOTAL`, `batches()`, `TRUSTED_CIRCLE` (escrow, pending escrow, rules) | DepositEscrow, ReturnEscrow, LeaveTrustedCircle, CheckPending | bank; executed proposals change it |
| **tgrade-trusted-circle**, proposals | `PROPOSALS`, `PROPOSAL_BY_EXPIRY`, `ballots()` | Propose, Vote, Execute, Close | reads the member snapshot and `TOTAL`; Execute adds, removes, edits, punishes; leavers change open proposals |
| **tgrade-trusted-circle**, rewards | `DISTRIBUTION` and its adjustments | DistributeRewards, WithdrawRewards | bank; every change of points applies a correction |
| **tgrade-ap-voting** (arbiter pool) | complaints, the complaint awaiting a reply, proposals of tg-voting-contract | RegisterComplaint, AcceptComplaint, WithdrawComplaint, Propose/Vote/Execute/Close, RenderDecision, reply | its group is a trusted circle; instantiates a dispute multisig per case, which calls RenderDecision back; bank |
| **tgrade-dispute-multisig** | one vote: tally, status, ballots, voters | Vote, Execute, Close | RenderDecision at its parent |
| **tgrade-oc-proposals** (oversight community) | proposals of tg-voting-contract, two contract addresses | Propose, Vote, Execute, Close | executed proposals call the engagement and valset contracts |
| **tgrade-tc-payments** | config, payments | DistributeRewards, UpdateConfig, EndBlock | members' totals and DistributeRewards of a trusted circle and of the arbiter pool; bank |

External code the contracts use, and the models describe by its effect: the
`SnapshotMap` of cw-storage-plus, the bank, the deny list contract, the chain's
blocks, tg-voting-contract.

What is hard in each, and what makes it correct:

* **Members and escrows.** Eight handlers move an address between six statuses,
  and each must keep `TOTAL`, the points and the batch counters in step; a batch
  completes by its last payment or by time, in any order with a change of the
  required escrow.  Correct: points, total and statuses agree; counters cover
  who still has to pay; the balance backs every escrow; who paid becomes a voter,
  who leaves is refunded.
* **Proposals.** Votes are checked against a snapshot at the start of the proposal's
  block, counted against `TOTAL` read later, and leavers lower that number.  Correct:
  one vote per eligible voter, a fixed electorate, a decision that later votes
  cannot overturn, one execution.
* **Rewards.** A running value of a point and one correction per address stand for
  all past distributions.  Correct: what can be withdrawn is covered, and shared equally.
* **Arbiter pool and multisig.** A complaint's state depends on the clock; a case lives in
  two contracts and returns by a reply and a callback.  Correct: each deposit is paid out once,
  a decision is rendered once by a majority of the arbiters, and one that has passed can be sent.
* **Oversight community.** Its group changes while proposals are open, its messages go to
  contracts that may refuse them, and anybody may execute at any time.  Correct: a proposal takes
  effect once and in full, when its electorate decided so, and what was reported stays.
* **Payments.** End of block runs in every block, the hour and the recorded payments
  decide whether it pays.  Correct: no period without a payout or a
  record, no record twice, no payment beyond the funds.
* **Queries.** Clients page through lists that are kept in different maps, and the pool reads one
  list itself to share an award.  Correct: nothing is skipped or shown twice, and answers agree.
* **Migrations.** They meet complaints, multisigs and proposals under way.  Correct: what runs
  keeps its rules, and its votes.

## Modules

| module | models | state |
|---|---|---|
| `VotingRules` | `Votes` and `Proposal` of state.rs: the tally, the rule that decides | none, operators on a proposal |
| `Distribution` | distribution.rs | none, operators on a distribution record |
| `Membership` | storage of members, escrows, batches; the helpers that several handlers of contract.rs share | none, operators on a store record |
| `TrustedCircle` | the contract: one action per message and per proposal content | the storage, the block, the balance |
| `Paging` | the paged lists of all contracts: bounds, limits, and the reader's loop | none, operators on sets of keys |
| `CircleQueries` | the queries of the trusted circle | that of `TrustedCircle` |
| `MemberLifecycle` | the abstract specification of the circle's members: who may vote, what it paid for it, where the tokens go | standing and escrow of each address, the balance, the fee |
| `CircleUpgrade` | migrate and migrate_proposals of the trusted circle, over a circle of an earlier release | version, proposals and ballots with the form they are stored in |
| `CircleClaims` | statements of the README and of comments that the code does not keep | |
| `MCTrustedCircle` | instances for TLC | |
| `DisputeMultisig` | tgrade-dispute-multisig: the tally, the three thresholds, what each message does | none, operators on the record of one multisig |
| `ArbiterPool` | tgrade-ap-voting with the multisigs it creates, one action per message of either contract, and its migration | config, complaints, proposals, multisigs, the balance, the block |
| `ApQueries` | the queries of both contracts | that of `ArbiterPool` |
| `DisputeCase` | the abstract specification of a complaint: its phases and its deposits | phase of each case, the pool |
| `GroupVoting` | tg_voting_contract and the group with its snapshots, as tgrade-oc-proposals uses them | the group now and at each block, proposals, ballots |
| `OcProposals` | tgrade-oc-proposals with the contracts it calls: one action per message and per kind of proposal | that of `GroupVoting`, engagement points, validators, slashes, jail, the valset's configuration |
| `OcQueries` | its queries | that of `OcProposals` |
| `TcPayments` | tgrade-tc-payments, the end blocker and the migration included | admin, config, payment records, the balance, the members it reads, the block |
| `MCArbiterPool`, `MCOcProposals`, `MCTcPayments`, `MCCircleUpgrade` | instances for TLC | |
| `Collections_proofs` | lemmas on sums over finite functions and on lists read in pages, for all contracts | |
| `TrustedCircle_proofs` | lemmas on the helpers of `Membership`; the inductive invariant of the circle; decisions, frozen rules, admission | |
| `CircleBatches_proofs` | escrows, batches and leavers of the circle | |
| `CircleQueries_proofs` | rewards, lists, electorates and listed votes of the circle | |
| `CircleUpgrade_proofs` | its migration | |
| `ArbiterPool_proofs`, `OcProposals_proofs`, `TcPayments_proofs` | the inductive invariants and the theorems of the other contracts and their queries | |

A handler is written as a composition of operators on a store record, the way the Rust
code calls its helpers, and `Commit` assigns the result in one step.  Error paths are
guards: `can_create_batch`, `can_convert_all`, `can_check_pending`, `CanWithdraw` and
the conjuncts before `Commit` are the code's early returns, failed loads, checked and
panicking arithmetic.  `Propose` includes its call of `check_pending` at the previous
height, `ExecutePunishMembers` its batch and the leaves of kicked members.

A message that makes one contract call another is one transaction of both, so it is one
action of `ArbiterPool`: `Execute` includes the instantiation of the multisig and the
reply that stores it with the complaint, `MultisigExecute` the `RenderDecision` it sends
and the query of the voters.  A complaint's stored state and the state at a block differ,
as in the code: `current_kind` is `Complaint::current_state`, and what is stored changes
only with the next message.  `CaseLifecycle` maps the state at the block to the phases
of `DisputeCase`, where the end of a period is a step of its own.

`MemberLifecycle` is what a circle promises its members: no vote without the fee of the
time, no vote lost but by leaving, a punishment or a raised fee, a refund in full and once,
and no token gone that is neither refunded nor slashed from an escrow.  `MembersLifecycle`
reads standing and escrow off `escrows`, the vault off the balance and the fee off
`circle.escrow_amount`.  Proposals, batches, heights and snapshots are hidden: a payment may
promote others of the payer's batch, but only when the payer completes its own; a proposal or a
CheckPending is the step `Settle`, where batches are done and a changed fee is enforced.

An executed oversight proposal is marked and its messages are sent in one transaction: if the
valset refuses a jailing, the slash before it and the mark are undone, so `ExecutePunish` is
enabled only when all of it is accepted.

A query is an operator on the state between two transactions.  The properties of the queries do
what clients do: they read page after page, until one is empty, and compare what different
queries told them.  Other properties are stated over the same answers, so that a wrong bound or
a stale status in a query shows in them.

Abstractions, all of data:

* Punishments of one proposal name distinct members; the recipients of a distribution
  are a number.  Zero-token sends succeed (see the hazards).
* A batch's members are a set, its counter starts at the length of the list.
* The deny list and the set of contract addresses do not change.
* Time is in seconds, `DAY` of them in a day; TLC runs use 1 (3 in `upkeep`).
* Decimals are integers of `DECIMAL_ONE` units; `u64` subtraction of `total_points`
  wraps at `U64_MODULUS`, as the release build does without overflow checks.
* 128-bit amounts are unbounded; a negative one makes `CanWithdraw` false, since its cast
  to u128 fails the following subtraction.
* Ids of complaints, arbiter proposals and multisigs count from 1 in the order of creation.
* How the group votes on an arbiter proposal is the package tg_voting_contract, outside this
  repository: `DecideProposal` passes or rejects an open one at any time.  For the oversight
  community the same package is modelled by `GroupVoting`, since what it promises is there the
  question.  Payments of a wrong amount fail and are no step.
* Of the valset's configuration the fields with a validation rule stand for all; of a reward's
  denom its length; of a jailing whether it is for a time or for ever.  Validators register,
  and one jailed for a time releases itself when it likes.
* Of a proposal of an earlier release only the form of its names is kept, its total and its Yes votes.
* An optional argument is a set of at most one value.  Addresses are numbers where pages are
  read, as the order of the keys matters there.
* The calendar of tc-payments is `StartDays`, the days that begin a payment period, at
  least `period` apart (`Period::seconds`, 28 days for a month, 365 for a year).  The
  members of the two contracts it reads, and their DistributeRewards, are external.
* `members()` is modelled with its changelog, since the property at stake
  (who may vote on what) depends on writes at past heights.

## Runs

The runs of the trusted circle instantiate `MCTrustedCircle` with a creator `c` and one to
four more addresses.  Deadlock is not checked: time ends at its bound, and a circle whose
last voter left really has nothing more to do (contract.rs has a FIXME on it, issue 521).

| run | question | bounds that matter |
|---|---|---|
| `voting` | do statuses, points and snapshots agree, is a decision final and explained by the listed votes, who waits for a promotion, do the denied and contracts stay out | 5 addresses, one denied and one a contract; 2 proposals of 8 contents, 3 blocks, Yes and No, early end: a batch of two completes by payment or by time |
| `upkeep` | and while the escrow is raised and lowered, rules are frozen, members are slashed and kicked out, and rewards are withdrawn between; does every step keep what `MemberLifecycle` promises | 2 addresses, 2 proposals of 4 contents (a member is voted in, the escrow raised with editing disabled, the escrow lowered with another majority, both members slashed), escrows and payments up to 3, a slash shared by two with a remainder, 3 tokens over 1 or 2 voters; days of 3 seconds tell days from seconds; pages of one entry |
| `leaving` | are leavers refunded and payers promoted | 2 addresses, 2 proposals of 4 contents: a batch that also lists the creator, who may leave, claim and be gone before it is due, a lowered escrow, and two slashes of the creator, one that kicks it out; escrows are paid whole or in part, so that a lowered escrow finds who has paid enough; blocks, CheckPending and claims are fair |
| `disputes` | is each deposit paid out once, by one multisig and a majority of the named arbiters, and is a decision sure; do the two contracts agree, also over a migration | 2 complaints, 2 proposals, 3 arbiters, one named twice, or none, votes Yes and No, 2 blocks, periods of 2 and 1; pages of one entry; `DecisionIsSure` judges every reachable tally under every valid threshold in quarters |
| `oversight` | does each proposal take effect once, in full, and as its electorate decided | 2 members whose points change between two distributions, one that may become a validator, 6 contents (jailing for a time only), 2 proposals, votes against the proposer's Yes, 3 blocks; pages of one entry |
| `payments` | is every period settled, and by how much | days of 4 ticks, periods 2 and 3 days apart, 1 or 2 ticks between blocks, 0 or 1 member in each contract, two ratios and a migration that changes them |
| `upgrade` | does a circle of an earlier release keep its proposals and votes | 3 voters, 2 proposals, releases before the one that is not migrated and after it (see below) |
| `claim_*` | statements the code does not keep | see Findings |

Bounds: `MaxHeight` (blocks), `MaxProposals`, `MaxPaid` (escrow of one address),
`MaxRewards`; `MaxComplaints`, `MaxProposals` and `MaxTime` of `ArbiterPool`; `MaxTime` and
`MaxFunds` of `TcPayments`; `MaxHeight` and `MaxProposals` of `OcProposals`; `MaxProposals` of
`CircleUpgrade`.  Three blocks are enough for a change before, in and after the
block of a proposal, and for grace periods of one day to end.  Contents of proposals are
chosen per run, since each executed content is its own mechanism.  Two complaints share the
pool's balance, so a payment beyond the deposits of one shows in the other.  A page of one
entry, and limits beyond the maximum, make every list longer than its page.

Some properties hold only without a mechanism that breaks them, and the choice of contents
shows which.  `PassedIsDecided` passes in `voting`, where nobody leaves who was not eligible,
and fails in `claim_early_pass`.  `PaidAwaitPromotion` is checked in `voting`, with no edit of
the escrow: a lowered one makes members paid whose batch is done (contract.rs:877).
`VotersHoldEscrow` is checked in `upkeep`, where every batch has one member and is promoted
with its payment; a batch of more that has paid and waits for others is promoted at the old
escrow after a raised one was enforced (contract.rs:782).  `ElectorateFrozen` names its
exception, `UpkeepFirst`: a Propose that changes a member for the second time in a block.
`PaidIsPromoted` names its two exceptions, and both occur in `leaving`: while a due batch lists
somebody who is gone, CheckPending promotes nobody (`claim_check_pending`), and who is made paid
under a batch that was promoted before waits on (see the end of Findings).  `LeaverRefunded`
ends, but for the refund, with a punishment that takes all, sets a new time or demotes.
`DecidedByElectorate` is asked only of proposals whose electorate, fixed at the start of the
block, has no more points than the total that was read when they were made; where the group
lost points in between, a vote can pass too early as in `claim_early_pass`.
`TallySurvives` is checked without release 0.6.0-beta1: migrate_proposals rewrites only what is
older, and that release stored the old form too, as its own comment says.

Fairness (`FairSpec`): blocks follow each other, somebody calls CheckPending (the
README's remedy for batches that wait), and a leaver claims what it may claim.  Nothing
else has to happen.  The fairness is weak: it promises a step only while the step stays
possible.  Nobody can prevent the next block.  A punishment can take a claim away, for a time
or for good, and a listed member that is gone makes CheckPending fail, for ever
(`claim_check_pending`); nothing is promised of it then, and that is why `LeaverRefunded` and
`PaidIsPromoted` have their exceptions.  The pool, the oversight community and the payments are
checked for safety only: all that has to happen there by itself is the end blocker, which
`TcPayments` runs in every block.

Each property of each passing run has a mutant, an operator of the modules marked
"mutant" that stands for a plausible bug: with it in place of the translated operator
TLC finds the property violated.

## Findings

Each is a run whose property TLC refutes; the quotes are in `PROJECT.json`.

* `claim_check_pending`: a listed member that left makes CheckPending and Propose fail for ever.
* `claim_rewards`: promoted members owe twice the past rewards, their correction is applied twice.
* `claim_early_pass`: leavers who were not eligible lower a proposal's total until it passes too early.
* `claim_paid_once`: a payout to members is not recorded, so funds that arrive later in the
  payment hour are paid out at once, in the same period.
* `claim_late_pass`: what passes by its expiry is reported as passed, but its stored status is
  Open until a vote; Execute refuses it and Close rejects it.  The oversight contract does the
  same steps with the package's functions and `ReportsStay` holds there.

Seen while modelling, without a run of their own: a circle of 0.6.0-beta1 keeps proposals in the
old form after its migration (migration.rs:50); list_votes_by_voter lists the oldest proposal
first (contract.rs:1636), its message's doc says the most recent; WithdrawableRewards
answers a promoted member with the cast of a negative number (distribution.rs:225); an Unjail that
passed before a later punishment may be executed after it; of two proposals that expire in one
second only one is adjusted for a leaver; a voter promoted in a proposal's block counts for it
and may not vote; a batch with a listed voter never completes by payment; with one token for
both, escrows are distributed as rewards.

Another was met by TLC, in the bounds of `leaving`, when `PaidIsPromoted` was asked without its
exception for promoted batches.  `a` is voted in and pays part of the escrow, the grace period of
its batch ends, and CheckPending promotes the batch without `a`.  A lowered escrow then makes `a`
paid under that batch (contract.rs:877): check_pending_batches passes over it, and a further payment
only adds to the escrow, so neither makes `a` a voter.  The comment at contract.rs:875 says "So
this member is still promoted with its batch".

One more was met by a proof.  A voter `a` is voted in; a lower escrow and a slash of `a` are
proposed in one block, on both of which it votes, and the lower escrow is executed.  In the
next block, `h`, the slash is executed, which takes the point of `a` from `h` on, and a
proposal is made: its check_pending runs at `h - 1`, finds `a` above the lowered escrow,
makes it a voter and records at `h - 1` that it had no point.  That record comes first, so
every proposal that started at `h - 1` has lost `a` from its electorate, and the votes of
`a` are listed without the point they counted with.  The README of the contract says "Proposals
work using a snapshot of the voting members *at the time of creation*", and the comment at
contract.rs:397 that the height is chosen for that reason.

## Proofs

TLAPS checks every proof; the theorems hold for all values of the constants that meet the
assumptions of the modules (`ScaleAssumption`, `RulesAssumption`, `AddrAssumption`,
`CircleAssumption`, `UpgradeAssumption`; `MultisigAssumption`, `PoolAssumption`; `GroupAssumption`, `OcAssumption`;
`PaymentsAssumption`, `CalendarAssumption`).  They ask for what the contracts validate or the chain gives:
positive scales, well-typed rules, circles and proposal contents, and the call once an hour
that the comment of `should_apply` demands.

A theorem that needs more says so, and the README says what happens without it:

* `denom # reward_denom` (`EscrowsBacked`, `MembersLive`, `RewardsCovered`): with one token for both, escrows are
  distributed as rewards, the hazard at distribution.rs:82.
* `PeriodGrows` (`LeaversHeld`): the claim is two of the periods at the time of leaving, so a
  shorter period releases an escrow before votes that were opened under the longer one end.
* `NeverRaised` (`VotersHold`) and `NeverLowered` (`PaidAwait`): see the end of Runs.
* `PRECISION_FACTOR > 1` (`SureDecisions`): with a factor of 1 the needed votes are not rounded up,
  and a multisig at exactly its threshold could be both passed and rejected.  It is 10^9.
* `Readers` (all theorems on pages): addresses are numbers, since pages follow the order of the
  keys, and nobody asks for pages of no entries, which never end a list.
* `Few` (`DecisionsRest`, `DecisionsHold`): there are fewer addresses than a u64 counts, the type
  of the total that leavers are subtracted from.
* `VotesWithinTotal` (`DecisionsHold`): no leaver without a vote takes a proposal's total below
  the votes it gets; `claim_early_pass` shows what happens else.
* `UpkeepFirst` (`VotesShown`): see the end of Findings.
* `Small` (`DecidedWell`): a group's points add up to less than 2^64, the type of its total.
* `AllMigrated` (`TalliesKept`): every release that stored the old form is older than the version
  that migrate_proposals asks for.  Not so for 0.6.0-beta1, see the end of Runs.

**Sums and pages** (`Collections_proofs`).  Induction cannot be cited for an operator, but it can
for a set: a set of numbers, or of subsets of a finite set, that contains whatever follows from
its smaller members contains all (`NumberInduction`, `SubsetInduction`).  Folds and recursive
functions are CHOSEN as the function that satisfies their equation, so each is first shown to
exist (`SumsExist`, `PagesExist`) and then computes what the equation says.  From `SumTake`
(any element may be taken out first) follow the rules the contracts need: a sum changes with
one value, is split, bounded, or counts (`SumOne`, `SumAdd`, `SumWithin`, `SumCounts`).
`PagesShow`: the pages of a reader hold the first keys beyond the last one seen, so they follow
one another and share none; a key that no page shows would give every page a last key further
on, and there are more pages than keys.

**Trusted circle** (`TrustedCircle_proofs`).  `MembersCounted`: in every reachable state the
points of an address follow from its status and `TOTAL` is the number of voters.  The
property is not inductive alone.  ReturnEscrow removes whoever gets back all it paid; if the
required escrow could be zero, a voter would be removed that way and stay in `TOTAL`.
`IInv` therefore adds that the escrow, and the one every stored edit or pending change asks
for, is positive (`CircleOK`, `PositiveEdit`), the types of the store, and that points and
statuses agree address by address.
The first lemmas show what each shared helper does to statuses, points and `TOTAL`;
the others compose them along the handlers, one lemma per message,
one per proposal content, with CheckPending proved once and used by Propose.

On top of `IInv`: `Decisions`, a proposal goes Open, Passed, Executed
or Open, Rejected and keeps its content, rules and end.  Each message is shown to make every
proposal advance or stay (`Advances`); leavers lower the totals of open proposals only.
`RulesFrozen`: only an edit changes the rules and it is refused once editing is disabled, while
enforcing a pending escrow changes nothing but the escrow (`EnforcedRules`).

`DecisionsRest`: what has passed has its quorum and its threshold still, whatever was voted since and
whoever left, unless its total fell below the votes it got.  A proposal only becomes Passed when
its votes pass: before its end if the Yes votes reach the threshold of all points that do not
abstain, which later votes leave so (`Sure`), and at its end, when no vote is accepted, if they
reach it among the votes cast.  Totals of passed proposals stay.  `DecisionsHold` is what follows
for a circle where totals cover the votes: nothing that passed can be undone.

`Admission`: no denied address gets in and no contract gets a vote,
the creator aside.  Most messages change statuses of members only (`NoEntry`), which includes
promotions and demotions by check_pending and punishments.  For the others the proof shows a
difference in the code: the deny list is asked again when a proposal is executed, but whether
the ones voted in are humans only when it is proposed.  So the invariant `AInv` adds that the
stored proposals name humans (`HumanVoters`), and keeping it needs that contents never change,
which `Decisions` gives.

**Escrows and batches** (`CircleBatches_proofs`).  The helpers of `Membership` are described by what
they make of escrows and batches, and handlers are followed along them.  `BatchesWait`: a
counter may only fall with a member that no longer has to pay, and every pending member is
listed by the batch its escrow names; the second part makes the first inductive.  `BatchIds`: an
id is that of an executed proposal, and a pending change of the escrow names one that has no
batch yet.  `EscrowsBacked`: deposits and refunds move the balance and one escrow by the same
amount (`SumOne`), a punishment slashes what it sends away, remainders included.
`MembersLive`: every message is one step of `MemberLifecycle` or none.  A
payment that promotes others has made the payer's own escrow complete, because the payer is listed by
the batch its escrow names (the invariant of `BatchesWait`); check_pending is followed in two
stages, the fee on both sides of it (`EscrowEnforced`) and then the batches
(`CheckedEnforced`); a punishment leaves a vote only with the larger of the two fees.  Of the runs, `upkeep` checks it;
`EscrowBacked` follows from it and is proved on its own.  `LeaversHeld`
adds that every open proposal ends within a period from now.  `VotersHold` extends the claim to
whoever is pending paid, from whom voters come.  `PaidAwait` adds that a promoted batch had
reason to be: nobody left to pay, or its grace period over.

**Rewards, lists and electorates** (`CircleQueries_proofs`).  `RewardsCovered`: the withdrawable amount of an
address is what it earned less what it withdrew.  Its proof sums, over all addresses, the
larger of the two (a member that lost votes may have withdrawn more than it has earned by now),
and shows that the sum stays within what was distributed: a distribution adds at most its share
for each voter, a withdrawal lifts what was withdrawn to what was earned, and corrections on
gained and lost votes leave what was earned alone.  A promotion corrects twice
(`claim_rewards`), which lowers it.  `ListsShown`: members are listed from the points, escrows
from the escrows; they agree because whoever has no status has no escrow (`NothingHeld`).

`ElectorateStaysFixed`: a snapshot at a height is what the first record from that height on says the
points were, and every change records what it changed (`Logged`), so a record of the block
that is running leaves all older snapshots alone (`SnapshotKept`).  That records are never of a
future block and proposals never start in one is `RecordsPast` and `StartsPast`.  The exception
is Propose, which writes at the height before.  It must not change who counts
for an earlier proposal of its block, whose check has done all that was due; `Upkept` says that
since then no edit has fallen due, as voting periods are positive, and that a batch which is
due has only members that this block has a record of or that nothing promotes (`AtRest`).
What is left to change then is of members changed in this block, the exception.
`VotesShown` adds `BallotsCounted`, the tally is the number of voters for each option, and
`VotersHadPoint`, each of them but the proposer has a point in the snapshot, which the former theorem
keeps there; what clients read is then the paging theorem again.

**Migration of a circle** (`CircleUpgrade_proofs`).  Ballots keep their form, and one of
either form forbids its voter another.  The invariant says that everything is stored in the form of the
running code and counts a proposal's Yes votes twice: as ballots and as addresses that voted.
The first is the property's equation; the second bounds it by the voters, which are the total.

**Arbiter pool** (`ArbiterPool_proofs`).  `OneMultisig` and `Lifecycle`: a complaint gets one
multisig, and the pool with its multisigs implements `DisputeCase`.  `OneMultisigPerCase` is
not inductive: nothing in it keeps a decided complaint from being accepted again.
`MultisigOf` adds that a complaint with a multisig is Processing, with that multisig,
or Closed.  Each message is shown to keep the invariant and to be one step of `DisputeCase`
or none; for a decision this needs that equal whole shares of two deposits do not exceed
them (`SharesWithin`), for the end of a block that every complaint stays or moves to the
phase that follows the end of its period.

`PoolBacked` follows the steps of `DisputeCase`: only they change the balance, and each moves it
by what the case held.  For the rest the invariant grows by `VotesInv`: each arbiter's ballot is
counted once with the weight of the list of voters, weights add up to the total, and what a
multisig handles is a complaint that names it.  `DecisionsRender` and `MajorityDecides` read
the decision off these counts, the latter through the pages a client would read;
`SureDecisions` is arithmetic of rounded products, which are monotone (`QuotientOrder`);
`AwardsReach` and `ContractsTellTheSame` are the paging theorem applied to the query that
RenderDecision makes itself, and to the complaints.  `Migration` compares every report before
and after.

**Oversight community** (`OcProposals_proofs`).  `Reports`: what was reported as passed or rejected
stays so, however often the status is left to time.  It needs that a vote which passes early is
stored as passed at once (`EarlyStored`), so that the expiry changes nothing but what was
reported as Open.  `Punished`: every
executed punishment slashed its member once, and jailed only whom the valset accepts.  Its
invariant counts the slashes of an address by `ExecutedOf`, the executed proposals that name it;
an execution adds one proposal to that set and one slash to that list.  `GrantsPaid` is the same
argument for a sum: an executed grant adds one summand (`SumMore`).

`DecidedWell` and `TalliesRead` rest on `TallyOK`: a proposal's tally is the sum of its ballots,
of which every voter has one, with the points of the start of the block, except for the
proposer's.  So no more votes are cast than the electorate holds (`TallyBounded`), and if that is
no more than the recorded total, what passed is `Sure`: it has its quorum, and enough Yes votes
of all points that did not abstain, or at the end of those cast.  More votes keep it sure
(`SureVoted`), time does (`SureLater`), and a status only becomes Passed when the votes pass
(`PassIsSure`, where the subtraction of abstentions cannot wrap).

**Payments** (`TcPayments_proofs`).  `Spaced`, `Settles` and `Typed`.  `RecordsOK` says that records
lie in the first hour of a period and that one of them is the last, which is what
`Payments::last` reads.  A period cannot end without a block in its first hour; if that block
found an earlier payment recent enough to do nothing, the payment was of the same period,
since a record of an earlier one is at least a period less an hour old
(`RecentIsThisPeriod`).  `Typed`: the balance, what is paid and the ratio stay in their ranges,
because a share of at most one that is cut down is at most the whole (`ShareBound`, `KeptBound`);
`valid_ratio` at instantiation and at migration is what that needs.  `LittleLeft` bounds what four
roundings down leave; `RecordsListed` is the paging theorem for the records, and relates the last
one shown to what `already_paid` reads.

Only model-checked: liveness (`LeaverRefunded`, `PaidIsPromoted`), which the provers cannot do, and
the claims of Findings, which fail.

## Plan

1. *(done)* `VotingRules`, `Distribution`, `Membership`, `TrustedCircle`; points, total
   and statuses proved.
2. *(done)* `DisputeMultisig`, `ArbiterPool`, `DisputeCase`; one multisig per case and the
   refinement proved.
3. *(done)* `TcPayments`; spacing and completeness of the records proved.
4. *(done)* `GroupVoting` and `OcProposals`; reports and punishments proved.
5. *(done)* Queries (`Paging`, `CircleQueries`, `ApQueries`, `OcQueries`) and migrations
   (`CircleUpgrade`, `Migrate` of `ArbiterPool` and `TcPayments`).
6. *(done)* `MemberLifecycle`, implemented by `TrustedCircle`, with its escrows in one vault; the
   refinement proved.
7. *(done)* Decisions, frozen rules and admission proved; escrows, batches and rewards; sums and
   pages; deposits, decisions and awards of the pool; tallies, grants and queries of the
   oversight community; electorates and listed votes of the circle.
8. Edits of the voting period for `LeaverHeldToVotes`; a bank that refuses empty sends; a
   multisig alone, with weights and a quorum.

## Not modelled

Events, wire formats, error texts, and names and titles: no step depends on them.  The
privileges that sudo messages ask of the chain: an answer without state.  The test suites, which
were read for what the contracts promise.  The contracts and packages behind the
messages (bank, deny list, group, engagement, valset, tg_voting_contract) appear by their
effect only and are marked external in the map.
