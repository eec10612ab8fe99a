------------------------------ MODULE OcProposals ------------------------------
(***************************************************************************)
(* The contract tgrade-oc-proposals: the oversight community votes on      *)
(* granting engagement points, on slashing, jailing and releasing          *)
(* validators and on the configuration of the validator set.  An executed  *)
(* proposal calls the engagement contract or the valset contract in the    *)
(* same transaction: one action, which happens only when every call is     *)
(* accepted.                                                               *)
(***************************************************************************)
EXTENDS GroupVoting

CONSTANTS
  Contents,        \* the contents that members may propose
  Validators,      \* addresses that may become validators
  InitialConfig    \* the part of the valset configuration that proposals edit

VARIABLES
  engagement,      \* the engagement contract: points granted to each address
  operators,       \* the valset: addresses that are validators
  slashes,         \* the valset: the portions slashed, in order, per address
  jail,            \* the valset: "free", "jailed" for a time, or "forever"
  valset_config,   \* the valset: its configuration
  texts            \* text proposals that were executed, by id

valset_vars == <<operators, slashes, jail, valset_config>>
effect_vars == <<engagement, slashes, jail, valset_config, texts>>
vars == <<group_vars, voting_vars, engagement, valset_vars, texts>>

\* An Option<T> is a set of at most one value
IsOption(option, S) == option \subseteq S /\ \A x, y \in option : x = y
Unwrap_unset(option, default) ==   \* mutant: an absent field is unset
  IF option = {} THEN -1 ELSE CHOOSE x \in option : TRUE
Unwrap(option, default) == IF option = {} THEN default ELSE CHOOSE x \in option : TRUE

JailingDuration == {"none", "zero", "duration", "forever"}
ConfigFields == {"min_points", "max_validators", "scaling"}
ValsetConfig == [ConfigFields -> Nat]

\* OversightProposal.  Of UpdateConfig the fields that are validated stand for
\* all of them, and the length of the reward denom for the reward
GrantEngagement == [kind : {"GrantEngagement"}, member : Addr, points : Nat]
Punish == [kind : {"Punish"}, member : Addr, portion : Nat,
           jailing_duration : JailingDuration]
Unjail == [kind : {"Unjail"}, member : Addr]
UpdateConfig == [kind : {"UpdateConfig"}, fields : [ConfigFields -> SUBSET Nat],
                 denom_length : SUBSET Nat]
Text == [kind : {"Text"}]

IsOversightProposal(content) ==
  \/ content \in GrantEngagement
  \/ content \in Punish
  \/ content \in Unjail
  \/ content \in Text
  \/ /\ content \in UpdateConfig
     /\ IsOption(content.denom_length, Nat)
     /\ \A f \in ConfigFields : IsOption(content.fields[f], Nat)

ASSUME OcAssumption ==
  /\ Validators \subseteq Addr
  /\ \A content \in Contents : IsOversightProposal(content)
  /\ InitialConfig \in ValsetConfig
  /\ \A f \in ConfigFields : InitialConfig[f] > 0

\* OversightProposal::validate
validate(content) ==
  CASE content.kind = "GrantEngagement" -> content.points > 0
    [] content.kind = "Punish" ->
         /\ content.portion > 0 /\ content.portion <= DECIMAL_ONE
         /\ content.jailing_duration # "zero"
    [] content.kind = "UpdateConfig" ->
         /\ \A f \in ConfigFields : 0 \notin content.fields[f]
         /\ content.denom_length \subseteq 2 .. 127
    [] OTHER -> TRUE

-----------------------------------------------------------------------------
Init ==
  /\ VotingInit
  /\ engagement = [a \in Addr |-> 0]
  /\ operators = {}
  /\ slashes = [a \in Addr |-> << >>]
  /\ jail = [a \in Addr |-> "free"]
  /\ valset_config = InitialConfig
  /\ texts = {}

Propose(a, content) ==
  /\ validate(content)
  /\ propose(a, content)
  /\ UNCHANGED <<group_vars, engagement, valset_vars, texts>>

Vote(a, id, choice) ==
  /\ vote(a, id, choice)
  /\ UNCHANGED <<group_vars, engagement, valset_vars, texts>>

Close(id) ==
  /\ close(id)
  /\ UNCHANGED <<ballots, group_vars, engagement, valset_vars, texts>>

-----------------------------------------------------------------------------
\* execute_execute, for each kind of proposal: marked, then dispatched

Executable(id, kind) ==
  /\ proposals[id].content.kind = kind
  /\ can_mark_executed(id)
  /\ mark_executed(id)
  /\ UNCHANGED <<ballots, group_vars, operators>>

ExecuteGrantEngagement(id) ==
  LET content == proposals[id].content
  IN /\ Executable(id, "GrantEngagement")
     /\ engagement' = [engagement EXCEPT ![content.member] = @ + content.points]
     /\ UNCHANGED <<slashes, jail, valset_config, texts>>

\* What the valset does with a call.  Only a validator is jailed: for another
\* address the call fails, and the slash before it is undone with it
jailed_as(duration) == IF duration = "forever" THEN "forever" ELSE "jailed"
jail_ignored(content) == TRUE   \* mutant: a refused jailing is ignored
jail_accepted(content) ==
  content.jailing_duration # "none" => content.member \in operators

ExecutePunish(id) ==
  LET content == proposals[id].content
      a == content.member
  IN /\ Executable(id, "Punish")
     /\ jail_accepted(content)
     /\ slashes' = IF content.portion = 0 THEN slashes
                   ELSE [slashes EXCEPT ![a] = Append(@, content.portion)]
     /\ jail' = IF content.jailing_duration = "none" \/ a \notin operators THEN jail
                ELSE [jail EXCEPT ![a] = jailed_as(content.jailing_duration)]
     /\ UNCHANGED <<engagement, valset_config, texts>>

ExecuteUnjail(id) ==
  LET a == proposals[id].content.member
  IN /\ Executable(id, "Unjail")
     /\ a \in operators
     /\ jail' = [jail EXCEPT ![a] = "free"]
     /\ UNCHANGED <<engagement, slashes, valset_config, texts>>

ExecuteUpdateConfig(id) ==
  LET fields == proposals[id].content.fields
  IN /\ Executable(id, "UpdateConfig")
     /\ valset_config' =
          [f \in ConfigFields |-> Unwrap(fields[f], valset_config[f])]
     /\ UNCHANGED <<engagement, slashes, jail, texts>>

ExecuteText(id) ==
  /\ Executable(id, "Text")
  /\ texts' = texts \union {id}
  /\ UNCHANGED <<engagement, slashes, jail, valset_config>>

Execute(id) ==
  \/ ExecuteGrantEngagement(id)
  \/ ExecutePunish(id)
  \/ ExecuteUnjail(id)
  \/ ExecuteUpdateConfig(id)
  \/ ExecuteText(id)

-----------------------------------------------------------------------------
\* The valset: an address becomes a validator, and one jailed for a time
\* releases itself when the time is over

RegisterValidator(a) ==
  /\ operators' = operators \union {a}
  /\ UNCHANGED <<group_vars, voting_vars, effect_vars>>

ReleaseValidator(a) ==
  /\ jail[a] = "jailed"
  /\ jail' = [jail EXCEPT ![a] = "free"]
  /\ UNCHANGED <<group_vars, voting_vars, engagement, operators, slashes,
                 valset_config, texts>>

Next ==
  \/ \E a \in Addr :
       \/ \E content \in Contents : Propose(a, content)
       \/ \E id \in DOMAIN proposals, choice \in CastVotes : Vote(a, id, choice)
       \/ ReleaseValidator(a)
  \/ \E a \in Validators : RegisterValidator(a)
  \/ \E id \in DOMAIN proposals : Execute(id) \/ Close(id)
  \/ \E points \in Groups :
       UpdateGroup(points) /\ UNCHANGED <<engagement, valset_vars, texts>>
  \/ NextBlock /\ UNCHANGED <<engagement, valset_vars, texts>>

Spec == Init /\ [][Next]_vars

-----------------------------------------------------------------------------
\* Types

Proposal ==
  [proposer : Addr, start_height : Nat, expires : Nat, content : Contents,
   status : ProposalStatus, rules : {rules}, total_points : Nat, votes : Votes]
ProposalsOK ==
  /\ DOMAIN proposals = 1 .. Len(proposals)
  /\ \A id \in DOMAIN proposals : proposals[id] \in Proposal

\* The type of the contract's storage and of the contracts it calls
TypeOK ==
  /\ group \in [Addr -> Nat] /\ electorates \in Seq([Addr -> Nat])
  /\ ProposalsOK /\ ballots \subseteq Ballot
  /\ engagement \in [Addr -> Nat] /\ operators \subseteq Addr
  /\ slashes \in [Addr -> Seq(Nat)] /\ jail \in [Addr -> {"free", "jailed", "forever"}]
  /\ valset_config \in ValsetConfig
  /\ texts \subseteq Nat

-----------------------------------------------------------------------------
\* Safety

ExecutedOf(kind, a) ==
  {id \in DOMAIN proposals : /\ proposals[id].status = "Executed"
                              /\ proposals[id].content.kind = kind
                              /\ proposals[id].content.member = a}

\* Every address was granted the points of the executed proposals that name it:
\* each once, however often and by whomever Execute is sent, and nothing for a
\* proposal that is not executed.
GrantsPaidOnce ==
  \A a \in Addr :
    engagement[a] = FoldFunction(+, 0,
      [id \in ExecutedOf("GrantEngagement", a) |-> proposals[id].content.points])

\* A punishment is carried out as a whole or not at all: every executed one
\* slashed its member once, none jailed an address that cannot be jailed, and
\* whoever is in jail was sent there by one, for ever only when it said so.
PunishedInFull ==
  \A a \in Addr :
    /\ Len(slashes[a]) = Cardinality(ExecutedOf("Punish", a))
    /\ \A i \in DOMAIN slashes[a] : slashes[a][i] \in 1 .. DECIMAL_ONE
    /\ jail[a] # "free" =>
         \E id \in ExecutedOf("Punish", a) :
           /\ proposals[id].content.jailing_duration # "none"
           /\ jail[a] = jailed_as(proposals[id].content.jailing_duration)
    /\ a \notin operators =>
         \A id \in ExecutedOf("Punish", a) :
           proposals[id].content.jailing_duration = "none"

BallotsOf(id) == {b \in ballots : b.proposal_id = id}

\* The points that may vote on a proposal: not its total_points, which are those
\* of the moment it was made, when the group changed earlier in that block
VotingPoints(id) ==
  LET p == proposals[id]
      own == (CHOOSE b \in BallotsOf(id) : b.voter = p.proposer).points
  IN own + FoldFunction(+, 0, [a \in Addr \ {p.proposer} |-> power_at(a, p.start_height)])

\* A proposal is executed only with its quorum and the majority of all opinions
\* cast on it, counted at the end: early or not, no later No vote could have
\* changed it, unless more points may vote than it counts.
DecidedByElectorate ==
  \A id \in DOMAIN proposals :
    LET p == proposals[id]
    IN (p.status \in {"Passed", "Executed"} /\ VotingPoints(id) <= p.total_points) =>
         /\ total_votes(p.votes) >= votes_needed(p.total_points, p.rules.quorum)
         /\ p.votes["Yes"] >= votes_needed(total_votes(p.votes) - p.votes["Abstain"],
                                           p.rules.threshold)

-----------------------------------------------------------------------------
\* Action properties

StaysReported ==
  \A id \in DOMAIN proposals :
    LET before == current_status(proposals[id], now)
        after == current_status(proposals'[id], now')
    IN \/ before = after
       \/ before = "Open"
       \/ before = "Passed" /\ after = "Executed"

\* What was reported as decided stays decided: a proposal that passed by its
\* last vote or by its expiry, and is only executed later, cannot be closed or
\* voted down before, and no rejected one passes.
ReportsStay == [][StaysReported]_vars
=============================================================================
