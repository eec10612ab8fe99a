--------------------------- MODULE OcProposals_proofs ---------------------------
(***************************************************************************)
(* What tgrade-oc-proposals keeps for any group, rules, contents and       *)
(* length of blocks: a decision that was reported stays and rests on the   *)
(* quorum and the majority of its electorate, punishments are carried out  *)
(* as a whole, grants are paid once, and the queries show the votes that   *)
(* were counted.                                                           *)
(***************************************************************************)
EXTENDS OcQueries, Collections_proofs

-----------------------------------------------------------------------------
\* One proposal

\* What the proofs need of a record: its fields, and that validate accepted it
Recorded(p) ==
  /\ {"status", "votes", "expires", "content", "total_points", "rules"} \subseteq DOMAIN p
  /\ p.expires \in Nat /\ p.status \in ProposalStatus
  /\ p.content \in Contents /\ validate(p.content)

\* An early pass is stored as soon as it happens
EarlyStored(p, t) == p.status = "Open" /\ t < p.expires => ~is_passed(p, t)

\* The status that is reported at a time.
LEMMA StatusAt ==
  ASSUME NEW p, NEW t \in Nat, p.expires \in Nat, p.status \in ProposalStatus
  PROVE  /\ current_status(p, t) \in ProposalStatus
         /\ p.status # "Open" => current_status(p, t) = p.status
         /\ p.status = "Open" /\ is_passed(p, t) => current_status(p, t) = "Passed"
         /\ p.status = "Open" /\ ~is_passed(p, t) =>
              current_status(p, t) = IF t >= p.expires THEN "Rejected" ELSE "Open"
BY DEF current_status, ProposalStatus

\* Until it expires, and from then on, the same votes pass a proposal.
LEMMA PassesAlike ==
  ASSUME NEW p, NEW s \in Nat, NEW t \in Nat, p.expires \in Nat,
         s >= p.expires <=> t >= p.expires
  PROVE  is_passed(p, s) <=> is_passed(p, t)
BY DEF is_passed

\* Setting the status changes nothing else, nor whether the votes pass.
LEMMA SetStatus ==
  ASSUME NEW p, Recorded(p), NEW status \in ProposalStatus, NEW t \in Nat
  PROVE  LET q == [p EXCEPT !.status = status]
         IN /\ Recorded(q) /\ q.status = status
            /\ q.content = p.content /\ q.expires = p.expires
            /\ is_passed(q, t) <=> is_passed(p, t)
<1> DEFINE q == [p EXCEPT !.status = status]
<1>1. /\ DOMAIN q = DOMAIN p /\ q.status = status
      /\ q.content = p.content /\ q.expires = p.expires /\ q.votes = p.votes
      /\ q.total_points = p.total_points /\ q.rules = p.rules
  BY DEF Recorded
<1> HIDE DEF q
<1>2. Recorded(q)
  BY <1>1 DEF Recorded
<1>3. is_passed(q, t) <=> is_passed(p, t)
  BY <1>1 DEF is_passed
<1> QED BY <1>1, <1>2, <1>3 DEF q

\* What update_status stores is what is reported, an early pass included.
LEMMA Updated ==
  ASSUME NEW p, Recorded(p), NEW t \in Nat
  PROVE  LET q == update_status(p, t)
         IN /\ Recorded(q) /\ EarlyStored(q, t)
            /\ q.content = p.content /\ q.expires = p.expires
            /\ q.status = current_status(p, t)
<1>1. current_status(p, t) \in ProposalStatus
  BY StatusAt DEF Recorded
<1>2. /\ Recorded(update_status(p, t))
      /\ update_status(p, t).status = current_status(p, t)
      /\ update_status(p, t).content = p.content
      /\ update_status(p, t).expires = p.expires
      /\ is_passed(update_status(p, t), t) <=> is_passed(p, t)
  BY <1>1, SetStatus DEF update_status
<1>3. EarlyStored(update_status(p, t), t)
  BY <1>2, StatusAt DEF EarlyStored, Recorded
<1> QED BY <1>2, <1>3

-----------------------------------------------------------------------------
\* The inductive invariant

VotingOK ==
  /\ electorates \in Seq([Addr -> Nat]) /\ group \in [Addr -> Nat]
  /\ \E P : proposals \in Seq(P)
  /\ \A id \in DOMAIN proposals :
       Recorded(proposals[id]) /\ EarlyStored(proposals[id], now)

ValsetOK ==
  /\ operators \subseteq Addr
  /\ slashes \in [Addr -> Seq(Int)]
  /\ jail \in [Addr -> {"free", "jailed", "forever"}]

IInv == VotingOK /\ ValsetOK /\ PunishedInFull

\* What a step may do to the proposals: keep the contents, and execute those of X
Executes(X) ==
  /\ DOMAIN proposals \subseteq DOMAIN proposals'
  /\ \A id \in DOMAIN proposals : proposals'[id].content = proposals[id].content
  /\ \A id \in DOMAIN proposals' :
       proposals'[id].status = "Executed" <=>
         id \in X \/ (id \in DOMAIN proposals /\ proposals[id].status = "Executed")

LEMMA Time == VotingOK => now \in Nat /\ BLOCK_SECONDS \in Nat \ {0}
<1> SUFFICES ASSUME VotingOK PROVE now \in Nat /\ BLOCK_SECONDS \in Nat \ {0}
  OBVIOUS
<1>1. BLOCK_SECONDS \in Nat \ {0} /\ Len(electorates) \in Nat
  BY GroupAssumption DEF VotingOK
<1> QED BY <1>1 DEF now, height

-----------------------------------------------------------------------------
\* What the messages do to the proposals

\* A proposal that is replaced: the others stay, and so does what they report.
LEMMA Replaced ==
  ASSUME VotingOK, NEW id \in DOMAIN proposals, NEW q, Recorded(q), EarlyStored(q, now),
         q.content = proposals[id].content,
         proposals' = [proposals EXCEPT ![id] = q], UNCHANGED <<electorates, group>>
  PROVE  /\ VotingOK' /\ now' = now /\ DOMAIN proposals' = DOMAIN proposals
         /\ proposals'[id] = q
         /\ \A other \in DOMAIN proposals : other # id => proposals'[other] = proposals[other]
<1>1. PICK P : proposals \in Seq(P)
  BY DEF VotingOK
<1>2. proposals \in Seq(P \union {q}) /\ proposals' \in Seq(P \union {q})
  BY <1>1
<1>3. /\ DOMAIN proposals' = DOMAIN proposals /\ proposals'[id] = q
      /\ \A other \in DOMAIN proposals : other # id => proposals'[other] = proposals[other]
  BY <1>1
<1>4. now' = now
  BY DEF now, height
<1>5. \A other \in DOMAIN proposals' :
        Recorded(proposals'[other]) /\ EarlyStored(proposals'[other], now')
  BY <1>3, <1>4 DEF VotingOK
<1>6. VotingOK'
  BY <1>2, <1>5 DEF VotingOK, Recorded, EarlyStored
<1> QED BY <1>3, <1>4, <1>6

LEMMA ProposeKeeps ==
  ASSUME VotingOK, NEW a \in Addr, NEW content \in Contents, validate(content),
         propose(a, content), UNCHANGED <<electorates, group>>
  PROVE  VotingOK' /\ StaysReported /\ Executes({})
<1> PICK id, prop :
      /\ id = Len(proposals) + 1
      /\ prop = [proposer |-> a, start_height |-> height,
                 expires |-> now + rules.voting_period * DAY, content |-> content,
                 status |-> "Open", rules |-> rules, total_points |-> total_points,
                 votes |-> add_vote(NoVotes, "Yes", group[a])]
  OBVIOUS
<1> PICK q : q = update_status(prop, now)
  OBVIOUS
<1>1. proposals' = Append(proposals, q)
  BY DEF propose
<1>2. now \in Nat /\ now' = now
  BY Time DEF now, height
<1>3. now + rules.voting_period * DAY \in Nat
  <2>1. rules.voting_period \in Nat /\ DAY \in Nat
    BY GroupAssumption DEF VotingRulesType
  <2>2. rules.voting_period * DAY \in Nat
    BY <2>1
  <2> QED BY <1>2, <2>2
<1>4. Recorded(prop) /\ prop.status = "Open"
  BY <1>3 DEF Recorded, ProposalStatus
<1>5. /\ Recorded(q) /\ EarlyStored(q, now) /\ q.status # "Executed"
  <2>1. q.status = current_status(prop, now) /\ Recorded(q) /\ EarlyStored(q, now)
    BY <1>2, <1>4, Updated
  <2> QED BY <1>2, <1>4, <2>1, StatusAt DEF Recorded
<1>6. PICK P : proposals \in Seq(P)
  BY DEF VotingOK
<1>7. /\ proposals' \in Seq(P \union {q})
      /\ DOMAIN proposals' = DOMAIN proposals \union {id} /\ id \notin DOMAIN proposals
      /\ proposals'[id] = q
      /\ \A other \in DOMAIN proposals : proposals'[other] = proposals[other]
  <2>1. proposals \in Seq(P \union {q})
    BY <1>6
  <2> QED BY <1>1, <2>1
<1>8. \A other \in DOMAIN proposals' :
        Recorded(proposals'[other]) /\ EarlyStored(proposals'[other], now')
  BY <1>2, <1>5, <1>7 DEF VotingOK
<1>9. VotingOK'
  BY <1>7, <1>8 DEF VotingOK, Recorded, EarlyStored
<1>10. StaysReported
  BY <1>2, <1>7 DEF StaysReported
<1>11. Executes({})
  BY <1>5, <1>7 DEF Executes
<1> QED BY <1>9, <1>10, <1>11

LEMMA VoteKeeps ==
  ASSUME VotingOK, NEW a \in Addr, NEW id \in DOMAIN proposals, NEW choice \in CastVotes,
         vote(a, id, choice), UNCHANGED <<electorates, group>>
  PROVE  VotingOK' /\ StaysReported /\ Executes({})
<1> PICK p : p = proposals[id]
  OBVIOUS
<1> PICK r : r = [p EXCEPT !.votes = add_vote(p.votes, choice, voting_power(a, p))]
  OBVIOUS
<1> PICK q : q = update_status(r, now)
  OBVIOUS
<1>1. /\ proposals' = [proposals EXCEPT ![id] = q]
      /\ p.status \in {"Open", "Passed", "Rejected"} /\ now < p.expires
  BY DEF vote
<1>2. Recorded(p) /\ EarlyStored(p, now) /\ now \in Nat
  BY Time DEF VotingOK
<1>3. Recorded(r) /\ r.status = p.status /\ r.content = p.content /\ r.expires = p.expires
  <2>1. /\ DOMAIN r = DOMAIN p /\ r.status = p.status
        /\ r.content = p.content /\ r.expires = p.expires
    BY <1>2 DEF Recorded
  <2> QED BY <1>2, <2>1 DEF Recorded
<1>4. /\ Recorded(q) /\ EarlyStored(q, now) /\ q.content = p.content
      /\ q.status = current_status(r, now)
  BY <1>2, <1>3, Updated
<1>5. /\ VotingOK' /\ now' = now /\ DOMAIN proposals' = DOMAIN proposals
      /\ proposals'[id] = q
      /\ \A other \in DOMAIN proposals : other # id => proposals'[other] = proposals[other]
  BY <1>1, <1>4, Replaced
<1>6. p.status = "Open" => current_status(p, now) = "Open"
  BY <1>1, <1>2, StatusAt DEF Recorded, EarlyStored
<1>7. p.status # "Open" => q.status = p.status /\ current_status(p, now) = p.status
  BY <1>2, <1>3, <1>4, StatusAt DEF Recorded
<1>8. q.status # "Open" => current_status(q, now) = q.status
  BY <1>2, <1>4, StatusAt DEF Recorded
<1>9. StaysReported
  BY <1>5, <1>6, <1>7, <1>8 DEF StaysReported
<1>10. q.status # "Executed"
  BY <1>1, <1>2, <1>3, <1>4, StatusAt DEF Recorded
<1>11. Executes({})
  BY <1>1, <1>4, <1>5, <1>10 DEF Executes
<1> QED BY <1>5, <1>9, <1>11

LEMMA CloseKeeps ==
  ASSUME VotingOK, NEW id \in DOMAIN proposals, close(id), UNCHANGED <<electorates, group>>
  PROVE  VotingOK' /\ StaysReported /\ Executes({})
<1> PICK p : p = proposals[id]
  OBVIOUS
<1> PICK q : q = [p EXCEPT !.status = "Rejected"]
  OBVIOUS
<1>1. /\ proposals' = [proposals EXCEPT ![id] = q]
      /\ p.status = "Open" /\ current_status(p, now) # "Passed" /\ now >= p.expires
  BY DEF close, can_close
<1>2. Recorded(p) /\ now \in Nat
  BY Time DEF VotingOK
<1>3. Recorded(q) /\ q.status = "Rejected" /\ q.content = p.content /\ EarlyStored(q, now)
  BY <1>2, SetStatus DEF ProposalStatus, EarlyStored
<1>4. /\ VotingOK' /\ now' = now /\ DOMAIN proposals' = DOMAIN proposals
      /\ proposals'[id] = q
      /\ \A other \in DOMAIN proposals : other # id => proposals'[other] = proposals[other]
  BY <1>1, <1>3, Replaced
<1>5. current_status(p, now) = "Rejected" /\ current_status(q, now) = "Rejected"
  BY <1>1, <1>2, <1>3, StatusAt DEF Recorded
<1>6. StaysReported
  BY <1>4, <1>5 DEF StaysReported
<1>7. Executes({})
  BY <1>1, <1>3, <1>4 DEF Executes
<1> QED BY <1>4, <1>6, <1>7

LEMMA MarkExecutedKeeps ==
  ASSUME VotingOK, NEW id \in DOMAIN proposals, can_mark_executed(id), mark_executed(id),
         UNCHANGED <<electorates, group>>
  PROVE  /\ VotingOK' /\ StaysReported /\ Executes({id})
         /\ proposals[id].status # "Executed"
<1> PICK p : p = proposals[id]
  OBVIOUS
<1> PICK q : q = [p EXCEPT !.status = "Executed"]
  OBVIOUS
<1>1. /\ proposals' = [proposals EXCEPT ![id] = q]
      /\ current_status(p, now) = "Passed"
  BY DEF can_mark_executed, mark_executed
<1>2. Recorded(p) /\ now \in Nat
  BY Time DEF VotingOK
<1>3. Recorded(q) /\ q.status = "Executed" /\ q.content = p.content /\ EarlyStored(q, now)
  BY <1>2, SetStatus DEF ProposalStatus, EarlyStored
<1>4. /\ VotingOK' /\ now' = now /\ DOMAIN proposals' = DOMAIN proposals
      /\ proposals'[id] = q
      /\ \A other \in DOMAIN proposals : other # id => proposals'[other] = proposals[other]
  BY <1>1, <1>3, Replaced
<1>5. current_status(q, now) = "Executed" /\ p.status # "Executed"
  BY <1>1, <1>2, <1>3, StatusAt DEF Recorded
<1>6. StaysReported
  BY <1>1, <1>4, <1>5 DEF StaysReported
<1>7. Executes({id})
  BY <1>3, <1>4 DEF Executes
<1> QED BY <1>4, <1>5, <1>6, <1>7

\* With time a proposal that was not decided expires, and no other changes.
LEMMA TimeKeeps ==
  ASSUME VotingOK, UNCHANGED proposals,
         \/ electorates' = Append(electorates, group) /\ group' = group
         \/ electorates' = electorates /\ group' \in [Addr -> Nat]
  PROVE  VotingOK' /\ StaysReported /\ Executes({})
<1>1. /\ electorates' \in Seq([Addr -> Nat]) /\ group' \in [Addr -> Nat]
      /\ Len(electorates) \in Nat
      /\ Len(electorates') \in {Len(electorates), Len(electorates) + 1}
  <2>1. CASE electorates' = Append(electorates, group) /\ group' = group
    BY <2>1 DEF VotingOK
  <2>2. CASE electorates' = electorates /\ group' \in [Addr -> Nat]
    BY <2>2 DEF VotingOK
  <2> QED BY <2>1, <2>2
<1>2. now \in Nat /\ now' \in Nat /\ now <= now'
  <2>1. PICK h, g, n : h = Len(electorates) /\ g = Len(electorates') /\ n = BLOCK_SECONDS
    OBVIOUS
  <2>2. h \in Nat /\ n \in Nat /\ g \in {h, h + 1}
    BY <1>1, <2>1, GroupAssumption
  <2>3. h * n \in Nat /\ (h + 1) * n = h * n + n
    BY <2>2
  <2>4. now = h * n /\ now' = g * n
    BY <2>1 DEF now, height
  <2> QED BY <2>2, <2>3, <2>4
<1>3. ASSUME NEW id \in DOMAIN proposals
      PROVE  /\ EarlyStored(proposals[id], now')
             /\ LET was == current_status(proposals[id], now)
                    is == current_status(proposals[id], now')
                IN was = is \/ was = "Open"
  <2> PICK p : p = proposals[id]
    OBVIOUS
  <2>1. Recorded(p) /\ EarlyStored(p, now) /\ p.expires \in Nat
    BY DEF VotingOK, Recorded
  <2>2. CASE now' < p.expires
    <3>1. is_passed(p, now) <=> is_passed(p, now')
      BY <1>2, <2>1, <2>2, PassesAlike
    <3> QED BY <1>2, <2>1, <2>2, <3>1, StatusAt DEF EarlyStored, Recorded
  <2>3. CASE now >= p.expires
    <3>1. is_passed(p, now) <=> is_passed(p, now')
      BY <1>2, <2>1, <2>3, PassesAlike
    <3> QED BY <1>2, <2>1, <2>3, <3>1, StatusAt DEF EarlyStored, Recorded
  <2>4. CASE now < p.expires /\ now' >= p.expires
    BY <1>2, <2>1, <2>4, StatusAt DEF EarlyStored, Recorded
  <2> QED BY <1>2, <2>1, <2>2, <2>3, <2>4
<1>4. VotingOK'
  BY <1>1, <1>3 DEF VotingOK, Recorded, EarlyStored
<1>5. StaysReported
  BY <1>3 DEF StaysReported
<1>6. Executes({})
  BY DEF Executes
<1> QED BY <1>4, <1>5, <1>6

-----------------------------------------------------------------------------
\* Punishments

\* A step that punishes nobody, releases at most and removes no validator.
LEMMA PunishedStays ==
  ASSUME PunishedInFull, NEW X, Executes(X), X \subseteq DOMAIN proposals,
         \A id \in X : proposals[id].content.kind # "Punish",
         UNCHANGED slashes, operators \subseteq operators',
         \A a \in Addr : jail'[a] \in {jail[a], "free"}
  PROVE  PunishedInFull'
<1>1. \A a \in Addr : ExecutedOf("Punish", a)' = ExecutedOf("Punish", a)
  BY DEF ExecutedOf, Executes
<1>2. \A a \in Addr : \A id \in ExecutedOf("Punish", a) :
        proposals'[id].content = proposals[id].content
  BY DEF ExecutedOf, Executes
<1> SUFFICES ASSUME NEW a \in Addr
             PROVE  /\ Len(slashes'[a]) = Cardinality(ExecutedOf("Punish", a)')
                    /\ \A i \in DOMAIN slashes'[a] : slashes'[a][i] \in 1 .. DECIMAL_ONE
                    /\ jail'[a] # "free" =>
                         \E id \in ExecutedOf("Punish", a)' :
                           /\ proposals'[id].content.jailing_duration # "none"
                           /\ jail'[a] = jailed_as(proposals'[id].content.jailing_duration)
                    /\ a \notin operators' =>
                         \A id \in ExecutedOf("Punish", a)' :
                           proposals'[id].content.jailing_duration = "none"
  BY DEF PunishedInFull
<1>3. Len(slashes'[a]) = Cardinality(ExecutedOf("Punish", a)')
  BY <1>1 DEF PunishedInFull
<1>4. \A i \in DOMAIN slashes'[a] : slashes'[a][i] \in 1 .. DECIMAL_ONE
  BY DEF PunishedInFull
<1>5. ASSUME jail'[a] # "free"
      PROVE  \E id \in ExecutedOf("Punish", a)' :
               /\ proposals'[id].content.jailing_duration # "none"
               /\ jail'[a] = jailed_as(proposals'[id].content.jailing_duration)
  <2>1. jail'[a] = jail[a] /\ jail[a] # "free"
    BY <1>5
  <2>2. PICK id \in ExecutedOf("Punish", a) :
          /\ proposals[id].content.jailing_duration # "none"
          /\ jail[a] = jailed_as(proposals[id].content.jailing_duration)
    BY <2>1 DEF PunishedInFull
  <2> QED BY <1>1, <1>2, <2>1, <2>2
<1>6. ASSUME a \notin operators', NEW id \in ExecutedOf("Punish", a)'
      PROVE  proposals'[id].content.jailing_duration = "none"
  <2>1. a \notin operators /\ id \in ExecutedOf("Punish", a)
    BY <1>1, <1>6
  <2>2. proposals[id].content.jailing_duration = "none"
    BY <2>1 DEF PunishedInFull
  <2> QED BY <1>2, <2>1, <2>2
<1> QED BY <1>3, <1>4, <1>5, <1>6

\* What an executed proposal names, by its kind.
LEMMA ContentTyped ==
  ASSUME NEW content \in Contents
  PROVE  /\ content.kind \in {"Punish", "Unjail"} => content.member \in Addr
         /\ content.kind = "Punish" /\ validate(content) =>
              /\ content.portion \in 1 .. DECIMAL_ONE
              /\ content.jailing_duration \in {"none", "duration", "forever"}
<1>1. IsOversightProposal(content)
  BY OcAssumption
<1>2. content.kind = "Punish" => content \in Punish
  BY <1>1 DEF IsOversightProposal, GrantEngagement, Punish, Unjail, UpdateConfig, Text
<1>3. content.kind = "Unjail" => content \in Unjail
  BY <1>1 DEF IsOversightProposal, GrantEngagement, Punish, Unjail, UpdateConfig, Text
<1>4. content.kind \in {"Punish", "Unjail"} => content.member \in Addr
  BY <1>2, <1>3 DEF Punish, Unjail
<1>5. ASSUME content.kind = "Punish", validate(content)
      PROVE  /\ content.portion \in 1 .. DECIMAL_ONE
             /\ content.jailing_duration \in {"none", "duration", "forever"}
  <2>1. content.portion \in Nat /\ content.jailing_duration \in JailingDuration
    BY <1>2, <1>5 DEF Punish
  <2>2. /\ content.portion > 0 /\ content.portion <= DECIMAL_ONE
        /\ content.jailing_duration # "zero"
    BY <1>5 DEF validate
  <2> QED BY <2>1, <2>2, RulesAssumption DEF JailingDuration
<1> QED BY <1>4, <1>5

\* An executed punishment is one more of its member, slashed and jailed as it says.
LEMMA PunishKeeps ==
  ASSUME IInv, NEW id \in DOMAIN proposals, ExecutePunish(id)
  PROVE  IInv' /\ StaysReported
<1> PICK content, m : content = proposals[id].content /\ m = content.member
  OBVIOUS
<1>1. /\ content.kind = "Punish" /\ content \in Contents
      /\ m \in Addr /\ content.portion \in 1 .. DECIMAL_ONE
      /\ content.jailing_duration \in {"none", "duration", "forever"}
  <2>1. content.kind = "Punish"
    BY DEF ExecutePunish, Executable
  <2>2. content \in Contents /\ validate(content)
    BY DEF IInv, VotingOK, Recorded
  <2> QED BY <2>1, <2>2, ContentTyped
<1>2. /\ VotingOK' /\ StaysReported /\ Executes({id})
      /\ proposals[id].status # "Executed"
  BY MarkExecutedKeeps DEF IInv, ExecutePunish, Executable, group_vars
<1>3. /\ slashes' = [slashes EXCEPT ![m] = Append(@, content.portion)]
      /\ jail' = IF content.jailing_duration = "none" \/ m \notin operators THEN jail
                 ELSE [jail EXCEPT ![m] = jailed_as(content.jailing_duration)]
      /\ operators' = operators
      /\ content.jailing_duration # "none" => m \in operators
  BY <1>1 DEF ExecutePunish, Executable, jail_accepted
<1>4. ValsetOK
  BY DEF IInv
<1>5. jailed_as(content.jailing_duration) \in {"jailed", "forever"}
  BY DEF jailed_as
<1>6. /\ slashes' \in [Addr -> Seq(Int)] /\ slashes'[m] = Append(slashes[m], content.portion)
      /\ \A a \in Addr \ {m} : slashes'[a] = slashes[a]
  BY <1>1, <1>3, <1>4 DEF ValsetOK
<1>7. /\ jail' \in [Addr -> {"free", "jailed", "forever"}]
      /\ content.jailing_duration # "none" =>
           jail'[m] = jailed_as(content.jailing_duration)
      /\ content.jailing_duration = "none" => jail'[m] = jail[m]
      /\ \A a \in Addr \ {m} : jail'[a] = jail[a]
  BY <1>1, <1>3, <1>4, <1>5 DEF ValsetOK
<1>8. ValsetOK'
  BY <1>3, <1>4, <1>6, <1>7 DEF ValsetOK
<1>9. /\ \A a \in Addr \ {m} : ExecutedOf("Punish", a)' = ExecutedOf("Punish", a)
      /\ ExecutedOf("Punish", m)' = ExecutedOf("Punish", m) \union {id}
      /\ id \notin ExecutedOf("Punish", m)
      /\ \A a \in Addr : \A other \in ExecutedOf("Punish", a) :
           proposals'[other].content = proposals[other].content
      /\ proposals'[id].content = content
  BY <1>1, <1>2 DEF ExecutedOf, Executes
<1>10. Cardinality(ExecutedOf("Punish", m)') = Cardinality(ExecutedOf("Punish", m)) + 1
  <2>1. PICK P : proposals \in Seq(P)
    BY DEF IInv, VotingOK
  <2>2. IsFiniteSet(1 .. Len(proposals))
    BY <2>1, FS_Interval
  <2>3. ExecutedOf("Punish", m) \subseteq 1 .. Len(proposals)
    BY <2>1 DEF ExecutedOf
  <2>4. IsFiniteSet(ExecutedOf("Punish", m))
    BY <2>2, <2>3, FS_Subset
  <2> QED BY <1>9, <2>4, FS_AddElement
<1>11. ASSUME NEW a \in Addr
       PROVE  /\ Len(slashes'[a]) = Cardinality(ExecutedOf("Punish", a)')
              /\ \A i \in DOMAIN slashes'[a] : slashes'[a][i] \in 1 .. DECIMAL_ONE
  <2>1. CASE a = m
    <3>1. /\ Len(slashes[m]) = Cardinality(ExecutedOf("Punish", m))
          /\ \A i \in DOMAIN slashes[m] : slashes[m][i] \in 1 .. DECIMAL_ONE
      BY <1>1 DEF IInv, PunishedInFull
    <3>2. slashes[m] \in Seq(Int)
      BY <1>1, <1>4 DEF ValsetOK
    <3>3. /\ Len(slashes'[m]) = Len(slashes[m]) + 1
          /\ DOMAIN slashes'[m] = DOMAIN slashes[m] \union {Len(slashes[m]) + 1}
          /\ \A i \in DOMAIN slashes[m] : slashes'[m][i] = slashes[m][i]
          /\ slashes'[m][Len(slashes[m]) + 1] = content.portion
      <4>1. PICK list, x, longer :
              list = slashes[m] /\ x = content.portion /\ longer = slashes'[m]
        OBVIOUS
      <4>2. list \in Seq(Int) /\ x \in Int /\ longer = Append(list, x)
        BY <1>1, <1>6, <3>2, <4>1, RulesAssumption
      <4>3. /\ Len(longer) = Len(list) + 1
            /\ DOMAIN longer = DOMAIN list \union {Len(list) + 1}
            /\ \A i \in DOMAIN list : longer[i] = list[i]
            /\ longer[Len(list) + 1] = x
        BY <4>2
      <4> QED BY <4>1, <4>3
    <3> QED BY <1>1, <1>10, <2>1, <3>1, <3>3
  <2>2. CASE a # m
    BY <1>6, <1>9, <2>2 DEF IInv, PunishedInFull
  <2> QED BY <2>1, <2>2
<1>12. ASSUME NEW a \in Addr, jail'[a] # "free"
       PROVE  \E other \in ExecutedOf("Punish", a)' :
                /\ proposals'[other].content.jailing_duration # "none"
                /\ jail'[a] = jailed_as(proposals'[other].content.jailing_duration)
  <2>1. CASE a = m /\ content.jailing_duration # "none"
    BY <1>7, <1>9, <2>1
  <2>2. CASE ~(a = m /\ content.jailing_duration # "none")
    <3>1. jail'[a] = jail[a] /\ ExecutedOf("Punish", a) \subseteq ExecutedOf("Punish", a)'
      BY <1>7, <1>9, <2>2
    <3>2. PICK other \in ExecutedOf("Punish", a) :
            /\ proposals[other].content.jailing_duration # "none"
            /\ jail[a] = jailed_as(proposals[other].content.jailing_duration)
      BY <1>12, <3>1 DEF IInv, PunishedInFull
    <3> QED BY <1>9, <3>1, <3>2
  <2> QED BY <2>1, <2>2
<1>13. ASSUME NEW a \in Addr, a \notin operators', NEW other \in ExecutedOf("Punish", a)'
       PROVE  proposals'[other].content.jailing_duration = "none"
  <2>1. CASE other \in ExecutedOf("Punish", a)
    <3>1. proposals[other].content.jailing_duration = "none"
      BY <1>3, <1>13, <2>1 DEF IInv, PunishedInFull
    <3> QED BY <1>9, <2>1, <3>1
  <2>2. CASE other \notin ExecutedOf("Punish", a)
    <3>1. a = m /\ other = id
      BY <1>9, <1>13, <2>2
    <3> QED BY <1>3, <1>9, <1>13, <3>1
  <2> QED BY <2>1, <2>2
<1>14. PunishedInFull'
  BY <1>11, <1>12, <1>13 DEF PunishedInFull
<1> QED BY <1>2, <1>8, <1>14 DEF IInv

-----------------------------------------------------------------------------
\* Every step

LEMMA InitHolds == Init => IInv
<1> SUFFICES ASSUME Init PROVE IInv
  OBVIOUS
<1>1. VotingOK
  <2>1. group \in [Addr -> Nat] /\ electorates = <<group>> /\ proposals = << >>
    BY GroupAssumption DEF Init, VotingInit
  <2>2. proposals \in Seq({}) /\ DOMAIN proposals = {}
    BY <2>1
  <2> QED BY <2>1, <2>2 DEF VotingOK
<1>2. ValsetOK
  BY DEF Init, ValsetOK
<1>3. \A a \in Addr : ExecutedOf("Punish", a) = {}
  BY DEF Init, VotingInit, ExecutedOf
<1>4. \A a \in Addr : slashes[a] = << >> /\ jail[a] = "free"
  BY DEF Init
<1>5. PunishedInFull
  <2>1. Len(<< >>) = 0 /\ DOMAIN << >> = {} /\ Cardinality({}) = 0
    BY FS_EmptySet
  <2> QED BY <1>3, <1>4, <2>1 DEF PunishedInFull
<1> QED BY <1>1, <1>2, <1>5 DEF IInv

\* A step that leaves the valset alone and executes nothing.
LEMMA ValsetAlone ==
  ASSUME IInv, VotingOK', StaysReported, Executes({}), UNCHANGED <<operators, slashes, jail>>
  PROVE  IInv' /\ StaysReported
<1>1. ValsetOK'
  BY DEF IInv, ValsetOK
<1>2. PunishedInFull'
  BY PunishedStays DEF IInv
<1> QED BY <1>1, <1>2 DEF IInv

\* Executing a proposal that punishes nobody.
LEMMA OtherExecuted ==
  ASSUME IInv, NEW id \in DOMAIN proposals, NEW kind, Executable(id, kind), kind # "Punish",
         UNCHANGED slashes, jail' \in [Addr -> {"free", "jailed", "forever"}],
         \A a \in Addr : jail'[a] \in {jail[a], "free"}
  PROVE  IInv' /\ StaysReported
<1>1. VotingOK' /\ StaysReported /\ Executes({id})
  BY MarkExecutedKeeps DEF IInv, Executable, group_vars
<1>2. ValsetOK'
  BY DEF IInv, ValsetOK, Executable
<1>3. PunishedInFull'
  BY <1>1, PunishedStays DEF IInv, Executable
<1> QED BY <1>1, <1>2, <1>3 DEF IInv

LEMMA ExecuteKeeps ==
  ASSUME IInv, NEW id \in DOMAIN proposals, Execute(id)
  PROVE  IInv' /\ StaysReported
<1>1. jail \in [Addr -> {"free", "jailed", "forever"}]
  BY DEF IInv, ValsetOK
<1>2. CASE ExecuteGrantEngagement(id)
  BY <1>1, <1>2, OtherExecuted DEF ExecuteGrantEngagement
<1>3. CASE ExecutePunish(id)
  BY <1>3, PunishKeeps
<1>4. CASE ExecuteUnjail(id)
  <2>1. /\ Executable(id, "Unjail") /\ UNCHANGED slashes
        /\ jail' = [jail EXCEPT ![proposals[id].content.member] = "free"]
    BY <1>4 DEF ExecuteUnjail
  <2>2. /\ jail' \in [Addr -> {"free", "jailed", "forever"}]
        /\ \A a \in Addr : jail'[a] \in {jail[a], "free"}
    BY <1>1, <2>1
  <2> QED BY <2>1, <2>2, OtherExecuted
<1>5. CASE ExecuteUpdateConfig(id)
  BY <1>1, <1>5, OtherExecuted DEF ExecuteUpdateConfig
<1>6. CASE ExecuteText(id)
  BY <1>1, <1>6, OtherExecuted DEF ExecuteText
<1> QED BY <1>2, <1>3, <1>4, <1>5, <1>6 DEF Execute

LEMMA NextKeeps == IInv /\ [Next]_vars => IInv' /\ StaysReported
<1> SUFFICES ASSUME IInv, [Next]_vars PROVE IInv' /\ StaysReported
  OBVIOUS
<1> USE DEF valset_vars, effect_vars, group_vars, voting_vars
<1>1. VotingOK /\ ValsetOK
  BY DEF IInv
<1>2. ASSUME NEW a \in Addr, NEW content \in Contents, Propose(a, content)
      PROVE  IInv' /\ StaysReported
  BY <1>1, <1>2, ProposeKeeps, ValsetAlone DEF Propose
<1>3. ASSUME NEW a \in Addr, NEW id \in DOMAIN proposals, NEW choice \in CastVotes,
             Vote(a, id, choice)
      PROVE  IInv' /\ StaysReported
  BY <1>1, <1>3, VoteKeeps, ValsetAlone DEF Vote
<1>4. ASSUME NEW id \in DOMAIN proposals, Close(id)
      PROVE  IInv' /\ StaysReported
  BY <1>1, <1>4, CloseKeeps, ValsetAlone DEF Close
<1>5. ASSUME NEW id \in DOMAIN proposals, Execute(id)
      PROVE  IInv' /\ StaysReported
  BY <1>5, ExecuteKeeps
<1>6. ASSUME UNCHANGED <<proposals, electorates, group>>
      PROVE  VotingOK' /\ StaysReported /\ Executes({})
  <2>1. electorates' = electorates /\ group' \in [Addr -> Nat]
    BY <1>1, <1>6 DEF VotingOK
  <2> QED BY <1>1, <1>6, <2>1, TimeKeeps
<1>7. ASSUME NEW a \in Validators, RegisterValidator(a)
      PROVE  IInv' /\ StaysReported
  <2>1. /\ UNCHANGED <<proposals, electorates, group, slashes, jail>>
        /\ operators' = operators \union {a}
    BY <1>7 DEF RegisterValidator
  <2>2. PunishedInFull'
    BY <1>6, <2>1, PunishedStays DEF IInv
  <2>3. ValsetOK'
    BY <1>1, <2>1, OcAssumption DEF ValsetOK
  <2> QED BY <1>6, <2>1, <2>2, <2>3 DEF IInv
<1>8. ASSUME NEW a \in Addr, ReleaseValidator(a)
      PROVE  IInv' /\ StaysReported
  <2>1. /\ UNCHANGED <<proposals, electorates, group, slashes, operators>>
        /\ jail' = [jail EXCEPT ![a] = "free"]
    BY <1>8 DEF ReleaseValidator
  <2>2. /\ jail' \in [Addr -> {"free", "jailed", "forever"}]
        /\ \A b \in Addr : jail'[b] \in {jail[b], "free"}
    BY <1>1, <2>1 DEF ValsetOK
  <2>3. PunishedInFull'
    BY <1>6, <2>1, <2>2, PunishedStays DEF IInv
  <2>4. ValsetOK'
    BY <1>1, <2>1, <2>2 DEF ValsetOK
  <2> QED BY <1>6, <2>1, <2>3, <2>4 DEF IInv
<1>9. ASSUME NEW points \in Groups, UpdateGroup(points),
             UNCHANGED <<operators, slashes, jail>>
      PROVE  IInv' /\ StaysReported
  <2>1. /\ UNCHANGED <<proposals, electorates>> /\ group' \in [Addr -> Nat]
    BY <1>9, GroupAssumption DEF UpdateGroup
  <2>2. VotingOK' /\ StaysReported /\ Executes({})
    BY <1>1, <2>1, TimeKeeps
  <2> QED BY <1>9, <2>2, ValsetAlone
<1>10. ASSUME NextBlock, UNCHANGED <<operators, slashes, jail>>
       PROVE  IInv' /\ StaysReported
  <2>1. UNCHANGED proposals /\ electorates' = Append(electorates, group) /\ group' = group
    BY <1>10 DEF NextBlock
  <2>2. VotingOK' /\ StaysReported /\ Executes({})
    BY <1>1, <2>1, TimeKeeps
  <2> QED BY <1>10, <2>2, ValsetAlone
<1>11. CASE UNCHANGED vars
  <2>1. UNCHANGED <<proposals, electorates, group, operators, slashes, jail>>
    BY <1>11 DEF vars
  <2> QED BY <1>6, <2>1, ValsetAlone
<1>12. CASE Next
  BY <1>2, <1>3, <1>4, <1>5, <1>7, <1>8, <1>9, <1>10, <1>12 DEF Next
<1> QED BY <1>11, <1>12

-----------------------------------------------------------------------------
\* What is kept for ever.
THEOREM Invariant == Spec => []IInv
<1>1. Init => IInv
  BY InitHolds
<1>2. IInv /\ [Next]_vars => IInv'
  BY NextKeeps
<1> QED BY <1>1, <1>2, PTL DEF Spec

\* Every executed punishment slashed its member exactly once and jailed it if it
\* said so, and nobody else is in jail, for any number of proposals and members.
THEOREM Punished == Spec => []PunishedInFull
<1>1. IInv => PunishedInFull
  BY DEF IInv
<1> QED BY <1>1, Invariant, PTL

\* What was reported as decided stays decided, for any rules and group.
THEOREM Reports == Spec => ReportsStay
<1>1. IInv /\ [Next]_vars => [StaysReported]_vars
  BY NextKeeps
<1> QED BY <1>1, Invariant, PTL DEF Spec, ReportsStay

-----------------------------------------------------------------------------
\* The ballots of one proposal and its tally

LEMMA VotesAdd ==
  ASSUME NEW votes \in Votes, NEW choice \in VoteOption, NEW n \in Nat
  PROVE  /\ add_vote(votes, choice, n) \in Votes
         /\ total_votes(add_vote(votes, choice, n)) = total_votes(votes) + n
         /\ add_vote(votes, choice, n)["Yes"] >= votes["Yes"]
         /\ add_vote(votes, choice, n)["Abstain"] >= votes["Abstain"]
BY DEF add_vote, total_votes, Votes, VoteOption

LEMMA VotesType ==
  ASSUME NEW votes \in Votes
  PROVE  /\ total_votes(votes) \in Nat
         /\ votes["Yes"] \in Nat /\ votes["Abstain"] \in Nat
         /\ votes["Abstain"] <= total_votes(votes)
BY DEF total_votes, Votes, VoteOption

LEMMA NoVotesType == NoVotes \in Votes /\ total_votes(NoVotes) = 0
BY DEF NoVotes, total_votes, Votes, VoteOption

\* One ballot per voter, and the points that each voter cast
OneEach(B) ==
  /\ B \subseteq Ballot
  /\ \A b, c \in B : b.voter = c.voter => b = c
voters(B) == {b.voter : b \in B}
cast(B) == [a \in voters(B) |-> (CHOOSE b \in {b \in B : b.voter = a} : TRUE).points]

LEMMA CastType ==
  ASSUME NEW B, OneEach(B)
  PROVE  /\ voters(B) \in SUBSET Addr /\ IsFiniteSet(voters(B))
         /\ cast(B) \in [voters(B) -> Nat]
         /\ \A b \in B : /\ {c \in B : c.voter = b.voter} = {b}
                         /\ cast(B)[b.voter] = b.points
<1>1. \A b \in B : b.voter \in Addr /\ b.points \in Nat
  BY DEF OneEach, Ballot
<1>2. voters(B) \in SUBSET Addr
  BY <1>1 DEF voters
<1>3. IsFiniteSet(voters(B))
  BY <1>2, GroupAssumption, FS_Subset
<1>4. ASSUME NEW b \in B
      PROVE  /\ {c \in B : c.voter = b.voter} = {b}
             /\ cast(B)[b.voter] = b.points
  <2>1. {c \in B : c.voter = b.voter} = {b}
    BY DEF OneEach
  <2>2. cast(B)[b.voter] = (CHOOSE c \in {c \in B : c.voter = b.voter} : TRUE).points
    BY DEF cast, voters
  <2>3. (CHOOSE c \in {b} : TRUE) = b
    OBVIOUS
  <2> QED BY <2>1, <2>2, <2>3
<1>5. \A a \in voters(B) : cast(B)[a] \in Nat
  BY <1>1, <1>4 DEF voters
<1>6. cast(B) = [a \in voters(B) |-> cast(B)[a]]
  BY DEF cast
<1> QED BY <1>2, <1>3, <1>4, <1>5, <1>6

LEMMA CastMore ==
  ASSUME NEW B, OneEach(B), NEW b \in Ballot, b.voter \notin voters(B)
  PROVE  /\ OneEach(B \union {b})
         /\ SumOf(cast(B \union {b})) = SumOf(cast(B)) + b.points
<1> DEFINE C == B \union {b}
<1>1. OneEach(C)
  BY DEF OneEach, voters
<1>2. voters(C) = voters(B) \union {b.voter}
  BY DEF voters
<1>3. b \in C /\ \A c \in B : c \in C
  OBVIOUS
<1> HIDE DEF C
<1>4. cast(C)[b.voter] = b.points /\ \A c \in B : cast(C)[c.voter] = cast(B)[c.voter]
  <2>1. cast(C)[b.voter] = b.points /\ \A c \in B : cast(C)[c.voter] = c.points
    BY <1>1, <1>3, CastType
  <2>2. \A c \in B : cast(B)[c.voter] = c.points
    BY CastType
  <2> QED BY <2>1, <2>2
<1>5. \A a \in voters(B) : cast(C)[a] = cast(B)[a]
  BY <1>4 DEF voters
<1>6. /\ cast(B) \in [voters(B) -> Int] /\ IsFiniteSet(voters(C))
      /\ cast(C) \in [voters(C) -> Int]
  BY <1>1, CastType
<1>7. /\ voters(B) \in SUBSET voters(C) /\ b.voter \in voters(C)
      /\ \A a \in voters(C) : a = b.voter \/ a \in voters(B)
  BY <1>2
<1>8. SumOf(cast(C)) = SumOf(cast(B)) + cast(C)[b.voter]
  BY <1>5, <1>6, <1>7, SumMore
<1> QED BY <1>1, <1>4, <1>8 DEF C

LEMMA CastFirst ==
  ASSUME NEW b \in Ballot
  PROVE  OneEach({b}) /\ SumOf(cast({b})) = b.points
<1>1. OneEach({}) /\ voters({}) = {}
  BY DEF OneEach, voters
<1>2. cast({}) = [a \in {} |-> 0]
  BY <1>1 DEF cast
<1>3. SumOf(cast({})) = 0
  BY <1>2, FS_EmptySet, SumOfNone
<1>4. {} \union {b} = {b} /\ b.points \in Nat
  BY DEF Ballot
<1>5. OneEach({} \union {b}) /\ SumOf(cast({} \union {b})) = SumOf(cast({})) + b.points
  BY <1>1, CastMore
<1> QED BY <1>3, <1>4, <1>5

\* Proposal id with its ballots B, after the snapshots E: one ballot for each
\* voter, one of them its proposer's, and the tally counts all their points
CaseOK(id, p, B, E) ==
  /\ p \in Proposal /\ p.start_height \in 1 .. Len(E)
  /\ OneEach(B) /\ \A b \in B : b.proposal_id = id
  /\ p.proposer \in voters(B)
  /\ \A b \in B : b.voter # p.proposer => b.points = E[p.start_height][b.voter]
  /\ total_votes(p.votes) = SumOf(cast(B))

\* Whoever may vote holds these points
electorate(p, B, E) ==
  (CHOOSE b \in B : b.voter = p.proposer).points
    + FoldFunction(+, 0, [a \in Addr \ {p.proposer} |-> E[p.start_height][a]])

LEMMA SumOthers ==
  ASSUME NEW x \in Addr, NEW f \in [Addr -> Nat], NEW h \in [Addr \ {x} -> Nat],
         \A a \in Addr \ {x} : f[a] = h[a]
  PROVE  SumOf(f) = SumOf(h) + f[x]
<1>1. Addr \ {x} \in SUBSET Addr /\ x \notin Addr \ {x} /\ IsFiniteSet(Addr)
  BY GroupAssumption
<1>2. /\ \A a \in Addr : a = x \/ a \in Addr \ {x}
      /\ f \in [Addr -> Int] /\ h \in [Addr \ {x} -> Int]
  OBVIOUS
<1> QED BY <1>1, <1>2, SumMore

\* No more points are cast than the electorate holds.
LEMMA TallyBounded ==
  ASSUME NEW id, NEW p, NEW B, NEW E \in Seq([Addr -> Nat]), CaseOK(id, p, B, E)
  PROVE  /\ total_votes(p.votes) <= electorate(p, B, E)
         /\ electorate(p, B, E) \in Nat
<1> PICK x, snapshot : x = p.proposer /\ snapshot = E[p.start_height]
  OBVIOUS
<1>1. snapshot \in [Addr -> Nat] /\ x \in Addr /\ IsFiniteSet(Addr)
  BY GroupAssumption DEF CaseOK, Proposal
<1>2. PICK b \in B : b.voter = x
  BY DEF CaseOK, voters
<1>3. (CHOOSE c \in B : c.voter = x) = b
  BY <1>2 DEF CaseOK, OneEach
<1> DEFINE others == Addr \ {x}
           rest == [a \in others |-> snapshot[a]]
           all == [a \in Addr |-> IF a = x THEN b.points ELSE snapshot[a]]
<1>4. b.points \in Nat
  BY DEF CaseOK, OneEach, Ballot
<1>5. /\ rest \in [others -> Nat] /\ all \in [Addr -> Nat]
      /\ all[x] = b.points /\ IsFiniteSet(others)
      /\ \A a \in others : all[a] = rest[a]
  BY <1>1, <1>4, FS_Subset
<1>6. electorate(p, B, E) = b.points + SumOf(rest)
  BY <1>2, <1>3, FoldIsSum DEF electorate
<1>7. \A a \in voters(B) : cast(B)[a] = all[a]
  <2>1. \A c \in B : c.voter \in Addr /\ cast(B)[c.voter] = c.points
    BY CastType DEF CaseOK, voters
  <2>2. \A c \in B : c.points = all[c.voter]
    BY <1>2, <2>1 DEF CaseOK, OneEach
  <2> QED BY <2>1, <2>2 DEF voters
<1> HIDE DEF rest, all
<1>8. SumOf(all) = SumOf(rest) + all[x]
  BY <1>1, <1>5, SumOthers
<1> HIDE DEF others
<1>9. SumOf(cast(B)) <= SumOf(all)
  <2>1. cast(B) \in [voters(B) -> Nat] /\ voters(B) \in SUBSET Addr
    BY CastType DEF CaseOK
  <2> QED BY <1>1, <1>5, <1>7, <2>1, SumWithin
<1>10. SumOf(rest) \in Nat /\ total_votes(p.votes) = SumOf(cast(B))
  BY <1>5, SumNat DEF CaseOK
<1> QED BY <1>4, <1>5, <1>6, <1>8, <1>9, <1>10

LEMMA CaseNew ==
  ASSUME NEW id, NEW p \in Proposal, NEW b \in Ballot, NEW E, p.start_height \in 1 .. Len(E),
         b.proposal_id = id, b.voter = p.proposer, total_votes(p.votes) = b.points
  PROVE  CaseOK(id, p, {b}, E)
<1>1. OneEach({b}) /\ SumOf(cast({b})) = b.points
  BY CastFirst
<1>2. p.proposer \in voters({b})
  BY DEF voters
<1> QED BY <1>1, <1>2 DEF CaseOK

\* The ballot of somebody who has not voted, and proposal p with it
BallotOf(b, id, p, B, E) ==
  /\ b \in Ballot /\ b.proposal_id = id /\ b.voter \notin voters(B)
  /\ b.points = E[p.start_height][b.voter]
CountedIn(q, p, points) ==
  /\ q \in Proposal /\ q.proposer = p.proposer /\ q.start_height = p.start_height
  /\ total_votes(q.votes) = total_votes(p.votes) + points

\* Another vote.
LEMMA CaseVoted ==
  ASSUME NEW id, NEW p, NEW B, NEW E, CaseOK(id, p, B, E),
         NEW b, BallotOf(b, id, p, B, E), NEW q, CountedIn(q, p, b.points)
  PROVE  /\ CaseOK(id, q, B \union {b}, E)
         /\ electorate(q, B \union {b}, E) = electorate(p, B, E)
<1> DEFINE C == B \union {b}
<1> USE DEF BallotOf, CountedIn
<1>1. OneEach(C) /\ SumOf(cast(C)) = SumOf(cast(B)) + b.points
  BY CastMore DEF CaseOK
<1>2. p.proposer \in voters(C) /\ b.voter # p.proposer
  BY DEF CaseOK, voters
<1>3. \A c \in C : c \in B \/ c = b
  OBVIOUS
<1>4. \A c \in C : /\ c.proposal_id = id
                   /\ c.voter # p.proposer => c.points = E[p.start_height][c.voter]
  BY <1>3 DEF CaseOK
<1>5. (CHOOSE c \in C : c.voter = p.proposer) = (CHOOSE c \in B : c.voter = p.proposer)
  <2>1. PICK c \in B : c.voter = p.proposer
    BY DEF CaseOK, voters
  <2>2. \A d \in C : d.voter = p.proposer => d = c
    BY <1>2, <2>1 DEF CaseOK, OneEach
  <2>3. c \in C
    BY <2>1
  <2> HIDE DEF C
  <2>4. (CHOOSE d \in C : d.voter = p.proposer) = c
    BY <2>1, <2>2, <2>3
  <2>5. (CHOOSE d \in B : d.voter = p.proposer) = c
    BY <2>1 DEF CaseOK, OneEach
  <2> QED BY <2>4, <2>5
<1> HIDE DEF C
<1>6. CaseOK(id, q, C, E)
  BY <1>1, <1>2, <1>4 DEF CaseOK
<1>7. electorate(q, C, E) = electorate(p, B, E)
  BY <1>5 DEF electorate
<1> QED BY <1>6, <1>7 DEF C

\* The snapshots F are E, or one more
Continue(E, F) == F = E \/ \E g \in [Addr -> Nat] : F = Append(E, g)

\* Another status, and later snapshots.
LEMMA CaseSame ==
  ASSUME NEW id, NEW p, NEW B, NEW E \in Seq([Addr -> Nat]), CaseOK(id, p, B, E),
         NEW q, CountedIn(q, p, 0), NEW F, Continue(E, F)
  PROVE  CaseOK(id, q, B, F) /\ electorate(q, B, F) = electorate(p, B, E)
<1>1. p.start_height \in 1 .. Len(F) /\ F[p.start_height] = E[p.start_height]
  BY DEF CaseOK, Continue
<1>2. CaseOK(id, q, B, F)
  <2>1. total_votes(p.votes) \in Nat
    <3>1. p.votes \in Votes
      BY DEF CaseOK, Proposal
    <3> QED BY <3>1, VotesType
  <2> QED BY <1>1, <2>1 DEF CaseOK, CountedIn
<1>3. electorate(q, B, F) = electorate(p, B, E)
  BY <1>1 DEF electorate, CountedIn
<1> QED BY <1>2, <1>3

-----------------------------------------------------------------------------
\* What a decision rests on

LEMMA NeededOrder ==
  ASSUME NEW a \in Nat, NEW b \in Nat, NEW percentage \in Nat, a <= b
  PROVE  /\ votes_needed(a, percentage) <= votes_needed(b, percentage)
         /\ votes_needed(a, percentage) \in Nat /\ votes_needed(b, percentage) \in Nat
<1> DEFINE applied(n) == (percentage * (PRECISION_FACTOR * n)) \div DECIMAL_ONE
<1>1. PRECISION_FACTOR \in Nat \ {0} /\ DECIMAL_ONE \in Nat \ {0}
  BY RulesAssumption
<1>2. \A n \in Nat : percentage * (PRECISION_FACTOR * n) \in Nat
  BY <1>1
<1>3. percentage * (PRECISION_FACTOR * a) <= percentage * (PRECISION_FACTOR * b)
  BY <1>1, TimesOrder
<1>4. applied(a) \in Nat /\ applied(b) \in Nat /\ applied(a) <= applied(b)
  <2>1. applied(a) \in Nat
    BY <1>1, <1>2, Quotient
  <2>2. applied(b) \in Nat
    BY <1>1, <1>2, Quotient
  <2> QED BY <1>1, <1>2, <1>3, <2>1, <2>2, QuotientOrder
<1> HIDE DEF applied
<1>5. /\ applied(a) + PRECISION_FACTOR - 1 \in Nat
      /\ applied(b) + PRECISION_FACTOR - 1 \in Nat
      /\ applied(a) + PRECISION_FACTOR - 1 <= applied(b) + PRECISION_FACTOR - 1
  BY <1>1, <1>4
<1>6. /\ (applied(a) + PRECISION_FACTOR - 1) \div PRECISION_FACTOR
           <= (applied(b) + PRECISION_FACTOR - 1) \div PRECISION_FACTOR
      /\ (applied(a) + PRECISION_FACTOR - 1) \div PRECISION_FACTOR \in Nat
      /\ (applied(b) + PRECISION_FACTOR - 1) \div PRECISION_FACTOR \in Nat
  BY <1>1, <1>5, Quotient, QuotientOrder
<1> QED BY <1>6 DEF votes_needed, applied

\* The quorum, and enough Yes votes: of all points unless they abstain, or at
\* the end of those that were cast
Sure(p, t) ==
  /\ total_votes(p.votes) >= votes_needed(p.total_points, p.rules.quorum)
  /\ \/ p.votes["Yes"] >= votes_needed(p.total_points - p.votes["Abstain"], p.rules.threshold)
     \/ /\ t >= p.expires
        /\ p.votes["Yes"] >= votes_needed(total_votes(p.votes) - p.votes["Abstain"],
                                          p.rules.threshold)

\* n is what the electorate holds
DecidedOK(p, n, t) ==
  /\ p.total_points < U64_MODULUS
  /\ p.status \in {"Passed", "Executed"} /\ n <= p.total_points => Sure(p, t)

LEMMA ProposalType ==
  ASSUME NEW p \in Proposal
  PROVE  /\ p.votes \in Votes /\ p.total_points \in Nat /\ p.expires \in Nat
         /\ p.rules.quorum \in Nat /\ p.rules.threshold \in Nat
         /\ p.status \in ProposalStatus
BY GroupAssumption DEF Proposal, VotingRulesType

LEMMA PassIsSure ==
  ASSUME NEW p \in Proposal, NEW n \in Nat, NEW t \in Nat, total_votes(p.votes) <= n,
         n <= p.total_points, p.total_points < U64_MODULUS, is_passed(p, t)
  PROVE  Sure(p, t)
<1> PICK total, abstain, m : total = p.total_points /\ abstain = p.votes["Abstain"]
                             /\ m = U64_MODULUS
  OBVIOUS
<1>1. total \in Nat /\ abstain \in Nat /\ m \in Nat \ {0} /\ abstain <= total /\ total < m
  BY ProposalType, VotesType, RulesAssumption
<1>2. (total - abstain) % m = total - abstain
  BY <1>1
<1> QED BY <1>2 DEF is_passed, Sure

LEMMA SureLater ==
  ASSUME NEW p \in Proposal, NEW t \in Nat, NEW u \in Nat, t <= u, Sure(p, t)
  PROVE  Sure(p, u)
BY ProposalType DEF Sure

\* A vote before the end cannot undo a decision.
LEMMA SureVoted ==
  ASSUME NEW p \in Proposal, NEW t \in Nat, t < p.expires, Sure(p, t),
         NEW q \in Proposal, q.total_points = p.total_points, q.rules = p.rules,
         NEW choice \in VoteOption, NEW n \in Nat, q.votes = add_vote(p.votes, choice, n),
         total_votes(q.votes) <= p.total_points
  PROVE  Sure(q, t)
<1> PICK total, yes, abstain, more_yes, more_abstain, threshold :
      /\ total = p.total_points /\ threshold = p.rules.threshold
      /\ yes = p.votes["Yes"] /\ abstain = p.votes["Abstain"]
      /\ more_yes = q.votes["Yes"] /\ more_abstain = q.votes["Abstain"]
  OBVIOUS
<1>1. /\ total \in Nat /\ threshold \in Nat /\ yes \in Nat /\ abstain \in Nat
      /\ more_yes \in Nat /\ more_abstain \in Nat
      /\ more_yes >= yes /\ more_abstain >= abstain /\ more_abstain <= total
      /\ total_votes(q.votes) >= total_votes(p.votes)
      /\ total_votes(q.votes) \in Nat /\ total_votes(p.votes) \in Nat
      /\ p.expires \in Nat /\ p.rules.quorum \in Nat
  <2>1. /\ p.votes \in Votes /\ total \in Nat /\ threshold \in Nat
        /\ p.expires \in Nat /\ p.rules.quorum \in Nat
    BY ProposalType
  <2>2. PICK more : more = add_vote(p.votes, choice, n)
    OBVIOUS
  <2>3. /\ more \in Votes /\ total_votes(more) = total_votes(p.votes) + n
        /\ more["Yes"] >= yes /\ more["Abstain"] >= abstain
    BY <2>1, <2>2, VotesAdd
  <2>4. /\ yes \in Nat /\ abstain \in Nat /\ total_votes(p.votes) \in Nat
    BY <2>1, VotesType
  <2>5. /\ more["Yes"] \in Nat /\ more["Abstain"] \in Nat /\ total_votes(more) \in Nat
        /\ more["Abstain"] <= total_votes(more)
    BY <2>3, VotesType
  <2>6. /\ total_votes(q.votes) = total_votes(more)
        /\ more_yes = more["Yes"] /\ more_abstain = more["Abstain"]
    BY <2>2
  <2>7. total_votes(more) <= total
    BY <2>6
  <2> QED BY <2>1, <2>3, <2>4, <2>5, <2>6, <2>7
<1>2. /\ total_votes(p.votes) >= votes_needed(total, p.rules.quorum)
      /\ yes >= votes_needed(total - abstain, threshold)
  BY <1>1 DEF Sure
<1>3. /\ total - more_abstain \in Nat /\ total - abstain \in Nat
      /\ total - more_abstain <= total - abstain
  BY <1>1
<1>4. /\ votes_needed(total - more_abstain, threshold) <= votes_needed(total - abstain, threshold)
      /\ votes_needed(total - more_abstain, threshold) \in Nat
      /\ votes_needed(total - abstain, threshold) \in Nat
      /\ votes_needed(total, p.rules.quorum) \in Nat
  BY <1>1, <1>3, NeededOrder
<1>5. /\ total_votes(q.votes) >= votes_needed(total, p.rules.quorum)
      /\ more_yes >= votes_needed(total - more_abstain, threshold)
  BY <1>1, <1>2, <1>4
<1> QED BY <1>5 DEF Sure

\* Counted at the end, a sure decision has its quorum and its threshold.
LEMMA SureSays ==
  ASSUME NEW p \in Proposal, NEW t, Sure(p, t), total_votes(p.votes) <= p.total_points
  PROVE  /\ total_votes(p.votes) >= votes_needed(p.total_points, p.rules.quorum)
         /\ p.votes["Yes"] >= votes_needed(total_votes(p.votes) - p.votes["Abstain"],
                                           p.rules.threshold)
<1> PICK total, yes, abstain, tally, threshold :
      /\ total = p.total_points /\ threshold = p.rules.threshold
      /\ yes = p.votes["Yes"] /\ abstain = p.votes["Abstain"]
      /\ tally = total_votes(p.votes)
  OBVIOUS
<1>1. /\ total \in Nat /\ threshold \in Nat /\ yes \in Nat /\ abstain \in Nat
      /\ tally \in Nat /\ abstain <= tally /\ tally <= total
  BY ProposalType, VotesType
<1>2. tally - abstain \in Nat /\ total - abstain \in Nat /\ tally - abstain <= total - abstain
  BY <1>1
<1>3. /\ votes_needed(tally - abstain, threshold) <= votes_needed(total - abstain, threshold)
      /\ votes_needed(tally - abstain, threshold) \in Nat
      /\ votes_needed(total - abstain, threshold) \in Nat
  BY <1>1, <1>2, NeededOrder
<1> QED BY <1>1, <1>3 DEF Sure

\* The points of a group are counted with 64 bits
Small == \A g \in Groups : FoldFunction(+, 0, g) < U64_MODULUS

Good(id, p, B, E, t) ==
  /\ CaseOK(id, p, B, E)
  /\ Small => DecidedOK(p, electorate(p, B, E), t)

LEMMA StatusSet ==
  ASSUME NEW p \in Proposal, NEW status \in ProposalStatus, NEW t \in Nat
  PROVE  LET q == [p EXCEPT !.status = status]
         IN /\ q \in Proposal /\ q.status = status
            /\ q.proposer = p.proposer /\ q.start_height = p.start_height
            /\ q.votes = p.votes /\ q.rules = p.rules /\ q.expires = p.expires
            /\ q.total_points = p.total_points /\ q.content = p.content
            /\ is_passed(q, t) <=> is_passed(p, t)
<1> DEFINE q == [p EXCEPT !.status = status]
<1>1. /\ q \in Proposal /\ q.status = status
      /\ q.proposer = p.proposer /\ q.start_height = p.start_height
      /\ q.votes = p.votes /\ q.rules = p.rules /\ q.expires = p.expires
      /\ q.total_points = p.total_points /\ q.content = p.content
  BY DEF Proposal
<1> HIDE DEF q
<1>2. is_passed(q, t) <=> is_passed(p, t)
  BY <1>1 DEF is_passed
<1> QED BY <1>1, <1>2 DEF q

\* What has passed by its votes is sure.
LEMMA CasePassed ==
  ASSUME NEW id, NEW p, NEW B, NEW E \in Seq([Addr -> Nat]), NEW t \in Nat, CaseOK(id, p, B, E),
         p.total_points < U64_MODULUS, is_passed(p, t), electorate(p, B, E) <= p.total_points
  PROVE  Sure(p, t)
<1> PICK n : n = electorate(p, B, E)
  OBVIOUS
<1>1. n \in Nat /\ total_votes(p.votes) <= n
  BY TallyBounded
<1>2. p \in Proposal
  BY DEF CaseOK
<1> QED BY <1>1, <1>2, PassIsSure

\* A proposal that is stored: it is open, or it was sure before, or it passes now.
LEMMA StoredGood ==
  ASSUME NEW id, NEW q, NEW B, NEW E \in Seq([Addr -> Nat]), NEW t \in Nat, CaseOK(id, q, B, E),
         Small => q.total_points < U64_MODULUS,
         q.status \in {"Passed", "Executed"} =>
           is_passed(q, t) \/ (Small /\ electorate(q, B, E) <= q.total_points => Sure(q, t))
  PROVE  Good(id, q, B, E, t)
<1> SUFFICES ASSUME Small PROVE DecidedOK(q, electorate(q, B, E), t)
  BY DEF Good
<1> SUFFICES ASSUME q.status \in {"Passed", "Executed"}, electorate(q, B, E) <= q.total_points
             PROVE  Sure(q, t)
  BY DEF DecidedOK
<1> QED BY CasePassed

LEMMA GoodNew ==
  ASSUME NEW id, NEW p \in Proposal, NEW b \in Ballot, NEW E \in Seq([Addr -> Nat]), NEW t \in Nat,
         p.start_height \in 1 .. Len(E), b.proposal_id = id, b.voter = p.proposer,
         total_votes(p.votes) = b.points, p.status = "Open",
         Small => p.total_points < U64_MODULUS
  PROVE  Good(id, update_status(p, t), {b}, E, t) /\ update_status(p, t) \in Proposal
<1> PICK status : status = current_status(p, t)
  OBVIOUS
<1>1. status \in ProposalStatus /\ (status \in {"Passed", "Executed"} => is_passed(p, t))
  BY ProposalType, StatusAt
<1> PICK q : q = [p EXCEPT !.status = status]
  OBVIOUS
<1>2. /\ q \in Proposal /\ q.status = status
      /\ q.proposer = p.proposer /\ q.start_height = p.start_height
      /\ q.votes = p.votes /\ q.total_points = p.total_points
      /\ is_passed(q, t) <=> is_passed(p, t)
  BY <1>1, StatusSet
<1>3. CaseOK(id, q, {b}, E)
  <2>1. q.start_height \in 1 .. Len(E) /\ b.voter = q.proposer /\ total_votes(q.votes) = b.points
    BY <1>2
  <2> QED BY <1>2, <2>1, CaseNew
<1>4. Good(id, q, {b}, E, t)
  BY <1>1, <1>2, <1>3, StoredGood
<1> QED BY <1>2, <1>4 DEF update_status

VotedWith(r, p, b) == r = [p EXCEPT !.votes = add_vote(p.votes, b.vote, b.points)]

LEMMA GoodVoted ==
  ASSUME NEW id, NEW p, NEW B, NEW E \in Seq([Addr -> Nat]), NEW t \in Nat, Good(id, p, B, E, t),
         NEW b, BallotOf(b, id, p, B, E), p.status \in {"Open", "Passed", "Rejected"}, t < p.expires,
         NEW r, VotedWith(r, p, b)
  PROVE  Good(id, update_status(r, t), B \union {b}, E, t) /\ update_status(r, t) \in Proposal
<1> PICK C : C = B \union {b}
  OBVIOUS
<1> PICK votes : votes = add_vote(p.votes, b.vote, b.points)
  OBVIOUS
<1>1. p \in Proposal /\ b.vote \in VoteOption /\ b.points \in Nat
  BY DEF Good, CaseOK, BallotOf, Ballot
<1>2. votes \in Votes /\ total_votes(votes) = total_votes(p.votes) + b.points
  <2>1. p.votes \in Votes
    BY <1>1, ProposalType
  <2> QED BY <1>1, <2>1, VotesAdd
<1>3. /\ r \in Proposal /\ r.status = p.status
      /\ r.proposer = p.proposer /\ r.start_height = p.start_height
      /\ r.votes = votes /\ r.rules = p.rules /\ r.expires = p.expires
      /\ r.total_points = p.total_points
  <2>1. r = [p EXCEPT !.votes = votes]
    BY DEF VotedWith
  <2> QED BY <1>1, <1>2, <2>1 DEF Proposal
<1> PICK status : status = current_status(r, t)
  OBVIOUS
<1>4. status \in ProposalStatus /\ (status \in {"Passed", "Executed"} =>
                                      is_passed(r, t) \/ p.status = "Passed")
  BY <1>3, ProposalType, StatusAt
<1> PICK q : q = [r EXCEPT !.status = status]
  OBVIOUS
<1>5. /\ q \in Proposal /\ q.status = status
      /\ q.proposer = p.proposer /\ q.start_height = p.start_height
      /\ q.votes = votes /\ q.rules = p.rules
      /\ q.total_points = p.total_points
      /\ is_passed(q, t) <=> is_passed(r, t)
  BY <1>3, <1>4, StatusSet
<1>6. CaseOK(id, q, C, E) /\ electorate(q, C, E) = electorate(p, B, E)
  <2>1. CaseOK(id, p, B, E)
    BY DEF Good
  <2>2. CountedIn(q, p, b.points)
    BY <1>2, <1>5 DEF CountedIn
  <2>3. /\ CaseOK(id, q, B \union {b}, E)
        /\ electorate(q, B \union {b}, E) = electorate(p, B, E)
    BY <2>1, <2>2, CaseVoted
  <2> QED BY <2>3
<1>7. ASSUME Small, p.status = "Passed", electorate(q, C, E) <= q.total_points
      PROVE  Sure(q, t)
  <2>1. Sure(p, t)
    BY <1>5, <1>6, <1>7 DEF Good, DecidedOK
  <2>2. total_votes(q.votes) <= electorate(q, C, E) /\ electorate(q, C, E) \in Nat
    BY <1>6, TallyBounded
  <2>3. total_votes(q.votes) \in Nat /\ q.total_points \in Nat
    <3>1. q.votes \in Votes /\ q.total_points \in Nat
      BY <1>5, ProposalType
    <3> QED BY <3>1, VotesType
  <2>4. total_votes(q.votes) <= p.total_points
    BY <1>5, <1>7, <2>2, <2>3
  <2>5. q.votes = add_vote(p.votes, b.vote, b.points)
    BY <1>5
  <2> QED BY <1>1, <1>5, <2>1, <2>4, <2>5, SureVoted
<1>8. Small => q.total_points < U64_MODULUS
  BY <1>5 DEF Good, DecidedOK
<1>9. Good(id, q, C, E, t)
  BY <1>4, <1>5, <1>6, <1>7, <1>8, StoredGood
<1> QED BY <1>5, <1>9 DEF update_status

LEMMA CountedSame ==
  ASSUME NEW p \in Proposal, NEW q \in Proposal, q.proposer = p.proposer,
         q.start_height = p.start_height, q.votes = p.votes
  PROVE  CountedIn(q, p, 0)
<1>1. p.votes \in Votes
  BY ProposalType
<1>2. total_votes(p.votes) \in Nat
  BY <1>1, VotesType
<1> QED BY <1>2 DEF CountedIn

\* Closed, or executed once it has passed.
LEMMA GoodSet ==
  ASSUME NEW id, NEW p, NEW B, NEW E \in Seq([Addr -> Nat]), NEW t \in Nat, Good(id, p, B, E, t),
         NEW status \in ProposalStatus,
         status \in {"Passed", "Executed"} => current_status(p, t) = "Passed"
  PROVE  /\ Good(id, [p EXCEPT !.status = status], B, E, t)
         /\ [p EXCEPT !.status = status] \in Proposal
<1> PICK q : q = [p EXCEPT !.status = status]
  OBVIOUS
<1>1. p \in Proposal /\ CaseOK(id, p, B, E)
  BY DEF Good, CaseOK
<1>2. /\ q \in Proposal /\ q.status = status
      /\ q.proposer = p.proposer /\ q.start_height = p.start_height
      /\ q.votes = p.votes /\ q.rules = p.rules /\ q.expires = p.expires
      /\ q.total_points = p.total_points
      /\ is_passed(q, t) <=> is_passed(p, t)
  BY <1>1, StatusSet
<1>3. CaseOK(id, q, B, E) /\ electorate(q, B, E) = electorate(p, B, E)
  <2>1. Continue(E, E)
    BY DEF Continue
  <2>2. CountedIn(q, p, 0)
    BY <1>1, <1>2, CountedSame
  <2> QED BY <1>1, <2>1, <2>2, CaseSame
<1>4. status \in {"Passed", "Executed"} => is_passed(p, t) \/ p.status = "Passed"
  BY <1>1, ProposalType, StatusAt
<1>5. Small /\ p.status = "Passed" /\ electorate(q, B, E) <= q.total_points => Sure(q, t)
  <2>1. Sure(p, t) => Sure(q, t)
    BY <1>2 DEF Sure
  <2> QED BY <1>2, <1>3, <2>1 DEF Good, DecidedOK
<1>6. Small => q.total_points < U64_MODULUS
  BY <1>2 DEF Good, DecidedOK
<1>7. Good(id, q, B, E, t)
  BY <1>2, <1>3, <1>4, <1>5, <1>6, StoredGood
<1> QED BY <1>2, <1>7

\* Later, after the same or more snapshots.
LEMMA GoodLater ==
  ASSUME NEW id, NEW p, NEW B, NEW E \in Seq([Addr -> Nat]), NEW t \in Nat, Good(id, p, B, E, t),
         NEW u \in Nat, t <= u, NEW F, Continue(E, F)
  PROVE  Good(id, p, B, F, u)
<1>1. p \in Proposal /\ CaseOK(id, p, B, E)
  BY DEF Good, CaseOK
<1>2. CaseOK(id, p, B, F) /\ electorate(p, B, F) = electorate(p, B, E)
  <2>1. CountedIn(p, p, 0)
    BY <1>1, CountedSame
  <2> QED BY <1>1, <2>1, CaseSame
<1>3. Sure(p, t) => Sure(p, u)
  BY <1>1, SureLater
<1>4. Small => DecidedOK(p, electorate(p, B, F), u)
  BY <1>2, <1>3 DEF Good, DecidedOK
<1> QED BY <1>2, <1>4 DEF Good

-----------------------------------------------------------------------------
\* Every step keeps every tally

AllGood ==
  \A id \in DOMAIN proposals : Good(id, proposals[id], BallotsOf(id), electorates, now)

TallyOK ==
  /\ group \in Groups /\ Len(electorates) >= 1
  /\ proposals \in Seq(Proposal)
  /\ \A b \in ballots : b \in Ballot /\ b.proposal_id \in DOMAIN proposals
  /\ AllGood

LEMMA TallyStarts == Init => TallyOK
<1> SUFFICES ASSUME Init PROVE TallyOK
  OBVIOUS
<1>1. /\ group \in Groups /\ electorates = <<group>>
      /\ proposals = << >> /\ ballots = {}
  BY DEF Init, VotingInit
<1>2. Len(electorates) >= 1 /\ proposals \in Seq(Proposal) /\ DOMAIN proposals = {}
  BY <1>1
<1> QED BY <1>1, <1>2 DEF TallyOK, AllGood

\* Proposal q is stored, with the ballots new of it
Stores(id, q, new) ==
  /\ q \in Proposal
  /\ \/ proposals' = Append(proposals, q) /\ id = Len(proposals) + 1
     \/ proposals' = [proposals EXCEPT ![id] = q] /\ id \in DOMAIN proposals
  /\ \A b \in new : b \in Ballot /\ b.proposal_id = id
  /\ ballots' = ballots \union new

\* The other tallies are not touched.
LEMMA TallyStored ==
  ASSUME TallyOK, NEW id, NEW q, NEW new, Stores(id, q, new),
         Good(id, q, BallotsOf(id) \union new, electorates, now),
         UNCHANGED <<group, electorates>>
  PROVE  TallyOK'
<1> USE DEF Stores
<1>1. /\ proposals' \in Seq(Proposal) /\ DOMAIN proposals' = DOMAIN proposals \union {id}
      /\ proposals'[id] = q
      /\ \A other \in DOMAIN proposals' :
           other # id => other \in DOMAIN proposals /\ proposals'[other] = proposals[other]
  <2> PICK list, longer : list = proposals /\ longer = proposals'
    OBVIOUS
  <2>3. list \in Seq(Proposal) /\ q \in Proposal
    BY DEF TallyOK
  <2>1. CASE proposals' = Append(proposals, q) /\ id = Len(proposals) + 1
    BY <2>1, <2>3
  <2>2. CASE proposals' = [proposals EXCEPT ![id] = q] /\ id \in DOMAIN proposals
    <3>1. longer = [list EXCEPT ![id] = q] /\ id \in DOMAIN list
      BY <2>2
    <3>2. longer \in Seq(Proposal) /\ DOMAIN longer = DOMAIN list /\ longer[id] = q
      BY <2>3, <3>1
    <3>3. \A other \in DOMAIN list : other # id => longer[other] = list[other]
      BY <2>3, <3>1
    <3>4. DOMAIN longer = DOMAIN list \union {id}
      BY <3>1, <3>2
    <3>5. \A other \in DOMAIN longer :
            other # id => other \in DOMAIN list /\ longer[other] = list[other]
      BY <3>2, <3>3
    <3> QED BY <3>2, <3>4, <3>5
  <2> QED BY <2>1, <2>2
<1>2. \A b \in ballots' : b \in Ballot /\ b.proposal_id \in DOMAIN proposals'
  BY <1>1 DEF TallyOK
<1>3. /\ BallotsOf(id)' = BallotsOf(id) \union new
      /\ \A other : other # id => BallotsOf(other)' = BallotsOf(other)
  BY DEF BallotsOf
<1>4. now' = now /\ electorates' = electorates
  BY DEF now, height
<1>5. AllGood'
  <2> SUFFICES ASSUME NEW other \in DOMAIN proposals'
               PROVE  Good(other, proposals'[other], BallotsOf(other)', electorates', now')
    BY DEF AllGood
  <2>1. CASE other = id
    BY <1>1, <1>3, <1>4, <2>1
  <2>2. CASE other # id
    BY <1>1, <1>3, <1>4, <2>2 DEF TallyOK, AllGood
  <2> QED BY <2>1, <2>2
<1> QED BY <1>1, <1>2, <1>5 DEF TallyOK

LEMMA Snapshots ==
  IInv => /\ electorates \in Seq([Addr -> Nat]) /\ now \in Nat /\ height \in Nat
          /\ group \in [Addr -> Nat]
BY Time DEF IInv, VotingOK, height

LEMMA ProposeTally ==
  ASSUME IInv, TallyOK, NEW a \in Addr, NEW content \in Contents, propose(a, content),
         UNCHANGED <<electorates, group>>
  PROVE  TallyOK'
<1> PICK id, prop, b :
      /\ id = Len(proposals) + 1
      /\ prop = [proposer |-> a, start_height |-> height,
                 expires |-> now + rules.voting_period * DAY, content |-> content,
                 status |-> "Open", rules |-> rules, total_points |-> total_points,
                 votes |-> add_vote(NoVotes, "Yes", group[a])]
      /\ b = ballot(id, a, "Yes", group[a])
  OBVIOUS
<1>1. /\ proposals' = Append(proposals, update_status(prop, now))
      /\ ballots' = ballots \union {b}
  BY DEF propose
<1>2. /\ electorates \in Seq([Addr -> Nat]) /\ now \in Nat /\ height \in 1 .. Len(electorates)
      /\ group[a] \in Nat /\ id \in Nat /\ id \notin DOMAIN proposals
  BY Snapshots DEF TallyOK, height
<1>3. b \in Ballot /\ b.proposal_id = id /\ b.voter = a /\ b.points = group[a]
  BY <1>2 DEF ballot, Ballot, VoteOption
<1>4. BallotsOf(id) = {} /\ BallotsOf(id) \union {b} = {b}
  BY <1>2 DEF BallotsOf, TallyOK
<1>5. prop \in Proposal
  <2>1. now + rules.voting_period * DAY \in Nat
    <3>1. rules.voting_period \in Nat /\ DAY \in Nat
      BY GroupAssumption DEF VotingRulesType
    <3>2. rules.voting_period * DAY \in Nat
      BY <3>1
    <3> QED BY <1>2, <3>2
  <2>2. add_vote(NoVotes, "Yes", group[a]) \in Votes
    BY <1>2, NoVotesType, VotesAdd DEF VoteOption
  <2>3. total_points \in Nat
    BY Snapshots, SumNat, FoldIsSum, GroupAssumption DEF total_points
  <2>4. height \in Nat
    BY <1>2
  <2> QED BY <2>1, <2>2, <2>3, <2>4 DEF Proposal, ProposalStatus
<1>6. total_votes(prop.votes) = b.points
  <2>1. total_votes(add_vote(NoVotes, "Yes", group[a])) = 0 + group[a]
    BY <1>2, NoVotesType, VotesAdd DEF VoteOption
  <2> QED BY <1>2, <1>3, <2>1
<1>7. Small => prop.total_points < U64_MODULUS
  BY DEF Small, TallyOK, total_points
<1>8. /\ Good(id, update_status(prop, now), {b}, electorates, now)
      /\ update_status(prop, now) \in Proposal
  <2>1. /\ prop.start_height \in 1 .. Len(electorates) /\ b.voter = prop.proposer
        /\ prop.status = "Open"
    BY <1>2, <1>3
  <2> QED BY <1>2, <1>3, <1>5, <1>6, <1>7, <2>1, GoodNew
<1> QED
  <2>1. Stores(id, update_status(prop, now), {b})
    BY <1>1, <1>3, <1>8 DEF Stores
  <2> QED BY <1>4, <1>8, <2>1, TallyStored

LEMMA VoteTally ==
  ASSUME IInv, TallyOK, NEW a \in Addr, NEW id \in DOMAIN proposals, NEW choice \in CastVotes,
         vote(a, id, choice), UNCHANGED <<electorates, group>>
  PROVE  TallyOK'
<1> PICK p, power, b, r :
      /\ p = proposals[id] /\ power = power_at(a, p.start_height)
      /\ b = ballot(id, a, choice, power)
      /\ r = [p EXCEPT !.votes = add_vote(p.votes, choice, power)]
  OBVIOUS
<1>1. /\ proposals' = [proposals EXCEPT ![id] = update_status(r, now)]
      /\ ballots' = ballots \union {b}
      /\ p.status \in {"Open", "Passed", "Rejected"} /\ now < p.expires
      /\ ~has_voted(a, id)
  BY DEF vote, voting_power
<1>2. Good(id, p, BallotsOf(id), electorates, now)
  BY DEF TallyOK, AllGood
<1>3. electorates \in Seq([Addr -> Nat]) /\ now \in Nat
  BY Snapshots
<1>4. power \in Nat /\ choice \in VoteOption /\ id \in Nat
  <2>1. p.start_height \in 1 .. Len(electorates)
    BY <1>2 DEF Good, CaseOK
  <2> QED BY <1>3, <2>1, GroupAssumption DEF power_at, TallyOK
<1>5. b \in Ballot /\ b.proposal_id = id /\ b.voter = a /\ b.points = power /\ b.vote = choice
  BY <1>4 DEF ballot, Ballot
<1>6. a \notin voters(BallotsOf(id))
  BY <1>1 DEF has_voted, voters, BallotsOf
<1>7. BallotOf(b, id, p, BallotsOf(id), electorates)
  BY <1>5, <1>6 DEF BallotOf, power_at
<1>8. VotedWith(r, p, b)
  BY <1>5 DEF VotedWith
<1>9. /\ Good(id, update_status(r, now), BallotsOf(id) \union {b}, electorates, now)
      /\ update_status(r, now) \in Proposal
  <2>1. p.status \in {"Open", "Passed", "Rejected"} /\ now < p.expires
    BY <1>1
  <2> QED BY <1>2, <1>3, <1>7, <1>8, <2>1, GoodVoted
<1>10. Stores(id, update_status(r, now), {b})
  BY <1>1, <1>5, <1>9 DEF Stores
<1> QED BY <1>9, <1>10, TallyStored

\* Closed or executed.
LEMMA StatusTally ==
  ASSUME IInv, TallyOK, NEW id \in DOMAIN proposals, NEW status \in ProposalStatus,
         status \in {"Passed", "Executed"} => current_status(proposals[id], now) = "Passed",
         proposals' = [proposals EXCEPT ![id].status = status],
         UNCHANGED <<ballots, electorates, group>>
  PROVE  TallyOK'
<1> PICK p, q : p = proposals[id] /\ q = [p EXCEPT !.status = status]
  OBVIOUS
<1>1. Good(id, p, BallotsOf(id), electorates, now)
  BY DEF TallyOK, AllGood
<1>2. electorates \in Seq([Addr -> Nat]) /\ now \in Nat
  BY Snapshots
<1>3. Good(id, q, BallotsOf(id), electorates, now) /\ q \in Proposal
  BY <1>1, <1>2, GoodSet
<1>4. BallotsOf(id) \union {} = BallotsOf(id) /\ ballots' = ballots \union {}
  OBVIOUS
<1>5. proposals' = [proposals EXCEPT ![id] = q]
  OBVIOUS
<1>6. Stores(id, q, {})
  BY <1>3, <1>4, <1>5 DEF Stores
<1> QED BY <1>3, <1>4, <1>6, TallyStored

\* Time passes, or the group changes.
LEMMA LaterTally ==
  ASSUME IInv, TallyOK, UNCHANGED <<proposals, ballots>>, group' \in Groups,
         electorates' = electorates \/ electorates' = Append(electorates, group)
  PROVE  TallyOK'
<1>1. /\ electorates \in Seq([Addr -> Nat]) /\ now \in Nat /\ group \in [Addr -> Nat]
  BY Snapshots
<1>2. Continue(electorates, electorates') /\ Len(electorates') >= 1
  BY <1>1 DEF Continue, TallyOK
<1>3. Len(electorates') \in Nat /\ Len(electorates) \in Nat /\ Len(electorates) <= Len(electorates')
  BY <1>1
<1>4. now' \in Nat /\ now <= now'
  <2>1. PICK m, n : m = Len(electorates) /\ n = Len(electorates')
    OBVIOUS
  <2>2. BLOCK_SECONDS \in Nat /\ m \in Nat /\ n \in Nat /\ m <= n
    BY <1>3, <2>1, GroupAssumption
  <2>3. m * BLOCK_SECONDS \in Nat /\ n * BLOCK_SECONDS \in Nat
        /\ m * BLOCK_SECONDS <= n * BLOCK_SECONDS
    BY <2>2, TimesOrder
  <2> QED BY <2>1, <2>3 DEF now, height
<1>5. AllGood'
  <2> SUFFICES ASSUME NEW id \in DOMAIN proposals
               PROVE  Good(id, proposals[id], BallotsOf(id), electorates', now')
    BY DEF AllGood, BallotsOf
  <2>1. Good(id, proposals[id], BallotsOf(id), electorates, now)
    BY DEF TallyOK, AllGood
  <2> QED BY <1>1, <1>2, <1>4, <2>1, GoodLater
<1> QED BY <1>2, <1>5 DEF TallyOK

LEMMA NextTally == IInv /\ TallyOK /\ [Next]_vars => TallyOK'
<1> SUFFICES ASSUME IInv, TallyOK, [Next]_vars PROVE TallyOK'
  OBVIOUS
<1>1. ASSUME NEW a \in Addr, NEW content \in Contents, Propose(a, content)
      PROVE  TallyOK'
  BY <1>1, ProposeTally DEF Propose, group_vars
<1>2. ASSUME NEW a \in Addr, NEW id \in DOMAIN proposals, NEW choice \in CastVotes,
             Vote(a, id, choice)
      PROVE  TallyOK'
  BY <1>2, VoteTally DEF Vote, group_vars
<1>3. ASSUME NEW id \in DOMAIN proposals, Close(id)
      PROVE  TallyOK'
  BY <1>3, StatusTally DEF Close, close, group_vars, ProposalStatus
<1>4. ASSUME NEW id \in DOMAIN proposals, Execute(id)
      PROVE  TallyOK'
  <2>1. \E kind : Executable(id, kind)
    BY <1>4 DEF Execute, ExecuteGrantEngagement, ExecutePunish, ExecuteUnjail,
                ExecuteUpdateConfig, ExecuteText
  <2>2. /\ current_status(proposals[id], now) = "Passed"
        /\ proposals' = [proposals EXCEPT ![id].status = "Executed"]
        /\ UNCHANGED <<ballots, electorates, group>>
    BY <2>1 DEF Executable, can_mark_executed, mark_executed, group_vars
  <2> QED BY <2>2, StatusTally DEF ProposalStatus
<1>5. ASSUME UNCHANGED <<proposals, ballots, electorates, group>>
      PROVE  TallyOK'
  BY <1>5, LaterTally DEF TallyOK
<1>6. ASSUME NEW a \in Validators, RegisterValidator(a)
      PROVE  TallyOK'
  BY <1>5, <1>6 DEF RegisterValidator, group_vars, voting_vars
<1>7. ASSUME NEW a \in Addr, ReleaseValidator(a)
      PROVE  TallyOK'
  BY <1>5, <1>7 DEF ReleaseValidator, group_vars, voting_vars
<1>8. ASSUME NEW points \in Groups, UpdateGroup(points)
      PROVE  TallyOK'
  BY <1>8, LaterTally DEF UpdateGroup, voting_vars
<1>9. CASE NextBlock
  BY <1>9, LaterTally DEF NextBlock, voting_vars, TallyOK
<1>10. CASE UNCHANGED vars
  BY <1>5, <1>10 DEF vars, group_vars, voting_vars
<1>11. CASE Next
  BY <1>1, <1>2, <1>3, <1>4, <1>6, <1>7, <1>8, <1>9, <1>11 DEF Next
<1> QED BY <1>10, <1>11

THEOREM Tallied == Spec => []TallyOK
<1>1. Init => TallyOK
  BY TallyStarts
<1>2. IInv /\ TallyOK /\ [Next]_vars => TallyOK'
  BY NextTally
<1> QED BY <1>1, <1>2, Invariant, PTL DEF Spec

\* A proposal passes and is executed only with its quorum and its threshold of
\* all opinions cast on it, however early, for any rules and any changes of a
\* group whose points together fit 64 bits: no later vote undoes it.
THEOREM DecidedWell ==
  ASSUME Small
  PROVE  Spec => []DecidedByElectorate
<1>1. TallyOK /\ IInv => DecidedByElectorate
  <2> SUFFICES ASSUME TallyOK, IInv, NEW id \in DOMAIN proposals,
                      proposals[id].status \in {"Passed", "Executed"},
                      VotingPoints(id) <= proposals[id].total_points
               PROVE  LET p == proposals[id]
                      IN /\ total_votes(p.votes) >= votes_needed(p.total_points, p.rules.quorum)
                         /\ p.votes["Yes"] >= votes_needed(total_votes(p.votes) - p.votes["Abstain"],
                                                           p.rules.threshold)
    BY DEF DecidedByElectorate
  <2> PICK p, B, n : p = proposals[id] /\ B = BallotsOf(id) /\ n = electorate(p, B, electorates)
    OBVIOUS
  <2>1. VotingPoints(id) = n
    BY DEF VotingPoints, electorate, power_at
  <2>2. CaseOK(id, p, B, electorates) /\ DecidedOK(p, n, now)
    BY DEF TallyOK, AllGood, Good
  <2>3. Sure(p, now)
    BY <2>1, <2>2 DEF DecidedOK
  <2>4. electorates \in Seq([Addr -> Nat])
    BY Snapshots
  <2>5. total_votes(p.votes) <= n /\ n \in Nat
    BY <2>2, <2>4, TallyBounded
  <2>6. p \in Proposal
    BY <2>2 DEF CaseOK
  <2>7. total_votes(p.votes) <= p.total_points
    <3>1. p.votes \in Votes /\ p.total_points \in Nat
      BY <2>6, ProposalType
    <3>2. total_votes(p.votes) \in Nat
      BY <3>1, VotesType
    <3> QED BY <2>1, <2>5, <3>1, <3>2
  <2> QED BY <2>3, <2>6, <2>7, SureSays
<1> QED BY <1>1, Tallied, Invariant, PTL

-----------------------------------------------------------------------------
\* What executed proposals grant, and the rest of the type

LEMMA ContentFields ==
  ASSUME NEW content \in Contents
  PROVE  /\ content.kind = "GrantEngagement" => content.member \in Addr /\ content.points \in Nat
         /\ content.kind = "UpdateConfig" =>
              /\ content.fields \in [ConfigFields -> SUBSET Nat]
              /\ \A f \in ConfigFields : \A n \in Nat : Unwrap(content.fields[f], n) \in Nat
<1>1. IsOversightProposal(content)
  BY OcAssumption
<1>2. content.kind = "GrantEngagement" => content \in GrantEngagement
  BY <1>1 DEF IsOversightProposal, GrantEngagement, Punish, Unjail, UpdateConfig, Text
<1>3. content.kind = "UpdateConfig" => content \in UpdateConfig
  BY <1>1 DEF IsOversightProposal, GrantEngagement, Punish, Unjail, UpdateConfig, Text
<1>4. content.kind = "GrantEngagement" => content.member \in Addr /\ content.points \in Nat
  BY <1>2 DEF GrantEngagement
<1>5. content.kind = "UpdateConfig" => content.fields \in [ConfigFields -> SUBSET Nat]
  BY <1>3 DEF UpdateConfig
<1>6. \A option \in SUBSET Nat : \A n \in Nat : Unwrap(option, n) \in Nat
  BY DEF Unwrap
<1> QED BY <1>4, <1>5, <1>6

\* The executed grants of an address among proposals P, and the points of each
GrantsIn(P, a) ==
  {id \in DOMAIN P : /\ P[id].status = "Executed"
                     /\ P[id].content.kind = "GrantEngagement" /\ P[id].content.member = a}
GrantedIn(P, a) == [id \in GrantsIn(P, a) |-> P[id].content.points]
Grants(a) == GrantsIn(proposals, a)
granted(a) == GrantedIn(proposals, a)

LEMMA GrantedType ==
  ASSUME NEW P, \E S : P \in Seq(S), \A id \in DOMAIN P : P[id].content \in Contents, NEW a
  PROVE  GrantedIn(P, a) \in [GrantsIn(P, a) -> Nat] /\ IsFiniteSet(GrantsIn(P, a))
<1>1. \A id \in GrantsIn(P, a) : P[id].content.points \in Nat
  BY ContentFields DEF GrantsIn
<1>2. IsFiniteSet(1 .. Len(P)) /\ GrantsIn(P, a) \subseteq 1 .. Len(P)
  BY FS_Interval DEF GrantsIn
<1>3. IsFiniteSet(GrantsIn(P, a))
  BY <1>2, FS_Subset
<1> QED BY <1>1, <1>3 DEF GrantedIn

GrantsSummed == \A a \in Addr : engagement[a] = SumOf(granted(a))

LEMMA GrantsFolded == GrantsSummed <=> GrantsPaidOnce
<1>1. \A a \in Addr :
        FoldFunction(+, 0, [id \in ExecutedOf("GrantEngagement", a) |-> proposals[id].content.points])
          = SumOf(granted(a))
  BY FoldIsSum DEF granted, GrantedIn, GrantsIn, ExecutedOf
<1> QED BY <1>1 DEF GrantsSummed, GrantsPaidOnce

EffectsOK ==
  /\ engagement \in [Addr -> Nat] /\ slashes \in [Addr -> Seq(Nat)]
  /\ valset_config \in ValsetConfig /\ texts \subseteq Nat
  /\ GrantsSummed

LEMMA EffectsStart == Init => EffectsOK
<1> SUFFICES ASSUME Init PROVE EffectsOK
  OBVIOUS
<1>1. /\ engagement \in [Addr -> Nat] /\ slashes \in [Addr -> Seq(Nat)]
      /\ valset_config \in ValsetConfig /\ texts \subseteq Nat
  BY OcAssumption DEF Init
<1>2. \A a \in Addr : engagement[a] = 0 /\ SumOf(granted(a)) = 0
  <2>1. \A a \in Addr : Grants(a) = {}
    BY DEF Init, VotingInit, Grants, GrantsIn
  <2>2. \A a \in Addr : granted(a) = [id \in {} |-> 0]
    BY <2>1 DEF granted, GrantedIn, Grants
  <2>3. SumOf([id \in {} |-> 0]) = 0
    BY FS_EmptySet, SumOfNone
  <2> QED BY <2>2, <2>3 DEF Init
<1> QED BY <1>1, <1>2 DEF EffectsOK, GrantsSummed

\* A step that executes no grant.
LEMMA GrantsStay ==
  ASSUME EffectsOK, NEW X, Executes(X), X \subseteq DOMAIN proposals,
         \A id \in X : proposals[id].content.kind # "GrantEngagement", UNCHANGED engagement
  PROVE  GrantsSummed'
<1>1. \A a \in Addr : Grants(a)' = Grants(a)
  BY DEF Grants, GrantsIn, Executes
<1>2. \A a \in Addr : \A id \in Grants(a) : proposals'[id].content = proposals[id].content
  BY DEF Grants, GrantsIn, Executes
<1>3. \A a \in Addr : granted(a)' = granted(a)
  BY <1>1, <1>2 DEF granted, GrantedIn, Grants
<1> QED BY <1>3 DEF EffectsOK, GrantsSummed

\* Executing a grant.
LEMMA GrantMore ==
  ASSUME IInv, IInv', EffectsOK, NEW id \in DOMAIN proposals, Executes({id}),
         proposals[id].status # "Executed", proposals[id].content.kind = "GrantEngagement",
         engagement' = [engagement EXCEPT ![proposals[id].content.member] =
                          @ + proposals[id].content.points]
  PROVE  GrantsSummed' /\ engagement' \in [Addr -> Nat]
<1> PICK content, m : content = proposals[id].content /\ m = content.member
  OBVIOUS
<1>1. content \in Contents /\ m \in Addr /\ content.points \in Nat
  BY ContentFields DEF IInv, VotingOK, Recorded
<1>2. engagement \in [Addr -> Nat] /\ \A a \in Addr : engagement[a] = SumOf(granted(a))
  BY DEF EffectsOK, GrantsSummed
<1>3. /\ engagement' \in [Addr -> Nat] /\ engagement'[m] = engagement[m] + content.points
      /\ \A a \in Addr : a # m => engagement'[a] = engagement[a]
  BY <1>1, <1>2
<1>4. /\ \A a \in Addr : a # m => Grants(a)' = Grants(a)
      /\ Grants(m)' = Grants(m) \union {id} /\ id \notin Grants(m)
      /\ \A a \in Addr : \A other \in Grants(a) :
           proposals'[other].content = proposals[other].content
      /\ proposals'[id].content = content
  BY <1>1 DEF Grants, GrantsIn, Executes
<1>5. \A a \in Addr : a # m => granted(a)' = granted(a)
  BY <1>4 DEF granted, GrantedIn, Grants
<1>6. SumOf(granted(m)') = SumOf(granted(m)) + content.points
  <2> PICK S, T, f, h : /\ S = Grants(m)' /\ T = Grants(m)
                        /\ f = granted(m)' /\ h = granted(m)
    OBVIOUS
  <2>1. /\ f \in [S -> Nat] /\ IsFiniteSet(S) /\ h \in [T -> Nat]
    <3>1. /\ \E R : proposals \in Seq(R)
          /\ \A other \in DOMAIN proposals : proposals[other].content \in Contents
          /\ \E R : proposals' \in Seq(R)
          /\ \A other \in DOMAIN proposals' : proposals'[other].content \in Contents
      BY DEF IInv, VotingOK, Recorded
    <3>2. GrantedIn(proposals, m) \in [GrantsIn(proposals, m) -> Nat]
      BY <3>1, GrantedType
    <3>3. /\ GrantedIn(proposals', m) \in [GrantsIn(proposals', m) -> Nat]
          /\ IsFiniteSet(GrantsIn(proposals', m))
      BY <3>1, GrantedType
    <3> QED BY <3>2, <3>3 DEF granted, Grants
  <2>2. /\ id \in S /\ T \in SUBSET S /\ id \notin T /\ \A x \in S : x = id \/ x \in T
    BY <1>4
  <2>3. f[id] = content.points /\ \A x \in T : f[x] = h[x]
    BY <1>1, <1>4 DEF granted, GrantedIn, Grants
  <2>4. f \in [S -> Int] /\ h \in [T -> Int]
    BY <2>1
  <2>5. SumOf(f) = SumOf(h) + f[id]
    BY <2>1, <2>2, <2>3, <2>4, SumMore
  <2> QED BY <2>3, <2>5
<1>7. \A a \in Addr : engagement'[a] = SumOf(granted(a)')
  BY <1>1, <1>2, <1>3, <1>5, <1>6
<1> QED BY <1>3, <1>7 DEF GrantsSummed

\* A step that executes nothing, and one that executes what is no grant.
LEMMA EffectsSame ==
  ASSUME EffectsOK, Executes({}), UNCHANGED <<engagement, slashes, valset_config, texts>>
  PROVE  EffectsOK'
<1>1. GrantsSummed'
  BY GrantsStay
<1> QED BY <1>1 DEF EffectsOK

LEMMA ExecuteEffects ==
  ASSUME IInv, IInv', EffectsOK, NEW id \in DOMAIN proposals, Execute(id)
  PROVE  EffectsOK'
<1> PICK content : content = proposals[id].content
  OBVIOUS
<1>1. content \in Contents /\ validate(content) /\ VotingOK
  BY DEF IInv, VotingOK, Recorded
<1>2. ASSUME NEW kind, Executable(id, kind)
      PROVE  Executes({id}) /\ proposals[id].status # "Executed" /\ content.kind = kind
  BY <1>1, <1>2, MarkExecutedKeeps DEF Executable, group_vars
<1>3. ASSUME NEW kind, Executable(id, kind), kind # "GrantEngagement", UNCHANGED engagement
      PROVE  GrantsSummed'
  BY <1>2, <1>3, GrantsStay
<1>4. CASE ExecuteGrantEngagement(id)
  <2>1. /\ Executable(id, "GrantEngagement") /\ UNCHANGED <<slashes, valset_config, texts>>
        /\ engagement' = [engagement EXCEPT ![proposals[id].content.member] =
                            @ + proposals[id].content.points]
    BY <1>4 DEF ExecuteGrantEngagement
  <2>2. Executes({id}) /\ proposals[id].status # "Executed" /\ content.kind = "GrantEngagement"
    BY <1>2, <2>1
  <2>3. GrantsSummed' /\ engagement' \in [Addr -> Nat]
    BY <2>1, <2>2, GrantMore
  <2> QED BY <2>1, <2>3 DEF EffectsOK
<1>5. CASE ExecutePunish(id)
  <2>1. /\ Executable(id, "Punish") /\ UNCHANGED <<engagement, valset_config, texts>>
        /\ slashes' = IF content.portion = 0 THEN slashes
                      ELSE [slashes EXCEPT ![content.member] = Append(@, content.portion)]
    BY <1>5 DEF ExecutePunish
  <2>2. content.kind = "Punish"
    BY <1>2, <2>1
  <2>3. content.portion \in Nat /\ content.member \in Addr
    <3>1. content.portion \in 1 .. DECIMAL_ONE /\ content.member \in Addr
      BY <1>1, <2>2, ContentTyped
    <3> QED BY <3>1, RulesAssumption
  <2>4. slashes' \in [Addr -> Seq(Nat)]
    <3>1. \A list \in Seq(Nat) : Append(list, content.portion) \in Seq(Nat)
      BY <2>3
    <3> QED BY <2>1, <2>3, <3>1 DEF EffectsOK
  <2> QED BY <1>3, <2>1, <2>4 DEF EffectsOK
<1>6. CASE ExecuteUnjail(id)
  BY <1>3, <1>6 DEF ExecuteUnjail, EffectsOK
<1>7. CASE ExecuteUpdateConfig(id)
  <2>1. /\ Executable(id, "UpdateConfig") /\ UNCHANGED <<engagement, slashes, texts>>
        /\ valset_config' = [f \in ConfigFields |-> Unwrap(content.fields[f], valset_config[f])]
    BY <1>7 DEF ExecuteUpdateConfig
  <2>2. \A f \in ConfigFields : Unwrap(content.fields[f], valset_config[f]) \in Nat
    BY <1>1, <1>2, <2>1, ContentFields DEF EffectsOK, ValsetConfig
  <2> QED BY <1>3, <2>1, <2>2 DEF EffectsOK, ValsetConfig
<1>8. CASE ExecuteText(id)
  <2>1. /\ Executable(id, "Text") /\ UNCHANGED <<engagement, slashes, valset_config>>
        /\ texts' = texts \union {id}
    BY <1>8 DEF ExecuteText
  <2>2. id \in Nat
    BY <1>1 DEF VotingOK
  <2> QED BY <1>3, <2>1, <2>2 DEF EffectsOK
<1> QED BY <1>4, <1>5, <1>6, <1>7, <1>8 DEF Execute

LEMMA NextEffects == IInv /\ EffectsOK /\ [Next]_vars => EffectsOK'
<1> SUFFICES ASSUME IInv, EffectsOK, [Next]_vars PROVE EffectsOK'
  OBVIOUS
<1> USE DEF valset_vars, effect_vars, group_vars, voting_vars
<1>1. VotingOK /\ IInv'
  BY NextKeeps DEF IInv
<1>2. ASSUME NEW a \in Addr, NEW content \in Contents, Propose(a, content)
      PROVE  EffectsOK'
  BY <1>1, <1>2, ProposeKeeps, EffectsSame DEF Propose
<1>3. ASSUME NEW a \in Addr, NEW id \in DOMAIN proposals, NEW choice \in CastVotes,
             Vote(a, id, choice)
      PROVE  EffectsOK'
  BY <1>1, <1>3, VoteKeeps, EffectsSame DEF Vote
<1>4. ASSUME NEW id \in DOMAIN proposals, Close(id)
      PROVE  EffectsOK'
  BY <1>1, <1>4, CloseKeeps, EffectsSame DEF Close
<1>5. ASSUME NEW id \in DOMAIN proposals, Execute(id)
      PROVE  EffectsOK'
  BY <1>1, <1>5, ExecuteEffects
<1>6. ASSUME UNCHANGED <<proposals, engagement, slashes, valset_config, texts>>
      PROVE  EffectsOK'
  <2>1. Executes({})
    BY <1>6 DEF Executes
  <2> QED BY <1>6, <2>1, EffectsSame
<1>7. ASSUME NEW a \in Validators, RegisterValidator(a)
      PROVE  EffectsOK'
  BY <1>6, <1>7 DEF RegisterValidator
<1>8. ASSUME NEW a \in Addr, ReleaseValidator(a)
      PROVE  EffectsOK'
  BY <1>6, <1>8 DEF ReleaseValidator
<1>9. ASSUME NEW points \in Groups, UpdateGroup(points), UNCHANGED <<engagement, valset_vars, texts>>
      PROVE  EffectsOK'
  BY <1>6, <1>9 DEF UpdateGroup
<1>10. ASSUME NextBlock, UNCHANGED <<engagement, valset_vars, texts>>
       PROVE  EffectsOK'
  BY <1>6, <1>10 DEF NextBlock
<1>11. CASE UNCHANGED vars
  BY <1>6, <1>11 DEF vars
<1>12. CASE Next
  BY <1>2, <1>3, <1>4, <1>5, <1>7, <1>8, <1>9, <1>10, <1>12 DEF Next
<1> QED BY <1>11, <1>12

THEOREM Effects == Spec => []EffectsOK
<1>1. Init => EffectsOK
  BY EffectsStart
<1>2. IInv /\ EffectsOK /\ [Next]_vars => EffectsOK'
  BY NextEffects
<1> QED BY <1>1, <1>2, Invariant, PTL DEF Spec

\* Every address was granted the points of the executed proposals that name it,
\* each exactly once, for any number of proposals and members.
THEOREM GrantsPaid == Spec => []GrantsPaidOnce
<1>1. EffectsOK => GrantsPaidOnce
  BY GrantsFolded DEF EffectsOK
<1> QED BY <1>1, Effects, PTL

\* The storage of the contract, and what it calls, keep their types.
THEOREM Typed == Spec => []TypeOK
<1>1. IInv /\ TallyOK /\ EffectsOK => TypeOK
  <2> SUFFICES ASSUME IInv, TallyOK, EffectsOK PROVE TypeOK
    OBVIOUS
  <2>1. ProposalsOK
    BY DEF TallyOK, ProposalsOK
  <2>2. ballots \subseteq Ballot
    BY DEF TallyOK
  <2>3. /\ group \in [Addr -> Nat] /\ electorates \in Seq([Addr -> Nat])
        /\ operators \subseteq Addr /\ jail \in [Addr -> {"free", "jailed", "forever"}]
    BY DEF IInv, VotingOK, ValsetOK
  <2> QED BY <2>1, <2>2, <2>3 DEF TypeOK, EffectsOK
<1> QED BY <1>1, Invariant, Tallied, Effects, PTL

-----------------------------------------------------------------------------
\* The queries

\* Addresses are ordered, and a client that asks for a limit asks for entries
Readers == Addr \in SUBSET Int /\ \A limit \in PageLimits : IsLimit(limit)

\* Some key's next page begins with each key, or the first page does.
LEMMA KeyListed ==
  ASSUME NEW keys \in SUBSET Int, IsFiniteSet(keys), NEW limit, IsLimit(limit), NEW k \in keys
  PROVE  \E s \in {{}} \union {{j} : j \in keys} : k \in page(keys, s, limit)
<1> DEFINE smaller == {j \in keys : j < k}
<1>1. align_limit(limit) \in Nat \ {0}
  BY LimitPositive
<1>2. ASSUME NEW s, after(k, s), \A j \in keys : after(j, s) => ~(j < k)
      PROVE  k \in page(keys, s, limit)
  <2> PICK rest : rest = {j \in keys : after(j, s)}
    OBVIOUS
  <2>1. k \in rest /\ {j \in rest : j < k} = {}
    BY <1>2
  <2>2. Cardinality({j \in rest : j < k}) < align_limit(limit)
    BY <1>1, <2>1, FS_EmptySet
  <2> QED BY <2>1, <2>2 DEF page
<1>3. CASE smaller = {}
  <2>1. after(k, {}) /\ \A j \in keys : ~(j < k)
    BY <1>3 DEF after
  <2>2. k \in page(keys, {}, limit)
    BY <1>2, <2>1
  <2> QED BY <2>2
<1>4. CASE smaller # {}
  <2>1. smaller \in SUBSET keys /\ Ordered(Up, keys)
    BY UpAndDown
  <2>2. \A i, j \in keys : <<i, j>> \in Up <=> i < j
    BY UpAndDown
  <2> HIDE DEF smaller
  <2>3. PICK last \in smaller : \A j \in smaller : j = last \/ <<j, last>> \in Up
    BY <1>4, <2>1, LastKey
  <2>4. last \in keys /\ last < k /\ \A j \in keys : j < k => j <= last
    <3>1. last \in keys /\ last < k
      BY <2>3 DEF smaller
    <3>2. ASSUME NEW j \in keys, j < k PROVE j <= last
      <4>1. j \in smaller
        BY <3>2 DEF smaller
      <4>2. j = last \/ j < last
        BY <2>2, <2>3, <3>1, <4>1
      <4>3. j \in Int /\ last \in Int
        BY <3>1
      <4> QED BY <4>2, <4>3
    <3> QED BY <3>1, <3>2
  <2>5. after(k, {last}) /\ \A j \in keys : after(j, {last}) => ~(j < k)
    <3>1. last \in Int /\ k \in Int /\ \A j \in keys : j \in Int
      BY <2>4
    <3> QED BY <2>4, <3>1 DEF after
  <2>6. k \in page(keys, {last}, limit)
    BY <1>2, <2>5
  <2> QED BY <2>4, <2>6
<1> QED BY <1>3, <1>4

\* The proposals, up and down.
LEMMA ProposalsShown ==
  ASSUME Readers, TallyOK, NEW limit \in PageLimits
  PROVE  LET n == Len(proposals)
         IN /\ Shows(Pages(LAMBDA s : list_proposals(s, limit), n), DOMAIN proposals)
            /\ Shows(ReversePages(LAMBDA s : reverse_proposals(s, limit), n), DOMAIN proposals)
            /\ n \in Nat /\ IsFiniteSet(1 .. n) /\ Cardinality(1 .. n) = n
            /\ DOMAIN proposals = 1 .. n
<1> PICK n : n = Len(proposals)
  OBVIOUS
<1>1. n \in Nat /\ DOMAIN proposals = 1 .. n
  BY DEF TallyOK
<1>2. IsFiniteSet(1 .. n) /\ Cardinality(1 .. n) = n
  <2>1. IsFiniteSet(1 .. n) /\ Cardinality(1 .. n) = IF 1 > n THEN 0 ELSE n - 1 + 1
    <3>1. 1 \in Int /\ n \in Int
      BY <1>1
    <3> QED BY <3>1, FS_Interval
  <2> QED BY <1>1, <2>1
<1>3. /\ Pages(LAMBDA s : list_proposals(s, limit), n) = PagesOf(DOMAIN proposals, limit, n)
      /\ ReversePages(LAMBDA s : reverse_proposals(s, limit), n)
           = ReversePagesOf(DOMAIN proposals, limit, n)
  BY DEF PagesOf, ReversePagesOf, list_proposals, reverse_proposals
<1>4. /\ Shows(PagesOf(1 .. n, limit, n), 1 .. n)
      /\ Shows(ReversePagesOf(1 .. n, limit, n), 1 .. n)
  <2>1. 1 .. n \in SUBSET Int /\ IsLimit(limit) /\ Cardinality(1 .. n) <= n
    BY <1>1, <1>2 DEF Readers
  <2> QED BY <1>1, <1>2, <2>1, KeysShown
<1> QED BY <1>1, <1>2, <1>3, <1>4

\* The votes on one proposal.
LEMMA VotesShown ==
  ASSUME Readers, TallyOK, NEW limit \in PageLimits, NEW id \in DOMAIN proposals
  PROVE  LET p == query_proposal(id)
             of == {b.voter : b \in BallotsOf(id)}
         IN /\ Shows(Pages(LAMBDA s : list_votes(id, s, limit), Cardinality(of)), of)
            /\ \A a \in of : Cardinality(query_vote(id, a)) = 1
            /\ total_votes(p.votes) = FoldFunction(+, 0, [a \in of |-> Counted(id, a)])
            /\ \A a \in of \ {p.proposer} : Counted(id, a) = power_at(a, p.start_height)
<1> PICK B, of, p : /\ B = BallotsOf(id) /\ of = {b.voter : b \in B} /\ p = query_proposal(id)
  OBVIOUS
<1>1. CaseOK(id, proposals[id], B, electorates)
  BY DEF TallyOK, AllGood, Good
<1>2. /\ p.votes = proposals[id].votes /\ p.proposer = proposals[id].proposer
      /\ p.start_height = proposals[id].start_height
  BY <1>1 DEF query_proposal, CaseOK, Proposal
<1>3. of = voters(B) /\ of \in SUBSET Addr /\ IsFiniteSet(of)
  BY <1>1, CastType DEF CaseOK, voters
<1>4. Shows(Pages(LAMBDA s : list_votes(id, s, limit), Cardinality(of)), of)
  <2>1. Pages(LAMBDA s : list_votes(id, s, limit), Cardinality(of))
          = PagesOf(of, limit, Cardinality(of))
    BY DEF PagesOf, list_votes
  <2>2. of \in SUBSET Int /\ IsLimit(limit)
    BY <1>3 DEF Readers
  <2>3. Shows(PagesOf(of, limit, Cardinality(of)), of)
    BY <1>3, <2>2, KeysOfShown
  <2> QED BY <2>1, <2>3
<1>5. ASSUME NEW a \in of
      PROVE  \E b \in B : b.voter = a /\ query_vote(id, a) = {b} /\ Counted(id, a) = b.points
                          /\ Counted(id, a) = cast(B)[a]
  <2>1. PICK b \in B : b.voter = a
    BY <1>5
  <2>2. query_vote(id, a) = {b} /\ cast(B)[a] = b.points
    <3>1. {c \in B : c.voter = b.voter} = {b} /\ cast(B)[b.voter] = b.points
      BY <1>1, CastType DEF CaseOK
    <3> QED BY <2>1, <3>1 DEF query_vote
  <2>3. Counted(id, a) = b.points
    <3>1. (CHOOSE c \in {b} : TRUE) = b
      OBVIOUS
    <3> QED BY <2>2, <3>1 DEF Counted
  <2> QED BY <2>1, <2>2, <2>3
<1>6. ASSUME NEW a \in of PROVE Cardinality(query_vote(id, a)) = 1
  <2>1. PICK b : query_vote(id, a) = {b}
    BY <1>5
  <2>2. Cardinality({b}) = 1
    BY FS_Singleton
  <2> QED BY <2>1, <2>2
<1>7. total_votes(p.votes) = FoldFunction(+, 0, [a \in of |-> Counted(id, a)])
  <2>1. cast(B) = [a \in of |-> cast(B)[a]]
    BY <1>3 DEF cast
  <2>2. [a \in of |-> Counted(id, a)] = cast(B)
    BY <1>5, <2>1
  <2> QED BY <1>1, <1>2, <2>2, FoldIsSum DEF CaseOK
<1>8. \A a \in of \ {p.proposer} : Counted(id, a) = power_at(a, p.start_height)
  BY <1>1, <1>2, <1>5 DEF CaseOK, power_at
<1> QED BY <1>4, <1>6, <1>7, <1>8

\* The votes of one voter.
LEMMA VoterShown ==
  ASSUME Readers, TallyOK, NEW limit \in PageLimits, NEW a \in Addr
  PROVE  Shows(Pages(LAMBDA s : list_votes_by_voter(a, s, limit), Len(proposals)),
               {id \in DOMAIN proposals : query_vote(id, a) # {}})
<1> PICK n, keys : /\ n = Len(proposals)
                   /\ keys = {b.proposal_id : b \in {b \in ballots : b.voter = a}}
  OBVIOUS
<1>1. keys = {id \in DOMAIN proposals : query_vote(id, a) # {}}
  <2>1. \A b \in ballots : b.proposal_id \in DOMAIN proposals
    BY DEF TallyOK
  <2> QED BY <2>1 DEF query_vote, BallotsOf
<1>2. /\ n \in Nat /\ IsFiniteSet(1 .. n) /\ Cardinality(1 .. n) = n
      /\ DOMAIN proposals = 1 .. n
  BY ProposalsShown
<1>3. Pages(LAMBDA s : list_votes_by_voter(a, s, limit), n) = PagesOf(keys, limit, n)
  BY DEF PagesOf, list_votes_by_voter
<1>4. Shows(PagesOf(keys, limit, Cardinality(1 .. n)), keys)
  <2>1. 1 .. n \in SUBSET Int /\ keys \in SUBSET (1 .. n) /\ IsLimit(limit)
    BY <1>1, <1>2 DEF Readers
  <2> QED BY <1>2, <2>1, KeysOfShown
<1> QED BY <1>1, <1>2, <1>3, <1>4

\* The voters, with all points.
LEMMA VotersListed ==
  ASSUME Readers, IInv, NEW limit \in PageLimits
  PROVE  LET listed == UNION {list_voters(s, limit) : s \in {{}} \union {{a} : a \in Addr}}
         IN /\ listed = {a \in Addr : query_voter(a) # {}}
            /\ FoldFunction(+, 0, [a \in listed |-> group[a]]) = total_points
<1> PICK keys, listed :
      /\ keys = {a \in Addr : group[a] > 0}
      /\ listed = UNION {list_voters(s, limit) : s \in {{}} \union {{a} : a \in Addr}}
  OBVIOUS
<1>1. group \in [Addr -> Nat] /\ IsFiniteSet(Addr) /\ Addr \in SUBSET Int /\ IsLimit(limit)
  BY Snapshots, GroupAssumption DEF Readers
<1>2. keys \in SUBSET Addr /\ keys \in SUBSET Int /\ IsFiniteSet(keys)
  BY <1>1, FS_Subset
<1>3. keys = {a \in Addr : query_voter(a) # {}}
  <2>1. \A a \in Addr : group[a] > 0 <=> query_voter(a) # {}
    BY <1>1 DEF query_voter
  <2> QED BY <2>1
<1>4. \A s : list_voters(s, limit) = page(keys, s, limit)
  BY DEF list_voters
<1>5. ASSUME NEW k \in listed PROVE k \in keys
  <2>1. PICK s : k \in list_voters(s, limit)
    OBVIOUS
  <2> QED BY <1>4, <2>1 DEF page
<1>6. ASSUME NEW k \in keys PROVE k \in listed
  <2>1. PICK s \in {{}} \union {{j} : j \in keys} : k \in page(keys, s, limit)
    BY <1>1, <1>2, KeyListed
  <2>2. s \in {{}} \union {{a} : a \in Addr}
    BY <1>2
  <2> QED BY <1>4, <2>1, <2>2
<1>7. listed = keys
  BY <1>5, <1>6
<1>8. SumOf(group) = SumOf([a \in keys |-> group[a]])
  <2> PICK all, held : all = group /\ held = [a \in keys |-> group[a]]
    OBVIOUS
  <2>1. all \in [Addr -> Nat] /\ all \in [Addr -> Int] /\ held \in [keys -> Int]
    BY <1>1, <1>2
  <2>2. \A a \in keys : all[a] = held[a]
    BY <1>1, <1>2
  <2>3. \A a \in Addr \ keys : all[a] = 0
    BY <1>1, <1>2
  <2>4. /\ IsFiniteSet(Addr) /\ keys \in SUBSET Addr
        /\ all \in [Addr -> Int] /\ held \in [keys -> Int]
    BY <1>1, <1>2, <2>1
  <2>5. SumOf(all) = SumOf(held)
    BY <2>2, <2>3, <2>4, SumPart
  <2> QED BY <2>5
<1>9. FoldFunction(+, 0, [a \in listed |-> group[a]]) = total_points
  BY <1>7, <1>8, FoldIsSum DEF total_points
<1> QED BY <1>3, <1>7, <1>9

\* What clients read page by page are the ballots a tally counts, each voter's
\* once and with the points of the start of the block, and all voters with all
\* points, for any number of proposals, voters and entries of a page (the queries
\* that tgrade-oc-proposals passes on to tg_voting_contract).
THEOREM TalliesRead ==
  ASSUME Readers
  PROVE  Spec => []TallyOfElectorate
<1>1. ASSUME IInv, TallyOK PROVE TallyOfElectorate
  BY <1>1, ProposalsShown, VotesShown, VoterShown, VotersListed DEF TallyOfElectorate
<1> QED BY <1>1, Invariant, Tallied, PTL
=============================================================================
