----------------------------- MODULE MCOcProposals -----------------------------
(***************************************************************************)
(* A small instance of OcProposals and its queries for TLC: a group of two *)
(* whose points change, and contents that validate accepts and refuses.    *)
(***************************************************************************)
EXTENDS OcQueries

CONSTANTS alice, bob

MCAddr == {alice, bob}
MCValidators == {bob}
MCGroups == {[x \in MCAddr |-> IF x = alice THEN 1 ELSE 2], [x \in MCAddr |-> IF x = alice THEN 3 ELSE 0]}

MCRules == [voting_period |-> 1, quorum |-> 3, threshold |-> 5, allow_end_early |-> TRUE]

Grant(x, points) == [kind |-> "GrantEngagement", member |-> x, points |-> points]
PunishMember(x, portion, duration) ==
  [kind |-> "Punish", member |-> x, portion |-> portion, jailing_duration |-> duration]
Release(x) == [kind |-> "Unjail", member |-> x]
Configure(min_points) ==
  [kind |-> "UpdateConfig", denom_length |-> {3},
   fields |-> [f \in ConfigFields |-> IF f = "min_points" THEN min_points ELSE {}]]

Words == [kind |-> "Text"]

MCPageLimits == {{}}

MCConfig == [f \in ConfigFields |-> 1]
MCContents ==
  {Grant(bob, 2), PunishMember(bob, 5, "duration"), PunishMember(bob, 0, "none"), Release(bob),
   Configure({2}), Words}
====
