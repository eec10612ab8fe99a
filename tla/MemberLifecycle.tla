---------------------------- MODULE MemberLifecycle ----------------------------
(***************************************************************************)
(* What a trusted circle promises its members about their escrows and      *)
(* their votes, without proposals, batches or heights.  Nobody votes who   *)
(* did not pay the fee of the time; a vote is lost by leaving, by a        *)
(* punishment or, if less was paid, by a raised fee, and to nobody else;   *)
(* who leaves is refunded in full, at most once, and every other token     *)
(* that leaves the vault was slashed from the escrow it is missing in.     *)
(***************************************************************************)
EXTENDS Integers, Functions

CONSTANTS Addr, Founder

VARIABLES standing, held, vault, fee

vars == <<standing, held, vault, fee>>

Standing == {"None", "NonVoting", "Pending", "PendingPaid", "Voting", "Leaving"}

Init ==
  /\ standing \in [Addr -> {"None", "NonVoting", "Voting"}]
  /\ \A a \in Addr : standing[a] = "Voting" <=> a = Founder
  /\ held = [a \in Addr |-> IF a = Founder THEN vault ELSE 0]
  /\ fee > 0 /\ vault >= fee

\* Everybody stays or makes one of the moves
Moves(moves) ==
  /\ standing' \in [Addr -> Standing]
  /\ \A a \in Addr : \/ standing'[a] = standing[a]
                     \/ <<standing[a], standing'[a]>> \in moves

\* Only a pays, or is paid
OnlyOf(a) ==
  /\ \A b \in Addr \ {a} : held'[b] = held[b]
  /\ vault' - vault = held'[a] - held[a]
  /\ UNCHANGED fee

Promotion == {<<"PendingPaid", "Voting">>}

Observe ==
  /\ Moves({<<"None", "NonVoting">>, <<"NonVoting", "None">>})
  /\ UNCHANGED <<held, vault, fee>>

VoteIn ==
  /\ Moves({<<"None", "Pending">>, <<"NonVoting", "Pending">>})
  /\ UNCHANGED <<held, vault, fee>>

\* Who completes its payment may complete that of others, never without itself
Pay(a) ==
  /\ standing[a] \in {"Pending", "PendingPaid", "Voting"} /\ held'[a] > held[a]
  /\ OnlyOf(a)
  /\ Moves(Promotion \cup ({"Pending"} \X {"PendingPaid", "Voting"}))
  /\ \A b \in Addr \ {a} : standing'[b] # standing[b] =>
       standing[b] = "PendingPaid" /\ <<standing[a], standing'[a]>> = <<"Pending", "Voting">>
  /\ standing'[a] # standing[a] => standing[a] = "Pending" /\ held'[a] >= fee

\* A batch is done, and a changed fee is enforced: a raised one takes the vote
\* from who holds less, a lowered one is enough for who waits
Settle ==
  /\ UNCHANGED <<held, vault>>
  /\ CASE fee' > fee ->
            /\ Moves(Promotion \cup {<<"Voting", "Pending">>})
            /\ \A a \in Addr : standing[a] = "Voting" =>
                 (standing'[a] = "Pending" <=> held[a] < fee')
       [] fee' < fee ->
            /\ Moves(Promotion \cup ({"Pending"} \X {"PendingPaid", "Voting"}))
            /\ \A a \in Addr : standing[a] = "Pending" =>
                 (standing'[a] # "Pending" <=> held[a] >= fee')
       [] OTHER -> Moves(Promotion)

\* A voter keeps the fee and its vote; a leaver gets everything and is out
Refund(a) ==
  /\ held'[a] < held[a] /\ OnlyOf(a)
  /\ \/ standing[a] = "Voting" /\ held'[a] >= fee /\ UNCHANGED standing
     \/ /\ standing[a] = "Leaving" /\ held'[a] = 0
        /\ standing' = [standing EXCEPT ![a] = "None"]

\* Who has paid nothing is out at once
Leave(a) ==
  /\ \/ /\ standing[a] \in {"Pending", "PendingPaid", "Voting"}
        /\ standing[a] = "Pending" => held[a] > 0
        /\ standing' = [standing EXCEPT ![a] = "Leaving"]
     \/ /\ standing[a] \in {"NonVoting", "Pending"} /\ held[a] = 0
        /\ standing' = [standing EXCEPT ![a] = "None"]
  /\ UNCHANGED <<held, vault, fee>>

\* Members P are slashed; who stays what it was still has the fee
Punish(P) ==
  /\ \A a \in P : /\ standing[a] \notin {"None", "NonVoting"}
                  /\ held'[a] <= held[a]
                  /\ \/ standing'[a] = standing[a] /\ held'[a] >= fee
                     \/ standing'[a] \in {"Pending", "Leaving"}
  /\ \A a \in Addr \ P : held'[a] = held[a] /\ standing'[a] = standing[a]
  /\ standing' \in [Addr -> Standing]
  /\ vault' = vault - FoldFunction(+, 0, [a \in P |-> held[a] - held'[a]])
  /\ UNCHANGED fee

Next ==
  \/ Observe \/ VoteIn \/ Settle
  \/ \E a \in Addr : Pay(a) \/ Refund(a) \/ Leave(a)
  \/ \E P \in SUBSET Addr : Punish(P)

Spec == Init /\ [][Next]_vars
=============================================================================
