------------------------------ MODULE DisputeCase ------------------------------
(***************************************************************************)
(* What the arbiter pool promises about complaints, without votes, periods *)
(* or multisigs: the phases a complaint goes through, and the tokens that  *)
(* enter and leave the pool with them.  A case that is withdrawn or        *)
(* decided never pays out more than was deposited for it, is paid out at   *)
(* most once, and no case is withdrawn once it is accepted.                *)
(***************************************************************************)
EXTENDS Integers

CONSTANTS Case, cost

VARIABLES phase, pool

vars == <<phase, pool>>

Phase == {"Unknown", "Initiated", "Waiting", "Aborted", "Accepted",
          "Processing", "Withdrawn", "Closed"}

\* The tokens deposited for a case in each phase
Deposited(p) ==
  CASE p \in {"Initiated", "Aborted"}              -> cost
    [] p \in {"Waiting", "Accepted", "Processing"} -> 2 * cost
    [] OTHER                                       -> 0

Init == phase = [c \in Case |-> "Unknown"] /\ pool = 0

Move(c, from, to) == phase[c] = from /\ phase' = [phase EXCEPT ![c] = to]
Deposit == pool' = pool + cost
PayOut(c) == \E amount \in 0 .. Deposited(phase[c]) : pool' = pool - amount

\* With an empty waiting period the next phase begins at once
Register(c) == (\E to \in {"Initiated", "Aborted"} : Move(c, "Unknown", to)) /\ Deposit
Answer(c) == (\E to \in {"Waiting", "Accepted"} : Move(c, "Initiated", to)) /\ Deposit
Withdraw(c) ==
  /\ \E from \in {"Initiated", "Waiting", "Aborted"} : Move(c, from, "Withdrawn")
  /\ PayOut(c)
Assign(c) == Move(c, "Accepted", "Processing") /\ UNCHANGED pool
Decide(c) == Move(c, "Processing", "Closed") /\ PayOut(c)

\* A period ends unused: nobody answered, or nobody withdrew
Elapsed(from) ==
  CASE from = "Initiated" -> "Aborted" [] from = "Waiting" -> "Accepted" [] OTHER -> from
TimePasses ==
  /\ \E C \in SUBSET Case :
       phase' = [c \in Case |-> IF c \in C THEN Elapsed(phase[c]) ELSE phase[c]]
  /\ UNCHANGED pool

Next ==
  \/ \E c \in Case : Register(c) \/ Answer(c) \/ Withdraw(c) \/ Assign(c) \/ Decide(c)
  \/ TimePasses

Spec == Init /\ [][Next]_vars
=============================================================================
