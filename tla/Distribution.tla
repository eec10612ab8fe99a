------------------------------ MODULE Distribution ------------------------------
(***************************************************************************)
(* The reward accounting of tgrade-trusted-circle/src/distribution.rs:     *)
(* rewards are spread over the voting points by a running value of one     *)
(* point, and a correction per address cancels what was distributed while  *)
(* the address held no point.  Pure operators on one record d that holds   *)
(* the DistributionConfig item and the map of WithdrawAdjustments.         *)
(*                                                                         *)
(* Amounts are unbounded here: the code works on 128 bits and rewards that *)
(* overflow them are out of reach.  A negative amount is not: the code     *)
(* casts it to u128, where it is so large that the subtraction from        *)
(* withdrawable_total panics and the transaction aborts (CanWithdraw).     *)
(***************************************************************************)
EXTENDS Integers

CONSTANTS
  Addr,          \* the accounts
  POINT_SCALE    \* 2^POINTS_SHIFT, the value of one token in points

ASSUME ScaleAssumption == POINT_SCALE \in Nat \ {0}

\* Distribution::init; an address without an entry has a zero adjustment
InitDistribution ==
  [points_per_points  |-> 0,
   points_leftover    |-> 0,
   distributed_total  |-> 0,
   withdrawable_total |-> 0,
   points_correction  |-> [a \in Addr |-> 0],
   withdrawn_funds    |-> [a \in Addr |-> 0]]

DistributionType ==
  [points_per_points  : Nat,
   points_leftover    : Nat,
   distributed_total  : Nat,
   withdrawable_total : Nat,
   points_correction  : [Addr -> Int],
   withdrawn_funds    : [Addr -> Nat]]

\* The contract's balance beyond what is already assigned to members
Undistributed(d, balance) == balance - d.withdrawable_total

distribute_rewards(d, balance, total) ==
  LET amount == Undistributed(d, balance)
      points == amount * POINT_SCALE + d.points_leftover
  IN [d EXCEPT !.points_leftover    = points % total,
               !.points_per_points  = @ + points \div total,
               !.distributed_total  = @ + amount,
               !.withdrawable_total = @ + amount]

\* Points the address has earned, spent or not; negative when it owes some
Entitlement(d, a, points) == d.points_per_points * points + d.points_correction[a]

withdrawable_rewards(d, a, points) ==
  Entitlement(d, a, points) \div POINT_SCALE - d.withdrawn_funds[a]

\* What an address is told: {} is the amount that a negative one becomes when it
\* is cast to u128, more than any balance
adjusted_withdrawable_rewards(d, a, points) ==
  {withdrawable_rewards(d, a, points)} \intersect Nat
distributed_rewards(d) == d.distributed_total

\* The checked arithmetic of withdraw_rewards: no operand may go below zero
CanWithdraw(d, a, points) ==
  /\ Entitlement(d, a, points) >= 0
  /\ withdrawable_rewards(d, a, points) >= 0
  /\ withdrawable_rewards(d, a, points) <= d.withdrawable_total

withdraw_rewards(d, a, points) ==
  LET amount == withdrawable_rewards(d, a, points)
  IN [d EXCEPT !.withdrawn_funds[a]  = @ + amount,
               !.withdrawable_total  = @ - amount]

\* The points of every address of A change by diff
apply_points_correction(d, A, diff) ==
  [d EXCEPT !.points_correction =
     [a \in Addr |-> IF a \in A
                       THEN d.points_correction[a] - d.points_per_points * diff
                       ELSE d.points_correction[a]]]
=============================================================================
