----------------------------- MODULE MCArbiterPool -----------------------------
(***************************************************************************)
(* Small instances of ArbiterPool for TLC.  Numbers stand for addresses.   *)
(***************************************************************************)
EXTENDS ApQueries

CONSTANTS a, b, c

MCAddr == {a, b, c}
MCDisputes == {<<a, b>>}
\* three arbiters, two entries of one address, and none
MCLists == {<<a, b, c>>, <<a, a>>, << >>}
MCPageLimits == {{1}}

\* A pool that was bootstrapped without the code of the multisig, and migrations:
\* one gives it the code and a shorter period, one keeps the period
Before == {[waiting_period |-> 2, multisig_code_id |-> 0]}
Migrations == {[waiting_period |-> 1, multisig_code_id |-> 1],
               [waiting_period |-> 0, multisig_code_id |-> 1]}
=============================================================================
