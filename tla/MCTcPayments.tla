------------------------------ MODULE MCTcPayments ------------------------------
(***************************************************************************)
(* A small instance of TcPayments for TLC: days of four ticks whose first  *)
(* hour is two, and periods of two days or more from days 0, 2 and 5.      *)
(***************************************************************************)
EXTENDS TcPayments

MCStartDays == {0, 2, 5}
=============================================================================
