----------------------------- MODULE MCOrderPage ----------------------------
(***************************************************************************)
(* Model values for the runs of OrderPage.                                 *)
(***************************************************************************)
EXTENDS OrderPage

CONSTANTS o1, f1, f2

MCFetches == {f1, f2}
=============================================================================
