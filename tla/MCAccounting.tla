--------------------------- MODULE MCAccounting ---------------------------
(***************************************************************************)
(* A small instance of Accounting: years of two months of two days.        *)
(***************************************************************************)
EXTENDS Accounting

MCAmounts == {-1, 2}

=============================================================================
