------------------------------ MODULE MCLedger ------------------------------
(* Small instances of Ledger: two sessions, two users, amounts that tell     *)
(* every set of at most four entries apart.                                  *)
EXTENDS Ledger, TLC

CONSTANTS u1, u2, s1, s2

MCUser == {u1, u2}
MCSession == {s1, s2}
MCCashier == (s1 :> u1) @@ (s2 :> u2)
MCPaymentAmounts == {10}
MCUsageCosts == {3}
MCSubscriptionPrice == 50

=============================================================================
