--------------------------- MODULE MCPaymentPage ---------------------------
(***************************************************************************)
(* Small instances of PaymentPage: a limit of two entries where the lists  *)
(* are cut, two members and two pages where they could be mixed up.        *)
(***************************************************************************)
EXTENDS PaymentPage, TLC

CONSTANTS alice, bob, p1, p2, nobody

Symmetric == Permutations(Page) \cup Permutations(Account)

\* No usages: beyond the order of the list they behave as payments do.
MCAmount == <<{10}, {}, {-50}>>
MCEntry == [id : 1..MaxEntries, kind : 1..3, user : Account, date : Dates,
            amount : {10, -50}]

=============================================================================
