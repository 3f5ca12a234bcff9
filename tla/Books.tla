-------------------------------- MODULE Books --------------------------------
(***************************************************************************)
(* What a member may expect of the books, with no transactions in sight.   *)
(* An entry is posted once and may be struck once; the journal of both is  *)
(* never rewritten (JournalSpec). In the ideal books every such step also  *)
(* brings the balance of the account up to date (BooksSpec).               *)
(***************************************************************************)
EXTENDS Integers, FiniteSetsExt

CONSTANTS Account, Entry

VARIABLES
  entries,   \* the history a reader sees
  posted,    \* entries ever posted
  struck,    \* entries ever struck
  balance    \* the balance shown for each account

journal == <<entries, posted, struck>>

Sum(es, a) == MapThenSumSet(LAMBDA e : e.amount, {e \in es : e.user = a})

JournalInit == entries = {} /\ posted = {} /\ struck = {}

Post(e) ==
  /\ e \notin posted
  /\ entries' = entries \cup {e}
  /\ posted' = posted \cup {e}
  /\ struck' = struck

Strike(e) ==
  /\ e \in entries
  /\ entries' = entries \ {e}
  /\ struck' = struck \cup {e}
  /\ posted' = posted

JournalNext == \E e \in Entry : Post(e) \/ Strike(e)

JournalSpec == JournalInit /\ [][JournalNext]_journal

Rebalance(a) == balance' = [balance EXCEPT ![a] = Sum(entries', a)]

BooksInit == JournalInit /\ balance = [a \in Account |-> 0]

BooksNext == \E e \in Entry : (Post(e) \/ Strike(e)) /\ Rebalance(e.user)

BooksSpec == BooksInit /\ [][BooksNext]_<<journal, balance>>

=============================================================================
