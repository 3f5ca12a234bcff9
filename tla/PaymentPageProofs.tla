------------------------- MODULE PaymentPageProofs -------------------------
(***************************************************************************)
(* Proofs about PaymentPage, for any number of pages, members and entries, *)
(* any amounts and any limit: shapes, that a removal pairs an entry with   *)
(* its own member, that pages which work on old copies still implement the *)
(* ideal books, and that a history up to the limit is shown whole.         *)
(*                                                                         *)
(* RemovalMatchesUser is inductive with TypeOK: only a page without a      *)
(* member ever holds a stale list or entry, and while its dialog is open   *)
(* no member can be selected. The refinement of Books rests on it, and the *)
(* exact balance (Exact) on the refinement.                                *)
(***************************************************************************)
EXTENDS PaymentPage, SetFacts

-----------------------------------------------------------------------------
(* Sums and lists                                                           *)

\* The sum of an account is that of its entries.
LEMMA SumIsOfAccount ==
  ASSUME NEW es, NEW u
  PROVE  Sum(es, u) = AmountSum(OfAccount(es, u))
BY DEF Sum, AmountSum, OfAccount

LEMMA AmountsAreNumbers ==
  ASSUME NEW e \in Entry
  PROVE  e.amount \in Int /\ e.user \in Account /\ e.kind \in HistoryEntryType
<1>1. \A k \in HistoryEntryType : Amount[k] \subseteq Int
  BY PageAssumption
<1>2. e.amount \in UNION {Amount[k] : k \in HistoryEntryType}
  BY PageAssumption
<1>3. QED
  BY <1>1, <1>2, PageAssumption

\* Finitely many entries have a number as their sum.
LEMMA SumIsANumber ==
  ASSUME NEW es \in SUBSET Entry, IsFiniteSet(es), NEW u
  PROVE  Sum(es, u) \in Int
<1>1. IsFiniteSet(OfAccount(es, u)) /\ OfAccount(es, u) \subseteq Entry
  BY FS_Subset DEF OfAccount
<1>2. AmountSum(OfAccount(es, u)) \in Int
  BY <1>1, AmountsAreNumbers, SumOfOne
<1>3. QED
  BY <1>2, SumIsOfAccount

\* A list is cut from the answers of the three queries.
LEMMA ListIsACut ==
  ASSUME NEW es, NEW u, NEW list \in LastPaymentEntries(es, u)
  PROVE  \E ps \in Fetched(OfKind(OfAccount(es, u), 1)),
            us \in Fetched(OfKind(OfAccount(es, u), 2)),
            ss \in Fetched(OfKind(OfAccount(es, u), 3)) : list = Cut(ps \cup us \cup ss)
BY DEF LastPaymentEntries

\* A page gets entries of the member it asks for, and no others.
LEMMA ListIsOfAccount ==
  ASSUME NEW es, NEW u, NEW list \in LastPaymentEntries(es, u)
  PROVE  list \subseteq OfAccount(es, u)
<1> DEFINE mine(k) == OfKind(OfAccount(es, u), k)
<1>1. PICK ps \in Fetched(mine(1)), us \in Fetched(mine(2)), ss \in Fetched(mine(3)) :
        list = Cut(ps \cup us \cup ss)
  BY ListIsACut
<1>2. ASSUME NEW k, NEW part \in Fetched(mine(k)) PROVE part \subseteq OfAccount(es, u)
  BY <1>2 DEF Fetched, OfKind
<1>3. ps \cup us \cup ss \subseteq OfAccount(es, u)
  BY <1>1, <1>2
<1>4. Cut(ps \cup us \cup ss) \subseteq ps \cup us \cup ss
  BY DEF Cut, Newest
<1>5. QED
  BY <1>1, <1>3, <1>4

\* When no table holds more than the page asks for, all that is left is the cut.
LEMMA ListOfSmallTables ==
  ASSUME NEW es, NEW u, NEW list \in LastPaymentEntries(es, u),
         \A k : \A part \in Fetched(OfKind(OfAccount(es, u), k)) :
                  part = OfKind(OfAccount(es, u), k)
  PROVE  list = Cut(OfKind(OfAccount(es, u), 1) \cup OfKind(OfAccount(es, u), 2)
                    \cup OfKind(OfAccount(es, u), 3))
<1> DEFINE mine(k) == OfKind(OfAccount(es, u), k)
<1>1. PICK ps \in Fetched(mine(1)), us \in Fetched(mine(2)), ss \in Fetched(mine(3)) :
        list = Cut(ps \cup us \cup ss)
  BY ListIsACut
<1>2. ps = mine(1) /\ us = mine(2) /\ ss = mine(3)
  BY <1>1
<1>3. QED
  BY <1>1, <1>2

\* Up to the limit it gets them all: no table holds more than the page asks for,
\* and nothing is cut.
LEMMA ListIsComplete ==
  ASSUME NEW es \in SUBSET Entry, IsFiniteSet(es), NEW u,
         Cardinality(OfAccount(es, u)) <= Limit,
         NEW list \in LastPaymentEntries(es, u)
  PROVE  list = OfAccount(es, u)
<1> DEFINE own == OfAccount(es, u)
           mine(k) == OfKind(own, k)
<1>1. IsFiniteSet(own) /\ Cardinality(own) \in Nat /\ Limit \in Nat
  BY FS_Subset, FS_CardinalityType, PageAssumption DEF OfAccount
<1>2. ASSUME NEW k, NEW part \in Fetched(mine(k)) PROVE part = mine(k)
  <2>1. mine(k) \in SUBSET own
    BY DEF OfKind
  <2>2. Cardinality(mine(k)) <= Cardinality(own) /\ Cardinality(mine(k)) \in Nat
    BY <1>1, <2>1, FS_Subset, FS_CardinalityType
  <2>3. Cardinality(mine(k)) <= Limit
    BY <1>1, <2>2
  <2>4. QED
    BY <1>2, <2>3 DEF Fetched
<1> DEFINE rows == mine(1) \cup mine(2) \cup mine(3)
<1>3. list = Cut(rows)
  BY <1>2, ListOfSmallTables
<1>4. rows = own
  <2>1. \A e \in own : e.kind \in 1..3
    BY AmountsAreNumbers DEF OfAccount, HistoryEntryType
  <2>2. QED
    BY <2>1 DEF OfKind
<1>5. Cut(own) = own
  BY <1>1 DEF Cut
<1> HIDE DEF rows, own
<1>6. QED
  BY <1>3, <1>4, <1>5 DEF own

-----------------------------------------------------------------------------
(* What a step does to the books                                            *)

\* A reload puts a list of the member into the page, and a number as its sum; one
\* that fails leaves no list.
LEMMA ReloadEffect ==
  ASSUME TypeOK, entries' \subseteq Entry, IsFiniteSet(entries'),
         NEW p \in Page, NEW u, ReloadHistory(p, u)
  PROVE  \E list \in SUBSET Entry, there \in BOOLEAN :
           /\ \A e \in list : e.user = u
           /\ ~ there => list = {}
           /\ listHistory' = [listHistory EXCEPT ![p] = list]
           /\ loaded' = [loaded EXCEPT ![p] = there]
           /\ shownBalance' \in [Page -> Int]
<1>1. CASE LoadHistory(p, u)
  <2>1. PICK list \in LastPaymentEntries(entries', u) :
          /\ listHistory' = [listHistory EXCEPT ![p] = list]
          /\ loaded' = [loaded EXCEPT ![p] = TRUE]
          /\ shownBalance' = [shownBalance EXCEPT ![p] = Sum(list, u)]
    BY <1>1 DEF LoadHistory
  <2>2. list \subseteq OfAccount(entries', u)
    BY ListIsOfAccount
  <2>3. list \subseteq entries' /\ \A e \in list : e.user = u
    BY <2>2 DEF OfAccount
  <2>4. IsFiniteSet(list) /\ list \subseteq Entry
    BY <2>3, FS_Subset
  <2>5. Sum(list, u) \in Int
    BY <2>4, SumIsANumber
  <2>6. shownBalance' \in [Page -> Int]
    BY <2>1, <2>5 DEF TypeOK
  <2>7. QED
    BY <2>1, <2>3, <2>4, <2>6
<1>2. CASE LoseHistory(p)
  <2>1. /\ listHistory' = [listHistory EXCEPT ![p] = {}]
        /\ loaded' = [loaded EXCEPT ![p] = FALSE]
        /\ shownBalance' = shownBalance
    BY <1>2 DEF LoseHistory
  <2>2. shownBalance' \in [Page -> Int]
    BY <2>1 DEF TypeOK
  <2>3. {} \in SUBSET Entry /\ \A e \in {} : e.user = u
    OBVIOUS
  <2>4. QED
    BY <2>1, <2>2, <2>3
<1>3. QED
  BY <1>1, <1>2 DEF ReloadHistory

\* The entries there have been are finitely many, and those of the books are some
\* of them.
Finite == IsFiniteSet(posted) /\ entries \subseteq posted

\* Every account carries the sum of its history.
Exact == \A u \in Account : balance[u] = Sum(entries, u)

RemovalInv == TypeOK /\ Finite /\ RemovalMatchesUser

\* A new entry is one: its number is within the bound.
LEMMA NewEntry ==
  ASSUME TypeOK, Finite, Cardinality(posted) < MaxEntries,
         NEW u \in Account, NEW k \in HistoryEntryType, NEW date \in Dates,
         NEW a \in Amount[k]
  PROVE  [id |-> Cardinality(posted) + 1, kind |-> k, user |-> u, date |-> date,
          amount |-> a] \in Entry
<1>1. Cardinality(posted) \in Nat
  BY FS_CardinalityType DEF Finite
<1>2. Cardinality(posted) + 1 \in 1..MaxEntries
  BY <1>1, PageAssumption
<1>3. a \in UNION {Amount[j] : j \in HistoryEntryType}
  OBVIOUS
<1>4. QED
  BY <1>2, <1>3, PageAssumption

\* A balance that is computed again is a number.
LEMMA RebalanceType ==
  ASSUME TypeOK, entries' \subseteq Entry, IsFiniteSet(entries'),
         NEW u \in Account, Rebalance(u)
  PROVE  balance' \in [Account -> Int]
<1>1. Sum(entries', u) \in Int
  BY SumIsANumber
<1>2. QED
  BY <1>1 DEF Rebalance, TypeOK

\* An addition is a step of the books; the page reloads the member's history.
LEMMA AddEffect ==
  ASSUME RemovalInv, NEW p \in Page, NEW k \in HistoryEntryType,
         NEW date \in Dates, NEW a \in Amount[k], Add(p, k, date, a)
  PROVE  /\ userSelected[p] \in Account
         /\ \E e \in Entry : e.user = userSelected[p] /\ Post(e) /\ Rebalance(e.user)
         /\ ReloadHistory(p, userSelected[p])
         /\ UNCHANGED <<userSelected, selectedEntry, panel, dialog>>
<1>1. userSelected[p] \in Account
  BY DEF Add, RemovalInv, TypeOK
<1> DEFINE e == [id |-> Cardinality(posted) + 1, kind |-> k, user |-> userSelected[p],
                 date |-> date, amount |-> a]
<1>2. Post(e) /\ Rebalance(userSelected[p]) /\ Cardinality(posted) < MaxEntries
  BY DEF Add
<1>3. e \in Entry
  BY <1>1, <1>2, NewEntry DEF RemovalInv
<1>4. e.user = userSelected[p]
  OBVIOUS
<1> HIDE DEF e
<1>5. \E f \in Entry : f.user = userSelected[p] /\ Post(f) /\ Rebalance(f.user)
  BY <1>2, <1>3, <1>4
<1>6. QED
  BY <1>1, <1>5 DEF Add

\* A removal that succeeds is a step of the books: the entry it strikes is one of
\* the member whose balance is computed.
LEMMA RemoveEffect ==
  ASSUME RemovalInv, NEW p \in Page, RemoveHistoryEntry(p), ~ RemovalFails(p)
  PROVE  /\ userSelected[p] \in Account
         /\ \E e \in Entry : e.user = userSelected[p] /\ Strike(e) /\ Rebalance(e.user)
         /\ ReloadHistory(p, userSelected[p])
         /\ UNCHANGED <<userSelected, selectedEntry, panel>>
         /\ dialog[p] /\ \E closed \in BOOLEAN : dialog' = [dialog EXCEPT ![p] = ~closed]
<1>1. userSelected[p] # NoAccount /\ userSelected[p] \in Account
  BY DEF RemovalFails, RemovalInv, TypeOK
<1>2. PICK e \in selectedEntry[p] : Strike(e) /\ Rebalance(userSelected[p])
  BY DEF RemoveHistoryEntry
<1>3. dialog[p]
  BY DEF RemoveHistoryEntry
<1>4. e.user = userSelected[p]
  BY <1>1, <1>2, <1>3 DEF RemovalInv, RemovalMatchesUser
<1>5. e \in Entry
  BY <1>2 DEF RemovalInv, TypeOK
<1>6. \E f \in Entry : f.user = userSelected[p] /\ Strike(f) /\ Rebalance(f.user)
  BY <1>2, <1>4, <1>5
<1>7. QED
  BY <1>1, <1>3, <1>6 DEF RemoveHistoryEntry

\* A step of the books keeps them well formed.
LEMMA BooksType ==
  ASSUME TypeOK, Finite, NEW e \in Entry, Post(e) \/ Strike(e), Rebalance(e.user)
  PROVE  /\ Finite' /\ entries' \subseteq Entry /\ posted' \subseteq Entry
         /\ IsFiniteSet(entries') /\ balance' \in [Account -> Int]
<1>1. IsFiniteSet(posted')
  BY FS_AddElement DEF Post, Strike, Finite
<1>2. entries' \subseteq posted' /\ entries' \subseteq Entry /\ posted' \subseteq Entry
  BY DEF Post, Strike, Finite, TypeOK
<1>3. IsFiniteSet(entries')
  BY <1>1, <1>2, FS_Subset
<1>4. e.user \in Account
  BY AmountsAreNumbers
<1>5. QED
  BY <1>1, <1>2, <1>3, <1>4, RebalanceType DEF Finite

-----------------------------------------------------------------------------
(* Shapes, and whose entry is removed                                       *)

LEMMA InitRemoval == Init => RemovalInv
<1> SUFFICES ASSUME Init PROVE RemovalInv
  OBVIOUS
<1>1. TypeOK
  BY DEF Init, BooksInit, JournalInit, TypeOK
<1>2. Finite
  BY FS_EmptySet DEF Init, BooksInit, JournalInit, Finite
<1>3. RemovalMatchesUser
  BY DEF Init, RemovalMatchesUser
<1>4. QED
  BY <1>1, <1>2, <1>3 DEF RemovalInv

\* A page that has loaded the history of its member shows only his.
LEMMA ReloadKeeps ==
  ASSUME RemovalInv, entries' \subseteq Entry, posted' \subseteq Entry,
         IsFiniteSet(entries'), Finite', balance' \in [Account -> Int],
         NEW p \in Page, NEW u \in Account, ReloadHistory(p, u),
         userSelected' = [userSelected EXCEPT ![p] = u],
         dialog[p] => u = userSelected[p], UNCHANGED selectedEntry,
         panel' \in [Page -> BOOLEAN], dialog' \in [Page -> BOOLEAN],
         \A q \in Page : dialog'[q] => dialog[q]
  PROVE  RemovalInv'
<1>1. TypeOK /\ u # NoAccount
  BY PageAssumption DEF RemovalInv
<1>2. PICK list \in SUBSET Entry, there \in BOOLEAN :
        /\ \A e \in list : e.user = u
        /\ ~ there => list = {}
        /\ listHistory' = [listHistory EXCEPT ![p] = list]
        /\ loaded' = [loaded EXCEPT ![p] = there]
        /\ shownBalance' \in [Page -> Int]
  BY <1>1, ReloadEffect
<1>3. TypeOK'
  BY <1>1, <1>2 DEF TypeOK
<1>4. ASSUME NEW q \in Page, userSelected'[q] # NoAccount
      PROVE  \A e \in listHistory'[q] : e.user = userSelected'[q]
  BY <1>1, <1>2, <1>4 DEF TypeOK, RemovalInv, RemovalMatchesUser
<1>5. ASSUME NEW q \in Page, dialog'[q], userSelected'[q] # NoAccount
      PROVE  \A e \in selectedEntry'[q] : e.user = userSelected'[q]
  <2>1. dialog[q] /\ userSelected'[q] = userSelected[q]
    BY <1>1, <1>5 DEF TypeOK
  <2>2. QED
    BY <1>5, <2>1 DEF RemovalInv, RemovalMatchesUser
<1>6. QED
  BY <1>3, <1>4, <1>5 DEF RemovalInv, RemovalMatchesUser

LEMMA SelectKeeps ==
  ASSUME RemovalInv, NEW p \in Page, NEW u \in Account, HandleUserSelected(p, u)
  PROVE  RemovalInv'
<1>1. /\ ~ dialog[p] /\ ReloadHistory(p, u)
      /\ userSelected' = [userSelected EXCEPT ![p] = u]
      /\ panel' = [panel EXCEPT ![p] = TRUE]
      /\ UNCHANGED <<journal, balance, selectedEntry, dialog>>
  BY DEF HandleUserSelected
<1>2. /\ entries' \subseteq Entry /\ posted' \subseteq Entry /\ IsFiniteSet(entries')
      /\ Finite' /\ balance' \in [Account -> Int]
  BY <1>1, FS_Subset DEF RemovalInv, TypeOK, Finite, journal, history
<1>3. panel' \in [Page -> BOOLEAN] /\ dialog' \in [Page -> BOOLEAN]
  BY <1>1 DEF RemovalInv, TypeOK
<1>4. QED
  BY <1>1, <1>2, <1>3, ReloadKeeps

LEMMA ClearKeeps ==
  ASSUME RemovalInv, NEW p \in Page, ClearSelectedUser(p)
  PROVE  RemovalInv'
<1>1. /\ ~ dialog[p] /\ userSelected' = [userSelected EXCEPT ![p] = NoAccount]
      /\ panel' \in {panel, [panel EXCEPT ![p] = FALSE]}
      /\ UNCHANGED <<journal, balance, history, selectedEntry, dialog>>
  BY DEF ClearSelectedUser
<1>2. TypeOK' /\ Finite'
  BY <1>1 DEF RemovalInv, TypeOK, Finite, journal, history
<1>3. ASSUME NEW q \in Page, userSelected'[q] # NoAccount
      PROVE  q # p /\ userSelected'[q] = userSelected[q]
  BY <1>1, <1>3 DEF RemovalInv, TypeOK
<1>4. RemovalMatchesUser'
  BY <1>1, <1>3 DEF history, RemovalInv, RemovalMatchesUser
<1>5. QED
  BY <1>2, <1>4 DEF RemovalInv

LEMMA AddKeeps ==
  ASSUME RemovalInv, NEW p \in Page, NEW k \in HistoryEntryType,
         NEW date \in Dates, NEW a \in Amount[k], Add(p, k, date, a)
  PROVE  RemovalInv'
<1>1. /\ userSelected[p] \in Account /\ ReloadHistory(p, userSelected[p])
      /\ UNCHANGED <<userSelected, selectedEntry, panel, dialog>>
  BY AddEffect
<1>2. PICK e \in Entry : Post(e) /\ Rebalance(e.user)
  BY AddEffect
<1>3. /\ Finite' /\ entries' \subseteq Entry /\ posted' \subseteq Entry
      /\ IsFiniteSet(entries') /\ balance' \in [Account -> Int]
  BY <1>2, BooksType DEF RemovalInv
<1>4. userSelected' = [userSelected EXCEPT ![p] = userSelected[p]]
  BY <1>1 DEF RemovalInv, TypeOK
<1>5. panel' \in [Page -> BOOLEAN] /\ dialog' \in [Page -> BOOLEAN]
  BY <1>1 DEF RemovalInv, TypeOK
<1>6. \A q \in Page : dialog'[q] => dialog[q]
  BY <1>1
<1>7. QED
  BY <1>1, <1>3, <1>4, <1>5, <1>6, ReloadKeeps

LEMMA PickKeeps ==
  ASSUME RemovalInv, NEW p \in Page, NEW e, PickEntry(p, e)
  PROVE  RemovalInv'
<1>1. /\ e \in listHistory[p] /\ dialog' = [dialog EXCEPT ![p] = TRUE]
      /\ UNCHANGED <<journal, balance, userSelected, history, panel>>
      /\ \/ /\ userSelected[p] # NoAccount
            /\ selectedEntry' = [selectedEntry EXCEPT ![p] = {e}]
         \/ userSelected[p] = NoAccount /\ UNCHANGED selectedEntry
  BY DEF PickEntry
<1>2. TypeOK' /\ Finite'
  BY <1>1 DEF RemovalInv, TypeOK, Finite, journal, history
<1>3. ASSUME NEW q \in Page, dialog'[q], userSelected'[q] # NoAccount
      PROVE  \A f \in selectedEntry'[q] : f.user = userSelected'[q]
  <2>1. CASE q = p
    BY <1>1, <1>3, <2>1 DEF RemovalInv, TypeOK, RemovalMatchesUser
  <2>2. CASE q # p
    <3>1. dialog[q] /\ selectedEntry'[q] = selectedEntry[q]
      BY <1>1, <1>3, <2>2 DEF RemovalInv, TypeOK
    <3>2. QED
      BY <1>1, <1>3, <3>1 DEF RemovalInv, RemovalMatchesUser
  <2>3. QED
    BY <2>1, <2>2
<1>4. RemovalMatchesUser'
  BY <1>1, <1>3 DEF history, RemovalInv, RemovalMatchesUser
<1>5. QED
  BY <1>2, <1>4 DEF RemovalInv

\* Cancelling, and a removal that fails: at most a dialog closes.
LEMMA ClosingKeeps ==
  ASSUME RemovalInv, NEW p \in Page, NEW open \in BOOLEAN,
         dialog[p], dialog' = [dialog EXCEPT ![p] = open],
         UNCHANGED <<journal, balance, userSelected, history,
                     selectedEntry, panel>>
  PROVE  RemovalInv'
<1>1. TypeOK' /\ Finite'
  BY DEF RemovalInv, TypeOK, Finite, journal, history
<1>2. \A q \in Page : dialog'[q] => dialog[q]
  BY DEF RemovalInv, TypeOK
<1>3. QED
  BY <1>1, <1>2 DEF history, RemovalInv, RemovalMatchesUser

LEMMA RemoveKeeps ==
  ASSUME RemovalInv, NEW p \in Page, RemoveHistoryEntry(p)
  PROVE  RemovalInv'
<1>1. CASE RemovalFails(p)
  <2>1. /\ dialog[p]
        /\ UNCHANGED <<journal, balance, userSelected, history,
                       selectedEntry, panel>>
    BY <1>1 DEF RemoveHistoryEntry
  <2>2. PICK closed \in BOOLEAN : dialog' = [dialog EXCEPT ![p] = ~closed]
    BY DEF RemoveHistoryEntry
  <2>3. QED
    BY <2>1, <2>2, ClosingKeeps
<1>2. CASE ~ RemovalFails(p)
  <2>1. /\ userSelected[p] \in Account /\ ReloadHistory(p, userSelected[p])
        /\ UNCHANGED <<userSelected, selectedEntry, panel>>
        /\ dialog[p] /\ \E closed \in BOOLEAN : dialog' = [dialog EXCEPT ![p] = ~closed]
    BY <1>2, RemoveEffect
  <2>2. PICK e \in Entry : Strike(e) /\ Rebalance(e.user)
    BY <1>2, RemoveEffect
  <2>3. /\ Finite' /\ entries' \subseteq Entry /\ posted' \subseteq Entry
        /\ IsFiniteSet(entries') /\ balance' \in [Account -> Int]
    BY <2>2, BooksType DEF RemovalInv
  <2>4. userSelected' = [userSelected EXCEPT ![p] = userSelected[p]]
    BY <2>1 DEF RemovalInv, TypeOK
  <2>5. /\ panel' \in [Page -> BOOLEAN] /\ dialog' \in [Page -> BOOLEAN]
        /\ \A q \in Page : dialog'[q] => dialog[q]
    BY <2>1 DEF RemovalInv, TypeOK
  <2>6. QED
    BY <2>1, <2>3, <2>4, <2>5, ReloadKeeps
<1>3. QED
  BY <1>1, <1>2

LEMMA NextRemoval ==
  ASSUME RemovalInv, [Next]_vars
  PROVE  RemovalInv'
<1>1. CASE UNCHANGED vars
  BY <1>1 DEF vars, page, history, journal, RemovalInv, TypeOK, Finite, RemovalMatchesUser
<1>2. ASSUME NEW p \in Page, Step(p) PROVE RemovalInv'
  <2>1. ASSUME NEW u \in Account, HandleUserSelected(p, u) PROVE RemovalInv'
    BY <2>1, SelectKeeps
  <2>2. CASE ClearSelectedUser(p)
    BY <2>2, ClearKeeps
  <2>3. ASSUME NEW k \in HistoryEntryType, NEW date \in Dates, NEW a \in Amount[k],
               Add(p, k, date, a)
        PROVE  RemovalInv'
    BY <2>3, AddKeeps
  <2>4. ASSUME NEW e, PickEntry(p, e) PROVE RemovalInv'
    BY <2>4, PickKeeps
  <2>5. CASE CancelRemoval(p)
    <3>1. /\ dialog[p] /\ dialog' = [dialog EXCEPT ![p] = FALSE]
          /\ UNCHANGED <<journal, balance, userSelected, history,
                         selectedEntry, panel>>
      BY <2>5 DEF CancelRemoval
    <3>2. QED
      BY <3>1, ClosingKeeps
  <2>6. CASE RemoveHistoryEntry(p)
    BY <2>6, RemoveKeeps
  <2>7. QED
    BY <1>2, <2>1, <2>2, <2>3, <2>4, <2>5, <2>6 DEF Step
<1>3. QED
  BY <1>1, <1>2 DEF Next

\* What the pages and the books hold keeps its shape: together with the next
\* theorem this is the invariant the others rest on.
THEOREM Invariance == Spec => []RemovalInv
BY InitRemoval, NextRemoval, PTL DEF Spec

\* The variables hold what the code stores in them.
THEOREM TypeCorrect == Spec => []TypeOK
<1>1. RemovalInv => TypeOK
  BY DEF RemovalInv
<1>2. QED
  BY <1>1, Invariance, PTL

\* A page shows no entry under another member's name, and the entry confirmed for
\* removal is one of the member whose balance the removal computes.
THEOREM RemovalsMatch == Spec => []RemovalMatchesUser
<1>1. RemovalInv => RemovalMatchesUser
  BY DEF RemovalInv
<1>2. QED
  BY <1>1, Invariance, PTL

-----------------------------------------------------------------------------
(* The ideal books                                                          *)

\* A request is one step of the books, or none.
LEMMA StepOfBooks ==
  ASSUME RemovalInv, [Next]_vars
  PROVE  [BooksNext]_<<journal, balance>>
<1>1. CASE UNCHANGED vars
  BY <1>1 DEF vars
<1>2. ASSUME NEW p \in Page, Step(p) PROVE [BooksNext]_<<journal, balance>>
  <2>1. ASSUME NEW u \in Account, HandleUserSelected(p, u)
        PROVE  UNCHANGED <<journal, balance>>
    BY <2>1 DEF HandleUserSelected
  <2>2. CASE ClearSelectedUser(p) \/ CancelRemoval(p) \/ \E e \in listHistory[p] : PickEntry(p, e)
    BY <2>2 DEF ClearSelectedUser, CancelRemoval, PickEntry
  <2>3. ASSUME NEW k \in HistoryEntryType, NEW date \in Dates, NEW a \in Amount[k],
               Add(p, k, date, a)
        PROVE  BooksNext
    BY <2>3, AddEffect DEF BooksNext
  <2>4. CASE RemoveHistoryEntry(p) /\ RemovalFails(p)
    BY <2>4 DEF RemoveHistoryEntry
  <2>5. CASE RemoveHistoryEntry(p) /\ ~ RemovalFails(p)
    BY <2>5, RemoveEffect DEF BooksNext
  <2>6. QED
    BY <1>2, <2>1, <2>2, <2>3, <2>4, <2>5 DEF Step
<1>3. QED
  BY <1>1, <1>2 DEF Next

\* Whatever the pages remember, what they do to the database is what the ideal
\* books allow: entries posted and struck once, every balance brought up to date.
THEOREM ImplementsBooks == Spec => BooksSpec
<1>1. Init => BooksInit
  BY DEF Init
<1>2. RemovalInv /\ [Next]_vars => [BooksNext]_<<journal, balance>>
  BY StepOfBooks
<1>3. QED
  BY <1>1, <1>2, Invariance, PTL DEF Spec, BooksSpec

LEMMA InitExact == Init => Exact
<1> SUFFICES ASSUME Init, NEW u \in Account PROVE balance[u] = Sum(entries, u)
  BY DEF Exact
<1>1. balance[u] = 0 /\ entries = {}
  BY DEF Init, BooksInit, JournalInit
<1>2. OfAccount(entries, u) = {}
  BY <1>1 DEF OfAccount
<1>3. AmountSum(OfAccount(entries, u)) = 0
  BY <1>2, SumOfNothing, Zenon
<1>4. QED
  BY <1>1, <1>3, SumIsOfAccount

\* A step of the books touches the history of one account, and its balance.
LEMMA BooksKeepExact ==
  ASSUME TypeOK, Exact, [BooksNext]_<<journal, balance>>
  PROVE  Exact'
<1>1. CASE UNCHANGED <<journal, balance>>
  <2>1. entries' = entries /\ balance' = balance
    BY <1>1 DEF journal
  <2>2. QED
    BY <2>1 DEF Exact
<1>2. ASSUME NEW e \in Entry, Post(e) \/ Strike(e), Rebalance(e.user) PROVE Exact'
  <2> SUFFICES ASSUME NEW u \in Account PROVE balance'[u] = Sum(entries', u)
    BY DEF Exact
  <2>1. balance' = [balance EXCEPT ![e.user] = Sum(entries', e.user)]
    BY <1>2 DEF Rebalance
  <2>2. CASE u = e.user
    BY <2>1, <2>2 DEF TypeOK
  <2>3. CASE u # e.user
    <3>1. OfAccount(entries', u) = OfAccount(entries, u)
      BY <1>2, <2>3 DEF Post, Strike, OfAccount
    <3>2. Sum(entries', u) = Sum(entries, u)
      <4>1. AmountSum(OfAccount(entries', u)) = AmountSum(OfAccount(entries, u))
        BY <3>1, Zenon
      <4>2. QED
        BY <4>1, SumIsOfAccount
    <3>3. balance'[u] = balance[u]
      BY <2>1, <2>3 DEF TypeOK
    <3>4. QED
      BY <3>2, <3>3 DEF Exact
  <2>4. QED
    BY <2>2, <2>3
<1>3. QED
  BY <1>1, <1>2 DEF BooksNext

\* At any time every account carries the sum of its history.
THEOREM BalancesExact == Spec => []Exact
<1>1. RemovalInv => TypeOK
  BY DEF RemovalInv
<1>2. RemovalInv /\ Exact /\ [Next]_vars => Exact'
  BY <1>1, StepOfBooks, BooksKeepExact
<1>3. QED
  BY <1>2, InitExact, Invariance, PTL DEF Spec

-----------------------------------------------------------------------------
(* What is shown                                                            *)

\* A list changes only when the page loads the history of its member.
LEMMA ListsChangeByReload ==
  ASSUME RemovalInv, [Next]_vars, NEW p \in Page, listHistory'[p] # listHistory[p]
  PROVE  userSelected'[p] \in Account /\ ReloadHistory(p, userSelected'[p])
<1>1. ASSUME NEW q \in Page, NEW u, ReloadHistory(q, u) PROVE q = p
  BY <1>1 DEF ReloadHistory, LoadHistory, LoseHistory, RemovalInv, TypeOK
<1>2. PICK q \in Page : Step(q)
  BY DEF Next, vars, page, history
<1>3. CASE \E u \in Account : HandleUserSelected(q, u)
  <2>1. PICK u \in Account : HandleUserSelected(q, u)
    BY <1>3
  <2>2. q = p /\ userSelected'[p] = u
    BY <1>1, <2>1 DEF HandleUserSelected, RemovalInv, TypeOK
  <2>3. QED
    BY <2>1, <2>2 DEF HandleUserSelected
<1>4. CASE \E k \in HistoryEntryType, date \in Dates : \E a \in Amount[k] : Add(q, k, date, a)
  <2>1. /\ userSelected[q] \in Account /\ ReloadHistory(q, userSelected[q])
        /\ userSelected' = userSelected
    BY <1>4, AddEffect
  <2>2. QED
    BY <1>1, <2>1
<1>5. CASE RemoveHistoryEntry(q)
  <2>1. ~ RemovalFails(q)
    BY <1>5 DEF RemoveHistoryEntry, history
  <2>2. /\ userSelected[q] \in Account /\ ReloadHistory(q, userSelected[q])
        /\ userSelected' = userSelected
    BY <1>5, <2>1, RemoveEffect
  <2>3. QED
    BY <1>1, <2>2
<1>6. CASE ClearSelectedUser(q) \/ CancelRemoval(q) \/ \E e \in listHistory[q] : PickEntry(q, e)
  BY <1>6 DEF ClearSelectedUser, CancelRemoval, PickEntry, history
<1>7. QED
  BY <1>2, <1>3, <1>4, <1>5, <1>6 DEF Step

\* A list that is the whole history has the stored balance as its sum.
LEMMA ReloadShowsAll ==
  ASSUME TypeOK, TypeOK', Finite', Exact', NEW p \in Page, NEW u \in Account,
         LoadHistory(p, u), Cardinality(OfAccount(entries', u)) <= Limit
  PROVE  listHistory'[p] = OfAccount(entries', u) /\ shownBalance'[p] = balance'[u]
<1>1. entries' \subseteq Entry /\ IsFiniteSet(entries')
  BY FS_Subset DEF TypeOK, Finite
<1>2. PICK list \in LastPaymentEntries(entries', u) :
        /\ listHistory' = [listHistory EXCEPT ![p] = list]
        /\ shownBalance' = [shownBalance EXCEPT ![p] = Sum(list, u)]
  BY DEF LoadHistory
<1>3. list = OfAccount(entries', u)
  BY <1>1, ListIsComplete
<1>4. Sum(list, u) = Sum(entries', u)
  <2>1. OfAccount(list, u) = OfAccount(entries', u)
    BY <1>3 DEF OfAccount
  <2>2. AmountSum(OfAccount(list, u)) = AmountSum(OfAccount(entries', u))
    BY <2>1, Zenon
  <2>3. QED
    BY <2>2, SumIsOfAccount
<1>5. Sum(entries', u) = balance'[u]
  BY DEF Exact
<1>6. QED
  BY <1>2, <1>3, <1>4, <1>5 DEF TypeOK

\* A history no longer than the limit is shown whole when it is loaded, and adds up
\* to the balance stored, whatever other pages have done since it was last loaded.
THEOREM CompleteHistories == Spec => CompleteUpToLimit
<1> DEFINE Complete ==
      \A p \in Page :
        /\ listHistory'[p] # listHistory[p] /\ loaded'[p]
        /\ Cardinality(OfAccount(entries', userSelected'[p])) <= Limit
        => /\ listHistory'[p] = OfAccount(entries', userSelected'[p])
           /\ shownBalance'[p] = balance'[userSelected'[p]]
<1>1. RemovalInv /\ RemovalInv' /\ Exact' /\ [Next]_vars => Complete
  <2> SUFFICES ASSUME RemovalInv, RemovalInv', Exact', [Next]_vars, NEW p \in Page,
                      listHistory'[p] # listHistory[p], loaded'[p],
                      Cardinality(OfAccount(entries', userSelected'[p])) <= Limit
               PROVE  /\ listHistory'[p] = OfAccount(entries', userSelected'[p])
                      /\ shownBalance'[p] = balance'[userSelected'[p]]
    OBVIOUS
  <2>1. userSelected'[p] \in Account /\ ReloadHistory(p, userSelected'[p])
    BY ListsChangeByReload
  <2>2. TypeOK /\ TypeOK' /\ Finite'
    BY DEF RemovalInv
  <2>3. LoadHistory(p, userSelected'[p])
    BY <2>1, <2>2 DEF ReloadHistory, LoseHistory, TypeOK
  <2>4. QED
    BY <2>1, <2>2, <2>3, ReloadShowsAll
<1> HIDE DEF Complete
<1>2. Spec => [][Complete]_vars
  BY <1>1, Invariance, BalancesExact, PTL DEF Spec
<1>3. QED
  BY <1>2, PTL DEF CompleteUpToLimit, Complete

=============================================================================
