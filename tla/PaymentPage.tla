----------------------------- MODULE PaymentPage -----------------------------
(***************************************************************************)
(* The payment page: cashiers pick a member, see his history and balance,  *)
(* add payments, usages and subscriptions and remove entries. Each page    *)
(* keeps copies of the member, the history and the entry to remove between *)
(* its requests, while other pages change the books.                       *)
(*                                                                         *)
(* A transaction is one step of Books here: Ledger is the module about     *)
(* transactions that overlap. External: the browser and PrimeFaces, which  *)
(* drop a click on a component that is no longer rendered and keep the     *)
(* page locked while the confirmation dialog is open. No click is lost.    *)
(***************************************************************************)
EXTENDS Books, FiniteSets

CONSTANTS
  Page,        \* open payment pages
  NoAccount,   \* no member selected
  Amount,      \* amounts booked for each kind
  Dates,       \* dates that can be entered
  Limit,       \* entries a page asks for (100 in the code)
  MaxEntries   \* bound: entries ever booked

\* The kinds in the order of their enumeration type, by which entries of one
\* date are sorted: payments, usages, subscriptions.
HistoryEntryType == 1..3
SUBSCRIPTION == 3

ASSUME PageAssumption ==
  /\ NoAccount \notin Account
  /\ Amount \in [HistoryEntryType -> SUBSET Int]
  /\ Dates \subseteq Int
  /\ Limit \in Nat \ {0}
  /\ MaxEntries \in Nat
  /\ Entry = [id : 1..MaxEntries, kind : HistoryEntryType, user : Account,
              date : Dates, amount : UNION {Amount[k] : k \in HistoryEntryType}]

VARIABLES
  userSelected,   \* the member each page works on
  listHistory,    \* the entries it shows
  loaded,         \* is listHistory a list, and not null
  shownBalance,   \* the balance it shows
  selectedEntry,  \* the entry picked for removal: none or one
  panel,          \* does the browser show the panel with the history
  dialog          \* is its confirmation dialog open

history == <<listHistory, loaded, shownBalance>>
page == <<userSelected, history, selectedEntry, panel, dialog>>
vars == <<journal, balance, page>>

Init ==
  /\ BooksInit
  /\ userSelected = [p \in Page |-> NoAccount]
  /\ listHistory = [p \in Page |-> {}]
  /\ loaded = [p \in Page |-> FALSE]
  /\ shownBalance = [p \in Page |-> 0]
  /\ selectedEntry = [p \in Page |-> {}]
  /\ panel = [p \in Page |-> FALSE]
  /\ dialog = [p \in Page |-> FALSE]

(***************************************************************************)
(* What getLastPaymentEntries returns                                      *)
(***************************************************************************)
\* HistoryEntry.compareTo: newest first, then by type and id downwards.
Before(e, f) ==
  \/ e.date > f.date
  \/ e.date = f.date /\ e.kind > f.kind
  \/ e.date = f.date /\ e.kind = f.kind /\ e.id > f.id

Newest(rows, n) ==
  {e \in rows : Cardinality({f \in rows : Before(f, e)}) < n}

\* getByUser asks each table for at most Limit rows and states no order: the
\* database may return any of them.
Fetched(rows) ==
  IF Cardinality(rows) <= Limit THEN {rows}
  ELSE {part \in SUBSET rows : Cardinality(part) = Limit}

\* Slip: the cut takes one entry less already when the limit is reached.
CutEarly(rows) ==
  IF Cardinality(rows) >= Limit THEN Newest(rows, Limit - 1) ELSE rows

\* More than Limit entries are cut to subList(0, nb - 1).
Cut(rows) ==
  IF Cardinality(rows) > Limit THEN Newest(rows, Limit - 1) ELSE rows

OfAccount(es, u) == {e \in es : e.user = u}
OfKind(es, k) == {e \in es : e.kind = k}

\* The lists a page may get for a member, from its three queries.
LastPaymentEntries(es, u) ==
  LET rows(k) == Fetched(OfKind(OfAccount(es, u), k))
  IN {Cut(ps \cup us \cup ss) : ps \in rows(1), us \in rows(2), ss \in rows(3)}

\* The page adds up what it shows.
LoadHistory(p, u) ==
  \E list \in LastPaymentEntries(entries', u) :
    /\ listHistory' = [listHistory EXCEPT ![p] = list]
    /\ loaded' = [loaded EXCEPT ![p] = TRUE]
    /\ shownBalance' = [shownBalance EXCEPT ![p] = Sum(list, u)]

\* The query throws a FablabException: no list, under the balance shown before.
LoseHistory(p) ==
  /\ listHistory' = [listHistory EXCEPT ![p] = {}]
  /\ loaded' = [loaded EXCEPT ![p] = FALSE]
  /\ UNCHANGED shownBalance

\* Slip: the old list stays until another one has been read (no listHistory = null).
KeepOnFailure(p, u) ==
  LoadHistory(p, u) \/ UNCHANGED history

ReloadHistory(p, u) == LoadHistory(p, u) \/ LoseHistory(p)

(***************************************************************************)
(* Requests of a page                                                      *)
(***************************************************************************)
HandleUserSelected(p, u) ==
  /\ ~dialog[p]
  /\ userSelected' = [userSelected EXCEPT ![p] = u]
  /\ panel' = [panel EXCEPT ![p] = TRUE]
  /\ UNCHANGED <<journal, balance, selectedEntry, dialog>>
  /\ ReloadHistory(p, u)

\* The page forgets the member: typing in the search box (searchInUsers) leaves
\* the panel on the screen, the clear button draws the page again. The history
\* stays in the page's memory.
ClearSelectedUser(p) ==
  /\ ~dialog[p]
  /\ userSelected' = [userSelected EXCEPT ![p] = NoAccount]
  /\ panel' \in {panel, [panel EXCEPT ![p] = FALSE]}
  /\ UNCHANGED <<journal, balance, history, selectedEntry, dialog>>

\* Slip: the amount of an entry is booked with the wrong sign.
AddReversed(p, kind, date, amount) ==
  LET u == userSelected[p]
      e == [id |-> Cardinality(posted) + 1, kind |-> kind, user |-> u,
            date |-> date, amount |-> -amount]
  IN /\ u # NoAccount
     /\ ~dialog[p]
     /\ Cardinality(posted) < MaxEntries
     /\ Post(e)
     /\ Rebalance(u)
     /\ ReloadHistory(p, u)
     /\ UNCHANGED <<userSelected, selectedEntry, panel, dialog>>

\* handleAddPayment, handleAddUsage and handleCotisationPayment. The request of
\* a form is dropped unless a member is selected.
Add(p, kind, date, amount) ==
  LET u == userSelected[p]
      e == [id |-> Cardinality(posted) + 1, kind |-> kind, user |-> u,
            date |-> date, amount |-> amount]
  IN /\ u # NoAccount
     /\ ~dialog[p]
     /\ Cardinality(posted) < MaxEntries
     /\ Post(e)
     /\ Rebalance(u)
     /\ ReloadHistory(p, u)
     /\ UNCHANGED <<userSelected, selectedEntry, panel, dialog>>

\* The delete button of an entry: its click opens the dialog in the browser and
\* sends the entry to the page, which drops the request when no member is
\* selected any more. Subscriptions have no such button.
PickEntry(p, e) ==
  /\ panel[p] /\ ~dialog[p]
  /\ e \in listHistory[p]
  /\ e.kind # SUBSCRIPTION
  /\ dialog' = [dialog EXCEPT ![p] = TRUE]
  /\ \/ /\ userSelected[p] # NoAccount
        /\ selectedEntry' = [selectedEntry EXCEPT ![p] = {e}]
     \/ userSelected[p] = NoAccount /\ UNCHANGED selectedEntry
  /\ UNCHANGED <<journal, balance, userSelected, history, panel>>

CancelRemoval(p) ==
  /\ dialog[p]
  /\ dialog' = [dialog EXCEPT ![p] = FALSE]
  /\ UNCHANGED <<journal, balance, userSelected, history, selectedEntry,
                 panel>>

\* The removal fails and is rolled back when the page holds no entry or no
\* member, or when the entry is gone; the page keeps its state.
RemovalFails(p) ==
  userSelected[p] = NoAccount \/ selectedEntry[p] \cap entries = {}

\* Slip: the balance that is computed again is that of any member.
RemoveForOther(p) ==
  /\ dialog[p]
  /\ \E closed \in BOOLEAN : dialog' = [dialog EXCEPT ![p] = ~closed]
  /\ ~RemovalFails(p)
  /\ \E e \in selectedEntry[p], u \in Account : Strike(e) /\ Rebalance(u)
  /\ ReloadHistory(p, userSelected[p])
  /\ UNCHANGED <<userSelected, selectedEntry, panel>>

\* Confirming the dialog removes the picked entry and computes the balance of
\* the selected member. The dialog closes when the answer arrives; a second
\* click may come first.
RemoveHistoryEntry(p) ==
  /\ dialog[p]
  /\ \E closed \in BOOLEAN : dialog' = [dialog EXCEPT ![p] = ~closed]
  /\ \/ /\ ~RemovalFails(p)
        /\ \E e \in selectedEntry[p] : Strike(e) /\ Rebalance(userSelected[p])
        /\ ReloadHistory(p, userSelected[p])
     \/ /\ RemovalFails(p)
        /\ UNCHANGED <<journal, balance, history>>
  /\ UNCHANGED <<userSelected, selectedEntry, panel>>

-----------------------------------------------------------------------------
Step(p) ==
  \/ \E u \in Account : HandleUserSelected(p, u)
  \/ ClearSelectedUser(p)
  \/ \E k \in HistoryEntryType, date \in Dates : \E a \in Amount[k] :
       Add(p, k, date, a)
  \/ \E e \in listHistory[p] : PickEntry(p, e)
  \/ CancelRemoval(p)
  \/ RemoveHistoryEntry(p)

Next == \E p \in Page : Step(p)

Spec == Init /\ [][Next]_vars

(***************************************************************************)
(* Properties                                                              *)
(***************************************************************************)
TypeOK ==
  /\ entries \subseteq Entry
  /\ posted \subseteq Entry
  /\ userSelected \in [Page -> Account \cup {NoAccount}]
  /\ listHistory \in [Page -> SUBSET Entry]
  /\ selectedEntry \in [Page -> SUBSET Entry]
  /\ loaded \in [Page -> BOOLEAN]
  /\ \A p \in Page : ~loaded[p] => listHistory[p] = {}
  /\ panel \in [Page -> BOOLEAN]
  /\ dialog \in [Page -> BOOLEAN]
  /\ balance \in [Account -> Int]
  /\ shownBalance \in [Page -> Int]

\* A page shows no entry of one member under the name of another, and an entry
\* confirmed for removal belongs to the member selected then: its balance is
\* the one removeHistoryEntry computes.
RemovalMatchesUser ==
  \A p \in Page :
    /\ userSelected[p] # NoAccount =>
         \A e \in listHistory[p] : e.user = userSelected[p]
    /\ dialog[p] /\ userSelected[p] # NoAccount =>
         \A e \in selectedEntry[p] : e.user = userSelected[p]

\* Whenever a page has loaded the history of a member with no more entries than
\* it asks for, it shows every one of them, and the balance it adds up is the one
\* stored for him, whatever the other pages did meanwhile.
CompleteUpToLimit ==
  [][\A p \in Page :
       /\ listHistory'[p] # listHistory[p] /\ loaded'[p]
       /\ Cardinality(OfAccount(entries', userSelected'[p])) <= Limit
       => /\ listHistory'[p] = OfAccount(entries', userSelected'[p])
          /\ shownBalance'[p] = balance'[userSelected'[p]]]_vars

=============================================================================
