------------------------------- MODULE Ledger -------------------------------
(***************************************************************************)
(* The books of the fablab: payments, machine usages and subscriptions of  *)
(* the members, the balance column derived from them and the audit table.  *)
(* Every operation of PaymentServiceImpl is a container-managed            *)
(* transaction of several SQL statements; each statement is a step here,   *)
(* so that the transactions of several sessions interleave.                *)
(*                                                                         *)
(* The database is the external InnoDB engine at its default isolation     *)
(* level (REPEATABLE READ): a transaction reads the snapshot taken by its  *)
(* first SELECT plus its own writes, an INSERT takes a shared lock on the  *)
(* t_user rows its foreign keys name, an UPDATE an exclusive one, and both *)
(* are held until the transaction ends.                                    *)
(***************************************************************************)
EXTENDS Integers, FiniteSets, FiniteSetsExt

CONSTANTS
  User,               \* rows of t_user
  Session,            \* logged-in sessions of the web application
  Cashier,            \* the user each session is logged in as
  PaymentAmounts,     \* amounts typed in the payment form
  UsageCosts,         \* what a machine usage can cost (v_usage_detail)
  SubscriptionPrice,  \* price of the membership in the last price revision
  MaxRequests         \* bound: requests ever sent

ASSUME LedgerAssumption ==
  /\ Cashier \in [Session -> User]
  /\ PaymentAmounts \subseteq Int
  /\ UsageCosts \subseteq Int
  /\ SubscriptionPrice \in Int
  /\ MaxRequests \in Nat

VARIABLES
  entries,    \* committed rows of t_payment, t_usage and t_subscription
  balance,    \* committed t_user.balance
  enabled,    \* committed t_user.enabled
  lastSub,    \* committed t_user.last_subscription_confirmation, 0 for NULL
  audit,      \* committed rows of t_audit
  requests,   \* number of requests sent so far; also their clock
  shared,     \* sessions holding a shared lock on each t_user row
  exclusive,  \* sessions holding an exclusive lock on each t_user row
  pc,         \* the next statement of each session's transaction
  work,       \* what the session asked for
  snap,       \* the snapshot its transaction reads
  writes      \* its uncommitted writes

database == <<entries, balance, enabled, lastSub, audit>>
locks == <<shared, exclusive>>
vars == <<entries, balance, enabled, lastSub, audit, requests,
          shared, exclusive, pc, work, snap, writes>>

(***************************************************************************)
(* Data                                                                    *)
(***************************************************************************)
HistoryEntryType == {"PAYMENT", "USAGE", "SUBSCRIPTION"}

\* Signed amounts: usages and subscriptions are debits.
Amount == PaymentAmounts \cup {-cost : cost \in UsageCosts}
          \cup {-SubscriptionPrice}

\* A row of the history. The number of the request that inserts it is its id:
\* AUTO_INCREMENT ids are unique, nothing here depends on their order.
HistoryEntry == [id : 1..MaxRequests, type : HistoryEntryType,
                 user : User, amount : Amount]

AuditRow ==
  [request : 1..MaxRequests, object : HistoryEntryType,
   action : {"INSERT", "CONFIRM", "DELETE"}, subject : HistoryEntry]
  \cup
  [request : 1..MaxRequests, object : {"USER"},
   action : {"DELETE"}, subject : User]

OfUser(es, u) == {e \in es : e.user = u}

\* computeBalance's loop: the sum of the amounts of the history it read.
Total(es) == MapThenSumSet(LAMBDA e : e.amount, es)

NoWork == [op |-> "NONE"]
NoSnapshot == [entries |-> {}]
NoWrites == [added |-> {}, struck |-> {}, rows |-> {}, balance |-> {},
             lastSub |-> {}]

Statement == {"open", "confirm", "insert", "delete", "balance", "audit",
              "commit"}

-----------------------------------------------------------------------------
Init ==
  /\ entries = {}
  /\ balance = [u \in User |-> 0]
  /\ enabled = [u \in User |-> TRUE]
  /\ lastSub = [u \in User |-> 0]
  /\ audit = {}
  /\ requests = 0
  /\ shared = [u \in User |-> {}]
  /\ exclusive = [u \in User |-> {}]
  /\ pc = [s \in Session |-> "idle"]
  /\ work = [s \in Session |-> NoWork]
  /\ snap = [s \in Session |-> NoSnapshot]
  /\ writes = [s \in Session |-> NoWrites]

(***************************************************************************)
(* Requests: a click in the payment page or on the home page. The work is  *)
(* an entry to ADD to the books or to REMOVE from them.                    *)
(***************************************************************************)
Request(s, op, entry) ==
  /\ pc[s] = "idle"
  /\ requests < MaxRequests
  /\ requests' = requests + 1
  /\ pc' = [pc EXCEPT ![s] = "open"]
  /\ work' = [work EXCEPT ![s] = [op |-> op, entry |-> entry,
                                  request |-> requests + 1]]
  /\ UNCHANGED <<database, locks, snap, writes>>

NewEntry(type, u, amount) ==
  [id |-> requests + 1, type |-> type, user |-> u, amount |-> amount]

AddPayment(s) ==
  \E u \in User, amount \in PaymentAmounts :
    Request(s, "ADD", NewEntry("PAYMENT", u, amount))

UseMachine(s) ==
  \E u \in User, cost \in UsageCosts :
    Request(s, "ADD", NewEntry("USAGE", u, -cost))

\* Slip: the price of a subscription is booked as a credit.
AddSubscriptionCredit(s) ==
  \E u \in User :
    Request(s, "ADD", NewEntry("SUBSCRIPTION", u, SubscriptionPrice))

AddSubscriptionConfirmation(s) ==
  \E u \in User :
    Request(s, "ADD", NewEntry("SUBSCRIPTION", u, -SubscriptionPrice))

\* The page has no delete button on a subscription.
RemoveHistoryEntry(s) ==
  \E entry \in {e \in entries : e.type # "SUBSCRIPTION"} :
    Request(s, "REMOVE", entry)

(***************************************************************************)
(* Statements of a transaction                                             *)
(***************************************************************************)
Subject(s) == work[s].entry.user

Adds(s, type) == work[s].op = "ADD" /\ work[s].entry.type = type

\* Slip: the sum is taken from the database before the flush of the own writes.
HistoryBeforeFlush(s) == snap[s].entries

\* What the history queries of s return: its snapshot and its own writes.
History(s) ==
  (snap[s].entries \cup writes[s].added) \ writes[s].struck

\* Slip: removeHistoryEntry forgets to compute the balance.
ChangesOnlyOnAdd(s) ==
  work[s].op = "ADD" /\ Total(History(s)) # snap[s].balance

\* EclipseLink writes a column only when it differs from the value read.
BalanceChanges(s) == Total(History(s)) # snap[s].balance

\* Rows of t_user the next statement of s locks: shared for the foreign keys
\* of an INSERT (t_payment names the cashier too), exclusive for an UPDATE.
NeedsShared(s) ==
  CASE pc[s] = "insert" -> {Subject(s)} \cup
         (IF work[s].entry.type = "PAYMENT" THEN {Cashier[s]} ELSE {})
    [] pc[s] = "audit" -> {Cashier[s]}
    [] OTHER -> {}

NeedsExclusive(s) ==
  IF \/ pc[s] = "confirm"
     \/ pc[s] = "balance" /\ snap[s].enabled /\ BalanceChanges(s)
  THEN {Subject(s)}
  ELSE {}

\* The next statement of s gets its locks at once. A DELETE also waits for the
\* transaction that has deleted the same row and not ended.
CanLock(s) ==
  /\ \A u \in NeedsShared(s) : exclusive[u] \subseteq {s}
  /\ \A u \in NeedsExclusive(s) : exclusive[u] \cup shared[u] \subseteq {s}
  /\ pc[s] = "delete" =>
       \A t \in Session \ {s} : work[s].entry \notin writes[t].struck

Execute(s, next) ==
  /\ CanLock(s)
  /\ shared' = [u \in User |-> IF u \in NeedsShared(s)
                               THEN shared[u] \cup {s} ELSE shared[u]]
  /\ exclusive' = [u \in User |-> IF u \in NeedsExclusive(s)
                                  THEN exclusive[u] \cup {s} ELSE exclusive[u]]
  /\ pc' = [pc EXCEPT ![s] = next]

\* The transaction of s ends: its locks are released, its private state dropped.
End(s) ==
  /\ shared' = [u \in User |-> shared[u] \ {s}]
  /\ exclusive' = [u \in User |-> exclusive[u] \ {s}]
  /\ pc' = [pc EXCEPT ![s] = "idle"]
  /\ work' = [work EXCEPT ![s] = NoWork]
  /\ snap' = [snap EXCEPT ![s] = NoSnapshot]
  /\ writes' = [writes EXCEPT ![s] = NoWrites]

\* Slip: a checked exception instead, which does not roll back; the rows flushed
\* so far are committed.
CommitRowsOnFailure(s) ==
  /\ End(s)
  /\ entries' = entries \cup writes[s].added
  /\ UNCHANGED <<balance, enabled, lastSub, audit, requests>>

\* Slip: the same for the confirmation date.
CommitDateOnFailure(s) ==
  /\ End(s)
  /\ lastSub' = IF writes[s].lastSub = {} THEN lastSub
                ELSE [lastSub EXCEPT ![Subject(s)] = work[s].request]
  /\ UNCHANGED <<entries, balance, enabled, audit, requests>>

\* A RuntimeException reaches the container: nothing of s is kept.
Rollback(s) == End(s) /\ UNCHANGED <<database, requests>>

\* getById of a disabled user is null and dereferenced; removing an entry
\* that is no longer there is an IllegalArgumentException.
OpenFails(s) ==
  \/ Adds(s, "SUBSCRIPTION") /\ ~enabled[Subject(s)]
  \/ work[s].op = "REMOVE" /\ work[s].entry \notin entries

\* Slip: the history queries forget their WHERE user clause.
OpenOnEverybody(s) ==
  /\ pc[s] = "open"
  /\ ~OpenFails(s)
  /\ snap' = [snap EXCEPT ![s] = [entries |-> entries,
                                  balance |-> balance[Subject(s)],
                                  enabled |-> enabled[Subject(s)]]]
  /\ pc' = [pc EXCEPT ![s] =
              IF work[s].op = "REMOVE" THEN "delete"
              ELSE IF Adds(s, "SUBSCRIPTION") THEN "confirm" ELSE "insert"]
  /\ UNCHANGED <<database, requests, locks, work, writes>>

\* The first SELECT fixes what the transaction will read until it ends.
Open(s) ==
  /\ pc[s] = "open"
  /\ IF OpenFails(s)
     THEN Rollback(s)
     ELSE /\ snap' = [snap EXCEPT ![s] =
                        [entries |-> OfUser(entries, Subject(s)),
                         balance |-> balance[Subject(s)],
                         enabled |-> enabled[Subject(s)]]]
          /\ pc' = [pc EXCEPT ![s] =
                      IF work[s].op = "REMOVE" THEN "delete"
                      ELSE IF Adds(s, "SUBSCRIPTION") THEN "confirm"
                      ELSE "insert"]
          /\ UNCHANGED <<database, requests, locks, work, writes>>

\* UPDATE t_user of the confirmation date, flushed by the price query.
Confirm(s) ==
  /\ pc[s] = "confirm"
  /\ Execute(s, "insert")
  /\ writes' = [writes EXCEPT ![s].lastSub = {work[s].request}]
  /\ UNCHANGED <<database, requests, work, snap>>

Insert(s) ==
  /\ pc[s] = "insert"
  /\ Execute(s, "balance")
  /\ writes' = [writes EXCEPT ![s].added = {work[s].entry}]
  /\ UNCHANGED <<database, requests, work, snap>>

\* The DELETE acts on the current row, not on the snapshot: if another
\* transaction has removed it meanwhile it hits no row and goes on.
Delete(s) ==
  /\ pc[s] = "delete"
  /\ Execute(s, "audit")
  /\ writes' = [writes EXCEPT ![s].struck = {work[s].entry} \cap entries]
  /\ UNCHANGED <<database, requests, work, snap>>

\* computeBalance: the history queries, getById, setBalance and save.
ComputeBalance(s) ==
  /\ pc[s] = "balance"
  /\ IF ~snap[s].enabled
     THEN Rollback(s)
     ELSE /\ Execute(s, IF work[s].op = "REMOVE" THEN "commit" ELSE "audit")
          /\ writes' = [writes EXCEPT ![s].balance =
                          IF BalanceChanges(s) THEN {Total(History(s))} ELSE {}]
          /\ UNCHANGED <<database, requests, work, snap>>

\* The interceptor's row for an insertion, removeHistoryEntry's own row for a
\* removal: the code files the removal of a usage under PAYMENT too.
AuditRowOf(s) ==
  [request |-> work[s].request, subject |-> work[s].entry,
   object |-> IF work[s].op = "REMOVE" THEN "PAYMENT" ELSE work[s].entry.type,
   action |-> IF work[s].op = "REMOVE" THEN "DELETE"
              ELSE IF work[s].entry.type = "SUBSCRIPTION" THEN "CONFIRM"
              ELSE "INSERT"]

\* Slip: the audit row is written in a transaction of its own.
WriteAuditApart(s) ==
  /\ pc[s] = "audit"
  /\ Execute(s, IF work[s].op = "REMOVE" THEN "balance" ELSE "commit")
  /\ audit' = audit \cup {AuditRowOf(s)}
  /\ UNCHANGED <<entries, balance, enabled, lastSub, requests, work, snap,
                 writes>>

WriteAudit(s) ==
  /\ pc[s] = "audit"
  /\ Execute(s, IF work[s].op = "REMOVE" THEN "balance" ELSE "commit")
  /\ writes' = [writes EXCEPT ![s].rows = {AuditRowOf(s)}]
  /\ UNCHANGED <<database, requests, work, snap>>

\* Slip: userDao.save is dropped.
NeverWritten(column, u, values) == column

\* The column after the commit of at most one written value.
Written(column, u, values) ==
  IF values = {} THEN column
  ELSE [column EXCEPT ![u] = CHOOSE v \in values : TRUE]

Commit(s) ==
  /\ pc[s] = "commit"
  /\ entries' = (entries \cup writes[s].added) \ writes[s].struck
  /\ balance' = Written(balance, Subject(s), writes[s].balance)
  /\ lastSub' = Written(lastSub, Subject(s), writes[s].lastSub)
  /\ audit' = audit \cup writes[s].rows
  /\ End(s)
  /\ UNCHANGED <<enabled, requests>>

\* A statement that cannot get its locks ends as deadlock victim or by lock
\* wait timeout.
LockFailure(s) ==
  /\ pc[s] \in Statement
  /\ ~CanLock(s)
  /\ Rollback(s)

\* The application server or the database stops: InnoDB rolls every open
\* transaction back.
Crash ==
  /\ \E s \in Session : pc[s] # "idle"
  /\ shared' = [u \in User |-> {}]
  /\ exclusive' = [u \in User |-> {}]
  /\ pc' = [s \in Session |-> "idle"]
  /\ work' = [s \in Session |-> NoWork]
  /\ snap' = [s \in Session |-> NoSnapshot]
  /\ writes' = [s \in Session |-> NoWrites]
  /\ UNCHANGED <<database, requests>>

\* UserServiceImpl.remove, the soft delete. It writes one column of one row
\* and reads no history, so its statements need no interleaving.
RemoveUser(s) ==
  \E u \in User :
    /\ pc[s] = "idle"
    /\ requests < MaxRequests
    /\ exclusive[u] \cup shared[u] = {}
    /\ exclusive[Cashier[s]] = {}
    /\ requests' = requests + 1
    /\ enabled' = [enabled EXCEPT ![u] = FALSE]
    /\ audit' = audit \cup {[request |-> requests + 1, object |-> "USER",
                             action |-> "DELETE", subject |-> u]}
    /\ UNCHANGED <<entries, balance, lastSub, locks, pc, work, snap, writes>>

-----------------------------------------------------------------------------
\* The three forms of the payment page.
AddEntry(s) ==
  AddPayment(s) \/ UseMachine(s) \/ AddSubscriptionConfirmation(s)

Ask(s) ==
  \/ AddEntry(s)
  \/ RemoveHistoryEntry(s)
  \/ RemoveUser(s)

Step(s) ==
  \/ Open(s)
  \/ Confirm(s)
  \/ Insert(s)
  \/ Delete(s)
  \/ ComputeBalance(s)
  \/ WriteAudit(s)
  \/ Commit(s)
  \/ LockFailure(s)

Next == Crash \/ \E s \in Session : Ask(s) \/ Step(s)

Spec == Init /\ [][Next]_vars

(***************************************************************************)
(* Properties                                                              *)
(***************************************************************************)
Work == [op : {"ADD", "REMOVE"}, entry : HistoryEntry,
         request : 1..MaxRequests]

\* Every variable keeps its shape, through every commit, rollback and crash of
\* the transactions of PaymentServiceImpl.
TypeOK ==
  /\ entries \subseteq HistoryEntry
  /\ balance = [u \in User |-> balance[u]]
  /\ enabled \in [User -> BOOLEAN]
  /\ lastSub \in [User -> 0..MaxRequests]
  /\ audit \subseteq AuditRow
  /\ requests \in 0..MaxRequests
  /\ shared \in [User -> SUBSET Session]
  /\ exclusive \in [User -> SUBSET Session]
  /\ pc \in [Session -> Statement \cup {"idle"}]
  /\ work \in [Session -> Work \cup {NoWork}]
  /\ DOMAIN snap = Session
  /\ DOMAIN writes = Session

\* The entries the audit table says were inserted, and those it says were
\* deleted (the rows about t_user left out).
Inserted == {a.subject : a \in {b \in audit : b.object # "USER"
                                              /\ b.action # "DELETE"}}
Deleted == {a.subject : a \in {b \in audit : b.object # "USER"
                                             /\ b.action = "DELETE"}}

\* The audit table tells the whole story of the books: whatever interleaving,
\* rollback or crash, the history is what the audit rows inserted less what
\* they deleted. The row and the change it describes are one transaction
\* (AuditServiceImpl joins it), so neither survives without the other.
AuditMatchesLedger == entries = Inserted \ Deleted

\* Even when transactions race, the balance column of a user is the sum of some
\* of his own entries that were really booked: never an amount of a rolled-back
\* transaction or of another user (computeBalance sums a snapshot).
BalanceFromHistory ==
  \A u \in User : \E es \in SUBSET OfUser(Inserted, u) : balance[u] = Total(es)

\* A user whose row says that he confirmed his subscription was charged for it:
\* the date set at the start of addSubscriptionConfirmationIntern and the
\* subscription row inserted later commit or vanish together.
LastSubscriptionCharged ==
  \A u \in User : lastSub[u] # 0 =>
    \E e \in OfUser(entries, u) : e.type = "SUBSCRIPTION" /\ e.id = lastSub[u]

\* The step ends the transaction of s with a commit: only a commit adds the
\* audit row of the request.
Committed(s) ==
  work[s] # NoWork /\ \E a \in audit' \ audit : a.request = work[s].request

\* Nobody has changed the books or the balance of the user since s read them.
Undisturbed(s) ==
  /\ snap[s].entries = OfUser(entries, Subject(s))
  /\ snap[s].balance = balance[Subject(s)]

\* The balance heals itself: an operation that no other transaction on the same
\* user overtook leaves the balance equal to the sum of the history, even if
\* the balance it started from was wrong, because computeBalance sums the whole
\* history again and never adds to the old balance.
UndisturbedExact ==
  [][\A s \in Session : Committed(s) /\ Undisturbed(s) =>
        balance'[Subject(s)] = Total(OfUser(entries', Subject(s)))]_vars

\* The balance is the sum of the history at all times. Nothing in the code
\* makes it so when two transactions work on the same user; it holds when
\* they do not (SerialSpec).
BalanceExact == \A u \in User : balance[u] = Total(OfUser(entries, u))

\* A transaction that has read its snapshot and not ended.
Active(s) == pc[s] \in Statement \ {"open"}

NoOverlap ==
  \A s, t \in Session :
    s # t /\ Active(s) /\ Active(t) => Subject(s) # Subject(t)

\* The behaviours in which no two transactions work on the same user at once;
\* transactions on different users still interleave.
SerialSpec == Init /\ [][Next /\ NoOverlap']_vars

(***************************************************************************)
(* The inductive invariant: where a transaction is fixes what it has       *)
(* written, requests identify their entries and audit rows, and the row    *)
(* lock of a DELETE keeps its entry in the books until the commit.         *)
(***************************************************************************)
\* A transaction holds exactly the writes of the statements it has executed.
WritesMatchPc(s) ==
  /\ writes[s].added =
       IF work[s].op = "ADD" /\ pc[s] \in {"balance", "audit", "commit"}
       THEN {work[s].entry} ELSE {}
  /\ writes[s].rows =
       IF \/ pc[s] = "commit"
          \/ work[s].op = "REMOVE" /\ pc[s] = "balance"
       THEN {AuditRowOf(s)} ELSE {}
  /\ writes[s].lastSub =
       IF Adds(s, "SUBSCRIPTION") /\ pc[s] # "confirm"
       THEN {work[s].request} ELSE {}
  /\ writes[s].balance =
       IF /\ \/ pc[s] = "commit"
             \/ work[s].op = "ADD" /\ pc[s] = "audit"
          /\ BalanceChanges(s)
       THEN {Total(History(s))} ELSE {}
  /\ writes[s].struck =
       IF work[s].op = "REMOVE" /\ pc[s] # "delete"
       THEN {work[s].entry} \cap entries ELSE {}

TransactionOK(s) ==
  /\ pc[s] = "idle" => work[s] = NoWork
  /\ pc[s] # "idle" => work[s] \in Work
  /\ ~Active(s) => snap[s] = NoSnapshot /\ writes[s] = NoWrites
  /\ Active(s) =>
       /\ snap[s].entries \subseteq OfUser(Inserted, Subject(s))
       /\ DOMAIN writes[s] = DOMAIN NoWrites
       /\ WritesMatchPc(s)
  /\ pc[s] = "confirm" => Adds(s, "SUBSCRIPTION")
  /\ pc[s] = "insert" => work[s].op = "ADD"
  /\ pc[s] = "delete" => work[s].op = "REMOVE"

\* The number of a live request is its own: no other session, no audit row and
\* no entry of the books has it.
RequestOK(s) ==
  pc[s] # "idle" =>
    /\ work[s].request <= requests
    /\ \A t \in Session \ {s} :
         pc[t] # "idle" => work[t].request # work[s].request
    /\ \A a \in audit : a.request # work[s].request
    /\ work[s].op = "ADD" =>
         /\ work[s].entry.id = work[s].request
         /\ \A e \in Inserted : e.id # work[s].request
    /\ work[s].op = "REMOVE" =>
         /\ work[s].entry \in Inserted
         /\ work[s].entry.type # "SUBSCRIPTION"

RecordsOK ==
  /\ \A a \in audit : a.request <= requests
  /\ \A e \in Inserted : e.id <= requests
  /\ Deleted \subseteq Inserted

\* No two transactions have deleted the same entry.
StruckOnce ==
  \A s, t \in Session : s # t => writes[s].struck \cap writes[t].struck = {}

IInv ==
  /\ TypeOK
  /\ \A s \in Session : TransactionOK(s) /\ RequestOK(s)
  /\ RecordsOK
  /\ StruckOnce
  /\ AuditMatchesLedger

(***************************************************************************)
(* Abstraction                                                             *)
(***************************************************************************)
\* What the transactions promise to a reader of the history and of the audit
\* table, and what they promise of the balance when they do not overlap.
Abstract == INSTANCE Books WITH
  Account <- User, Entry <- HistoryEntry,
  posted <- Inserted, struck <- Deleted

JournalSpec == Abstract!JournalSpec
BooksSpec == Abstract!BooksSpec

=============================================================================
