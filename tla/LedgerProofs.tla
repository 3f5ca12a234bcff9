----------------------------- MODULE LedgerProofs -----------------------------
(***************************************************************************)
(* What holds of Ledger for every set of users and sessions, every price   *)
(* list and every bound on the requests.                                   *)
(***************************************************************************)
EXTENDS Ledger, TLAPS

(***************************************************************************)
(* The private state of a transaction nobody touches stays consistent as   *)
(* long as the audit table only grows and the entry it may have deleted    *)
(* keeps its place.                                                        *)
(***************************************************************************)
LEMMA TransactionFrame ==
  ASSUME NEW t \in Session, TransactionOK(t),
         pc'[t] = pc[t], work'[t] = work[t],
         snap'[t] = snap[t], writes'[t] = writes[t],
         Inserted \subseteq Inserted',
         Active(t) /\ work[t].op = "REMOVE" /\ pc[t] # "delete" =>
           {work[t].entry} \cap entries' = {work[t].entry} \cap entries
  PROVE  TransactionOK(t)'
<1>1. Active(t)' <=> Active(t)
  BY DEF Active
<1>2. Subject(t)' = Subject(t) /\ History(t)' = History(t)
      /\ AuditRowOf(t)' = AuditRowOf(t) /\ BalanceChanges(t)' = BalanceChanges(t)
  BY DEF Subject, History, AuditRowOf, BalanceChanges
<1>3. ASSUME NEW type PROVE Adds(t, type)' <=> Adds(t, type)
  BY DEF Adds
<1>4. Active(t) => WritesMatchPc(t)'
  <2> SUFFICES ASSUME Active(t) PROVE WritesMatchPc(t)'
    OBVIOUS
  <2>1. WritesMatchPc(t)
    BY DEF TransactionOK
  <2> QED
    BY <1>2, <1>3, <2>1 DEF WritesMatchPc
<1>5. OfUser(Inserted, Subject(t)) \subseteq OfUser(Inserted, Subject(t))'
  BY <1>2 DEF OfUser
<1> QED
  BY <1>1, <1>3, <1>4, <1>5 DEF TransactionOK

(***************************************************************************)
(* A step of s that leaves the committed rows and the other sessions alone *)
(* and keeps the request it works on disturbs nothing but s itself.        *)
(***************************************************************************)
OthersSame(s) ==
  \A t \in Session \ {s} : /\ pc'[t] = pc[t] /\ work'[t] = work[t]
                           /\ snap'[t] = snap[t] /\ writes'[t] = writes[t]

LEMMA LocalStep ==
  ASSUME IInv, NEW s \in Session, OthersSame(s),
         UNCHANGED <<entries, audit, requests>>,
         pc'[s] = "idle" \/ (pc[s] # "idle" /\ work'[s] = work[s]),
         TypeOK', TransactionOK(s)', StruckOnce'
  PROVE  IInv'
<1>1. Inserted' = Inserted /\ Deleted' = Deleted
  BY DEF Inserted, Deleted
<1>2. ASSUME NEW t \in Session PROVE TransactionOK(t)'
  BY <1>1, TransactionFrame DEF IInv, OthersSame
<1>3. ASSUME NEW t \in Session PROVE RequestOK(t)'
  BY <1>1 DEF IInv, RequestOK, OthersSame
<1>4. RecordsOK' /\ AuditMatchesLedger'
  BY <1>1 DEF IInv, RecordsOK, AuditMatchesLedger
<1> QED
  BY <1>2, <1>3, <1>4 DEF IInv

LEMMA RollbackPreserves ==
  ASSUME IInv, NEW s \in Session, Rollback(s)
  PROVE  IInv'
<1>1. TypeOK'
  BY DEF IInv, TypeOK, Rollback, End, database
<1>2. /\ pc'[s] = "idle" /\ work'[s] = NoWork /\ snap'[s] = NoSnapshot
      /\ writes'[s] = NoWrites /\ OthersSame(s)
      /\ UNCHANGED <<entries, audit, requests>>
  BY DEF IInv, TypeOK, OthersSame, Rollback, End, database
<1>3. TransactionOK(s)'
  BY <1>2 DEF TransactionOK, Active, Statement
<1>4. StruckOnce'
  BY <1>2 DEF IInv, StruckOnce, OthersSame, NoWrites
<1> QED
  BY <1>1, <1>2, <1>3, <1>4, LocalStep

(***************************************************************************)
(* The statements before the commit                                        *)
(***************************************************************************)
LEMMA OpenPreserves ==
  ASSUME IInv, NEW s \in Session, Open(s)
  PROVE  IInv'
<1>1. CASE OpenFails(s)
  BY <1>1, RollbackPreserves DEF Open
<1>2. CASE ~OpenFails(s)
  <2>1. /\ UNCHANGED <<entries, audit, requests>>
        /\ work' = work /\ writes' = writes /\ OthersSame(s)
        /\ pc[s] = "open" /\ pc'[s] \in {"delete", "confirm", "insert"}
        /\ snap'[s].entries = OfUser(entries, Subject(s))
    BY <1>2 DEF IInv, TypeOK, Open, OthersSame, database
  <2>2. TypeOK'
    BY <1>2 DEF IInv, TypeOK, Open, database, locks, Statement
  <2>3. TransactionOK(s)'
    <3>1. entries \subseteq Inserted /\ Inserted' = Inserted
      BY <2>1 DEF IInv, AuditMatchesLedger, Inserted
    <3>2. /\ work[s] \in Work
          /\ writes[s] = NoWrites
      BY <2>1 DEF IInv, TransactionOK, Active
    <3>3. /\ pc'[s] = "delete" => work[s].op = "REMOVE"
          /\ pc'[s] = "confirm" => Adds(s, "SUBSCRIPTION")
          /\ pc'[s] = "insert" =>
               work[s].op # "REMOVE" /\ ~Adds(s, "SUBSCRIPTION")
      BY <1>2 DEF Open, IInv, TypeOK
    <3>4. WritesMatchPc(s)'
      BY <2>1, <3>2, <3>3 DEF WritesMatchPc, NoWrites, Adds, Work
    <3> QED
      BY <2>1, <3>1, <3>2, <3>3, <3>4
      DEF TransactionOK, Active, Statement, OfUser, Subject, Adds, Work
  <2>4. StruckOnce'
    BY <2>1 DEF IInv, StruckOnce
  <2> QED
    BY <2>1, <2>2, <2>3, <2>4, LocalStep
<1> QED
  BY <1>1, <1>2

LEMMA ExecuteStep ==
  ASSUME IInv, NEW s \in Session, Active(s), NEW next \in Statement \ {"open"},
         Execute(s, next), NEW w, writes' = [writes EXCEPT ![s] = w],
         UNCHANGED <<database, requests, work, snap>>
  PROVE  /\ TypeOK' /\ OthersSame(s)
         /\ UNCHANGED <<entries, audit, requests>>
         /\ pc[s] # "idle" /\ pc'[s] = next
         /\ work' = work /\ snap' = snap /\ writes'[s] = w
         /\ work[s] \in Work
         /\ snap[s].entries \subseteq OfUser(Inserted, Subject(s))
         /\ DOMAIN writes[s] = DOMAIN NoWrites
         /\ WritesMatchPc(s)
<1>1. TypeOK'
  BY DEF IInv, TypeOK, Execute, database, Statement
<1>2. OthersSame(s) /\ pc'[s] = next /\ writes'[s] = w
  BY DEF IInv, TypeOK, Execute, OthersSame
<1>3. pc[s] # "idle"
  BY DEF Active, Statement
<1>4. TransactionOK(s)
  BY DEF IInv
<1> QED
  BY <1>1, <1>2, <1>3, <1>4 DEF TransactionOK, database

\* The session's own conjunct after a statement, from the write it added.
LEMMA StatementOK ==
  ASSUME NEW s \in Session, pc'[s] \in Statement \ {"open"},
         work' = work, snap' = snap, UNCHANGED <<entries, audit>>,
         work[s] \in Work,
         snap[s].entries \subseteq OfUser(Inserted, Subject(s)),
         DOMAIN writes'[s] = DOMAIN NoWrites,
         pc'[s] \in {"insert", "balance", "audit", "commit"},
         pc'[s] = "insert" => work[s].op = "ADD",
         WritesMatchPc(s)'
  PROVE  TransactionOK(s)'
BY DEF TransactionOK, Active, Statement, OfUser, Inserted, Subject

LEMMA ConfirmPreserves ==
  ASSUME IInv, NEW s \in Session, Confirm(s)
  PROVE  IInv'
<1> DEFINE w == [writes[s] EXCEPT !.lastSub = {work[s].request}]
<1>1. pc[s] = "confirm" /\ Active(s) /\ Execute(s, "insert")
      /\ UNCHANGED <<database, requests, work, snap>>
  BY DEF Confirm, Active, Statement
<1>2. writes' = [writes EXCEPT ![s] = w]
  BY DEF Confirm
<1>3. /\ TypeOK' /\ OthersSame(s)
      /\ UNCHANGED <<entries, audit, requests>>
      /\ pc[s] # "idle" /\ pc'[s] = "insert"
      /\ work' = work /\ snap' = snap /\ writes'[s] = w
      /\ work[s] \in Work
      /\ snap[s].entries \subseteq OfUser(Inserted, Subject(s))
      /\ DOMAIN writes[s] = DOMAIN NoWrites
      /\ WritesMatchPc(s)
  BY <1>1, <1>2, ExecuteStep DEF Statement
<1>4. Adds(s, "SUBSCRIPTION")
  BY <1>1 DEF IInv, TransactionOK
<1>5. WritesMatchPc(s)'
  BY <1>1, <1>3, <1>4 DEF WritesMatchPc, Adds, NoWrites
<1>6. TransactionOK(s)'
  BY <1>3, <1>4, <1>5, StatementOK DEF Statement, Adds
<1>7. StruckOnce'
  BY <1>3 DEF IInv, StruckOnce, OthersSame, NoWrites
<1> QED
  BY <1>3, <1>6, <1>7, LocalStep

LEMMA InsertPreserves ==
  ASSUME IInv, NEW s \in Session, Insert(s)
  PROVE  IInv'
<1> DEFINE w == [writes[s] EXCEPT !.added = {work[s].entry}]
<1>1. pc[s] = "insert" /\ Active(s) /\ Execute(s, "balance")
      /\ UNCHANGED <<database, requests, work, snap>>
  BY DEF Insert, Active, Statement
<1>2. writes' = [writes EXCEPT ![s] = w]
  BY DEF Insert
<1>3. /\ TypeOK' /\ OthersSame(s)
      /\ UNCHANGED <<entries, audit, requests>>
      /\ pc[s] # "idle" /\ pc'[s] = "balance"
      /\ work' = work /\ snap' = snap /\ writes'[s] = w
      /\ work[s] \in Work
      /\ snap[s].entries \subseteq OfUser(Inserted, Subject(s))
      /\ DOMAIN writes[s] = DOMAIN NoWrites
      /\ WritesMatchPc(s)
  BY <1>1, <1>2, ExecuteStep DEF Statement
<1>4. work[s].op = "ADD"
  BY <1>1 DEF IInv, TransactionOK
<1>5. WritesMatchPc(s)'
  BY <1>1, <1>3, <1>4 DEF WritesMatchPc, Adds, NoWrites
<1>6. TransactionOK(s)'
  BY <1>3, <1>5, StatementOK DEF Statement
<1>7. StruckOnce'
  BY <1>3 DEF IInv, StruckOnce, OthersSame, NoWrites
<1> QED
  BY <1>3, <1>6, <1>7, LocalStep

LEMMA DeletePreserves ==
  ASSUME IInv, NEW s \in Session, Delete(s)
  PROVE  IInv'
<1> DEFINE w == [writes[s] EXCEPT !.struck = {work[s].entry} \cap entries]
<1>1. pc[s] = "delete" /\ Active(s) /\ Execute(s, "audit")
      /\ UNCHANGED <<database, requests, work, snap>>
  BY DEF Delete, Active, Statement
<1>2. writes' = [writes EXCEPT ![s] = w]
  BY DEF Delete
<1>3. /\ TypeOK' /\ OthersSame(s)
      /\ UNCHANGED <<entries, audit, requests>>
      /\ pc[s] # "idle" /\ pc'[s] = "audit"
      /\ work' = work /\ snap' = snap /\ writes'[s] = w
      /\ work[s] \in Work
      /\ snap[s].entries \subseteq OfUser(Inserted, Subject(s))
      /\ DOMAIN writes[s] = DOMAIN NoWrites
      /\ WritesMatchPc(s)
  BY <1>1, <1>2, ExecuteStep DEF Statement
<1>4. work[s].op = "REMOVE"
  BY <1>1 DEF IInv, TransactionOK
<1>5. WritesMatchPc(s)'
  BY <1>1, <1>3, <1>4 DEF WritesMatchPc, Adds, NoWrites
<1>6. TransactionOK(s)'
  BY <1>3, <1>5, StatementOK DEF Statement
<1>7. StruckOnce'
  <2>1. \A t \in Session \ {s} : work[s].entry \notin writes[t].struck
    BY <1>1 DEF Execute, CanLock
  <2>2. \A t \in Session \ {s} : writes'[t].struck = writes[t].struck
    BY <1>3 DEF OthersSame
  <2>3. writes'[s].struck \subseteq {work[s].entry}
    BY <1>3 DEF NoWrites
  <2> QED
    BY <2>1, <2>2, <2>3 DEF IInv, StruckOnce
<1> QED
  BY <1>3, <1>6, <1>7, LocalStep

LEMMA ComputeBalancePreserves ==
  ASSUME IInv, NEW s \in Session, ComputeBalance(s)
  PROVE  IInv'
<1>1. CASE ~snap[s].enabled
  BY <1>1, RollbackPreserves DEF ComputeBalance
<1>2. CASE snap[s].enabled
  <2> DEFINE w == [writes[s] EXCEPT !.balance =
                  IF BalanceChanges(s) THEN {Total(History(s))} ELSE {}]
  <2>1. pc[s] = "balance" /\ Active(s) /\ Execute(s, IF work[s].op = "REMOVE" THEN "commit" ELSE "audit")
        /\ UNCHANGED <<database, requests, work, snap>>
    BY <1>2 DEF ComputeBalance, Active, Statement
  <2>2. writes' = [writes EXCEPT ![s] = w]
    BY <1>2 DEF ComputeBalance
  <2>3. /\ TypeOK' /\ OthersSame(s)
        /\ UNCHANGED <<entries, audit, requests>>
        /\ pc[s] # "idle" /\ pc'[s] = IF work[s].op = "REMOVE" THEN "commit" ELSE "audit"
        /\ work' = work /\ snap' = snap /\ writes'[s] = w
        /\ work[s] \in Work
        /\ snap[s].entries \subseteq OfUser(Inserted, Subject(s))
        /\ DOMAIN writes[s] = DOMAIN NoWrites
        /\ WritesMatchPc(s)
    BY <2>1, <2>2, ExecuteStep DEF Statement
  <2>4. BalanceChanges(s)' = BalanceChanges(s) /\ History(s)' = History(s)
        /\ AuditRowOf(s)' = AuditRowOf(s)
    BY <2>3 DEF BalanceChanges, History, NoWrites, AuditRowOf
  <2>5. WritesMatchPc(s)'
    BY <2>1, <2>3, <2>4 DEF WritesMatchPc, Adds, NoWrites, Work
  <2>6. TransactionOK(s)'
    BY <2>3, <2>5, StatementOK DEF Statement
  <2>7. StruckOnce'
    BY <2>3 DEF IInv, StruckOnce, OthersSame, NoWrites
  <2> QED
    BY <2>3, <2>6, <2>7, LocalStep
<1> QED
  BY <1>1, <1>2

LEMMA WriteAuditPreserves ==
  ASSUME IInv, NEW s \in Session, WriteAudit(s)
  PROVE  IInv'
<1> DEFINE w == [writes[s] EXCEPT !.rows = {AuditRowOf(s)}]
<1>1. pc[s] = "audit" /\ Active(s) /\ Execute(s, IF work[s].op = "REMOVE" THEN "balance" ELSE "commit")
      /\ UNCHANGED <<database, requests, work, snap>>
  BY DEF WriteAudit, Active, Statement
<1>2. writes' = [writes EXCEPT ![s] = w]
  BY DEF WriteAudit
<1>3. /\ TypeOK' /\ OthersSame(s)
      /\ UNCHANGED <<entries, audit, requests>>
      /\ pc[s] # "idle" /\ pc'[s] = IF work[s].op = "REMOVE" THEN "balance" ELSE "commit"
      /\ work' = work /\ snap' = snap /\ writes'[s] = w
      /\ work[s] \in Work
      /\ snap[s].entries \subseteq OfUser(Inserted, Subject(s))
      /\ DOMAIN writes[s] = DOMAIN NoWrites
      /\ WritesMatchPc(s)
  BY <1>1, <1>2, ExecuteStep DEF Statement
<1>4. BalanceChanges(s)' = BalanceChanges(s) /\ History(s)' = History(s)
      /\ AuditRowOf(s)' = AuditRowOf(s)
  BY <1>3 DEF BalanceChanges, History, NoWrites, AuditRowOf
<1>5. WritesMatchPc(s)'
  BY <1>1, <1>3, <1>4 DEF WritesMatchPc, Adds, NoWrites, Work
<1>6. TransactionOK(s)'
  BY <1>3, <1>5, StatementOK DEF Statement
<1>7. StruckOnce'
  BY <1>3 DEF IInv, StruckOnce, OthersSame, NoWrites
<1> QED
  BY <1>3, <1>6, <1>7, LocalStep

(***************************************************************************)
(* Requests, the commit and the other steps                                *)
(***************************************************************************)
LEMMA RequestPreserves ==
  ASSUME IInv, NEW s \in Session, NEW op \in {"ADD", "REMOVE"},
         NEW e \in HistoryEntry, Request(s, op, e),
         op = "ADD" => e.id = requests + 1,
         op = "REMOVE" => e \in Inserted /\ e.type # "SUBSCRIPTION"
  PROVE  IInv'
<1>1. /\ UNCHANGED <<entries, audit>> /\ OthersSame(s)
      /\ requests' = requests + 1 /\ requests + 1 \in 1..MaxRequests
      /\ pc[s] = "idle" /\ pc'[s] = "open"
      /\ snap'[s] = snap[s] /\ writes' = writes
      /\ work'[s] = [op |-> op, entry |-> e, request |-> requests + 1]
  BY LedgerAssumption DEF IInv, TypeOK, Request, OthersSame, database
<1>2. Inserted' = Inserted /\ Deleted' = Deleted
  BY <1>1 DEF Inserted, Deleted
<1>3. TypeOK'
  BY <1>1 DEF IInv, TypeOK, Request, database, locks, Work, Statement
<1>4. ASSUME NEW t \in Session PROVE TransactionOK(t)'
  <2>1. CASE t = s
    BY <1>1, <2>1 DEF IInv, TransactionOK, Active, Statement, Work
  <2>2. CASE t # s
    BY <1>1, <1>2, <2>2, TransactionFrame DEF IInv, OthersSame
  <2> QED
    BY <2>1, <2>2
<1>5. ASSUME NEW t \in Session PROVE RequestOK(t)'
  <2>1. requests \in Nat
    BY DEF IInv, TypeOK
  <2>2. /\ \A a \in audit : a.request <= requests /\ a.request \in Nat
        /\ \A i \in Inserted : i.id <= requests /\ i.id \in Nat
        /\ \A r \in Session : pc[r] # "idle" =>
             work[r].request <= requests /\ work[r].request \in Nat
    BY DEF IInv, TypeOK, RecordsOK, RequestOK, TransactionOK, Work,
           AuditRow, HistoryEntry, Inserted
  <2>3. CASE t = s
    BY <1>1, <1>2, <2>1, <2>2, <2>3 DEF RequestOK, OthersSame
  <2>4. CASE t # s
    <3>1. RequestOK(t)
      BY DEF IInv
    <3> QED
      BY <1>1, <1>2, <2>1, <2>2, <2>4, <3>1 DEF RequestOK, OthersSame
  <2> QED
    BY <2>3, <2>4
<1>6. RecordsOK' /\ StruckOnce' /\ AuditMatchesLedger'
  <2>1. /\ \A a \in audit : a.request <= requests /\ a.request \in Nat
        /\ \A i \in Inserted : i.id <= requests /\ i.id \in Nat
        /\ requests \in Nat
    BY DEF IInv, TypeOK, RecordsOK, AuditRow, HistoryEntry, Inserted
  <2> QED
    BY <1>1, <1>2, <2>1 DEF IInv, RecordsOK, StruckOnce, AuditMatchesLedger
<1> QED
  BY <1>3, <1>4, <1>5, <1>6 DEF IInv

LEMMA RemoveUserPreserves ==
  ASSUME IInv, NEW s \in Session, RemoveUser(s)
  PROVE  IInv'
<1>1. PICK u \in User :
        /\ enabled' = [enabled EXCEPT ![u] = FALSE]
        /\ audit' = audit \cup {[request |-> requests + 1, object |-> "USER",
                                 action |-> "DELETE", subject |-> u]}
  BY DEF RemoveUser
<1>2. /\ requests' = requests + 1 /\ requests + 1 \in 1..MaxRequests
      /\ UNCHANGED <<entries, balance, lastSub, shared, exclusive,
                     pc, work, snap, writes>>
  BY LedgerAssumption DEF IInv, TypeOK, RemoveUser, locks
<1>3. Inserted' = Inserted /\ Deleted' = Deleted
  BY <1>1 DEF Inserted, Deleted
<1>4. TypeOK'
  BY <1>1, <1>2 DEF IInv, TypeOK, AuditRow
<1>5. ASSUME NEW t \in Session PROVE TransactionOK(t)'
  BY <1>2, <1>3, TransactionFrame DEF IInv
<1>6. /\ requests \in Nat
      /\ \A a \in audit : a.request <= requests /\ a.request \in Nat
      /\ \A i \in Inserted : i.id <= requests /\ i.id \in Nat
      /\ \A r \in Session : pc[r] # "idle" =>
           work[r].request <= requests /\ work[r].request \in Nat
  BY DEF IInv, TypeOK, RecordsOK, RequestOK, TransactionOK, Work,
         AuditRow, HistoryEntry, Inserted
<1>7. ASSUME NEW t \in Session PROVE RequestOK(t)'
  <2>1. RequestOK(t)
    BY DEF IInv
  <2> QED
    BY <1>1, <1>2, <1>3, <1>6, <2>1 DEF RequestOK
<1>8. RecordsOK' /\ StruckOnce' /\ AuditMatchesLedger'
  BY <1>1, <1>2, <1>3, <1>6
  DEF IInv, RecordsOK, StruckOnce, AuditMatchesLedger
<1> QED
  BY <1>4, <1>5, <1>7, <1>8 DEF IInv

LEMMA CrashPreserves ==
  ASSUME IInv, Crash
  PROVE  IInv'
<1>1. TypeOK'
  BY DEF IInv, TypeOK, Crash, database
<1>2. Inserted' = Inserted /\ Deleted' = Deleted
  BY DEF Inserted, Deleted, Crash, database
<1>3. ASSUME NEW t \in Session PROVE TransactionOK(t)' /\ RequestOK(t)'
  BY DEF Crash, TransactionOK, RequestOK, Active, Statement
<1>4. RecordsOK' /\ StruckOnce' /\ AuditMatchesLedger'
  BY <1>2 DEF IInv, RecordsOK, StruckOnce, AuditMatchesLedger, Crash, NoWrites,
              database
<1> QED
  BY <1>1, <1>3, <1>4 DEF IInv

\* What a commit does to the books: one entry posted or one struck, and one
\* audit row that says so.
LEMMA CommitEffect ==
  ASSUME IInv, NEW s \in Session, Commit(s)
  PROVE  /\ work[s] \in Work
         /\ audit' = audit \cup {AuditRowOf(s)}
         /\ work[s].op = "ADD" =>
              /\ entries' = entries \cup {work[s].entry}
              /\ Inserted' = Inserted \cup {work[s].entry}
              /\ Deleted' = Deleted
         /\ work[s].op = "REMOVE" =>
              /\ entries' = entries \ {work[s].entry}
              /\ Inserted' = Inserted
              /\ Deleted' = Deleted \cup {work[s].entry}
         /\ work[s].op \in {"ADD", "REMOVE"}
<1>1. pc[s] = "commit" /\ Active(s)
  BY DEF Commit, Active, Statement
<1>2. work[s] \in Work /\ WritesMatchPc(s)
  BY <1>1 DEF IInv, TransactionOK, Statement
<1>3. audit' = audit \cup {AuditRowOf(s)}
  BY <1>1, <1>2 DEF Commit, WritesMatchPc
<1>4. CASE work[s].op = "ADD"
  <2>1. entries' = entries \cup {work[s].entry}
    BY <1>1, <1>2, <1>4 DEF Commit, WritesMatchPc
  <2>2. AuditRowOf(s).object # "USER" /\ AuditRowOf(s).action # "DELETE"
        /\ AuditRowOf(s).subject = work[s].entry
    BY <1>2, <1>4 DEF AuditRowOf, Work, HistoryEntry, HistoryEntryType
  <2>3. Inserted' = Inserted \cup {work[s].entry} /\ Deleted' = Deleted
    BY <1>3, <2>2 DEF Inserted, Deleted
  <2> QED
    BY <1>2, <1>3, <1>4, <2>1, <2>3
<1>5. CASE work[s].op = "REMOVE"
  <2>1. entries' = entries \ {work[s].entry}
    BY <1>1, <1>2, <1>5 DEF Commit, WritesMatchPc
  <2>2. AuditRowOf(s).object # "USER" /\ AuditRowOf(s).action = "DELETE"
        /\ AuditRowOf(s).subject = work[s].entry
    BY <1>5 DEF AuditRowOf
  <2>3. Inserted' = Inserted /\ Deleted' = Deleted \cup {work[s].entry}
    BY <1>3, <2>2 DEF Inserted, Deleted
  <2> QED
    BY <1>2, <1>3, <1>5, <2>1, <2>3
<1> QED
  BY <1>2, <1>4, <1>5 DEF Work

LEMMA CommitPreserves ==
  ASSUME IInv, NEW s \in Session, Commit(s)
  PROVE  IInv'
<1> DEFINE e == work[s].entry
<1>1. /\ pc[s] = "commit" /\ Active(s) /\ TransactionOK(s) /\ RequestOK(s)
      /\ OthersSame(s) /\ requests' = requests
      /\ pc'[s] = "idle" /\ work'[s] = NoWork /\ snap'[s] = NoSnapshot
      /\ writes'[s] = NoWrites
  BY DEF IInv, TypeOK, Commit, End, Active, Statement, OthersSame
<1>2. /\ work[s] \in Work
      /\ audit' = audit \cup {AuditRowOf(s)}
      /\ work[s].op = "ADD" => /\ entries' = entries \cup {e}
                               /\ Inserted' = Inserted \cup {e}
                               /\ Deleted' = Deleted
      /\ work[s].op = "REMOVE" => /\ entries' = entries \ {e}
                                  /\ Inserted' = Inserted
                                  /\ Deleted' = Deleted \cup {e}
      /\ work[s].op \in {"ADD", "REMOVE"}
  BY CommitEffect
<1>3. TypeOK'
  <2>1. e \in HistoryEntry /\ AuditRowOf(s) \in AuditRow
    BY <1>2 DEF Work, AuditRowOf, AuditRow, HistoryEntry, HistoryEntryType
  <2>2. entries' \subseteq HistoryEntry /\ audit' \subseteq AuditRow
    BY <1>2, <2>1 DEF IInv, TypeOK
  <2>3. lastSub' \in [User -> 0..MaxRequests] /\ balance' = [u \in User |-> balance'[u]]
    <3>1. writes[s].lastSub = {} \/ writes[s].lastSub = {work[s].request}
      BY <1>1 DEF TransactionOK, WritesMatchPc
    <3>2. work[s].request \in 0..MaxRequests
      BY <1>2, LedgerAssumption DEF Work
    <3> QED
      BY <3>1, <3>2 DEF IInv, TypeOK, Commit, Written
  <2> QED
    BY <2>2, <2>3 DEF IInv, TypeOK, Commit, End
<1>4. ASSUME NEW t \in Session PROVE TransactionOK(t)'
  <2>1. CASE t = s
    BY <1>1, <2>1 DEF TransactionOK, Active, Statement
  <2>2. CASE t # s
    <3>1. Inserted \subseteq Inserted'
      BY <1>2
    <3>2. ASSUME Active(t), work[t].op = "REMOVE", pc[t] # "delete"
          PROVE  {work[t].entry} \cap entries' = {work[t].entry} \cap entries
      <4>1. work[t].entry \in Inserted /\ TransactionOK(t)
        BY <3>2 DEF IInv, RequestOK, Active, Statement
      <4>2. CASE work[s].op = "ADD"
        <5>1. e \notin Inserted
          BY <1>1, <4>2 DEF RequestOK
        <5> QED
          BY <1>2, <4>1, <4>2, <5>1
      <4>3. CASE work[s].op = "REMOVE"
        <5>1. /\ writes[s].struck = {e} \cap entries
              /\ writes[t].struck = {work[t].entry} \cap entries
          BY <1>1, <3>2, <4>1, <4>3 DEF TransactionOK, WritesMatchPc
        <5>2. writes[s].struck \cap writes[t].struck = {}
          BY <2>2 DEF IInv, StruckOnce
        <5>3. CASE work[t].entry = e
          BY <1>2, <4>3, <5>1, <5>2, <5>3
        <5>4. CASE work[t].entry # e
          BY <1>2, <4>3, <5>4
        <5> QED
          BY <5>3, <5>4
      <4> QED
        BY <1>2, <4>2, <4>3
    <3> QED
      BY <1>1, <2>2, <3>1, <3>2, TransactionFrame DEF IInv, OthersSame
  <2> QED
    BY <2>1, <2>2
<1>5. AuditRowOf(s).request = work[s].request
  BY DEF AuditRowOf
<1>6. ASSUME NEW t \in Session PROVE RequestOK(t)'
  <2>1. CASE t = s
    BY <1>1, <2>1 DEF RequestOK
  <2>2. CASE t # s
    <3>1. RequestOK(t) /\ OthersSame(s)
      BY <1>1 DEF IInv
    <3>2. ASSUME pc[t] # "idle"
          PROVE  /\ work[t].request # work[s].request
                 /\ work[s].op = "ADD" => e.id # work[t].request
      BY <1>1, <2>2, <3>2 DEF RequestOK
    <3> QED
      BY <1>1, <1>2, <1>5, <2>2, <3>1, <3>2 DEF RequestOK, OthersSame
  <2> QED
    BY <2>1, <2>2
<1>7. RecordsOK'
  <2>1. work[s].op = "REMOVE" => e \in Inserted
    BY <1>1 DEF RequestOK
  <2> QED
    BY <1>1, <1>2, <1>5, <2>1 DEF IInv, RecordsOK, RequestOK
<1>8. StruckOnce'
  BY <1>1 DEF IInv, StruckOnce, OthersSame, NoWrites
<1>9. AuditMatchesLedger'
  <2>1. CASE work[s].op = "ADD"
    <3>1. e \notin Inserted
      BY <1>1, <2>1 DEF RequestOK
    <3>2. e \notin Deleted
      BY <3>1 DEF IInv, RecordsOK
    <3> QED
      BY <1>2, <2>1, <3>2 DEF IInv, AuditMatchesLedger
  <2>2. CASE work[s].op = "REMOVE"
    BY <1>2, <2>2 DEF IInv, AuditMatchesLedger
  <2> QED
    BY <1>2, <2>1, <2>2
<1> QED
  BY <1>3, <1>4, <1>6, <1>7, <1>8, <1>9 DEF IInv

(***************************************************************************)
(* The inductive invariant and what follows from it at once                *)
(***************************************************************************)
LEMMA InitIInv == Init => IInv
<1> SUFFICES ASSUME Init PROVE IInv
  OBVIOUS
<1>1. TypeOK
  BY LedgerAssumption DEF Init, TypeOK, Statement
<1>2. Inserted = {} /\ Deleted = {}
  BY DEF Init, Inserted, Deleted
<1>3. ASSUME NEW s \in Session PROVE TransactionOK(s) /\ RequestOK(s)
  BY DEF Init, TransactionOK, RequestOK, Active, Statement
<1>4. RecordsOK /\ StruckOnce /\ AuditMatchesLedger
  BY <1>2 DEF Init, RecordsOK, StruckOnce, AuditMatchesLedger, NoWrites
<1> QED
  BY <1>1, <1>3, <1>4 DEF IInv

LEMMA NewEntryPreserves ==
  ASSUME IInv, NEW s \in Session, NEW type \in HistoryEntryType,
         NEW u \in User, NEW amount \in Amount,
         Request(s, "ADD", NewEntry(type, u, amount))
  PROVE  IInv'
<1> DEFINE e == NewEntry(type, u, amount)
<1>1. requests + 1 \in 1..MaxRequests
  BY LedgerAssumption DEF IInv, TypeOK, Request
<1>2. e \in HistoryEntry /\ e.id = requests + 1
  BY <1>1 DEF NewEntry, HistoryEntry
<1> QED
  BY <1>2, RequestPreserves

\* An Ask step is a request for an entry of the right kind, or a soft delete.
LEMMA AskPreserves ==
  ASSUME IInv, NEW s \in Session, Ask(s)
  PROVE  IInv'
<1>1. CASE AddPayment(s)
  BY <1>1, NewEntryPreserves DEF AddPayment, HistoryEntryType, Amount
<1>2. CASE UseMachine(s)
  BY <1>2, NewEntryPreserves DEF UseMachine, HistoryEntryType, Amount
<1>3. CASE AddSubscriptionConfirmation(s)
  BY <1>3, NewEntryPreserves
  DEF AddSubscriptionConfirmation, HistoryEntryType, Amount
<1>4. CASE RemoveHistoryEntry(s)
  <2>1. PICK e \in entries :
          e.type # "SUBSCRIPTION" /\ Request(s, "REMOVE", e)
    BY <1>4 DEF RemoveHistoryEntry
  <2>2. e \in HistoryEntry /\ e \in Inserted
    BY DEF IInv, TypeOK, AuditMatchesLedger
  <2> QED
    BY <2>1, <2>2, RequestPreserves
<1>5. CASE RemoveUser(s)
  BY <1>5, RemoveUserPreserves
<1> QED
  BY <1>1, <1>2, <1>3, <1>4, <1>5 DEF Ask, AddEntry

LEMMA StepPreserves ==
  ASSUME IInv, NEW s \in Session, Step(s)
  PROVE  IInv'
BY OpenPreserves, ConfirmPreserves, InsertPreserves, DeletePreserves,
   ComputeBalancePreserves, WriteAuditPreserves, CommitPreserves,
   RollbackPreserves DEF Step, LockFailure

LEMMA StutterPreserves == ASSUME IInv, UNCHANGED vars PROVE IInv'
<1>1. Inserted' = Inserted /\ Deleted' = Deleted
  BY DEF vars, Inserted, Deleted
<1>2. ASSUME NEW t \in Session PROVE TransactionOK(t)' /\ RequestOK(t)'
  <2>1. TransactionOK(t)'
    BY <1>1, TransactionFrame DEF IInv, vars
  <2> QED
    BY <1>1, <2>1 DEF IInv, vars, RequestOK
<1> QED
  BY <1>1, <1>2
  DEF IInv, vars, TypeOK, RecordsOK, StruckOnce, AuditMatchesLedger

LEMMA NextPreserves == IInv /\ [Next]_vars => IInv'
BY AskPreserves, StepPreserves, CrashPreserves, StutterPreserves DEF Next

\* A transaction holds the writes of the statements it has executed and no others,
\* whatever the others do: the theorems below rest on it.
THEOREM Invariance == Spec => []IInv
BY InitIInv, NextPreserves, PTL DEF Spec

\* Every variable keeps its shape in every behaviour (PaymentServiceImpl's
\* transactions, whatever their interleaving).
THEOREM TypeCorrect == Spec => []TypeOK
<1>1. IInv => TypeOK
  BY DEF IInv
<1> QED
  BY <1>1, Invariance, PTL

\* The audit table tells the whole story of the books, for any number of
\* sessions, users and requests.
THEOREM AuditComplete == Spec => []AuditMatchesLedger
<1>1. IInv => AuditMatchesLedger
  BY DEF IInv
<1> QED
  BY <1>1, Invariance, PTL

(***************************************************************************)
(* Only a commit changes the books                                         *)
(***************************************************************************)
LEMMA OnlyCommits ==
  ASSUME [Next]_vars
  PROVE  \/ \E s \in Session : Commit(s)
         \/ /\ UNCHANGED <<entries, balance, lastSub>>
            /\ Inserted' = Inserted /\ Deleted' = Deleted
<1>1. CASE UNCHANGED vars
  BY <1>1 DEF vars, Inserted, Deleted
<1>2. CASE Crash
  BY <1>2 DEF Crash, database, Inserted, Deleted
<1>3. ASSUME NEW s \in Session, RemoveUser(s)
      PROVE  /\ UNCHANGED <<entries, balance, lastSub>>
             /\ Inserted' = Inserted /\ Deleted' = Deleted
  BY <1>3 DEF RemoveUser, Inserted, Deleted
<1>4. ASSUME NEW s \in Session, Ask(s), ~RemoveUser(s)
      PROVE  UNCHANGED <<entries, balance, lastSub, audit>>
  BY <1>4 DEF Ask, AddEntry, AddPayment, UseMachine, AddSubscriptionConfirmation,
              RemoveHistoryEntry, Request, database
<1>5. ASSUME NEW s \in Session, Step(s), ~Commit(s)
      PROVE  UNCHANGED <<entries, balance, lastSub, audit>>
  BY <1>5 DEF Step, Open, Confirm, Insert, Delete, ComputeBalance, WriteAudit,
              LockFailure, Rollback, database
<1> QED
  BY <1>1, <1>2, <1>3, <1>4, <1>5 DEF Next, Inserted, Deleted

\* A confirmation date in t_user always belongs to a subscription the user was
\* charged for: it commits with that row and subscriptions are never removed.
THEOREM SubscriptionsCharged == Spec => []LastSubscriptionCharged
<1>1. Init => LastSubscriptionCharged
  BY DEF Init, LastSubscriptionCharged
<1>2. IInv /\ LastSubscriptionCharged /\ [Next]_vars => LastSubscriptionCharged'
  <2> SUFFICES ASSUME IInv, LastSubscriptionCharged, [Next]_vars
               PROVE  LastSubscriptionCharged'
    OBVIOUS
  <2>1. CASE UNCHANGED <<entries, balance, lastSub>>
    BY <2>1 DEF LastSubscriptionCharged, OfUser
  <2>2. ASSUME NEW s \in Session, Commit(s)
        PROVE  LastSubscriptionCharged'
    <3> DEFINE e == work[s].entry
    <3>1. /\ TransactionOK(s) /\ RequestOK(s) /\ Active(s) /\ pc[s] = "commit"
          /\ lastSub' = Written(lastSub, Subject(s), writes[s].lastSub)
      BY <2>2 DEF IInv, Commit, Active, Statement
    <3>2. /\ work[s].op = "ADD" => entries' = entries \cup {e}
          /\ work[s].op = "REMOVE" =>
               entries' = entries \ {e} /\ e.type # "SUBSCRIPTION"
          /\ work[s].op \in {"ADD", "REMOVE"}
      BY <2>2, <3>1, CommitEffect DEF RequestOK
    <3>3. \A i \in entries : i.type = "SUBSCRIPTION" => i \in entries'
      BY <3>2
    <3>4. CASE ~Adds(s, "SUBSCRIPTION")
      <4>1. lastSub' = lastSub
        BY <3>1, <3>4 DEF TransactionOK, WritesMatchPc, Written
      <4> QED
        BY <3>3, <4>1 DEF LastSubscriptionCharged, OfUser
    <3>5. CASE Adds(s, "SUBSCRIPTION")
      <4>1. writes[s].lastSub = {work[s].request}
        BY <3>1, <3>5 DEF TransactionOK, WritesMatchPc
      <4>2. lastSub' = [lastSub EXCEPT ![Subject(s)] = work[s].request]
        BY <3>1, <4>1 DEF Written
      <4>3. e \in OfUser(entries', Subject(s)) /\ e.type = "SUBSCRIPTION"
            /\ e.id = work[s].request
        BY <3>1, <3>2, <3>5 DEF Adds, OfUser, Subject, RequestOK
      <4>4. lastSub \in [User -> 0..MaxRequests]
        BY DEF IInv, TypeOK
      <4> QED
        BY <3>3, <4>2, <4>3, <4>4 DEF LastSubscriptionCharged, OfUser
    <3> QED
      BY <3>4, <3>5
  <2> QED
    BY <2>1, <2>2, OnlyCommits
<1> QED
  BY <1>1, <1>2, Invariance, PTL DEF Spec

(***************************************************************************)
(* The balance                                                             *)
(***************************************************************************)
\* Nothing adds up to zero, the balance of a new row of t_user.
LEMMA TotalOfNothing == Total({}) = 0
<1> DEFINE Fold(f) == f = [es \in SUBSET {} |->
             IF es = {} THEN 0
             ELSE LET e == CHOOSE e \in es : TRUE
                  IN  e.amount + f[es \ {e}]]
<1>1. Fold([es \in SUBSET {} |-> 0])
  OBVIOUS
<1>2. Fold(CHOOSE f : Fold(f))
  BY <1>1
<1>3. (CHOOSE f : Fold(f))[{}] = 0
  BY <1>2
<1>4. Total({}) = (CHOOSE f : Fold(f))[{}]
  BY DEF Total, MapThenSumSet, MapThenFoldSet
<1> QED
  BY <1>3, <1>4

\* What a commit does to the balance column: the total of the history the
\* transaction read, unless that is what it had read of the column itself.
LEMMA CommitBalance ==
  ASSUME IInv, NEW s \in Session, Commit(s)
  PROVE  /\ Subject(s) \in User
         /\ BalanceChanges(s) =>
              balance' = [balance EXCEPT ![Subject(s)] = Total(History(s))]
         /\ ~BalanceChanges(s) => balance' = balance
         /\ work[s].op = "ADD" =>
              History(s) = snap[s].entries \cup {work[s].entry}
         /\ work[s].op = "REMOVE" =>
              History(s) = snap[s].entries \ ({work[s].entry} \cap entries)
         /\ snap[s].entries \subseteq OfUser(Inserted, Subject(s))
<1>1. Active(s) /\ pc[s] = "commit" /\ TransactionOK(s)
  BY DEF IInv, Commit, Active, Statement
<1>2. WritesMatchPc(s) /\ work[s] \in Work
  BY <1>1 DEF TransactionOK
<1>3. writes[s].balance = IF BalanceChanges(s) THEN {Total(History(s))} ELSE {}
  BY <1>1, <1>2 DEF WritesMatchPc
<1>4. balance' = Written(balance, Subject(s), writes[s].balance)
  BY DEF Commit
<1>5. Subject(s) \in User
  BY <1>2 DEF Work, HistoryEntry, Subject
<1> QED
  BY <1>1, <1>2, <1>3, <1>4, <1>5
  DEF Written, TransactionOK, WritesMatchPc, History

\* The balance is never made up: with any number of racing transactions it is
\* the sum of entries of that user that were really committed.
THEOREM BalanceNeverInvented == Spec => []BalanceFromHistory
<1>1. Init => BalanceFromHistory
  BY TotalOfNothing DEF Init, BalanceFromHistory
<1>2. IInv /\ BalanceFromHistory /\ [Next]_vars => BalanceFromHistory'
  <2> SUFFICES ASSUME IInv, BalanceFromHistory, [Next]_vars
               PROVE  BalanceFromHistory'
    OBVIOUS
  <2>1. CASE UNCHANGED <<entries, balance, lastSub>> /\ Inserted' = Inserted
    BY <2>1 DEF BalanceFromHistory, OfUser
  <2>2. ASSUME NEW s \in Session, Commit(s)
        PROVE  BalanceFromHistory'
    <3>1. /\ Inserted \subseteq Inserted'
          /\ work[s].op = "ADD" => work[s].entry \in Inserted'
      BY <2>2, CommitEffect
    <3>2. History(s) \subseteq OfUser(Inserted', Subject(s))
      BY <2>2, <3>1, CommitBalance, CommitEffect DEF OfUser, Subject
    <3>3. DOMAIN balance = User
      BY DEF IInv, TypeOK
    <3> SUFFICES ASSUME NEW u \in User
                 PROVE  \E es \in SUBSET OfUser(Inserted', u) :
                          balance'[u] = Total(es)
      BY DEF BalanceFromHistory
    <3>4. CASE BalanceChanges(s) /\ u = Subject(s)
      BY <2>2, <3>2, <3>3, <3>4, CommitBalance
    <3>5. CASE ~(BalanceChanges(s) /\ u = Subject(s))
      <4>1. balance'[u] = balance[u]
        BY <2>2, <3>3, <3>5, CommitBalance
      <4>2. PICK es \in SUBSET OfUser(Inserted, u) : balance[u] = Total(es)
        BY DEF BalanceFromHistory
      <4> QED
        BY <3>1, <4>1, <4>2 DEF OfUser
    <3> QED
      BY <3>4, <3>5
  <2> QED
    BY <2>1, <2>2, OnlyCommits
<1> QED
  BY <1>1, <1>2, Invariance, PTL DEF Spec

LEMMA ExactCommit ==
  ASSUME IInv, NEW s \in Session, Commit(s), Undisturbed(s)
  PROVE  balance'[Subject(s)] = Total(OfUser(entries', Subject(s)))
<1>1. History(s) = OfUser(entries', Subject(s))
  BY CommitBalance, CommitEffect DEF Undisturbed, OfUser, Subject
<1>2. DOMAIN balance = User /\ Subject(s) \in User
  BY CommitBalance DEF IInv, TypeOK
<1>3. CASE BalanceChanges(s)
  BY <1>1, <1>2, <1>3, CommitBalance
<1>4. CASE ~BalanceChanges(s)
  <2>1. Total(History(s)) = balance[Subject(s)]
    BY <1>4 DEF BalanceChanges, Undisturbed
  <2> QED
    BY <1>1, <1>4, <2>1, CommitBalance
<1> QED
  BY <1>3, <1>4

\* The audit row of a live request appears in one step only, its commit.
LEMMA CommittedCommits ==
  ASSUME IInv, [Next]_vars, NEW s \in Session, Committed(s)
  PROVE  Commit(s)
<1>1. PICK a \in audit' \ audit : a.request = work[s].request
  BY DEF Committed
<1>2. pc[s] # "idle" /\ RequestOK(s)
  BY DEF Committed, IInv, TransactionOK
<1>3. ~ UNCHANGED audit
  BY <1>1
<1>4. ASSUME NEW t \in Session, RemoveUser(t) PROVE FALSE
  <2>1. a.request = requests + 1
    BY <1>1, <1>4 DEF RemoveUser
  <2> QED
    BY <1>1, <1>2, <2>1 DEF RequestOK, IInv, TypeOK
<1>5. ASSUME NEW t \in Session, Commit(t) PROVE t = s
  <2>1. a.request = work[t].request
    BY <1>1, <1>5, CommitEffect DEF AuditRowOf
  <2>2. pc[t] # "idle"
    BY <1>5 DEF Commit
  <2> QED
    BY <1>1, <1>2, <2>1, <2>2 DEF RequestOK
<1>6. ASSUME NEW t \in Session, Ask(t), ~RemoveUser(t) PROVE UNCHANGED audit
  BY <1>6 DEF Ask, AddEntry, AddPayment, UseMachine, AddSubscriptionConfirmation,
              RemoveHistoryEntry, Request, database
<1>7. ASSUME NEW t \in Session, Step(t), ~Commit(t) PROVE UNCHANGED audit
  BY <1>7 DEF Step, Open, Confirm, Insert, Delete, ComputeBalance, WriteAudit,
              LockFailure, Rollback, database
<1>8. Crash => UNCHANGED audit
  BY DEF Crash, database
<1> QED
  BY <1>3, <1>4, <1>5, <1>6, <1>7, <1>8 DEF Next, vars

\* The balance heals itself: an operation nobody overtook on its user leaves
\* the balance exact, whatever races came before.
THEOREM SelfHealing == Spec => UndisturbedExact
<1>1. IInv /\ [Next]_vars =>
        [\A s \in Session : Committed(s) /\ Undisturbed(s) =>
           balance'[Subject(s)] = Total(OfUser(entries', Subject(s)))]_vars
  BY CommittedCommits, ExactCommit
<1> QED
  BY <1>1, Invariance, PTL DEF Spec, UndisturbedExact

(***************************************************************************)
(* Refinement                                                              *)
(***************************************************************************)
\* Whatever the interleaving, a reader of the history and of the audit table
\* sees entries posted once and struck once, one at a time.
THEOREM ImplementsJournal == Spec => JournalSpec
<1>1. Init => Abstract!JournalInit
  BY DEF Init, Abstract!JournalInit, Inserted, Deleted
<1>2. IInv /\ [Next]_vars => [Abstract!JournalNext]_(Abstract!journal)
  <2> SUFFICES ASSUME IInv, [Next]_vars
               PROVE  [Abstract!JournalNext]_(Abstract!journal)
    OBVIOUS
  <2>1. CASE /\ UNCHANGED <<entries, balance, lastSub>>
             /\ Inserted' = Inserted /\ Deleted' = Deleted
    BY <2>1 DEF Abstract!journal
  <2>2. ASSUME NEW s \in Session, Commit(s)
        PROVE  [Abstract!JournalNext]_(Abstract!journal)
    <3> DEFINE e == work[s].entry
    <3>1. e \in HistoryEntry /\ work[s].op \in {"ADD", "REMOVE"}
      BY <2>2, CommitEffect DEF Work
    <3>2. RequestOK(s) /\ pc[s] # "idle"
      BY <2>2 DEF IInv, Commit
    <3>3. CASE work[s].op = "ADD"
      BY <2>2, <3>1, <3>2, <3>3, CommitEffect
      DEF RequestOK, Abstract!JournalNext, Abstract!Post
    <3>4. CASE work[s].op = "REMOVE" /\ e \in entries
      BY <2>2, <3>1, <3>4, CommitEffect
      DEF Abstract!JournalNext, Abstract!Strike
    <3>5. CASE work[s].op = "REMOVE" /\ e \notin entries
      <4>1. e \in Deleted
        BY <3>2, <3>5 DEF RequestOK, IInv, AuditMatchesLedger
      <4> QED
        BY <2>2, <3>5, <4>1, CommitEffect DEF Abstract!journal
    <3> QED
      BY <3>1, <3>3, <3>4, <3>5
  <2> QED
    BY <2>1, <2>2, OnlyCommits
<1> QED
  BY <1>1, <1>2, Invariance, PTL DEF Spec, JournalSpec, Abstract!JournalSpec

(***************************************************************************)
(* Transactions that do not overlap on a user                              *)
(***************************************************************************)
ReadsCurrent == \A s \in Session : Active(s) => Undisturbed(s)

SerialInv == IInv /\ NoOverlap /\ BalanceExact /\ ReadsCurrent

\* A snapshot is taken by Open and then kept to the end.
LEMMA SnapshotOrigin ==
  ASSUME IInv, [Next]_vars, NEW t \in Session, Active(t)'
  PROVE  /\ work'[t] = work[t]
         /\ \/ Active(t) /\ snap'[t] = snap[t]
            \/ /\ snap'[t].entries = OfUser(entries, Subject(t))
               /\ snap'[t].balance = balance[Subject(t)]
         /\ ~Commit(t)
<1> DEFINE Kept == Active(t) /\ snap'[t] = snap[t] /\ work'[t] = work[t]
<1>1. CASE UNCHANGED vars
  BY <1>1 DEF vars, Active, Commit, End, Statement, IInv, TypeOK
<1>2. ~Crash
  BY DEF Crash, Active, Statement
<1>3. ASSUME NEW s \in Session, RemoveUser(s) PROVE Kept
  BY <1>3 DEF RemoveUser, Active
<1>4. ASSUME NEW s \in Session, Ask(s), ~RemoveUser(s)
      PROVE  Kept
  <2>1. PICK op, e : Request(s, op, e)
    BY <1>4 DEF Ask, AddEntry, AddPayment, UseMachine, AddSubscriptionConfirmation,
                RemoveHistoryEntry
  <2>2. t # s
    BY <2>1 DEF Request, Active, Statement, IInv, TypeOK
  <2> QED
    BY <2>1, <2>2 DEF Request, Active, IInv, TypeOK
<1>5. ASSUME NEW s \in Session, Rollback(s) \/ Commit(s)
      PROVE  Kept /\ s # t
  <2>1. pc' = [pc EXCEPT ![s] = "idle"]
    BY <1>5 DEF Rollback, Commit, End
  <2>2. s # t
    BY <2>1 DEF Active, Statement, IInv, TypeOK
  <2>3. /\ work' = [work EXCEPT ![s] = NoWork]
        /\ snap' = [snap EXCEPT ![s] = NoSnapshot]
    BY <1>5 DEF Rollback, Commit, End
  <2> QED
    BY <2>1, <2>2, <2>3 DEF Active, IInv, TypeOK
<1>6. ASSUME NEW s \in Session, Open(s), ~Rollback(s)
      PROVE  /\ work'[t] = work[t]
             /\ \/ Kept
                \/ /\ snap'[t].entries = OfUser(entries, Subject(t))
                   /\ snap'[t].balance = balance[Subject(t)]
  BY <1>6 DEF Open, Active, IInv, TypeOK
<1>7. ASSUME NEW s \in Session,
             Confirm(s) \/ Insert(s) \/ Delete(s) \/ WriteAudit(s)
               \/ (ComputeBalance(s) /\ ~Rollback(s))
      PROVE  Kept
  <2>1. PICK next \in Statement : Execute(s, next)
    BY <1>7 DEF Confirm, Insert, Delete, WriteAudit, ComputeBalance, Statement
  <2>2. Active(s) /\ UNCHANGED <<work, snap>>
    BY <1>7 DEF Confirm, Insert, Delete, WriteAudit, ComputeBalance, Active,
                Statement
  <2> QED
    BY <2>1, <2>2 DEF Execute, Active, IInv, TypeOK, Statement
<1>8. ASSUME NEW s \in Session, LockFailure(s) PROVE Rollback(s)
  BY <1>8 DEF LockFailure
<1>9. ~Commit(t)
  BY <1>5
<1> QED
  BY <1>1, <1>2, <1>3, <1>4, <1>5, <1>6, <1>7, <1>8, <1>9 DEF Next, Step

\* The commit of s leaves the history and the balance of other users alone.
LEMMA CommitElsewhere ==
  ASSUME IInv, NEW s \in Session, Commit(s), NEW u \in User, u # Subject(s)
  PROVE  OfUser(entries', u) = OfUser(entries, u) /\ balance'[u] = balance[u]
<1>1. OfUser(entries', u) = OfUser(entries, u)
  BY CommitEffect DEF OfUser, Subject
<1>2. balance'[u] = balance[u]
  BY CommitBalance DEF IInv, TypeOK
<1> QED
  BY <1>1, <1>2

LEMMA SerialInvInit == Init => SerialInv
<1> SUFFICES ASSUME Init PROVE SerialInv
  OBVIOUS
<1>1. \A s \in Session : ~Active(s)
  BY DEF Init, Active, Statement
<1>2. BalanceExact
  <2>1. \A u \in User : OfUser(entries, u) = {}
    BY DEF Init, OfUser
  <2> QED
    BY <2>1, TotalOfNothing DEF Init, BalanceExact
<1> QED
  BY <1>1, <1>2, InitIInv DEF SerialInv, NoOverlap, ReadsCurrent

LEMMA SerialInvStep ==
  SerialInv /\ [Next /\ NoOverlap']_vars => SerialInv'
<1> SUFFICES ASSUME SerialInv, [Next /\ NoOverlap']_vars
             PROVE  SerialInv'
  OBVIOUS
<1>1. IInv /\ [Next]_vars
  BY DEF SerialInv
<1>2. IInv'
  BY <1>1, NextPreserves
<1>3. NoOverlap'
  BY DEF SerialInv, vars, NoOverlap, Active, Subject
<1>4. CASE UNCHANGED <<entries, balance, lastSub>>
  <2>1. BalanceExact'
    BY <1>4 DEF SerialInv, BalanceExact, OfUser
  <2>2. ASSUME NEW t \in Session, Active(t)' PROVE Undisturbed(t)'
    BY <1>1, <1>4, <2>2, SnapshotOrigin
    DEF SerialInv, ReadsCurrent, Undisturbed, Subject, OfUser
  <2> QED
    BY <1>2, <1>3, <2>1, <2>2 DEF SerialInv, ReadsCurrent
<1>5. ASSUME NEW s \in Session, Commit(s) PROVE SerialInv'
  <2>1. Active(s) /\ Undisturbed(s)
    BY <1>5 DEF Commit, Active, Statement, SerialInv, ReadsCurrent
  <2>2. BalanceExact'
    <3> SUFFICES ASSUME NEW u \in User
                 PROVE  balance'[u] = Total(OfUser(entries', u))
      BY DEF BalanceExact
    <3>1. CASE u = Subject(s)
      BY <1>1, <1>5, <2>1, <3>1, ExactCommit
    <3>2. CASE u # Subject(s)
      BY <1>1, <1>5, <3>2, CommitElsewhere DEF SerialInv, BalanceExact
    <3> QED
      BY <3>1, <3>2
  <2>3. ASSUME NEW t \in Session, Active(t)' PROVE Undisturbed(t)'
    <3>1. t # s /\ Subject(t)' = Subject(t)
      BY <1>1, <1>5, <2>3, SnapshotOrigin DEF Subject
    <3>2. Active(t) /\ snap'[t] = snap[t]
      BY <1>5, <2>3, <3>1 DEF Commit, End, Active, SerialInv, IInv, TypeOK
    <3>3. Subject(t) # Subject(s) /\ Subject(t) \in User /\ Undisturbed(t)
      <4>1. work[t] \in Work
        BY <3>2 DEF SerialInv, IInv, TransactionOK, Active, Statement
      <4> QED
        BY <2>1, <3>1, <3>2, <4>1
        DEF SerialInv, NoOverlap, ReadsCurrent, Subject, Work, HistoryEntry
    <3> QED
      BY <1>1, <1>5, <3>1, <3>2, <3>3, CommitElsewhere DEF Undisturbed
  <2> QED
    BY <1>2, <1>3, <2>2, <2>3 DEF SerialInv, ReadsCurrent
<1> QED
  BY <1>1, <1>4, <1>5, OnlyCommits

\* As long as no two transactions work on the same user at once the stored
\* balance is the sum of his history at all times: exactly the condition the
\* code leaves to chance.
THEOREM SerialBalanceExact == SerialSpec => []BalanceExact
<1>1. SerialInv => BalanceExact
  BY DEF SerialInv
<1> QED
  BY <1>1, SerialInvInit, SerialInvStep, PTL DEF SerialSpec

\* Under the same condition the transactions are the ideal books: every commit
\* posts or strikes one entry and brings the balance up to date in one step.
THEOREM ImplementsBooks == SerialSpec => BooksSpec
<1>1. Init => Abstract!BooksInit
  BY DEF Init, Abstract!BooksInit, Abstract!JournalInit, Inserted, Deleted
<1>2. SerialInv /\ [Next /\ NoOverlap']_vars =>
        [Abstract!BooksNext]_<<Abstract!journal, balance>>
  <2> SUFFICES ASSUME SerialInv, [Next /\ NoOverlap']_vars
               PROVE  [Abstract!BooksNext]_<<Abstract!journal, balance>>
    OBVIOUS
  <2>1. IInv /\ [Next]_vars /\ SerialInv'
    BY SerialInvStep DEF SerialInv
  <2>2. CASE /\ UNCHANGED <<entries, balance, lastSub>>
             /\ Inserted' = Inserted /\ Deleted' = Deleted
    BY <2>2 DEF Abstract!journal
  <2>3. ASSUME NEW s \in Session, Commit(s)
        PROVE  [Abstract!BooksNext]_<<Abstract!journal, balance>>
    <3> DEFINE e == work[s].entry
               u == e.user
    <3>1. e \in HistoryEntry /\ work[s].op \in {"ADD", "REMOVE"}
      BY <2>1, <2>3, CommitEffect DEF Work
    <3>2. RequestOK(s) /\ pc[s] # "idle"
      BY <2>1, <2>3 DEF IInv, Commit
    <3>3. u = Subject(s) /\ u \in User
      BY <3>1 DEF Subject, HistoryEntry
    <3>4. \A v \in User : balance'[v] =
            IF v = u THEN Total(OfUser(entries', u)) ELSE balance[v]
      BY <2>1, <2>3, <3>3, CommitElsewhere DEF SerialInv, BalanceExact
    <3>5. Abstract!Rebalance(u)
      <4>1. Total(OfUser(entries', u)) = Abstract!Sum(entries', u)
        BY DEF Total, OfUser, Abstract!Sum, MapThenSumSet, MapThenFoldSet,
               Abstract!MapThenSumSet, Abstract!MapThenFoldSet
      <4>2. balance = [v \in User |-> balance[v]]
            /\ balance' = [v \in User |-> balance'[v]]
        BY <2>1 DEF IInv, TypeOK, SerialInv
      <4> QED
        BY <3>3, <3>4, <4>1, <4>2 DEF Abstract!Rebalance
    <3>6. CASE work[s].op = "ADD"
      BY <2>1, <2>3, <3>1, <3>2, <3>5, <3>6, CommitEffect
      DEF RequestOK, Abstract!BooksNext, Abstract!Post
    <3>7. CASE work[s].op = "REMOVE" /\ e \in entries
      BY <2>1, <2>3, <3>1, <3>5, <3>7, CommitEffect
      DEF Abstract!BooksNext, Abstract!Strike
    <3>8. CASE work[s].op = "REMOVE" /\ e \notin entries
      <4>1. e \in Deleted /\ entries' = entries
            /\ Inserted' = Inserted /\ Deleted' = Deleted \cup {e}
        BY <2>1, <2>3, <3>2, <3>8, CommitEffect
        DEF RequestOK, IInv, AuditMatchesLedger
      <4>2. \A v \in User : balance'[v] = balance[v]
        BY <3>4, <4>1 DEF SerialInv, BalanceExact
      <4>3. balance' = balance
        BY <2>1, <4>2 DEF IInv, TypeOK, SerialInv
      <4> QED
        BY <4>1, <4>3 DEF Abstract!journal
    <3> QED
      BY <3>1, <3>6, <3>7, <3>8
  <2> QED
    BY <2>1, <2>2, <2>3, OnlyCommits
<1> QED
  BY <1>1, <1>2, SerialInvInit, SerialInvStep, PTL
  DEF SerialSpec, BooksSpec, Abstract!BooksSpec

=============================================================================
