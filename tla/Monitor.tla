------------------------------ MODULE Monitor ------------------------------
(***************************************************************************)
(* The monitoring of the fablab's systems: every minute SystemChecker      *)
(* pings each row of t_system_status and, in one transaction, stores what  *)
(* has changed and writes an audit row for it. The mail it sends for a     *)
(* change is outside the transaction (MailServiceImpl is NOT_SUPPORTED),   *)
(* so it stays sent when the transaction is rolled back.                   *)
(*                                                                         *)
(* External: the hosts, the mail server and the timer. The singleton is    *)
(* write-locked, so a check never overlaps the next one.                   *)
(***************************************************************************)
EXTENDS Integers, Sequences, FiniteSets

CONSTANTS
  System,      \* rows of t_system_status
  Notify,      \* those with the notify flag
  Breakable,   \* those whose type or content may be edited into nonsense
  MaxFlips,    \* bound: changes of the hosts
  MaxAborts    \* bound: checks rolled back

ASSUME MonitorAssumption ==
  /\ Notify \subseteq System
  /\ Breakable \subseteq System
  /\ MaxFlips \in Nat
  /\ MaxAborts \in Nat

VARIABLES
  answers,   \* whether each host answers a ping
  stored,    \* committed content: the pingIcmpOk flag
  unreadable, \* rows that cannot be turned into an object
  log,       \* committed audit rows of each system: the status they report
  mails,     \* mails sent about each system: the status they report
  refused,   \* number of mails about each system the mail server refused
  checking,  \* is a check running
  todo,      \* the systems its loop has not reached
  content,   \* the content as its transaction sees it
  flips,     \* changes of the hosts so far
  aborts     \* checks rolled back so far

tables == <<stored, unreadable, log>>
outbox == <<mails, refused>>
check == <<checking, todo, content>>
vars == <<answers, stored, unreadable, log, mails, refused, checking, todo, content,
          flips, aborts>>

PingStatus == {"ok", "failed"}

Init ==
  /\ answers \in [System -> PingStatus]
  /\ stored \in [System -> PingStatus]
  /\ unreadable \in SUBSET Breakable
  /\ log = [s \in System |-> << >>]
  /\ mails = [s \in System |-> << >>]
  /\ refused = [s \in System |-> 0]
  /\ checking = FALSE
  /\ todo = {}
  /\ content = stored
  /\ flips = 0
  /\ aborts = 0

\* A host goes down or comes back, or the network to it does.
HostChanges(s) ==
  /\ flips < MaxFlips
  /\ flips' = flips + 1
  /\ \E status \in PingStatus \ {answers[s]} :
       answers' = [answers EXCEPT ![s] = status]
  /\ UNCHANGED <<tables, outbox, check, aborts>>

\* The timer fires: the transaction begins and reads all rows.
Tick ==
  /\ ~checking
  /\ checking' = TRUE
  /\ todo' = System
  /\ UNCHANGED <<answers, tables, outbox, content, flips, aborts>>

\* Slip: it returns the result of the ping, not whether the flag has changed.
CheckReturnsResult(s) == answers[s] = "ok"

\* AbstractSystem.executeCheck: ping the host, true if the flag has changed.
ExecuteCheck(s) == answers[s] # content[s]

\* Slip: only good news are mailed.
BroadcastRecovery(s) ==
  IF s \notin Notify \/ answers[s] = "failed" THEN UNCHANGED outbox
  ELSE mails' = [mails EXCEPT ![s] = Append(@, answers[s])] /\ refused' = refused

\* The mail about s leaves at once, or is refused and only logged.
Broadcast(s) ==
  IF s \notin Notify THEN UNCHANGED outbox
  ELSE \/ /\ mails' = [mails EXCEPT ![s] = Append(@, answers[s])]
          /\ refused' = refused
       \/ /\ refused' = [refused EXCEPT ![s] = @ + 1]
          /\ mails' = mails

\* Slip: the mail goes out whether or not something has changed.
CheckAlwaysBroadcasts(s) ==
  /\ checking
  /\ s \in todo \ unreadable
  /\ todo' = todo \ {s}
  /\ content' = [content EXCEPT ![s] = answers[s]]
  /\ Broadcast(s)
  /\ UNCHANGED <<answers, tables, checking, flips, aborts>>

\* Slip: the audit row is written in a transaction of its own.
CheckAuditsApart(s) ==
  /\ checking
  /\ s \in todo \ unreadable
  /\ todo' = todo \ {s}
  /\ content' = [content EXCEPT ![s] = answers[s]]
  /\ log' = IF ExecuteCheck(s) THEN [log EXCEPT ![s] = Append(@, answers[s])]
            ELSE log
  /\ UNCHANGED <<answers, stored, unreadable, outbox, checking, flips,
                 aborts>>

\* One turn of the loop on a readable row: ping, save, audit and mail.
CheckSystem(s) ==
  /\ checking
  /\ s \in todo \ unreadable
  /\ todo' = todo \ {s}
  /\ IF ExecuteCheck(s)
     THEN content' = [content EXCEPT ![s] = answers[s]] /\ Broadcast(s)
     ELSE UNCHANGED <<content, outbox>>
  /\ UNCHANGED <<answers, tables, checking, flips, aborts>>

\* The transaction ends without a commit; its mails stay sent.
Abort ==
  /\ aborts < MaxAborts
  /\ aborts' = aborts + 1
  /\ checking' = FALSE
  /\ todo' = {}
  /\ content' = stored
  /\ UNCHANGED <<answers, tables, outbox, flips>>

\* Slip: the row is skipped.
SkipUnreadable(s) ==
  /\ checking
  /\ s \in todo \cap unreadable
  /\ todo' = todo \ {s}
  /\ UNCHANGED <<answers, tables, outbox, checking, content, flips, aborts>>

\* The factory returns null for an unreadable row and the loop dereferences it:
\* the RuntimeException rolls the whole check back.
MeetUnreadable(s) == checking /\ s \in todo \cap unreadable /\ Abort

\* Slip: the check is never marked as ended.
CommitKeepsTodo ==
  /\ checking
  /\ todo = {}
  /\ stored' = content
  /\ log' = log
  /\ checking' = FALSE
  /\ todo' = System
  /\ UNCHANGED <<answers, unreadable, outbox, content, flips, aborts>>

\* What Commit writes for each system the check found changed: the content and
\* the audit row that reports it.
Commit ==
  /\ checking
  /\ todo = {}
  /\ stored' = content
  /\ log' = [s \in System |->
               IF content[s] # stored[s] THEN Append(log[s], content[s])
               ELSE log[s]]
  /\ checking' = FALSE
  /\ UNCHANGED <<answers, unreadable, outbox, todo, content, flips, aborts>>

\* The application server or the database stops during a check.
Crash == checking /\ Abort

-----------------------------------------------------------------------------
Work == Tick \/ Commit \/ \E s \in System : CheckSystem(s) \/ MeetUnreadable(s)

Next == Work \/ Crash \/ \E s \in System : HostChanges(s)

Spec == Init /\ [][Next]_vars

\* The timer fires every minute and the container runs what it started.
FairSpec == Spec /\ WF_vars(Work)

(***************************************************************************)
(* Properties                                                              *)
(***************************************************************************)
\* Every variable keeps its shape; between two checks nothing is pending, and
\* a row the loop has not reached is as it was read.
TypeOK ==
  /\ answers \in [System -> PingStatus]
  /\ stored \in [System -> PingStatus]
  /\ content \in [System -> PingStatus]
  /\ unreadable \in SUBSET Breakable
  /\ log \in [System -> Seq(PingStatus)]
  /\ mails \in [System -> Seq(PingStatus)]
  /\ refused \in [System -> Nat]
  /\ checking \in BOOLEAN
  /\ todo \subseteq System
  /\ ~checking => todo = {} /\ content = stored
  /\ \A s \in todo : content[s] = stored[s]
  /\ flips \in 0..MaxFlips
  /\ aborts \in 0..MaxAborts

\* The audit rows of a system tell its whole story: each one reports the
\* opposite of the one before, and the last one is the status stored. No change
\* has two rows and no stored change lacks its row, whatever crashes, because
\* content and row are saved in one transaction.
AuditTellsStatus ==
  \A s \in System :
    /\ log[s] # << >> => stored[s] = log[s][Len(log[s])]
    /\ \A i \in 1..(Len(log[s]) - 1) : log[s][i + 1] # log[s][i]

\* Mails about s the check has handed to the mail server, all checks together.
Handed(s) == Len(mails[s]) + refused[s]

\* The change of s the running check has found and not yet committed.
Pending(s) == IF content[s] # stored[s] THEN 1 ELSE 0

\* Nobody misses a change: for every recorded change of a system with the
\* notify flag a mail was handed over before the commit. There may be more
\* mails than changes: a rolled-back check has sent its mails.
ChangesAreMailed == \A s \in Notify : Len(log[s]) <= Handed(s)

\* Until a check is rolled back, the mails are exactly the recorded changes and
\* those the running check is about to record.
MailsMatchChanges ==
  aborts = 0 =>
    \A s \in Notify :
      Handed(s) = Len(log[s]) + Pending(s)

\* One unreadable row keeps the changes of every other system from being
\* recorded: the loop has no way around it and the transaction is one.
OneUnreadableStopsAll ==
  unreadable # {} => \A s \in System : log[s] = << >>

\* Two mails in a row about a system report different statuses, as their text
\* says. Nothing in the code makes it so.
MailsAlternate ==
  \A s \in System : \A i \in 1..(Len(mails[s]) - 1) :
    mails[s][i + 1] # mails[s][i]

\* When the hosts stop changing, the stored status becomes theirs and stays so,
\* whatever crashed before. It needs every row to be readable.
StatusCatchesUp == unreadable = {} => <>[](stored = answers)

(***************************************************************************)
(* The inductive invariant. Changes the running check has found count as   *)
(* mailed already, and an unreadable row is never taken from its list.     *)
(***************************************************************************)
MailsAhead == \A s \in Notify : Len(log[s]) + Pending(s) <= Handed(s)

StuckOnUnreadable == checking => unreadable \subseteq todo

IInv ==
  /\ TypeOK
  /\ AuditTellsStatus
  /\ MailsAhead
  /\ MailsMatchChanges
  /\ StuckOnUnreadable
  /\ OneUnreadableStopsAll

=============================================================================
