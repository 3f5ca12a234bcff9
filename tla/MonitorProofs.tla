---------------------------- MODULE MonitorProofs ----------------------------
(***************************************************************************)
(* What holds of Monitor for every set of systems, every choice of those   *)
(* that are unreadable or notified, and every bound.                       *)
(***************************************************************************)
EXTENDS Monitor, TLAPS

LEMMA InitEstablishes == Init => IInv
<1> SUFFICES ASSUME Init PROVE IInv
  OBVIOUS
<1> USE MonitorAssumption DEF Init
<1>1. TypeOK
  <2>1. << >> \in Seq(PingStatus)
    OBVIOUS
  <2>2. /\ log \in [System -> Seq(PingStatus)]
        /\ mails \in [System -> Seq(PingStatus)]
    BY <2>1
  <2>3. refused \in [System -> Nat] /\ 0 \in 0..MaxFlips /\ 0 \in 0..MaxAborts
    OBVIOUS
  <2>4. content = stored /\ checking \in BOOLEAN /\ todo = {}
    OBVIOUS
  <2> QED
    BY <2>2, <2>3, <2>4 DEF TypeOK
<1>2. AuditTellsStatus /\ OneUnreadableStopsAll /\ StuckOnUnreadable
  BY DEF AuditTellsStatus, OneUnreadableStopsAll, StuckOnUnreadable
<1>3. MailsAhead /\ MailsMatchChanges
  BY DEF MailsAhead, MailsMatchChanges, Handed, Pending
<1> QED
  BY <1>1, <1>2, <1>3 DEF IInv

\* A step that leaves tables, outbox and check alone keeps the invariant.
LEMMA FrameKeeps ==
  ASSUME IInv, UNCHANGED <<tables, outbox, check, aborts>>, TypeOK'
  PROVE  IInv'
<1>1. UNCHANGED <<stored, unreadable, log, mails, refused, checking, todo, content,
                 aborts>>
  BY DEF tables, outbox, check
<1> QED
  BY <1>1 DEF IInv, AuditTellsStatus, MailsAhead, MailsMatchChanges, Pending,
              Handed, StuckOnUnreadable, OneUnreadableStopsAll

LEMMA HostChangesKeeps ==
  ASSUME IInv, NEW s \in System, HostChanges(s)
  PROVE  IInv'
<1>1. TypeOK'
  BY MonitorAssumption
     DEF IInv, TypeOK, HostChanges, tables, outbox, check, PingStatus
<1> QED
  BY <1>1, FrameKeeps DEF HostChanges

LEMMA TickKeeps ==
  ASSUME IInv, Tick
  PROVE  IInv'
<1> USE MonitorAssumption DEF IInv, Tick, tables, outbox
<1>1. TypeOK'
  BY DEF TypeOK
<1>2. StuckOnUnreadable'
  BY DEF TypeOK, StuckOnUnreadable
<1>3. AuditTellsStatus' /\ OneUnreadableStopsAll'
  BY DEF AuditTellsStatus, OneUnreadableStopsAll
<1>4. MailsAhead' /\ MailsMatchChanges'
  BY DEF MailsAhead, MailsMatchChanges, Handed, Pending
<1> QED
  BY <1>1, <1>2, <1>3, <1>4

\* A mail about s raises the count of s by one and of no other system.
LEMMA BroadcastCounts ==
  ASSUME TypeOK, NEW s \in System, Broadcast(s), NEW t \in System
  PROVE  /\ mails' \in [System -> Seq(PingStatus)]
         /\ refused' \in [System -> Nat]
         /\ s \in Notify => Handed(s)' = Handed(s) + 1
         /\ t # s => Handed(t)' = Handed(t)
<1>1. ASSUME NEW r \in System
      PROVE  /\ mails[r] \in Seq(PingStatus) /\ Len(mails[r]) \in Nat
             /\ refused[r] \in Nat
  BY DEF TypeOK
<1>2. CASE s \notin Notify
  BY <1>2 DEF TypeOK, Handed, Broadcast, outbox
<1>3. CASE /\ s \in Notify
           /\ mails' = [mails EXCEPT ![s] = Append(@, answers[s])]
           /\ refused' = refused
  <2>1. answers[s] \in PingStatus
    BY DEF TypeOK
  <2>2. Append(mails[s], answers[s]) \in Seq(PingStatus)
        /\ Len(Append(mails[s], answers[s])) = Len(mails[s]) + 1
    BY <1>1, <2>1
  <2>3. mails' \in [System -> Seq(PingStatus)] /\ refused' \in [System -> Nat]
    BY <1>3, <2>2 DEF TypeOK
  <2>4. mails'[s] = Append(mails[s], answers[s]) /\ (t # s => mails'[t] = mails[t])
    BY <1>3 DEF TypeOK
  <2>5. Handed(s)' = Handed(s) + 1
    BY <1>1, <1>3, <2>2, <2>4 DEF Handed
  <2>6. t # s => Handed(t)' = Handed(t)
    BY <1>3, <2>4 DEF Handed
  <2> QED
    BY <2>3, <2>5, <2>6
<1>4. CASE /\ s \in Notify
           /\ refused' = [refused EXCEPT ![s] = @ + 1]
           /\ mails' = mails
  <2>1. refused' \in [System -> Nat] /\ mails' \in [System -> Seq(PingStatus)]
    BY <1>1, <1>4 DEF TypeOK
  <2>2. refused'[s] = refused[s] + 1 /\ (t # s => refused'[t] = refused[t])
    BY <1>4 DEF TypeOK
  <2>3. Handed(s)' = Handed(s) + 1
    BY <1>1, <1>4, <2>2 DEF Handed
  <2>4. t # s => Handed(t)' = Handed(t)
    BY <1>4, <2>2 DEF Handed
  <2> QED
    BY <2>1, <2>3, <2>4
<1> QED
  BY <1>2, <1>3, <1>4 DEF Broadcast

LEMMA CheckSystemKeeps ==
  ASSUME IInv, NEW s \in System, CheckSystem(s)
  PROVE  IInv'
<1>1. /\ s \in todo \ unreadable /\ checking /\ todo' = todo \ {s}
      /\ UNCHANGED <<answers, stored, unreadable, log, checking, flips, aborts>>
  BY DEF CheckSystem, tables
<1>2. TypeOK
  BY DEF IInv
<1>3. AuditTellsStatus' /\ OneUnreadableStopsAll' /\ StuckOnUnreadable'
  BY <1>1 DEF IInv, AuditTellsStatus, OneUnreadableStopsAll, StuckOnUnreadable
<1>4. CASE ~ExecuteCheck(s)
  <2>1. UNCHANGED <<content, mails, refused>>
    BY <1>4 DEF CheckSystem, outbox
  <2>2. TypeOK'
    BY <1>1, <1>2, <2>1 DEF TypeOK
  <2>3. MailsAhead' /\ MailsMatchChanges'
    BY <1>1, <2>1 DEF IInv, MailsAhead, MailsMatchChanges, Handed, Pending
  <2> QED
    BY <1>3, <2>2, <2>3 DEF IInv
<1>5. CASE ExecuteCheck(s)
  <2>1. content' = [content EXCEPT ![s] = answers[s]] /\ Broadcast(s)
    BY <1>5 DEF CheckSystem
  <2>2. TypeOK'
    BY <1>1, <1>2, <2>1, BroadcastCounts DEF TypeOK
  <2>3. Pending(s) = 0 /\ Pending(s)' = 1
    BY <1>1, <1>2, <1>5, <2>1 DEF TypeOK, Pending, ExecuteCheck
  <2>4. ASSUME NEW t \in Notify
        PROVE  Handed(t)' - Pending(t)' = Handed(t) - Pending(t)
    <3>1. t \in System
      BY MonitorAssumption
    <3>2. Handed(t) \in Nat
      BY <1>2, <3>1 DEF TypeOK, Handed
    <3>3. CASE t = s
      BY <1>2, <2>1, <2>3, <3>2, <3>3, BroadcastCounts
    <3>4. CASE t # s
      <4>1. Pending(t)' = Pending(t)
        BY <1>1, <1>2, <2>1, <3>1, <3>4 DEF TypeOK, Pending
      <4> QED
        BY <1>2, <2>1, <3>1, <3>4, <4>1, BroadcastCounts
    <3> QED
      BY <3>3, <3>4
  <2>5. ASSUME NEW t \in Notify
        PROVE  /\ Handed(t) \in Nat /\ Handed(t)' \in Nat
               /\ Pending(t) \in 0..1 /\ Pending(t)' \in 0..1
               /\ Len(log[t]) \in Nat /\ log'[t] = log[t]
    BY <1>1, <1>2, <2>2, MonitorAssumption DEF TypeOK, Handed, Pending
  <2>6. MailsAhead'
    BY <2>4, <2>5 DEF IInv, MailsAhead
  <2>7. MailsMatchChanges'
    BY <1>1, <2>4, <2>5 DEF IInv, MailsMatchChanges
  <2> QED
    BY <1>3, <2>2, <2>6, <2>7 DEF IInv
<1> QED
  BY <1>4, <1>5

LEMMA AbortKeeps ==
  ASSUME IInv, Abort
  PROVE  IInv'
<1>1. /\ aborts \in Nat /\ aborts' = aborts + 1 /\ checking' = FALSE
      /\ content' = stored
      /\ UNCHANGED <<stored, unreadable, log, mails, refused>>
  BY MonitorAssumption DEF IInv, TypeOK, Abort, tables, outbox
<1>2. TypeOK'
  <2>1. aborts' \in 0..MaxAborts
    BY <1>1, MonitorAssumption DEF Abort
  <2>2. todo' = {} /\ UNCHANGED <<answers, flips>>
    BY DEF Abort
  <2> QED
    BY <1>1, <2>1, <2>2 DEF IInv, TypeOK
<1>3. AuditTellsStatus' /\ OneUnreadableStopsAll' /\ StuckOnUnreadable'
  BY <1>1 DEF IInv, AuditTellsStatus, OneUnreadableStopsAll, StuckOnUnreadable
<1>4. MailsMatchChanges'
  BY <1>1 DEF MailsMatchChanges
<1>5. MailsAhead'
  <2> SUFFICES ASSUME NEW t \in Notify
               PROVE  Len(log[t]) <= Handed(t)
    BY <1>1 DEF IInv, TypeOK, MailsAhead, Pending, Handed
  <2>1. Len(log[t]) \in Nat /\ Handed(t) \in Nat /\ Pending(t) \in 0..1
    BY MonitorAssumption DEF IInv, TypeOK, Handed, Pending
  <2> QED
    BY <2>1 DEF IInv, MailsAhead
<1> QED
  BY <1>2, <1>3, <1>4, <1>5 DEF IInv

LEMMA CommitKeeps ==
  ASSUME IInv, Commit
  PROVE  IInv'
<1>1. /\ todo = {} /\ checking /\ checking' = FALSE /\ stored' = content
      /\ UNCHANGED <<answers, unreadable, mails, refused, todo, content, flips,
                   aborts>>
  BY DEF Commit, outbox
<1>2. ASSUME NEW t \in System
      PROVE  /\ content[t] = stored[t] => log'[t] = log[t]
             /\ content[t] # stored[t] => log'[t] = Append(log[t], content[t])
             /\ content[t] \in PingStatus /\ log[t] \in Seq(PingStatus)
  BY DEF IInv, TypeOK, Commit
<1>3. unreadable = {}
  BY <1>1 DEF IInv, StuckOnUnreadable
<1>4. TypeOK'
  <2>1. ASSUME NEW t \in System PROVE log'[t] \in Seq(PingStatus)
    <3>1. content[t] \in PingStatus /\ log[t] \in Seq(PingStatus)
      BY <1>2
    <3>2. Append(log[t], content[t]) \in Seq(PingStatus)
      BY <3>1
    <3> QED
      BY <1>2, <3>1, <3>2
  <2>2. log' = [t \in System |-> log'[t]]
    BY DEF Commit
  <2>3. log' \in [System -> Seq(PingStatus)]
    BY <2>1, <2>2
  <2> QED
    BY <1>1, <2>3 DEF IInv, TypeOK
<1>5. AuditTellsStatus'
  <2> SUFFICES ASSUME NEW t \in System
               PROVE  /\ log'[t] # << >> => content[t] = log'[t][Len(log'[t])]
                      /\ \A i \in 1..(Len(log'[t]) - 1) :
                           log'[t][i + 1] # log'[t][i]
    BY <1>1 DEF AuditTellsStatus
  <2>1. /\ log[t] # << >> => stored[t] = log[t][Len(log[t])]
        /\ \A i \in 1..(Len(log[t]) - 1) : log[t][i + 1] # log[t][i]
    BY DEF IInv, AuditTellsStatus
  <2>2. CASE content[t] = stored[t]
    BY <1>2, <2>1, <2>2
  <2>3. CASE content[t] # stored[t]
    <3>1. /\ log'[t] = Append(log[t], content[t])
          /\ Len(log'[t]) = Len(log[t]) + 1 /\ Len(log[t]) \in Nat
          /\ log'[t][Len(log[t]) + 1] = content[t]
          /\ \A i \in 1..Len(log[t]) : log'[t][i] = log[t][i]
      BY <1>2, <2>3
    <3>2. ASSUME NEW i \in 1..(Len(log'[t]) - 1)
          PROVE  log'[t][i + 1] # log'[t][i]
      <4>1. CASE i = Len(log[t])
        BY <2>1, <2>3, <3>1, <4>1
      <4>2. CASE i # Len(log[t])
        BY <2>1, <3>1, <4>2
      <4> QED
        BY <4>1, <4>2
    <3> QED
      BY <3>1, <3>2
  <2> QED
    BY <2>2, <2>3
<1>6. ASSUME NEW t \in Notify
      PROVE  /\ Len(log'[t]) + Pending(t)' = Len(log[t]) + Pending(t)
             /\ Handed(t)' = Handed(t)
  <2>1. t \in System
    BY MonitorAssumption
  <2>2. Pending(t)' = 0 /\ Handed(t)' = Handed(t)
    BY <1>1 DEF Pending, Handed
  <2>3. CASE content[t] = stored[t]
    BY <1>2, <2>1, <2>2, <2>3 DEF Pending
  <2>4. CASE content[t] # stored[t]
    <3>1. log'[t] = Append(log[t], content[t])
      BY <1>2, <2>1, <2>4
    <3>2. log[t] \in Seq(PingStatus) /\ content[t] \in PingStatus
      BY <1>2, <2>1
    <3>3. Len(log'[t]) = Len(log[t]) + 1
      BY <3>1, <3>2
    <3>4. Pending(t) = 1
      BY <2>4 DEF Pending
    <3>5. Len(log[t]) \in Nat
      BY <3>2
    <3> QED
      BY <2>2, <3>3, <3>4, <3>5
  <2> QED
    BY <2>3, <2>4
<1>7. MailsAhead' /\ MailsMatchChanges'
  BY <1>1, <1>6 DEF IInv, MailsAhead, MailsMatchChanges
<1>8. StuckOnUnreadable' /\ OneUnreadableStopsAll'
  BY <1>1, <1>3 DEF StuckOnUnreadable, OneUnreadableStopsAll
<1> QED
  BY <1>4, <1>5, <1>7, <1>8 DEF IInv

\* The inductive invariant holds of every check, whatever hosts and mail server
\* do and whenever SystemChecker's transaction is rolled back.
THEOREM Invariance == Spec => []IInv
<1>1. IInv /\ [Next]_vars => IInv'
  <2> SUFFICES ASSUME IInv, [Next]_vars PROVE IInv'
    OBVIOUS
  <2>1. CASE Tick
    BY <2>1, TickKeeps
  <2>2. CASE Commit
    BY <2>2, CommitKeeps
  <2>3. ASSUME NEW s \in System, CheckSystem(s) PROVE IInv'
    BY <2>3, CheckSystemKeeps
  <2>4. ASSUME NEW s \in System, MeetUnreadable(s) PROVE IInv'
    BY <2>4, AbortKeeps DEF MeetUnreadable
  <2>5. CASE Crash
    BY <2>5, AbortKeeps DEF Crash
  <2>6. ASSUME NEW s \in System, HostChanges(s) PROVE IInv'
    BY <2>6, HostChangesKeeps
  <2>7. CASE UNCHANGED vars
    <3>1. TypeOK' /\ UNCHANGED <<tables, outbox, check, aborts>>
      BY <2>7 DEF vars, IInv, TypeOK, tables, outbox, check
    <3> QED
      BY <3>1, FrameKeeps
  <2> QED
    BY <2>1, <2>2, <2>3, <2>4, <2>5, <2>6, <2>7 DEF Next, Work
<1> QED
  BY <1>1, InitEstablishes, PTL DEF Spec

\* Every variable of the monitoring keeps its shape and nothing is pending
\* between two checks.
THEOREM TypeCorrect == Spec => []TypeOK
BY Invariance, PTL DEF IInv

\* Status and audit rows are saved together: the rows alternate and the last
\* one is the stored status.
THEOREM AuditComplete == Spec => []AuditTellsStatus
BY Invariance, PTL DEF IInv

\* Until a check is rolled back, mails and changes are the same.
THEOREM MailsExact == Spec => []MailsMatchChanges
BY Invariance, PTL DEF IInv

\* Every recorded change of a notifying system was handed to the mail server.
THEOREM NoChangeUnmailed == Spec => []ChangesAreMailed
<1>1. IInv => ChangesAreMailed
  <2> SUFFICES ASSUME IInv, NEW t \in Notify PROVE Len(log[t]) <= Handed(t)
    BY DEF ChangesAreMailed
  <2>1. Len(log[t]) \in Nat /\ Handed(t) \in Nat /\ Pending(t) \in 0..1
    BY MonitorAssumption DEF IInv, TypeOK, Handed, Pending
  <2> QED
    BY <2>1 DEF IInv, MailsAhead
<1> QED
  BY <1>1, Invariance, PTL

\* With one unreadable row SystemChecker never records anything.
THEOREM UnreadableBlocks == Spec => []OneUnreadableStopsAll
BY Invariance, PTL DEF IInv

=============================================================================
