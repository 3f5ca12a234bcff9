\* Changing hosts, two rolled-back checks, every choice of unreadable rows.
CONSTANTS
  door = door
  printer = printer
  System <- MCSystem
  Notify <- MCNotify
  Breakable = {printer}
  MaxFlips = 3
  MaxAborts = 2

SPECIFICATION FairSpec

INVARIANT TypeOK
INVARIANT AuditTellsStatus
INVARIANT ChangesAreMailed
INVARIANT MailsMatchChanges
INVARIANT OneUnreadableStopsAll
PROPERTY StatusCatchesUp

\* With an unreadable row the bound on aborted checks ends the run inside a
\* check.
CHECK_DEADLOCK FALSE
