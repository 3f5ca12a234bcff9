\* One row cannot be read: the same mail goes out at every check.
CONSTANTS
  door = door
  printer = printer
  System <- MCSystem
  Notify <- MCNotify
  Breakable = {printer}
  MaxFlips = 1
  MaxAborts = 2

SPECIFICATION Spec

INVARIANT MailsAlternate

\* The bound on aborted checks ends the run inside a check.
CHECK_DEADLOCK FALSE
