\* Two sessions, every interleaving: the promises that hold despite races, failures
\* and crashes.
CONSTANTS
  u1 = u1
  u2 = u2
  s1 = s1
  s2 = s2
  User <- MCUser
  Session <- MCSession
  Cashier <- MCCashier
  PaymentAmounts <- MCPaymentAmounts
  UsageCosts <- MCUsageCosts
  SubscriptionPrice <- MCSubscriptionPrice
  MaxRequests = 3

SPECIFICATION Spec

INVARIANT TypeOK
INVARIANT AuditMatchesLedger
INVARIANT BalanceFromHistory
INVARIANT LastSubscriptionCharged
PROPERTY UndisturbedExact
PROPERTY JournalSpec

\* Requests are bounded, so the system stops when they are used up.
CHECK_DEADLOCK FALSE
