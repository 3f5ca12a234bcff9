\* The reservations page with three fetches: views, selections, answers in any
\* order, errors, lost answers and gestures.
CONSTANTS
  m1 = m1
  m2 = m2
  r1 = r1
  r2 = r2
  r3 = r3
  g1 = g1
  Machine <- MCMachine
  Reservation <- MCReservation
  GoogleEvent <- MCGoogleEvent
  MonthStart <- MCMonthStart
  MachineOf <- MCMachineOf
  From <- MCFrom
  To <- MCTo
  Own <- MCOwn
  HiddenDays <- MCHiddenDays
  Dates <- MCDates
  TitleFormat <- MCTitleFormat
  January = 4
  FirstDay = 1
  TicksPerDay = 2
  Today = 91
  MaxFetches = 3

SPECIFICATION FairSpec

INVARIANT TypeOK
INVARIANT CountersExact
INVARIANT ViewExact
INVARIANT ShownExact
PROPERTY LatestSpec
PROPERTY LostHoldsAll
PROPERTY Adjacent
PROPERTY Settles
