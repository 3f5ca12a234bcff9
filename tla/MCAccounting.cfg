\* Three days across the end of a month, one entry at a time, any searches.
CONSTANTS
  MonthDays = 2
  YearDays = 4
  LastDay = 6
  Days = {4, 5}
  MaxEntries = 1
  Amounts <- MCAmounts

SPECIFICATION Spec

INVARIANT TypeOK
INVARIANT TotalsOfList
INVARIANT PeriodsMeet
PROPERTY TypedDatesExact
