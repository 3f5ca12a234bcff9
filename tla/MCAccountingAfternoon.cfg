\* In the afternoon "Today" misses the morning and shows tomorrow morning.
CONSTANTS
  MonthDays = 2
  YearDays = 4
  LastDay = 6
  Days = {4, 5}
  MaxEntries = 1
  Amounts <- MCAmounts

SPECIFICATION Spec

PROPERTY TodayExact
