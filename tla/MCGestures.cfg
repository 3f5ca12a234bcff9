\* Up to three gestures on the reservations page, with redraws and elements that go back.
CONSTANTS
  TicksPerDay = 8
  DefaultTimedEventDuration = 2
  DefaultAllDayEventDuration = 8
  MinTime = 2
  MaxTime = 6
  NextDayThreshold = 3
  Unit = 5040
  ColumnWidth = 120
  RowPx = 2
  ColPx = 2
  Columns <- MCColumns
  FirstDay = 1
  Date = 38
  Above = 1
  HiddenDays <- MCHiddenDays
  MonthStart <- MCMonthStart
  Id <- MCId
  Own <- MCOwn
  Height <- MCHeight
  Worlds <- MCWorlds

SPECIFICATION Spec

INVARIANT TypeOK
INVARIANT LeftEdgeFree
INVARIANT DrawnExactly
INVARIANT CleanAfter
PROPERTY DropExact
