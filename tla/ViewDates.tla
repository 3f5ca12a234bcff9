----------------------------- MODULE ViewDates -----------------------------
(***************************************************************************)
(* The days a view of the reservations page covers and the cells they are  *)
(* drawn in: MonthView, AgendaWeekView, AgendaDayView and the day cells of *)
(* View in fullcalendar.js, with the options of fablabcalendar.js. A day   *)
(* is a number, day 0 a Sunday; a range of days excludes its end.          *)
(***************************************************************************)
EXTENDS Integers, Sequences, FiniteSets, FiniteSetsExt

CONSTANTS
  FirstDay,    \* the day of the week a week starts with, 0 = Sunday
  HiddenDays,  \* the days of the week no view draws
  MonthStart   \* MonthStart[i] is the first day of the i-th month

ASSUME WeekAssumption ==
  /\ FirstDay \in 0..6
  /\ HiddenDays \in SUBSET (0..6) /\ HiddenDays # 0..6

ASSUME MonthAssumption ==
  /\ MonthStart \in Seq(Int)
  /\ \A i \in 1..Len(MonthStart) - 1 : MonthStart[i + 1] - MonthStart[i] \in 28..31

ViewName == {"month", "agendaWeek", "agendaDay"}

DayOfWeek(d) == d % 7

(* moment's weekday(), with the language's week moved to firstDay. *)
Weekday(d) == (d - FirstDay) % 7

StartOfWeek(d) == d - Weekday(d)

(* The days whose month, and the months before and after it, are known. *)
KnownDay(d) ==
  \E i \in 2..Len(MonthStart) - 2 : MonthStart[i] <= d /\ d < MonthStart[i + 1]

MonthOf(d) ==
  CHOOSE i \in 1..Len(MonthStart) - 1 : MonthStart[i] <= d /\ d < MonthStart[i + 1]

IsHiddenDay(d) == DayOfWeek(d) \in HiddenDays

SkipHiddenDays(d, inc, isExclusive) ==
  LET steps == {k \in 0..6 : ~ IsHiddenDay(d + k * inc + (IF isExclusive THEN inc ELSE 0))}
  IN  d + inc * Min(steps)

-----------------------------------------------------------------------------
(* The views. intervalStart and intervalEnd bound what the view is about,   *)
(* start and end what it draws.                                             *)

Window(name, intervalStart, intervalEnd, start, end) ==
  [name |-> name, intervalStart |-> intervalStart, intervalEnd |-> intervalEnd,
   start |-> start, end |-> end]

(* weekMode is "fixed": six rows, however many the month needs. *)
MonthWindow(d) ==
  LET first == MonthStart[MonthOf(d)]
      last  == MonthStart[MonthOf(d) + 1]
      start == SkipHiddenDays(StartOfWeek(SkipHiddenDays(first, 1, FALSE)), 1, FALSE)
      edge  == SkipHiddenDays(last, -1, TRUE)
      end   == SkipHiddenDays(edge + ((7 - Weekday(edge)) % 7), -1, TRUE)
      rowCnt == (end - start + 6) \div 7
  IN  Window("month", first, last, start, end + 7 * (6 - rowCnt))

\* Slip: the interval of the day ends a day late.
DayWindowTwo(d) == Window("agendaDay", d, d + 2, d, d + 2)

WeekWindow(d) ==
  LET first == StartOfWeek(d)
  IN  Window("agendaWeek", first, first + 7,
             SkipHiddenDays(first, 1, FALSE), SkipHiddenDays(first + 7, -1, TRUE))

DayWindow(d) == Window("agendaDay", d, d + 1, d, d + 1)

WindowOf(name, d) ==
  CASE name = "month"      -> MonthWindow(d)
    [] name = "agendaWeek" -> WeekWindow(d)
    [] name = "agendaDay"  -> DayWindow(d)

(* add('months', delta) keeps or clamps the day of the month, startOf drops it. *)
IncrementMonth(d, delta) == MonthStart[MonthOf(d) + delta]

IncrementWeek(d, delta) == StartOfWeek(d + 7 * delta)

IncrementDay(d, delta) ==
  SkipHiddenDays(d + delta, IF delta < 0 THEN -1 ELSE 1, FALSE)

IncrementDate(name, d, delta) ==
  CASE name = "month"      -> IncrementMonth(d, delta)
    [] name = "agendaWeek" -> IncrementWeek(d, delta)
    [] name = "agendaDay"  -> IncrementDay(d, delta)

IsWithin(d, start, end) == start <= d /\ d < end

-----------------------------------------------------------------------------
(* Day cells: a cell is a row and a column of a grid of colCnt columns whose *)
(* first cell is the day `start`.                                            *)

GetCellsPerWeek == 7 - Cardinality(HiddenDays)

DayToCellMap == [d \in 0..6 |-> Cardinality((0..d - 1) \ HiddenDays)]

CellToDayMap ==
  [c \in 0..GetCellsPerWeek - 1 |-> CHOOSE d \in (0..6) \ HiddenDays : DayToCellMap[d] = c]

CellToCellOffset(cell, colCnt) == cell.row * colCnt + cell.col

CellOffsetToCell(offset, colCnt) == [row |-> offset \div colCnt, col |-> offset % colCnt]

CellOffsetToDayOffset(offset, start) ==
  LET day0 == DayOfWeek(start)
      n    == offset + DayToCellMap[day0]
  IN  (n \div GetCellsPerWeek) * 7 + CellToDayMap[n % GetCellsPerWeek] - day0

DayOffsetToCellOffset(offset, start) ==
  LET day0 == DayOfWeek(start)
      n    == offset + day0
  IN  (n \div 7) * GetCellsPerWeek + DayToCellMap[n % 7] - DayToCellMap[day0]

CellToDate(cell, colCnt, start) ==
  start + CellOffsetToDayOffset(CellToCellOffset(cell, colCnt), start)

DateToCell(d, colCnt, start) ==
  CellOffsetToCell(DayOffsetToCellOffset(d - start, start), colCnt)

=============================================================================
