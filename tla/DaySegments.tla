----------------------------- MODULE DaySegments -----------------------------
(***************************************************************************)
(* How a grid of day cells lays out events: rangeToSegments of View and    *)
(* the segment utilities of DayEventRenderer in fullcalendar.js. The month *)
(* draws all events this way, the agenda its row of all-day events. Each   *)
(* row of the grid has its own segment of an event; in a row the segments  *)
(* are piled up.                                                           *)
(***************************************************************************)
EXTENDS EventDates, ViewDates, SequencesExt

CONSTANT NextDayThreshold   \* ticks from midnight

ASSUME ThresholdAssumption == NextDayThreshold \in 0..TicksPerDay

(* A grid is [start, rowCnt, colCnt]: its first day and its cells. *)
DateToDayOffset(m, grid) == DayOf(m) - grid.start

\* Slip: the last day is compared with the cell's own number.
RangeToSegmentsNoThreshold(start, end, grid) ==
  LET dayFirst  == DateToDayOffset(start, grid)
      dayEnd    == Max({DateToDayOffset(end, grid), dayFirst + 1})
      first     == DayOffsetToCellOffset(dayFirst, grid.start)
      last      == DayOffsetToCellOffset(dayEnd, grid.start) - 1
      from(row) == Max({first, row * grid.colCnt})
      to(row)   == Min({last, (row + 1) * grid.colCnt - 1})
  IN  {[row |-> row,
        leftCol |-> CellOffsetToCell(from(row), grid.colCnt).col,
        rightCol |-> CellOffsetToCell(to(row), grid.colCnt).col,
        isStart |-> CellOffsetToDayOffset(from(row), grid.start) = dayFirst,
        isEnd |-> CellOffsetToDayOffset(to(row), grid.start) + 1 = dayEnd]
        : row \in {r \in 0..grid.rowCnt - 1 : from(r) <= to(r)}}

(* An end at or after the threshold takes its day too.                      *)
RangeToSegments(start, end, grid) ==
  LET dayFirst  == DateToDayOffset(start, grid)
      takesDay  == TimeOf(end) # 0 /\ TimeOf(end) >= NextDayThreshold
      dayEnd    == Max({DateToDayOffset(end, grid) + (IF takesDay THEN 1 ELSE 0),
                        dayFirst + 1})
      first     == DayOffsetToCellOffset(dayFirst, grid.start)
      last      == DayOffsetToCellOffset(dayEnd, grid.start) - 1
      from(row) == Max({first, row * grid.colCnt})
      to(row)   == Min({last, (row + 1) * grid.colCnt - 1})
  IN  {[row |-> row,
        leftCol |-> CellOffsetToCell(from(row), grid.colCnt).col,
        rightCol |-> CellOffsetToCell(to(row), grid.colCnt).col,
        isStart |-> CellOffsetToDayOffset(from(row), grid.start) = dayFirst,
        isEnd |-> CellOffsetToDayOffset(to(row), grid.start) + 1 = dayEnd]
        : row \in {r \in 0..grid.rowCnt - 1 : from(r) <= to(r)}}

(* buildSegments *)
BuildSegments(events, grid) ==
  UNION {{[id |-> id, at |-> s] : s \in
            RangeToSegments(events[id].start, GetEventEnd(events[id]), grid)}
           : id \in DOMAIN events}

Span(s) == s.at.rightCol - s.at.leftCol

(* compareDaySegments. The dates are compared with their zones. *)
CompareDaySegments(s, t, events) ==
  LET key(x) == <<- Span(x), IF events[x.id].allDay THEN 0 ELSE 1,
                  Instant(events[x.id].start), x.id>>
      i == CHOOSE k \in 1..4 : /\ key(s)[k] # key(t)[k]
                               /\ \A j \in 1..k - 1 : key(s)[j] = key(t)[j]
  IN  key(s)[i] < key(t)[i]

IsDaySegmentCollision(s, others) ==
  \E t \in others : t.at.leftCol <= s.at.rightCol /\ t.at.rightCol >= s.at.leftCol

(* The segments of a row in the order of compareDaySegments: the place of a  *)
(* segment tells how many come before it.                                   *)
SortedRow(segments, events) ==
  LET earlier(s) == {t \in segments \ {s} : CompareDaySegments(t, s, events)}
  IN  [k \in 1..Cardinality(segments) |->
         CHOOSE s \in segments : Cardinality(earlier(s)) = k - 1]

(* A segment joins the first subrow where it collides with none.            *)
JoinSubrow(subrows, s) ==
  LET free == {j \in DOMAIN subrows : ~ IsDaySegmentCollision(s, ToSet(subrows[j]))}
  IN  IF free = {} THEN Append(subrows, <<s>>)
      ELSE [subrows EXCEPT ![Min(free)] = Append(@, s)]

BuildSegmentSubrows(segments, events) ==
  LET sorted == SortedRow(segments, events)
      subrows[k \in 0..Cardinality(segments)] ==
        IF k = 0 THEN <<>> ELSE JoinSubrow(subrows[k - 1], sorted[k])
  IN  subrows[Cardinality(segments)]

(* The segments of a row in the order they are piled up.                    *)
SortSegmentRow(segments, events) == FlattenSeq(BuildSegmentSubrows(segments, events))

(* calculateVerticals, for a row: heights is what the columns have taken.   *)
Under(heights, s) == Max({heights[c] : c \in s.at.leftCol..s.at.rightCol})

Pile(heights, s, colCnt, height) ==
  [c \in 0..colCnt - 1 |->
     IF c \in s.at.leftCol..s.at.rightCol THEN Under(heights, s) + height[s.id]
     ELSE heights[c]]

(* The top of each segment and the height of the row. height[id] is the     *)
(* outer height of an event's element.                                      *)
CalculateRow(row, colCnt, height) ==
  LET piled[k \in 0..Len(row)] ==
        IF k = 0 THEN [c \in 0..colCnt - 1 |-> 0]
        ELSE Pile(piled[k - 1], row[k], colCnt, height)
  IN  [tops |-> [i \in DOMAIN row |-> Under(piled[i - 1], row[i])],
       contentHeight |-> Max({piled[Len(row)][c] : c \in 0..colCnt - 1})]

(* setVerticals: where each segment of the grid is drawn, when the rows are *)
(* given the height of their contents.                                      *)
DrawDaySegments(events, grid, height) ==
  LET segments == BuildSegments(events, grid)
      row(r)   == SortSegmentRow({s \in segments : s.at.row = r}, events)
      drawn(r) == LET segs == row(r)
                      down == CalculateRow(segs, grid.colCnt, height)
                  IN  {[seg |-> segs[i], top |-> down.tops[i],
                        bottom |-> down.tops[i] + height[segs[i].id],
                        room |-> down.contentHeight] : i \in DOMAIN segs}
  IN  UNION {drawn(r) : r \in 0..grid.rowCnt - 1}

=============================================================================
