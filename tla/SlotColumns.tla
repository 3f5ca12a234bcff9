---------------------------- MODULE SlotColumns ----------------------------
(***************************************************************************)
(* How the columns of the agenda place their segments: compileSlotSegs and *)
(* the segment utilities of AgendaEventRenderer in fullcalendar.js.        *)
(* Segments that share time stand side by side in levels; each takes the   *)
(* room its level and the segments in front of it leave. A coordinate is a *)
(* number of units, Unit of them to the width of a column.                 *)
(***************************************************************************)
EXTENDS SlotSegments

CONSTANTS Unit, ColumnWidth   \* ColumnWidth: pixels of a column

ASSUME ColumnAssumption == Unit \in Nat \ {0} /\ ColumnWidth \in Nat \ {0}

-----------------------------------------------------------------------------
(* Levels, and what stands in front of a segment.                           *)

(* Each segment goes to the first level where it collides with none. *)
BuildSlotSegLevels(segs) ==
  LET free(levels, seg) ==
        {j \in DOMAIN levels : \A t \in ToSet(levels[j]) : ~ IsSlotSegCollision(seg, t)}
      add(levels, seg) ==
        IF free(levels, seg) = {} THEN Append(levels, <<seg>>)
        ELSE [levels EXCEPT ![Min(free(levels, seg))] = Append(@, seg)]
  IN  FoldLeft(add, <<>>, segs)

(* computeForwardSlotSegs: what stands in front of each segment. *)
ForwardSegs(levels) ==
  LET level(s) == CHOOSE i \in DOMAIN levels : s \in ToSet(levels[i])
      segs     == UNION {ToSet(levels[i]) : i \in DOMAIN levels}
  IN  [s \in segs |-> {t \in segs : level(s) < level(t) /\ IsSlotSegCollision(s, t)}]

(* computeSlotSegPressures: the longest way to the edge. *)
ForwardPressure(forward) ==
  LET pressure[s \in DOMAIN forward] ==
        IF forward[s] = {} THEN 0 ELSE 1 + Max({pressure[t] : t \in forward[s]})
  IN  pressure

\* Slip: the shortest way to the edge comes first.
CompareForwardSlotSegsLow(s, t, pressure, coords) ==
  LET back(x) == IF x \in DOMAIN coords THEN coords[x].backward ELSE 0
  IN  \/ pressure[s] < pressure[t]
      \/ pressure[s] = pressure[t] /\ back(s) < back(t)
      \/ pressure[s] = pressure[t] /\ back(s) = back(t) /\ CompareSlotSegs(s, t)

(* compareForwardSlotSegs, when coords is what has been computed. *)
CompareForwardSlotSegs(s, t, pressure, coords) ==
  LET back(x) == IF x \in DOMAIN coords THEN coords[x].backward ELSE 0
  IN  \/ pressure[s] > pressure[t]
      \/ pressure[s] = pressure[t] /\ back(s) < back(t)
      \/ pressure[s] = pressure[t] /\ back(s) = back(t) /\ CompareSlotSegs(s, t)

(* computeSlotSegCoords. The first in front decides where this one ends.    *)
RECURSIVE ComputeSlotSegCoords(_, _, _, _, _, _)
ComputeSlotSegCoords(coords, s, seriesPressure, seriesCoord, forward, pressure) ==
  IF s \in DOMAIN coords THEN coords
  ELSE
    LET sorted == Sorted(forward[s],
                    LAMBDA x, y : CompareForwardSlotSegs(x, y, pressure, coords))
        leading == IF sorted = <<>> THEN coords
                   ELSE ComputeSlotSegCoords(coords, sorted[1], seriesPressure + 1,
                                             seriesCoord, forward, pressure)
        end == IF sorted = <<>> THEN Unit ELSE leading[sorted[1]].backward
        own == [forward |-> end,
                backward |-> end - (end - seriesCoord) \div (seriesPressure + 1)]
    IN  FoldLeft(LAMBDA c, x : ComputeSlotSegCoords(c, x, 0, end, forward, pressure),
                 [x \in {s} \cup DOMAIN leading |-> IF x = s THEN own ELSE leading[x]],
                 sorted)

(* placeSlotSegs: the segments of a column in the order they are drawn.     *)
PlaceSlotSegs(segs) ==
  LET levels   == BuildSlotSegLevels(segs)
      forward  == ForwardSegs(levels)
      pressure == ForwardPressure(forward)
      coords   == FoldLeft(LAMBDA c, s : ComputeSlotSegCoords(c, s, 0, 0, forward, pressure),
                           <<>>, IF levels = <<>> THEN <<>> ELSE levels[1])
      drawn    == FlattenSeq(levels)
  IN  [i \in DOMAIN drawn |-> [seg |-> drawn[i], coords |-> coords[drawn[i]]]]

(* compileSlotSegs, for the column of a day. *)
ColumnOf(events, day) ==
  PlaceSlotSegs(SliceSegs(events, day * TicksPerDay + MinTime, day * TicksPerDay + MaxTime))

TimedEvents(events) == [id \in {i \in DOMAIN events : ~ events[i].allDay} |-> events[id]]

-----------------------------------------------------------------------------
(* Boxes: computeDateTop and renderSlotSegs. A tick is a row, a row is      *)
(* RowHeight pixels; a segment is widened over the ones in front of it.     *)

ComputeTimeTop(time, rowHeight) ==
  IF time < MinTime THEN 0
  ELSE IF time >= MaxTime THEN (MaxTime - MinTime) * rowHeight
  ELSE (time - MinTime) * rowHeight

ComputeDateTop(at, startOfDayDate, rowHeight) ==
  ComputeTimeTop(at - (startOfDayDate \div TicksPerDay) * TicksPerDay, rowHeight)

HandleWidth == 20

Box(placed, rowHeight) ==
  LET columnWidth == ColumnWidth - ColumnWidth \div 40
      width == (columnWidth * (placed.coords.forward - placed.coords.backward)) \div Unit
      left  == (columnWidth * placed.coords.backward) \div Unit
  IN  [top |-> ComputeDateTop(placed.seg.start, placed.seg.start, rowHeight),
       bottom |-> ComputeDateTop(placed.seg.end, placed.seg.start, rowHeight),
       left |-> left,
       right |-> Min({columnWidth, left + Max({2 * width - HandleWidth, width})})]

=============================================================================
