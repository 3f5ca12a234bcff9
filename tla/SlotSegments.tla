---------------------------- MODULE SlotSegments ----------------------------
(***************************************************************************)
(* How the columns of the agenda cut the timed events into segments: a     *)
(* column shows a day from minTime to maxTime. sliceSegs of                *)
(* AgendaEventRenderer in fullcalendar.js, with the order of the segments. *)
(***************************************************************************)
EXTENDS EventDates, ViewDates, SequencesExt

CONSTANTS MinTime, MaxTime   \* what a column shows, ticks from midnight

ASSUME SlotAssumption == MaxTime \in 0..TicksPerDay /\ MinTime \in 0..MaxTime

-----------------------------------------------------------------------------
(* Segments. An event's number stands for its title too.                    *)

(* compareSlotSegs *)
CompareSlotSegs(s, t) ==
  \/ s.start < t.start
  \/ s.start = t.start /\ s.end > t.end
  \/ s.start = t.start /\ s.end = t.end /\ s.id < t.id

(* The segments of a column. Without their zones the dates are compared as   *)
(* the wall shows them.                                                     *)
SlotSegs(events, rangeStart, rangeEnd) ==
  LET start(id) == events[id].start.at
      end(id)   == GetEventEnd(events[id]).at
      seen(id)  == end(id) > rangeStart /\ start(id) < rangeEnd
      seg(id)   == [id |-> id, start |-> Max({start(id), rangeStart}),
                    end |-> Min({end(id), rangeEnd}),
                    isStart |-> start(id) >= rangeStart, isEnd |-> end(id) <= rangeEnd]
  IN  {seg(id) : id \in {i \in DOMAIN events : seen(i)}}

(* sort, of what stands in an order: the place of each tells how many come   *)
(* before it.                                                               *)
Sorted(segs, Before(_, _)) ==
  LET earlier(s) == {t \in segs \ {s} : Before(t, s)}
  IN  [k \in 1..Cardinality(segs) |-> CHOOSE s \in segs : Cardinality(earlier(s)) = k - 1]

SliceSegs(events, rangeStart, rangeEnd) ==
  Sorted(SlotSegs(events, rangeStart, rangeEnd), CompareSlotSegs)

IsSlotSegCollision(s, t) == s.end > t.start /\ s.start < t.end

=============================================================================
