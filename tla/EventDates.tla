----------------------------- MODULE EventDates -----------------------------
(***************************************************************************)
(* The dates of an event of the reservations page: FCMoment, and buildEvent *)
(* and mutateEvent of EventManager in fullcalendar.js, with the default    *)
(* option timezone: false. A moment is the wall clock in ticks, with or    *)
(* without a time of day, with or without a zone. An event may lack an     *)
(* end. The copies _start, _end and _allDay equal start, end and allDay:   *)
(* nothing on the page writes an event but mutateEvents.                   *)
(***************************************************************************)
EXTENDS Integers, Sequences

CONSTANTS
  TicksPerDay,
  DefaultTimedEventDuration,   \* ticks
  DefaultAllDayEventDuration   \* ticks, whole days

ASSUME DurationAssumption ==
  /\ TicksPerDay \in Nat \ {0}
  /\ DefaultTimedEventDuration \in Nat \ {0}
  /\ DefaultAllDayEventDuration \in {n * TicksPerDay : n \in 1..7}

-----------------------------------------------------------------------------
(* Moments. zone is <<offset>>, or <<>> when it is ambiguous.               *)

\* What may be missing: <<>>, or a sequence of one.
Maybe(S) == {<<>>} \cup [1..1 -> S]

Moment == [at : Int, timed : BOOLEAN, zone : Maybe(Int)]

DayOf(m) == m.at \div TicksPerDay

TimeOf(m) == m.at % TicksPerDay

(* What the operators < and - of the code see: milliseconds since 1970.     *)
Instant(m) == IF m.zone = <<>> THEN m.at ELSE m.at - m.zone[1]

StripTime(m) == [at |-> DayOf(m) * TicksPerDay, timed |-> FALSE, zone |-> <<>>]

StripZone(m) == [m EXCEPT !.zone = <<>>]

SetTime(m, time) ==
  [m EXCEPT !.at = DayOf(m) * TicksPerDay + time, !.timed = TRUE]

Add(m, duration) == [m EXCEPT !.at = @ + duration]

(* parseZone: a text without a time of day has no zone either. *)
MakeMoment(text) == IF text.timed THEN text ELSE StripTime(text)

(* A copy that takes the fields of the date as they are. *)
RezoneDate(m) == [at |-> m.at, timed |-> TRUE, zone |-> <<>>]

DayishDiff(d1, d0) ==
  (DayOf(StripTime(d1)) - DayOf(StripTime(d0))) * TicksPerDay + (TimeOf(d1) - TimeOf(d0))

-----------------------------------------------------------------------------
(* Events                                                                   *)

EventDate == [start : Moment, end : Maybe(Moment), allDay : BOOLEAN]

GetDefaultEventEnd(allDay, start) ==
  StripZone(IF allDay THEN Add(StripTime(start), DefaultAllDayEventDuration)
                      ELSE Add(start, DefaultTimedEventDuration))

GetEventEnd(event) ==
  IF event.end # <<>> THEN event.end[1] ELSE GetDefaultEventEnd(event.allDay, event.start)

\* Slip: a date without a time is left without one.
NormalizeAllDay(m, allDay) == IF allDay THEN StripTime(m) ELSE m

(* Neither date of an all-day event has a time, both of another one have.   *)
Normalize(m, allDay) ==
  IF allDay THEN StripTime(m)
  ELSE IF m.timed THEN m ELSE RezoneDate(m)

\* What they are then.
IsNormal(m, allDay) == IF allDay THEN m = StripTime(m) ELSE m.timed

NormalizeEnd(end, allDay) == [i \in DOMAIN end |-> Normalize(end[i], allDay)]

\* An event as buildEvent and mutateEvent leave it.
IsEvent(e) ==
  /\ e \in EventDate
  /\ IsNormal(e.start, e.allDay)
  /\ e.end # <<>> => IsNormal(e.end[1], e.allDay)

(* data.end and data.allDay may be missing: Google says nothing of allDay,  *)
(* a reservation says it is not.                                            *)
BuildEvent(data) ==
  LET start  == MakeMoment(data.start)
      end    == [i \in DOMAIN data.end |-> MakeMoment(data.end[i])]
      allDay == IF data.allDay # <<>> THEN data.allDay[1]
                ELSE ~ start.timed /\ \A i \in DOMAIN end : ~ end[i].timed
  IN  [start |-> Normalize(start, allDay), end |-> NormalizeEnd(end, allDay),
       allDay |-> allDay]

(* What mutateEvent finds has changed. newStart and newEnd are <<>> when    *)
(* they are not given; one of them is.                                      *)
Changes(event, newStart, newEnd) ==
  LET given     == IF newStart # <<>> THEN newStart[1] ELSE newEnd[1]
      newAllDay == ~ given.timed
      from(m)   == IF newAllDay THEN StripTime(m) ELSE m
      first     == IF newStart # <<>> THEN from(newStart[1]) ELSE event.start
  IN  [clearEnd |-> newAllDay # event.allDay,
       allDay |-> newAllDay,
       dateDelta |->
         IF newStart = <<>> THEN 0
         ELSE DayishDiff(first, from(event.start)),
       durationDelta |->
         IF newEnd = <<>> \/ newAllDay # event.allDay THEN 0
         ELSE DayishDiff(from(newEnd[1]), first)
              - DayishDiff(GetEventEnd(event), event.start)]

\* Slip: the end stays where it was.
MutateEventsStart(event, changes) ==
  [start |-> Add(Normalize(event.start, changes.allDay), changes.dateDelta),
   end |-> NormalizeEnd(event.end, changes.allDay),
   allDay |-> changes.allDay]

(* mutateEvents, for each event of the same id. *)
MutateEvents(event, changes) ==
  LET moved   == changes.dateDelta # 0 \/ changes.durationDelta # 0
      rezoned(m) == IF moved THEN StripZone(m) ELSE m
      start   == Normalize(event.start, changes.allDay)
      kept    == IF changes.clearEnd THEN <<>> ELSE NormalizeEnd(event.end, changes.allDay)
      end     == IF kept = <<>> /\ changes.durationDelta # 0
                 THEN <<GetDefaultEventEnd(changes.allDay, start)>>
                 ELSE kept
  IN  [start |-> rezoned(Add(start, changes.dateDelta)),
       end |-> [i \in DOMAIN end |->
                  rezoned(Add(end[i], changes.dateDelta + changes.durationDelta))],
       allDay |-> changes.allDay]

=============================================================================
