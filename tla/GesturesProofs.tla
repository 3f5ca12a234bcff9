--------------------------- MODULE GesturesProofs ---------------------------
(***************************************************************************)
(* Proofs about Gestures, for any week, hidden days, hours of the agenda,  *)
(* durations, next day threshold, events and number of gestures: shapes,   *)
(* that nothing of a gesture stays on the screen, that a drop does what    *)
(* the marks told, and that each event is drawn exactly where it lasts.    *)
(*                                                                         *)
(* The inductive invariant has three parts. TypeInv says of each gesture   *)
(* which event it holds and what the HoverListener knows of it, MarkInv    *)
(* which days are marked and which elements are hidden while it lasts,     *)
(* EndInv how far the edge of an event may be pulled. The part about where *)
(* events are drawn rests on what the cells of a grid are to its days:     *)
(* CellOffsetToDayOffset and DayOffsetToCellOffset keep the order and are  *)
(* inverse on the days that are not hidden (Cells and days). That no       *)
(* segment of a row covers another is a fact about DaySegments alone       *)
(* (Stacking the rows of day cells).                                       *)
(***************************************************************************)
EXTENDS Gestures, SetFacts

USE DEF ViewName

-----------------------------------------------------------------------------
(* Ticks and moments                                                        *)

\* Division by the ticks of a day.
LEMMA Ticks ==
  ASSUME NEW n \in Int
  PROVE  /\ n \div TicksPerDay \in Int /\ n % TicksPerDay \in 0..TicksPerDay - 1
         /\ n = (n \div TicksPerDay) * TicksPerDay + (n % TicksPerDay)
BY DurationAssumption

\* A day and a time below it make one number, and come out of it again.
LEMMA TicksOf ==
  ASSUME NEW q \in Int, NEW r \in Int, 0 <= r, r < TicksPerDay
  PROVE  /\ q * TicksPerDay + r \in Int
         /\ (q * TicksPerDay + r) \div TicksPerDay = q
         /\ (q * TicksPerDay + r) % TicksPerDay = r
BY DurationAssumption

\* Of two numbers of ticks the days part tells the order.
LEMMA WholeDays ==
  ASSUME NEW q \in Int
  PROVE  q * TicksPerDay \in Int /\ (q * TicksPerDay) \div TicksPerDay = q /\ (q * TicksPerDay) % TicksPerDay = 0
<1>1. TicksPerDay \in Nat /\ 0 < TicksPerDay
  BY DurationAssumption
<1>2. q * TicksPerDay \in Int
  BY <1>1
<1>3. q * TicksPerDay + 0 = q * TicksPerDay
  BY <1>2
<1>4. QED
  BY <1>1, <1>2, <1>3, TicksOf

\* Missing or there.
LEMMA MaybeIs ==
  ASSUME NEW S, NEW m
  PROVE  /\ m \in Maybe(S) <=> m = <<>> \/ \E x \in S : m = <<x>>
         /\ \A x \in S : <<x>> \in Maybe(S)
         /\ m \in Maybe(S) /\ m # <<>> => m[1] \in S /\ m = <<m[1]>> /\ DOMAIN m = {1}
<1>1. 1..1 = {1}
  OBVIOUS
<1>2. QED
  BY <1>1 DEF Maybe

\* A moment is its three parts.
LEMMA MomentIs ==
  ASSUME NEW m \in Moment
  PROVE  /\ m.at \in Int /\ m.timed \in BOOLEAN /\ m.zone \in Maybe(Int)
         /\ m = [at |-> m.at, timed |-> m.timed, zone |-> m.zone]
BY DEF Moment

\* A moment may have no zone.
LEMMA Unzoned == <<>> \in Maybe(Int)
BY DEF Maybe

\* A day without a time.
LEMMA StripTimeIs ==
  ASSUME NEW m \in Moment
  PROVE  /\ StripTime(m) \in Moment /\ ~ StripTime(m).timed
         /\ StripTime(m).at = (m.at \div TicksPerDay) * TicksPerDay
         /\ IsNormal(StripTime(m), TRUE)
<1>1. m.at \div TicksPerDay \in Int
  BY MomentIs, Ticks
<1> DEFINE q == m.at \div TicksPerDay
<1>2. StripTime(m) = [at |-> q * TicksPerDay, timed |-> FALSE, zone |-> <<>>]
  BY DEF StripTime, DayOf
<1> HIDE DEF q
<1>3. q * TicksPerDay \in Int /\ (q * TicksPerDay) \div TicksPerDay = q
  BY <1>1, WholeDays DEF q
<1>4. StripTime(m) \in Moment /\ ~ StripTime(m).timed /\ StripTime(m).at = q * TicksPerDay
  BY <1>2, <1>3, Unzoned DEF Moment
<1>5. StripTime(StripTime(m)) = StripTime(m)
  BY <1>2, <1>3, <1>4 DEF StripTime, DayOf
<1>6. QED
  BY <1>4, <1>5 DEF IsNormal, q

\* What a normal day is.
LEMMA NormalDay ==
  ASSUME NEW m \in Moment, IsNormal(m, TRUE)
  PROVE  /\ ~ m.timed /\ m.zone = <<>>
         /\ m.at = (m.at \div TicksPerDay) * TicksPerDay /\ m.at % TicksPerDay = 0
<1>1. m = StripTime(m)
  BY DEF IsNormal
<1>2. /\ ~ m.timed /\ m.zone = <<>>
      /\ m.at = (m.at \div TicksPerDay) * TicksPerDay
  BY <1>1 DEF StripTime, DayOf
<1> DEFINE q == m.at \div TicksPerDay
<1>3. q \in Int
  BY MomentIs, Ticks
<1> HIDE DEF q
<1>4. (q * TicksPerDay) % TicksPerDay = 0
  BY <1>3, WholeDays
<1>5. QED
  BY <1>2, <1>4 DEF q

\* A moment without time and zone at midnight is the date of an all-day event.
LEMMA DayIsNormal ==
  ASSUME NEW m \in Moment, ~ m.timed, m.zone = <<>>, NEW q \in Int, m.at = q * TicksPerDay
  PROVE  IsNormal(m, TRUE)
<1>1. m.at \div TicksPerDay = q
  BY WholeDays
<1>2. StripTime(m) = [at |-> m.at, timed |-> FALSE, zone |-> <<>>]
  BY <1>1 DEF StripTime, DayOf
<1>3. m = [at |-> m.at, timed |-> m.timed, zone |-> m.zone]
  BY MomentIs
<1>4. m = StripTime(m)
  BY <1>2, <1>3
<1>5. QED
  BY <1>4 DEF IsNormal

\* Some ticks on, a moment keeps its kind.
LEMMA AddIs ==
  ASSUME NEW m \in Moment, NEW n \in Int
  PROVE  /\ Add(m, n) \in Moment /\ Add(m, n).at = m.at + n
         /\ Add(m, n).timed = m.timed /\ Add(m, n).zone = m.zone
BY DEF Add, Moment

\* Without its zone a moment is where it was.
LEMMA StripZoneIs ==
  ASSUME NEW m \in Moment
  PROVE  /\ StripZone(m) \in Moment /\ StripZone(m).at = m.at
         /\ StripZone(m).timed = m.timed /\ StripZone(m).zone = <<>>
BY Unzoned DEF StripZone, Moment

\* Whole days on, a date stays what it is.
LEMMA AddDaysIs ==
  ASSUME NEW m \in Moment, NEW n \in Int
  PROVE  /\ AddDays(m, n) \in Moment /\ AddDays(m, n).at = m.at + n * TicksPerDay
         /\ AddDays(m, n).timed = m.timed
         /\ \A a \in BOOLEAN : IsNormal(m, a) => IsNormal(AddDays(m, n), a)
<1>1. n * TicksPerDay \in Int
  BY WholeDays
<1>2. /\ AddDays(m, n) \in Moment /\ AddDays(m, n).at = m.at + n * TicksPerDay
      /\ AddDays(m, n).timed = m.timed /\ AddDays(m, n).zone = m.zone
  BY <1>1, AddIs DEF AddDays
<1>3. ASSUME IsNormal(m, TRUE) PROVE IsNormal(AddDays(m, n), TRUE)
  <2> DEFINE q == m.at \div TicksPerDay
  <2>1. q \in Int /\ m.at = q * TicksPerDay /\ ~ m.timed /\ m.zone = <<>>
    BY <1>3, NormalDay, MomentIs, Ticks
  <2> HIDE DEF q
  <2>2. m.at + n * TicksPerDay = (q + n) * TicksPerDay /\ q + n \in Int
    BY <2>1, DurationAssumption
  <2> DEFINE d == AddDays(m, n)
  <2>3. d \in Moment /\ ~ d.timed /\ d.zone = <<>> /\ d.at = (q + n) * TicksPerDay
    BY <1>2, <2>1, <2>2
  <2> HIDE DEF d
  <2>4. IsNormal(d, TRUE)
    BY <2>2, <2>3, DayIsNormal
  <2>5. QED
    BY <2>4 DEF d
<1>4. IsNormal(m, FALSE) => IsNormal(AddDays(m, n), FALSE)
  BY <1>2 DEF IsNormal
<1>5. QED
  BY <1>2, <1>3, <1>4

-----------------------------------------------------------------------------
(* Events                                                                   *)

\* An event is its three parts, its dates normal for its kind.
LEMMA EventIs ==
  ASSUME NEW e, IsEvent(e)
  PROVE  /\ e.start \in Moment /\ e.allDay \in BOOLEAN /\ e.end \in Maybe(Moment)
         /\ e = [start |-> e.start, end |-> e.end, allDay |-> e.allDay]
         /\ IsNormal(e.start, e.allDay)
         /\ e.end # <<>> => e.end[1] \in Moment /\ IsNormal(e.end[1], e.allDay)
<1>1. e \in EventDate /\ IsNormal(e.start, e.allDay) /\ (e.end # <<>> => IsNormal(e.end[1], e.allDay))
  BY DEF IsEvent
<1>2. /\ e.start \in Moment /\ e.allDay \in BOOLEAN /\ e.end \in Maybe(Moment)
      /\ e = [start |-> e.start, end |-> e.end, allDay |-> e.allDay]
  BY <1>1 DEF EventDate
<1>3. e.end # <<>> => e.end[1] \in Moment
  BY <1>2, MaybeIs
<1>4. QED
  BY <1>1, <1>2, <1>3

\* The duration of an all-day event is whole days.
LEMMA DefaultDays ==
  \E n \in Int : n > 0 /\ DefaultAllDayEventDuration = n * TicksPerDay
BY DurationAssumption

\* The end an event has by default: it fits the event, and is later than its start.
LEMMA DefaultEndIs ==
  ASSUME NEW m \in Moment, NEW a \in BOOLEAN, IsNormal(m, a)
  PROVE  /\ GetDefaultEventEnd(a, m) \in Moment
         /\ IsNormal(GetDefaultEventEnd(a, m), a)
         /\ GetDefaultEventEnd(a, m).at =
              m.at + (IF a THEN DefaultAllDayEventDuration ELSE DefaultTimedEventDuration)
         /\ GetDefaultEventEnd(a, m).at > m.at
         /\ GetDefaultEventEnd(a, m).timed = m.timed
<1>1. CASE a
  <2>1. PICK n \in Int : n > 0 /\ DefaultAllDayEventDuration = n * TicksPerDay
    BY DefaultDays
  <2>2. StripTime(m) = m /\ ~ m.timed
    BY <1>1, NormalDay DEF IsNormal
  <2>3. Add(m, DefaultAllDayEventDuration) = AddDays(m, n)
    BY <2>1 DEF AddDays
  <2> DEFINE d == AddDays(m, n)
  <2>4. /\ d \in Moment /\ d.at = m.at + n * TicksPerDay /\ ~ d.timed /\ IsNormal(d, TRUE)
    BY <1>1, <2>2, AddDaysIs
  <2>5. d.zone = <<>>
    BY <2>4, NormalDay
  <2> HIDE DEF d
  <2>6. StripZone(d) = d
    <3>1. d = [at |-> d.at, timed |-> d.timed, zone |-> d.zone]
      BY <2>4, MomentIs
    <3>2. StripZone(d) = [at |-> d.at, timed |-> d.timed, zone |-> <<>>]
      BY <3>1 DEF StripZone
    <3>3. QED
      BY <2>5, <3>1, <3>2
  <2>7. GetDefaultEventEnd(a, m) = d
    BY <1>1, <2>2, <2>3, <2>6 DEF GetDefaultEventEnd, d
  <2>8. n * TicksPerDay \in Int /\ n * TicksPerDay > 0
    BY <2>1, DurationAssumption
  <2>9. m.at \in Int /\ d.timed = m.timed
    BY <2>2, <2>4, MomentIs
  <2>10. IsNormal(d, a)
    BY <1>1, <2>4, Zenon DEF IsNormal
  <2>11. d.at = m.at + DefaultAllDayEventDuration /\ d.at > m.at
    BY <2>1, <2>4, <2>8, <2>9
  <2>12. QED
    BY <1>1, <2>4, <2>7, <2>9, <2>10, <2>11
<1>2. CASE ~ a
  <2> DEFINE d == Add(m, DefaultTimedEventDuration)
  <2>1. GetDefaultEventEnd(a, m) = StripZone(d)
    BY <1>2 DEF GetDefaultEventEnd
  <2>2. DefaultTimedEventDuration \in Int /\ DefaultTimedEventDuration > 0
    BY DurationAssumption
  <2>3. d \in Moment /\ d.at = m.at + DefaultTimedEventDuration /\ d.timed = m.timed
    BY <2>2, AddIs
  <2> HIDE DEF d
  <2>4. StripZone(d) \in Moment /\ StripZone(d).at = d.at /\ StripZone(d).timed = d.timed
    BY <2>3, StripZoneIs
  <2>5. m.timed /\ m.at \in Int
    BY <1>2, MomentIs DEF IsNormal
  <2>6. QED
    BY <1>2, <2>1, <2>2, <2>3, <2>4, <2>5 DEF IsNormal
<1>3. QED
  BY <1>1, <1>2

\* The end of an event fits it.
LEMMA EventEndIs ==
  ASSUME NEW e, IsEvent(e)
  PROVE  GetEventEnd(e) \in Moment /\ IsNormal(GetEventEnd(e), e.allDay)
BY EventIs, DefaultEndIs DEF GetEventEnd

\* normalizeEventRange gives a date of the event's kind, and leaves one that is.
LEMMA NormalizeIs ==
  ASSUME NEW m \in Moment, NEW a \in BOOLEAN
  PROVE  /\ Normalize(m, a) \in Moment /\ IsNormal(Normalize(m, a), a)
         /\ Normalize(m, a).timed = ~ a
         /\ IsNormal(m, a) => Normalize(m, a) = m
         /\ Normalize(m, a).at = IF a THEN (m.at \div TicksPerDay) * TicksPerDay ELSE m.at
<1>1. CASE a = TRUE
  <2>1. Normalize(m, a) = StripTime(m)
    BY <1>1 DEF Normalize
  <2>2. IsNormal(m, a) => StripTime(m) = m
    BY <1>1 DEF IsNormal
  <2>3. StripTime(m).timed = ~ a
    BY <1>1, StripTimeIs, MomentIs
  <2>4. QED
    BY <1>1, <2>1, <2>2, <2>3, StripTimeIs
<1>2. CASE a = FALSE /\ m.timed
  BY <1>2, MomentIs DEF Normalize, IsNormal
<1>3. CASE a = FALSE /\ ~ m.timed
  <2>1. Normalize(m, a) = [at |-> m.at, timed |-> TRUE, zone |-> <<>>]
    BY <1>3 DEF Normalize, RezoneDate
  <2>2. Normalize(m, a) \in Moment
    BY <2>1, Unzoned DEF Moment
  <2>3. Normalize(m, a).timed = TRUE /\ Normalize(m, a).at = m.at
    BY <2>1
  <2>4. ~ IsNormal(m, a) /\ IsNormal(Normalize(m, a), a)
    BY <1>3, <2>3, Zenon DEF IsNormal
  <2>5. QED
    BY <1>3, <2>2, <2>3, <2>4
<1>4. QED
  BY <1>1, <1>2, <1>3, MomentIs

\* A difference of days and times is one of ticks.
LEMMA DayishDiffIs ==
  ASSUME NEW d \in Moment, NEW c \in Moment
  PROVE  DayishDiff(d, c) = d.at - c.at
<1>1. DayOf(StripTime(d)) = d.at \div TicksPerDay /\ DayOf(StripTime(c)) = c.at \div TicksPerDay
  <2>1. ASSUME NEW m \in Moment PROVE DayOf(StripTime(m)) = m.at \div TicksPerDay
    <3>1. StripTime(m).at = (m.at \div TicksPerDay) * TicksPerDay
      BY StripTimeIs
    <3>2. m.at \div TicksPerDay \in Int
      BY MomentIs, Ticks
    <3>3. QED
      BY <3>1, <3>2, WholeDays DEF DayOf
  <2>2. QED
    BY <2>1
<1> DEFINE p == d.at
           q == c.at
<1>2. DayishDiff(d, c) =
        (((p \div TicksPerDay) - (q \div TicksPerDay)) * TicksPerDay)
          + ((p % TicksPerDay) - (q % TicksPerDay))
  BY <1>1 DEF DayishDiff, TimeOf
<1>3. p \in Int /\ q \in Int
  BY MomentIs
<1>4. p = (p \div TicksPerDay) * TicksPerDay + (p % TicksPerDay)
      /\ q = (q \div TicksPerDay) * TicksPerDay + (q % TicksPerDay)
      /\ p \div TicksPerDay \in Int /\ q \div TicksPerDay \in Int
      /\ p % TicksPerDay \in Int /\ q % TicksPerDay \in Int
  BY <1>3, Ticks
<1>5. DayishDiff(d, c) = p - q
  <2> DEFINE dp == p \div TicksPerDay
             dq == q \div TicksPerDay
             tp == p % TicksPerDay
             tq == q % TicksPerDay
  <2> HIDE DEF p, q, dp, dq, tp, tq
  <2>1. /\ p = dp * TicksPerDay + tp /\ q = dq * TicksPerDay + tq
        /\ dp \in Int /\ dq \in Int /\ tp \in Int /\ tq \in Int /\ TicksPerDay \in Int
    BY <1>4, DurationAssumption DEF dp, dq, tp, tq
  <2>2. ((dp - dq) * TicksPerDay) + (tp - tq) = p - q
    BY <2>1
  <2>3. QED
    BY <1>2, <2>2 DEF dp, dq, tp, tq
<1>6. QED
  BY <1>5

\* What a drop makes of the event b, when it was reckoned from the dates e. From its own
\* dates, b begins where it was dropped, and lasts as long as before, unless it crosses
\* between whole days and times; then it has no end.
LEMMA DropIs ==
  ASSUME NEW e, IsEvent(e), NEW b, IsEvent(b),
         NEW m \in Moment, NEW a \in BOOLEAN, m.timed = ~ a, IsNormal(m, a),
         NEW f, f = MutateEvents(b, Changes(e, <<m>>, <<>>))
  PROVE  /\ IsEvent(f) /\ f.allDay = a
         /\ a # e.allDay => f.end = <<>>
         /\ b = e => /\ f.start.at = m.at
                     /\ a = e.allDay =>
                          GetEventEnd(f).at - f.start.at = GetEventEnd(e).at - e.start.at
<1> DEFINE ch == Changes(e, <<m>>, <<>>)
           delta == m.at - Normalize(e.start, a).at
<1>1. /\ e.start \in Moment /\ e.allDay \in BOOLEAN /\ e.end \in Maybe(Moment)
      /\ IsNormal(e.start, e.allDay)
      /\ b.start \in Moment /\ b.allDay \in BOOLEAN /\ b.end \in Maybe(Moment)
      /\ b.end # <<>> => b.end[1] \in Moment /\ IsNormal(b.end[1], b.allDay)
  BY EventIs
<1>2. /\ ch.clearEnd = (a # e.allDay) /\ ch.allDay = a
      /\ ch.dateDelta = delta /\ ch.durationDelta = 0
  <2>1. <<m>> # <<>> /\ <<m>>[1] = m
    OBVIOUS
  <2> DEFINE from(n) == IF a THEN StripTime(n) ELSE n
  <2>2. from(m) = m /\ from(e.start) \in Moment /\ from(e.start).at = Normalize(e.start, a).at
    <3>1. CASE a = TRUE
      BY <1>1, <3>1, StripTimeIs DEF IsNormal, Normalize
    <3>2. CASE a = FALSE
      BY <1>1, <3>2, NormalizeIs
    <3>3. QED
      BY <3>1, <3>2
  <2>3. DayishDiff(from(m), from(e.start)) = delta
    BY <2>2, DayishDiffIs
  <2>4. /\ ch.clearEnd = ((~ m.timed) # e.allDay) /\ ch.allDay = ~ m.timed
        /\ ch.dateDelta = DayishDiff(IF ~ m.timed THEN StripTime(m) ELSE m,
                                     IF ~ m.timed THEN StripTime(e.start) ELSE e.start)
        /\ ch.durationDelta = 0
    BY <2>1 DEF Changes
  <2>5. (~ m.timed) = a
    OBVIOUS
  <2>6. QED
    BY <2>3, <2>4, <2>5
<1> HIDE DEF ch
<1> DEFINE start == Normalize(b.start, a)
           rezoned(n) == IF delta # 0 THEN StripZone(n) ELSE n
           kept == IF a # e.allDay THEN <<>> ELSE NormalizeEnd(b.end, a)
<1>3. f = [start |-> rezoned(Add(start, delta)),
           end |-> [i \in DOMAIN kept |-> rezoned(Add(kept[i], delta))],
           allDay |-> a]
  <2>1. f = MutateEvents(b, ch)
    BY DEF ch
  <2> DEFINE start2 == Normalize(b.start, ch.allDay)
             kept2 == IF ch.clearEnd THEN <<>> ELSE NormalizeEnd(b.end, ch.allDay)
             end2 == IF kept2 = <<>> /\ ch.durationDelta # 0
                     THEN <<GetDefaultEventEnd(ch.allDay, start2)>> ELSE kept2
             rez2(n) == IF ch.dateDelta # 0 \/ ch.durationDelta # 0 THEN StripZone(n) ELSE n
  <2>2. f = [start |-> rez2(Add(start2, ch.dateDelta)),
             end |-> [i \in DOMAIN end2 |->
                        rez2(Add(end2[i], ch.dateDelta + ch.durationDelta))],
             allDay |-> ch.allDay]
    BY <2>1 DEF MutateEvents
  <2>3. delta \in Int
    <3>1. Normalize(e.start, a) \in Moment
      BY <1>1, NormalizeIs
    <3>2. Normalize(e.start, a).at \in Int /\ m.at \in Int
      BY <3>1, MomentIs
    <3>3. QED
      BY <3>2
  <2> HIDE DEF delta
  <2>4. ch.dateDelta + ch.durationDelta = delta
    BY <1>2, <2>3
  <2>5. start2 = start /\ kept2 = kept /\ end2 = kept
    BY <1>2
  <2>6. \A n : rez2(n) = rezoned(n)
    BY <1>2
  <2> HIDE DEF start2, kept2, end2, rez2, start, kept, rezoned
  <2>7. QED
    BY <1>2, <2>2, <2>4, <2>5, <2>6
<1> DEFINE from == Normalize(e.start, a)
<1>4. /\ start \in Moment /\ IsNormal(start, a) /\ start.timed = ~ a
      /\ from \in Moment /\ IsNormal(from, a) /\ from.timed = ~ a
      /\ a = e.allDay => from = e.start
      /\ b = e => start = from
  BY <1>1, NormalizeIs
<1>5. delta \in Int /\ (a => \E n \in Int : delta = n * TicksPerDay)
  <2>1. delta \in Int
    BY <1>4, MomentIs
  <2>2. ASSUME a = TRUE PROVE \E n \in Int : delta = n * TicksPerDay
    <3> DEFINE p == m.at \div TicksPerDay
               q == from.at \div TicksPerDay
    <3>1. m.at = p * TicksPerDay /\ p \in Int /\ from.at = q * TicksPerDay /\ q \in Int
      BY <1>4, <2>2, NormalDay, MomentIs, Ticks
    <3> HIDE DEF p, q, from
    <3>2. delta = (p - q) * TicksPerDay /\ p - q \in Int
      BY <3>1, DurationAssumption DEF from
    <3>3. QED
      BY <3>2
  <2>3. QED
    BY <2>1, <2>2
<1> HIDE DEF delta
\* A date moved by the difference.
<1>6. ASSUME NEW n \in Moment, IsNormal(n, a)
      PROVE  /\ rezoned(Add(n, delta)) \in Moment /\ rezoned(Add(n, delta)).at = n.at + delta
             /\ IsNormal(rezoned(Add(n, delta)), a)
  <2> DEFINE d == Add(n, delta)
  <2>1. d \in Moment /\ d.at = n.at + delta /\ d.timed = n.timed /\ d.zone = n.zone
    BY <1>5, AddIs
  <2>2. IsNormal(d, a)
    <3>1. CASE a = TRUE
      <4>1. PICK k \in Int : delta = k * TicksPerDay
        BY <1>5, <3>1
      <4>2. d = AddDays(n, k)
        BY <4>1 DEF AddDays
      <4>3. QED
        BY <1>6, <4>2, AddDaysIs
    <3>2. CASE a = FALSE
      BY <1>6, <2>1, <3>2 DEF IsNormal
    <3>3. QED
      BY <3>1, <3>2
  <2>3. /\ StripZone(d) \in Moment /\ StripZone(d).at = d.at /\ StripZone(d).timed = d.timed
    BY <2>1, StripZoneIs
  <2> HIDE DEF d
  <2>4. IsNormal(StripZone(d), a)
    <3>1. CASE a = TRUE
      <4>1. d.zone = <<>>
        BY <2>1, <2>2, <3>1, NormalDay
      <4>2. d = [at |-> d.at, timed |-> d.timed, zone |-> d.zone]
        BY <2>1, MomentIs
      <4>3. StripZone(d) = d
        BY <4>1, <4>2 DEF StripZone
      <4>4. QED
        BY <2>2, <4>3
    <3>2. CASE a = FALSE
      BY <2>2, <2>3, <3>2 DEF IsNormal
    <3>3. QED
      BY <3>1, <3>2
  <2>5. rezoned(d) \in {d, StripZone(d)}
    OBVIOUS
  <2> HIDE DEF rezoned
  <2>6. rezoned(d) \in Moment /\ rezoned(d).at = n.at + delta /\ IsNormal(rezoned(d), a)
    BY <2>1, <2>2, <2>3, <2>4, <2>5
  <2>7. QED
    BY <2>6 DEF d
<1> HIDE DEF rezoned
<1>7. /\ f.start \in Moment /\ IsNormal(f.start, a) /\ f.start.at = start.at + delta
      /\ f.allDay = a
  BY <1>3, <1>4, <1>6
<1>8. b = e => f.start.at = m.at
  <2>1. from.at \in Int /\ m.at \in Int /\ (b = e => start.at = from.at)
    BY <1>4, MomentIs
  <2> HIDE DEF start
  <2>2. delta = m.at - from.at
    BY DEF delta
  <2> HIDE DEF from
  <2>3. QED
    BY <1>7, <2>1, <2>2
<1>9. CASE kept = <<>>
  <2>1. f.end = <<>>
    BY <1>3, <1>9
  <2>2. f \in EventDate
    <3>1. <<>> \in Maybe(Moment)
      BY MaybeIs
    <3>2. f = [start |-> f.start, end |-> <<>>, allDay |-> a]
      BY <1>3, <2>1
    <3>3. QED
      BY <1>7, <3>1, <3>2 DEF EventDate
  <2>3. IsEvent(f)
    BY <1>7, <2>1, <2>2 DEF IsEvent
  <2>4. ASSUME a = e.allDay, b = e
        PROVE  GetEventEnd(f).at - f.start.at = GetEventEnd(e).at - e.start.at
    <3>1. e.end = <<>>
      <4>1. NormalizeEnd(e.end, a) = <<>>
        BY <1>9, <2>4
      <4>2. DOMAIN e.end = {}
        <5>1. DOMAIN NormalizeEnd(e.end, a) = DOMAIN e.end
          BY DEF NormalizeEnd
        <5>2. QED
          BY <4>1, <5>1
      <4>3. QED
        BY <1>1, <4>2, MaybeIs
    <3>2. /\ GetEventEnd(f) = GetDefaultEventEnd(a, f.start)
          /\ GetEventEnd(e) = GetDefaultEventEnd(a, e.start)
      BY <1>7, <2>1, <2>4, <3>1 DEF GetEventEnd
    <3> DEFINE D == IF a THEN DefaultAllDayEventDuration ELSE DefaultTimedEventDuration
    <3>3. GetEventEnd(f).at = f.start.at + D /\ GetEventEnd(e).at = e.start.at + D
      BY <1>1, <1>7, <2>4, <3>2, DefaultEndIs
    <3>4. D \in Int /\ f.start.at \in Int /\ e.start.at \in Int
      <4>1. f.start.at \in Int /\ e.start.at \in Int
        BY <1>1, <1>7, MomentIs
      <4>2. DefaultTimedEventDuration \in Int
        BY DurationAssumption
      <4>3. DefaultAllDayEventDuration \in Int
        BY DefaultDays, WholeDays
      <4>4. QED
        BY <4>1, <4>2, <4>3
    <3> HIDE DEF D
    <3>5. QED
      BY <3>3, <3>4
  <2>5. QED
    BY <1>7, <1>8, <2>1, <2>3, <2>4
<1>10. CASE kept # <<>>
  <2>1. a = e.allDay /\ kept = NormalizeEnd(b.end, a) /\ b.end # <<>>
    BY <1>10 DEF NormalizeEnd
  <2>2. b.end[1] \in Moment /\ IsNormal(b.end[1], b.allDay) /\ DOMAIN b.end = {1}
    BY <1>1, <2>1, MaybeIs
  <2>3. kept = [i \in {1} |-> Normalize(b.end[1], a)]
    BY <2>1, <2>2 DEF NormalizeEnd
  <2> DEFINE end == Normalize(b.end[1], a)
  <2>4. end \in Moment /\ IsNormal(end, a) /\ (b = e => end = e.end[1])
    BY <2>1, <2>2, NormalizeIs
  <2> DEFINE n == rezoned(Add(end, delta))
  <2>5. f.end = [i \in {1} |-> n]
    <3>1. DOMAIN kept = {1} /\ kept[1] = end
      BY <2>3
    <3> HIDE DEF kept, end
    <3>2. QED
      BY <1>3, <3>1 DEF n
  <2> HIDE DEF end
  <2>6. n \in Moment /\ n.at = end.at + delta /\ IsNormal(n, a)
    BY <1>6, <2>4
  <2> HIDE DEF n
  <2>7. f.end = <<n>>
    BY <2>5
  <2>8. f \in EventDate
    <3>1. <<n>> \in Maybe(Moment)
      BY <2>6, MaybeIs
    <3>2. f = [start |-> f.start, end |-> <<n>>, allDay |-> a]
      BY <1>3, <2>7
    <3>3. QED
      BY <1>7, <3>1, <3>2 DEF EventDate
  <2>9. IsEvent(f)
    BY <1>7, <2>6, <2>7, <2>8 DEF IsEvent
  <2>10. GetEventEnd(f) = n
    BY <2>7 DEF GetEventEnd
  <2>11. ASSUME b = e
         PROVE  GetEventEnd(f).at - f.start.at = GetEventEnd(e).at - e.start.at
    <3>1. start.at = e.start.at /\ GetEventEnd(e) = e.end[1] /\ end = e.end[1]
      BY <1>4, <2>1, <2>4, <2>11 DEF GetEventEnd
    <3>2. e.start.at \in Int /\ e.end[1].at \in Int
      BY <1>1, <2>2, <2>11, MomentIs
    <3>3. f.start.at = e.start.at + delta /\ n.at = e.end[1].at + delta
      BY <1>7, <2>6, <3>1
    <3>4. QED
      BY <1>5, <2>10, <3>1, <3>2, <3>3
  <2>12. QED
    BY <1>7, <1>8, <2>1, <2>9, <2>11
<1>11. QED
  BY <1>9, <1>10

\* What a resize makes of an event, when it was reckoned from the dates e: what it was
\* dropped on is the end of e.
LEMMA ResizeIs ==
  ASSUME NEW e, IsEvent(e), NEW f, IsEvent(f),
         NEW m \in Moment, m.timed = ~ e.allDay, IsNormal(m, e.allDay),
         NEW g, g = MutateEvents(f, Changes(e, <<>>, <<m>>))
  PROVE  /\ IsEvent(g) /\ g.allDay = e.allDay
         /\ f = e => g.start.at = e.start.at /\ GetEventEnd(g).at = m.at
<1> DEFINE a == e.allDay
           ch == Changes(e, <<>>, <<m>>)
           delta == m.at - GetEventEnd(e).at
<1>1. /\ e.start \in Moment /\ a \in BOOLEAN /\ IsNormal(e.start, a)
      /\ GetEventEnd(e) \in Moment /\ IsNormal(GetEventEnd(e), a)
      /\ m.at \in Int /\ GetEventEnd(e).at \in Int /\ e.start.at \in Int
  BY EventIs, EventEndIs, MomentIs
<1>2. /\ f.start \in Moment /\ f.allDay \in BOOLEAN /\ f.end \in Maybe(Moment)
      /\ IsNormal(f.start, f.allDay)
      /\ f.end # <<>> => f.end[1] \in Moment /\ IsNormal(f.end[1], f.allDay)
  BY EventIs
<1>3. /\ ch.clearEnd = FALSE /\ ch.allDay = a
      /\ ch.dateDelta = 0 /\ ch.durationDelta = delta
  <2>1. <<m>> # <<>> /\ <<m>>[1] = m
    OBVIOUS
  <2>2. (IF a THEN StripTime(m) ELSE m) = m
    BY DEF IsNormal
  <2>3. (~ m.timed) = a
    BY <1>1
  <2>4. DayishDiff(m, e.start) = m.at - e.start.at
    BY <1>1, DayishDiffIs
  <2>5. DayishDiff(GetEventEnd(e), e.start) = GetEventEnd(e).at - e.start.at
    BY <1>1, DayishDiffIs
  <2>6. /\ ch.clearEnd = ((~ m.timed) # e.allDay) /\ ch.allDay = ~ m.timed
        /\ ch.dateDelta = 0
        /\ ch.durationDelta =
             IF (~ m.timed) # e.allDay THEN 0
             ELSE DayishDiff(IF ~ m.timed THEN StripTime(m) ELSE m, e.start)
                  - DayishDiff(GetEventEnd(e), e.start)
    BY <2>1 DEF Changes
  <2>7. ch.durationDelta = (m.at - e.start.at) - (GetEventEnd(e).at - e.start.at)
    BY <2>2, <2>3, <2>4, <2>5, <2>6
  <2>8. (m.at - e.start.at) - (GetEventEnd(e).at - e.start.at) = delta
    BY <1>1
  <2> HIDE DEF ch, delta
  <2>9. QED
    BY <2>3, <2>6, <2>7, <2>8
<1>4. delta \in Int /\ (a => \E n \in Int : delta = n * TicksPerDay)
  <2>1. delta \in Int
    BY <1>1
  <2>2. ASSUME a = TRUE PROVE \E n \in Int : delta = n * TicksPerDay
    <3> DEFINE p == m.at \div TicksPerDay
               q == GetEventEnd(e).at \div TicksPerDay
    <3>1. /\ m.at = p * TicksPerDay /\ p \in Int
          /\ GetEventEnd(e).at = q * TicksPerDay /\ q \in Int
      BY <1>1, <2>2, NormalDay, Ticks
    <3> HIDE DEF p, q
    <3>2. delta = (p - q) * TicksPerDay /\ p - q \in Int
      BY <3>1, DurationAssumption
    <3>3. QED
      BY <3>2
  <2>3. QED
    BY <2>1, <2>2
<1> DEFINE start == Normalize(f.start, a)
           rezoned(n) == IF delta # 0 THEN StripZone(n) ELSE n
           kept == NormalizeEnd(f.end, a)
           end == IF kept = <<>> /\ delta # 0 THEN <<GetDefaultEventEnd(a, start)>> ELSE kept
<1>5. g = [start |-> rezoned(Add(start, 0)),
           end |-> [i \in DOMAIN end |-> rezoned(Add(end[i], delta))],
           allDay |-> a]
  <2>1. g = MutateEvents(f, ch)
    OBVIOUS
  <2> HIDE DEF ch
  <2> DEFINE start2 == Normalize(f.start, ch.allDay)
             kept2 == IF ch.clearEnd THEN <<>> ELSE NormalizeEnd(f.end, ch.allDay)
             end2 == IF kept2 = <<>> /\ ch.durationDelta # 0
                     THEN <<GetDefaultEventEnd(ch.allDay, start2)>> ELSE kept2
             rez2(n) == IF ch.dateDelta # 0 \/ ch.durationDelta # 0 THEN StripZone(n) ELSE n
  <2>2. g = [start |-> rez2(Add(start2, ch.dateDelta)),
             end |-> [i \in DOMAIN end2 |->
                        rez2(Add(end2[i], ch.dateDelta + ch.durationDelta))],
             allDay |-> ch.allDay]
    BY <2>1 DEF MutateEvents
  <2> HIDE DEF delta
  <2>3. ch.dateDelta + ch.durationDelta = delta
    BY <1>3, <1>4
  <2>4. start2 = start /\ kept2 = kept
    BY <1>3
  <2>5. end2 = end
    BY <1>3, <2>4
  <2>6. \A n : rez2(n) = rezoned(n)
    BY <1>3
  <2> HIDE DEF start2, kept2, end2, rez2, start, kept, rezoned, end
  <2>7. QED
    BY <1>3, <2>2, <2>3, <2>4, <2>5, <2>6
<1> HIDE DEF delta, ch
<1>7. start \in Moment /\ IsNormal(start, a) /\ (f = e => start = e.start)
  BY <1>1, <1>2, NormalizeIs
\* A date moved by whole days, or at all.
<1>8. ASSUME NEW n \in Moment, IsNormal(n, a), NEW k \in {0, delta}
      PROVE  /\ rezoned(Add(n, k)) \in Moment /\ rezoned(Add(n, k)).at = n.at + k
             /\ IsNormal(rezoned(Add(n, k)), a)
  <2> DEFINE d == Add(n, k)
  <2>1. d \in Moment /\ d.at = n.at + k /\ d.timed = n.timed /\ d.zone = n.zone
    BY <1>4, AddIs
  <2>2. IsNormal(d, a)
    <3>1. CASE a = TRUE
      <4>1. PICK j \in Int : k = j * TicksPerDay
        <5>1. 0 = 0 * TicksPerDay
          BY DurationAssumption
        <5>2. QED
          BY <1>4, <3>1, <5>1
      <4>2. d = AddDays(n, j)
        BY <4>1 DEF AddDays
      <4>3. QED
        BY <1>8, <4>2, AddDaysIs, <1>1
    <3>2. CASE a = FALSE
      BY <1>8, <2>1, <3>2 DEF IsNormal
    <3>3. QED
      BY <1>1, <3>1, <3>2
  <2>3. StripZone(d) \in Moment /\ StripZone(d).at = d.at /\ StripZone(d).timed = d.timed
    BY <2>1, StripZoneIs
  <2> HIDE DEF d
  <2>4. IsNormal(StripZone(d), a)
    <3>1. CASE a = TRUE
      <4>1. d.zone = <<>>
        BY <2>1, <2>2, <3>1, NormalDay
      <4>2. d = [at |-> d.at, timed |-> d.timed, zone |-> d.zone]
        BY <2>1, MomentIs
      <4>3. StripZone(d) = d
        BY <4>1, <4>2 DEF StripZone
      <4>4. QED
        BY <2>2, <4>3
    <3>2. CASE a = FALSE
      BY <2>2, <2>3, <3>2 DEF IsNormal
    <3>3. QED
      BY <1>1, <3>1, <3>2
  <2>5. rezoned(d) \in {d, StripZone(d)}
    OBVIOUS
  <2> HIDE DEF rezoned
  <2>6. rezoned(d) \in Moment /\ rezoned(d).at = n.at + k /\ IsNormal(rezoned(d), a)
    BY <2>1, <2>2, <2>3, <2>4, <2>5
  <2>7. QED
    BY <2>6 DEF d
<1> HIDE DEF rezoned
<1>9. /\ g.start \in Moment /\ IsNormal(g.start, a) /\ g.start.at = start.at /\ g.allDay = a
  <2>1. start.at \in Int
    BY <1>7, MomentIs
  <2> DEFINE d == rezoned(Add(start, 0))
  <2>2. d \in Moment /\ d.at = start.at + 0 /\ IsNormal(d, a)
    BY <1>7, <1>8
  <2>3. g.start = d /\ g.allDay = a
    BY <1>5
  <2> HIDE DEF d
  <2>4. QED
    BY <2>1, <2>2, <2>3
<1>10. CASE end = <<>>
  <2>1. g.end = <<>>
    BY <1>5, <1>10
  <2>2. IsEvent(g)
    <3>1. <<>> \in Maybe(Moment)
      BY MaybeIs
    <3>2. g = [start |-> g.start, end |-> <<>>, allDay |-> a]
      BY <1>5, <2>1
    <3>3. g \in EventDate
      BY <1>1, <1>9, <3>1, <3>2 DEF EventDate
    <3>4. QED
      BY <1>9, <2>1, <3>3 DEF IsEvent
  <2>3. ASSUME f = e PROVE g.start.at = e.start.at /\ GetEventEnd(g).at = m.at
    <3>1. kept = <<>> /\ delta = 0
      BY <1>10
    <3>2. e.end = <<>>
      <4>1. NormalizeEnd(f.end, a) = <<>>
        BY <3>1
      <4>2. DOMAIN f.end = {}
        <5>1. DOMAIN NormalizeEnd(f.end, a) = DOMAIN f.end
          BY DEF NormalizeEnd
        <5>2. QED
          BY <4>1, <5>1
      <4>3. f.end = <<>>
        BY <1>2, <4>2, MaybeIs
      <4>4. QED
        BY <2>3, <4>3
    <3>3. g.start.at = e.start.at
      BY <1>7, <1>9, <2>3
    <3>4. GetEventEnd(e) = GetDefaultEventEnd(a, e.start) /\ GetEventEnd(g) = GetDefaultEventEnd(a, g.start)
      BY <1>9, <2>1, <3>2 DEF GetEventEnd
    <3>5. GetEventEnd(g).at = GetEventEnd(e).at
      BY <1>1, <1>9, <3>3, <3>4, DefaultEndIs
    <3>6. GetEventEnd(e).at = m.at
      BY <1>1, <3>1 DEF delta
    <3>7. QED
      BY <3>3, <3>5, <3>6
  <2>4. QED
    BY <1>9, <2>2, <2>3
<1>11. CASE end # <<>>
  <2>1. PICK n \in Moment :
          /\ IsNormal(n, a) /\ end = [i \in {1} |-> n]
          /\ f = e => n.at = GetEventEnd(e).at
    <3>1. CASE f.end = <<>>
      <4>1. kept = <<>>
        BY <3>1 DEF NormalizeEnd
      <4>2. end = <<GetDefaultEventEnd(a, start)>>
        BY <1>11, <4>1
      <4>3. GetDefaultEventEnd(a, start) \in Moment /\ IsNormal(GetDefaultEventEnd(a, start), a)
        BY <1>1, <1>7, DefaultEndIs
      <4>4. f = e => GetDefaultEventEnd(a, start) = GetEventEnd(e)
        BY <1>7, <3>1 DEF GetEventEnd
      <4>5. <<GetDefaultEventEnd(a, start)>> = [i \in {1} |-> GetDefaultEventEnd(a, start)]
        OBVIOUS
      <4> HIDE DEF start, end
      <4>6. QED
        BY <4>2, <4>3, <4>4, <4>5
    <3>2. CASE f.end # <<>>
      <4>1. f.end[1] \in Moment /\ IsNormal(f.end[1], f.allDay) /\ DOMAIN f.end = {1}
        BY <1>2, <3>2, MaybeIs
      <4>2. kept = [i \in {1} |-> Normalize(f.end[1], a)]
        BY <4>1 DEF NormalizeEnd
      <4>3. end = kept
        <5> HIDE DEF kept
        <5>1. DOMAIN kept = {1}
          BY <4>2
        <5>2. kept # <<>>
          BY <5>1
        <5>3. QED
          BY <5>2
      <4> DEFINE n == Normalize(f.end[1], a)
      <4>4. n \in Moment /\ IsNormal(n, a)
        BY <1>1, <4>1, NormalizeIs
      <4>5. f = e => n = GetEventEnd(e)
        BY <1>1, <3>2, <4>1, NormalizeIs DEF GetEventEnd
      <4> HIDE DEF n, kept, end
      <4>6. QED
        BY <4>2, <4>3, <4>4, <4>5 DEF n
    <3>3. QED
      BY <3>1, <3>2
  <2> DEFINE d == rezoned(Add(n, delta))
  <2>2. g.end = [i \in {1} |-> d]
    <3>1. DOMAIN end = {1} /\ end[1] = n
      BY <2>1
    <3> HIDE DEF end
    <3>2. QED
      BY <1>5, <3>1
  <2>3. d \in Moment /\ d.at = n.at + delta /\ IsNormal(d, a)
    BY <1>8, <2>1
  <2> HIDE DEF d
  <2>4. g.end = <<d>>
    BY <2>2
  <2>5. IsEvent(g)
    <3>1. <<d>> \in Maybe(Moment)
      BY <2>3, MaybeIs
    <3>2. g = [start |-> g.start, end |-> <<d>>, allDay |-> a]
      BY <1>5, <2>4
    <3>3. g \in EventDate
      BY <1>1, <1>9, <3>1, <3>2 DEF EventDate
    <3>4. QED
      BY <1>9, <2>3, <2>4, <3>3 DEF IsEvent
  <2>6. ASSUME f = e PROVE g.start.at = e.start.at /\ GetEventEnd(g).at = m.at
    <3>1. g.start.at = e.start.at
      BY <1>7, <1>9, <2>6
    <3>2. GetEventEnd(g) = d
      <4>1. <<d>> # <<>> /\ <<d>>[1] = d
        OBVIOUS
      <4>2. GetEventEnd(g) = <<d>>[1]
        BY <2>4, <4>1, Zenon DEF GetEventEnd
      <4>3. QED
        BY <4>1, <4>2
    <3>3. d.at = GetEventEnd(e).at + delta
      BY <2>1, <2>3, <2>6
    <3>4. d.at = m.at
      BY <1>1, <3>3 DEF delta
    <3>5. QED
      BY <3>1, <3>2, <3>4
  <2>7. QED
    BY <1>9, <2>5, <2>6
<1>12. QED
  BY <1>10, <1>11

-----------------------------------------------------------------------------
(* The weekdays that are drawn                                              *)

\* The weekdays before d that are drawn.
Before(d) == (0..d - 1) \ HiddenDays

\* DayToCellMap counts the days drawn before a day of the week.
LEMMA BeforeIs ==
  ASSUME NEW d \in 0..7
  PROVE  IsFiniteSet(Before(d)) /\ Cardinality(Before(d)) \in 0..d
<1>1. IsFiniteSet(0..d - 1) /\ Cardinality(0..d - 1) = d
  BY FS_Interval
<1>2. Before(d) \subseteq 0..d - 1
  BY DEF Before
<1>3. IsFiniteSet(Before(d)) /\ Cardinality(Before(d)) <= Cardinality(0..d - 1)
  BY <1>1, <1>2, FS_Subset
<1>4. Cardinality(Before(d)) \in Nat
  BY <1>3, FS_CardinalityType
<1>5. QED
  BY <1>1, <1>3, <1>4

\* One weekday further, one cell more, unless that day is hidden.
LEMMA BeforeNext ==
  ASSUME NEW d \in 0..7
  PROVE  Cardinality(Before(d + 1)) =
           Cardinality(Before(d)) + (IF d \in HiddenDays THEN 0 ELSE 1)
<1>1. CASE d \in HiddenDays
  <2>1. Before(d + 1) = Before(d)
    BY <1>1 DEF Before
  <2>2. Cardinality(Before(d)) \in Int
    BY BeforeIs
  <2>3. QED
    BY <1>1, <2>1, <2>2
<1>2. CASE d \notin HiddenDays
  <2>1. Before(d + 1) = Before(d) \cup {d} /\ d \notin Before(d)
    BY <1>2 DEF Before
  <2>2. QED
    BY <1>2, <2>1, BeforeIs, FS_AddElement
<1>3. QED
  BY <1>1, <1>2

\* A later weekday has no fewer cells before it.
LEMMA BeforeFewer ==
  ASSUME NEW c \in 0..7, NEW d \in 0..7, c <= d
  PROVE  Cardinality(Before(c)) <= Cardinality(Before(d))
<1>1. Before(c) \subseteq Before(d)
  BY DEF Before
<1>2. QED
  BY <1>1, BeforeIs, FS_Subset

\* dayToCellMap counts the days that are not hidden before each weekday.
LEMMA MapIs ==
  ASSUME NEW d \in 0..6
  PROVE  /\ DayToCellMap[d] = Cardinality(Before(d)) /\ DayToCellMap[d] \in 0..GetCellsPerWeek
         /\ d \notin HiddenDays => DayToCellMap[d] < GetCellsPerWeek
         /\ GetCellsPerWeek \in 1..7 /\ GetCellsPerWeek = Cardinality(Before(7))
<1>1. DayToCellMap[d] = Cardinality(Before(d))
  BY DEF DayToCellMap, Before
<1>2. GetCellsPerWeek = Cardinality(Before(7))
  <2>1. IsFiniteSet(0..6) /\ Cardinality(0..6) = 7
    <3>1. 0 \in Int /\ 6 \in Int
      OBVIOUS
    <3>2. /\ IsFiniteSet(0..6)
          /\ Cardinality(0..6) = IF 0 > 6 THEN 0 ELSE 6 - 0 + 1
      BY <3>1, FS_Interval, Zenon
    <3>3. QED
      BY <3>2
  <2>2. IsFiniteSet(HiddenDays) /\ HiddenDays \subseteq 0..6
    BY <2>1, FS_Subset, WeekAssumption
  <2>3. Before(7) = (0..6) \ HiddenDays
    BY DEF Before
  <2>4. Cardinality((0..6) \ HiddenDays) = Cardinality(0..6) - Cardinality((0..6) \cap HiddenDays)
    BY <2>1, FS_Difference
  <2>5. (0..6) \cap HiddenDays = HiddenDays
    BY <2>2
  <2>6. QED
    BY <2>1, <2>3, <2>4, <2>5 DEF GetCellsPerWeek
<1>3. GetCellsPerWeek \in 1..7
  <2>0. 7 \in 0..7
    OBVIOUS
  <2>1. IsFiniteSet(Before(7)) /\ Cardinality(Before(7)) \in 0..7
    BY <2>0, BeforeIs, Zenon
  <2>2. Before(7) # {}
    <3>1. Before(7) = (0..6) \ HiddenDays
      BY DEF Before
    <3>2. QED
      BY <3>1, WeekAssumption
  <2>3. Cardinality(Before(7)) # 0
    BY <2>1, <2>2, FS_EmptySet
  <2>4. QED
    BY <1>2, <2>1, <2>3
<1>4. Cardinality(Before(d)) <= Cardinality(Before(7)) /\ Cardinality(Before(d)) \in Nat
  <2>1. d \in 0..7 /\ 7 \in 0..7
    OBVIOUS
  <2>2. Cardinality(Before(d)) \in 0..d
    BY <2>1, BeforeIs
  <2>3. Cardinality(Before(d)) <= Cardinality(Before(7))
    BY <2>1, BeforeFewer
  <2>4. QED
    BY <2>2, <2>3
<1>5. ASSUME d \notin HiddenDays PROVE Cardinality(Before(d)) < Cardinality(Before(7))
  <2>1. d \in 0..7 /\ d + 1 \in 0..7 /\ 7 \in 0..7
    OBVIOUS
  <2>2. Cardinality(Before(d + 1)) <= Cardinality(Before(7))
    BY <2>1, BeforeFewer
  <2>3. Cardinality(Before(d + 1)) = Cardinality(Before(d)) + 1
    BY <1>5, <2>1, BeforeNext
  <2>4. QED
    BY <1>2, <1>3, <1>4, <2>2, <2>3
<1>6. QED
  BY <1>1, <1>2, <1>3, <1>4, <1>5

\* A day comes before another if as many or fewer days are drawn before it.
LEMMA MapOrder ==
  ASSUME NEW c \in 0..6, c \notin HiddenDays, NEW d \in 0..6
  PROVE  c >= d <=> DayToCellMap[c] >= DayToCellMap[d]
<1>1. /\ DayToCellMap[c] = Cardinality(Before(c)) /\ DayToCellMap[d] = Cardinality(Before(d))
      /\ DayToCellMap[c] \in Int /\ DayToCellMap[d] \in Int
  BY MapIs
<1>2. c >= d => Cardinality(Before(c)) >= Cardinality(Before(d))
  <2>1. c \in 0..7 /\ d \in 0..7
    OBVIOUS
  <2>2. c >= d => d <= c
    OBVIOUS
  <2>3. c >= d => Cardinality(Before(d)) <= Cardinality(Before(c))
    BY <2>1, <2>2, BeforeFewer
  <2>4. QED
    BY <1>1, <2>3
<1>3. ASSUME c < d PROVE Cardinality(Before(c)) < Cardinality(Before(d))
  <2>1. c \in 0..7 /\ d \in 0..7 /\ c + 1 \in 0..7 /\ c + 1 <= d
    BY <1>3
  <2>2. Cardinality(Before(c + 1)) = Cardinality(Before(c)) + 1
    BY <2>1, BeforeNext
  <2>3. Cardinality(Before(c + 1)) <= Cardinality(Before(d))
    BY <2>1, BeforeFewer
  <2>4. QED
    BY <1>1, <2>2, <2>3
<1>4. QED
  BY <1>1, <1>2, <1>3

\* Every cell of a week is some day's.
LEMMA CellIsDay ==
  ASSUME NEW c \in 0..GetCellsPerWeek - 1
  PROVE  /\ CellToDayMap[c] \in 0..6 /\ CellToDayMap[c] \notin HiddenDays
         /\ DayToCellMap[CellToDayMap[c]] = c
<1> DEFINE T == {d \in 0..6 : Cardinality(Before(d)) <= c}
<1>0. GetCellsPerWeek \in 1..7 /\ GetCellsPerWeek = Cardinality(Before(7))
  <2>1. 0 \in 0..6
    OBVIOUS
  <2>2. QED
    BY <2>1, MapIs
<1>1. 0 \in T
  <2>1. 0 \in 0..7
    OBVIOUS
  <2>2. Cardinality(Before(0)) \in 0..0
    BY <2>1, BeforeIs
  <2>3. QED
    BY <1>0, <2>2
<1> DEFINE d == Max(T)
<1>2. d \in T /\ \A y \in T : y <= d
  <2>1. T \in SUBSET (0..6) /\ T # {}
    BY <1>1
  <2> HIDE DEF T
  <2>2. QED
    BY <2>1, Extremes
<1>3. d \in 0..6 /\ Cardinality(Before(d)) <= c
  BY <1>2
<1>4. Cardinality(Before(d + 1)) > c
  <2>1. CASE d = 6
    BY <1>0, <2>1
  <2>2. CASE d # 6
    <3>1. d + 1 \in 0..6 /\ d + 1 \notin T
      BY <1>2, <1>3, <2>2
    <3>2. Cardinality(Before(d + 1)) \in Int
      <4>1. d + 1 \in 0..7
        BY <1>3
      <4>2. QED
        BY <4>1, BeforeIs
    <3>3. ~ (Cardinality(Before(d + 1)) <= c)
      BY <3>1
    <3>4. QED
      BY <1>0, <3>2, <3>3
  <2>3. QED
    BY <2>1, <2>2
<1> HIDE DEF d, T
<1>5. d \notin HiddenDays /\ Cardinality(Before(d)) = c
  <2>1. d \in 0..7
    BY <1>3
  <2>2. Cardinality(Before(d)) \in Int /\ c \in Int
    BY <1>0, <2>1, BeforeIs
  <2>3. Cardinality(Before(d + 1)) =
          Cardinality(Before(d)) + (IF d \in HiddenDays THEN 0 ELSE 1)
    BY <2>1, BeforeNext
  <2>4. d \notin HiddenDays
    BY <1>3, <1>4, <2>2, <2>3
  <2>5. Cardinality(Before(d + 1)) = Cardinality(Before(d)) + 1
    BY <2>3, <2>4
  <2>6. QED
    BY <1>3, <1>4, <2>2, <2>4, <2>5
<1>6. DayToCellMap[d] = c
  BY <1>3, <1>5, MapIs
<1>7. \E x \in (0..6) \ HiddenDays : DayToCellMap[x] = c
  BY <1>3, <1>5, <1>6
<1>8. CellToDayMap[c] = CHOOSE x \in (0..6) \ HiddenDays : DayToCellMap[x] = c
  BY DEF CellToDayMap
<1>9. QED
  BY <1>7, <1>8

-----------------------------------------------------------------------------
(* Cells and days                                                           *)

\* A number and the number of whole weeks in it.
LEMMA Sevens ==
  ASSUME NEW n \in Int
  PROVE  n \div 7 \in Int /\ n % 7 \in 0..6 /\ n = (n \div 7) * 7 + (n % 7)
OBVIOUS

\* Division by the cells of a week.
LEMMA Parts ==
  ASSUME NEW n \in Int, NEW w \in Nat, w > 0
  PROVE  n \div w \in Int /\ n % w \in 0..w - 1 /\ n = (n \div w) * w + (n % w)
OBVIOUS

\* A week and a cell of it come out of their sum.
LEMMA PartsOf ==
  ASSUME NEW q \in Int, NEW r \in Int, NEW w \in Nat, 0 <= r, r < w
  PROVE  (q * w + r) \div w = q /\ (q * w + r) % w = r
OBVIOUS

\* A product with the cells of a week goes by the week.
LEMMA WeeksGrow ==
  ASSUME NEW p \in Int, NEW q \in Int, NEW w \in Nat, p < q
  PROVE  p * w + w <= q * w
<1>1. PICK k \in Nat : q = p + 1 + k
  <2>1. q = p + 1 + (q - p - 1) /\ q - p - 1 \in Nat
    OBVIOUS
  <2>2. QED
    BY <2>1
<1>2. q * w = p * w + w + k * w /\ k * w \in Nat
  BY <1>1
<1>3. p * w \in Int /\ q * w \in Int
  OBVIOUS
<1>4. QED
  BY <1>2, <1>3

\* What the offset of a cell says of its day: the week and the day of the week.
LEMMA CellDay ==
  ASSUME NEW x \in Int, NEW start \in Int
  PROVE  \E q \in Int, c \in (0..6) \ HiddenDays :
           /\ x + DayToCellMap[start % 7] = q * GetCellsPerWeek + DayToCellMap[c]
           /\ CellOffsetToDayOffset(x, start) = q * 7 + c - (start % 7)
<1> DEFINE w == GetCellsPerWeek
           n == x + DayToCellMap[start % 7]
<1>1. start % 7 \in 0..6
  BY Sevens
<1>2. w \in 1..7 /\ DayToCellMap[start % 7] \in Int /\ n \in Int
  BY <1>1, MapIs
<1> DEFINE q == n \div w
           r == n % w
<1>3. q \in Int /\ r \in 0..w - 1 /\ n = q * w + r
  <2> HIDE DEF w, n
  <2>1. w \in Nat /\ w > 0
    BY <1>2
  <2>2. QED
    BY <1>2, <2>1, Parts
<1>4. CellOffsetToDayOffset(x, start) = q * 7 + CellToDayMap[r] - (start % 7)
  BY DEF CellOffsetToDayOffset, DayOfWeek
<1>5. CellToDayMap[r] \in (0..6) \ HiddenDays /\ DayToCellMap[CellToDayMap[r]] = r
  <2>1. r \in 0..GetCellsPerWeek - 1
    BY <1>3
  <2> HIDE DEF r
  <2>2. QED
    BY <2>1, CellIsDay
<1> HIDE DEF q, r
<1>6. x + DayToCellMap[start % 7] = q * GetCellsPerWeek + DayToCellMap[CellToDayMap[r]]
  BY <1>3, <1>5
<1>7. QED
  BY <1>3, <1>4, <1>5, <1>6

\* What the offset of a day says of its cell.
LEMMA DayCell ==
  ASSUME NEW d \in Int, NEW start \in Int
  PROVE  \E q \in Int, r \in 0..6 :
           /\ d + (start % 7) = q * 7 + r
           /\ DayOffsetToCellOffset(d, start) + DayToCellMap[start % 7]
                = q * GetCellsPerWeek + DayToCellMap[r]
           /\ DayOffsetToCellOffset(d, start) \in Int
<1> DEFINE w == GetCellsPerWeek
           n == d + (start % 7)
           q == n \div 7
           r == n % 7
<1>1. start % 7 \in 0..6
  BY Sevens
<1>2. w \in Int /\ DayToCellMap[start % 7] \in Int
  BY <1>1, MapIs
<1>3. n \in Int
  BY <1>1
<1>4. q \in Int /\ r \in 0..6 /\ n = q * 7 + r
  <2> HIDE DEF n
  <2>1. QED
    BY <1>3, Sevens
<1>5. DayOffsetToCellOffset(d, start) = q * w + DayToCellMap[r] - DayToCellMap[start % 7]
  BY DEF DayOffsetToCellOffset, DayOfWeek
<1>6. DayToCellMap[r] \in Int
  <2> HIDE DEF r
  <2>1. QED
    BY <1>4, MapIs
<1> HIDE DEF q, r, w
<1>7. q * w \in Int
  BY <1>2, <1>4
<1>8. /\ DayOffsetToCellOffset(d, start) + DayToCellMap[start % 7] = q * w + DayToCellMap[r]
      /\ DayOffsetToCellOffset(d, start) \in Int
  <2> DEFINE a == q * w
             b == DayToCellMap[r]
             c == DayToCellMap[start % 7]
  <2>1. a \in Int /\ b \in Int /\ c \in Int
    BY <1>2, <1>6, <1>7
  <2>2. DayOffsetToCellOffset(d, start) = a + b - c
    BY <1>5
  <2> HIDE DEF a, b, c
  <2>3. DayOffsetToCellOffset(d, start) + c = a + b /\ DayOffsetToCellOffset(d, start) \in Int
    BY <2>1, <2>2
  <2>4. QED
    BY <2>3 DEF a, b, c
<1>9. d + (start % 7) = q * 7 + r
  BY <1>4
<1>10. QED
  BY <1>4, <1>8, <1>9 DEF w

\* Offsets of cells and of days are numbers, both ways.
LEMMA OffsetsAreInts ==
  ASSUME NEW x \in Int, NEW start \in Int
  PROVE  /\ CellOffsetToDayOffset(x, start) \in Int
         /\ DayOffsetToCellOffset(x, start) \in Int
<1>1. CellOffsetToDayOffset(x, start) \in Int
  <2>1. PICK q \in Int, c \in (0..6) \ HiddenDays :
           /\ x + DayToCellMap[start % 7] = q * GetCellsPerWeek + DayToCellMap[c]
           /\ CellOffsetToDayOffset(x, start) = q * 7 + c - (start % 7)
    BY CellDay
  <2>2. start % 7 \in 0..6
    BY Sevens
  <2>3. QED
    BY <2>1, <2>2
<1>2. QED
  BY <1>1, DayCell

\* The cells from that of a day on are the cells of the days from this day on.
LEMMA CellsFollowDays ==
  ASSUME NEW x \in Int, NEW d \in Int, NEW start \in Int
  PROVE  CellOffsetToDayOffset(x, start) >= d <=> x >= DayOffsetToCellOffset(d, start)
<1> DEFINE w == GetCellsPerWeek
           day0 == start % 7
           m == DayToCellMap[day0]
<1>1. day0 \in 0..6 /\ m \in Int /\ w \in 1..7
  <2>1. day0 \in 0..6
    BY Sevens
  <2> HIDE DEF day0
  <2>2. QED
    BY <2>1, MapIs
<1>2. PICK q \in Int, c \in (0..6) \ HiddenDays :
           /\ x + m = q * w + DayToCellMap[c]
           /\ CellOffsetToDayOffset(x, start) = q * 7 + c - day0
  BY CellDay
<1>3. PICK p \in Int, r \in 0..6 :
           /\ d + day0 = p * 7 + r
           /\ DayOffsetToCellOffset(d, start) + m = p * w + DayToCellMap[r]
           /\ DayOffsetToCellOffset(d, start) \in Int
  BY DayCell
<1> DEFINE mc == DayToCellMap[c]
           mr == DayToCellMap[r]
<1>4. /\ mc \in Nat /\ mc < w /\ mr \in Nat /\ mr <= w
      /\ c >= r <=> mc >= mr
  BY MapIs, MapOrder
<1> DEFINE day == CellOffsetToDayOffset(x, start)
           cell == DayOffsetToCellOffset(d, start)
<1>5. /\ x + m = q * w + mc /\ cell + m = p * w + mr /\ cell \in Int
      /\ day = q * 7 + c - day0 /\ d + day0 = p * 7 + r
  BY <1>2, <1>3
<1> HIDE DEF day, cell, mc, mr, m, w, day0
<1>6. day >= d <=> q > p \/ (q = p /\ c >= r)
  BY <1>1, <1>5
<1>7. q * w \in Int /\ p * w \in Int /\ w \in Nat
  BY <1>1
<1>8. x >= cell <=> q * w + mc >= p * w + mr
  BY <1>1, <1>4, <1>5, <1>7
<1>9. day >= d <=> x >= cell
  <2>1. CASE q > p
    <3>1. p * w + w <= q * w
      BY <1>7, <2>1, WeeksGrow
    <3>2. QED
      BY <1>4, <1>6, <1>7, <1>8, <2>1, <3>1
  <2>2. CASE q = p
    BY <1>4, <1>6, <1>7, <1>8, <2>2
  <2>3. CASE q < p
    <3>1. q * w + w <= p * w
      BY <1>7, <2>3, WeeksGrow
    <3>2. QED
      BY <1>4, <1>6, <1>7, <1>8, <2>3, <3>1
  <2>4. QED
    BY <2>1, <2>2, <2>3
<1>10. QED
  BY <1>9 DEF day, cell

\* No two cells are of one day.
LEMMA CellsDiffer ==
  ASSUME NEW x \in Int, NEW y \in Int, NEW start \in Int,
         CellOffsetToDayOffset(x, start) = CellOffsetToDayOffset(y, start)
  PROVE  x = y
<1>1. start % 7 \in 0..6
  BY Sevens
<1>2. PICK q \in Int, c \in (0..6) \ HiddenDays :
           /\ x + DayToCellMap[start % 7] = q * GetCellsPerWeek + DayToCellMap[c]
           /\ CellOffsetToDayOffset(x, start) = q * 7 + c - (start % 7)
  BY CellDay
<1>3. PICK p \in Int, b \in (0..6) \ HiddenDays :
           /\ y + DayToCellMap[start % 7] = p * GetCellsPerWeek + DayToCellMap[b]
           /\ CellOffsetToDayOffset(y, start) = p * 7 + b - (start % 7)
  BY CellDay
<1>4. q = p /\ c = b
  <2> DEFINE s == start % 7
  <2>1. q * 7 + c - s = p * 7 + b - s
    BY <1>2, <1>3
  <2>2. s \in Int /\ c \in 0..6 /\ b \in 0..6
    BY <1>1
  <2> HIDE DEF s
  <2>3. QED
    BY <2>1, <2>2
<1>5. x + DayToCellMap[start % 7] = y + DayToCellMap[start % 7]
  BY <1>2, <1>3, <1>4, Zenon
<1>6. DayToCellMap[start % 7] \in Int
  BY <1>1, MapIs
<1>7. QED
  BY <1>5, <1>6

-----------------------------------------------------------------------------
(* The grid                                                                 *)

\* Skipping hidden days ends, as some day of the week is drawn.
LEMMA SkipsToADay ==
  ASSUME NEW d \in Int, NEW inc \in {-1, 1}, NEW isExclusive \in BOOLEAN
  PROVE  SkipHiddenDays(d, inc, isExclusive) \in Int
<1> DEFINE edge == IF isExclusive THEN inc ELSE 0
           steps == {k \in 0..6 : ~ IsHiddenDay(d + k * inc + edge)}
<1>1. PICK day \in 0..6 : day \notin HiddenDays
  BY WeekAssumption
<1>2. \E k \in 0..6 : (d + k * inc + edge) % 7 = day
  <2>1. CASE inc = 1
    <3>1. (day - d - edge) % 7 \in 0..6 /\ (d + ((day - d - edge) % 7) + edge) % 7 = day
      BY <2>1
    <3>2. QED
      BY <2>1, <3>1
  <2>2. CASE inc = -1
    <3>1. (d + edge - day) % 7 \in 0..6 /\ (d - ((d + edge - day) % 7) + edge) % 7 = day
      BY <2>2
    <3>2. QED
      BY <2>2, <3>1
  <2>3. QED
    BY <2>1, <2>2
<1>3. steps # {}
  BY <1>1, <1>2 DEF IsHiddenDay, DayOfWeek
<1>4. Min(steps) \in 0..6
  <2>1. 0 \in Int /\ 6 \in Int /\ steps \in SUBSET (0..6)
    OBVIOUS
  <2> HIDE DEF steps
  <2>2. Min(steps) \in steps
    BY <1>3, <2>1, Extremes, Zenon
  <2>3. QED
    BY <2>1, <2>2
<1>5. SkipHiddenDays(d, inc, isExclusive) = d + inc * Min(steps)
  BY DEF SkipHiddenDays
<1> HIDE DEF steps
<1>6. QED
  BY <1>4, <1>5

\* The days of a window are numbers.
LEMMA WindowIsDays ==
  ASSUME NEW view \in ViewName
  PROVE  WindowOf(view, Date).start \in Int /\ WindowOf(view, Date).end \in Int
<1> DEFINE first == MonthStart[MonthOf(Date)]
           last  == MonthStart[MonthOf(Date) + 1]
<1>1. Date \in Int /\ first \in Int /\ last \in Int
  <2>1. /\ Len(MonthStart) \in Nat
        /\ \A k \in 1..Len(MonthStart) : MonthStart[k] \in Int
    BY MonthAssumption
  <2>2. Date \in Int /\ \E i \in 2..Len(MonthStart) - 2 : MonthStart[i] <= Date /\ Date < MonthStart[i + 1]
    BY GestureAssumption DEF KnownDay
  <2>3. MonthOf(Date) \in 1..Len(MonthStart) - 1
    <3>1. \E i \in 1..Len(MonthStart) - 1 : MonthStart[i] <= Date /\ Date < MonthStart[i + 1]
      BY <2>1, <2>2
    <3>2. QED
      BY <3>1, Zenon DEF MonthOf
  <2>4. QED
    BY <2>1, <2>2, <2>3
<1>2. \A n \in Int : Weekday(n) \in 0..6 /\ StartOfWeek(n) \in Int
  BY WeekAssumption DEF Weekday, StartOfWeek
<1>3. \A n \in Int : /\ SkipHiddenDays(n, 1, FALSE) \in Int
                     /\ SkipHiddenDays(n, -1, TRUE) \in Int
  BY SkipsToADay
<1>4. CASE view = "month"
  <2> DEFINE start == SkipHiddenDays(StartOfWeek(SkipHiddenDays(first, 1, FALSE)), 1, FALSE)
             edge  == SkipHiddenDays(last, -1, TRUE)
             end   == SkipHiddenDays(edge + ((7 - Weekday(edge)) % 7), -1, TRUE)
             rowCnt == (end - start + 6) \div 7
  <2>1. WindowOf(view, Date) = Window("month", first, last, start, end + 7 * (6 - rowCnt))
    BY <1>4 DEF WindowOf, MonthWindow
  <2>2. start \in Int
    BY <1>1, <1>2, <1>3
  <2>3. edge \in Int
    BY <1>1, <1>3
  <2>4. edge + ((7 - Weekday(edge)) % 7) \in Int
    <3> HIDE DEF edge
    <3>1. Weekday(edge) \in 0..6
      BY <1>2, <2>3
    <3>2. (7 - Weekday(edge)) % 7 \in 0..6
      BY <3>1
    <3>3. QED
      BY <2>3, <3>2
  <2>5. end \in Int
    BY <1>3, <2>4
  <2> HIDE DEF first, last, start, edge, end
  <2>6. QED
    BY <2>1, <2>2, <2>5 DEF Window
<1>5. CASE view = "agendaWeek"
  <2>1. StartOfWeek(Date) \in Int /\ StartOfWeek(Date) + 7 \in Int
    BY <1>1, <1>2
  <2>2. /\ SkipHiddenDays(StartOfWeek(Date), 1, FALSE) \in Int
        /\ SkipHiddenDays(StartOfWeek(Date) + 7, -1, TRUE) \in Int
    BY <1>3, <2>1
  <2>3. QED
    BY <1>5, <2>2 DEF WindowOf, WeekWindow, Window
<1>6. CASE view = "agendaDay"
  BY <1>1, <1>6 DEF WindowOf, DayWindow, Window
<1>7. QED
  BY <1>4, <1>5, <1>6

\* A view's grid has one to seven columns.
LEMMA GridIs ==
  ASSUME NEW view \in ViewName
  PROVE  /\ GridOf(view).start \in Int /\ GridOf(view).rowCnt \in Int
         /\ GridOf(view).colCnt \in 1..7
<1>1. WindowOf(view, Date).start \in Int /\ WindowOf(view, Date).end \in Int
  BY WindowIsDays
<1>2. GetCellsPerWeek \in 1..7
  <2>1. 0 \in 0..6
    OBVIOUS
  <2>2. QED
    BY <2>1, MapIs
<1>3. QED
  BY <1>1, <1>2 DEF GridOf

-----------------------------------------------------------------------------
(* The invariant                                                            *)

\* Cells and points as far as types go.
Cells == [row : Int, col : Int]

Points == [x : Int, y : Int]

\* What the callback of a drag, and of a resize, closes over.
DragKnows ==
  [kind : {"monthDrag", "agendaDrag"}, id : Own, event : EventDate, kept : BOOLEAN,
   isStart : BOOLEAN, dayDelta : Int, allDay : BOOLEAN, revert : BOOLEAN]

ResizeKnows ==
  [kind : {"dayResize"}, id : Own, event : EventDate, kept : BOOLEAN,
   least : Int, dayDelta : Int, helper : BOOLEAN]

\* What each gesture keeps.
SlotDrags ==
  [kind : {"slotDrag"}, id : Own, from : Points, inBounds : BOOLEAN, allDay : BOOLEAN,
   colDelta : Int, dayDelta : Int, snapDelta : Int]

SlotResizes ==
  [kind : {"slotResize"}, id : Own, snapDelta : Int, length : Int, edge : Int]

DayDrags == [kind : {"dayDrag"}, id : Own, grip : Int, top : Int]

DayResizes == [kind : {"dayResize"}, id : Own]

\* What the HoverListener keeps.
Hovers == [bound : SUBSET {"drag", "mousemove"}, type : {"drag", "mousemove"},
           alive : BOOLEAN, first : Cells, cell : Cells,
           g : {Nothing} \cup DragKnows \cup ResizeKnows]

\* The view's grid is the page's, and the server's events are events.
PageOK ==
  /\ page.view \in ViewName /\ page.grid = GridOf(page.view)
  /\ AreEvents(page.server)

\* The client's events are events.
EventsOK ==
  /\ DOMAIN events \subseteq Id
  /\ \A id \in DOMAIN events : IsEvent(events[id])

\* A drag that was told of closes over an event that is there, until an answer.
HoverOK ==
  /\ hover \in Hovers
  /\ hover.g = Nothing => hover = NoHover
  /\ hover.g # Nothing =>
       /\ IsEvent(hover.g.event)
       /\ hover.g.kept => hover.g.id \in DOMAIN events

\* The event of a gesture is there; a slot has a timed one.
GestureOK ==
  /\ gesture \in {Nothing} \cup SlotDrags \cup SlotResizes \cup DayDrags \cup DayResizes
  /\ Mouse \in {"slotDrag", "slotResize"} =>
       gesture.id \in DOMAIN events /\ ~ events[gesture.id].allDay
  /\ Mouse = "dayDrag" => gesture.id \in DOMAIN events

\* What goes back.
Reverts ==
  [kind : {"slotDrag", "dayDrag"}, id : Own, torn : BOOLEAN, own : BOOLEAN,
   g : {Nothing} \cup DragKnows \cup ResizeKnows]

\* What the callback of a drag that goes back closes over. It knows the page's event only
\* if no answer came since; then the mouse does not hold that event.
BackOK(r) ==
  /\ Known(r) \in DragKnows /\ Known(r).id = r.id /\ IsEvent(Known(r).event)
  /\ Known(r).kept => r.id \in DOMAIN events
  /\ Known(r).kept /\ Mouse # "none" => r.id # gesture.id
  /\ Known(r).kept /\ r.torn => grabs = 0

\* One element at most goes back; only that of a drag of day cells has a callback.
RevertOK ==
  /\ reverting \subseteq Reverts
  /\ \A r, s \in reverting : r = s
  /\ \A r \in reverting : r.kind = "dayDrag" => BackOK(r)
  /\ \A r \in reverting :
       /\ r.own => r.kind = "dayDrag" /\ Mouse \notin {"dayDrag", "dayResize"}
       /\ r.kind = "slotDrag" \/ r.own => r.g = Nothing

\* At most one range is marked.
ScreenOK ==
  /\ \A m, n \in overlay : m = n
  /\ hidden \subseteq Id /\ helpers \subseteq Own
  /\ upset \subseteq {"torn", "overtaken", "left"}
  /\ grabs \in Nat

\* A drag or a resize of day cells has the callback of the HoverListener.
HoldOK ==
  /\ Mouse = "dayDrag" =>
       /\ hover.type = "drag" /\ hover.alive
       /\ hover.g.kind = (IF IsMonth THEN "monthDrag" ELSE "agendaDrag")
       /\ hover.g.id = gesture.id /\ hover.g.kept
  /\ Mouse = "dayResize" =>
       /\ hover.type = "mousemove"
       /\ hover.g.kind = "dayResize" /\ hover.g.id = gesture.id
       /\ "overtaken" \notin upset => hover.g.kept /\ EventOf(hover.g).allDay
  /\ "mousemove" \in hover.bound => Mouse = "dayResize"

\* The inductive invariant of the gestures' shapes.
TypeInv ==
  PageOK /\ EventsOK /\ HoverOK /\ GestureOK /\ RevertOK /\ ScreenOK /\ HoldOK

-----------------------------------------------------------------------------
(* The mouse on the grid                                                    *)

\* So has the grid of the page.
LEMMA PageGrid ==
  ASSUME PageOK
  PROVE  /\ Grid.start \in Int /\ Grid.rowCnt \in Int /\ Grid.colCnt \in 1..7
         /\ GridRows \in Int
<1>1. Grid = GridOf(page.view) /\ page.view \in ViewName
  BY DEF PageOK, Grid
<1>2. Grid.start \in Int /\ Grid.rowCnt \in Int /\ Grid.colCnt \in 1..7
  BY <1>1, GridIs
<1>3. MinTime \in Int /\ MaxTime \in Int
  BY SlotAssumption, DurationAssumption
<1>4. QED
  BY <1>2, <1>3 DEF GridRows

\* Where the mouse may be is a point over some cell.
LEMMA PointsAreCells ==
  ASSUME PageOK, NEW p \in Pointer
  PROVE  p \in Points /\ Cell(p) \in Cells
<1>1. ColPx \in Nat /\ ColPx > 0 /\ RowPx \in Nat /\ RowPx > 0 /\ Columns \subseteq Nat
  BY GestureAssumption
<1>2. CASE p = Outside
  BY <1>2 DEF Outside, Points, Cell, NoCell, Cells
<1>3. CASE p # Outside
  <2>1. p.x \in Int /\ p.y \in Int /\ p = [x |-> p.x, y |-> p.y]
    <3>1. PICK c \in (IF Grid.colCnt = 1 THEN {0} ELSE Columns), r \in 0..GridRows - 1 :
            /\ p.x \in (IF IsMonth THEN {c * ColPx} ELSE c * ColPx..(c + 1) * ColPx - 1)
            /\ p.y \in (IF IsMonth THEN {r * RowPx} ELSE r * RowPx..(r + 1) * RowPx - 1)
            /\ p = [x |-> p.x, y |-> p.y]
      BY <1>3 DEF Pointer
    <3>2. c \in Int /\ r \in Int
      BY <1>1, PageGrid
    <3>3. c * ColPx \in Int /\ r * RowPx \in Int
      BY <1>1, <3>2
    <3>4. QED
      BY <3>1, <3>3
  <2>2. p.x \div ColPx \in Int /\ p.y \div RowPx \in Int
    BY <1>1, <2>1
  <2>3. QED
    BY <1>3, <2>1, <2>2 DEF Points, Cell, Cells
<1>4. QED
  BY <1>2, <1>3

\* A cell has a date.
LEMMA CellHasDate ==
  ASSUME PageOK, NEW cell \in Cells
  PROVE  /\ CellToCellOffset(cell, Grid.colCnt) \in Int
         /\ DateOf(cell) \in Int
<1>1. Grid.start \in Int /\ Grid.colCnt \in Int
  BY PageGrid
<1>2. cell.row * Grid.colCnt + cell.col \in Int
  BY <1>1 DEF Cells
<1>3. CellToCellOffset(cell, Grid.colCnt) = cell.row * Grid.colCnt + cell.col
  BY DEF CellToCellOffset
<1> DEFINE x == CellToCellOffset(cell, Grid.colCnt)
<1>4. x \in Int
  BY <1>2, <1>3
<1>5. DateOf(cell) = Grid.start + CellOffsetToDayOffset(x, Grid.start)
  BY DEF DateOf, CellToDate
<1> HIDE DEF x
<1>6. DateOf(cell) \in Int
  <2>1. CellOffsetToDayOffset(x, Grid.start) \in Int
    BY <1>1, <1>4, OffsetsAreInts, Zenon
  <2>2. QED
    BY <1>1, <1>5, <2>1
<1>7. QED
  BY <1>4, <1>6 DEF x

\* From one cell to another it is a number of days.
LEMMA DeltaIsDays ==
  ASSUME PageOK, NEW cell \in Cells, NEW origCell \in Cells
  PROVE  DayDelta(cell, origCell) \in Int
<1>1. \A c \in Cells : DateOf(c) \in Int
  BY CellHasDate
<1>2. [cell EXCEPT !.row = 0] \in Cells /\ [origCell EXCEPT !.row = 0] \in Cells
  BY DEF Cells
<1> HIDE DEF Cells
<1>3. QED
  BY <1>1, <1>2 DEF DayDelta

\* Math.round gives a number.
LEMMA RoundIsInt ==
  ASSUME NEW n \in Int, NEW d \in Nat, d > 0
  PROVE  JsRound(n, d) \in Int
<1>1. 2 * n + d \in Int /\ 2 * d \in Nat /\ 2 * d > 0
  OBVIOUS
<1>2. QED
  BY <1>1, Parts DEF JsRound

\* The least and the greatest of two.
LEMMA LeastOf ==
  ASSUME NEW x \in Int, NEW y \in Int
  PROVE  /\ Min({x, y}) \in {x, y} /\ Min({x, y}) <= x /\ Min({x, y}) <= y
         /\ Max({x, y}) \in {x, y} /\ Max({x, y}) >= x /\ Max({x, y}) >= y
<1>1. \E m \in {x, y} : \A k \in {x, y} : m <= k
  BY x <= y \/ y <= x
<1>2. \E m \in {x, y} : \A k \in {x, y} : m >= k
  BY x <= y \/ y <= x
<1>3. Min({x, y}) \in {x, y} /\ \A k \in {x, y} : Min({x, y}) <= k
  BY <1>1, Zenon DEF Min
<1>4. Max({x, y}) \in {x, y} /\ \A k \in {x, y} : Max({x, y}) >= k
  BY <1>2, Zenon DEF Max
<1>5. QED
  BY <1>3, <1>4

-----------------------------------------------------------------------------
(* What the HoverListener's callback does                                   *)

\* What the callback closes over is of the kind its name tells.
LEMMA KnowsIs ==
  ASSUME HoverOK
  PROVE  /\ hover.bound \subseteq {"drag", "mousemove"} /\ hover.type \in {"drag", "mousemove"}
         /\ hover.alive \in BOOLEAN /\ hover.first \in Cells /\ hover.cell \in Cells
         /\ hover.g \in {Nothing} \cup DragKnows \cup ResizeKnows
         /\ hover.g.kind \in {"monthDrag", "agendaDrag"} => hover.g \in DragKnows
         /\ hover.g.kind = "dayResize" => hover.g \in ResizeKnows
         /\ hover.g = Nothing \/ hover.g.kind \in {"monthDrag", "agendaDrag", "dayResize"}
         /\ hover.bound # {} => hover.g # Nothing
<1>1. hover \in Hovers
  BY DEF HoverOK
<1>2. hover.bound # {} => hover.g # Nothing
  BY DEF HoverOK, NoHover, Nothing
<1>3. /\ hover.bound \subseteq {"drag", "mousemove"} /\ hover.type \in {"drag", "mousemove"}
      /\ hover.alive \in BOOLEAN /\ hover.first \in Cells /\ hover.cell \in Cells
      /\ hover.g \in {Nothing} \cup DragKnows \cup ResizeKnows
  BY <1>1 DEF Hovers
<1>4. \A g \in DragKnows : g.kind \in {"monthDrag", "agendaDrag"}
  BY DEF DragKnows
<1>5. \A g \in ResizeKnows : g.kind = "dayResize"
  BY DEF ResizeKnows
<1>6. Nothing.kind = "none"
  BY DEF Nothing
<1>7. QED
  BY <1>2, <1>3, <1>4, <1>5, <1>6

\* The event a callback closes over is one.
LEMMA EventOfIs ==
  ASSUME EventsOK, HoverOK, hover.g # Nothing
  PROVE  /\ IsEvent(EventOf(hover.g)) /\ IsEvent(hover.g.event) /\ hover.g.id \in Own
         /\ hover.g.kept \in BOOLEAN /\ hover.g.event \in EventDate
         /\ hover.g.kept => hover.g.id \in DOMAIN events /\ EventOf(hover.g) = events[hover.g.id]
<1>1. IsEvent(hover.g.event) /\ (hover.g.kept => hover.g.id \in DOMAIN events)
  BY DEF HoverOK
<1>2. hover.g \in DragKnows \cup ResizeKnows
  BY KnowsIs
<1>3. hover.g.id \in Own /\ hover.g.kept \in BOOLEAN /\ hover.g.event \in EventDate
  BY <1>2 DEF DragKnows, ResizeKnows
<1>4. CASE hover.g.kept
  BY <1>1, <1>3, <1>4 DEF EventOf, EventsOK
<1>5. CASE ~ hover.g.kept
  BY <1>1, <1>3, <1>5 DEF EventOf
<1>6. QED
  BY <1>3, <1>4, <1>5

\* Only one range is marked.
LEMMA MarkedIsOne ==
  ASSUME NEW e, NEW d
  PROVE  \A m, n \in Marked(e, d) : m = n
BY DEF Marked

\* h closes over the same event as hover.
Follows(h) ==
  /\ h.kind = hover.g.kind /\ h.id = hover.g.id
  /\ h.event = hover.g.event /\ h.kept = hover.g.kept

\* A drag of day cells marks the days, and nothing else of the screen changes.
LEMMA DragTells ==
  ASSUME PageOK, EventsOK, HoverOK, hover.g.kind \in {"monthDrag", "agendaDrag"},
         NEW cell \in Cells, NEW told, told = Change(cell)
  PROVE  /\ told.g \in DragKnows /\ Follows(told.g)
         /\ told.screen = Screen(told.screen.overlay, hidden, helpers)
         /\ told.throws = ~ hover.alive
         /\ \/ told.screen.overlay = {}
            \/ /\ told.screen.overlay = Marked(EventOf(hover.g), told.g.dayDelta)
               /\ hover.g.kind = "agendaDrag" /\ hover.alive => told.g.allDay
<1>1. hover.g \in DragKnows /\ hover.first \in Cells
  BY KnowsIs
<1> DEFINE g == hover.g
           d == DayDelta(cell, hover.first)
<1>2. d \in Int
  BY <1>1, DeltaIsDays
<1>3. CASE hover.g.kind = "monthDrag"
  <2> DEFINE delta == IF cell = NoCell THEN 0 ELSE d
             revert == cell = NoCell \/ cell = hover.first
             over == IF cell = NoCell THEN {} ELSE Marked(EventOf(g), delta)
  <2>1. told = Told([g EXCEPT !.revert = revert, !.dayDelta = delta],
                    [Unseen EXCEPT !.overlay = over], ~ hover.alive)
    BY <1>3 DEF Change, MonthDragHover
  <2>2. delta \in Int /\ revert \in BOOLEAN
    BY <1>2
  <2>3. over = {} \/ over = Marked(EventOf(g), delta)
    OBVIOUS
  <2> HIDE DEF delta, revert, over
  <2>4. [g EXCEPT !.revert = revert, !.dayDelta = delta] \in DragKnows
    BY <1>1, <2>2 DEF DragKnows
  <2>5. Follows([g EXCEPT !.revert = revert, !.dayDelta = delta])
    BY <1>1 DEF Follows, DragKnows
  <2>6. [g EXCEPT !.revert = revert, !.dayDelta = delta].dayDelta = delta
    BY <1>1 DEF DragKnows
  <2>7. [Unseen EXCEPT !.overlay = over] = Screen(over, hidden, helpers)
    BY DEF Unseen, Screen
  <2> HIDE DEF g
  <2>8. /\ told.g = [g EXCEPT !.revert = revert, !.dayDelta = delta]
        /\ told.screen = Screen(over, hidden, helpers) /\ told.throws = ~ hover.alive
    BY <2>1, <2>7 DEF Told
  <2>9. told.screen.overlay = over
    BY <2>8 DEF Screen
  <2>10. QED
    BY <1>3, <2>3, <2>4, <2>5, <2>6, <2>8, <2>9 DEF g
<1>4. CASE hover.g.kind = "agendaDrag"
  <2> DEFINE inside == cell # NoCell
             slots  == inside /\ cell.row > 0
             delta  == IF inside THEN d ELSE g.dayDelta
             over   == IF inside /\ ~ slots THEN Marked(EventOf(g), delta) ELSE {}
             became == IF slots THEN g.allDay /\ ~ g.isStart ELSE TRUE
             stuck  == ~ hover.alive /\ became # g.allDay
             allDay == IF stuck THEN g.allDay ELSE became
             revert == IF stuck THEN g.revert /\ ~ inside
                       ELSE ~ inside \/ (slots /\ ~ g.isStart) \/ (became /\ delta = 0)
  <2>1. told = Told([g EXCEPT !.dayDelta = delta, !.allDay = allDay, !.revert = revert],
                    [Unseen EXCEPT !.overlay = over], ~ hover.alive)
    BY <1>4 DEF Change, AgendaDragHover
  <2>2. delta \in Int
    BY <1>1, <1>2 DEF DragKnows
  <2>3. revert \in BOOLEAN /\ allDay \in BOOLEAN
    BY <1>1 DEF DragKnows
  <2>4. over = {} \/ (over = Marked(EventOf(g), delta) /\ (hover.alive => allDay))
    OBVIOUS
  <2> HIDE DEF delta, became, stuck, allDay, revert, over
  <2> DEFINE h == [g EXCEPT !.dayDelta = delta, !.allDay = allDay, !.revert = revert]
  <2>5. h \in DragKnows
    BY <1>1, <2>2, <2>3 DEF DragKnows
  <2>6. Follows(h) /\ h.dayDelta = delta /\ h.allDay = allDay
    BY <1>1 DEF Follows, DragKnows
  <2>7. [Unseen EXCEPT !.overlay = over] = Screen(over, hidden, helpers)
    BY DEF Unseen, Screen
  <2> HIDE DEF g, h
  <2>8. /\ told.g = h
        /\ told.screen = Screen(over, hidden, helpers) /\ told.throws = ~ hover.alive
    BY <2>1, <2>7 DEF Told, h
  <2>9. told.screen.overlay = over
    BY <2>8 DEF Screen
  <2>10. QED
    BY <2>4, <2>5, <2>6, <2>8, <2>9 DEF g
<1>5. QED
  BY <1>3, <1>4

\* The days a resize of day cells adds, for the cell x that the edge comes to.
DaysTo(x) ==
  CellOffsetToDayOffset(x, Grid.start)
    - CellOffsetToDayOffset(CellToCellOffset(hover.first, Grid.colCnt), Grid.start)

\* A resize of day cells marks the days and swaps the element for its helper.
LEMMA ResizeTells ==
  ASSUME PageOK, EventsOK, HoverOK, hover.g.kind = "dayResize",
         NEW cell \in Cells, NEW told, told = Change(cell)
  PROVE  /\ told.g \in ResizeKnows /\ Follows(told.g) /\ told.g.least = hover.g.least
         /\ told.screen = Screen(told.screen.overlay, told.screen.hidden, told.screen.helpers)
         /\ told.screen.hidden \subseteq hidden \cup {hover.g.id}
         /\ told.screen.helpers \subseteq helpers \cup {hover.g.id}
         /\ \/ told.screen.overlay = overlay /\ (IsDrawn(hover.g.id) => told.g = hover.g)
            \/ told.screen.overlay =
                 {<<EventOf(hover.g).start, AddDays(GetEventEnd(EventOf(hover.g)), told.g.dayDelta)>>}
         /\ \/ told.g.dayDelta = hover.g.dayDelta
            \/ \E x \in Int : x >= hover.g.least /\ told.g.dayDelta = DaysTo(x)
         /\ IsDrawn(hover.g.id) =>
              \/ told.g = hover.g /\ told.screen = Unseen
              \/ /\ told.g.helper = (told.g.dayDelta # 0)
                 /\ told.g.helper =>
                      /\ told.screen.hidden = hidden \cup {hover.g.id}
                      /\ told.screen.helpers = helpers \cup {hover.g.id}
                 /\ ~ told.g.helper =>
                      /\ told.screen.helpers = helpers \ {hover.g.id}
                      /\ told.screen.hidden =
                           IF hover.g.helper THEN hidden \ {hover.g.id} ELSE hidden
         /\ ~ IsDrawn(hover.g.id) => told.screen.hidden = hidden
         /\ told.g = hover.g \/ (told.g.dayDelta # 0 => told.g.helper)
<1>1. hover.g \in ResizeKnows /\ hover.first \in Cells
  BY KnowsIs
<1> DEFINE g == hover.g
           x == Max({CellToCellOffset(cell, Grid.colCnt), g.least})
           delta == DaysTo(x)
           throws == ~ IsDrawn(g.id) /\ (delta # 0 \/ g.helper)
           helper == delta # 0 \/ (throws /\ g.helper)
           h == [g EXCEPT !.dayDelta = delta, !.helper = helper]
           help == IF delta # 0 THEN helpers \cup {g.id}
                   ELSE IF throws THEN helpers ELSE helpers \ {g.id}
           hid == IF delta # 0 THEN hidden \cup {g.id}
                  ELSE IF g.helper THEN hidden \ {g.id} ELSE hidden
           mark == {<<EventOf(g).start, AddDays(GetEventEnd(EventOf(g)), delta)>>}
<1>2. told = IF cell = NoCell THEN Told(g, Unseen, FALSE)
             ELSE IF throws THEN Told(h, Screen(overlay, hidden, help), TRUE)
             ELSE Told(h, Screen(mark, hid, help), FALSE)
  BY DEF Change, ResizeHover, DaysTo
<1>3. x \in Int /\ x >= g.least /\ delta \in Int
  <2>1. CellToCellOffset(cell, Grid.colCnt) \in Int /\ g.least \in Int
    BY <1>1, CellHasDate DEF ResizeKnows
  <2>2. x \in Int /\ x >= g.least
    BY <2>1, LeastOf
  <2> HIDE DEF x
  <2>3. CellToCellOffset(hover.first, Grid.colCnt) \in Int /\ Grid.start \in Int
    BY <1>1, CellHasDate, PageGrid
  <2>4. /\ CellOffsetToDayOffset(x, Grid.start) \in Int
        /\ CellOffsetToDayOffset(CellToCellOffset(hover.first, Grid.colCnt), Grid.start) \in Int
    BY <2>2, <2>3, OffsetsAreInts
  <2>5. QED
    BY <2>2, <2>4 DEF DaysTo
<1>4. g.helper \in BOOLEAN /\ throws \in BOOLEAN /\ helper \in BOOLEAN
  BY <1>1 DEF ResizeKnows
<1>5. h \in ResizeKnows /\ Follows(h) /\ h.least = g.least /\ h.dayDelta = delta /\ h.helper = helper
  <2> HIDE DEF delta, throws, x
  <2>1. QED
    BY <1>1, <1>3, <1>4 DEF ResizeKnows, Follows
<1>6. CASE cell = NoCell
  <2>1. told.g = g /\ told.screen = Unseen
    BY <1>2, <1>6 DEF Told
  <2>2. /\ told.screen.overlay = overlay /\ told.screen.hidden = hidden
        /\ told.screen.helpers = helpers /\ told.screen = Screen(overlay, hidden, helpers)
    BY <2>1 DEF Unseen, Screen
  <2>3. Follows(g)
    BY DEF Follows
  <2>4. QED
    BY <1>1, <2>1, <2>2, <2>3
<1>7. CASE cell # NoCell /\ throws
  <2>1. told.g = h /\ told.screen = Screen(overlay, hidden, help)
    BY <1>2, <1>7 DEF Told
  <2>2. /\ told.screen.overlay = overlay /\ told.screen.hidden = hidden
        /\ told.screen.helpers = help
    BY <2>1 DEF Screen
  <2>3. ~ IsDrawn(g.id) /\ help \subseteq helpers \cup {g.id}
    BY <1>7
  <2>4. told.g.dayDelta = DaysTo(x) /\ (told.g.dayDelta # 0 => told.g.helper)
    BY <1>5, <2>1
  <2> HIDE DEF x, delta, throws, helper, h, help
  <2>5. QED
    BY <1>3, <1>5, <2>1, <2>2, <2>3, <2>4
<1>8. CASE cell # NoCell /\ ~ throws
  <2>1. told.g = h /\ told.screen = Screen(mark, hid, help)
    BY <1>2, <1>8 DEF Told
  <2>2. /\ told.screen.overlay = mark /\ told.screen.hidden = hid
        /\ told.screen.helpers = help
    BY <2>1 DEF Screen
  <2>3. helper = (delta # 0) /\ help = (IF helper THEN helpers \cup {g.id} ELSE helpers \ {g.id})
    BY <1>8
  <2>4. hid = IF helper THEN hidden \cup {g.id}
              ELSE IF g.helper THEN hidden \ {g.id} ELSE hidden
    BY <2>3
  <2>5. hid \subseteq hidden \cup {g.id} /\ help \subseteq helpers \cup {g.id}
    BY <2>3, <2>4
  <2>6. told.g.dayDelta = DaysTo(x) /\ told.g.dayDelta = delta /\ told.g.helper = helper
    BY <1>5, <2>1
  <2>7. told.screen.overlay =
          {<<EventOf(g).start, AddDays(GetEventEnd(EventOf(g)), told.g.dayDelta)>>}
    BY <2>2, <2>6
  <2> HIDE DEF x, delta, throws, helper, h, help, hid, mark
  <2>8. /\ told.g \in ResizeKnows /\ Follows(told.g) /\ told.g.least = g.least
        /\ told.screen = Screen(told.screen.overlay, told.screen.hidden, told.screen.helpers)
    BY <1>5, <2>1, <2>2
  <2>9. /\ told.g.helper = (told.g.dayDelta # 0)
        /\ told.g.helper =>
             /\ told.screen.hidden = hidden \cup {g.id}
             /\ told.screen.helpers = helpers \cup {g.id}
        /\ ~ told.g.helper =>
             /\ told.screen.helpers = helpers \ {g.id}
             /\ told.screen.hidden = IF g.helper THEN hidden \ {g.id} ELSE hidden
    BY <2>2, <2>3, <2>4, <2>6
  <2>10. \E y \in Int : y >= g.least /\ told.g.dayDelta = DaysTo(y)
    BY <1>3, <2>6
  <2>11. ~ IsDrawn(g.id) => hid = hidden
    BY <1>8, <2>4 DEF throws, helper
  <2>12. QED
    BY <2>2, <2>5, <2>7, <2>8, <2>9, <2>10, <2>11
<1>9. QED
  BY <1>4, <1>6, <1>7, <1>8

\* The HoverListener hears nothing new.
HeardNothing(heard) ==
  heard.hover = hover /\ heard.screen = Unseen /\ heard.throws = FALSE

\* It hears that the mouse is in another cell, and its callback has run.
HeardTold(heard, type, cell, told) ==
  /\ type \in hover.bound /\ cell # hover.cell /\ hover.g # Nothing
  /\ heard.hover.g = told.g /\ heard.hover.cell \in Cells
  /\ heard.hover.bound = hover.bound /\ heard.hover.type = hover.type
  /\ heard.hover.alive = hover.alive /\ heard.hover.first = hover.first
  /\ told.g \in DragKnows \cup ResizeKnows => heard.hover \in Hovers
  /\ heard.screen = told.screen /\ heard.throws = told.throws

\* mouse() does nothing for a listener it does not have, else it may tell a change.
LEMMA HoverCases ==
  ASSUME HoverOK, NEW type, NEW cell \in Cells
  PROVE  \/ HeardNothing(Hover(type, cell)) /\ (type \notin hover.bound \/ cell = hover.cell)
         \/ HeardTold(Hover(type, cell), type, cell, Change(cell))
<1> DEFINE told == Change(cell)
           heard == Hover(type, cell)
<1>1. CASE type \notin hover.bound \/ cell = hover.cell
  BY <1>1 DEF Hover, HeardNothing
<1>2. CASE ~ (type \notin hover.bound \/ cell = hover.cell)
  <2> DEFINE next == IF told.throws THEN hover.cell ELSE cell
             h == [hover EXCEPT !.g = told.g, !.cell = next]
  <2>1. heard = [hover |-> h, screen |-> told.screen, throws |-> told.throws]
    BY <1>2 DEF Hover
  <2>2. hover \in Hovers /\ hover.cell \in Cells /\ hover.g # Nothing
    BY <1>2, KnowsIs DEF HoverOK
  <2>3. next \in Cells
    BY <2>2
  <2> HIDE DEF next
  <2>4. /\ h.g = told.g /\ h.cell \in Cells
        /\ h.bound = hover.bound /\ h.type = hover.type
        /\ h.alive = hover.alive /\ h.first = hover.first
        /\ told.g \in DragKnows \cup ResizeKnows => h \in Hovers
    BY <2>2, <2>3 DEF Hovers
  <2> HIDE DEF h, told, heard
  <2>5. HeardTold(heard, type, cell, told)
    BY <1>2, <2>1, <2>2, <2>4 DEF HeardTold
  <2>6. QED
    BY <2>5 DEF heard, told
<1>3. QED
  BY <1>1, <1>2

\* Whatever it does, the HoverListener is what it was but for what it closes over.
LEMMA HoverHears ==
  ASSUME PageOK, EventsOK, HoverOK, ScreenOK,
         NEW type, NEW cell \in Cells, NEW heard, heard = Hover(type, cell)
  PROVE  /\ heard.hover \in Hovers
         /\ heard.hover.bound = hover.bound /\ heard.hover.type = hover.type
         /\ heard.hover.alive = hover.alive /\ heard.hover.first = hover.first
         /\ hover.g = Nothing => heard.hover = hover
         /\ hover.g # Nothing => heard.hover.g # Nothing /\ Follows(heard.hover.g)
         /\ heard.screen = Screen(heard.screen.overlay, heard.screen.hidden, heard.screen.helpers)
         /\ \A m, n \in heard.screen.overlay : m = n
         /\ heard.screen.hidden \subseteq Id /\ heard.screen.helpers \subseteq Own
<1> DEFINE told == Change(cell)
<1>0. Own \subseteq Id
  BY GestureAssumption
<1>1. CASE HeardNothing(heard)
  <2>1. Follows(hover.g)
    BY DEF Follows
  <2>2. Unseen = Screen(overlay, hidden, helpers) /\ Unseen.overlay = overlay
        /\ Unseen.hidden = hidden /\ Unseen.helpers = helpers
    BY DEF Unseen, Screen
  <2>3. hover \in Hovers
    BY DEF HoverOK
  <2>4. /\ \A m, n \in overlay : m = n
        /\ hidden \subseteq Id /\ helpers \subseteq Own
    BY DEF ScreenOK
  <2> HIDE DEF told
  <2>5. heard.hover = hover /\ heard.screen = Unseen
    BY <1>1 DEF HeardNothing
  <2>6. QED
    BY <2>1, <2>2, <2>3, <2>4, <2>5
<1>2. CASE HeardTold(heard, type, cell, told)
  <2>0. /\ hover.g # Nothing /\ heard.hover.g = told.g /\ heard.hover.cell \in Cells
        /\ heard.hover.bound = hover.bound /\ heard.hover.type = hover.type
        /\ heard.hover.alive = hover.alive /\ heard.hover.first = hover.first
        /\ told.g \in DragKnows \cup ResizeKnows => heard.hover \in Hovers
        /\ heard.screen = told.screen /\ heard.throws = told.throws
    BY <1>2 DEF HeardTold
  <2>1. hover.g.id \in Own /\ hover.g.kind \in {"monthDrag", "agendaDrag", "dayResize"}
    BY <2>0, KnowsIs, EventOfIs
  <2>2. told.g \in DragKnows \cup ResizeKnows => told.g # Nothing
    <3> HIDE DEF told
    <3>1. QED
      BY DEF Nothing, DragKnows, ResizeKnows
  <2>3. CASE hover.g.kind \in {"monthDrag", "agendaDrag"}
    <3>1. /\ told.g \in DragKnows /\ Follows(told.g)
          /\ told.screen = Screen(told.screen.overlay, hidden, helpers)
          /\ told.screen.overlay = {}
             \/ told.screen.overlay = Marked(EventOf(hover.g), told.g.dayDelta)
      BY <2>3, DragTells
    <3> HIDE DEF told
    <3>2. \A m, n \in told.screen.overlay : m = n
      BY <3>1, MarkedIsOne
    <3>3. told.screen.hidden = hidden /\ told.screen.helpers = helpers
      BY <3>1 DEF Screen
    <3>4. hidden \subseteq Id /\ helpers \subseteq Own
      BY DEF ScreenOK
    <3>5. heard.hover.g # Nothing /\ Follows(heard.hover.g)
      BY <2>0, <2>2, <3>1
    <3>6. heard.screen = told.screen /\ heard.hover \in Hovers /\ hover.g # Nothing
      BY <2>0, <3>1
    <3>7. heard.screen = Screen(heard.screen.overlay, heard.screen.hidden, heard.screen.helpers)
      BY <3>1, <3>3, <3>6
    <3>8. QED
      BY <2>0, <3>2, <3>3, <3>4, <3>5, <3>6, <3>7
  <2>4. CASE hover.g.kind = "dayResize"
    <3>1. /\ told.g \in ResizeKnows /\ Follows(told.g)
          /\ told.screen = Screen(told.screen.overlay, told.screen.hidden, told.screen.helpers)
          /\ told.screen.hidden \subseteq hidden \cup {hover.g.id}
          /\ told.screen.helpers \subseteq helpers \cup {hover.g.id}
          /\ \/ told.screen.overlay = overlay
             \/ told.screen.overlay =
                 {<<EventOf(hover.g).start, AddDays(GetEventEnd(EventOf(hover.g)), told.g.dayDelta)>>}
      BY <2>4, ResizeTells
    <3> HIDE DEF told
    <3>2. \A m, n \in told.screen.overlay : m = n
      BY <3>1 DEF ScreenOK
    <3>3. told.screen.hidden \subseteq Id /\ told.screen.helpers \subseteq Own
      BY <1>0, <2>1, <3>1 DEF ScreenOK
    <3>4. heard.hover.g # Nothing /\ Follows(heard.hover.g)
      BY <2>0, <2>2, <3>1
    <3>5. heard.screen = told.screen /\ heard.hover \in Hovers /\ hover.g # Nothing
      BY <2>0, <3>1
    <3>6. heard.screen = Screen(heard.screen.overlay, heard.screen.hidden, heard.screen.helpers)
      BY <3>1, <3>5
    <3>7. QED
      BY <2>0, <3>2, <3>3, <3>4, <3>5, <3>6
  <2>5. QED
    BY <2>1, <2>3, <2>4
<1>3. QED
  <2>1. HeardNothing(heard) \/ HeardTold(heard, type, cell, told)
    BY HoverCases
  <2>2. QED
    BY <1>1, <1>2, <2>1

-----------------------------------------------------------------------------
(* Drops                                                                    *)

\* A date an event can be dropped on.
IsTarget(m) == m \in Moment /\ IsNormal(m, ~ m.timed)

KeepsLength(e, f) ==
  IF f.allDay = e.allDay THEN GetEventEnd(f).at - f.start.at = GetEventEnd(e).at - e.start.at
  ELSE f.end = <<>>

Lasts(e) == e.start.at < GetEventEnd(e).at

\* One event has changed.
Moved(id) ==
  /\ DOMAIN events' = DOMAIN events /\ grabs' = 0
  /\ \A i \in DOMAIN events : IsEvent(events'[i]) /\ (i # id => events'[i] = events[i])

\* mutateEvent changes one event.
LEMMA MutateMoves ==
  ASSUME EventsOK, NEW id, NEW changes, Mutate(id, changes),
         id \in DOMAIN events => IsEvent(MutateEvents(events[id], changes))
  PROVE  /\ Moved(id) /\ EventsOK'
         /\ id \in DOMAIN events => events'[id] = MutateEvents(events[id], changes)
<1>1. /\ grabs' = 0
      /\ events' = [i \in DOMAIN events |->
                      IF i = id THEN MutateEvents(events[i], changes) ELSE events[i]]
  BY DEF Mutate
<1>2. /\ DOMAIN events \subseteq Id
      /\ \A i \in DOMAIN events : IsEvent(events[i])
  BY DEF EventsOK
<1>3. DOMAIN events' = DOMAIN events
  BY <1>1
<1>4. \A i \in DOMAIN events : i # id => events'[i] = events[i]
  BY <1>1
<1>5. id \in DOMAIN events => events'[id] = MutateEvents(events[id], changes)
  BY <1>1
<1>6. \A i \in DOMAIN events : IsEvent(events'[i])
  BY <1>2, <1>4, <1>5
<1>7. EventsOK'
  BY <1>2, <1>3, <1>6 DEF EventsOK
<1>8. QED
  BY <1>1, <1>3, <1>4, <1>5, <1>6, <1>7 DEF Moved

\* eventDrop changes one event. Reckoned from its own dates, that is put on its target and
\* lasts as long as before.
LEMMA DropMoves ==
  ASSUME EventsOK, NEW e, IsEvent(e), NEW id, NEW m, IsTarget(m), EventDrop(e, id, m)
  PROVE  /\ Moved(id) /\ EventsOK'
         /\ id \in DOMAIN events => events'[id].allDay = ~ m.timed
         /\ id \in DOMAIN events /\ e = events[id] =>
              /\ events'[id].start.at = m.at
              /\ KeepsLength(events[id], events'[id])
              /\ Lasts(events[id]) => Lasts(events'[id])
<1> DEFINE ch == Changes(e, <<m>>, <<>>)
           b == events[id]
           f == MutateEvents(b, ch)
           a == ~ m.timed
<1>1. m \in Moment /\ IsNormal(m, a) /\ (id \in DOMAIN events => IsEvent(b))
  BY DEF EventsOK, IsTarget
<1>2. a \in BOOLEAN /\ m.timed = ~ a
  BY <1>1, MomentIs
<1>3. ASSUME id \in DOMAIN events
      PROVE  /\ IsEvent(f) /\ f.allDay = a
             /\ a # e.allDay => f.end = <<>>
             /\ b = e => /\ f.start.at = m.at
                         /\ a = e.allDay =>
                              GetEventEnd(f).at - f.start.at = GetEventEnd(e).at - e.start.at
  <2>1. IsEvent(b)
    BY <1>1, <1>3
  <2> HIDE DEF a, b
  <2>2. QED
    BY <1>1, <1>2, <2>1, DropIs
<1>4. /\ Moved(id) /\ EventsOK'
      /\ id \in DOMAIN events => events'[id] = f
  <2>1. Mutate(id, ch) /\ (id \in DOMAIN events => IsEvent(MutateEvents(events[id], ch)))
    BY <1>3 DEF EventDrop
  <2> HIDE DEF ch
  <2>2. QED
    BY <2>1, MutateMoves
<1>5. ASSUME id \in DOMAIN events, b = e PROVE KeepsLength(b, f)
  BY <1>3, <1>5 DEF KeepsLength
<1>6. ASSUME id \in DOMAIN events, b = e, Lasts(b) PROVE Lasts(f)
  <2>1. /\ f.start \in Moment /\ f.allDay \in BOOLEAN /\ IsNormal(f.start, f.allDay)
        /\ f.start.at \in Int /\ GetEventEnd(f).at \in Int
        /\ b.start.at \in Int /\ GetEventEnd(b).at \in Int
    BY <1>1, <1>3, <1>6, EventIs, EventEndIs, MomentIs
  <2>2. CASE a = e.allDay
    <3>1. GetEventEnd(f).at - f.start.at = GetEventEnd(b).at - b.start.at
      BY <1>3, <1>6, <2>2
    <3> HIDE DEF b, f
    <3>2. QED
      BY <1>6, <2>1, <3>1 DEF Lasts
  <2>3. CASE a # e.allDay
    <3>1. GetEventEnd(f) = GetDefaultEventEnd(f.allDay, f.start)
      BY <1>3, <1>6, <2>3 DEF GetEventEnd
    <3> HIDE DEF f
    <3>2. QED
      BY <2>1, <3>1, DefaultEndIs DEF Lasts
  <2>4. QED
    BY <2>2, <2>3
<1>7. QED
  BY <1>3, <1>4, <1>5, <1>6

\* Where a timed event of the agenda is dropped.
LEMMA SlotTarget ==
  ASSUME EventsOK, NEW g \in SlotDrags, g.id \in DOMAIN events, ~ events[g.id].allDay
  PROVE  /\ IsTarget(DraggedStart(g)) /\ DraggedStart(g).timed = ~ g.allDay
         /\ g.allDay => DraggedEnd(g).at = DraggedStart(g).at + DefaultAllDayEventDuration
<1> DEFINE start == events[g.id].start
<1>1. start \in Moment /\ start.timed = TRUE
  <2>1. IsEvent(events[g.id])
    BY DEF EventsOK
  <2>2. start \in Moment /\ IsNormal(start, events[g.id].allDay)
    BY <2>1, EventIs
  <2>3. start.timed
    BY <2>2 DEF IsNormal
  <2>4. QED
    BY <2>2, <2>3, MomentIs
<1>2. g.allDay \in BOOLEAN /\ g.dayDelta \in Int /\ g.snapDelta \in Int
  BY DEF SlotDrags
<1>3. CASE g.allDay = TRUE
  <2> DEFINE s == StripTime(start)
  <2>1. DraggedStart(g) = AddDays(s, g.dayDelta)
    BY <1>3 DEF DraggedStart
  <2>2. s \in Moment /\ s.timed = FALSE /\ IsNormal(s, TRUE)
    BY <1>1, StripTimeIs, MomentIs
  <2> HIDE DEF s
  <2> DEFINE d == AddDays(s, g.dayDelta)
  <2>3. d \in Moment /\ d.timed = FALSE /\ IsNormal(d, TRUE)
    BY <1>2, <2>2, AddDaysIs
  <2> HIDE DEF d
  <2>4. (~ d.timed) = TRUE
    BY <2>3
  <2>5. IsTarget(d)
    BY <2>3, <2>4, Zenon DEF IsTarget
  <2>6. DefaultAllDayEventDuration \in Int
    BY DefaultDays, WholeDays
  <2>7. DraggedEnd(g).at = d.at + DefaultAllDayEventDuration
    <3>1. DraggedEnd(g) = Add(d, DefaultAllDayEventDuration)
      BY <1>3, <2>1 DEF DraggedEnd, d
    <3>2. QED
      BY <2>3, <2>6, <3>1, AddIs
  <2>8. QED
    BY <1>3, <2>1, <2>3, <2>5, <2>7 DEF d
<1>4. CASE g.allDay = FALSE
  <2> DEFINE s == Add(start, g.snapDelta)
  <2>1. DraggedStart(g) = AddDays(s, g.dayDelta)
    BY <1>4 DEF DraggedStart
  <2>2. s \in Moment /\ s.timed = TRUE
    BY <1>1, <1>2, AddIs
  <2> HIDE DEF s
  <2> DEFINE d == AddDays(s, g.dayDelta)
  <2>3. d \in Moment /\ d.timed = TRUE
    BY <1>2, <2>2, AddDaysIs
  <2> HIDE DEF d
  <2>4. IsTarget(d)
    BY <2>3 DEF IsTarget, IsNormal
  <2>5. QED
    BY <1>4, <2>1, <2>3, <2>4 DEF d
<1>5. QED
  BY <1>2, <1>3, <1>4

\* Where an event of day cells is dropped.
LEMMA DayTarget ==
  ASSUME NEW g, IsEvent(EventOf(g)), g.dayDelta \in Int, NEW top \in Int
  PROVE  /\ IsTarget(DroppedStart(g, top))
         /\ IsMonth \/ g.allDay =>
              /\ DroppedStart(g, top).at = EventOf(g).start.at + g.dayDelta * TicksPerDay
              /\ DroppedStart(g, top).timed = ~ EventOf(g).allDay
<1> DEFINE e == EventOf(g)
           start == AddDays(e.start, g.dayDelta)
<1>1. e.start \in Moment /\ e.allDay \in BOOLEAN /\ IsNormal(e.start, e.allDay)
  BY EventIs
<1>2. /\ start \in Moment /\ start.at = e.start.at + g.dayDelta * TicksPerDay
      /\ start.timed = e.start.timed /\ IsNormal(start, e.allDay)
  BY <1>1, AddDaysIs
<1>3. e.start.timed = ~ e.allDay
  <2>1. CASE e.allDay = TRUE
    <3>1. ~ e.start.timed
      BY <1>1, <2>1, NormalDay
    <3>2. QED
      BY <1>1, <2>1, <3>1, MomentIs
  <2>2. CASE e.allDay = FALSE
    BY <1>1, <2>2, MomentIs DEF IsNormal
  <2>3. QED
    BY <1>1, <2>1, <2>2
<1>4. IsTarget(start)
  <2>1. (~ start.timed) = e.allDay
    BY <1>1, <1>2, <1>3
  <2> HIDE DEF start
  <2>2. QED
    BY <1>2, <2>1, Zenon DEF IsTarget
<1>5. CASE IsMonth \/ g.allDay
  <2>1. DroppedStart(g, top) = start
    BY <1>5 DEF DroppedStart
  <2> HIDE DEF start
  <2>2. QED
    BY <1>2, <1>3, <1>4, <2>1
<1>6. CASE ~ (IsMonth \/ g.allDay)
  <2> DEFINE time == MinTime + JsRound(top - RowPx, RowPx)
             m == SetTime(start, time)
  <2>1. DroppedStart(g, top) = RezoneDate(m)
    BY <1>6 DEF DroppedStart
  <2>2. time \in Int
    <3>1. MinTime \in Int
      BY SlotAssumption
    <3>2. RowPx \in Nat /\ RowPx > 0 /\ top - RowPx \in Int
      BY GestureAssumption
    <3>3. JsRound(top - RowPx, RowPx) \in Int
      BY <3>2, RoundIsInt
    <3>4. QED
      BY <3>1, <3>3
  <2> HIDE DEF time
  <2>3. DayOf(start) \in Int
    <3> HIDE DEF start
    <3>1. start.at \in Int
      BY <1>2, MomentIs
    <3>2. QED
      BY <3>1, Ticks DEF DayOf
  <2> DEFINE at == DayOf(start) * TicksPerDay + time
  <2>4. at \in Int
    BY <2>2, <2>3, WholeDays
  <2>5. m.at = at
    <3> HIDE DEF start, at
    <3>1. QED
      BY <1>2 DEF SetTime, Moment, at
  <2>6. RezoneDate(m) = [at |-> at, timed |-> TRUE, zone |-> <<>>]
    BY <2>5 DEF RezoneDate
  <2> HIDE DEF at, m
  <2>7. RezoneDate(m) \in Moment /\ RezoneDate(m).timed = TRUE
    BY <2>4, <2>6, Unzoned DEF Moment
  <2>8. IsTarget(RezoneDate(m))
    BY <2>7 DEF IsTarget, IsNormal
  <2>9. QED
    BY <1>6, <2>1, <2>8
<1>7. QED
  BY <1>5, <1>6

-----------------------------------------------------------------------------
(* Every action keeps the invariant                                         *)

\* It holds when the page is ready.
LEMMA InitTypeInv ==
  ASSUME Init
  PROVE  TypeInv
<1>1. PICK w \in Worlds :
        /\ page = [view |-> w.view, grid |-> GridOf(w.view), server |-> w.server]
        /\ events = w.events /\ grabs = w.grabs
  BY DEF Init
<1>2. /\ gesture = Nothing /\ reverting = {} /\ hover = NoHover
      /\ overlay = {} /\ hidden = {} /\ helpers = {} /\ upset = {}
  BY DEF Init
<1>3. w.view \in ViewName /\ w.grabs \in Nat /\ AreEvents(w.events) /\ AreEvents(w.server)
  BY GestureAssumption
<1>4. PageOK
  BY <1>1, <1>3 DEF PageOK
<1>5. EventsOK
  BY <1>1, <1>3 DEF EventsOK, AreEvents
<1>6. NoHover.g = Nothing /\ NoHover.bound = {} /\ Nothing.kind = "none"
  BY DEF NoHover, Nothing
<1>7. HoverOK
  <2>1. NoHover \in Hovers
    BY DEF NoHover, Hovers, Nothing, NoCell, Cells
  <2>2. QED
    BY <1>2, <1>6, <2>1 DEF HoverOK
<1>8. Mouse = "none"
  BY <1>2, <1>6 DEF Mouse
<1>9. GestureOK
  BY <1>2, <1>8 DEF GestureOK
<1>10. RevertOK /\ ScreenOK
  BY <1>1, <1>2, <1>3 DEF RevertOK, ScreenOK
<1>11. HoldOK
  BY <1>2, <1>6, <1>8 DEF HoldOK
<1>12. QED
  BY <1>4, <1>5, <1>7, <1>9, <1>10, <1>11 DEF TypeInv

\* What a free mouse may take.
LEMMA FreeIs ==
  ASSUME TypeInv, NEW id, Free(id)
  PROVE  /\ Mouse = "none" /\ id \in DOMAIN events /\ id \in Own /\ id \in Id
         /\ IsEvent(events[id]) /\ events[id] \in EventDate
         /\ grabs' \in Nat /\ "mousemove" \notin hover.bound
<1>1. /\ Mouse = "none" /\ id \in DOMAIN events /\ id \in Own
      /\ grabs > 0 /\ grabs' = grabs - 1
  BY DEF Free
<1>2. grabs \in Nat /\ DOMAIN events \subseteq Id /\ IsEvent(events[id])
  BY <1>1 DEF TypeInv, ScreenOK, EventsOK
<1>3. "mousemove" \notin hover.bound
  BY <1>1 DEF TypeInv, HoldOK
<1>4. QED
  BY <1>1, <1>2, <1>3 DEF IsEvent

\* Whatever the mouse takes then, what goes back keeps what it knew.
LEMMA BacksStay ==
  ASSUME TypeInv, NEW id, Free(id), UNCHANGED events, gesture'.id = id,
         reverting' \subseteq Reverts, \A r, s \in reverting' : r = s,
         \A r \in reverting' : r.own => r.kind = "dayDrag" /\ Mouse' \notin {"dayDrag", "dayResize"},
         \A r \in reverting' : r.kind = "slotDrag" \/ r.own => r.g = Nothing,
         \A r \in reverting' : \E q \in reverting :
           r.kind = q.kind /\ r.id = q.id /\ r.torn = q.torn /\ Known(r)' = Known(q)
  PROVE  RevertOK'
<1>1. ASSUME NEW r \in reverting', r.kind = "dayDrag" PROVE BackOK(r)'
  <2>1. PICK q \in reverting :
          r.kind = q.kind /\ r.id = q.id /\ r.torn = q.torn /\ Known(r)' = Known(q)
    OBVIOUS
  <2>2. BackOK(q) /\ (q.torn \/ q.id # id) /\ grabs > 0
    BY <1>1, <2>1 DEF TypeInv, RevertOK, Free
  <2>3. Known(q).kept => q.id # id /\ ~ q.torn
    BY <2>2 DEF BackOK
  <2>4. QED
    BY <2>1, <2>2, <2>3 DEF BackOK
<1>2. Nothing' = Nothing /\ Reverts' = Reverts
  BY DEF Reverts, DragKnows, ResizeKnows, Nothing
<1>3. QED
  BY <1>1, <1>2 DEF RevertOK

\* A gesture of slots begins.
LEMMA SlotGrabbed ==
  ASSUME TypeInv, NEW id, Free(id), ~ events[id].allDay,
         gesture' \in SlotDrags \cup SlotResizes, gesture'.id = id,
         hidden' = hidden \cup {id},
         UNCHANGED <<page, events, reverting, hover, overlay, helpers, upset>>
  PROVE  TypeInv'
<1>1. /\ Mouse = "none" /\ id \in DOMAIN events /\ id \in Id
      /\ grabs' \in Nat
      /\ "mousemove" \notin hover.bound
  BY FreeIs
<1>2. PageOK' /\ EventsOK' /\ HoverOK'
  BY DEF TypeInv, PageOK, EventsOK, HoverOK
<1>3. Mouse' \in {"slotDrag", "slotResize"}
  BY DEF Mouse, SlotDrags, SlotResizes
<1>4. GestureOK'
  BY <1>1, <1>3 DEF GestureOK
<1>5. RevertOK'
  <2>1. \A r \in reverting : Known(r)' = Known(r)
    BY DEF Known
  <2>2. /\ reverting' = reverting /\ reverting \subseteq Reverts /\ \A r, s \in reverting : r = s
        /\ \A r \in reverting : r.own => r.kind = "dayDrag"
        /\ \A r \in reverting : r.kind = "slotDrag" \/ r.own => r.g = Nothing
    BY DEF TypeInv, RevertOK
  <2>3. QED
    BY <1>3, <2>1, <2>2, BacksStay
<1>6. ScreenOK'
  BY <1>1 DEF TypeInv, ScreenOK
<1>7. HoldOK'
  BY <1>1, <1>3 DEF HoldOK
<1>8. QED
  BY <1>2, <1>4, <1>5, <1>6, <1>7 DEF TypeInv

\* A drag of a timed event starts.
LEMMA GrabSlotKeeps ==
  ASSUME TypeInv, NEW id, NEW p \in Pointer, GrabSlot(id, p)
  PROVE  TypeInv'
<1>1. /\ Free(id) /\ ~ events[id].allDay
      /\ gesture' = [kind |-> "slotDrag", id |-> id, from |-> p, inBounds |-> TRUE,
                     allDay |-> FALSE, colDelta |-> 0, dayDelta |-> 0, snapDelta |-> 0]
      /\ hidden' = hidden \cup {id}
      /\ UNCHANGED <<page, events, reverting, hover, overlay, helpers, upset>>
  BY DEF GrabSlot
<1>2. id \in Own /\ p \in Points
  BY <1>1, FreeIs, PointsAreCells DEF TypeInv
<1>3. gesture' \in SlotDrags /\ gesture'.id = id
  BY <1>1, <1>2 DEF SlotDrags
<1>4. QED
  BY <1>1, <1>3, SlotGrabbed

\* What a column of the agenda shows, and the segment that it has of an event.
ColumnFrom(c) == DateOf([row |-> 0, col |-> c]) * TicksPerDay + MinTime

ColumnTo(c) == DateOf([row |-> 0, col |-> c]) * TicksPerDay + MaxTime

Seen(e, c) == GetEventEnd(e).at > ColumnFrom(c) /\ e.start.at < ColumnTo(c)

SlotPiece(id, e, c) ==
  [col |-> c,
   seg |-> [id |-> id, start |-> Max({e.start.at, ColumnFrom(c)}),
            end |-> Min({GetEventEnd(e).at, ColumnTo(c)}),
            isStart |-> e.start.at >= ColumnFrom(c), isEnd |-> GetEventEnd(e).at <= ColumnTo(c)]]

\* A column of the agenda shows ticks from one number to another.
LEMMA ColumnTicks ==
  ASSUME PageOK, NEW c \in 0..Grid.colCnt - 1
  PROVE  /\ DateOf([row |-> 0, col |-> c]) \in Int
         /\ ColumnFrom(c) \in Int /\ ColumnTo(c) \in Int
<1>1. [row |-> 0, col |-> c] \in Cells
  BY PageGrid DEF Cells
<1>2. DateOf([row |-> 0, col |-> c]) \in Int
  BY <1>1, CellHasDate
<1>3. MinTime \in Int /\ MaxTime \in Int
  BY SlotAssumption, DurationAssumption
<1>4. QED
  BY <1>2, <1>3, WholeDays DEF ColumnFrom, ColumnTo

\* The segments of a timed event.
LEMMA SlotPieceIs ==
  ASSUME NEW id, NEW p
  PROVE  p \in SlotPieces(id) <=>
           \E c \in 0..Grid.colCnt - 1 :
             Seen(events[id], c) /\ p = SlotPiece(id, events[id], c)
<1> DEFINE e   == events[id]
           one == [i \in {id} |-> e]
<1>1. ASSUME NEW c, NEW s
      PROVE  s \in SlotSegs(one, ColumnFrom(c), ColumnTo(c))
               <=> Seen(e, c) /\ s = SlotPiece(id, e, c).seg
  <2>1. DOMAIN one = {id} /\ one[id] = e
    OBVIOUS
  <2> DEFINE a == ColumnFrom(c)
             b == ColumnTo(c)
             seg2(i) == [id |-> i, start |-> Max({one[i].start.at, a}),
                         end |-> Min({GetEventEnd(one[i]).at, b}),
                         isStart |-> one[i].start.at >= a, isEnd |-> GetEventEnd(one[i]).at <= b]
             seen2(i) == GetEventEnd(one[i]).at > a /\ one[i].start.at < b
  <2>2. SlotSegs(one, a, b) = {seg2(i) : i \in {j \in DOMAIN one : seen2(j)}}
    BY DEF SlotSegs
  <2>3. seg2(id) = SlotPiece(id, e, c).seg /\ (seen2(id) <=> Seen(e, c))
    BY <2>1 DEF SlotPiece, Seen
  <2> HIDE DEF one, seg2, seen2, a, b, e
  <2>4. s \in SlotSegs(one, a, b) <=> Seen(e, c) /\ s = SlotPiece(id, e, c).seg
    BY <2>1, <2>2, <2>3
  <2>5. QED
    BY <2>4 DEF a, b
<1> DEFINE segs(c) == SlotSegs(one, ColumnFrom(c), ColumnTo(c))
<1>2. SlotPieces(id) = UNION {{[col |-> c, seg |-> s] : s \in segs(c)} : c \in 0..Grid.colCnt - 1}
  BY DEF SlotPieces, ColumnFrom, ColumnTo
<1>3. ASSUME NEW c, NEW s
      PROVE  s \in segs(c) <=> Seen(e, c) /\ s = SlotPiece(id, e, c).seg
  BY <1>1
<1>4. \A c : SlotPiece(id, e, c) = [col |-> c, seg |-> SlotPiece(id, e, c).seg]
  BY DEF SlotPiece
<1> HIDE DEF segs, e, one
<1>5. p \in SlotPieces(id) <=>
        \E c \in 0..Grid.colCnt - 1 : \E s \in segs(c) : p = [col |-> c, seg |-> s]
  BY <1>2
<1>6. p \in SlotPieces(id) <=>
        \E c \in 0..Grid.colCnt - 1 : Seen(e, c) /\ p = SlotPiece(id, e, c)
  BY <1>3, <1>4, <1>5
<1>7. QED
  BY <1>6 DEF e

\* A segment lies within its event and its column.
LEMMA PieceTicks ==
  ASSUME PageOK, EventsOK, NEW id \in DOMAIN events, NEW piece \in SlotPieces(id)
  PROVE  /\ piece.seg.start \in Int /\ piece.seg.end \in Int
         /\ piece.seg.end - piece.seg.start
              <= GetEventEnd(events[id]).at - events[id].start.at
<1> DEFINE e == events[id]
<1>1. e.start.at \in Int /\ GetEventEnd(e).at \in Int
  <2>1. IsEvent(e)
    BY DEF EventsOK
  <2> HIDE DEF e
  <2>2. QED
    BY <2>1, EventIs, EventEndIs, MomentIs
<1>2. PICK c \in 0..Grid.colCnt - 1 : piece = SlotPiece(id, e, c)
  BY SlotPieceIs
<1>3. ColumnFrom(c) \in Int /\ ColumnTo(c) \in Int
  BY ColumnTicks
<1>4. /\ piece.seg.start = Max({e.start.at, ColumnFrom(c)})
      /\ piece.seg.end = Min({GetEventEnd(e).at, ColumnTo(c)})
  BY <1>2 DEF SlotPiece
<1> HIDE DEF e
<1>5. /\ piece.seg.start \in {e.start.at, ColumnFrom(c)} /\ piece.seg.start >= e.start.at
      /\ piece.seg.end \in {GetEventEnd(e).at, ColumnTo(c)}
      /\ piece.seg.end <= GetEventEnd(e).at
  BY <1>1, <1>3, <1>4, LeastOf
<1>6. QED
  BY <1>1, <1>3, <1>5 DEF e

\* The snap a tick is in is a number.
LEMMA SnapIsInt ==
  ASSUME NEW at \in Int
  PROVE  SnapOf(at) \in Int
BY Ticks, SlotAssumption DEF SnapOf

\* A resize of a timed event starts.
LEMMA GrabSlotEdgeKeeps ==
  ASSUME TypeInv, NEW id, GrabSlotEdge(id)
  PROVE  TypeInv'
<1>1. /\ Free(id) /\ ~ events[id].allDay
      /\ hidden' = hidden \cup {id}
      /\ UNCHANGED <<page, events, reverting, hover, overlay, helpers, upset>>
  BY DEF GrabSlotEdge
<1>2. PICK piece \in SlotPieces(id) :
       gesture' = [kind |-> "slotResize", id |-> id, snapDelta |-> 0,
                   length |-> piece.seg.end - piece.seg.start,
                   edge |-> SnapOf(piece.seg.end - 1)]
  BY DEF GrabSlotEdge
<1>3. id \in Own /\ id \in DOMAIN events /\ PageOK /\ EventsOK
  BY <1>1, FreeIs DEF TypeInv
<1>4. piece.seg.start \in Int /\ piece.seg.end \in Int
  BY <1>3, PieceTicks
<1>5. piece.seg.end - piece.seg.start \in Int /\ SnapOf(piece.seg.end - 1) \in Int
  BY <1>4, SnapIsInt
<1>6. gesture' \in SlotResizes /\ gesture'.id = id
  BY <1>2, <1>3, <1>5 DEF SlotResizes
<1>7. QED
  BY <1>1, <1>6, SlotGrabbed

\* The segments of a range of days, in the page's grid: the days it takes, and the cells
\* of them that a row has.
DayFirst(s) == DateToDayOffset(s, Grid)

DayEnd(t, s) ==
  Max({DateToDayOffset(t, Grid)
         + (IF TimeOf(t) # 0 /\ TimeOf(t) >= NextDayThreshold THEN 1 ELSE 0),
       DayFirst(s) + 1})

CellFrom(s, row) == Max({DayOffsetToCellOffset(DayFirst(s), Grid.start), row * Grid.colCnt})

CellTo(s, t, row) ==
  Min({DayOffsetToCellOffset(DayEnd(t, s), Grid.start) - 1, (row + 1) * Grid.colCnt - 1})

DayPiece(s, t, row) ==
  [row |-> row,
   leftCol |-> CellFrom(s, row) % Grid.colCnt, rightCol |-> CellTo(s, t, row) % Grid.colCnt,
   isStart |-> CellOffsetToDayOffset(CellFrom(s, row), Grid.start) = DayFirst(s),
   isEnd |-> CellOffsetToDayOffset(CellTo(s, t, row), Grid.start) + 1 = DayEnd(t, s)]

\* rangeToSegments cuts a range into a piece for every row that has some of it.
LEMMA DayPieceIs ==
  ASSUME NEW s, NEW t, NEW p
  PROVE  p \in RangeToSegments(s, t, Grid) <=>
           \E row \in 0..Grid.rowCnt - 1 :
             CellFrom(s, row) <= CellTo(s, t, row) /\ p = DayPiece(s, t, row)
<1> DEFINE piece(row) ==
             [row |-> row,
              leftCol |-> CellOffsetToCell(CellFrom(s, row), Grid.colCnt).col,
              rightCol |-> CellOffsetToCell(CellTo(s, t, row), Grid.colCnt).col,
              isStart |-> CellOffsetToDayOffset(CellFrom(s, row), Grid.start) = DayFirst(s),
              isEnd |-> CellOffsetToDayOffset(CellTo(s, t, row), Grid.start) + 1 = DayEnd(t, s)]
<1>1. RangeToSegments(s, t, Grid) =
        {piece(row) : row \in {r \in 0..Grid.rowCnt - 1 : CellFrom(s, r) <= CellTo(s, t, r)}}
  BY DEF RangeToSegments, CellFrom, CellTo, DayEnd, DayFirst
<1>2. \A row : piece(row) = DayPiece(s, t, row)
  BY DEF DayPiece, CellOffsetToCell
<1> HIDE DEF piece
<1>3. QED
  BY <1>1, <1>2

\* The numbers of these cells.
LEMMA DayCellsAre ==
  ASSUME PageOK, NEW s \in Moment, NEW t \in Moment
  PROVE  /\ DayFirst(s) \in Int /\ DayEnd(t, s) \in Int /\ DayFirst(s) < DayEnd(t, s)
         /\ DayFirst(s) = DayOf(s) - Grid.start /\ DayOf(s) \in Int
         /\ \A row \in 0..Grid.rowCnt - 1 :
              /\ row \in Int /\ row * Grid.colCnt \in Int /\ (row + 1) * Grid.colCnt \in Int
              /\ CellFrom(s, row) \in Int /\ CellTo(s, t, row) \in Int
              /\ CellFrom(s, row) % Grid.colCnt \in Int /\ CellTo(s, t, row) % Grid.colCnt \in Int
<1>1. Grid.start \in Int /\ Grid.rowCnt \in Int /\ Grid.colCnt \in 1..7
  BY PageGrid
<1>2. \A m \in Moment : DayOf(m) \in Int /\ DateToDayOffset(m, Grid) = DayOf(m) - Grid.start
  BY MomentIs, Ticks DEF DayOf, DateToDayOffset
<1>3. /\ DayFirst(s) \in Int /\ DayEnd(t, s) \in Int /\ DayFirst(s) < DayEnd(t, s)
      /\ DayFirst(s) = DayOf(s) - Grid.start /\ DayOf(s) \in Int
  <2> DEFINE n == DateToDayOffset(t, Grid)
                   + (IF TimeOf(t) # 0 /\ TimeOf(t) >= NextDayThreshold THEN 1 ELSE 0)
  <2>1. DayFirst(s) = DayOf(s) - Grid.start /\ DayOf(s) \in Int /\ n \in Int
    BY <1>1, <1>2 DEF DayFirst
  <2>2. DayEnd(t, s) = Max({n, DayFirst(s) + 1})
    BY DEF DayEnd
  <2> HIDE DEF n
  <2>3. DayFirst(s) \in Int /\ DayFirst(s) + 1 \in Int
    BY <1>1, <2>1
  <2>4. DayEnd(t, s) \in {n, DayFirst(s) + 1} /\ DayEnd(t, s) >= DayFirst(s) + 1
    BY <2>1, <2>2, <2>3, LeastOf
  <2>5. QED
    BY <2>1, <2>3, <2>4
<1>4. /\ DayOffsetToCellOffset(DayFirst(s), Grid.start) \in Int
      /\ DayOffsetToCellOffset(DayEnd(t, s), Grid.start) \in Int
  BY <1>1, <1>3, OffsetsAreInts
<1>5. ASSUME NEW row \in 0..Grid.rowCnt - 1
      PROVE  /\ row \in Int /\ row * Grid.colCnt \in Int /\ (row + 1) * Grid.colCnt \in Int
             /\ CellFrom(s, row) \in Int /\ CellTo(s, t, row) \in Int
             /\ CellFrom(s, row) % Grid.colCnt \in Int /\ CellTo(s, t, row) % Grid.colCnt \in Int
  <2>1. row * Grid.colCnt \in Int /\ (row + 1) * Grid.colCnt \in Int /\ row \in Int
    BY <1>1
  <2>2. CellFrom(s, row) \in Int
    <3>1. Max({DayOffsetToCellOffset(DayFirst(s), Grid.start), row * Grid.colCnt})
            \in {DayOffsetToCellOffset(DayFirst(s), Grid.start), row * Grid.colCnt}
      BY <1>4, <2>1, LeastOf
    <3>2. QED
      BY <1>4, <2>1, <3>1 DEF CellFrom
  <2>3. CellTo(s, t, row) \in Int
    <3> DEFINE a == DayOffsetToCellOffset(DayEnd(t, s), Grid.start) - 1
               b == (row + 1) * Grid.colCnt - 1
    <3>1. a \in Int /\ b \in Int
      BY <1>4, <2>1
    <3>2. CellTo(s, t, row) = Min({a, b})
      BY DEF CellTo
    <3> HIDE DEF a, b
    <3>3. QED
      BY <3>1, <3>2, LeastOf
  <2>4. QED
    BY <1>1, <2>1, <2>2, <2>3, Parts
<1>6. QED
  BY <1>3, <1>5

\* The fields of a segment.
LEMMA DayPieceFields ==
  ASSUME PageOK, NEW s \in Moment, NEW t \in Moment, NEW p \in RangeToSegments(s, t, Grid)
  PROVE  /\ p.row \in Int /\ p.leftCol \in Int /\ p.rightCol \in Int
         /\ p.isStart \in BOOLEAN /\ p.isEnd \in BOOLEAN
<1>1. PICK row \in 0..Grid.rowCnt - 1 : p = DayPiece(s, t, row)
  BY DayPieceIs
<1>2. /\ row \in Int
      /\ CellFrom(s, row) % Grid.colCnt \in Int /\ CellTo(s, t, row) % Grid.colCnt \in Int
  BY DayCellsAre
<1>3. QED
  BY <1>1, <1>2 DEF DayPiece

\* A row of the agenda is a number.
LEMMA RowIsInt ==
  ASSUME NEW row \in 0..MaxTime - MinTime - 1
  PROVE  row \in Int
<1>1. MinTime \in Int /\ MaxTime \in Int
  BY SlotAssumption, DurationAssumption
<1>2. QED
  BY <1>1

-----------------------------------------------------------------------------
(* What the actions keep                                                    *)

\* The mouse moves: the HoverListener closes over the same event.
LEMMA HoverKeeps ==
  ASSUME TypeInv, NEW type, NEW cell \in Cells, NEW heard, heard = Hover(type, cell),
         hover' = heard.hover, UNCHANGED <<page, events>>
  PROVE  /\ HoverOK'
         /\ hover'.bound = hover.bound /\ hover'.type = hover.type
         /\ hover'.alive = hover.alive /\ hover'.first = hover.first
         /\ hover.g # Nothing => /\ hover'.g # Nothing /\ Follows(hover'.g)
                                 /\ EventOf(hover.g)' = EventOf(hover.g)
<1>1. PageOK /\ EventsOK /\ HoverOK /\ ScreenOK
  BY DEF TypeInv
<1>2. /\ hover' \in Hovers
      /\ hover'.bound = hover.bound /\ hover'.type = hover.type
      /\ hover'.alive = hover.alive /\ hover'.first = hover.first
      /\ hover.g = Nothing => hover' = hover
      /\ hover.g # Nothing => hover'.g # Nothing /\ Follows(hover'.g)
  BY <1>1, HoverHears
<1>3. hover.g # Nothing => EventOf(hover.g)' = EventOf(hover.g)
  BY <1>2 DEF EventOf, Follows
<1>4. hover' \in Hovers' /\ Nothing' = Nothing /\ NoHover' = NoHover
  BY <1>2 DEF Hovers, Nothing, NoHover, Cells, DragKnows, ResizeKnows, NoCell
<1>5. HoverOK'
  <2>1. CASE hover.g = Nothing
    BY <1>1, <1>2, <1>4, <2>1 DEF HoverOK
  <2>2. CASE hover.g # Nothing
    <3>1. hover'.g # Nothing
      BY <1>2, <2>2
    <3>2. IsEvent(hover'.g.event) /\ (hover'.g.kept => hover'.g.id \in DOMAIN events')
      BY <1>1, <1>2, <2>2 DEF HoverOK, Follows
    <3>3. QED
      BY <1>4, <3>1, <3>2 DEF HoverOK
  <2>3. QED
    BY <2>1, <2>2
<1>6. QED
  BY <1>2, <1>3, <1>5

\* The mouse is free, and its HoverListener listens to nothing of a resize.
LEMMA Freed ==
  ASSUME TypeInv, UNCHANGED page, EventsOK', DOMAIN events' = DOMAIN events,
         gesture' = Nothing, RevertOK', ScreenOK', HoverOK', "mousemove" \notin hover'.bound
  PROVE  TypeInv'
<1>1. PageOK'
  BY DEF TypeInv, PageOK
<1>2. Mouse' = "none"
  BY DEF Mouse, Nothing
<1>3. GestureOK' /\ HoldOK'
  BY <1>2 DEF GestureOK, HoldOK, Nothing
<1>4. QED
  BY <1>1, <1>3 DEF TypeInv

\* A callback that follows that of a drag is that of a drag.
LEMMA HoverFollows ==
  ASSUME HoverOK, HoverOK', hover.g # Nothing => Follows(hover'.g)
  PROVE  hover.g \in DragKnows => hover'.g \in DragKnows /\ Follows(hover'.g)
<1>1. SUFFICES ASSUME hover.g \in DragKnows PROVE hover'.g \in DragKnows /\ Follows(hover'.g)
  OBVIOUS
<1>2. hover.g # Nothing /\ hover.g.kind \in {"monthDrag", "agendaDrag"}
  BY <1>1 DEF Nothing, DragKnows
<1>3. Follows(hover'.g) /\ hover'.g.kind \in {"monthDrag", "agendaDrag"}
  BY <1>2 DEF Follows
<1>4. hover' \in Hovers
  BY DEF HoverOK, Hovers, Cells, DragKnows, ResizeKnows, Nothing
<1>5. hover'.g \in {Nothing} \cup DragKnows \cup ResizeKnows
  BY <1>4 DEF Hovers
<1>6. QED
  BY <1>3, <1>5 DEF Nothing, ResizeKnows

\* The HoverListener is left alone.
LEMMA HoverLeft ==
  ASSUME TypeInv, DOMAIN events' = DOMAIN events, UNCHANGED hover
  PROVE  HoverOK'
BY DEF TypeInv, HoverOK, NoHover, Nothing

\* A HoverListener that closes over the same event, or over nothing.
LEMMA HoverSame ==
  ASSUME TypeInv, DOMAIN events' = DOMAIN events, hover' \in Hovers,
         hover'.g = Nothing => hover' = NoHover,
         hover'.g # Nothing => hover'.g = hover.g
  PROVE  HoverOK'
<1>1. hover' \in Hovers' /\ Nothing' = Nothing /\ NoHover' = NoHover
  BY DEF Hovers, Nothing, NoHover, Cells, DragKnows, ResizeKnows, NoCell
<1>2. hover'.g # Nothing =>
        IsEvent(hover'.g.event) /\ (hover'.g.kept => hover'.g.id \in DOMAIN events')
  BY DEF TypeInv, HoverOK
<1>3. QED
  BY <1>1, <1>2 DEF HoverOK

\* What the mouse holds, by its kind.
LEMMA HeldIs ==
  ASSUME TypeInv
  PROVE  /\ Mouse = "none" => gesture = Nothing
         /\ Mouse = "slotDrag" => gesture \in SlotDrags
         /\ Mouse = "slotResize" => gesture \in SlotResizes
         /\ Mouse = "dayDrag" => gesture \in DayDrags
         /\ Mouse = "dayResize" => gesture \in DayResizes
         /\ Mouse \in {"none", "slotDrag", "slotResize", "dayDrag", "dayResize"}
         /\ Mouse # "none" => gesture.id \in Own
         /\ Mouse \in {"slotDrag", "slotResize", "dayDrag"} => gesture.id \in DOMAIN events
         /\ Mouse \in {"slotDrag", "slotResize"} => ~ events[gesture.id].allDay
         /\ Mouse # "dayResize" => "mousemove" \notin hover.bound
BY DEF TypeInv, GestureOK, HoldOK, Mouse, Nothing, SlotDrags, SlotResizes, DayDrags, DayResizes

\* What the callback of the mouse's drag of day cells is.
LEMMA DayHeldIs ==
  ASSUME TypeInv, Mouse = "dayDrag"
  PROVE  /\ gesture \in DayDrags /\ gesture.id \in DOMAIN events /\ gesture.id \in Own
         /\ hover.g \in DragKnows /\ hover.g # Nothing /\ hover.g.id = gesture.id
         /\ hover.g.kind = (IF IsMonth THEN "monthDrag" ELSE "agendaDrag")
         /\ hover.g.kept = TRUE /\ hover.alive = TRUE /\ hover.type = "drag"
         /\ EventOf(hover.g) = events[gesture.id] /\ IsEvent(hover.g.event)
<1>1. /\ hover.type = "drag" /\ hover.alive
      /\ hover.g.kind = (IF IsMonth THEN "monthDrag" ELSE "agendaDrag")
      /\ hover.g.id = gesture.id /\ hover.g.kept
      /\ HoverOK
  BY DEF TypeInv, HoldOK
<1>2. hover.g.kind \in {"monthDrag", "agendaDrag"}
  BY <1>1
<1>3. hover.g \in DragKnows
  BY <1>1, <1>2, KnowsIs
<1>4. hover.g # Nothing /\ hover.g.kept \in BOOLEAN /\ hover.alive \in BOOLEAN
  BY <1>1, <1>3, KnowsIs DEF DragKnows, Nothing
<1>5. EventOf(hover.g) = events[gesture.id]
  BY <1>1 DEF EventOf
<1>6. IsEvent(hover.g.event)
  BY <1>1, <1>4 DEF HoverOK
<1>7. QED
  BY <1>1, <1>3, <1>4, <1>5, <1>6, HeldIs

\* What goes back goes on, or leaves the page with a drop: its callback, if it is the one
\* of the HoverListener, still closes over the same event.
LEMMA RevertLeft ==
  ASSUME TypeInv, DOMAIN events' = DOMAIN events,
         \/ reverting' = reverting
         \/ reverting' = {Torn(r) : r \in reverting} /\ grabs' = 0,
         grabs' \in {0, grabs},
         Mouse' = "none" \/ (Mouse' = Mouse /\ gesture'.id = gesture.id),
         \/ Mouse \in {"dayDrag", "dayResize"}
         \/ hover.g \in DragKnows => hover'.g \in DragKnows /\ Follows(hover'.g)
  PROVE  RevertOK'
<1>1. RevertOK
  BY DEF TypeInv
<1>2. ASSUME NEW r \in reverting'
      PROVE  \E q \in reverting : r \in {q, Torn(q)} /\ (r = q \/ grabs' = 0)
  BY <1>2
<1>3. ASSUME NEW q \in reverting
      PROVE  /\ Torn(q) \in Reverts /\ Torn(q).kind = q.kind /\ Torn(q).id = q.id
             /\ Torn(q).own = q.own /\ Torn(q).g = q.g
  <2>1. q \in Reverts
    BY <1>1, <1>3 DEF RevertOK
  <2>2. QED
    BY <2>1 DEF Torn, Reverts
<1>4. ASSUME NEW r \in reverting', r.kind = "dayDrag" PROVE BackOK(r)'
  <2>1. PICK q \in reverting : r \in {q, Torn(q)} /\ (r = q \/ grabs' = 0)
    BY <1>2
  <2>2. r.kind = q.kind /\ r.id = q.id /\ r.own = q.own /\ r.g = q.g
    BY <1>3, <2>1
  <2>3. BackOK(q) /\ (q.own => Mouse \notin {"dayDrag", "dayResize"})
    BY <1>1, <1>4, <2>2 DEF RevertOK
  <2>4. Known(q) \in DragKnows /\ (q.own => Known(q) = hover.g)
    BY <2>3 DEF BackOK, Known
  <2>5. /\ Known(r)' \in DragKnows /\ Known(r)'.id = Known(q).id
        /\ Known(r)'.event = Known(q).event /\ Known(r)'.kept = Known(q).kept
    <3>1. CASE q.own
      <4>1. hover'.g \in DragKnows /\ Follows(hover'.g)
        BY <2>3, <2>4, <3>1
      <4>2. Known(r)' = hover'.g /\ Known(q) = hover.g
        BY <2>2, <3>1 DEF Known
      <4>3. QED
        BY <4>1, <4>2 DEF Follows
    <3>2. CASE ~ q.own
      BY <2>2, <2>4, <3>2 DEF Known
    <3>3. QED
      BY <3>1, <3>2
  <2>6. DragKnows' = DragKnows
    BY DEF DragKnows
  <2>7. grabs = 0 => grabs' = 0
    OBVIOUS
  <2>8. r.torn => q.torn \/ grabs' = 0
    BY <2>1
  <2>9. Known(r)'.kept => r.id \in DOMAIN events'
    BY <2>2, <2>3, <2>5 DEF BackOK
  <2>10. Known(r)'.kept /\ Mouse' # "none" => r.id # gesture'.id
    BY <2>2, <2>3, <2>5 DEF BackOK
  <2>11. Known(r)'.kept /\ r.torn => grabs' = 0
    BY <2>3, <2>5, <2>7, <2>8 DEF BackOK
  <2>12. Known(r)' \in DragKnows /\ Known(r)'.id = r.id /\ IsEvent(Known(r)'.event)
    BY <2>2, <2>3, <2>5 DEF BackOK
  <2>13. QED
    BY <2>6, <2>9, <2>10, <2>11, <2>12 DEF BackOK
<1>5. reverting' \subseteq Reverts' /\ \A r, s \in reverting' : r = s
  <2>1. Reverts' = Reverts
    BY DEF Reverts, DragKnows, ResizeKnows, Nothing
  <2>2. \A r \in reverting' : r \in Reverts
    BY <1>1, <1>2, <1>3 DEF RevertOK
  <2>3. \A r, s \in reverting' : r = s
    BY <1>1 DEF RevertOK
  <2>4. QED
    BY <2>1, <2>2, <2>3
<1>6. \A r \in reverting' : r.own => r.kind = "dayDrag" /\ Mouse' \notin {"dayDrag", "dayResize"}
  BY <1>1, <1>2, <1>3 DEF RevertOK
<1>7. Nothing' = Nothing /\ \A r \in reverting' : r.kind = "slotDrag" \/ r.own => r.g = Nothing
  BY <1>1, <1>2, <1>3 DEF RevertOK, Nothing
<1>8. QED
  BY <1>4, <1>5, <1>6, <1>7 DEF RevertOK

\* A drag that begins to go back; the HoverListener's callback is its own in day cells.
LEMMA GoesBack ==
  ASSUME TypeInv, NEW kind \in {"slotDrag", "dayDrag"}, Mouse = kind,
         NEW own \in BOOLEAN, own = (kind = "dayDrag"), GoBack(kind, own),
         UNCHANGED <<page, events, hover, screen, grabs, upset>>
  PROVE  TypeInv'
<1>0. PICK r : r = [kind |-> kind, id |-> gesture.id, torn |-> FALSE, own |-> own, g |-> NoHover.g]
  OBVIOUS
<1>1. gesture.id \in Own /\ gesture.id \in DOMAIN events
  BY HeldIs
<1>2. reverting' = {r} /\ gesture' = Nothing
  BY <1>0 DEF GoBack
<1>3. Mouse' = "none"
  BY <1>2 DEF Mouse, Nothing
<1>4. NoHover.g = Nothing
  BY DEF NoHover, Nothing
<1>5. /\ r \in Reverts /\ r.kind = kind /\ r.own = own /\ r.id = gesture.id /\ r.torn = FALSE
      /\ r.g = Nothing
  BY <1>0, <1>1, <1>4 DEF Reverts
<1>6. ASSUME kind = "dayDrag" PROVE BackOK(r)'
  <2>1. /\ hover.g \in DragKnows /\ hover.g.id = gesture.id /\ IsEvent(hover.g.event)
    BY <1>6, DayHeldIs
  <2>2. Known(r)' = hover.g
    BY <1>5, <1>6 DEF Known
  <2>3. DragKnows' = DragKnows
    BY DEF DragKnows
  <2>4. QED
    BY <1>1, <1>3, <1>5, <2>1, <2>2, <2>3 DEF BackOK
<1>7. Reverts' = Reverts /\ Nothing' = Nothing
  BY DEF Reverts, DragKnows, ResizeKnows, Nothing
<1>8. RevertOK'
  <2>1. reverting' \subseteq Reverts'
    BY <1>2, <1>5, <1>7
  <2>2. \A q \in reverting' : q = r
    BY <1>2
  <2>3. \A q \in reverting' : q.kind = "dayDrag" => BackOK(q)'
    BY <1>5, <1>6, <2>2
  <2>4. \A q \in reverting' : q.own => q.kind = "dayDrag" /\ Mouse' \notin {"dayDrag", "dayResize"}
    BY <1>3, <1>5, <2>2
  <2>5. \A q \in reverting' : q.g = Nothing
    BY <1>5, <2>2
  <2>6. QED
    BY <1>7, <2>1, <2>2, <2>3, <2>4, <2>5 DEF RevertOK
<1>9. ScreenOK' /\ EventsOK' /\ HoverOK'
  BY HoverLeft DEF TypeInv, ScreenOK, EventsOK, screen
<1>10. "mousemove" \notin hover'.bound
  BY HeldIs
<1>11. QED
  BY <1>2, <1>8, <1>9, <1>10, Freed

\* Without a draggable it is a HoverListener still.
LEMMA DeadIs ==
  ASSUME NEW h \in Hovers
  PROVE  /\ Dead(h) \in Hovers /\ Dead(h).bound = h.bound /\ Dead(h).type = h.type
         /\ Dead(h).first = h.first /\ Dead(h).g = h.g /\ Dead(h).alive = FALSE
         /\ h = NoHover => Dead(h) = NoHover
<1>1. /\ Dead(h) \in Hovers /\ Dead(h).bound = h.bound /\ Dead(h).type = h.type
      /\ Dead(h).first = h.first /\ Dead(h).g = h.g /\ Dead(h).alive = FALSE
  BY DEF Dead, Hovers
<1>2. Dead(NoHover) = NoHover
  <2>1. /\ NoHover.alive = FALSE
        /\ DOMAIN NoHover = {"bound", "type", "alive", "first", "cell", "g"}
        /\ NoHover = [x \in DOMAIN NoHover |-> NoHover[x]]
    BY DEF NoHover
  <2> HIDE DEF NoHover
  <2>2. [NoHover EXCEPT !.alive = FALSE] =
          [x \in DOMAIN NoHover |-> IF x = "alive" THEN FALSE ELSE NoHover[x]]
    OBVIOUS
  <2>3. QED
    BY <2>1, <2>2 DEF Dead
<1>3. QED
  BY <1>1, <1>2

-----------------------------------------------------------------------------
(* Gestures of timed events                                                 *)

\* A drag stays one.
LEMMA DraggedIs ==
  ASSUME PageOK, NEW g \in SlotDrags, NEW p \in Pointer
  PROVE  Dragged(g, p) \in SlotDrags /\ Dragged(g, p).id = g.id
<1> DEFINE colDelta == IF Grid.colCnt = 1 THEN 0 ELSE JsRound(p.x - g.from.x, ColPx)
           allDay   == Cell(p).row = 0
           col      == Min({Grid.colCnt - 1, Max({0, Cell(g.from).col + colDelta})})
           dayDelta == DayDelta([row |-> 0, col |-> col], Cell(g.from))
           snap     == IF allDay THEN g.snapDelta ELSE JsRound(p.y - g.from.y, RowPx)
<1>1. /\ ColPx \in Nat /\ ColPx > 0 /\ RowPx \in Nat /\ RowPx > 0
      /\ p.x \in Int /\ p.y \in Int /\ g.from \in Points /\ g.from.x \in Int /\ g.from.y \in Int
  BY GestureAssumption, PointsAreCells DEF Points, SlotDrags
<1>2. Cell(g.from) \in Cells
  <2>1. g.from.x \div ColPx \in Int /\ g.from.y \div RowPx \in Int
    BY <1>1, Parts
  <2>2. QED
    BY <2>1 DEF Cell, Cells, NoCell
<1>3. colDelta \in Int
  BY <1>1, RoundIsInt
<1>4. col \in Int
  <2> DEFINE to    == Cell(g.from).col + colDelta
             least == Max({0, to})
             last  == Grid.colCnt - 1
  <2>1. to \in Int /\ last \in Int /\ 0 \in Int
    BY <1>2, <1>3, PageGrid DEF Cells
  <2>2. col = Min({last, least})
    OBVIOUS
  <2> HIDE DEF to, last, col
  <2>3. least \in Int
    BY <2>1, LeastOf
  <2> HIDE DEF least
  <2>4. QED
    BY <2>1, <2>2, <2>3, LeastOf
<1>5. dayDelta \in Int
  <2>1. [row |-> 0, col |-> col] \in Cells
    BY <1>4 DEF Cells
  <2> HIDE DEF col
  <2>2. QED
    BY <1>2, <2>1, DeltaIsDays
<1>6. snap \in Int
  BY <1>1, RoundIsInt DEF SlotDrags
<1>7. allDay \in BOOLEAN
  OBVIOUS
<1> DEFINE h == [g EXCEPT !.inBounds = TRUE, !.allDay = allDay, !.colDelta = colDelta,
                          !.dayDelta = dayDelta, !.snapDelta = snap]
<1>8. Dragged(g, p) = IF p = Outside THEN [g EXCEPT !.inBounds = FALSE] ELSE h
  BY DEF Dragged
<1> HIDE DEF colDelta, allDay, col, dayDelta, snap
<1>9. h \in SlotDrags /\ h.id = g.id
  BY <1>3, <1>5, <1>6, <1>7 DEF SlotDrags
<1> HIDE DEF h
<1>10. [g EXCEPT !.inBounds = FALSE] \in SlotDrags /\ [g EXCEPT !.inBounds = FALSE].id = g.id
  BY DEF SlotDrags
<1>11. QED
  BY <1>8, <1>9, <1>10

\* The mouse drags a timed event.
LEMMA DragSlotKeeps ==
  ASSUME TypeInv, NEW p \in Pointer, DragSlot(p)
  PROVE  TypeInv'
<1> DEFINE heard == Hover("drag", Cell(p))
           g == IF heard.throws THEN gesture ELSE Dragged(gesture, p)
           over == IF g = gesture THEN heard.screen.overlay
                   ELSE IF g.inBounds /\ g.allDay
                   THEN {<<DraggedStart(g), DraggedEnd(g)>>} ELSE {}
           screen2 == [heard.screen EXCEPT !.overlay = over]
<1>1. /\ Mouse = "slotDrag" /\ hover' = heard.hover /\ gesture' = g
      /\ UNCHANGED <<page, events, reverting, grabs, upset>>
      /\ overlay' = screen2.overlay /\ hidden' = screen2.hidden /\ helpers' = screen2.helpers
  BY DEF DragSlot, Show
<1>2. PageOK /\ EventsOK /\ HoverOK /\ ScreenOK /\ Cell(p) \in Cells
  BY PointsAreCells DEF TypeInv
<1>3. gesture \in SlotDrags /\ gesture.id \in DOMAIN events /\ ~ events[gesture.id].allDay
  BY <1>1, HeldIs
<1>4. g \in SlotDrags /\ g.id = gesture.id
  BY <1>2, <1>3, DraggedIs
<1>5. Mouse' = "slotDrag"
  BY <1>1, <1>4 DEF Mouse, SlotDrags
<1>6. /\ HoverOK' /\ hover'.bound = hover.bound
      /\ hover.g # Nothing => hover'.g # Nothing /\ Follows(hover'.g)
  <2> HIDE DEF heard
  <2>1. QED
    BY <1>1, <1>2, HoverKeeps DEF heard
<1>7. /\ heard.screen = Screen(heard.screen.overlay, heard.screen.hidden, heard.screen.helpers)
      /\ \A m, n \in heard.screen.overlay : m = n
      /\ heard.screen.hidden \subseteq Id /\ heard.screen.helpers \subseteq Own
  BY <1>2, HoverHears
<1>8. ScreenOK'
  <2> HIDE DEF heard, g
  <2>1. \A m, n \in over : m = n
    BY <1>7
  <2> HIDE DEF over
  <2>2. /\ screen2.overlay = over /\ screen2.hidden = heard.screen.hidden
        /\ screen2.helpers = heard.screen.helpers
    BY <1>7 DEF Screen
  <2>3. QED
    BY <1>1, <1>2, <1>7, <2>1, <2>2 DEF ScreenOK
<1> HIDE DEF heard, g, over, screen2
<1>9. PageOK' /\ EventsOK'
  BY <1>1, <1>2 DEF PageOK, EventsOK
<1>10. GestureOK'
  BY <1>1, <1>3, <1>4, <1>5 DEF GestureOK
<1>11. RevertOK'
  <2>1. hover.g \in DragKnows => hover'.g \in DragKnows /\ Follows(hover'.g)
    BY <1>2, <1>6, HoverFollows
  <2>2. grabs' \in {0, grabs} /\ Mouse' = Mouse /\ gesture'.id = gesture.id
    BY <1>1, <1>4, <1>5
  <2>3. QED
    BY <1>1, <2>1, <2>2, RevertLeft
<1>12. HoldOK'
  BY <1>1, <1>5, <1>6, HeldIs DEF HoldOK
<1>13. QED
  BY <1>6, <1>8, <1>9, <1>10, <1>11, <1>12 DEF TypeInv

\* A gesture of slots ends, and may have moved an event.
LEMMA SlotDropped ==
  ASSUME TypeInv, Mouse \in {"slotDrag", "slotResize"}, EventsOK', DOMAIN events' = DOMAIN events,
         gesture' = Nothing, UNCHANGED page,
         \/ UNCHANGED <<reverting, hover>>
         \/ hover' = Dead(hover) /\ reverting' = {Torn(r) : r \in reverting} /\ grabs' = 0,
         overlay' \in {{}, overlay}, hidden' \subseteq hidden, helpers' \subseteq helpers,
         grabs' \in {0, grabs}, upset' \subseteq upset
  PROVE  TypeInv'
<1>1. HoverOK /\ hover \in Hovers
  BY DEF TypeInv, HoverOK
<1>2. /\ hover' \in Hovers /\ hover'.g = hover.g /\ hover'.bound = hover.bound
      /\ hover = NoHover => hover' = NoHover
  BY <1>1, DeadIs
<1>3. "mousemove" \notin hover'.bound
  BY <1>2, HeldIs
<1>4. RevertOK'
  <2>1. Mouse' = "none"
    BY DEF Mouse, Nothing
  <2>2. hover.g \in DragKnows => hover'.g \in DragKnows /\ Follows(hover'.g)
    BY <1>2 DEF Follows
  <2>3. QED
    BY <2>1, <2>2, RevertLeft
<1>5. ScreenOK'
  BY DEF TypeInv, ScreenOK
<1>6. HoverOK'
  <2>1. hover'.g = Nothing => hover' = NoHover
    BY <1>1, <1>2 DEF HoverOK
  <2>2. QED
    BY <1>2, <2>1, HoverSame
<1>7. QED
  BY <1>3, <1>4, <1>5, <1>6, Freed

\* Where the mouse lets a timed event go.
LEMMA SlotDropMoves ==
  ASSUME TypeInv, Mouse = "slotDrag",
         EventDrop(events[gesture.id], gesture.id, DraggedStart(gesture))
  PROVE  /\ Moved(gesture.id) /\ EventsOK'
         /\ events'[gesture.id].start.at = DraggedStart(gesture).at
         /\ events'[gesture.id].allDay = ~ DraggedStart(gesture).timed
         /\ KeepsLength(events[gesture.id], events'[gesture.id])
         /\ Lasts(events[gesture.id]) => Lasts(events'[gesture.id])
<1>1. EventsOK
  BY DEF TypeInv
<1>2. gesture \in SlotDrags /\ gesture.id \in DOMAIN events /\ ~ events[gesture.id].allDay
  BY HeldIs
<1>3. IsTarget(DraggedStart(gesture)) /\ IsEvent(events[gesture.id])
  BY <1>1, <1>2, SlotTarget DEF EventsOK
<1> DEFINE e == events[gesture.id]
           m == DraggedStart(gesture)
<1>4. IsEvent(e) /\ IsTarget(m) /\ EventDrop(e, gesture.id, m)
  BY <1>3
<1> HIDE DEF e, m
<1>5. /\ Moved(gesture.id) /\ EventsOK'
      /\ gesture.id \in DOMAIN events => events'[gesture.id].allDay = ~ m.timed
      /\ gesture.id \in DOMAIN events /\ e = events[gesture.id] =>
           /\ events'[gesture.id].start.at = m.at
           /\ KeepsLength(events[gesture.id], events'[gesture.id])
           /\ Lasts(events[gesture.id]) => Lasts(events'[gesture.id])
  BY <1>1, <1>4, DropMoves
<1>6. QED
  BY <1>2, <1>5 DEF e, m

\* A timed event is dropped.
LEMMA ReleaseSlotKeeps ==
  ASSUME TypeInv, ReleaseSlot
  PROVE  TypeInv'
<1>1. Mouse = "slotDrag" /\ UNCHANGED page
  BY DEF ReleaseSlot
<1>2. CASE ~ gesture.inBounds
  <2>1. GoBack("slotDrag", FALSE) /\ UNCHANGED <<page, events, hover, screen, grabs, upset>>
    BY <1>1, <1>2 DEF ReleaseSlot
  <2>2. QED
    BY <1>1, <2>1, GoesBack
<1>3. CASE /\ gesture.inBounds
           /\ EventDrop(events[gesture.id], gesture.id, DraggedStart(gesture))
           /\ Rerender(Nothing) /\ hover' = Dead(hover)
           /\ reverting' = {Torn(r) : r \in reverting}
  <2>1. overlay' = {} /\ upset' = upset \ {"torn"}
    BY <1>3 DEF ReleaseSlot
  <2>2. hidden' = {} /\ helpers' = {} /\ gesture' = Nothing
    BY <1>3 DEF Rerender, Nothing
  <2>3. EventsOK' /\ DOMAIN events' = DOMAIN events /\ grabs' = 0
    BY <1>1, <1>3, SlotDropMoves DEF Moved
  <2>4. QED
    BY <1>1, <1>3, <2>1, <2>2, <2>3, SlotDropped
<1>4. CASE /\ gesture.inBounds
           /\ hidden' = hidden \ {gesture.id} /\ gesture' = Nothing
           /\ UNCHANGED <<events, reverting, hover, helpers, grabs>>
  <2>1. overlay' = {} /\ upset' = upset \ {"torn"}
    BY <1>4 DEF ReleaseSlot
  <2>2. EventsOK' /\ DOMAIN events' = DOMAIN events
    BY <1>4 DEF TypeInv, EventsOK
  <2>3. QED
    BY <1>1, <1>4, <2>1, <2>2, SlotDropped
<1>5. QED
  BY <1>2, <1>3, <1>4 DEF ReleaseSlot

\* The mouse resizes a timed event.
LEMMA ResizeSlotKeeps ==
  ASSUME TypeInv, NEW row \in 0..MaxTime - MinTime - 1, ResizeSlot(row)
  PROVE  TypeInv'
<1> DEFINE snap == Max({1 - gesture.length, row - gesture.edge})
<1>1. /\ Mouse = "slotResize" /\ gesture' = [gesture EXCEPT !.snapDelta = snap]
      /\ UNCHANGED <<page, events, reverting, hover, overlay, hidden, helpers, grabs, upset>>
  BY DEF ResizeSlot, screen
<1>2. gesture \in SlotResizes /\ gesture.id \in DOMAIN events /\ ~ events[gesture.id].allDay
  BY <1>1, HeldIs
<1>3. snap \in Int
  <2>1. 1 - gesture.length \in Int /\ row - gesture.edge \in Int
    BY <1>2, RowIsInt DEF SlotResizes
  <2>2. QED
    BY <2>1, LeastOf
<1> HIDE DEF snap
<1>4. gesture' \in SlotResizes /\ gesture'.id = gesture.id /\ Mouse' = "slotResize"
  BY <1>1, <1>2, <1>3 DEF SlotResizes, Mouse
<1>5. PageOK' /\ EventsOK' /\ ScreenOK' /\ HoverOK'
  BY <1>1, HoverLeft DEF TypeInv, PageOK, EventsOK, ScreenOK
<1>6. GestureOK'
  BY <1>1, <1>2, <1>4 DEF GestureOK
<1>7. RevertOK'
  <2>1. hover.g \in DragKnows => hover'.g \in DragKnows /\ Follows(hover'.g)
    BY <1>1 DEF Follows
  <2>2. QED
    BY <1>1, <1>4, <2>1, RevertLeft
<1>8. HoldOK'
  BY <1>1, <1>4, HeldIs DEF HoldOK
<1>9. QED
  BY <1>5, <1>6, <1>7, <1>8 DEF TypeInv

\* Where the mouse lets the lower edge of a timed event go.
LEMMA SlotResizeMoves ==
  ASSUME TypeInv, Mouse = "slotResize",
         EventResize(events[gesture.id], gesture.id,
                     Add(GetEventEnd(events[gesture.id]), gesture.snapDelta))
  PROVE  /\ Moved(gesture.id) /\ EventsOK'
         /\ events'[gesture.id].start.at = events[gesture.id].start.at
         /\ GetEventEnd(events'[gesture.id]).at =
              GetEventEnd(events[gesture.id]).at + gesture.snapDelta
<1> DEFINE e == events[gesture.id]
           m == Add(GetEventEnd(e), gesture.snapDelta)
           f == MutateEvents(e, Changes(e, <<>>, <<m>>))
<1>1. gesture \in SlotResizes /\ gesture.id \in DOMAIN events /\ ~ e.allDay
  BY HeldIs
<1>2. EventsOK /\ IsEvent(e)
  BY <1>1 DEF TypeInv, EventsOK
<1>3. e.allDay = FALSE /\ gesture.snapDelta \in Int
  BY <1>1, <1>2, EventIs DEF SlotResizes
<1>4. GetEventEnd(e) \in Moment /\ GetEventEnd(e).timed
  BY <1>2, <1>3, EventEndIs DEF IsNormal
<1>5. m \in Moment /\ m.timed = TRUE /\ m.at = GetEventEnd(e).at + gesture.snapDelta
  BY <1>3, <1>4, AddIs, MomentIs
<1> HIDE DEF e, m
<1>6. IsNormal(m, e.allDay) /\ m.timed = ~ e.allDay
  BY <1>3, <1>5 DEF IsNormal
<1>7. IsEvent(f) /\ f.start.at = e.start.at /\ GetEventEnd(f).at = m.at
  BY <1>2, <1>5, <1>6, ResizeIs
<1>8. Mutate(gesture.id, Changes(e, <<>>, <<m>>))
  BY DEF EventResize, e, m
<1>9. Moved(gesture.id) /\ EventsOK' /\ events'[gesture.id] = f
  <2>1. MutateEvents(events[gesture.id], Changes(e, <<>>, <<m>>)) = f
    BY DEF e
  <2> HIDE DEF f
  <2>2. QED
    BY <1>1, <1>2, <1>7, <1>8, <2>1, MutateMoves
<1>10. QED
  BY <1>5, <1>7, <1>9 DEF e

\* A timed event's edge is let go.
LEMMA ReleaseSlotEdgeKeeps ==
  ASSUME TypeInv, ReleaseSlotEdge
  PROVE  TypeInv'
<1>1. Mouse = "slotResize" /\ UNCHANGED <<page, overlay, upset>>
  BY DEF ReleaseSlotEdge
<1>2. CASE gesture.snapDelta # 0
  <2>1. /\ EventResize(events[gesture.id], gesture.id,
                       Add(GetEventEnd(events[gesture.id]), gesture.snapDelta))
        /\ hidden' = {} /\ helpers' = {} /\ gesture' = Nothing
        /\ hover' = Dead(hover) /\ reverting' = {Torn(r) : r \in reverting}
    BY <1>2 DEF ReleaseSlotEdge, Rerender, Nothing
  <2>2. EventsOK' /\ DOMAIN events' = DOMAIN events /\ grabs' = 0
    BY <1>1, <2>1, SlotResizeMoves DEF Moved
  <2>3. QED
    BY <1>1, <2>1, <2>2, SlotDropped
<1>3. CASE gesture.snapDelta = 0
  <2>1. /\ hidden' = hidden \ {gesture.id} /\ gesture' = Nothing
        /\ UNCHANGED <<events, reverting, hover, helpers, grabs>>
    BY <1>3 DEF ReleaseSlotEdge
  <2>2. EventsOK' /\ DOMAIN events' = DOMAIN events
    BY <2>1 DEF TypeInv, EventsOK
  <2>3. QED
    BY <1>1, <2>1, <2>2, SlotDropped
<1>4. QED
  BY <1>2, <1>3

-----------------------------------------------------------------------------
(* Gestures of day cells                                                    *)

\* The HoverListener starts.
LEMMA StartIs ==
  ASSUME HoverOK, NEW type \in {"drag", "mousemove"}, NEW cell \in Cells,
         NEW g \in DragKnows \cup ResizeKnows,
         hover' = HoverStart(type, cell, g)
  PROVE  /\ hover' \in Hovers /\ hover'.g = g /\ hover'.g # Nothing
         /\ hover'.bound = hover.bound \cup {type} /\ hover'.type = type
         /\ hover'.alive = TRUE /\ hover'.first = cell
<1>1. hover.bound \subseteq {"drag", "mousemove"}
  BY KnowsIs
<1>2. g # Nothing
  BY DEF Nothing, DragKnows, ResizeKnows
<1>3. QED
  BY <1>1, <1>2 DEF HoverStart, Hovers

\* It stops.
LEMMA StopIs ==
  ASSUME HoverOK, NEW needed \in BOOLEAN
  PROVE  LET h == HoverStop(needed)
         IN  /\ h \in Hovers /\ h.bound = hover.bound \ {hover.type}
             /\ h.g = Nothing => h = NoHover
             /\ h.g # Nothing \/ needed \/ h.bound # {} =>
                  /\ h.g = hover.g /\ h.type = hover.type
                  /\ h.alive = hover.alive /\ h.first = hover.first
<1> DEFINE bound == hover.bound \ {hover.type}
           k == [hover EXCEPT !.bound = bound]
<1>1. hover \in Hovers
  BY DEF HoverOK
<1>2. /\ k \in Hovers /\ k.bound = bound /\ k.g = hover.g /\ k.type = hover.type
      /\ k.alive = hover.alive /\ k.first = hover.first
  BY <1>1 DEF Hovers
<1>3. hover.g = Nothing => k = NoHover
  <2>1. HoverOK
    OBVIOUS
  <2>2. NoHover.bound = {} /\ [NoHover EXCEPT !.bound = {}] = NoHover
    <3>1. /\ NoHover.bound = {} /\ DOMAIN NoHover = {"bound", "type", "alive", "first", "cell", "g"}
          /\ NoHover = [x \in DOMAIN NoHover |-> NoHover[x]]
      BY DEF NoHover
    <3> HIDE DEF NoHover
    <3>2. [NoHover EXCEPT !.bound = {}] =
            [x \in DOMAIN NoHover |-> IF x = "bound" THEN {} ELSE NoHover[x]]
      OBVIOUS
    <3>3. QED
      BY <3>1, <3>2
  <2>3. NoHover.bound \ {NoHover.type} = {}
    BY <2>2
  <2>4. QED
    BY <2>2, <2>3 DEF HoverOK
<1>4. NoHover \in Hovers /\ NoHover.g = Nothing /\ NoHover.bound = {}
  BY DEF NoHover, Hovers, Nothing, NoCell, Cells
<1>5. HoverStop(needed) = IF bound = {} /\ ~ needed THEN NoHover ELSE k
  BY DEF HoverStop
<1> HIDE DEF k, bound
<1>6. QED
  BY <1>2, <1>3, <1>4, <1>5 DEF bound

\* What goes back when another drag takes its callback's place.
LEMMA KeptBacks ==
  ASSUME TypeInv, NEW id, Free(id), UNCHANGED events, gesture'.id = id,
         reverting' = {Keep(r) : r \in reverting}
  PROVE  RevertOK'
<1>1. RevertOK /\ hover.g \in {Nothing} \cup DragKnows \cup ResizeKnows
  BY KnowsIs DEF TypeInv
<1>2. ASSUME NEW q \in reverting
      PROVE  /\ Keep(q) \in Reverts /\ Keep(q).kind = q.kind /\ Keep(q).id = q.id
             /\ Keep(q).torn = q.torn /\ Keep(q).own = FALSE /\ Keep(q).g = Known(q)
             /\ q.kind = "slotDrag" => Known(q) = Nothing
  <2>1. q \in Reverts
    BY <1>1, <1>2 DEF RevertOK
  <2>0. q.kind = "slotDrag" => Known(q) = Nothing
    BY <1>1, <1>2 DEF RevertOK, Known
  <2>2. CASE q.own = TRUE
    <3> DEFINE k == hover.g
    <3>1. Keep(q) = [q EXCEPT !.own = FALSE, !.g = k] /\ Known(q) = k
      BY <2>2 DEF Keep, Known
    <3>2. k \in {Nothing} \cup DragKnows \cup ResizeKnows
      BY <1>1
    <3> HIDE DEF k
    <3> DEFINE r == [q EXCEPT !.own = FALSE, !.g = k]
    <3>3. /\ r \in Reverts /\ r.kind = q.kind /\ r.id = q.id /\ r.torn = q.torn
          /\ r.own = FALSE /\ r.g = k
      BY <2>1, <3>2 DEF Reverts
    <3> HIDE DEF r
    <3>4. QED
      BY <2>0, <3>1, <3>3 DEF r
  <2>3. CASE q.own = FALSE
    <3>1. Keep(q) = q /\ Known(q) = q.g
      BY <2>3 DEF Keep, Known
    <3>2. QED
      BY <2>0, <2>1, <2>3, <3>1
  <2>4. q.own \in BOOLEAN
    BY <2>1 DEF Reverts
  <2>5. QED
    BY <2>2, <2>3, <2>4
<1>3. ASSUME NEW r \in reverting'
      PROVE  /\ r \in Reverts /\ r.own = FALSE /\ (r.kind = "slotDrag" => r.g = Nothing)
             /\ \E q \in reverting :
                  r.kind = q.kind /\ r.id = q.id /\ r.torn = q.torn /\ Known(r)' = Known(q)
  <2>1. PICK q \in reverting : r = Keep(q)
    BY <1>3
  <2>2. r.own = FALSE /\ r.g = Known(q)
    BY <1>2, <2>1
  <2>3. Known(r)' = r.g
    BY <2>2 DEF Known
  <2>4. QED
    BY <1>2, <2>1, <2>2, <2>3
<1>4. \A r, s \in reverting' : r = s
  BY <1>1 DEF RevertOK
<1>5. QED
  BY <1>3, <1>4, BacksStay

\* A drag of an event of day cells starts.
LEMMA GrabDayKeeps ==
  ASSUME TypeInv, NEW id, NEW p \in Pointer, GrabDay(id, p)
  PROVE  TypeInv'
<1>1. /\ Free(id)
      /\ gesture' = [kind |-> "dayDrag", id |-> id, grip |-> p.y % RowPx, top |-> 0]
      /\ overlay' = Marked(events[id], 0) /\ hidden' = hidden \cup {id}
      /\ reverting' = {Keep(r) : r \in reverting}
      /\ UNCHANGED <<page, events, helpers, upset>>
  BY DEF GrabDay
<1>2. /\ Mouse = "none" /\ id \in DOMAIN events /\ id \in Own /\ id \in Id
      /\ IsEvent(events[id]) /\ events[id] \in EventDate
      /\ grabs' \in Nat
      /\ "mousemove" \notin hover.bound
  BY <1>1, FreeIs
<1>3. PageOK /\ EventsOK /\ HoverOK /\ p \in Points /\ Cell(p) \in Cells
  BY PointsAreCells DEF TypeInv
<1>4. PICK piece \in DayPieces(events[id]) :
        hover' = HoverStart("drag", Cell(p),
                     [kind |-> IF IsMonth THEN "monthDrag" ELSE "agendaDrag", id |-> id,
                      event |-> events[id], kept |-> TRUE, isStart |-> piece.isStart,
                      dayDelta |-> 0, allDay |-> TRUE, revert |-> TRUE])
  BY DEF GrabDay
<1>5. piece.isStart \in BOOLEAN
  <2>1. events[id].start \in Moment /\ GetEventEnd(events[id]) \in Moment
    BY <1>2, EventIs, EventEndIs
  <2>2. QED
    BY <1>3, <2>1, DayPieceFields DEF DayPieces
<1> DEFINE kind == IF IsMonth THEN "monthDrag" ELSE "agendaDrag"
           g == [kind |-> kind, id |-> id, event |-> events[id], kept |-> TRUE,
                 isStart |-> piece.isStart, dayDelta |-> 0, allDay |-> TRUE, revert |-> TRUE]
<1>6. g \in DragKnows
  BY <1>2, <1>5 DEF DragKnows
<1>7. /\ g.kind = kind /\ g.id = id /\ g.kept = TRUE /\ g.event = events[id]
      /\ hover' = HoverStart("drag", Cell(p), g)
  BY <1>4
<1> HIDE DEF g, kind
<1>8. /\ hover' \in Hovers /\ hover'.g = g /\ hover'.g # Nothing
      /\ hover'.bound = hover.bound \cup {"drag"} /\ hover'.type = "drag"
      /\ hover'.alive = TRUE
  <2>1. "drag" \in {"drag", "mousemove"} /\ g \in DragKnows \cup ResizeKnows
    BY <1>6
  <2>2. QED
    BY <1>3, <1>7, <2>1, StartIs, Zenon
<1>9. p.y % RowPx \in Int
  BY <1>3, GestureAssumption, Parts DEF Points
<1>10. gesture' \in DayDrags /\ gesture'.id = id /\ Mouse' = "dayDrag"
  BY <1>1, <1>2, <1>9 DEF DayDrags, Mouse
<1>11. PageOK' /\ EventsOK'
  BY <1>1, <1>3 DEF PageOK, EventsOK
<1>12. HoverOK'
  <2>1. hover' \in Hovers' /\ Nothing' = Nothing
    BY <1>8 DEF Hovers, Nothing, Cells, DragKnows, ResizeKnows
  <2>2. IsEvent(hover'.g.event) /\ hover'.g.id \in DOMAIN events'
    BY <1>1, <1>2, <1>7, <1>8
  <2>3. QED
    BY <1>8, <2>1, <2>2 DEF HoverOK
<1>13. GestureOK'
  BY <1>1, <1>2, <1>10 DEF GestureOK
<1>14. RevertOK'
  BY <1>1, <1>10, KeptBacks
<1>15. ScreenOK'
  BY <1>1, <1>2, MarkedIsOne DEF TypeInv, ScreenOK
<1>16. HoldOK'
  <2>1. IsMonth' = IsMonth
    BY <1>1 DEF IsMonth
  <2>2. hover'.g.kind = (IF IsMonth THEN "monthDrag" ELSE "agendaDrag")
    BY <1>7, <1>8 DEF kind
  <2>3. "mousemove" \notin hover'.bound
    BY <1>2, <1>8
  <2>4. QED
    BY <1>7, <1>8, <1>10, <2>1, <2>2, <2>3 DEF HoldOK
<1>17. QED
  BY <1>11, <1>12, <1>13, <1>14, <1>15, <1>16 DEF TypeInv

\* The mouse drags an event of day cells.
LEMMA DragDayKeeps ==
  ASSUME TypeInv, NEW p \in Pointer, DragDay(p)
  PROVE  TypeInv'
<1> DEFINE heard == Hover("drag", Cell(p))
<1>1. /\ Mouse = "dayDrag" /\ hover' = heard.hover
      /\ overlay' = heard.screen.overlay /\ hidden' = heard.screen.hidden
      /\ helpers' = heard.screen.helpers
      /\ gesture' = IF IsMonth \/ p = Outside THEN gesture
                    ELSE [gesture EXCEPT !.top = p.y - gesture.grip]
      /\ UNCHANGED <<page, events, reverting, grabs, upset>>
  BY DEF DragDay, Show
<1>2. PageOK /\ EventsOK /\ HoverOK /\ ScreenOK /\ p \in Points /\ Cell(p) \in Cells
  BY PointsAreCells DEF TypeInv
<1>3. /\ \A m, n \in heard.screen.overlay : m = n
      /\ heard.screen.hidden \subseteq Id /\ heard.screen.helpers \subseteq Own
  BY <1>2, HoverHears
<1> HIDE DEF heard
<1>4. /\ gesture \in DayDrags /\ gesture.id \in DOMAIN events
      /\ hover.g # Nothing /\ hover.g.id = gesture.id
      /\ hover.g.kind = (IF IsMonth THEN "monthDrag" ELSE "agendaDrag")
      /\ hover.g.kept = TRUE /\ hover.alive = TRUE /\ hover.type = "drag"
      /\ "mousemove" \notin hover.bound
  BY <1>1, DayHeldIs, HeldIs
<1>5. gesture' \in DayDrags /\ gesture'.id = gesture.id /\ Mouse' = "dayDrag"
  BY <1>1, <1>2, <1>4 DEF DayDrags, Points, Mouse
<1>6. /\ HoverOK'
      /\ hover'.bound = hover.bound /\ hover'.type = hover.type /\ hover'.alive = hover.alive
      /\ Follows(hover'.g)
  BY <1>1, <1>2, <1>4, HoverKeeps DEF heard
<1>7. PageOK' /\ EventsOK' /\ ScreenOK'
  BY <1>1, <1>2, <1>3 DEF PageOK, EventsOK, ScreenOK
<1>8. GestureOK'
  BY <1>1, <1>4, <1>5 DEF GestureOK
<1>9. RevertOK'
  BY <1>1, <1>5, RevertLeft DEF Mouse
<1>10. HoldOK'
  <2>1. IsMonth' = IsMonth
    BY <1>1 DEF IsMonth
  <2>2. QED
    BY <1>4, <1>5, <1>6, <2>1 DEF HoldOK, Follows
<1>11. QED
  BY <1>6, <1>7, <1>8, <1>9, <1>10 DEF TypeInv

\* Where a drag of day cells ends.
LEMMA DayDropMoves ==
  ASSUME EventsOK, NEW g, IsEvent(EventOf(g)), g.dayDelta \in Int, NEW top \in Int,
         EventDrop(EventOf(g), g.id, DroppedStart(g, top))
  PROVE  /\ Moved(g.id) /\ EventsOK'
         /\ g.id \in DOMAIN events /\ g.kept =>
              /\ KeepsLength(events[g.id], events'[g.id])
              /\ Lasts(events[g.id]) => Lasts(events'[g.id])
              /\ IsMonth \/ g.allDay =>
                   /\ events'[g.id].start.at = events[g.id].start.at + g.dayDelta * TicksPerDay
                   /\ events'[g.id].allDay = events[g.id].allDay
<1> DEFINE m == DroppedStart(g, top)
           e == EventOf(g)
           id == g.id
<1>1. /\ IsTarget(m)
      /\ IsMonth \/ g.allDay =>
           m.at = e.start.at + g.dayDelta * TicksPerDay /\ m.timed = ~ e.allDay
  BY DayTarget
<1>2. e.allDay \in BOOLEAN /\ IsEvent(e) /\ EventDrop(e, id, m)
  BY EventIs
<1>3. g.kept => e = events[id]
  BY DEF EventOf
<1> HIDE DEF m, e, id
<1>4. /\ Moved(id) /\ EventsOK'
      /\ id \in DOMAIN events => events'[id].allDay = ~ m.timed
      /\ id \in DOMAIN events /\ e = events[id] =>
           /\ events'[id].start.at = m.at
           /\ KeepsLength(events[id], events'[id])
           /\ Lasts(events[id]) => Lasts(events'[id])
  BY <1>1, <1>2, DropMoves
<1>5. ASSUME id \in DOMAIN events, g.kept
      PROVE  /\ KeepsLength(events[id], events'[id])
             /\ Lasts(events[id]) => Lasts(events'[id])
             /\ IsMonth \/ g.allDay =>
                  /\ events'[id].start.at = events[id].start.at + g.dayDelta * TicksPerDay
                  /\ events'[id].allDay = events[id].allDay
  BY <1>1, <1>2, <1>3, <1>4, <1>5
<1>6. QED
  BY <1>4, <1>5 DEF id

\* What stop leaves of the HoverListener: a gesture of day cells keeps its callback.
LEMMA StopHears ==
  ASSUME HoverOK, NEW g, NEW top, NEW held, StopDay(g, top, held)
  PROVE  /\ hover' \in Hovers /\ hover'.bound = hover.bound \ {hover.type}
         /\ hover'.g = Nothing => hover' = NoHover
         /\ hover'.g # Nothing => hover'.g = hover.g
         /\ held.kind \in {"dayDrag", "dayResize"} =>
              /\ hover'.g = hover.g /\ hover'.type = hover.type
              /\ ~ Changed(g) => hover'.alive = hover.alive
<1> DEFINE needed == held.kind \in {"dayDrag", "dayResize"}
           h == HoverStop(needed)
<1>1. hover' = IF Changed(g) THEN Dead(h) ELSE h
  BY DEF StopDay
<1>2. needed \in BOOLEAN
  OBVIOUS
<1> HIDE DEF needed
<1>3. /\ h \in Hovers /\ h.bound = hover.bound \ {hover.type}
      /\ h.g = Nothing => h = NoHover
      /\ h.g # Nothing \/ needed \/ h.bound # {} =>
           /\ h.g = hover.g /\ h.type = hover.type
           /\ h.alive = hover.alive /\ h.first = hover.first
  BY <1>2, StopIs
<1> HIDE DEF h
<1>4. /\ Dead(h) \in Hovers /\ Dead(h).bound = h.bound /\ Dead(h).type = h.type
      /\ Dead(h).g = h.g /\ (h = NoHover => Dead(h) = NoHover)
  BY <1>3, DeadIs
<1>5. CASE Changed(g)
  BY <1>1, <1>3, <1>4, <1>5 DEF needed
<1>6. CASE ~ Changed(g)
  BY <1>1, <1>3, <1>6 DEF needed
<1>7. QED
  BY <1>5, <1>6

\* stop drops the event or shows it where it was.
LEMMA StopDraws ==
  ASSUME TypeInv, NEW g \in DragKnows, IsEvent(EventOf(g)), NEW top \in Int, NEW held,
         StopDay(g, top, held)
  PROVE  /\ EventsOK' /\ DOMAIN events' = DOMAIN events /\ ScreenOK' /\ HoverOK'
         /\ \A i \in DOMAIN events : i # g.id => events'[i] = events[i]
         /\ grabs' \in {0, grabs}
         /\ ~ Changed(g) => gesture' = held /\ UNCHANGED <<events, grabs>>
         /\ Changed(g) =>
              /\ gesture' = IF held.kind = "dayResize" THEN held ELSE Nothing
              /\ grabs' = 0 /\ (~ g.kept => "overtaken" \in upset')
         /\ upset \ {"torn"} \subseteq upset'
<1>1. EventsOK /\ HoverOK /\ ScreenOK
  BY DEF TypeInv
<1>2. g.dayDelta \in Int
  BY DEF DragKnows
<1>3. /\ overlay' = {} /\ upset \ {"torn"} \subseteq upset'
      /\ upset' \subseteq upset \cup {"torn", "overtaken"}
      /\ Changed(g) /\ ~ g.kept => "overtaken" \in upset'
  BY DEF StopDay
<1>4. CASE Changed(g)
  <2>1. EventDrop(EventOf(g), g.id, DroppedStart(g, top)) /\ Rerender(held)
    BY <1>4 DEF StopDay
  <2>2. Moved(g.id) /\ EventsOK'
    BY <1>1, <1>2, <2>1, DayDropMoves
  <2>3. /\ hidden' = {} /\ helpers' = {}
        /\ gesture' = IF held.kind = "dayResize" THEN held ELSE Nothing
    BY <2>1 DEF Rerender
  <2>4. ScreenOK'
    BY <1>1, <1>3, <2>2, <2>3 DEF ScreenOK, Moved
  <2>5. HoverOK'
    BY <1>1, <2>2, StopHears, HoverSame DEF Moved
  <2>6. QED
    BY <1>3, <1>4, <2>2, <2>3, <2>4, <2>5 DEF Moved
<1>5. CASE ~ Changed(g)
  <2>1. /\ hidden' = hidden \ {g.id} /\ gesture' = held /\ UNCHANGED <<events, helpers, grabs>>
    BY <1>5 DEF StopDay
  <2>2. EventsOK'
    BY <1>1, <2>1 DEF EventsOK
  <2>3. ScreenOK'
    BY <1>1, <1>3, <2>1 DEF ScreenOK
  <2>4. HoverOK'
    BY <1>1, <2>1, StopHears, HoverSame
  <2>5. QED
    BY <1>3, <1>5, <2>1, <2>2, <2>3, <2>4
<1>6. QED
  BY <1>4, <1>5

\* stop of a drag of day cells, whatever the mouse holds by then.
LEMMA Stopped ==
  ASSUME TypeInv, NEW g \in DragKnows, IsEvent(EventOf(g)), NEW top \in Int, NEW held,
         StopDay(g, top, held), UNCHANGED page, RevertOK',
         held = gesture \/ (held = Nothing /\ Mouse = "dayDrag"),
         g.kept /\ held # Nothing => g.id # gesture.id
  PROVE  TypeInv'
<1>1. HoldOK /\ HoverOK /\ GestureOK
  BY DEF TypeInv
<1>2. /\ EventsOK' /\ DOMAIN events' = DOMAIN events /\ ScreenOK' /\ HoverOK'
      /\ \A i \in DOMAIN events : i # g.id => events'[i] = events[i]
      /\ ~ Changed(g) => gesture' = held /\ UNCHANGED <<events, grabs>>
      /\ Changed(g) =>
           /\ gesture' = IF held.kind = "dayResize" THEN held ELSE Nothing
           /\ grabs' = 0 /\ (~ g.kept => "overtaken" \in upset')
      /\ upset \ {"torn"} \subseteq upset'
  BY StopDraws
<1>3. /\ hover'.bound = hover.bound \ {hover.type}
      /\ held.kind \in {"dayDrag", "dayResize"} =>
           /\ hover'.g = hover.g /\ hover'.type = hover.type
           /\ ~ Changed(g) => hover'.alive = hover.alive
  BY <1>1, StopHears
<1>4. IsMonth' = IsMonth
  BY DEF IsMonth
<1>5. CASE gesture' = Nothing
  <2>1. "mousemove" \notin hover'.bound
    <3>1. CASE Mouse # "dayResize"
      BY <1>3, <3>1, HeldIs
    <3>2. CASE Mouse = "dayResize"
      <4>1. gesture' = gesture
        BY <1>2, <3>2 DEF Mouse
      <4>2. QED
        BY <1>5, <3>2, <4>1 DEF Mouse, Nothing
    <3>3. QED
      BY <3>1, <3>2
  <2>2. QED
    BY <1>2, <1>5, <2>1, Freed
<1>6. CASE gesture' # Nothing
  <2>1. /\ gesture' = gesture /\ held = gesture /\ Mouse' = Mouse
        /\ Mouse # "dayResize" => ~ Changed(g)
        /\ Mouse # "none" /\ (g.kept => g.id # gesture.id)
    <3>1. held # Nothing
      BY <1>2, <1>6
    <3>2. held = gesture /\ (g.kept => g.id # gesture.id)
      BY <3>1
    <3>3. gesture' = gesture
      BY <1>2, <1>6, <3>2
    <3>4. Mouse # "dayResize" => ~ Changed(g)
      BY <1>2, <1>6, <3>2 DEF Mouse
    <3>5. Mouse # "none"
      BY <3>1, <3>2, HeldIs
    <3>6. QED
      BY <3>2, <3>3, <3>4, <3>5 DEF Mouse
  <2>2. PageOK'
    BY DEF TypeInv, PageOK
  <2>3. GestureOK'
    <3>1. CASE Mouse = "dayResize"
      BY <1>1, <2>1, <3>1 DEF GestureOK
    <3>2. CASE Mouse # "dayResize"
      <4>1. UNCHANGED events
        BY <1>2, <2>1, <3>2
      <4>2. QED
        BY <1>1, <2>1, <4>1 DEF GestureOK
    <3>3. QED
      BY <3>1, <3>2
  <2>4. "mousemove" \in hover'.bound => Mouse' = "dayResize"
    BY <1>1, <1>3, <2>1 DEF HoldOK
  <2>5. ASSUME Mouse = "dayDrag"
        PROVE  /\ hover'.type = "drag" /\ hover'.alive
               /\ hover'.g.kind = (IF IsMonth' THEN "monthDrag" ELSE "agendaDrag")
               /\ hover'.g.id = gesture'.id /\ hover'.g.kept
    <3>1. held.kind = "dayDrag" /\ ~ Changed(g)
      BY <2>1, <2>5 DEF Mouse
    <3>2. hover'.g = hover.g /\ hover'.type = hover.type /\ hover'.alive = hover.alive
      BY <1>3, <3>1
    <3>3. QED
      BY <1>1, <1>4, <2>1, <2>5, <3>2 DEF HoldOK
  <2>6. ASSUME Mouse = "dayResize"
        PROVE  /\ hover'.type = "mousemove"
               /\ hover'.g.kind = "dayResize" /\ hover'.g.id = gesture'.id
               /\ "overtaken" \notin upset' => hover'.g.kept /\ EventOf(hover.g)'.allDay
    <3>1. hover'.g = hover.g /\ hover'.type = hover.type
      <4>1. held.kind \in {"dayDrag", "dayResize"}
        BY <2>1, <2>6 DEF Mouse
      <4>2. QED
        BY <1>3, <4>1
    <3>2. /\ hover.type = "mousemove" /\ hover.g.kind = "dayResize" /\ hover.g.id = gesture.id
          /\ "overtaken" \notin upset =>
               hover.g.kept /\ EventOf(hover.g).allDay /\ gesture.id \in DOMAIN events
      BY <1>1, <2>6 DEF HoldOK, HoverOK, Nothing
    <3>3. ASSUME "overtaken" \notin upset'
          PROVE  hover'.g.kept /\ EventOf(hover.g)'.allDay
      <4>1. "overtaken" \notin upset
        BY <1>2, <3>3
      <4>2. Changed(g) => g.kept
        BY <1>2, <3>3
      <4>3. events'[gesture.id] = events[gesture.id]
        <5>1. CASE Changed(g)
          <6>1. g.id # gesture.id
            BY <2>1, <4>2, <5>1
          <6>2. QED
            BY <1>2, <3>2, <4>1, <6>1
        <5>2. CASE ~ Changed(g)
          BY <1>2, <5>2
        <5>3. QED
          BY <5>1, <5>2
      <4>4. hover.g.kept /\ EventOf(hover.g).allDay
        BY <3>2, <4>1
      <4>5. EventOf(hover.g) = events[gesture.id] /\ EventOf(hover.g)' = events'[gesture.id]
        BY <3>1, <3>2, <4>4 DEF EventOf
      <4>6. QED
        BY <3>1, <4>3, <4>4, <4>5
    <3>4. QED
      BY <2>1, <3>1, <3>2, <3>3
  <2>7. HoldOK'
    BY <2>1, <2>4, <2>5, <2>6 DEF HoldOK
  <2>8. QED
    BY <1>2, <2>2, <2>3, <2>7 DEF TypeInv
<1>7. QED
  BY <1>5, <1>6

\* An event of day cells is dropped.
LEMMA ReleaseDayKeeps ==
  ASSUME TypeInv, ReleaseDay
  PROVE  TypeInv'
<1>1. Mouse = "dayDrag" /\ UNCHANGED page
  BY DEF ReleaseDay
<1>2. CASE GoBack("dayDrag", TRUE) /\ UNCHANGED <<events, hover, screen, grabs, upset>>
  BY <1>1, <1>2, GoesBack
<1>3. CASE /\ StopDay(hover.g, gesture.top, Nothing)
           /\ reverting' = IF Changed(hover.g) THEN {Torn(r) : r \in reverting} ELSE reverting
  <2> DEFINE g == hover.g
  <2>1. /\ g \in DragKnows /\ IsEvent(EventOf(g)) /\ gesture.top \in Int
    <3>1. EventOf(g) = events[gesture.id] /\ gesture.id \in DOMAIN events /\ g \in DragKnows
      BY <1>1, DayHeldIs
    <3>2. gesture \in DayDrags
      BY <1>1, DayHeldIs
    <3>3. QED
      BY <3>1, <3>2 DEF TypeInv, EventsOK, DayDrags
  <2>2. /\ DOMAIN events' = DOMAIN events /\ grabs' \in {0, grabs}
        /\ ~ Changed(g) => gesture' = Nothing
        /\ Changed(g) =>
             /\ gesture' = IF Nothing.kind = "dayResize" THEN Nothing ELSE Nothing
             /\ grabs' = 0
    BY <1>3, <2>1, StopDraws
  <2>3. gesture' = Nothing /\ Mouse' = "none"
    BY <2>2 DEF Mouse, Nothing
  <2>4. RevertOK'
    BY <1>1, <1>3, <2>2, <2>3, RevertLeft
  <2> HIDE DEF g
  <2>5. StopDay(g, gesture.top, Nothing)
    BY <1>3 DEF g
  <2>6. QED
    BY <1>1, <2>1, <2>4, <2>5, Stopped
<1>4. QED
  BY <1>2, <1>3 DEF ReleaseDay

\* An element is back where it was, or has left the page meanwhile.
LEMMA RevertEndsKeeps ==
  ASSUME TypeInv, RevertEnds
  PROVE  TypeInv'
<1>1. PICK r \in reverting :
        /\ reverting' = reverting \ {r}
        /\ \/ /\ r.kind = "dayDrag"
              /\ StopDay(Known(r), IF r.torn THEN - Above * RowPx ELSE 0, gesture)
           \/ /\ overlay' = {} /\ upset' = upset \ {"torn"}
              /\ hidden' = IF r.torn THEN hidden ELSE hidden \ {r.id}
              /\ UNCHANGED <<events, gesture, hover, helpers, grabs>>
  BY DEF RevertEnds
<1>2. UNCHANGED page /\ reverting' = {}
  BY <1>1 DEF RevertEnds, TypeInv, RevertOK
<1>3. RevertOK'
  BY <1>2 DEF RevertOK
<1>4. Mouse = "none" => gesture = Nothing
  BY HeldIs
<1>5. CASE /\ r.kind = "dayDrag"
           /\ StopDay(Known(r), IF r.torn THEN - Above * RowPx ELSE 0, gesture)
  <2> DEFINE g == Known(r)
             top == IF r.torn THEN - Above * RowPx ELSE 0
  <2>1. BackOK(r) /\ EventsOK
    BY <1>5 DEF TypeInv, RevertOK
  <2>2. g \in DragKnows /\ IsEvent(EventOf(g))
    BY <2>1 DEF BackOK, EventOf, EventsOK
  <2>3. top \in Int
    <3>1. Above \in Nat /\ RowPx \in Nat
      BY GestureAssumption
    <3>2. - Above * RowPx \in Int
      BY <3>1
    <3>3. QED
      BY <3>2
  <2>4. g.kept /\ gesture # Nothing => g.id # gesture.id
    BY <1>4, <2>1 DEF BackOK
  <2>5. StopDay(g, top, gesture)
    BY <1>5
  <2> HIDE DEF g, top
  <2>6. QED
    BY <1>2, <1>3, <2>2, <2>3, <2>4, <2>5, Stopped
<1>6. CASE /\ overlay' = {} /\ upset' = upset \ {"torn"} /\ hidden' \subseteq hidden
           /\ UNCHANGED <<events, gesture, hover, helpers, grabs>>
  <2>1. Mouse' = Mouse /\ IsMonth' = IsMonth /\ EventOf(hover.g)' = EventOf(hover.g)
    BY <1>2, <1>6 DEF Mouse, IsMonth, EventOf
  <2>2. PageOK' /\ EventsOK' /\ GestureOK' /\ ScreenOK'
    BY <1>2, <1>6, <2>1 DEF TypeInv, PageOK, EventsOK, GestureOK, ScreenOK
  <2>3. HoverOK'
    BY <1>6, HoverLeft
  <2>4. HoldOK'
    BY <1>6, <2>1 DEF TypeInv, HoldOK
  <2>5. QED
    BY <1>3, <2>2, <2>3, <2>4 DEF TypeInv
<1>7. QED
  BY <1>1, <1>5, <1>6

-----------------------------------------------------------------------------
(* The edge of an event of day cells, and answers                           *)

\* What the mouse's resize of day cells closes over.
LEMMA EdgeHeldIs ==
  ASSUME TypeInv, Mouse = "dayResize"
  PROVE  /\ gesture \in DayResizes /\ gesture.id \in Own
         /\ hover.g \in ResizeKnows /\ hover.g # Nothing /\ hover.g.id = gesture.id
         /\ hover.g.kind = "dayResize" /\ hover.type = "mousemove"
         /\ IsEvent(EventOf(hover.g))
         /\ "overtaken" \notin upset =>
              /\ hover.g.kept = TRUE /\ gesture.id \in DOMAIN events
              /\ EventOf(hover.g).allDay = TRUE
              /\ EventOf(hover.g) = events[gesture.id]
<1>1. /\ hover.type = "mousemove" /\ hover.g.kind = "dayResize" /\ hover.g.id = gesture.id
      /\ "overtaken" \notin upset => hover.g.kept /\ EventOf(hover.g).allDay
      /\ HoverOK /\ EventsOK
  BY DEF TypeInv, HoldOK
<1>2. hover.g \in ResizeKnows /\ hover.g # Nothing
  BY <1>1, KnowsIs DEF Nothing
<1>3. /\ IsEvent(EventOf(hover.g)) /\ hover.g.kept \in BOOLEAN
      /\ hover.g.kept => hover.g.id \in DOMAIN events /\ EventOf(hover.g) = events[hover.g.id]
  BY <1>1, <1>2, EventOfIs
<1>4. EventOf(hover.g).allDay \in BOOLEAN
  BY <1>3, EventIs
<1>5. QED
  BY <1>1, <1>2, <1>3, <1>4, HeldIs

\* A resize of an event of day cells starts.
LEMMA GrabDayEdgeKeeps ==
  ASSUME TypeInv, NEW id, GrabDayEdge(id)
  PROVE  TypeInv'
<1>1. /\ Free(id) /\ events[id].allDay
      /\ gesture' = [kind |-> "dayResize", id |-> id]
      /\ overlay' = Marked(events[id], 0)
      /\ reverting' = {Keep(r) : r \in reverting}
      /\ UNCHANGED <<page, events, hidden, helpers, upset>>
  BY DEF GrabDayEdge
<1>2. /\ Mouse = "none" /\ id \in DOMAIN events /\ id \in Own /\ id \in Id
      /\ IsEvent(events[id]) /\ events[id] \in EventDate
      /\ grabs' \in Nat
  BY <1>1, FreeIs
<1>3. PageOK /\ EventsOK /\ HoverOK
  BY DEF TypeInv
<1> DEFINE least == DayOffsetToCellOffset(DateToDayOffset(events[id].start, Grid), Grid.start)
           g == [kind |-> "dayResize", id |-> id, event |-> events[id], kept |-> TRUE,
                 least |-> least, dayDelta |-> 0, helper |-> FALSE]
<1>4. PICK piece \in DayPieces(events[id]) :
        hover' = HoverStart("mousemove", [row |-> piece.row, col |-> piece.rightCol], g)
  BY DEF GrabDayEdge
<1>5. events[id].start \in Moment /\ GetEventEnd(events[id]) \in Moment
  BY <1>2, EventIs, EventEndIs
<1>6. [row |-> piece.row, col |-> piece.rightCol] \in Cells
  BY <1>3, <1>5, DayPieceFields DEF DayPieces, Cells
<1>7. least \in Int
  <2>1. DayFirst(events[id].start) \in Int /\ Grid.start \in Int
    BY <1>3, <1>5, DayCellsAre, PageGrid
  <2>2. QED
    BY <2>1, OffsetsAreInts DEF DayFirst
<1> HIDE DEF least
<1>8. g \in ResizeKnows /\ g.id = id /\ g.kept = TRUE /\ g.event = events[id] /\ g.kind = "dayResize"
  BY <1>2, <1>7 DEF ResizeKnows
<1> HIDE DEF g
<1>9. /\ hover' \in Hovers /\ hover'.g = g /\ hover'.g # Nothing
      /\ hover'.type = "mousemove"
  <2>1. "mousemove" \in {"drag", "mousemove"} /\ g \in DragKnows \cup ResizeKnows
    BY <1>8
  <2>2. QED
    BY <1>3, <1>4, <1>6, <2>1, StartIs, Zenon
<1>10. gesture' \in DayResizes /\ gesture'.id = id /\ Mouse' = "dayResize"
  BY <1>1, <1>2 DEF DayResizes, Mouse
<1>11. PageOK' /\ EventsOK'
  BY <1>1, <1>3 DEF PageOK, EventsOK
<1>12. HoverOK'
  <2>1. hover' \in Hovers' /\ Nothing' = Nothing
    BY <1>9 DEF Hovers, Nothing, Cells, DragKnows, ResizeKnows
  <2>2. IsEvent(hover'.g.event) /\ hover'.g.id \in DOMAIN events'
    BY <1>1, <1>2, <1>8, <1>9
  <2>3. QED
    BY <1>9, <2>1, <2>2 DEF HoverOK
<1>13. GestureOK'
  BY <1>10 DEF GestureOK
<1>14. RevertOK'
  BY <1>1, <1>10, KeptBacks
<1>15. ScreenOK'
  BY <1>1, <1>2, MarkedIsOne DEF TypeInv, ScreenOK
<1>16. HoldOK'
  <2>1. EventOf(hover.g)' = events[id]
    BY <1>1, <1>8, <1>9 DEF EventOf
  <2>2. QED
    BY <1>1, <1>8, <1>9, <1>10, <2>1 DEF HoldOK
<1>17. QED
  BY <1>11, <1>12, <1>13, <1>14, <1>15, <1>16 DEF TypeInv

\* The mouse resizes an event of day cells.
LEMMA ResizeDayKeeps ==
  ASSUME TypeInv, NEW p \in Pointer, ResizeDay(p)
  PROVE  TypeInv'
<1> DEFINE heard == Hover("mousemove", Cell(p))
<1>1. /\ Mouse = "dayResize" /\ hover' = heard.hover
      /\ overlay' = heard.screen.overlay /\ hidden' = heard.screen.hidden
      /\ helpers' = heard.screen.helpers
      /\ UNCHANGED <<page, events, gesture, reverting, grabs, upset>>
  BY DEF ResizeDay, Show
<1>2. PageOK /\ EventsOK /\ HoverOK /\ ScreenOK /\ Cell(p) \in Cells
  BY PointsAreCells DEF TypeInv
<1>3. /\ \A m, n \in heard.screen.overlay : m = n
      /\ heard.screen.hidden \subseteq Id /\ heard.screen.helpers \subseteq Own
  BY <1>2, HoverHears
<1> HIDE DEF heard
<1>4. hover.g # Nothing
  BY <1>1, EdgeHeldIs
<1>5. /\ HoverOK'
      /\ hover'.bound = hover.bound /\ hover'.type = hover.type
      /\ Follows(hover'.g) /\ EventOf(hover.g)' = EventOf(hover.g)
  BY <1>1, <1>2, <1>4, HoverKeeps DEF heard
<1>6. PageOK' /\ EventsOK' /\ ScreenOK' /\ GestureOK'
  BY <1>1, <1>2, <1>3 DEF TypeInv, PageOK, EventsOK, ScreenOK, GestureOK, Mouse
<1>7. RevertOK'
  BY <1>1, RevertLeft DEF Mouse
<1>8. HoldOK'
  <2>1. Mouse' = Mouse
    BY <1>1 DEF Mouse
  <2>2. QED
    BY <1>1, <1>5, <2>1 DEF TypeInv, HoldOK, Follows
<1>9. QED
  BY <1>5, <1>6, <1>7, <1>8 DEF TypeInv

\* Where the mouse lets the right edge of an all-day event go.
LEMMA EdgeMoves ==
  ASSUME TypeInv, Mouse = "dayResize",
         EventResize(EventOf(hover.g), hover.g.id,
                     AddDays(GetEventEnd(EventOf(hover.g)), hover.g.dayDelta))
  PROVE  /\ Moved(gesture.id) /\ EventsOK'
         /\ "overtaken" \notin upset =>
              /\ events'[gesture.id].start.at = events[gesture.id].start.at
              /\ GetEventEnd(events'[gesture.id]).at =
                   GetEventEnd(events[gesture.id]).at + hover.g.dayDelta * TicksPerDay
<1> DEFINE e == EventOf(hover.g)
           id == gesture.id
           m == AddDays(GetEventEnd(e), hover.g.dayDelta)
           f == MutateEvents(events[id], Changes(e, <<>>, <<m>>))
<1>1. /\ hover.g \in ResizeKnows /\ hover.g.id = id /\ IsEvent(e) /\ e.allDay \in BOOLEAN
      /\ "overtaken" \notin upset => id \in DOMAIN events /\ e = events[id]
  <2>1. IsEvent(e)
    BY EdgeHeldIs
  <2>2. e.allDay \in BOOLEAN
    BY <2>1, EventIs
  <2>3. QED
    BY <2>2, EdgeHeldIs
<1>2. EventsOK /\ hover.g.dayDelta \in Int
  BY <1>1 DEF TypeInv, ResizeKnows
<1>3. /\ GetEventEnd(e) \in Moment /\ IsNormal(GetEventEnd(e), e.allDay)
      /\ GetEventEnd(e).timed = ~ e.allDay
  <2> HIDE DEF e
  <2>1. GetEventEnd(e) \in Moment /\ IsNormal(GetEventEnd(e), e.allDay)
    BY <1>1, EventEndIs
  <2>2. GetEventEnd(e).timed \in BOOLEAN
    BY <2>1, MomentIs
  <2>3. CASE e.allDay = TRUE
    <3>1. ~ GetEventEnd(e).timed
      BY <2>1, <2>3, NormalDay
    <3>2. QED
      BY <2>1, <2>2, <2>3, <3>1
  <2>4. CASE e.allDay = FALSE
    BY <2>1, <2>2, <2>4 DEF IsNormal
  <2>5. QED
    BY <1>1, <2>1, <2>3, <2>4
<1>4. /\ m \in Moment /\ m.at = GetEventEnd(e).at + hover.g.dayDelta * TicksPerDay
      /\ m.timed = GetEventEnd(e).timed /\ IsNormal(m, e.allDay)
  <2> DEFINE a == e.allDay
  <2>1. a \in BOOLEAN /\ IsNormal(GetEventEnd(e), a)
    BY <1>1, <1>3
  <2> HIDE DEF e, a
  <2>2. /\ m \in Moment /\ m.at = GetEventEnd(e).at + hover.g.dayDelta * TicksPerDay
        /\ m.timed = GetEventEnd(e).timed /\ IsNormal(m, a)
    BY <1>2, <1>3, <2>1, AddDaysIs
  <2>3. QED
    BY <2>2 DEF a
<1>5. Mutate(id, Changes(e, <<>>, <<m>>))
  BY <1>1 DEF EventResize
<1> HIDE DEF e, m
<1>6. IsNormal(m, e.allDay) /\ m.timed = ~ e.allDay
  BY <1>3, <1>4
<1>7. ASSUME id \in DOMAIN events
      PROVE  /\ IsEvent(f)
             /\ events[id] = e => f.start.at = e.start.at /\ GetEventEnd(f).at = m.at
  <2> HIDE DEF id
  <2>1. IsEvent(events[id])
    BY <1>2, <1>7 DEF EventsOK
  <2>2. QED
    BY <1>1, <1>4, <1>6, <2>1, ResizeIs
<1>8. Moved(id) /\ EventsOK' /\ (id \in DOMAIN events => events'[id] = f)
  <2> HIDE DEF id
  <2>1. id \in DOMAIN events => IsEvent(MutateEvents(events[id], Changes(e, <<>>, <<m>>)))
    BY <1>7
  <2>2. QED
    BY <1>2, <1>5, <2>1, MutateMoves
<1> HIDE DEF f
<1>9. QED
  BY <1>1, <1>4, <1>7, <1>8

\* An edge of day cells is let go.
LEMMA ReleaseDayEdgeKeeps ==
  ASSUME TypeInv, ReleaseDayEdge
  PROVE  TypeInv'
<1>1. /\ Mouse = "dayResize" /\ hover' = HoverStop(FALSE) /\ overlay' = {}
      /\ upset' = (upset \ {"torn"}) \cup (IF hover'.bound = {} THEN {} ELSE {"left"})
      /\ UNCHANGED page
  BY DEF ReleaseDayEdge
<1>2. EventsOK /\ HoverOK /\ ScreenOK
  BY DEF TypeInv
<1>3. hover.type = "mousemove"
  BY <1>1, EdgeHeldIs
<1>4. /\ hover' \in Hovers /\ hover'.bound = hover.bound \ {hover.type}
      /\ hover'.g = Nothing => hover' = NoHover
      /\ hover'.g # Nothing => hover'.g = hover.g
  <2>1. FALSE \in BOOLEAN
    OBVIOUS
  <2>2. QED
    BY <1>1, <1>2, <2>1, StopIs
<1>5. /\ EventsOK' /\ DOMAIN events' = DOMAIN events /\ gesture' = Nothing
      /\ hidden' \subseteq hidden /\ helpers' \subseteq helpers /\ grabs' \in {0, grabs}
      /\ reverting' = reverting \/ (reverting' = {Torn(r) : r \in reverting} /\ grabs' = 0)
  <2>1. CASE hover.g.dayDelta # 0
    <3>1. /\ EventResize(EventOf(hover.g), hover.g.id,
                         AddDays(GetEventEnd(EventOf(hover.g)), hover.g.dayDelta))
          /\ hidden' = {} /\ helpers' = {} /\ gesture' = Nothing
          /\ reverting' = {Torn(r) : r \in reverting}
      BY <2>1 DEF ReleaseDayEdge, Rerender, Nothing
    <3>2. EventsOK' /\ Moved(gesture.id)
      BY <1>1, <3>1, EdgeMoves
    <3>3. QED
      BY <3>1, <3>2 DEF Moved
  <2>2. CASE hover.g.dayDelta = 0
    BY <1>2, <2>2 DEF ReleaseDayEdge, EventsOK
  <2>3. QED
    BY <2>1, <2>2
<1>6. ScreenOK'
  <2>1. upset' \subseteq {"torn", "overtaken", "left"}
    BY <1>1, <1>2 DEF ScreenOK
  <2>2. grabs' \in Nat /\ hidden' \subseteq Id /\ helpers' \subseteq Own
    BY <1>2, <1>5 DEF ScreenOK
  <2>3. QED
    BY <1>1, <2>1, <2>2 DEF ScreenOK
<1>7. HoverOK'
  BY <1>4, <1>5, HoverSame
<1>8. "mousemove" \notin hover'.bound
  BY <1>3, <1>4
<1>9. RevertOK'
  <2>1. Mouse' = "none"
    BY <1>5 DEF Mouse, Nothing
  <2>2. QED
    BY <1>1, <1>5, <2>1, RevertLeft
<1>10. QED
  BY <1>1, <1>5, <1>6, <1>7, <1>8, <1>9, Freed

\* What an answer makes of the events that a callback closes over.
LEMMA AsideIs ==
  ASSUME EventsOK, NEW g \in {Nothing} \cup DragKnows \cup ResizeKnows,
         g # Nothing => IsEvent(g.event) /\ (g.kept => g.id \in DOMAIN events)
  PROVE  /\ Aside(g) \in {Nothing} \cup DragKnows \cup ResizeKnows
         /\ g = Nothing => Aside(g) = Nothing
         /\ g \in DragKnows => Aside(g) \in DragKnows
         /\ g # Nothing =>
              /\ Aside(g) # Nothing /\ Aside(g).kind = g.kind /\ Aside(g).id = g.id
              /\ Aside(g).event = EventOf(g) /\ Aside(g).kept = FALSE
              /\ IsEvent(EventOf(g))
<1>1. CASE g = Nothing
  <2>1. Aside(g) = g
    BY <1>1 DEF Aside, Nothing
  <2>2. g \notin DragKnows
    BY <1>1 DEF Nothing, DragKnows
  <2>3. QED
    BY <1>1, <2>1, <2>2
<1>2. CASE g # Nothing
  <2> DEFINE e == EventOf(g)
             k == [g EXCEPT !.event = e, !.kept = FALSE]
  <2>1. IsEvent(e) /\ e \in EventDate
    <3>1. IsEvent(e)
      BY <1>2 DEF EventOf, EventsOK
    <3>2. QED
      BY <3>1 DEF IsEvent
  <2>2. g.id # 0
    BY <1>2, GestureAssumption DEF DragKnows, ResizeKnows
  <2>3. Aside(g) = k
    BY <2>2 DEF Aside
  <2> HIDE DEF e
  <2>4. g \in DragKnows => k \in DragKnows
    BY <2>1 DEF DragKnows
  <2>5. g \in ResizeKnows => k \in ResizeKnows
    BY <2>1 DEF ResizeKnows
  <2>6. k.kind = g.kind /\ k.id = g.id /\ k.event = e /\ k.kept = FALSE
    BY <1>2 DEF DragKnows, ResizeKnows
  <2>7. k # Nothing
    BY <1>2, <2>4, <2>5 DEF Nothing, DragKnows, ResizeKnows
  <2> HIDE DEF k
  <2>8. QED
    BY <1>2, <2>1, <2>3, <2>4, <2>5, <2>6, <2>7 DEF e
<1>3. QED
  BY <1>1, <1>2

\* What it leaves of the HoverListener.
LEMMA Redrawn ==
  ASSUME TypeInv, Redraw
  PROVE  /\ hover' \in Hovers
         /\ hover'.bound = hover.bound /\ hover'.type = hover.type /\ hover'.first = hover.first
         /\ hover'.g = Aside(hover.g)
         /\ hover.g = Nothing => hover' = NoHover
<1>1. EventsOK /\ HoverOK
  BY DEF TypeInv
<1>2. /\ hover \in Hovers /\ hover.g \in {Nothing} \cup DragKnows \cup ResizeKnows
      /\ hover.g = Nothing => hover = NoHover
  BY <1>1, KnowsIs DEF HoverOK
<1> DEFINE h == Dead(hover)
           k == Aside(hover.g)
<1>3. /\ h \in Hovers /\ h.bound = hover.bound /\ h.type = hover.type
      /\ h.first = hover.first /\ h.g = hover.g /\ (hover = NoHover => h = NoHover)
  BY <1>2, DeadIs
<1>4. k \in {Nothing} \cup DragKnows \cup ResizeKnows /\ (hover.g = Nothing => k = Nothing)
  BY <1>1, <1>2, AsideIs DEF HoverOK
<1>5. hover' = [h EXCEPT !.g = Aside(@)]
  BY DEF Redraw
<1> HIDE DEF h
<1>6. hover' = [h EXCEPT !.g = k]
  BY <1>3, <1>5
<1> HIDE DEF k
<1>7. /\ hover' \in Hovers /\ hover'.g = k /\ hover'.bound = h.bound /\ hover'.type = h.type
      /\ hover'.first = h.first
  BY <1>3, <1>4, <1>6 DEF Hovers
<1>8. ASSUME hover.g = Nothing PROVE hover' = NoHover
  <2>1. h = NoHover /\ k = h.g
    BY <1>2, <1>3, <1>4, <1>8
  <2>2. [h EXCEPT !.g = h.g] = h
    BY <1>3 DEF Hovers
  <2>3. QED
    BY <1>6, <2>1, <2>2
<1>9. QED
  BY <1>3, <1>7, <1>8 DEF k

\* What goes back is torn, and knows only of dates before the answer.
LEMMA RevertsRedrawn ==
  ASSUME TypeInv, Redraw, Mouse' = "none" \/ Mouse' = Mouse
  PROVE  RevertOK'
<1>1. RevertOK /\ EventsOK /\ HoverOK
  BY DEF TypeInv
<1>2. reverting' = {[Torn(r) EXCEPT !.g = Aside(@)] : r \in reverting}
  BY DEF Redraw
<1>3. hover'.g = Aside(hover.g)
  BY Redrawn
<1>4. Reverts' = Reverts /\ DragKnows' = DragKnows /\ Nothing' = Nothing
  BY DEF Reverts, DragKnows, ResizeKnows, Nothing
<1>5. ASSUME NEW q \in reverting, NEW r, r = [Torn(q) EXCEPT !.g = Aside(@)]
      PROVE  /\ r \in Reverts
             /\ r.kind = "dayDrag" => BackOK(r)'
             /\ r.own => r.kind = "dayDrag" /\ Mouse' \notin {"dayDrag", "dayResize"}
             /\ r.kind = "slotDrag" \/ r.own => r.g = Nothing
  <2>1. /\ q \in Reverts /\ (q.own => q.kind = "dayDrag" /\ Mouse \notin {"dayDrag", "dayResize"})
        /\ q.kind = "slotDrag" \/ q.own => q.g = Nothing
        /\ q.kind = "dayDrag" => BackOK(q)
    BY <1>1, <1>5 DEF RevertOK
  <2> DEFINE k == Aside(q.g)
             t == Torn(q)
  <2>2. /\ k \in {Nothing} \cup DragKnows \cup ResizeKnows /\ (q.g = Nothing => k = Nothing)
    <3>1. CASE q.g = Nothing
      BY <1>1, <3>1, AsideIs
    <3>2. CASE q.g # Nothing
      <4>1. q.kind = "dayDrag" /\ ~ q.own /\ BackOK(q)
        BY <2>1, <3>2 DEF Reverts
      <4>2. Known(q) = q.g
        BY <4>1 DEF Known
      <4>3. q.g \in DragKnows /\ IsEvent(q.g.event) /\ (q.g.kept => q.g.id \in DOMAIN events)
        BY <4>1, <4>2 DEF BackOK
      <4>4. QED
        BY <1>1, <3>2, <4>3, AsideIs
    <3>3. QED
      BY <3>1, <3>2
  <2>3. /\ t \in Reverts /\ t.kind = q.kind /\ t.id = q.id /\ t.own = q.own /\ t.g = q.g
    BY <2>1 DEF Torn, Reverts
  <2> HIDE DEF t
  <2>4. r = [t EXCEPT !.g = k]
    BY <1>5, <2>3 DEF t
  <2> HIDE DEF k
  <2>5. /\ r \in Reverts /\ r.kind = q.kind /\ r.id = q.id /\ r.own = q.own /\ r.g = k
    BY <2>2, <2>3, <2>4 DEF Reverts
  <2>6. ASSUME q.kind = "dayDrag" PROVE BackOK(r)'
    <3>1. /\ Known(q) \in DragKnows /\ Known(q).id = q.id /\ IsEvent(Known(q).event)
          /\ Known(q).kept => Known(q).id \in DOMAIN events
      BY <2>1, <2>6 DEF BackOK
    <3>2. Known(r)' = Aside(Known(q))
      BY <1>3, <2>5 DEF Known, k
    <3> DEFINE g == Known(q)
    <3>3. g # Nothing /\ g \in {Nothing} \cup DragKnows \cup ResizeKnows /\ g \in DragKnows
      BY <3>1 DEF Nothing, DragKnows
    <3> HIDE DEF g
    <3>4. g # Nothing => IsEvent(g.event) /\ (g.kept => g.id \in DOMAIN events)
      BY <3>1 DEF g
    <3>5. /\ Aside(g) \in DragKnows /\ Aside(g).id = g.id
          /\ Aside(g).event = EventOf(g) /\ Aside(g).kept = FALSE
          /\ IsEvent(EventOf(g))
      BY <1>1, <3>3, <3>4, AsideIs
    <3>6. QED
      BY <1>4, <2>5, <3>1, <3>2, <3>5 DEF BackOK, g
  <2>7. QED
    BY <2>1, <2>2, <2>5, <2>6
<1>6. \A r, s \in reverting' : r = s
  BY <1>1, <1>2 DEF RevertOK
<1>7. ASSUME NEW r \in reverting'
      PROVE  \E q \in reverting : r = [Torn(q) EXCEPT !.g = Aside(@)]
  BY <1>2
<1>8. \A r \in reverting' :
        /\ r \in Reverts
        /\ r.kind = "dayDrag" => BackOK(r)'
        /\ r.own => r.kind = "dayDrag" /\ Mouse' \notin {"dayDrag", "dayResize"}
        /\ r.kind = "slotDrag" \/ r.own => r.g = Nothing
  BY <1>5, <1>7
<1>9. QED
  BY <1>4, <1>6, <1>8 DEF RevertOK

\* An answer replaces all events and draws them again.
LEMMA RedrawKeeps ==
  ASSUME TypeInv, Redraw
  PROVE  TypeInv'
<1>1. /\ hidden' = {} /\ helpers' = {}
      /\ gesture' = IF Mouse = "dayResize" THEN gesture ELSE Nothing
      /\ Mouse = "dayResize" => "overtaken" \in upset'
      /\ upset' \subseteq upset \cup {"overtaken", "torn"}
      /\ UNCHANGED <<page, overlay, grabs>>
  BY DEF Redraw, Rerender, Mouse
<1>2. PICK shown \in SUBSET DOMAIN page.server : events' = [id \in shown |-> page.server[id]]
  BY DEF Redraw
<1>3. EventsOK /\ HoverOK /\ ScreenOK /\ PageOK /\ HoldOK
  BY DEF TypeInv
<1>4. EventsOK'
  BY <1>2, <1>3 DEF EventsOK, PageOK, AreEvents
<1>5. /\ hover' \in Hovers
      /\ hover'.bound = hover.bound /\ hover'.type = hover.type
      /\ hover.g = Nothing => hover' = NoHover
      /\ hover.g # Nothing =>
           /\ hover'.g # Nothing /\ hover'.g.kind = hover.g.kind /\ hover'.g.id = hover.g.id
           /\ hover'.g.event = EventOf(hover.g) /\ hover'.g.kept = FALSE
           /\ IsEvent(EventOf(hover.g))
  <2>1. hover.g \in {Nothing} \cup DragKnows \cup ResizeKnows
    BY <1>3, KnowsIs
  <2>2. hover.g # Nothing =>
          IsEvent(hover.g.event) /\ (hover.g.kept => hover.g.id \in DOMAIN events)
    BY <1>3 DEF HoverOK
  <2>3. hover.g # Nothing =>
           /\ Aside(hover.g) # Nothing /\ Aside(hover.g).kind = hover.g.kind
           /\ Aside(hover.g).id = hover.g.id
           /\ Aside(hover.g).event = EventOf(hover.g) /\ Aside(hover.g).kept = FALSE
           /\ IsEvent(EventOf(hover.g))
    BY <1>3, <2>1, <2>2, AsideIs
  <2>4. QED
    BY <2>3, Redrawn
<1>6. HoverOK'
  <2>1. hover' \in Hovers' /\ Nothing' = Nothing /\ NoHover' = NoHover
    BY <1>5 DEF Hovers, Nothing, NoHover, Cells, DragKnows, ResizeKnows, NoCell
  <2>2. hover' \in Hovers' /\ (hover'.g = Nothing' => hover' = NoHover')
    BY <1>5, <2>1
  <2>3. hover'.g # Nothing => IsEvent(hover'.g.event) /\ hover'.g.kept = FALSE
    <3>1. CASE hover.g = Nothing
      BY <1>5, <3>1 DEF NoHover, Nothing
    <3>2. CASE hover.g # Nothing
      BY <1>5, <3>2
    <3>3. QED
      BY <3>1, <3>2
  <2>4. QED
    BY <2>1, <2>2, <2>3 DEF HoverOK
<1>7. PageOK' /\ ScreenOK'
  BY <1>1, <1>3 DEF PageOK, ScreenOK
<1>8. CASE Mouse = "dayResize"
  <2>1. gesture \in DayResizes /\ gesture' = gesture /\ Mouse' = "dayResize"
    BY <1>1, <1>8, HeldIs DEF Mouse
  <2>2. GestureOK'
    BY <1>1, <2>1 DEF GestureOK
  <2>3. RevertOK'
    BY <1>8, <2>1, RevertsRedrawn
  <2>4. hover.g # Nothing
    BY <1>8, EdgeHeldIs
  <2>5. HoldOK'
    BY <1>1, <1>3, <1>5, <1>8, <2>1, <2>4 DEF HoldOK
  <2>6. QED
    BY <1>4, <1>6, <1>7, <2>2, <2>3, <2>5 DEF TypeInv
<1>9. CASE Mouse # "dayResize"
  <2>1. gesture' = Nothing /\ Mouse' = "none"
    BY <1>1, <1>9 DEF Mouse, Nothing
  <2>2. GestureOK'
    BY <1>1, <2>1 DEF GestureOK, Nothing
  <2>3. RevertOK'
    BY <2>1, RevertsRedrawn
  <2>4. "mousemove" \notin hover'.bound
    BY <1>5, <1>9, HeldIs
  <2>5. HoldOK'
    BY <2>1, <2>4 DEF HoldOK
  <2>6. QED
    BY <1>4, <1>6, <1>7, <2>2, <2>3, <2>5 DEF TypeInv
<1>10. QED
  BY <1>8, <1>9

\* Every step keeps it.
LEMMA NextTypeInv ==
  ASSUME TypeInv, [Next]_vars
  PROVE  TypeInv'
<1>1. ASSUME NEW id \in Own, NEW p \in Pointer, GrabSlot(id, p) PROVE TypeInv'
  BY <1>1, GrabSlotKeeps
<1>2. ASSUME NEW id \in Own, NEW p \in Pointer, GrabDay(id, p) PROVE TypeInv'
  BY <1>2, GrabDayKeeps
<1>3. ASSUME NEW id \in Own, GrabSlotEdge(id) \/ GrabDayEdge(id) PROVE TypeInv'
  BY <1>3, GrabSlotEdgeKeeps, GrabDayEdgeKeeps
<1>4. ASSUME NEW p \in Pointer, DragSlot(p) \/ DragDay(p) \/ ResizeDay(p) PROVE TypeInv'
  BY <1>4, DragSlotKeeps, DragDayKeeps, ResizeDayKeeps
<1>5. ASSUME NEW row \in 0..MaxTime - MinTime - 1, ResizeSlot(row) PROVE TypeInv'
  BY <1>5, ResizeSlotKeeps
<1>6. ASSUME ReleaseSlot \/ ReleaseSlotEdge \/ ReleaseDay \/ ReleaseDayEdge PROVE TypeInv'
  BY <1>6, ReleaseSlotKeeps, ReleaseSlotEdgeKeeps, ReleaseDayKeeps, ReleaseDayEdgeKeeps
<1>7. ASSUME RevertEnds \/ Redraw PROVE TypeInv'
  BY <1>7, RevertEndsKeeps, RedrawKeeps
<1>8. CASE UNCHANGED vars
  <2>1. UNCHANGED <<page, events, gesture, reverting, hover, overlay, hidden, helpers, grabs, upset>>
    BY <1>8 DEF vars, screen
  <2>2. PageOK' /\ EventsOK' /\ GestureOK' /\ ScreenOK'
    BY <2>1 DEF TypeInv, PageOK, EventsOK, GestureOK, ScreenOK, Mouse
  <2>3. HoverOK' /\ RevertOK'
    <3>1. Follows(hover.g) /\ Mouse' = Mouse
      BY <2>1 DEF Follows, Mouse
    <3>2. QED
      BY <2>1, <3>1, HoverLeft, RevertLeft
  <2>4. EventOf(hover.g)' = EventOf(hover.g) /\ IsMonth' = IsMonth /\ Mouse' = Mouse
    BY <2>1 DEF EventOf, IsMonth, Mouse
  <2>5. HoldOK'
    BY <2>1, <2>4 DEF TypeInv, HoldOK
  <2>6. QED
    BY <2>2, <2>3, <2>5 DEF TypeInv
<1>9. QED
  BY <1>1, <1>2, <1>3, <1>4, <1>5, <1>6, <1>7, <1>8 DEF Next

\* So it always holds.
LEMMA AlwaysTypeInv == Spec => []TypeInv
<1>1. Init => TypeInv
  BY InitTypeInv
<1>2. TypeInv /\ [Next]_vars => TypeInv'
  BY NextTypeInv
<1>3. QED
  BY <1>1, <1>2, PTL DEF Spec

\* A set all of whose members are equal has at most one.
LEMMA AtMostOne ==
  ASSUME NEW S, \A x, y \in S : x = y
  PROVE  Cardinality(S) <= 1
<1>1. CASE S = {}
  BY <1>1, FS_EmptySet
<1>2. CASE S # {}
  <2>1. PICK x \in S : TRUE
    BY <1>2
  <2>2. S = {x}
    BY <2>1
  <2>3. QED
    BY <2>2, FS_Singleton
<1>3. QED
  BY <1>1, <1>2

\* The variables hold what the code stores in them: the mouse holds one of four
\* gestures of an event the user may move, one element at most goes back, one range at
\* most is marked, and every event has the dates buildEvent and mutateEvent leave.
THEOREM TypeCorrect == Spec => []TypeOK
<1>1. TypeInv => TypeOK
  <2> SUFFICES ASSUME TypeInv PROVE TypeOK
    OBVIOUS
  <2>1. page.view \in ViewName /\ grabs \in Nat
    BY DEF TypeInv, PageOK, ScreenOK
  <2>2. DOMAIN events \subseteq Id /\ \A id \in DOMAIN events : IsEvent(events[id])
    BY DEF TypeInv, EventsOK
  <2>3. /\ gesture.kind \in {"none", "slotDrag", "slotResize", "dayDrag", "dayResize"}
        /\ Mouse # "none" => gesture.id \in Own
    BY HeldIs DEF Mouse
  <2>4. /\ \A r \in reverting : r.kind \in {"slotDrag", "dayDrag"} /\ r.id \in Own
        /\ Cardinality(reverting) <= 1
    <3>1. RevertOK
      BY DEF TypeInv
    <3>2. \A r \in reverting : r \in Reverts
      BY <3>1 DEF RevertOK
    <3>3. \A r \in reverting : r.kind \in {"slotDrag", "dayDrag"} /\ r.id \in Own
      BY <3>2 DEF Reverts
    <3>4. Cardinality(reverting) <= 1
      BY <3>1, AtMostOne DEF RevertOK
    <3>5. QED
      BY <3>3, <3>4
  <2>5. hover.bound \subseteq {"drag", "mousemove"}
    BY KnowsIs DEF TypeInv
  <2>6. /\ Cardinality(overlay) <= 1 /\ hidden \subseteq Id /\ helpers \subseteq Own
        /\ upset \subseteq {"torn", "overtaken", "left"}
    BY AtMostOne DEF TypeInv, ScreenOK
  <2>7. QED
    BY <2>1, <2>2, <2>3, <2>4, <2>5, <2>6 DEF TypeOK
<1>2. QED
  BY <1>1, AlwaysTypeInv, PTL

-----------------------------------------------------------------------------
(* What is marked, hidden and drawn in an event's place                     *)

\* The days marked are those of e, the first moved by first days, the last by last.
MarksAre(e, first, last) ==
  \A mark \in overlay : /\ mark[1].at = e.start.at + first * TicksPerDay
                        /\ mark[2].at = GetEventEnd(e).at + last * TicksPerDay

\* The edge that the mouse holds is drawn, or the helper that stands for it.
EdgeDrawn ==
  (Mouse = "dayResize" /\ "overtaken" \notin upset) =>
    DayPieces(events[gesture.id]) # {} /\ hover.g.helper = (hover.g.dayDelta # 0)

\* No drag of a timed event over slots marks a day; over the all-day row it marks the one
\* it would drop on.
SlotMarked ==
  (hover.bound = {} /\ "torn" \notin upset) =>
    IF Mouse = "slotDrag" /\ gesture.inBounds /\ gesture.allDay
    THEN overlay \subseteq {<<DraggedStart(gesture), DraggedEnd(gesture)>>}
    ELSE overlay = {}

\* No range is marked for a free mouse, nor while it sizes a timed event, unless something
\* goes back or a gesture was torn off.
FreeMarked ==
  (Mouse \in {"none", "slotResize"} /\ reverting = {} /\ "torn" \notin upset) => overlay = {}

\* A drag of day cells marks the days it would drop the event on.
DayMarked ==
  Mouse = "dayDrag" =>
    /\ MarksAre(events[gesture.id], hover.g.dayDelta, hover.g.dayDelta)
    /\ overlay # {} => IsMonth \/ hover.g.allDay

\* A resize of day cells marks the days the event would last.
EdgeMarked ==
  (Mouse = "dayResize" /\ "overtaken" \notin upset) =>
    MarksAre(events[gesture.id], 0, hover.g.dayDelta)

\* Who hears a drag, closes over one.
DragsHeard ==
  ("left" \notin upset /\ "drag" \in hover.bound /\ Mouse # "dayResize") =>
    hover.g.kind \in {"monthDrag", "agendaDrag"}

\* A resize that has added days has its helper.
EdgeHelped == (Mouse = "dayResize" /\ hover.g.dayDelta # 0) => hover.g.helper

\* The event whose element the mouse moves, the one that it makes longer or shorter, the
\* one whose helper it sizes, and those that go back.
Held == IF Mouse \in {"slotDrag", "slotResize", "dayDrag"} THEN {gesture.id} ELSE {}

Sized == IF Mouse = "dayResize" /\ hover.g.dayDelta # 0 THEN {gesture.id} ELSE {}

Resized == IF Mouse = "dayResize" /\ hover.g.helper THEN {gesture.id} ELSE {}

Backs == {r.id : r \in {q \in reverting : ~ q.torn}}

\* Hidden is what the mouse holds or what goes back; the edge held, only while its event
\* has elements to hide.
HiddenClean ==
  "left" \notin upset =>
    /\ hidden \subseteq Held \cup Backs \cup Sized
    /\ Mouse = "dayResize" /\ gesture.id \in hidden => IsDrawn(gesture.id)

\* A helper stands for the edge held.
HelpersClean ==
  ("left" \notin upset /\ "overtaken" \notin upset) => helpers \subseteq Resized

\* The invariant of what the screen shows beside the events.
MarkInv ==
  /\ EdgeDrawn /\ EdgeHelped /\ SlotMarked /\ FreeMarked /\ DayMarked /\ EdgeMarked
  /\ DragsHeard /\ HiddenClean /\ HelpersClean

\* An event is drawn where it was.
LEMMA DrawnSame ==
  ASSUME UNCHANGED <<page, events>>, NEW id
  PROVE  IsDrawn(id)' = IsDrawn(id)
<1> DEFINE Slots(es, grid) ==
             UNION {{[col |-> c, seg |-> s] : s \in
                SlotSegs([i \in {id} |-> es[id]],
                     CellToDate([row |-> 0, col |-> c], grid.colCnt, grid.start)
                       * TicksPerDay + MinTime,
                     CellToDate([row |-> 0, col |-> c], grid.colCnt, grid.start)
                       * TicksPerDay + MaxTime)}
                 : c \in 0..grid.colCnt - 1}
<1>1. SlotPieces(id) = Slots(events, page.grid)
  BY DEF SlotPieces, DateOf, Grid
<1>2. SlotPieces(id)' = Slots(events', page'.grid)
  BY DEF SlotPieces, DateOf, Grid
<1> HIDE DEF Slots
<1>3. SlotPieces(id)' = SlotPieces(id)
  BY <1>1, <1>2
<1>4. DayPieces(events[id])' = DayPieces(events[id])
  BY DEF DayPieces, Grid
<1>5. QED
  BY <1>3, <1>4 DEF IsDrawn, IsMonth

\* So is the event of the gesture.
LEMMA HeldSame ==
  ASSUME UNCHANGED <<page, events, gesture>>
  PROVE  IsDrawn(gesture.id)' = IsDrawn(gesture.id)
<1>1. PICK i : i = gesture.id
  OBVIOUS
<1>2. IsDrawn(i)' = IsDrawn(i)
  BY DrawnSame
<1>3. gesture'.id = i
  BY <1>1
<1>4. IsDrawn(gesture.id)' = IsDrawn(i)'
  BY <1>3
<1>5. QED
  BY <1>1, <1>2, <1>4

\* Nothing is marked, hidden or drawn on a page that is ready.
LEMMA InitMarkInv ==
  ASSUME Init
  PROVE  MarkInv
<1>1. /\ Mouse = "none" /\ overlay = {} /\ hidden = {} /\ helpers = {} /\ hover.bound = {}
  BY DEF Init, Mouse, Nothing, NoHover
<1>2. EdgeDrawn /\ EdgeHelped /\ SlotMarked /\ FreeMarked /\ DayMarked /\ EdgeMarked
  BY <1>1 DEF EdgeDrawn, EdgeHelped, SlotMarked, FreeMarked, DayMarked, EdgeMarked
<1>3. DragsHeard /\ HiddenClean /\ HelpersClean
  BY <1>1 DEF DragsHeard, HiddenClean, HelpersClean
<1>4. QED
  BY <1>2, <1>3 DEF MarkInv

\* A free mouse has nothing marked, hidden or drawn that it would have to undo.
LEMMA FreeMarks ==
  ASSUME MarkInv, Mouse = "none"
  PROVE  /\ hover.bound = {} /\ "torn" \notin upset => overlay = {}
         /\ reverting = {} /\ "torn" \notin upset => overlay = {}
         /\ "left" \notin upset => hidden \subseteq Backs
         /\ "left" \notin upset /\ "overtaken" \notin upset => helpers = {}
BY DEF MarkInv, SlotMarked, FreeMarked, HiddenClean, HelpersClean, Held, Sized, Resized


\* What goes back has the same events, whoever has the callback.
LEMMA KeptSame ==
  ASSUME RevertOK, reverting' = {Keep(r) : r \in reverting}
  PROVE  Backs' = Backs /\ (reverting' = {} <=> reverting = {})
<1>1. \A r \in reverting : Keep(r).id = r.id /\ Keep(r).torn = r.torn
  BY DEF RevertOK, Reverts, Keep
<1>2. Backs' \subseteq Backs
  <2>1. SUFFICES ASSUME NEW r \in reverting', ~ r.torn PROVE r.id \in Backs
    BY DEF Backs
  <2>2. PICK q \in reverting : r = Keep(q)
    BY <2>1
  <2>3. QED
    BY <1>1, <2>1, <2>2 DEF Backs
<1>3. Backs \subseteq Backs'
  <2>1. SUFFICES ASSUME NEW r \in reverting, ~ r.torn PROVE r.id \in Backs'
    BY DEF Backs
  <2>2. Keep(r) \in reverting' /\ Keep(r).id = r.id /\ ~ Keep(r).torn
    BY <1>1, <2>1
  <2>3. QED
    BY <2>2 DEF Backs
<1>4. QED
  BY <1>2, <1>3

\* A gesture of slots begins.
LEMMA SlotGrabMarks ==
  ASSUME MarkInv, Mouse = "none", NEW id, Mouse' \in {"slotDrag", "slotResize"},
         gesture'.id = id, Mouse' = "slotDrag" => gesture'.allDay = FALSE,
         hidden' = hidden \cup {id},
         UNCHANGED <<page, events, reverting, hover, overlay, helpers, upset>>
  PROVE  MarkInv'
<1>1. EdgeDrawn' /\ EdgeHelped' /\ DayMarked' /\ EdgeMarked'
  BY DEF EdgeDrawn, EdgeHelped, DayMarked, EdgeMarked
<1>2. SlotMarked' /\ FreeMarked'
  BY FreeMarks DEF SlotMarked, FreeMarked
<1>3. DragsHeard'
  BY DEF MarkInv, DragsHeard
<1>4. HiddenClean' /\ HelpersClean'
  <2>1. Backs' = Backs /\ Held' = {id}
    BY DEF Backs, Held
  <2>2. QED
    BY <2>1, FreeMarks DEF HiddenClean, HelpersClean
<1>5. QED
  BY <1>1, <1>2, <1>3, <1>4 DEF MarkInv

\* A drag of a timed event starts.
LEMMA GrabSlotMarks ==
  ASSUME TypeInv, MarkInv, NEW id, NEW p, GrabSlot(id, p)
  PROVE  MarkInv'
<1>1. /\ Free(id) /\ hidden' = hidden \cup {id}
      /\ gesture' = [kind |-> "slotDrag", id |-> id, from |-> p, inBounds |-> TRUE,
                     allDay |-> FALSE, colDelta |-> 0, dayDelta |-> 0, snapDelta |-> 0]
      /\ UNCHANGED <<page, events, reverting, hover, overlay, helpers, upset>>
  BY DEF GrabSlot
<1>2. Mouse = "none" /\ Mouse' = "slotDrag" /\ gesture'.id = id /\ gesture'.allDay = FALSE
  BY <1>1 DEF Free, Mouse
<1>3. QED
  BY <1>1, <1>2, SlotGrabMarks

\* A resize of a timed event starts.
LEMMA GrabSlotEdgeMarks ==
  ASSUME TypeInv, MarkInv, NEW id, GrabSlotEdge(id)
  PROVE  MarkInv'
<1>1. /\ Free(id) /\ hidden' = hidden \cup {id}
      /\ UNCHANGED <<page, events, reverting, hover, overlay, helpers, upset>>
      /\ gesture'.kind = "slotResize" /\ gesture'.id = id
  BY DEF GrabSlotEdge
<1>2. Mouse = "none" /\ Mouse' = "slotResize"
  BY <1>1 DEF Free, Mouse
<1>3. QED
  BY <1>1, <1>2, SlotGrabMarks

\* When the HoverListener hears a drag, nothing is hidden or shown.
LEMMA DragHides ==
  ASSUME TypeInv, NEW cell \in Cells,
         "drag" \in hover.bound => hover.g.kind \in {"monthDrag", "agendaDrag"},
         NEW heard, heard = Hover("drag", cell)
  PROVE  /\ heard.screen = Screen(heard.screen.overlay, hidden, helpers)
         /\ "drag" \notin hover.bound => HeardNothing(heard)
         /\ \/ HeardNothing(heard)
            \/ heard.screen.overlay = {}
            \/ /\ heard.screen.overlay = Marked(EventOf(hover.g), heard.hover.g.dayDelta)
               /\ hover.g.kind = "agendaDrag" /\ hover.alive => heard.hover.g.allDay
<1> DEFINE told == Change(cell)
<1>1. PageOK /\ EventsOK /\ HoverOK
  BY DEF TypeInv
<1>2. \/ HeardNothing(heard)
      \/ HeardTold(heard, "drag", cell, told)
  BY <1>1, HoverCases
<1>3. CASE HeardNothing(heard)
  BY <1>3 DEF HeardNothing, Unseen, Screen
<1>4. CASE HeardTold(heard, "drag", cell, told)
  <2>1. "drag" \in hover.bound /\ heard.screen = told.screen /\ heard.hover.g = told.g
    BY <1>4 DEF HeardTold
  <2>2. /\ told.screen = Screen(told.screen.overlay, hidden, helpers)
        /\ \/ told.screen.overlay = {}
           \/ /\ told.screen.overlay = Marked(EventOf(hover.g), told.g.dayDelta)
              /\ hover.g.kind = "agendaDrag" /\ hover.alive => told.g.allDay
    BY <1>1, <2>1, DragTells
  <2> HIDE DEF told
  <2>3. QED
    BY <2>1, <2>2
<1>5. QED
  BY <1>2, <1>3, <1>4

\* The mouse drags a timed event.
LEMMA DragSlotMarks ==
  ASSUME TypeInv, TypeInv', MarkInv, NEW p \in Pointer, DragSlot(p)
  PROVE  MarkInv'
<1> DEFINE heard == Hover("drag", Cell(p))
           g == IF heard.throws THEN gesture ELSE Dragged(gesture, p)
           over == IF g = gesture THEN heard.screen.overlay
                   ELSE IF g.inBounds /\ g.allDay
                   THEN {<<DraggedStart(g), DraggedEnd(g)>>} ELSE {}
           screen2 == [heard.screen EXCEPT !.overlay = over]
<1>1. /\ Mouse = "slotDrag" /\ hover' = heard.hover /\ gesture' = g
      /\ UNCHANGED <<page, events, reverting, grabs, upset>>
      /\ overlay' = screen2.overlay /\ hidden' = screen2.hidden /\ helpers' = screen2.helpers
  BY DEF DragSlot, Show
<1>2. Cell(p) \in Cells /\ PageOK
  BY PointsAreCells DEF TypeInv
<1>3. gesture \in SlotDrags
  BY <1>1, HeldIs
<1>4. g \in SlotDrags /\ g.id = gesture.id
  BY <1>2, <1>3, DraggedIs
<1>5. Mouse' = "slotDrag" /\ gesture'.id = gesture.id
  BY <1>1, <1>4 DEF Mouse, SlotDrags
<1>6. /\ heard.screen = Screen(heard.screen.overlay, heard.screen.hidden, heard.screen.helpers)
  BY <1>2, HoverHears DEF TypeInv
<1>7. /\ hover'.bound = hover.bound
      /\ hover.g # Nothing => hover'.g.kind = hover.g.kind
  <2> HIDE DEF heard
  <2>1. QED
    BY <1>1, <1>2, HoverKeeps DEF heard, Follows
<1>8. hover.bound = {} => HeardNothing(heard)
  <2>1. hover.bound = {} => "drag" \notin hover.bound
    OBVIOUS
  <2>2. QED
    BY <1>2, <2>1, DragHides
<1>9. ("left" \notin upset) => heard.screen.hidden = hidden /\ heard.screen.helpers = helpers
  <2>1. SUFFICES ASSUME "left" \notin upset
                 PROVE  heard.screen.hidden = hidden /\ heard.screen.helpers = helpers
    OBVIOUS
  <2>2. "drag" \in hover.bound => hover.g.kind \in {"monthDrag", "agendaDrag"}
    BY <1>1, <2>1 DEF MarkInv, DragsHeard
  <2>3. heard.screen = Screen(heard.screen.overlay, hidden, helpers)
    BY <1>2, <2>2, DragHides
  <2> HIDE DEF heard
  <2>4. QED
    BY <2>3 DEF Screen
<1> HIDE DEF heard, g
<1>10. overlay' = over /\ hidden' = heard.screen.hidden /\ helpers' = heard.screen.helpers
  <2> HIDE DEF over
  <2>1. QED
    BY <1>1, <1>6 DEF Screen
<1> HIDE DEF screen2
<1>11. SlotMarked'
  <2>1. SUFFICES ASSUME hover'.bound = {}, "torn" \notin upset'
                 PROVE  IF gesture'.inBounds /\ gesture'.allDay
                        THEN overlay' \subseteq {<<DraggedStart(g), DraggedEnd(g)>>}
                        ELSE overlay' = {}
    BY <1>1, <1>5 DEF SlotMarked, DraggedStart, DraggedEnd
  <2>2. heard.screen = Unseen /\ hover.bound = {} /\ "torn" \notin upset
    BY <1>1, <1>7, <1>8, <2>1 DEF HeardNothing
  <2>3. heard.screen.overlay = overlay
    BY <2>2 DEF Unseen, Screen
  <2>4. IF gesture.inBounds /\ gesture.allDay
        THEN overlay \subseteq {<<DraggedStart(gesture), DraggedEnd(gesture)>>}
        ELSE overlay = {}
    BY <1>1, <2>2 DEF MarkInv, SlotMarked
  <2>5. QED
    BY <1>1, <1>10, <2>3, <2>4
<1>12. EdgeDrawn' /\ EdgeHelped' /\ FreeMarked' /\ DayMarked' /\ EdgeMarked'
  BY <1>5 DEF EdgeDrawn, EdgeHelped, FreeMarked, DayMarked, EdgeMarked
<1>13. DragsHeard'
  <2>1. "drag" \in hover.bound => hover.g # Nothing
    BY KnowsIs DEF TypeInv
  <2>2. QED
    BY <1>1, <1>5, <1>7, <2>1 DEF MarkInv, DragsHeard
<1>14. HiddenClean' /\ HelpersClean'
  <2>1. /\ Held' = Held /\ Sized' = Sized /\ Resized' = Resized /\ Backs' = Backs
        /\ Mouse' = "slotDrag"
    BY <1>1, <1>5 DEF Held, Sized, Resized, Backs
  <2>2. QED
    BY <1>1, <1>9, <1>10, <2>1 DEF MarkInv, HiddenClean, HelpersClean
<1>15. QED
  BY <1>11, <1>12, <1>13, <1>14 DEF MarkInv

\* The mouse is free.
LEMMA FreedMarks ==
  ASSUME gesture' = Nothing,
         (hover'.bound = {} /\ "torn" \notin upset') => overlay' = {},
         (reverting' = {} /\ "torn" \notin upset') => overlay' = {},
         ("left" \notin upset' /\ "drag" \in hover'.bound) =>
           hover'.g.kind \in {"monthDrag", "agendaDrag"},
         "left" \notin upset' => hidden' \subseteq Backs',
         ("left" \notin upset' /\ "overtaken" \notin upset') => helpers' = {}
  PROVE  MarkInv'
<1>1. Mouse' = "none"
  BY DEF Mouse, Nothing
<1>2. EdgeDrawn' /\ EdgeHelped' /\ SlotMarked' /\ FreeMarked' /\ DayMarked' /\ EdgeMarked'
  BY <1>1 DEF EdgeDrawn, EdgeHelped, SlotMarked, FreeMarked, DayMarked, EdgeMarked
<1>3. DragsHeard'
  BY <1>1 DEF DragsHeard
<1>4. HiddenClean' /\ HelpersClean'
  BY <1>1 DEF HiddenClean, HelpersClean
<1>5. QED
  BY <1>2, <1>3, <1>4 DEF MarkInv

\* An element that goes back is what the mouse held.
LEMMA BackMarks ==
  ASSUME MarkInv, Mouse \in {"slotDrag", "dayDrag"}, NEW kind, NEW own, GoBack(kind, own),
         UNCHANGED <<page, events, hover, screen, grabs, upset>>,
         Mouse = "slotDrag" => ~ gesture.inBounds
  PROVE  MarkInv'
<1>0. PICK r : r = [kind |-> kind, id |-> gesture.id, torn |-> FALSE, own |-> own, g |-> NoHover.g]
  OBVIOUS
<1>1. reverting = {} /\ reverting' = {r} /\ gesture' = Nothing /\ r.id = gesture.id /\ r.torn = FALSE
  BY <1>0 DEF GoBack
<1>2. Backs' = {gesture.id} /\ Backs = {}
  BY <1>1 DEF Backs
<1>3. UNCHANGED <<overlay, hidden, helpers>>
  BY DEF screen
<1>4. (hover'.bound = {} /\ "torn" \notin upset') => overlay' = {}
  BY <1>3 DEF MarkInv, SlotMarked
<1>5. reverting' # {}
  BY <1>1
<1>6. ("left" \notin upset' /\ "drag" \in hover'.bound) =>
        hover'.g.kind \in {"monthDrag", "agendaDrag"}
  BY DEF MarkInv, DragsHeard
<1>7. "left" \notin upset' => hidden' \subseteq Backs'
  BY <1>2, <1>3 DEF MarkInv, HiddenClean, Held, Sized
<1>8. ("left" \notin upset' /\ "overtaken" \notin upset') => helpers' = {}
  BY <1>3 DEF MarkInv, HelpersClean, Resized
<1>9. QED
  BY <1>1, <1>4, <1>5, <1>6, <1>7, <1>8, FreedMarks

\* A gesture ends with a drop, or shows the event it held; what goes back goes on, or has
\* left the page.
LEMMA EndMarks ==
  ASSUME MarkInv, Mouse \in {"slotDrag", "slotResize"}, gesture' = Nothing,
         hover'.bound = hover.bound, hover'.g = hover.g,
         upset \ {"torn"} \subseteq upset',
         \/ overlay' = {}
         \/ Mouse = "slotResize" /\ UNCHANGED <<overlay, upset>>,
         \/ hidden' = {} /\ helpers' = {} /\ reverting' = {Torn(r) : r \in reverting}
         \/ hidden' = hidden \ {gesture.id} /\ helpers' = helpers /\ reverting' = reverting
  PROVE  MarkInv'
<1>1. (hover'.bound = {} /\ "torn" \notin upset') => overlay' = {}
  BY DEF MarkInv, SlotMarked
<1>2. (reverting' = {} /\ "torn" \notin upset') => overlay' = {}
  <2>1. reverting' = {} => reverting = {}
    OBVIOUS
  <2>2. QED
    BY <2>1 DEF MarkInv, FreeMarked
<1>3. ("left" \notin upset' /\ "drag" \in hover'.bound) =>
        hover'.g.kind \in {"monthDrag", "agendaDrag"}
  BY DEF MarkInv, DragsHeard
<1>4. "left" \notin upset' => hidden' \subseteq Backs'
  <2>1. CASE hidden' = {}
    BY <2>1
  <2>2. CASE hidden' = hidden \ {gesture.id} /\ reverting' = reverting
    <3>1. Backs' = Backs
      BY <2>2 DEF Backs
    <3>2. QED
      BY <2>2, <3>1 DEF MarkInv, HiddenClean, Held, Sized
  <2>3. QED
    BY <2>1, <2>2
<1>5. ("left" \notin upset' /\ "overtaken" \notin upset') => helpers' = {}
  BY DEF MarkInv, HelpersClean, Resized
<1>6. QED
  BY <1>1, <1>2, <1>3, <1>4, <1>5, FreedMarks

\* A timed event is dropped.
LEMMA ReleaseSlotMarks ==
  ASSUME TypeInv, MarkInv, ReleaseSlot
  PROVE  MarkInv'
<1>1. Mouse = "slotDrag" /\ UNCHANGED page
  BY DEF ReleaseSlot
<1>2. CASE ~ gesture.inBounds
  <2>1. GoBack("slotDrag", FALSE) /\ UNCHANGED <<page, events, hover, screen, grabs, upset>>
    BY <1>1, <1>2 DEF ReleaseSlot
  <2>2. QED
    BY <1>1, <1>2, <2>1, BackMarks
<1>3. CASE gesture.inBounds
  <2>1. /\ overlay' = {} /\ upset' = upset \ {"torn"} /\ gesture' = Nothing
        /\ hover' \in {hover, Dead(hover)}
        /\ \/ hidden' = {} /\ helpers' = {} /\ reverting' = {Torn(r) : r \in reverting}
           \/ hidden' = hidden \ {gesture.id} /\ helpers' = helpers /\ reverting' = reverting
    BY <1>3 DEF ReleaseSlot, Rerender, Nothing
  <2>2. hover'.bound = hover.bound /\ hover'.g = hover.g
    BY <2>1, DeadIs DEF TypeInv, HoverOK
  <2>3. QED
    BY <1>1, <2>1, <2>2, EndMarks
<1>4. QED
  BY <1>2, <1>3

\* The mouse resizes a timed event.
LEMMA ResizeSlotMarks ==
  ASSUME TypeInv, TypeInv', MarkInv, NEW row, ResizeSlot(row)
  PROVE  MarkInv'
<1>1. /\ Mouse = "slotResize"
      /\ gesture' = [gesture EXCEPT !.snapDelta = Max({1 - gesture.length, row - gesture.edge})]
      /\ UNCHANGED <<page, events, reverting, hover, overlay, hidden, helpers, grabs, upset>>
  BY DEF ResizeSlot, screen
<1>2. gesture \in SlotResizes
  BY <1>1, HeldIs
<1>3. Mouse' = "slotResize" /\ gesture'.id = gesture.id
  BY <1>1, <1>2 DEF SlotResizes, Mouse
<1>4. EdgeDrawn' /\ EdgeHelped' /\ SlotMarked' /\ FreeMarked' /\ DayMarked' /\ EdgeMarked'
  BY <1>1, <1>3
     DEF MarkInv, EdgeDrawn, EdgeHelped, SlotMarked, FreeMarked, DayMarked, EdgeMarked
<1>5. DragsHeard' /\ HiddenClean' /\ HelpersClean'
  <2>1. Held' = Held /\ Sized' = Sized /\ Resized' = Resized /\ Backs' = Backs
    BY <1>1, <1>3 DEF Held, Sized, Resized, Backs
  <2>2. QED
    BY <1>1, <1>3, <2>1 DEF MarkInv, DragsHeard, HiddenClean, HelpersClean
<1>6. QED
  BY <1>4, <1>5 DEF MarkInv

\* A timed event's edge is let go.
LEMMA ReleaseSlotEdgeMarks ==
  ASSUME TypeInv, MarkInv, ReleaseSlotEdge
  PROVE  MarkInv'
<1>1. /\ Mouse = "slotResize" /\ UNCHANGED <<page, overlay, upset>>
      /\ gesture' = Nothing /\ hover' \in {hover, Dead(hover)}
      /\ \/ hidden' = {} /\ helpers' = {} /\ reverting' = {Torn(r) : r \in reverting}
         \/ hidden' = hidden \ {gesture.id} /\ helpers' = helpers /\ reverting' = reverting
  BY DEF ReleaseSlotEdge, Rerender, Nothing
<1>2. hover'.bound = hover.bound /\ hover'.g = hover.g
  BY <1>1, DeadIs DEF TypeInv, HoverOK
<1>3. QED
  BY <1>1, <1>2, EndMarks

\* The days an event has, marked.
LEMMA MarkedDays ==
  ASSUME NEW e, IsEvent(e), NEW n \in Int, NEW mark \in Marked(e, n)
  PROVE  /\ mark[1].at = e.start.at + n * TicksPerDay
         /\ mark[2].at = GetEventEnd(e).at + n * TicksPerDay
<1>1. mark = <<AddDays(e.start, n), AddDays(GetEventEnd(e), n)>>
  BY DEF Marked
<1>2. e.start \in Moment /\ GetEventEnd(e) \in Moment
  BY EventIs, EventEndIs
<1>3. QED
  BY <1>1, <1>2, AddDaysIs

\* A drag of an event of day cells starts.
LEMMA GrabDayMarks ==
  ASSUME TypeInv, TypeInv', MarkInv, NEW id, NEW p \in Pointer, GrabDay(id, p)
  PROVE  MarkInv'
<1>1. /\ Free(id)
      /\ gesture' = [kind |-> "dayDrag", id |-> id, grip |-> p.y % RowPx, top |-> 0]
      /\ overlay' = Marked(events[id], 0) /\ hidden' = hidden \cup {id}
      /\ reverting' = {Keep(r) : r \in reverting}
      /\ UNCHANGED <<page, events, helpers, upset>>
      /\ hover'.bound = hover.bound \cup {"drag"}
      /\ hover'.g.dayDelta = 0 /\ hover'.g.allDay = TRUE
  BY DEF GrabDay, HoverStart
<1>2. Mouse = "none" /\ IsEvent(events[id])
  BY <1>1, FreeIs
<1>3. Mouse' = "dayDrag" /\ gesture'.id = id
  BY <1>1 DEF Mouse
<1>4. EdgeDrawn' /\ EdgeHelped' /\ SlotMarked' /\ FreeMarked' /\ EdgeMarked'
  BY <1>1, <1>3 DEF EdgeDrawn, EdgeHelped, SlotMarked, FreeMarked, EdgeMarked
<1>5. DayMarked'
  <2>1. \A mark \in overlay' : /\ mark[1].at = events[id].start.at + 0 * TicksPerDay
                               /\ mark[2].at = GetEventEnd(events[id]).at + 0 * TicksPerDay
    BY <1>1, <1>2, MarkedDays
  <2>2. QED
    BY <1>1, <1>3, <2>1 DEF DayMarked, MarksAre
<1>6. DragsHeard'
  BY <1>3 DEF TypeInv, HoldOK, DragsHeard
<1>7. HiddenClean' /\ HelpersClean'
  <2>1. Backs' = Backs /\ Held' = {id}
    BY <1>1, <1>3, KeptSame DEF TypeInv, Held
  <2>2. QED
    BY <1>1, <1>2, <1>3, <2>1, FreeMarks DEF HiddenClean, HelpersClean
<1>8. QED
  BY <1>4, <1>5, <1>6, <1>7 DEF MarkInv

\* The mouse drags an event of day cells.
LEMMA DragDayMarks ==
  ASSUME TypeInv, TypeInv', MarkInv, NEW p \in Pointer, DragDay(p)
  PROVE  MarkInv'
<1> DEFINE heard == Hover("drag", Cell(p))
           e == events[gesture.id]
<1>1. /\ Mouse = "dayDrag" /\ hover' = heard.hover
      /\ overlay' = heard.screen.overlay /\ hidden' = heard.screen.hidden
      /\ helpers' = heard.screen.helpers
      /\ gesture' = IF IsMonth \/ p = Outside THEN gesture
                    ELSE [gesture EXCEPT !.top = p.y - gesture.grip]
      /\ UNCHANGED <<page, events, reverting, grabs, upset>>
  BY DEF DragDay, Show
<1>2. /\ gesture \in DayDrags /\ gesture.id \in DOMAIN events
      /\ hover.g.kind = (IF IsMonth THEN "monthDrag" ELSE "agendaDrag")
      /\ EventOf(hover.g) = e /\ hover.g # Nothing /\ hover.alive = TRUE
  BY <1>1, DayHeldIs
<1>3. gesture'.id = gesture.id /\ Mouse' = "dayDrag"
  BY <1>1, <1>2 DEF DayDrags, Mouse
<1>4. Cell(p) \in Cells
  BY PointsAreCells DEF TypeInv
<1>5. /\ heard.screen = Screen(heard.screen.overlay, hidden, helpers)
      /\ "drag" \notin hover.bound => HeardNothing(heard)
      /\ \/ HeardNothing(heard)
         \/ heard.screen.overlay = {}
         \/ /\ heard.screen.overlay = Marked(EventOf(hover.g), heard.hover.g.dayDelta)
            /\ hover.g.kind = "agendaDrag" /\ hover.alive => heard.hover.g.allDay
  <2>1. hover.g.kind \in {"monthDrag", "agendaDrag"}
    BY <1>2
  <2>2. QED
    BY <1>4, <2>1, DragHides
<1>6. /\ hover'.bound = hover.bound
  <2> HIDE DEF heard
  <2>1. QED
    BY <1>1, <1>4, HoverKeeps DEF heard
<1>7. hidden' = hidden /\ helpers' = helpers
  <2> HIDE DEF heard
  <2>1. QED
    BY <1>1, <1>5 DEF Screen
<1>8. HeardNothing(heard) => overlay' = overlay /\ hover' = hover
  <2> HIDE DEF heard
  <2>1. QED
    BY <1>1 DEF HeardNothing, Unseen, Screen
<1>9. IsMonth' = IsMonth /\ events'[gesture'.id] = e
  BY <1>1, <1>3 DEF IsMonth
<1>10. hover'.g.dayDelta \in Int
  BY <1>3, DayHeldIs DEF DragKnows, TypeInv, HoldOK, HoverOK, Hovers, Nothing, ResizeKnows
<1>11. DayMarked'
  <2>1. CASE HeardNothing(heard)
    BY <1>1, <1>3, <1>8, <1>9, <2>1 DEF MarkInv, DayMarked, MarksAre
  <2>2. CASE heard.screen.overlay = {}
    BY <1>1, <2>2 DEF DayMarked, MarksAre
  <2>3. CASE /\ heard.screen.overlay = Marked(EventOf(hover.g), heard.hover.g.dayDelta)
             /\ hover.g.kind = "agendaDrag" /\ hover.alive => heard.hover.g.allDay
    <3>1. /\ overlay' = Marked(e, hover'.g.dayDelta)
          /\ hover.g.kind = "agendaDrag" => hover'.g.allDay
      BY <1>1, <1>2, <2>3
    <3>2. IsEvent(e)
      BY <1>2 DEF TypeInv, EventsOK
    <3> HIDE DEF e, heard
    <3>3. \A mark \in overlay' :
            /\ mark[1].at = e.start.at + hover'.g.dayDelta * TicksPerDay
            /\ mark[2].at = GetEventEnd(e).at + hover'.g.dayDelta * TicksPerDay
      BY <1>10, <3>1, <3>2, MarkedDays
    <3>4. IsMonth' \/ hover'.g.allDay
      BY <1>2, <1>9, <3>1
    <3>5. QED
      BY <1>9, <3>3, <3>4 DEF DayMarked, MarksAre
  <2>4. QED
    BY <1>5, <2>1, <2>2, <2>3
<1>12. EdgeDrawn' /\ EdgeHelped' /\ FreeMarked' /\ EdgeMarked'
  BY <1>3 DEF EdgeDrawn, EdgeHelped, FreeMarked, EdgeMarked
<1>13. SlotMarked'
  <2>1. hover.bound = {} => HeardNothing(heard)
    <3> HIDE DEF heard
    <3>1. QED
      BY <1>5
  <2>2. QED
    BY <1>1, <1>3, <1>6, <1>8, <2>1 DEF MarkInv, SlotMarked
<1>14. DragsHeard'
  BY <1>3 DEF TypeInv, HoldOK, DragsHeard
<1>15. HiddenClean' /\ HelpersClean'
  <2>1. Held' = Held /\ Sized' = Sized /\ Resized' = Resized /\ Backs' = Backs
    BY <1>1, <1>3 DEF Held, Sized, Resized, Backs
  <2>2. QED
    BY <1>1, <1>3, <1>7, <2>1 DEF MarkInv, HiddenClean, HelpersClean
<1>16. QED
  BY <1>11, <1>12, <1>13, <1>14, <1>15 DEF MarkInv

\* What stop of a drag of day cells leaves on the screen.
LEMMA StopShows ==
  ASSUME TypeInv, NEW g \in DragKnows, IsEvent(EventOf(g)), NEW top \in Int, NEW held,
         StopDay(g, top, held)
  PROVE  /\ overlay' = {} /\ upset \ {"torn"} \subseteq upset'
         /\ hover'.bound = hover.bound \ {hover.type}
         /\ hover'.bound # {} \/ held.kind \in {"dayDrag", "dayResize"} => hover'.g = hover.g
         /\ \/ hidden' = hidden \ {g.id} /\ UNCHANGED <<events, helpers>> /\ gesture' = held
            \/ /\ hidden' = {} /\ helpers' = {}
               /\ gesture' = IF held.kind = "dayResize" THEN held ELSE Nothing
               /\ \A id \in DOMAIN events : id # g.id => events'[id] = events[id]
               /\ ~ g.kept => "overtaken" \in upset'
<1>1. /\ overlay' = {} /\ upset \ {"torn"} \subseteq upset'
      /\ \/ hidden' = hidden \ {g.id} /\ UNCHANGED <<events, helpers>> /\ gesture' = held
         \/ Changed(g) /\ hidden' = {} /\ helpers' = {}
  BY DEF StopDay, Rerender
<1>2. /\ HoverOK'
      /\ \A id \in DOMAIN events : id # g.id => events'[id] = events[id]
      /\ Changed(g) =>
           /\ gesture' = IF held.kind = "dayResize" THEN held ELSE Nothing
           /\ ~ g.kept => "overtaken" \in upset'
  BY StopDraws
<1>3. /\ hover'.bound = hover.bound \ {hover.type}
      /\ hover'.g = Nothing => hover' = NoHover
      /\ hover'.g # Nothing => hover'.g = hover.g
      /\ held.kind \in {"dayDrag", "dayResize"} => hover'.g = hover.g
  BY StopHears DEF TypeInv
<1>4. NoHover.bound = {}
  BY DEF NoHover
<1>5. QED
  BY <1>1, <1>2, <1>3, <1>4

\* An event of day cells is dropped.
LEMMA ReleaseDayMarks ==
  ASSUME TypeInv, MarkInv, ReleaseDay
  PROVE  MarkInv'
<1>1. Mouse = "dayDrag" /\ UNCHANGED page
  BY DEF ReleaseDay
<1>2. CASE GoBack("dayDrag", TRUE) /\ UNCHANGED <<events, hover, screen, grabs, upset>>
  BY <1>1, <1>2, BackMarks
<1>3. CASE /\ StopDay(hover.g, gesture.top, Nothing)
           /\ reverting' = IF Changed(hover.g) THEN {Torn(r) : r \in reverting} ELSE reverting
  <2> DEFINE g == hover.g
  <2>1. /\ g \in DragKnows /\ g.id = gesture.id /\ hover.type = "drag"
        /\ EventOf(g) = events[gesture.id] /\ gesture.id \in DOMAIN events
        /\ gesture \in DayDrags
    BY <1>1, DayHeldIs
  <2>2. IsEvent(EventOf(g)) /\ gesture.top \in Int
    BY <2>1 DEF TypeInv, EventsOK, DayDrags
  <2>3. /\ overlay' = {} /\ upset \ {"torn"} \subseteq upset'
        /\ "drag" \notin hover'.bound
        /\ \/ hidden' = hidden \ {g.id} /\ UNCHANGED <<events, helpers>> /\ gesture' = Nothing
           \/ hidden' = {} /\ helpers' = {} /\ gesture' = Nothing
    BY <1>3, <2>1, <2>2, StopShows
  <2>4. (hidden' = hidden \ {g.id} /\ ~ Changed(g)) \/ hidden' = {}
    BY <1>3 DEF StopDay, Rerender
  <2>5. gesture' = Nothing
    BY <2>3
  <2>6. "left" \notin upset' => hidden' \subseteq Backs'
    <3>1. CASE hidden' = {}
      BY <3>1
    <3>2. CASE hidden' = hidden \ {g.id} /\ ~ Changed(g)
      <4>1. Backs' = Backs
        BY <1>3, <3>2 DEF Backs
      <4>2. QED
        BY <1>1, <2>1, <2>3, <3>2, <4>1 DEF MarkInv, HiddenClean, Held, Sized
    <3>3. QED
      BY <2>4, <3>1, <3>2
  <2>7. ("left" \notin upset' /\ "overtaken" \notin upset') => helpers' = {}
    BY <1>1, <2>3 DEF MarkInv, HelpersClean, Resized
  <2>8. QED
    BY <2>3, <2>5, <2>6, <2>7, FreedMarks
<1>4. QED
  BY <1>2, <1>3 DEF ReleaseDay

\* The mouse goes on with what it holds, when an element is back or has left the page.
LEMMA HeldMarks ==
  ASSUME MarkInv, gesture' = gesture, reverting' = {}, overlay' = {}, UNCHANGED page,
         upset \ {"torn"} \subseteq upset', hover'.bound \subseteq hover.bound,
         hover'.bound # {} \/ Mouse \in {"dayDrag", "dayResize"} => hover'.g = hover.g,
         Mouse = "dayResize" /\ "overtaken" \notin upset' =>
           events'[gesture.id] = events[gesture.id],
         \/ hidden' = {} /\ helpers' = {}
         \/ hidden' \subseteq hidden \ Backs /\ UNCHANGED <<events, helpers>>
  PROVE  MarkInv'
<1>1. Mouse' = Mouse /\ IsMonth' = IsMonth
  BY DEF Mouse, IsMonth
<1>2. SlotMarked' /\ FreeMarked'
  BY DEF SlotMarked, FreeMarked
<1>3. DayMarked' /\ EdgeMarked'
  BY DEF DayMarked, EdgeMarked, MarksAre
<1>4. EdgeDrawn' /\ EdgeHelped'
  <2>1. ASSUME Mouse' = "dayResize", "overtaken" \notin upset'
        PROVE  /\ (DayPieces(events[gesture.id]) # {})'
               /\ hover'.g.helper = (hover'.g.dayDelta # 0)
    <3>1. events'[gesture.id] = events[gesture.id] /\ hover'.g = hover.g
      BY <1>1, <2>1
    <3>2. DayPieces(events[gesture.id])' = DayPieces(events[gesture.id])
      BY <3>1 DEF DayPieces, Grid
    <3>3. QED
      BY <1>1, <2>1, <3>1, <3>2 DEF MarkInv, EdgeDrawn
  <2>2. EdgeDrawn'
    BY <2>1 DEF EdgeDrawn
  <2>3. EdgeHelped'
    BY <1>1 DEF MarkInv, EdgeHelped
  <2>4. QED
    BY <2>2, <2>3
<1>5. DragsHeard'
  BY <1>1 DEF MarkInv, DragsHeard
<1>6. /\ Held' = Held /\ Backs' = {}
      /\ Mouse = "dayResize" => Sized' = Sized /\ Resized' = Resized
      /\ Mouse # "dayResize" => Sized = {} /\ Resized = {} /\ Resized' = {}
  BY <1>1 DEF Held, Sized, Resized, Backs
<1>7. HiddenClean'
  <2>1. CASE hidden' = {}
    BY <2>1 DEF HiddenClean
  <2>2. CASE hidden' \subseteq hidden \ Backs /\ UNCHANGED <<events, helpers>>
    <3>1. SUFFICES ASSUME "left" \notin upset'
                   PROVE  /\ hidden' \subseteq Held' \cup Backs' \cup Sized'
                          /\ Mouse' = "dayResize" /\ gesture'.id \in hidden' =>
                               IsDrawn(gesture.id)'
      BY DEF HiddenClean
    <3>2. /\ hidden \subseteq Held \cup Backs \cup Sized
          /\ Mouse = "dayResize" /\ gesture.id \in hidden => IsDrawn(gesture.id)
      BY <3>1 DEF MarkInv, HiddenClean
    <3>3. IsDrawn(gesture.id)' = IsDrawn(gesture.id)
      BY <2>2, HeldSame
    <3>4. QED
      BY <1>1, <1>6, <2>2, <3>2, <3>3
  <2>3. QED
    BY <2>1, <2>2
<1>8. HelpersClean'
  BY <1>6 DEF MarkInv, HelpersClean
<1>9. QED
  BY <1>2, <1>3, <1>4, <1>5, <1>7, <1>8 DEF MarkInv

\* An element has gone back to where it was, or has left the page.
LEMMA RevertEndsMarks ==
  ASSUME TypeInv, MarkInv, RevertEnds
  PROVE  MarkInv'
<1>1. PICK r \in reverting :
        /\ reverting' = reverting \ {r}
        /\ \/ /\ r.kind = "dayDrag"
              /\ StopDay(Known(r), IF r.torn THEN - Above * RowPx ELSE 0, gesture)
           \/ /\ overlay' = {} /\ upset' = upset \ {"torn"}
              /\ hidden' = IF r.torn THEN hidden ELSE hidden \ {r.id}
              /\ UNCHANGED <<events, gesture, hover, helpers, grabs>>
  BY DEF RevertEnds
<1>2. UNCHANGED page /\ reverting' = {} /\ \A s \in reverting : s = r
  BY <1>1 DEF RevertEnds, TypeInv, RevertOK
<1>3. Backs \subseteq {r.id} /\ (r.torn => Backs = {})
  BY <1>2 DEF Backs
<1>4. CASE /\ r.kind = "dayDrag"
           /\ StopDay(Known(r), IF r.torn THEN - Above * RowPx ELSE 0, gesture)
  <2> DEFINE g == Known(r)
             top == IF r.torn THEN - Above * RowPx ELSE 0
  <2>1. BackOK(r) /\ EventsOK
    BY <1>4 DEF TypeInv, RevertOK
  <2>2. g \in DragKnows /\ IsEvent(EventOf(g)) /\ g.id = r.id
    BY <2>1 DEF BackOK, EventOf, EventsOK
  <2>3. top \in Int
    <3>1. Above \in Nat /\ RowPx \in Nat
      BY GestureAssumption
    <3>2. - Above * RowPx \in Int
      BY <3>1
    <3>3. QED
      BY <3>2
  <2>4. g.kept /\ Mouse # "none" => g.id # gesture.id
    BY <2>1 DEF BackOK
  <2>5. StopDay(g, top, gesture)
    BY <1>4
  <2> HIDE DEF g, top
  <2>6. /\ overlay' = {} /\ upset \ {"torn"} \subseteq upset'
        /\ hover'.bound = hover.bound \ {hover.type}
        /\ hover'.bound # {} \/ Mouse \in {"dayDrag", "dayResize"} => hover'.g = hover.g
        /\ \/ hidden' = hidden \ {r.id} /\ UNCHANGED <<events, helpers>> /\ gesture' = gesture
           \/ /\ hidden' = {} /\ helpers' = {}
              /\ gesture' = IF Mouse = "dayResize" THEN gesture ELSE Nothing
              /\ \A id \in DOMAIN events : id # r.id => events'[id] = events[id]
              /\ ~ g.kept => "overtaken" \in upset'
    BY <2>2, <2>3, <2>5, StopShows DEF Mouse
  <2>7. CASE hidden' = hidden \ {r.id} /\ UNCHANGED <<events, helpers>> /\ gesture' = gesture
    <3>1. hidden' \subseteq hidden \ Backs /\ hover'.bound \subseteq hover.bound
      BY <1>3, <2>6, <2>7
    <3>2. QED
      BY <1>2, <2>6, <2>7, <3>1, HeldMarks
  <2>8. CASE /\ hidden' = {} /\ helpers' = {}
             /\ gesture' = IF Mouse = "dayResize" THEN gesture ELSE Nothing
             /\ \A id \in DOMAIN events : id # r.id => events'[id] = events[id]
             /\ ~ g.kept => "overtaken" \in upset'
    <3>1. CASE Mouse = "dayResize"
      <4>1. "overtaken" \notin upset' => events'[gesture.id] = events[gesture.id]
        <5>1. SUFFICES ASSUME "overtaken" \notin upset'
                       PROVE  events'[gesture.id] = events[gesture.id]
          OBVIOUS
        <5>2. g.kept /\ "overtaken" \notin upset
          BY <2>6, <2>8, <5>1
        <5>3. gesture.id \in DOMAIN events /\ gesture.id # r.id
          BY <2>2, <2>4, <3>1, <5>2, EdgeHeldIs
        <5>4. QED
          BY <2>8, <5>3
      <4>2. gesture' = gesture /\ hover'.bound \subseteq hover.bound
        BY <2>6, <2>8, <3>1
      <4>3. QED
        BY <1>2, <2>6, <2>8, <4>1, <4>2, HeldMarks
    <3>2. CASE Mouse # "dayResize"
      <4>1. ("left" \notin upset' /\ "drag" \in hover'.bound) =>
              hover'.g.kind \in {"monthDrag", "agendaDrag"}
        BY <2>6, <3>2 DEF MarkInv, DragsHeard
      <4>2. gesture' = Nothing
        BY <2>8, <3>2
      <4>3. QED
        BY <2>6, <2>8, <4>1, <4>2, FreedMarks
    <3>3. QED
      BY <3>1, <3>2
  <2>9. QED
    BY <2>6, <2>7, <2>8
<1>5. CASE /\ overlay' = {} /\ upset' = upset \ {"torn"}
           /\ hidden' = IF r.torn THEN hidden ELSE hidden \ {r.id}
           /\ UNCHANGED <<events, gesture, hover, helpers, grabs>>
  <2>1. hidden' \subseteq hidden \ Backs
    BY <1>3, <1>5
  <2>2. QED
    BY <1>2, <1>5, <2>1, HeldMarks
<1>6. QED
  BY <1>1, <1>4, <1>5

\* A resize of an event of day cells starts.
LEMMA GrabDayEdgeMarks ==
  ASSUME TypeInv, TypeInv', MarkInv, NEW id, GrabDayEdge(id)
  PROVE  MarkInv'
<1>1. /\ Free(id) /\ DayPieces(events[id]) # {}
      /\ gesture' = [kind |-> "dayResize", id |-> id]
      /\ overlay' = Marked(events[id], 0)
      /\ reverting' = {Keep(r) : r \in reverting}
      /\ UNCHANGED <<page, events, hidden, helpers, upset>>
      /\ hover'.bound = hover.bound \cup {"mousemove"}
      /\ hover'.g.dayDelta = 0 /\ hover'.g.helper = FALSE
  BY DEF GrabDayEdge, HoverStart
<1>2. Mouse = "none" /\ IsEvent(events[id])
  BY <1>1, FreeIs
<1>3. Mouse' = "dayResize" /\ gesture'.id = id
  BY <1>1 DEF Mouse
<1>4. SlotMarked' /\ FreeMarked' /\ DayMarked' /\ DragsHeard'
  BY <1>1, <1>3 DEF SlotMarked, FreeMarked, DayMarked, DragsHeard
<1>5. EdgeDrawn' /\ EdgeHelped'
  <2>1. DayPieces(events[gesture.id])' = DayPieces(events[id])
    BY <1>1, <1>3 DEF DayPieces, Grid
  <2>2. QED
    BY <1>1, <2>1 DEF EdgeDrawn, EdgeHelped
<1>6. EdgeMarked'
  <2>1. \A mark \in overlay' : /\ mark[1].at = events[id].start.at + 0 * TicksPerDay
                               /\ mark[2].at = GetEventEnd(events[id]).at + 0 * TicksPerDay
    BY <1>1, <1>2, MarkedDays
  <2>2. QED
    BY <1>1, <1>3, <2>1 DEF EdgeMarked, MarksAre
<1>7. HiddenClean' /\ HelpersClean'
  <2>1. Backs' = Backs /\ id \notin Backs
    BY <1>1, KeptSame DEF TypeInv, Free, Backs
  <2>2. "left" \notin upset => hidden \subseteq Backs
    BY <1>2, FreeMarks
  <2>3. "left" \notin upset /\ "overtaken" \notin upset => helpers = {}
    BY <1>2, FreeMarks
  <2>4. QED
    BY <1>1, <1>3, <2>1, <2>2, <2>3 DEF HiddenClean, HelpersClean
<1>8. QED
  BY <1>4, <1>5, <1>6, <1>7 DEF MarkInv

\* The mouse resizes an event of day cells.
LEMMA ResizeDayMarks ==
  ASSUME TypeInv, TypeInv', MarkInv, NEW p \in Pointer, ResizeDay(p)
  PROVE  MarkInv'
<1> DEFINE heard == Hover("mousemove", Cell(p))
           told == Change(Cell(p))
           e == events[gesture.id]
<1>1. /\ Mouse = "dayResize" /\ hover' = heard.hover
      /\ overlay' = heard.screen.overlay /\ hidden' = heard.screen.hidden
      /\ helpers' = heard.screen.helpers
      /\ UNCHANGED <<page, events, gesture, reverting, grabs, upset>>
  BY DEF ResizeDay, Show
<1>2. PageOK /\ EventsOK /\ HoverOK /\ Cell(p) \in Cells
  BY PointsAreCells DEF TypeInv
<1>3. /\ hover.g \in ResizeKnows /\ hover.g.id = gesture.id /\ hover.g.kind = "dayResize"
      /\ "overtaken" \notin upset =>
           gesture.id \in DOMAIN events /\ EventOf(hover.g) = e /\ e.allDay = TRUE
  BY <1>1, EdgeHeldIs
<1>4. \/ HeardNothing(heard) /\ ("mousemove" \notin hover.bound \/ Cell(p) = hover.cell)
      \/ HeardTold(heard, "mousemove", Cell(p), told)
  BY <1>2, HoverCases
<1>5. /\ Mouse' = "dayResize" /\ gesture'.id = gesture.id
      /\ DayPieces(events[gesture.id])' = DayPieces(e)
      /\ events'[gesture'.id] = e /\ Backs' = Backs
  BY <1>1 DEF Mouse, DayPieces, Grid, Backs
<1>9. IsDrawn(gesture.id)' = IsDrawn(gesture.id)
  BY <1>1, HeldSame
<1>6. CASE HeardNothing(heard)
  <2> HIDE DEF heard
  <2>1. hover' = hover /\ overlay' = overlay /\ hidden' = hidden /\ helpers' = helpers
    BY <1>1, <1>6 DEF HeardNothing, Unseen, Screen
  <2>2. EdgeDrawn' /\ EdgeHelped' /\ SlotMarked' /\ DayMarked' /\ EdgeMarked'
    BY <1>1, <1>5, <2>1
       DEF MarkInv, EdgeDrawn, EdgeHelped, SlotMarked, DayMarked, EdgeMarked, MarksAre
  <2>3. DragsHeard' /\ FreeMarked' /\ HelpersClean'
    BY <1>1, <1>5, <2>1 DEF MarkInv, DragsHeard, FreeMarked, HelpersClean, Resized
  <2>4. HiddenClean'
    <3>1. Held' = Held /\ Sized' = Sized
      BY <1>1, <1>5, <2>1 DEF Held, Sized
    <3>2. QED
      BY <1>1, <1>5, <1>9, <2>1, <3>1 DEF MarkInv, HiddenClean
  <2>5. QED
    BY <2>2, <2>3, <2>4 DEF MarkInv
<1>7. CASE HeardTold(heard, "mousemove", Cell(p), told)
  <2>1. /\ hover'.bound = hover.bound /\ hover'.bound # {} /\ hover'.g = told.g
        /\ overlay' = told.screen.overlay /\ hidden' = told.screen.hidden
        /\ helpers' = told.screen.helpers
    <3> HIDE DEF heard, told
    <3>1. QED
      BY <1>1, <1>7 DEF HeardTold
  <2>2. SlotMarked' /\ FreeMarked' /\ DayMarked' /\ DragsHeard'
    BY <1>5, <2>1 DEF SlotMarked, FreeMarked, DayMarked, DragsHeard
  <2>12. /\ told.g = hover.g \/ (told.g.dayDelta # 0 => told.g.helper)
         /\ ~ IsDrawn(hover.g.id) => told.screen.hidden = hidden
         /\ IsDrawn(hover.g.id) =>
              \/ told.g = hover.g /\ told.screen = Unseen
              \/ /\ told.g.helper = (told.g.dayDelta # 0)
                 /\ told.g.helper => told.screen.hidden = hidden \cup {hover.g.id}
                 /\ ~ told.g.helper =>
                      told.screen.hidden = IF hover.g.helper THEN hidden \ {hover.g.id} ELSE hidden
    BY <1>2, <1>3, ResizeTells
  <2>13. EdgeHelped'
    <3> HIDE DEF told
    <3>1. QED
      BY <1>1, <2>1, <2>12 DEF MarkInv, EdgeHelped
  <2>14. HiddenClean'
    <3> HIDE DEF told, heard
    <3>1. SUFFICES ASSUME "left" \notin upset
                   PROVE  /\ hidden' \subseteq Backs
                               \cup (IF hover'.g.dayDelta # 0 THEN {gesture.id} ELSE {})
                          /\ gesture.id \in hidden' => IsDrawn(gesture.id)
      BY <1>1, <1>5, <1>9 DEF HiddenClean, Sized
    <3>2. /\ hidden \subseteq Backs \cup (IF hover.g.dayDelta # 0 THEN {gesture.id} ELSE {})
          /\ gesture.id \in hidden => IsDrawn(gesture.id)
          /\ hover.g.dayDelta # 0 => hover.g.helper
      BY <1>1, <3>1 DEF MarkInv, HiddenClean, EdgeHelped, Held, Sized
    <3>3. CASE ~ IsDrawn(gesture.id)
      BY <1>3, <2>1, <2>12, <3>2, <3>3
    <3>4. CASE IsDrawn(gesture.id) /\ told.g = hover.g /\ told.screen = Unseen
      BY <2>1, <3>2, <3>4 DEF Unseen, Screen
    <3>5. CASE IsDrawn(gesture.id) /\ ~ (told.g = hover.g /\ told.screen = Unseen)
      BY <1>3, <2>1, <2>12, <3>2, <3>5
    <3>6. QED
      BY <3>3, <3>4, <3>5
  <2>3. SUFFICES ASSUME "overtaken" \notin upset
                 PROVE  EdgeDrawn' /\ EdgeMarked' /\ HelpersClean'
    BY <1>1, <2>2, <2>13, <2>14 DEF MarkInv, EdgeDrawn, EdgeMarked, HelpersClean
  <2>4. DayPieces(e) # {} /\ hover.g.helper = (hover.g.dayDelta # 0)
    BY <1>1, <2>3 DEF MarkInv, EdgeDrawn
  <2>5. IsDrawn(hover.g.id)
    BY <1>3, <2>3, <2>4 DEF IsDrawn
  <2>6. /\ told.g \in ResizeKnows
        /\ told.screen = Screen(told.screen.overlay, told.screen.hidden, told.screen.helpers)
        /\ \/ told.screen.overlay = overlay /\ told.g = hover.g
           \/ told.screen.overlay =
                {<<EventOf(hover.g).start, AddDays(GetEventEnd(EventOf(hover.g)), told.g.dayDelta)>>}
        /\ \/ told.g = hover.g /\ told.screen = Unseen
           \/ /\ told.g.helper = (told.g.dayDelta # 0)
              /\ told.g.helper =>
                   /\ told.screen.hidden = hidden \cup {hover.g.id}
                   /\ told.screen.helpers = helpers \cup {hover.g.id}
              /\ ~ told.g.helper =>
                   /\ told.screen.helpers = helpers \ {hover.g.id}
                   /\ told.screen.hidden =
                        IF hover.g.helper THEN hidden \ {hover.g.id} ELSE hidden
    BY <1>2, <1>3, <2>5, ResizeTells
  <2> HIDE DEF heard, told
  <2>7. told.g.helper = (told.g.dayDelta # 0)
    BY <2>4, <2>6
  <2>8. EdgeDrawn'
    BY <1>1, <1>5, <2>1, <2>4, <2>7 DEF EdgeDrawn
  <2>9. EdgeMarked'
    <3>1. CASE told.screen.overlay = overlay /\ told.g = hover.g
      BY <1>1, <1>5, <2>1, <2>3, <3>1 DEF MarkInv, EdgeMarked, MarksAre
    <3>2. CASE told.screen.overlay =
                 {<<EventOf(hover.g).start, AddDays(GetEventEnd(EventOf(hover.g)), told.g.dayDelta)>>}
      <4>1. IsEvent(e) /\ EventOf(hover.g) = e /\ told.g.dayDelta \in Int
        BY <1>2, <1>3, <2>3, <2>6 DEF EventsOK, ResizeKnows
      <4> HIDE DEF e
      <4>2. e.start \in Moment /\ GetEventEnd(e) \in Moment
        BY <4>1, EventIs, EventEndIs
      <4>3. AddDays(GetEventEnd(e), told.g.dayDelta).at =
              GetEventEnd(e).at + told.g.dayDelta * TicksPerDay
        BY <4>1, <4>2, AddDaysIs
      <4>4. e.start.at = e.start.at + 0 * TicksPerDay
        <5>1. e.start.at \in Int /\ TicksPerDay \in Int
          BY <4>2, MomentIs, DurationAssumption
        <5>2. QED
          BY <5>1
      <4>5. \A mark \in overlay' :
              /\ mark[1].at = e.start.at + 0 * TicksPerDay
              /\ mark[2].at = GetEventEnd(e).at + told.g.dayDelta * TicksPerDay
        BY <2>1, <3>2, <4>1, <4>3, <4>4
      <4>6. QED
        BY <1>5, <2>1, <4>5 DEF EdgeMarked, MarksAre
    <3>3. QED
      BY <2>6, <3>1, <3>2
  <2>10. HelpersClean'
    <3>1. SUFFICES ASSUME "left" \notin upset
                   PROVE  told.screen.helpers \subseteq IF told.g.helper THEN {gesture.id} ELSE {}
      BY <1>1, <1>5, <2>1, <2>3 DEF HelpersClean, Resized
    <3>2. helpers \subseteq IF hover.g.helper THEN {gesture.id} ELSE {}
      BY <1>1, <2>3, <3>1 DEF MarkInv, HelpersClean, Resized
    <3>3. CASE told.g = hover.g /\ told.screen = Unseen
      BY <3>2, <3>3 DEF Unseen, Screen
    <3>4. CASE ~ (told.g = hover.g /\ told.screen = Unseen)
      BY <1>3, <2>6, <3>2, <3>4
    <3>5. QED
      BY <3>3, <3>4
  <2>11. QED
    BY <2>8, <2>9, <2>10
<1>8. QED
  BY <1>4, <1>6, <1>7

\* An edge of day cells is let go.
LEMMA ReleaseDayEdgeMarks ==
  ASSUME TypeInv, TypeInv', MarkInv, ReleaseDayEdge
  PROVE  MarkInv'
<1>1. /\ Mouse = "dayResize" /\ overlay' = {} /\ gesture' = Nothing
      /\ upset' = (upset \ {"torn"}) \cup (IF hover'.bound = {} THEN {} ELSE {"left"})
      /\ IF hover.g.dayDelta # 0 THEN hidden' = {} /\ helpers' = {}
                                 ELSE UNCHANGED <<reverting, hidden, helpers>>
  BY DEF ReleaseDayEdge, Rerender, Nothing
<1>2. ("left" \notin upset' /\ "drag" \in hover'.bound) =>
        hover'.g.kind \in {"monthDrag", "agendaDrag"}
  BY <1>1
<1>3. "left" \notin upset' => hidden' \subseteq Backs'
  <2>1. CASE hover.g.dayDelta # 0
    BY <1>1, <2>1
  <2>2. CASE hover.g.dayDelta = 0
    <3>1. Backs' = Backs /\ hidden' = hidden
      BY <1>1, <2>2 DEF Backs
    <3>2. QED
      BY <1>1, <2>2, <3>1 DEF MarkInv, HiddenClean, Held, Sized
  <2>3. QED
    BY <2>1, <2>2
<1>4. ("left" \notin upset' /\ "overtaken" \notin upset') => helpers' = {}
  BY <1>1 DEF MarkInv, EdgeDrawn, HelpersClean, Resized
<1>5. QED
  BY <1>1, <1>2, <1>3, <1>4, FreedMarks

\* An answer replaces all events and draws them again.
LEMMA RedrawMarks ==
  ASSUME TypeInv, TypeInv', MarkInv, Redraw
  PROVE  MarkInv'
<1> DEFINE healed == IF hover.bound = {} THEN upset \ {"left"} ELSE upset
<1>1. /\ hidden' = {} /\ helpers' = {} /\ UNCHANGED <<page, overlay, grabs>>
      /\ gesture' = IF Mouse = "dayResize" THEN gesture ELSE Nothing
      /\ upset' = CASE Mouse = "none"      -> healed \ {"overtaken"}
                    [] Mouse = "dayResize" -> healed \cup {"overtaken"}
                    [] OTHER               -> (healed \ {"overtaken"}) \cup {"torn"}
  BY DEF Redraw, Rerender, Mouse
<1>2. /\ hover'.bound = hover.bound
      /\ hover.g # Nothing => hover'.g.kind = hover.g.kind
      /\ hover.g \in ResizeKnows =>
           hover'.g.dayDelta = hover.g.dayDelta /\ hover'.g.helper = hover.g.helper
  <2>1. hover'.bound = hover.bound /\ hover'.g = Aside(hover.g)
    BY Redrawn
  <2>2. /\ hover.g \in {Nothing} \cup DragKnows \cup ResizeKnows
        /\ hover.g # Nothing => /\ IsEvent(hover.g.event)
                                /\ hover.g.kept => hover.g.id \in DOMAIN events
    BY KnowsIs DEF TypeInv, HoverOK
  <2>3. hover.g # Nothing => Aside(hover.g).kind = hover.g.kind
    BY <2>2, AsideIs DEF TypeInv
  <2>4. hover.g \in ResizeKnows =>
          Aside(hover.g).dayDelta = hover.g.dayDelta /\ Aside(hover.g).helper = hover.g.helper
    BY DEF Aside, ResizeKnows
  <2>5. QED
    BY <2>1, <2>3, <2>4
<1>3. hover.bound # {} => hover.g # Nothing
  BY KnowsIs DEF TypeInv
<1>4. reverting' = {} => reverting = {}
  BY DEF Redraw
<1>5. CASE Mouse = "dayResize"
  <2>1. "overtaken" \in upset' /\ Mouse' = "dayResize"
    BY <1>1, <1>5 DEF Mouse
  <2>2. "torn" \notin upset' => "torn" \notin upset
    BY <1>1, <1>5
  <2>3. SlotMarked' /\ FreeMarked'
    BY <1>1, <1>2, <1>5, <2>1, <2>2 DEF MarkInv, SlotMarked, FreeMarked
  <2>4. EdgeDrawn' /\ DayMarked' /\ EdgeMarked' /\ DragsHeard' /\ HelpersClean'
    BY <2>1 DEF EdgeDrawn, DayMarked, EdgeMarked, DragsHeard, HelpersClean
  <2>5. EdgeHelped' /\ HiddenClean'
    BY <1>1, <1>2, <1>5, EdgeHeldIs DEF MarkInv, EdgeHelped, HiddenClean
  <2>6. QED
    BY <2>3, <2>4, <2>5 DEF MarkInv
<1>6. CASE Mouse # "dayResize"
  <2>1. gesture' = Nothing
    BY <1>1, <1>6
  <2>2. /\ (hover'.bound = {} /\ "torn" \notin upset') => overlay' = {}
        /\ (reverting' = {} /\ "torn" \notin upset') => overlay' = {}
    <3>1. CASE Mouse = "none"
      BY <1>1, <1>2, <1>4, <3>1, FreeMarks
    <3>2. CASE Mouse # "none"
      BY <1>1, <1>6, <3>2
    <3>3. QED
      BY <3>1, <3>2
  <2>3. ("left" \notin upset' /\ "drag" \in hover'.bound) =>
          hover'.g.kind \in {"monthDrag", "agendaDrag"}
    <3>1. SUFFICES ASSUME "left" \notin upset', "drag" \in hover'.bound
                   PROVE  hover'.g.kind \in {"monthDrag", "agendaDrag"}
      OBVIOUS
    <3>2. hover.bound # {} /\ "drag" \in hover.bound
      BY <1>2, <3>1
    <3>3. "left" \notin upset
      BY <1>1, <1>6, <3>1, <3>2
    <3>4. QED
      BY <1>2, <1>3, <1>6, <3>2, <3>3 DEF MarkInv, DragsHeard
  <2>4. QED
    BY <1>1, <2>1, <2>2, <2>3, FreedMarks
<1>7. QED
  BY <1>5, <1>6

\* Every step keeps the marks.
LEMMA NextMarkInv ==
  ASSUME TypeInv, TypeInv', MarkInv, [Next]_vars
  PROVE  MarkInv'
<1>1. ASSUME NEW id \in Own, NEW p \in Pointer, GrabSlot(id, p) PROVE MarkInv'
  BY <1>1, GrabSlotMarks
<1>2. ASSUME NEW id \in Own, NEW p \in Pointer, GrabDay(id, p) PROVE MarkInv'
  BY <1>2, GrabDayMarks
<1>3. ASSUME NEW id \in Own, GrabSlotEdge(id) \/ GrabDayEdge(id) PROVE MarkInv'
  BY <1>3, GrabSlotEdgeMarks, GrabDayEdgeMarks
<1>4. ASSUME NEW p \in Pointer, DragSlot(p) \/ DragDay(p) \/ ResizeDay(p) PROVE MarkInv'
  BY <1>4, DragSlotMarks, DragDayMarks, ResizeDayMarks
<1>5. ASSUME NEW row \in 0..MaxTime - MinTime - 1, ResizeSlot(row) PROVE MarkInv'
  BY <1>5, ResizeSlotMarks
<1>6. ASSUME ReleaseSlot \/ ReleaseSlotEdge \/ ReleaseDay \/ ReleaseDayEdge PROVE MarkInv'
  BY <1>6, ReleaseSlotMarks, ReleaseSlotEdgeMarks, ReleaseDayMarks, ReleaseDayEdgeMarks
<1>7. ASSUME RevertEnds \/ Redraw PROVE MarkInv'
  BY <1>7, RevertEndsMarks, RedrawMarks
<1>8. CASE UNCHANGED vars
  <2>1. UNCHANGED <<page, events, gesture, reverting, hover, overlay, hidden, helpers, grabs, upset>>
    BY <1>8 DEF vars, screen
  <2>2. Mouse' = Mouse /\ IsMonth' = IsMonth /\ Grid' = Grid
    BY <2>1 DEF Mouse, IsMonth, Grid
  <2>3. EdgeDrawn' /\ EdgeHelped' /\ DayMarked' /\ EdgeMarked'
    BY <2>1, <2>2
       DEF MarkInv, EdgeDrawn, EdgeHelped, DayMarked, EdgeMarked, MarksAre, DayPieces
  <2>4. SlotMarked' /\ FreeMarked'
    BY <2>1, <2>2 DEF MarkInv, SlotMarked, FreeMarked, DraggedStart, DraggedEnd
  <2>5. DragsHeard' /\ HelpersClean'
    BY <2>1, <2>2 DEF MarkInv, DragsHeard, HelpersClean, Resized
  <2>6. HiddenClean'
    <3>1. Held' = Held /\ Sized' = Sized /\ Backs' = Backs
      BY <2>1, <2>2 DEF Held, Sized, Backs
    <3>2. IsDrawn(gesture.id)' = IsDrawn(gesture.id)
      BY <2>1, HeldSame
    <3>3. QED
      BY <2>1, <2>2, <3>1, <3>2 DEF MarkInv, HiddenClean
  <2>7. QED
    BY <2>3, <2>4, <2>5, <2>6 DEF MarkInv
<1>9. QED
  BY <1>1, <1>2, <1>3, <1>4, <1>5, <1>6, <1>7, <1>8 DEF Next

\* So they are always right.
LEMMA AlwaysMarkInv == Spec => [](TypeInv /\ MarkInv)
<1>1. Init => TypeInv /\ MarkInv
  BY InitTypeInv, InitMarkInv
<1>2. TypeInv /\ MarkInv /\ [Next]_vars => (TypeInv /\ MarkInv)'
  BY NextTypeInv, NextMarkInv
<1>3. QED
  BY <1>1, <1>2, PTL DEF Spec

\* When the mouse is free and nothing goes back, no resize of day cells listens to the
\* mouse; a range stays marked only where an answer has torn a gesture off, an event stays
\* hidden only by a drag that the callback of a resize heard, and a temporary element stays
\* only by such a one or by a resize that an answer has overtaken: whatever the
\* interleaving of gestures, answers and the element on its way back.
THEOREM AllClean == Spec => []CleanAfter
<1>1. TypeInv /\ MarkInv => CleanAfter
  <2> SUFFICES ASSUME TypeInv, MarkInv, Mouse = "none", reverting = {}
               PROVE  /\ "mousemove" \notin hover.bound
                      /\ "torn" \notin upset => overlay = {}
                      /\ "left" \notin upset => hidden = {}
                      /\ upset \cap {"left", "overtaken"} = {} => helpers = {}
    BY DEF CleanAfter
  <2>1. "mousemove" \notin hover.bound
    BY DEF TypeInv, HoldOK
  <2>2. Backs = {}
    BY DEF Backs
  <2>3. QED
    BY <2>1, <2>2, FreeMarks
<1>2. QED
  BY <1>1, AlwaysMarkInv, PTL

-----------------------------------------------------------------------------
(* What a drop does                                                         *)

\* stop of any drag of day cells drops the event or changes none.
LEMMA StopDrops ==
  ASSUME TypeInv, NEW g \in DragKnows, IsEvent(EventOf(g)), NEW top \in Int, NEW held,
         StopDay(g, top, held)
  PROVE  \/ UNCHANGED events
         \/ /\ Moved(g.id)
            /\ g.id \in DOMAIN events /\ g.kept =>
                 /\ KeepsLength(events[g.id], events'[g.id])
                 /\ Lasts(events[g.id]) => Lasts(events'[g.id])
            /\ ~ g.kept => "overtaken" \in upset'
<1>1. EventsOK
  BY DEF TypeInv
<1>2. UNCHANGED events \/ (Changed(g) /\ EventDrop(EventOf(g), g.id, DroppedStart(g, top)))
  BY DEF StopDay
<1>3. g.dayDelta \in Int
  BY DEF DragKnows
<1>4. CASE UNCHANGED events
  BY <1>4
<1>5. CASE Changed(g) /\ EventDrop(EventOf(g), g.id, DroppedStart(g, top))
  <2>1. ~ g.kept => "overtaken" \in upset'
    BY <1>5, StopDraws
  <2>2. QED
    BY <1>1, <1>3, <1>5, <2>1, DayDropMoves
<1>6. QED
  BY <1>2, <1>4, <1>5

\* An event that is dropped lasts as long as before, or the drop is late.
DroppedEvent(id) ==
  \/ RevertEnds /\ Overtaken /\ "overtaken" \in upset'
  \/ /\ id \in DOMAIN events /\ KeepsLength(events[id], events'[id])
     /\ Lasts(events[id]) => Lasts(events'[id])

\* A drop moves one event or none.
LEMMA DropsOne ==
  ASSUME TypeInv, Drops
  PROVE  UNCHANGED events \/ \E id \in Own : Moved(id) /\ DroppedEvent(id)
<1>1. CASE ReleaseSlot
  <2>1. /\ Mouse = "slotDrag"
        /\ \/ UNCHANGED events
           \/ EventDrop(events[gesture.id], gesture.id, DraggedStart(gesture))
    BY <1>1 DEF ReleaseSlot
  <2>2. gesture.id \in DOMAIN events /\ gesture.id \in Own
    BY <2>1, HeldIs DEF SlotDrags
  <2>3. QED
    BY <2>1, <2>2, SlotDropMoves DEF DroppedEvent
<1>2. CASE ReleaseDay
  <2>1. Mouse = "dayDrag" /\ (UNCHANGED events \/ StopDay(hover.g, gesture.top, Nothing))
    BY <1>2 DEF ReleaseDay
  <2>2. /\ hover.g \in DragKnows /\ hover.g.id = gesture.id /\ hover.g.kept = TRUE
        /\ EventOf(hover.g) = events[gesture.id] /\ gesture.id \in DOMAIN events
        /\ gesture.id \in Own /\ gesture \in DayDrags
    BY <2>1, DayHeldIs
  <2>3. IsEvent(EventOf(hover.g)) /\ gesture.top \in Int
    BY <2>2 DEF TypeInv, EventsOK, DayDrags
  <2>4. CASE UNCHANGED events
    BY <2>4
  <2>5. CASE StopDay(hover.g, gesture.top, Nothing)
    <3>1. \/ UNCHANGED events
          \/ /\ Moved(gesture.id)
             /\ KeepsLength(events[gesture.id], events'[gesture.id])
             /\ Lasts(events[gesture.id]) => Lasts(events'[gesture.id])
      BY <2>2, <2>3, <2>5, StopDrops
    <3>2. QED
      BY <2>2, <3>1 DEF DroppedEvent
  <2>6. QED
    BY <2>1, <2>4, <2>5
<1>3. CASE RevertEnds
  <2>1. PICK r \in reverting :
          \/ UNCHANGED events
          \/ /\ r.kind = "dayDrag"
             /\ StopDay(Known(r), IF r.torn THEN - Above * RowPx ELSE 0, gesture)
    BY <1>3 DEF RevertEnds
  <2>2. CASE UNCHANGED events
    BY <2>2
  <2>3. CASE /\ r.kind = "dayDrag"
             /\ StopDay(Known(r), IF r.torn THEN - Above * RowPx ELSE 0, gesture)
    <3> DEFINE g == Known(r)
               top == IF r.torn THEN - Above * RowPx ELSE 0
    <3>1. BackOK(r) /\ EventsOK
      BY <2>3 DEF TypeInv, RevertOK
    <3>2. /\ g \in DragKnows /\ IsEvent(EventOf(g)) /\ g.id = r.id
          /\ g.kept => r.id \in DOMAIN events
      BY <3>1 DEF BackOK, EventOf, EventsOK
    <3>3. top \in Int
      <4>1. Above \in Nat /\ RowPx \in Nat
        BY GestureAssumption
      <4>2. - Above * RowPx \in Int
        BY <4>1
      <4>3. QED
        BY <4>2
    <3>4. StopDay(g, top, gesture)
      BY <2>3
    <3>5. ~ g.kept => Overtaken
      BY <2>3 DEF Overtaken
    <3>6. g.id \in Own
      BY <3>2 DEF DragKnows
    <3> HIDE DEF g, top
    <3>7. \/ UNCHANGED events
          \/ /\ Moved(g.id)
             /\ g.id \in DOMAIN events /\ g.kept =>
                  /\ KeepsLength(events[g.id], events'[g.id])
                  /\ Lasts(events[g.id]) => Lasts(events'[g.id])
             /\ ~ g.kept => "overtaken" \in upset'
      BY <3>2, <3>3, <3>4, StopDrops
    <3>8. QED
      BY <1>3, <3>2, <3>5, <3>6, <3>7 DEF DroppedEvent
  <2>4. QED
    BY <2>1, <2>2, <2>3
<1>4. QED
  BY <1>1, <1>2, <1>3 DEF Drops

\* A drop changes one event at most, and not how long it lasts.
LEMMA DropKeepsDuration ==
  ASSUME TypeInv, Drops
  PROVE  /\ Cardinality({id \in DOMAIN events : events'[id] # events[id]}) <= 1
         /\ \/ RevertEnds /\ Overtaken
            \/ \A id \in DOMAIN events : KeepsLength(events[id], events'[id])
<1>1. CASE UNCHANGED events
  <2>1. {id \in DOMAIN events : events'[id] # events[id]} = {}
    BY <1>1
  <2>2. \A id \in DOMAIN events : KeepsLength(events[id], events'[id])
    BY <1>1 DEF KeepsLength
  <2>3. QED
    BY <2>1, <2>2, FS_EmptySet
<1>2. CASE ~ UNCHANGED events
  <2>1. PICK moved \in Own : Moved(moved) /\ DroppedEvent(moved)
    BY <1>2, DropsOne
  <2>2. \A id \in DOMAIN events : id # moved => events'[id] = events[id]
    BY <2>1 DEF Moved
  <2> DEFINE changed == {id \in DOMAIN events : events'[id] # events[id]}
  <2>3. \A x, y \in changed : x = y
    BY <2>2
  <2> HIDE DEF changed
  <2>4. Cardinality(changed) <= 1
    BY <2>3, AtMostOne
  <2>5. \/ RevertEnds /\ Overtaken
        \/ \A id \in DOMAIN events : KeepsLength(events[id], events'[id])
    <3>1. SUFFICES ASSUME ~ (RevertEnds /\ Overtaken), NEW id \in DOMAIN events
                   PROVE  KeepsLength(events[id], events'[id])
      OBVIOUS
    <3>2. KeepsLength(events[moved], events'[moved])
      BY <2>1, <3>1 DEF DroppedEvent
    <3>3. QED
      BY <2>2, <3>2 DEF KeepsLength
  <2>6. QED
    BY <2>4, <2>5 DEF changed
<1>3. QED
  BY <1>1, <1>2

\* Which cells a range takes, its ticks tell.
LEMMA SameTicks ==
  ASSUME NEW s, NEW t, NEW m, NEW n, s.at = m.at, t.at = n.at
  PROVE  RangeToSegments(s, t, Grid) = RangeToSegments(m, n, Grid)
<1>1. DateToDayOffset(s, Grid) = DateToDayOffset(m, Grid) /\ DayFirst(s) = DayFirst(m)
  BY DEF DayFirst, DateToDayOffset, DayOf
<1>2. DateToDayOffset(t, Grid) = DateToDayOffset(n, Grid) /\ TimeOf(t) = TimeOf(n)
  BY DEF DateToDayOffset, DayOf, TimeOf
<1>3. DayEnd(t, s) = DayEnd(n, m)
  BY <1>1, <1>2 DEF DayEnd
<1>4. \A row : CellFrom(s, row) = CellFrom(m, row) /\ CellTo(s, t, row) = CellTo(m, n, row)
  BY <1>1, <1>3 DEF CellFrom, CellTo
<1>5. \A row : DayPiece(s, t, row) = DayPiece(m, n, row)
  BY <1>1, <1>3, <1>4 DEF DayPiece
<1>6. \A p : p \in RangeToSegments(s, t, Grid) <=> p \in RangeToSegments(m, n, Grid)
  BY <1>4, <1>5, DayPieceIs
<1>8. QED
  BY <1>6

\* An event has the days a mark had, when its ticks are those of the mark.
LEMMA DrawnAsMarked ==
  ASSUME NEW e, NEW mark, e.start.at = mark[1].at, GetEventEnd(e).at = mark[2].at
  PROVE  SameDays(e, mark)
BY SameTicks DEF SameDays, DayPieces

\* An event that is dropped is then drawn in the days that were marked.
LEMMA DropDrawsMarks ==
  ASSUME TypeInv, MarkInv, ReleaseSlot \/ ReleaseDay \/ ReleaseDayEdge, upset = {},
         Mouse = "slotDrag" => hover.bound = {},
         NEW id \in DOMAIN events, events'[id] # events[id], NEW mark \in overlay
  PROVE  SameDays(events'[id], mark)
<1>1. EventsOK
  BY DEF TypeInv
<1>2. CASE ReleaseSlot
  <2>1. /\ Mouse = "slotDrag" /\ gesture.inBounds
        /\ EventDrop(events[gesture.id], gesture.id, DraggedStart(gesture))
    BY <1>2 DEF ReleaseSlot
  <2>2. /\ gesture \in SlotDrags /\ gesture.id \in DOMAIN events
        /\ ~ events[gesture.id].allDay
    BY <2>1, HeldIs
  <2>3. gesture.allDay /\ mark = <<DraggedStart(gesture), DraggedEnd(gesture)>>
    BY <2>1 DEF MarkInv, SlotMarked
  <2>4. /\ Moved(gesture.id)
        /\ events'[gesture.id].start.at = DraggedStart(gesture).at
        /\ events'[gesture.id].allDay = ~ DraggedStart(gesture).timed
        /\ KeepsLength(events[gesture.id], events'[gesture.id])
    BY <2>1, SlotDropMoves
  <2>5. id = gesture.id
    BY <2>4 DEF Moved
  <2> DEFINE f == events'[id]
  <2>6. /\ DraggedStart(gesture).timed = FALSE
        /\ DraggedEnd(gesture).at = DraggedStart(gesture).at + DefaultAllDayEventDuration
    <3>1. gesture.allDay \in BOOLEAN
      BY <2>2 DEF SlotDrags
    <3>2. QED
      BY <1>1, <2>2, <2>3, <3>1, SlotTarget
  <2>7. f.allDay = TRUE /\ f.end = <<>> /\ f.start.at = DraggedStart(gesture).at
    BY <2>2, <2>4, <2>5, <2>6 DEF KeepsLength
  <2>8. IsEvent(f)
    BY <2>4 DEF Moved
  <2> HIDE DEF f
  <2>9. GetEventEnd(f).at = f.start.at + DefaultAllDayEventDuration
    <3>1. f.start \in Moment /\ IsNormal(f.start, TRUE)
      BY <2>7, <2>8, EventIs
    <3>2. GetEventEnd(f) = GetDefaultEventEnd(TRUE, f.start)
      BY <2>7 DEF GetEventEnd
    <3>3. QED
      BY <3>1, <3>2, DefaultEndIs
  <2>10. SameDays(f, mark)
    <3>1. mark[1] = DraggedStart(gesture) /\ mark[2] = DraggedEnd(gesture)
      BY <2>3
    <3>2. QED
      BY <2>6, <2>7, <2>9, <3>1, DrawnAsMarked
  <2>11. QED
    BY <2>10 DEF f
<1>3. CASE ReleaseDay
  <2>1. Mouse = "dayDrag" /\ EventDrop(EventOf(hover.g), hover.g.id, DroppedStart(hover.g, gesture.top))
    BY <1>3 DEF ReleaseDay, StopDay
  <2>2. /\ gesture.id \in DOMAIN events /\ hover.g.id = gesture.id /\ hover.g.kept = TRUE
        /\ hover.g.dayDelta \in Int /\ gesture.top \in Int /\ IsEvent(EventOf(hover.g))
    <3>1. /\ gesture \in DayDrags /\ hover.g \in DragKnows /\ gesture.id \in DOMAIN events
          /\ hover.g.id = gesture.id /\ hover.g.kept = TRUE
          /\ EventOf(hover.g) = events[gesture.id]
      BY <2>1, DayHeldIs
    <3>2. IsEvent(EventOf(hover.g))
      BY <1>1, <3>1 DEF EventsOK
    <3>3. QED
      BY <3>1, <3>2 DEF DragKnows, DayDrags
  <2>3. /\ IsMonth \/ hover.g.allDay
        /\ mark[1].at = events[gesture.id].start.at + hover.g.dayDelta * TicksPerDay
        /\ mark[2].at = GetEventEnd(events[gesture.id]).at + hover.g.dayDelta * TicksPerDay
    BY <2>1 DEF MarkInv, DayMarked, MarksAre
  <2>4. /\ Moved(gesture.id) /\ KeepsLength(events[gesture.id], events'[gesture.id])
        /\ events'[gesture.id].start.at = events[gesture.id].start.at + hover.g.dayDelta * TicksPerDay
        /\ events'[gesture.id].allDay = events[gesture.id].allDay
    <3>1. /\ Moved(hover.g.id)
          /\ hover.g.id \in DOMAIN events /\ hover.g.kept =>
               /\ KeepsLength(events[hover.g.id], events'[hover.g.id])
               /\ Lasts(events[hover.g.id]) => Lasts(events'[hover.g.id])
               /\ IsMonth \/ hover.g.allDay =>
                    /\ events'[hover.g.id].start.at
                         = events[hover.g.id].start.at + hover.g.dayDelta * TicksPerDay
                    /\ events'[hover.g.id].allDay = events[hover.g.id].allDay
      BY <1>1, <2>1, <2>2, DayDropMoves
    <3>2. QED
      BY <2>2, <2>3, <3>1
  <2>5. id = gesture.id
    BY <2>4 DEF Moved
  <2> DEFINE e == events[id]
             f == events'[id]
             days == hover.g.dayDelta * TicksPerDay
  <2>6. IsEvent(e) /\ IsEvent(f)
    BY <1>1, <2>4 DEF EventsOK, Moved
  <2>7. /\ mark[1].at = e.start.at + days /\ mark[2].at = GetEventEnd(e).at + days
        /\ f.start.at = e.start.at + days
        /\ GetEventEnd(f).at - f.start.at = GetEventEnd(e).at - e.start.at
    BY <2>3, <2>4, <2>5 DEF KeepsLength
  <2>8. days \in Int
    BY <2>2, WholeDays
  <2> HIDE DEF e, f, days
  <2>9. /\ e.start.at \in Int /\ GetEventEnd(e).at \in Int
        /\ f.start.at \in Int /\ GetEventEnd(f).at \in Int
    BY <2>6, EventIs, EventEndIs, MomentIs
  <2>10. GetEventEnd(f).at = mark[2].at /\ f.start.at = mark[1].at
    BY <2>7, <2>8, <2>9
  <2>11. SameDays(f, mark)
    BY <2>10, DrawnAsMarked
  <2>12. QED
    BY <2>11 DEF f
<1>4. CASE ReleaseDayEdge
  <2>1. /\ Mouse = "dayResize"
        /\ EventResize(EventOf(hover.g), hover.g.id,
                       AddDays(GetEventEnd(EventOf(hover.g)), hover.g.dayDelta))
    BY <1>4 DEF ReleaseDayEdge
  <2>2. "overtaken" \notin upset
    OBVIOUS
  <2>3. /\ Moved(gesture.id)
        /\ events'[gesture.id].start.at = events[gesture.id].start.at
        /\ GetEventEnd(events'[gesture.id]).at =
             GetEventEnd(events[gesture.id]).at + hover.g.dayDelta * TicksPerDay
    BY <2>1, <2>2, EdgeMoves
  <2>4. id = gesture.id
    BY <2>3 DEF Moved
  <2>5. /\ mark[1].at = events[gesture.id].start.at + 0 * TicksPerDay
        /\ mark[2].at = GetEventEnd(events[gesture.id]).at + hover.g.dayDelta * TicksPerDay
    BY <2>1, <2>2 DEF MarkInv, EdgeMarked, MarksAre
  <2>6. events[gesture.id].start.at + 0 * TicksPerDay = events[gesture.id].start.at
    <3>1. IsEvent(events[gesture.id])
      BY <1>1, <2>4 DEF EventsOK
    <3>2. events[gesture.id].start.at \in Int /\ TicksPerDay \in Int
      BY <3>1, EventIs, MomentIs, DurationAssumption
    <3>3. QED
      BY <3>2
  <2>7. QED
    BY <2>3, <2>4, <2>5, <2>6, DrawnAsMarked
<1>5. QED
  BY <1>2, <1>3, <1>4

\* A drop does what the marks told. What is let go over marked days is then drawn in exactly
\* these days, on any grid and with any days hidden, where no answer has interfered (upset)
\* and no other callback hears the drag; every drop moves one event at most, which lasts as
\* long as before or has the default duration of its new kind, but for the late drop of an
\* element whose event an answer has replaced.
THEOREM DropsAreExact == Spec => DropExact
<1> DEFINE asMarked ==
             /\ ReleaseSlot \/ ReleaseDay \/ ReleaseDayEdge
             /\ upset = {}
             /\ Mouse = "slotDrag" => hover.bound = {}
             => \A id \in DOMAIN events : events'[id] # events[id] =>
                  \A mark \in overlay : SameDays(events'[id], mark)
           length(e) == GetEventEnd(e).at - e.start.at
           keeps ==
             Drops =>
               /\ Cardinality({id \in DOMAIN events : events'[id] # events[id]}) <= 1
               /\ \/ RevertEnds /\ Overtaken
                  \/ \A id \in DOMAIN events :
                       IF events'[id].allDay = events[id].allDay
                       THEN length(events'[id]) = length(events[id])
                       ELSE events'[id].end = <<>>
<1>1. TypeInv /\ MarkInv => asMarked
  BY DropDrawsMarks
<1>2. TypeInv => keeps
  BY DropKeepsDuration DEF KeepsLength
<1>3. Spec => [][asMarked]_vars
  <2> HIDE DEF asMarked
  <2>1. QED
    BY <1>1, AlwaysMarkInv, PTL
<1>4. Spec => [][keeps]_vars
  <2> HIDE DEF keeps
  <2>1. QED
    BY <1>2, AlwaysTypeInv, PTL
<1>5. [][asMarked]_vars <=> DropAsMarked
  BY Zenon DEF DropAsMarked
<1>6. [][keeps]_vars <=> KeepsDuration
  BY Zenon DEF KeepsDuration
<1> HIDE DEF asMarked, keeps
<1>7. QED
  BY <1>3, <1>4, <1>5, <1>6, PTL DEF DropExact

-----------------------------------------------------------------------------
(* Events last some time                                                    *)

\* Every event lasts some time, unless an answer overtook a resize or a late drop.
Lasting == "overtaken" \notin upset => \A id \in DOMAIN events : Lasts(events[id])

\* A segment is no longer than its event, and a snap at least is left of it.
SlotEdge ==
  Mouse = "slotResize" =>
    /\ gesture.length <= GetEventEnd(events[gesture.id]).at - events[gesture.id].start.at
    /\ gesture.snapDelta = 0 \/ gesture.snapDelta >= 1 - gesture.length

\* The edge of e was taken in the cell of its last day, comes no nearer than that of its
\* first, and is where e would still last some time.
EdgeOf(e) ==
  /\ CellOffsetToDayOffset(CellToCellOffset(hover.first, Grid.colCnt), Grid.start)
       = DayOf(GetEventEnd(e)) - 1 - Grid.start
  /\ hover.g.least = DayOffsetToCellOffset(DateToDayOffset(e.start, Grid), Grid.start)
  /\ GetEventEnd(e).at + hover.g.dayDelta * TicksPerDay > e.start.at

\* The edge of day cells that the mouse holds is one of its event.
DayEdge ==
  (Mouse = "dayResize" /\ "overtaken" \notin upset) => EdgeOf(events[gesture.id])

\* The invariant of when events end.
EndInv == Lasting /\ SlotEdge /\ DayEdge

\* The dates of an all-day event are those of days.
LEMMA DaysOfEvent ==
  ASSUME NEW e, IsEvent(e), e.allDay = TRUE
  PROVE  /\ DayOf(e.start) \in Int /\ e.start.at = DayOf(e.start) * TicksPerDay
         /\ DayOf(GetEventEnd(e)) \in Int
         /\ GetEventEnd(e).at = DayOf(GetEventEnd(e)) * TicksPerDay
         /\ TimeOf(GetEventEnd(e)) = 0
         /\ e.start \in Moment /\ GetEventEnd(e) \in Moment
<1>1. /\ e.start \in Moment /\ IsNormal(e.start, TRUE)
      /\ GetEventEnd(e) \in Moment /\ IsNormal(GetEventEnd(e), TRUE)
  BY EventIs, EventEndIs
<1>2. QED
  BY <1>1, NormalDay, MomentIs, Ticks DEF DayOf, TimeOf

\* More days are more ticks.
LEMMA MoreDays ==
  ASSUME NEW q \in Int, NEW r \in Int
  PROVE  q * TicksPerDay < r * TicksPerDay <=> q < r
<1>1. TicksPerDay \in Nat /\ TicksPerDay > 0
  BY DurationAssumption
<1>2. q < r => q * TicksPerDay < r * TicksPerDay
  BY <1>1
<1>3. r <= q => r * TicksPerDay <= q * TicksPerDay
  BY <1>1
<1>4. q * TicksPerDay \in Int /\ r * TicksPerDay \in Int
  BY <1>1
<1>5. QED
  BY <1>2, <1>3, <1>4

\* With its edge no nearer than the cell of its first day an event lasts some days.
LEMMA EdgeKeepsDays ==
  ASSUME PageOK, NEW e, IsEvent(e), e.allDay = TRUE, NEW x \in Int,
         x >= DayOffsetToCellOffset(DateToDayOffset(e.start, Grid), Grid.start),
         NEW n \in Int,
         n = CellOffsetToDayOffset(x, Grid.start) - (DayOf(GetEventEnd(e)) - 1 - Grid.start)
  PROVE  GetEventEnd(e).at + n * TicksPerDay > e.start.at
<1> DEFINE q == DayOf(e.start)
           r == DayOf(GetEventEnd(e))
           c == CellOffsetToDayOffset(x, Grid.start)
           s == Grid.start
<1>1. q \in Int /\ e.start.at = q * TicksPerDay /\ r \in Int /\ GetEventEnd(e).at = r * TicksPerDay
  BY DaysOfEvent
<1>2. s \in Int
  BY PageGrid
<1>3. c \in Int
  BY <1>2, OffsetsAreInts
<1>4. c >= q - s
  <2>1. DateToDayOffset(e.start, Grid) = q - s
    BY DEF DateToDayOffset
  <2> HIDE DEF q, s
  <2>2. q - s \in Int /\ x >= DayOffsetToCellOffset(q - s, s)
    BY <1>1, <1>2, <2>1 DEF s
  <2>3. QED
    BY <1>2, <2>2, CellsFollowDays DEF s
<1>5. n = c - (r - 1 - s)
  OBVIOUS
<1> HIDE DEF q, r, c, s
<1>6. r + n > q /\ r + n \in Int
  BY <1>1, <1>2, <1>3, <1>4, <1>5
<1>7. q * TicksPerDay < (r + n) * TicksPerDay
  BY <1>1, <1>6, MoreDays
<1>8. r * TicksPerDay + n * TicksPerDay = (r + n) * TicksPerDay
  BY <1>1, DurationAssumption
<1>9. QED
  BY <1>1, <1>7, <1>8

\* The cell of a segment's right end.
LEMMA CellOfEnd ==
  ASSUME PageOK, NEW s \in Moment, NEW t \in Moment, NEW row \in 0..Grid.rowCnt - 1,
         CellFrom(s, row) <= CellTo(s, t, row)
  PROVE  /\ row * Grid.colCnt + (CellFrom(s, row) % Grid.colCnt) = CellFrom(s, row)
         /\ row * Grid.colCnt + (CellTo(s, t, row) % Grid.colCnt) = CellTo(s, t, row)
         /\ row * Grid.colCnt <= CellFrom(s, row)
         /\ CellTo(s, t, row) <= row * Grid.colCnt + (Grid.colCnt - 1)
<1> DEFINE w == Grid.colCnt
           a == row * w
           b == (row + 1) * w
           f == CellFrom(s, row)
           l == CellTo(s, t, row)
           d == DayOffsetToCellOffset(DayFirst(s), Grid.start)
           z == DayOffsetToCellOffset(DayEnd(t, s), Grid.start) - 1
<1>1. /\ row \in Int /\ a \in Int /\ b \in Int /\ f \in Int /\ l \in Int /\ w \in 1..7
      /\ Grid.start \in Int /\ DayFirst(s) \in Int /\ DayEnd(t, s) \in Int
  BY DayCellsAre, PageGrid
<1>2. d \in Int /\ z \in Int
  <2>1. /\ DayOffsetToCellOffset(DayFirst(s), Grid.start) \in Int
        /\ DayOffsetToCellOffset(DayEnd(t, s), Grid.start) \in Int
    BY <1>1, OffsetsAreInts
  <2>2. QED
    BY <2>1
<1>3. f = Max({d, a}) /\ l = Min({z, b - 1})
  BY DEF CellFrom, CellTo
<1>4. b - 1 = a + (w - 1)
  BY <1>1
<1>5. f <= l
  OBVIOUS
<1> HIDE DEF a, b, d, f, l, z, w
<1>6. a <= f
  BY <1>1, <1>2, <1>3, LeastOf
<1>7. l <= b - 1
  <2>1. b - 1 \in Int
    BY <1>1
  <2>2. QED
    BY <1>2, <1>3, <2>1, LeastOf
<1>8. ASSUME NEW n \in Int, a <= n, n <= a + (w - 1)
      PROVE  a + (n % w) = n
  <2> DEFINE r == n - a
  <2>1. r \in Int /\ 0 <= r /\ r < w /\ n = row * w + r /\ w \in Nat
    BY <1>1, <1>8 DEF a
  <2> HIDE DEF r
  <2>2. (row * w + r) % w = r
    BY <1>1, <2>1, PartsOf
  <2>3. n % w = r
    BY <2>1, <2>2
  <2>4. QED
    BY <2>1, <2>3 DEF a
<1>9. f <= a + (w - 1) /\ a <= l
  BY <1>1, <1>4, <1>5, <1>6, <1>7
<1>10. a + (f % w) = f /\ a + (l % w) = l
  BY <1>1, <1>4, <1>6, <1>7, <1>8, <1>9
<1>11. QED
  BY <1>4, <1>6, <1>7, <1>10 DEF a, f, l, w

\* The edge of an event is in the cell of its last day.
LEMMA EdgeCell ==
  ASSUME PageOK, NEW e, IsEvent(e), e.allDay = TRUE, Lasts(e),
         NEW piece \in DayPieces(e), piece.isEnd
  PROVE  CellOffsetToDayOffset(
           CellToCellOffset([row |-> piece.row, col |-> piece.rightCol], Grid.colCnt), Grid.start)
           = DayOf(GetEventEnd(e)) - 1 - Grid.start
<1> DEFINE s == e.start
           t == GetEventEnd(e)
<1>1. /\ DayOf(s) \in Int /\ s.at = DayOf(s) * TicksPerDay
      /\ DayOf(t) \in Int /\ t.at = DayOf(t) * TicksPerDay
      /\ TimeOf(t) = 0 /\ s \in Moment /\ t \in Moment
  BY DaysOfEvent
<1>2. s.at < t.at
  BY DEF Lasts
<1>3. piece \in RangeToSegments(s, t, Grid)
  BY DEF DayPieces
<1> HIDE DEF s, t
<1>4. PICK row \in 0..Grid.rowCnt - 1 :
        CellFrom(s, row) <= CellTo(s, t, row) /\ piece = DayPiece(s, t, row)
  BY <1>3, DayPieceIs
<1>5. row * Grid.colCnt + (CellTo(s, t, row) % Grid.colCnt) = CellTo(s, t, row)
  BY <1>1, <1>4, CellOfEnd
<1>6. CellToCellOffset([row |-> piece.row, col |-> piece.rightCol], Grid.colCnt) = CellTo(s, t, row)
  BY <1>4, <1>5 DEF DayPiece, CellToCellOffset
<1>7. CellOffsetToDayOffset(CellTo(s, t, row), Grid.start) + 1 = DayEnd(t, s)
  BY <1>4 DEF DayPiece
<1>8. Grid.start \in Int
  BY PageGrid
<1>9. DayEnd(t, s) = DayOf(t) - Grid.start
  <2>1. DayOf(s) < DayOf(t)
    BY <1>1, <1>2, MoreDays
  <2> DEFINE n == DayOf(t) - Grid.start
             m == DayOf(s) - Grid.start + 1
  <2>2. n \in Int /\ m \in Int /\ m <= n
    BY <1>1, <1>8, <2>1
  <2>3. DayEnd(t, s) = Max({n + 0, m})
    BY <1>1 DEF DayEnd, DayFirst, DateToDayOffset
  <2>4. n + 0 = n
    BY <2>2
  <2> HIDE DEF n, m
  <2>5. DayEnd(t, s) = Max({n, m})
    BY <2>3, <2>4
  <2>6. DayEnd(t, s) \in {n, m} /\ DayEnd(t, s) >= n
    BY <2>2, <2>5, LeastOf
  <2>7. DayEnd(t, s) = n
    BY <2>2, <2>6
  <2>8. QED
    BY <2>7 DEF n
<1>10. CellTo(s, t, row) \in Int
  BY <1>1, DayCellsAre
<1>11. CellOffsetToDayOffset(CellTo(s, t, row), Grid.start) \in Int
  BY <1>8, <1>10, OffsetsAreInts
<1>12. QED
  BY <1>1, <1>6, <1>7, <1>8, <1>9, <1>11 DEF t

\* An event at most has moved, and lasts some time if it did.
LEMMA LastingMoved ==
  ASSUME EndInv, "overtaken" \in upset => "overtaken" \in upset',
         \/ UNCHANGED events
         \/ \E id \in Own :
              Moved(id) /\ ("overtaken" \notin upset' => (Lasts(events[id]) => Lasts(events'[id])))
  PROVE  Lasting'
<1>1. SUFFICES ASSUME "overtaken" \notin upset'
               PROVE  \A id \in DOMAIN events' : Lasts(events'[id])
  BY DEF Lasting, Lasts
<1>2. \A id \in DOMAIN events : Lasts(events[id])
  BY <1>1 DEF EndInv, Lasting
<1>3. CASE UNCHANGED events
  BY <1>2, <1>3
<1>4. CASE ~ UNCHANGED events
  <2>1. PICK moved \in Own :
          Moved(moved) /\ (Lasts(events[moved]) => Lasts(events'[moved]))
    BY <1>1, <1>4
  <2>2. QED
    BY <1>2, <2>1 DEF Moved
<1>5. QED
  BY <1>3, <1>4

\* The mouse holds no edge.
LEMMA NoEdge ==
  ASSUME Lasting', Mouse' \notin {"slotResize", "dayResize"}
  PROVE  EndInv'
BY DEF EndInv, SlotEdge, DayEdge

\* Nothing of what the invariant tells has changed, or much has gone wrong.
LEMMA EndLeft ==
  ASSUME EndInv, UNCHANGED <<page, events, gesture>>,
         "overtaken" \in upset => "overtaken" \in upset',
         Mouse = "dayResize" => hover'.first = hover.first /\ hover'.g = hover.g
  PROVE  EndInv'
<1>1. Mouse' = Mouse /\ Grid' = Grid
  BY DEF Mouse, Grid
<1>2. Lasting'
  BY LastingMoved
<1>3. SlotEdge'
  BY <1>1 DEF EndInv, SlotEdge
<1>4. DayEdge'
  BY <1>1 DEF EndInv, DayEdge, EdgeOf, DateToDayOffset
<1>5. QED
  BY <1>2, <1>3, <1>4 DEF EndInv

\* The server's events last some time.
LEMMA InitEndInv ==
  ASSUME Init
  PROVE  EndInv
<1>1. PICK w \in Worlds : events = w.events
  BY DEF Init
<1>2. AreEvents(w.events)
  BY GestureAssumption
<1>3. Lasting
  BY <1>1, <1>2 DEF Lasting, AreEvents, Lasts
<1>4. Mouse = "none"
  BY DEF Init, Mouse, Nothing
<1>5. QED
  BY <1>3, <1>4 DEF EndInv, SlotEdge, DayEdge

\* A resize of a timed event starts.
LEMMA GrabSlotEdgeEnds ==
  ASSUME TypeInv, EndInv, NEW id, GrabSlotEdge(id)
  PROVE  EndInv'
<1>1. /\ Free(id) /\ UNCHANGED <<page, events, reverting, hover, overlay, helpers, upset>>
  BY DEF GrabSlotEdge
<1>2. PICK piece \in SlotPieces(id) :
       gesture' = [kind |-> "slotResize", id |-> id, snapDelta |-> 0,
                   length |-> piece.seg.end - piece.seg.start,
                   edge |-> SnapOf(piece.seg.end - 1)]
  BY DEF GrabSlotEdge
<1>3. id \in DOMAIN events /\ PageOK /\ EventsOK
  BY <1>1, FreeIs DEF TypeInv
<1>4. piece.seg.end - piece.seg.start <= GetEventEnd(events[id]).at - events[id].start.at
  BY <1>3, PieceTicks
<1>5. Mouse' = "slotResize"
  BY <1>2 DEF Mouse
<1>6. Lasting'
  BY <1>1, LastingMoved
<1>7. SlotEdge'
  BY <1>1, <1>2, <1>4 DEF SlotEdge
<1>8. DayEdge'
  BY <1>5 DEF DayEdge
<1>9. QED
  BY <1>6, <1>7, <1>8 DEF EndInv

\* The mouse resizes a timed event.
LEMMA ResizeSlotEnds ==
  ASSUME TypeInv, EndInv, NEW row \in 0..MaxTime - MinTime - 1, ResizeSlot(row)
  PROVE  EndInv'
<1> DEFINE d == 1 - gesture.length
           e == row - gesture.edge
<1>1. /\ Mouse = "slotResize"
      /\ gesture' = [gesture EXCEPT !.snapDelta = Max({d, e})]
      /\ UNCHANGED <<page, events, reverting, hover, overlay, hidden, helpers, grabs, upset>>
  BY DEF ResizeSlot, screen
<1>2. gesture \in SlotResizes
  BY <1>1, HeldIs
<1>3. d \in Int /\ e \in Int
  BY <1>2, RowIsInt DEF SlotResizes
<1>4. /\ Mouse' = "slotResize" /\ gesture'.id = gesture.id /\ gesture'.length = gesture.length
      /\ gesture'.snapDelta = Max({d, e})
  BY <1>1, <1>2 DEF SlotResizes, Mouse
<1> HIDE DEF e
<1>5. gesture'.snapDelta >= 1 - gesture'.length
  <2>1. Max({d, e}) >= d
    <3> HIDE DEF d
    <3>1. QED
      BY <1>3, LeastOf
  <2>2. QED
    BY <1>4, <2>1
<1>6. Lasting'
  BY <1>1, LastingMoved
<1>7. SlotEdge'
  BY <1>1, <1>4, <1>5 DEF EndInv, SlotEdge
<1>8. DayEdge'
  BY <1>4 DEF DayEdge
<1>9. QED
  BY <1>6, <1>7, <1>8 DEF EndInv

\* A timed event's edge is let go.
LEMMA ReleaseSlotEdgeEnds ==
  ASSUME TypeInv, EndInv, ReleaseSlotEdge
  PROVE  EndInv'
<1>1. /\ Mouse = "slotResize" /\ gesture' = Nothing /\ upset' = upset
      /\ IF gesture.snapDelta # 0
         THEN EventResize(events[gesture.id], gesture.id,
                          Add(GetEventEnd(events[gesture.id]), gesture.snapDelta))
         ELSE UNCHANGED events
  BY DEF ReleaseSlotEdge, Rerender, Nothing
<1>2. Mouse' = "none"
  BY <1>1 DEF Mouse, Nothing
<1>3. CASE gesture.snapDelta = 0
  BY <1>1, <1>2, <1>3, LastingMoved, NoEdge
<1>4. CASE gesture.snapDelta # 0
  <2> DEFINE e == events[gesture.id]
             f == events'[gesture.id]
  <2>1. /\ Moved(gesture.id) /\ f.start.at = e.start.at
        /\ GetEventEnd(f).at = GetEventEnd(e).at + gesture.snapDelta
    BY <1>1, <1>4, SlotResizeMoves
  <2>2. /\ gesture.length <= GetEventEnd(e).at - e.start.at
        /\ gesture.snapDelta >= 1 - gesture.length
    BY <1>1, <1>4 DEF EndInv, SlotEdge
  <2>3. gesture.id \in DOMAIN events /\ gesture.snapDelta \in Int /\ gesture.length \in Int
    BY <1>1, HeldIs DEF SlotResizes
  <2>4. e.start.at \in Int /\ GetEventEnd(e).at \in Int
    <3>1. IsEvent(e)
      BY <2>3 DEF TypeInv, EventsOK
    <3> HIDE DEF e
    <3>2. QED
      BY <3>1, EventIs, EventEndIs, MomentIs
  <2> HIDE DEF e, f
  <2>5. Lasts(f)
    BY <2>1, <2>2, <2>3, <2>4 DEF Lasts
  <2>6. QED
    <3>1. gesture.id \in Own
      BY <1>1, HeldIs DEF SlotResizes
    <3>2. QED
      BY <1>1, <1>2, <2>1, <2>5, <3>1, LastingMoved, NoEdge DEF f
<1>5. QED
  BY <1>3, <1>4

\* A resize of an event of day cells starts.
LEMMA GrabDayEdgeEnds ==
  ASSUME TypeInv, EndInv, NEW id, GrabDayEdge(id)
  PROVE  EndInv'
<1>1. /\ Free(id) /\ events[id].allDay
      /\ gesture' = [kind |-> "dayResize", id |-> id]
      /\ UNCHANGED <<page, events, hidden, helpers, upset>>
  BY DEF GrabDayEdge
<1>2. id \in DOMAIN events /\ IsEvent(events[id]) /\ PageOK
  BY <1>1, FreeIs DEF TypeInv
<1> DEFINE e == events[id]
<1>3. PICK piece \in DayPieces(e) :
        /\ piece.isEnd
        /\ hover'.first = [row |-> piece.row, col |-> piece.rightCol]
        /\ hover'.g.least = DayOffsetToCellOffset(DateToDayOffset(e.start, Grid), Grid.start)
        /\ hover'.g.dayDelta = 0
  BY DEF GrabDayEdge, HoverStart
<1>4. Mouse' = "dayResize" /\ gesture'.id = id /\ Grid' = Grid
  BY <1>1 DEF Mouse, Grid
<1>5. e.allDay = TRUE
  BY <1>1, <1>2, EventIs
<1>6. Lasting'
  BY <1>1, LastingMoved
<1>7. SlotEdge'
  BY <1>4 DEF SlotEdge
<1>8. DayEdge'
  <2>1. SUFFICES ASSUME "overtaken" \notin upset
                 PROVE  /\ CellOffsetToDayOffset(CellToCellOffset(hover'.first, Grid.colCnt), Grid.start)
                             = DayOf(GetEventEnd(e)) - 1 - Grid.start
                        /\ hover'.g.least =
                             DayOffsetToCellOffset(DateToDayOffset(e.start, Grid), Grid.start)
                        /\ GetEventEnd(e).at + hover'.g.dayDelta * TicksPerDay > e.start.at
    BY <1>1, <1>4 DEF DayEdge, EdgeOf, DateToDayOffset
  <2>2. Lasts(e)
    BY <1>2, <2>1 DEF EndInv, Lasting
  <2> HIDE DEF e
  <2>3. CellOffsetToDayOffset(CellToCellOffset(hover'.first, Grid.colCnt), Grid.start)
          = DayOf(GetEventEnd(e)) - 1 - Grid.start
    BY <1>2, <1>3, <1>5, <2>2, EdgeCell DEF e
  <2>4. GetEventEnd(e).at + hover'.g.dayDelta * TicksPerDay > e.start.at
    <3>1. e.start.at \in Int /\ GetEventEnd(e).at \in Int /\ TicksPerDay \in Int
      BY <1>2, EventIs, EventEndIs, MomentIs, DurationAssumption DEF e
    <3>2. QED
      BY <1>3, <2>2, <3>1 DEF Lasts
  <2>5. QED
    BY <1>3, <2>3, <2>4
<1>9. QED
  BY <1>6, <1>7, <1>8 DEF EndInv

\* The mouse resizes an event of day cells.
LEMMA ResizeDayEnds ==
  ASSUME TypeInv, EndInv, NEW p \in Pointer, ResizeDay(p)
  PROVE  EndInv'
<1> DEFINE heard == Hover("mousemove", Cell(p))
           told == Change(Cell(p))
           e == events[gesture.id]
<1>1. /\ Mouse = "dayResize" /\ hover' = heard.hover
      /\ UNCHANGED <<page, events, gesture, reverting, grabs, upset>>
  BY DEF ResizeDay
<1>2. PageOK /\ EventsOK /\ HoverOK /\ Cell(p) \in Cells
  BY PointsAreCells DEF TypeInv
<1>3. /\ hover.g.kind = "dayResize"
      /\ "overtaken" \notin upset => gesture.id \in DOMAIN events /\ e.allDay = TRUE
  BY <1>1, EdgeHeldIs
<1>4. HeardNothing(heard) \/ HeardTold(heard, "mousemove", Cell(p), told)
  BY <1>2, HoverCases
<1>5. CASE HeardNothing(heard)
  <2> HIDE DEF heard
  <2>1. hover' = hover
    BY <1>1, <1>5 DEF HeardNothing
  <2>2. QED
    BY <1>1, <2>1, EndLeft
<1>6. CASE HeardTold(heard, "mousemove", Cell(p), told)
  <2>1. hover'.g = told.g /\ hover'.first = hover.first
    <3> HIDE DEF heard, told
    <3>1. QED
      BY <1>1, <1>6 DEF HeardTold
  <2>2. Mouse' = "dayResize" /\ gesture'.id = gesture.id /\ events'[gesture'.id] = e /\ Grid' = Grid
    BY <1>1 DEF Mouse, Grid
  <2>3. Lasting' /\ SlotEdge'
    BY <1>1, <2>2, LastingMoved DEF SlotEdge
  <2>4. SUFFICES ASSUME "overtaken" \notin upset
                 PROVE  /\ hover'.g.least = hover.g.least
                        /\ GetEventEnd(e).at + hover'.g.dayDelta * TicksPerDay > e.start.at
    <3>1. EdgeOf(e) \/ "overtaken" \in upset
      BY <1>1 DEF EndInv, DayEdge
    <3>2. QED
      BY <1>1, <2>1, <2>2, <2>3, <2>4, <3>1 DEF EndInv, DayEdge, EdgeOf, DateToDayOffset
  <2>5. /\ told.g \in ResizeKnows /\ told.g.least = hover.g.least
        /\ \/ told.g.dayDelta = hover.g.dayDelta
           \/ \E x \in Int : x >= hover.g.least /\ told.g.dayDelta = DaysTo(x)
    BY <1>2, <1>3, ResizeTells
  <2> HIDE DEF heard, told
  <2>6. EdgeOf(e)
    BY <1>1, <2>4 DEF EndInv, DayEdge
  <2>7. IsEvent(e) /\ e.allDay = TRUE
    BY <1>2, <1>3, <2>4 DEF EventsOK
  <2> HIDE DEF e
  <2>8. CASE told.g.dayDelta = hover.g.dayDelta
    BY <2>1, <2>5, <2>6, <2>8 DEF EdgeOf
  <2>9. CASE told.g.dayDelta # hover.g.dayDelta
    <3>1. PICK x \in Int : x >= hover.g.least /\ told.g.dayDelta = DaysTo(x)
      BY <2>5, <2>9
    <3>2. /\ told.g.dayDelta = CellOffsetToDayOffset(x, Grid.start)
                                 - (DayOf(GetEventEnd(e)) - 1 - Grid.start)
          /\ x >= DayOffsetToCellOffset(DateToDayOffset(e.start, Grid), Grid.start)
      BY <2>6, <3>1 DEF EdgeOf, DaysTo
    <3>3. told.g.dayDelta \in Int
      BY <2>5 DEF ResizeKnows
    <3>4. GetEventEnd(e).at + told.g.dayDelta * TicksPerDay > e.start.at
      BY <1>2, <2>7, <3>2, <3>3, EdgeKeepsDays
    <3>5. QED
      BY <2>1, <2>5, <3>4
  <2>10. QED
    BY <2>8, <2>9
<1>7. QED
  BY <1>4, <1>5, <1>6

\* An edge of day cells is let go.
LEMMA ReleaseDayEdgeEnds ==
  ASSUME TypeInv, EndInv, ReleaseDayEdge
  PROVE  EndInv'
<1>1. /\ Mouse = "dayResize" /\ gesture' = Nothing
      /\ "overtaken" \in upset => "overtaken" \in upset'
      /\ IF hover.g.dayDelta # 0
         THEN EventResize(EventOf(hover.g), hover.g.id,
                          AddDays(GetEventEnd(EventOf(hover.g)), hover.g.dayDelta))
         ELSE UNCHANGED events
  BY DEF ReleaseDayEdge, Rerender, Nothing
<1>2. Mouse' = "none"
  BY <1>1 DEF Mouse, Nothing
<1>3. CASE hover.g.dayDelta = 0
  BY <1>1, <1>2, <1>3, LastingMoved, NoEdge
<1>4. CASE hover.g.dayDelta # 0
  <2>1. /\ Moved(gesture.id)
        /\ "overtaken" \notin upset =>
              /\ events'[gesture.id].start.at = events[gesture.id].start.at
              /\ GetEventEnd(events'[gesture.id]).at =
                   GetEventEnd(events[gesture.id]).at + hover.g.dayDelta * TicksPerDay
    BY <1>1, <1>4, EdgeMoves
  <2>2. "overtaken" \notin upset => Lasts(events'[gesture.id])
    BY <1>1, <2>1 DEF EndInv, DayEdge, EdgeOf, Lasts
  <2>3. gesture.id \in Own
    BY <1>1, EdgeHeldIs
  <2>4. "overtaken" \notin upset' => (Lasts(events[gesture.id]) => Lasts(events'[gesture.id]))
    BY <1>1, <2>2
  <2>5. QED
    BY <1>1, <1>2, <2>1, <2>3, <2>4, LastingMoved, NoEdge
<1>5. QED
  BY <1>3, <1>4

\* stop of a drag of day cells leaves an edge that the mouse holds.
LEMMA StopEnds ==
  ASSUME TypeInv, EndInv, Lasting', UNCHANGED page,
         NEW g \in DragKnows, IsEvent(EventOf(g)), NEW top \in Int,
         StopDay(g, top, gesture),
         g.kept /\ Mouse # "none" => gesture.id # g.id
  PROVE  EndInv'
<1>1. /\ \A i \in DOMAIN events : i # g.id => events'[i] = events[i]
      /\ ~ Changed(g) => gesture' = gesture /\ UNCHANGED events
      /\ Changed(g) =>
           /\ gesture' = IF Mouse = "dayResize" THEN gesture ELSE Nothing
           /\ ~ g.kept => "overtaken" \in upset'
      /\ upset \ {"torn"} \subseteq upset'
  <2>1. DOMAIN events' = DOMAIN events
    BY StopDraws
  <2>2. QED
    BY StopDraws DEF Mouse
<1>2. Mouse = "dayResize" => hover'.first = hover.first /\ hover'.g = hover.g
  <2>1. HoverStop(TRUE).first = hover.first /\ HoverStop(TRUE).g = hover.g
    <3>1. HoverStop(TRUE) = [hover EXCEPT !.bound = hover.bound \ {hover.type}]
      BY DEF HoverStop
    <3>2. hover \in Hovers
      BY DEF TypeInv, HoverOK
    <3>3. QED
      BY <3>1, <3>2 DEF Hovers
  <2>2. HoverStop(TRUE) \in Hovers
    BY StopIs DEF TypeInv
  <2>3. Dead(HoverStop(TRUE)).first = hover.first /\ Dead(HoverStop(TRUE)).g = hover.g
    BY <2>1, <2>2 DEF Dead, Hovers
  <2>4. Mouse = "dayResize" => hover' \in {HoverStop(TRUE), Dead(HoverStop(TRUE))}
    BY DEF StopDay, Mouse
  <2>5. QED
    BY <2>1, <2>3, <2>4
<1>3. CASE gesture' = gesture /\ UNCHANGED events
  BY <1>1, <1>2, <1>3, EndLeft
<1>4. CASE gesture' = Nothing
  BY <1>4, NoEdge DEF Mouse, Nothing
<1>5. CASE Mouse = "dayResize" /\ gesture' = gesture
  <2>1. "overtaken" \notin upset' => events'[gesture.id] = events[gesture.id]
    <3>1. SUFFICES ASSUME "overtaken" \notin upset'
                   PROVE  events'[gesture.id] = events[gesture.id]
      OBVIOUS
    <3>2. CASE ~ Changed(g)
      BY <1>1, <3>2
    <3>3. CASE Changed(g)
      <4>1. g.kept
        BY <1>1, <3>1, <3>3 DEF DragKnows
      <4>2. "overtaken" \notin upset
        BY <1>1, <3>1
      <4>3. gesture.id \in DOMAIN events /\ gesture.id # g.id
        BY <1>5, <4>1, <4>2, EdgeHeldIs
      <4>4. QED
        BY <1>1, <4>3
    <3>4. QED
      BY <3>2, <3>3
  <2>2. Mouse' = "dayResize" /\ gesture'.id = gesture.id /\ Grid' = Grid
    BY <1>5 DEF Mouse, Grid
  <2>3. SlotEdge'
    BY <2>2 DEF SlotEdge
  <2>4. DayEdge'
    <3>1. SUFFICES ASSUME "overtaken" \notin upset'
                   PROVE  EdgeOf(events[gesture.id])'
      BY <2>2 DEF DayEdge
    <3>2. "overtaken" \notin upset
      BY <1>1, <3>1
    <3>3. EdgeOf(events[gesture.id])
      BY <1>5, <3>2 DEF EndInv, DayEdge
    <3>4. events'[gesture'.id] = events[gesture.id]
      BY <1>5, <2>1, <3>1
    <3>5. hover'.first = hover.first /\ hover'.g = hover.g
      BY <1>2, <1>5
    <3>6. QED
      BY <2>2, <3>3, <3>4, <3>5 DEF EdgeOf, DateToDayOffset
  <2>5. QED
    BY <2>3, <2>4 DEF EndInv
<1>6. QED
  BY <1>1, <1>3, <1>4, <1>5

\* Drops leave how long an event lasts.
LEMMA ReleasesEnd ==
  ASSUME TypeInv, EndInv, ReleaseSlot \/ ReleaseDay \/ RevertEnds
  PROVE  EndInv'
<1>1. "overtaken" \in upset => "overtaken" \in upset'
  BY DEF ReleaseSlot, ReleaseDay, RevertEnds, StopDay
<1>2. Lasting'
  <2>1. UNCHANGED events \/ \E id \in Own : Moved(id) /\ DroppedEvent(id)
    BY DropsOne DEF Drops
  <2>2. QED
    BY <1>1, <2>1, LastingMoved DEF DroppedEvent
<1>3. CASE ReleaseSlot
  <2>1. gesture' = Nothing
    BY <1>3 DEF ReleaseSlot, Rerender, Nothing, GoBack
  <2>2. QED
    BY <1>2, <2>1, NoEdge DEF Mouse, Nothing
<1>4. CASE ReleaseDay
  <2>1. gesture' = Nothing
    BY <1>4 DEF ReleaseDay, StopDay, Rerender, Nothing, GoBack
  <2>2. QED
    BY <1>2, <2>1, NoEdge DEF Mouse, Nothing
<1>5. CASE RevertEnds
  <2>1. PICK r \in reverting :
          \/ /\ r.kind = "dayDrag"
             /\ StopDay(Known(r), IF r.torn THEN - Above * RowPx ELSE 0, gesture)
          \/ upset' = upset \ {"torn"} /\ UNCHANGED <<events, gesture, hover>>
    BY <1>5 DEF RevertEnds
  <2>2. UNCHANGED page
    BY <1>5 DEF RevertEnds
  <2>3. CASE /\ r.kind = "dayDrag"
             /\ StopDay(Known(r), IF r.torn THEN - Above * RowPx ELSE 0, gesture)
    <3> DEFINE g == Known(r)
               top == IF r.torn THEN - Above * RowPx ELSE 0
    <3>1. BackOK(r) /\ EventsOK
      BY <2>3 DEF TypeInv, RevertOK
    <3>2. /\ g \in DragKnows /\ IsEvent(EventOf(g))
          /\ g.kept /\ Mouse # "none" => gesture.id # g.id
      BY <3>1 DEF BackOK, EventOf, EventsOK
    <3>3. top \in Int
      <4>1. Above \in Nat /\ RowPx \in Nat
        BY GestureAssumption
      <4>2. - Above * RowPx \in Int
        BY <4>1
      <4>3. QED
        BY <4>2
    <3>4. StopDay(g, top, gesture)
      BY <2>3
    <3> HIDE DEF g, top
    <3>5. QED
      BY <1>2, <2>2, <3>2, <3>3, <3>4, StopEnds
  <2>4. CASE upset' = upset \ {"torn"} /\ UNCHANGED <<events, gesture, hover>>
    BY <2>2, <2>4, EndLeft
  <2>5. QED
    BY <2>1, <2>3, <2>4
<1>6. QED
  BY <1>3, <1>4, <1>5

\* An answer replaces all events and draws them again.
LEMMA RedrawEnds ==
  ASSUME TypeInv, EndInv, Redraw
  PROVE  EndInv'
<1>1. PICK shown \in SUBSET DOMAIN page.server : events' = [id \in shown |-> page.server[id]]
  BY DEF Redraw
<1>2. AreEvents(page.server)
  BY DEF TypeInv, PageOK
<1>3. Lasting'
  <2>1. \A id \in DOMAIN events' : id \in DOMAIN page.server /\ events'[id] = page.server[id]
    BY <1>1
  <2>2. QED
    BY <1>2, <2>1 DEF Lasting, Lasts, AreEvents
<1>4. CASE Mouse = "dayResize"
  <2>1. Mouse' = "dayResize" /\ "overtaken" \in upset'
    BY <1>4 DEF Redraw, Rerender, Mouse
  <2>2. QED
    BY <1>3, <2>1 DEF EndInv, SlotEdge, DayEdge
<1>5. CASE Mouse # "dayResize"
  <2>1. gesture' = Nothing
    BY <1>5 DEF Redraw, Rerender, Mouse
  <2>2. QED
    BY <1>3, <2>1, NoEdge DEF Mouse, Nothing
<1>6. QED
  BY <1>4, <1>5

\* Every step keeps the ends.
LEMMA NextEndInv ==
  ASSUME TypeInv, TypeInv', EndInv, [Next]_vars
  PROVE  EndInv'
<1>1. ASSUME NEW id \in Own, NEW p \in Pointer, GrabSlot(id, p) \/ GrabDay(id, p) PROVE EndInv'
  <2>1. /\ UNCHANGED <<page, events, upset>> /\ Mouse' \in {"slotDrag", "dayDrag"}
    BY <1>1 DEF GrabSlot, GrabDay, Mouse
  <2>2. QED
    BY <2>1, LastingMoved, NoEdge
<1>2. ASSUME NEW id \in Own, GrabSlotEdge(id) \/ GrabDayEdge(id) PROVE EndInv'
  BY <1>2, GrabSlotEdgeEnds, GrabDayEdgeEnds
<1>3. ASSUME NEW p \in Pointer, DragSlot(p) PROVE EndInv'
  <2>1. Mouse = "slotDrag" /\ UNCHANGED <<page, events, upset>>
    BY <1>3 DEF DragSlot
  <2>2. gesture \in SlotDrags /\ Cell(p) \in Cells /\ PageOK
    BY <2>1, HeldIs, PointsAreCells DEF TypeInv
  <2>3. gesture' \in SlotDrags
    <3>1. gesture' = gesture \/ gesture' = Dragged(gesture, p)
      BY <1>3 DEF DragSlot
    <3>2. QED
      BY <2>2, <3>1, DraggedIs
  <2>4. Mouse' = "slotDrag"
    BY <2>3 DEF Mouse, SlotDrags
  <2>5. QED
    BY <2>1, <2>4, LastingMoved, NoEdge
<1>4. ASSUME NEW p \in Pointer, DragDay(p) PROVE EndInv'
  <2>1. Mouse = "dayDrag" /\ UNCHANGED <<page, events, upset>>
    BY <1>4 DEF DragDay
  <2>2. gesture \in DayDrags
    BY <2>1, DayHeldIs
  <2>3. Mouse' = "dayDrag"
    BY <1>4, <2>2 DEF DragDay, Mouse, DayDrags
  <2>4. QED
    BY <2>1, <2>3, LastingMoved, NoEdge
<1>5. ASSUME NEW p \in Pointer, ResizeDay(p) PROVE EndInv'
  BY <1>5, ResizeDayEnds
<1>6. ASSUME NEW row \in 0..MaxTime - MinTime - 1, ResizeSlot(row) PROVE EndInv'
  BY <1>6, ResizeSlotEnds
<1>7. ASSUME ReleaseSlotEdge \/ ReleaseDayEdge PROVE EndInv'
  BY <1>7, ReleaseSlotEdgeEnds, ReleaseDayEdgeEnds
<1>8. ASSUME ReleaseSlot \/ ReleaseDay \/ RevertEnds PROVE EndInv'
  BY <1>8, ReleasesEnd
<1>9. ASSUME Redraw PROVE EndInv'
  BY <1>9, RedrawEnds
<1>10. CASE UNCHANGED vars
  BY <1>10, EndLeft DEF vars, screen
<1>11. QED
  BY <1>1, <1>2, <1>3, <1>4, <1>5, <1>6, <1>7, <1>8, <1>9, <1>10 DEF Next

\* So events always last some time.
LEMMA AlwaysEndInv == Spec => [](TypeInv /\ EndInv)
<1>1. Init => TypeInv /\ EndInv
  BY InitTypeInv, InitEndInv
<1>2. TypeInv /\ EndInv /\ [Next]_vars => (TypeInv /\ EndInv)'
  BY NextTypeInv, NextEndInv
<1>3. QED
  BY <1>1, <1>2, PTL DEF Spec

-----------------------------------------------------------------------------
(* Events are drawn where they last                                         *)

\* The last day that counts for a grid of day cells.
LateEnd(t) == TimeOf(t) # 0 /\ TimeOf(t) >= NextDayThreshold

LastDay(t) == (t.at - (IF LateEnd(t) THEN 0 ELSE TicksPerDay)) \div TicksPerDay

\* The last day that counts is the end's, or the one before.
LEMMA LastDayIs ==
  ASSUME NEW t \in Moment
  PROVE  /\ LastDay(t) \in Int
         /\ LastDay(t) = DayOf(t) + (IF LateEnd(t) THEN 1 ELSE 0) - 1
         /\ DayOf(t) \in Int
<1> DEFINE q == t.at \div TicksPerDay
           r == t.at % TicksPerDay
<1>1. t.at \in Int
  BY MomentIs
<1>2. q \in Int /\ r \in 0..TicksPerDay - 1 /\ t.at = q * TicksPerDay + r
  BY <1>1, Ticks
<1>3. DayOf(t) = q
  BY DEF DayOf
<1>4. TicksPerDay \in Nat /\ TicksPerDay > 0
  BY DurationAssumption
<1>5. (t.at - TicksPerDay) \div TicksPerDay = q - 1
  <2> HIDE DEF q, r
  <2>1. t.at - TicksPerDay = (q - 1) * TicksPerDay + r
    BY <1>2, <1>4
  <2>2. q - 1 \in Int /\ r \in Int /\ 0 <= r /\ r < TicksPerDay
    BY <1>2, <1>4
  <2>3. ((q - 1) * TicksPerDay + r) \div TicksPerDay = q - 1
    BY <2>2, TicksOf
  <2>4. QED
    BY <2>1, <2>3
<1>6. CASE LateEnd(t)
  <2>1. t.at - 0 = t.at
    BY <1>1
  <2>2. LastDay(t) = q
    BY <1>6, <2>1 DEF LastDay
  <2> HIDE DEF q
  <2>3. QED
    BY <1>2, <1>3, <1>6, <2>2
<1>7. CASE ~ LateEnd(t)
  <2>1. LastDay(t) = q - 1
    BY <1>5, <1>7 DEF LastDay
  <2> HIDE DEF q
  <2>2. QED
    BY <1>2, <1>3, <1>7, <2>1
<1>8. QED
  BY <1>6, <1>7

\* The days a range takes, from its first to the last that counts.
LEMMA DaysTaken ==
  ASSUME PageOK, NEW s \in Moment, NEW t \in Moment, NEW c \in Int
  PROVE  Grid.start + c \in DayOf(s)..Max({LastDay(t), DayOf(s)})
           <=> DayFirst(s) <= c /\ c < DayEnd(t, s)
<1> DEFINE g == Grid.start
           m == LastDay(t)
           q == DayOf(s)
           one == IF LateEnd(t) THEN 1 ELSE 0
<1>1. /\ g \in Int /\ DayFirst(s) \in Int /\ q \in Int
      /\ DayFirst(s) = q - g
  BY DayCellsAre, PageGrid
<1>2. m \in Int /\ m = DayOf(t) + one - 1 /\ DayOf(t) \in Int
  BY LastDayIs
<1>3. one \in Int
  OBVIOUS
<1>4. DayEnd(t, s) = Max({DayOf(t) - g + one, q - g + 1})
  BY <1>1 DEF DayEnd, LateEnd, DateToDayOffset
<1> HIDE DEF one
<1> DEFINE x == DayOf(t) - g + one
           y == q - g + 1
<1>5. x \in Int /\ y \in Int /\ m + 1 - g = x
  <2> HIDE DEF g, m, q
  <2>1. QED
    BY <1>1, <1>2, <1>3
<1>6. DayEnd(t, s) = Max({x, y})
  BY <1>4
<1> HIDE DEF x, g, m, q
<1>7. y = q - g + 1
  OBVIOUS
<1> HIDE DEF y
<1>8. Max({x, y}) \in {x, y} /\ Max({x, y}) >= x /\ Max({x, y}) >= y
  BY <1>5, LeastOf
<1>9. Max({m, q}) \in {m, q} /\ Max({m, q}) >= m /\ Max({m, q}) >= q
  BY <1>1, <1>2, LeastOf
<1>10. Max({x, y}) = Max({m, q}) + 1 - g
  BY <1>1, <1>2, <1>5, <1>7, <1>8, <1>9
<1>11. Max({m, q}) \in Int
  BY <1>1, <1>2, <1>9
<1>12. g + c \in q..Max({m, q}) <=> DayFirst(s) <= c /\ c < DayEnd(t, s)
  BY <1>1, <1>6, <1>10, <1>11
<1>13. QED
  BY <1>12 DEF g, m, q

\* The segment that covers a cell, if the day of the cell is one the range takes.
LEMMA CellCovered ==
  ASSUME PageOK, NEW s \in Moment, NEW t \in Moment,
         NEW row \in 0..Grid.rowCnt - 1, NEW col \in 0..Grid.colCnt - 1, NEW p,
         NEW c, c = CellOffsetToDayOffset(row * Grid.colCnt + col, Grid.start)
  PROVE  (p \in RangeToSegments(s, t, Grid) /\ p.row = row /\ col \in p.leftCol..p.rightCol)
           <=> p = DayPiece(s, t, row) /\ DayFirst(s) <= c /\ c < DayEnd(t, s)
<1> DEFINE w == Grid.colCnt
           a == row * w
           b == (row + 1) * w
           n == a + col
           f == CellFrom(s, row)
           l == CellTo(s, t, row)
           d == DayOffsetToCellOffset(DayFirst(s), Grid.start)
           z == DayOffsetToCellOffset(DayEnd(t, s), Grid.start)
<1>1. /\ row \in Int /\ a \in Int /\ b \in Int /\ f \in Int /\ l \in Int /\ w \in 1..7
      /\ Grid.start \in Int /\ DayFirst(s) \in Int /\ DayEnd(t, s) \in Int
  BY DayCellsAre, PageGrid
<1>2. d \in Int /\ z \in Int
  BY <1>1, OffsetsAreInts
<1>3. f = Max({d, a}) /\ l = Min({z - 1, b - 1})
  BY DEF CellFrom, CellTo
<1>4. b - 1 = a + (w - 1)
  BY <1>1
<1>5. col \in Int /\ n \in Int /\ a <= n /\ n <= b - 1
  <2>1. col \in Int /\ 0 <= col /\ col <= w - 1
    BY <1>1
  <2> HIDE DEF a, b
  <2>2. QED
    BY <1>1, <1>4, <2>1
<1>6. c \in Int /\ (c >= DayFirst(s) <=> n >= d) /\ (c >= DayEnd(t, s) <=> n >= z)
  <2>1. c = CellOffsetToDayOffset(n, Grid.start)
    OBVIOUS
  <2> HIDE DEF n, d, z
  <2>2. CellOffsetToDayOffset(n, Grid.start) \in Int
    BY <1>1, <1>5, OffsetsAreInts
  <2>3. c >= DayFirst(s) <=> n >= d
    BY <1>1, <1>5, <2>1, CellsFollowDays DEF d
  <2>4. c >= DayEnd(t, s) <=> n >= z
    BY <1>1, <1>5, <2>1, CellsFollowDays DEF z
  <2>5. QED
    BY <2>1, <2>2, <2>3, <2>4
<1>7. DayPiece(s, t, row).row = row /\ DayPiece(s, t, row).leftCol = f % w
      /\ DayPiece(s, t, row).rightCol = l % w
  BY DEF DayPiece
<1>8. f <= l => a + (f % w) = f /\ a + (l % w) = l
  BY CellOfEnd
<1>9. f % w \in Int /\ l % w \in Int
  BY DayCellsAre
<1>10. (f <= n /\ n <= l) <=> (d <= n /\ n < z)
  <2> HIDE DEF a, b, d, z, f, l, n, w
  <2>1. z - 1 \in Int /\ b - 1 \in Int
    BY <1>1, <1>2
  <2> DEFINE y == z - 1
             x == b - 1
  <2>2. l = Min({y, x}) /\ y \in Int /\ x \in Int /\ n <= x /\ (n <= y <=> n < z)
    BY <1>2, <1>3, <1>5, <2>1
  <2> HIDE DEF x, y
  <2>3. f \in {d, a} /\ f >= d /\ f >= a
    BY <1>1, <1>2, <1>3, LeastOf
  <2>4. l \in {y, x} /\ l <= y /\ l <= x
    BY <2>2, LeastOf
  <2>5. f <= n <=> d <= n
    BY <1>1, <1>2, <1>5, <2>3
  <2>6. n <= l <=> n <= y
    BY <1>5, <2>2, <2>4
  <2>7. QED
    BY <2>2, <2>5, <2>6
<1>11. f <= l => (col \in (f % w)..(l % w) <=> f <= n /\ n <= l)
  <2> DEFINE u == f % w
             v == l % w
  <2>1. u \in Int /\ v \in Int /\ (f <= l => a + u = f /\ a + v = l) /\ n = a + col
    BY <1>8, <1>9
  <2> HIDE DEF u, v, a, f, l, n
  <2>2. f <= l => (col \in u..v <=> f <= n /\ n <= l)
    BY <1>1, <1>5, <2>1
  <2>3. QED
    BY <2>2 DEF u, v
<1>12. ASSUME p \in RangeToSegments(s, t, Grid), p.row = row, col \in p.leftCol..p.rightCol
       PROVE  p = DayPiece(s, t, row) /\ DayFirst(s) <= c /\ c < DayEnd(t, s)
  <2>1. PICK k \in 0..Grid.rowCnt - 1 : CellFrom(s, k) <= CellTo(s, t, k) /\ p = DayPiece(s, t, k)
    BY <1>12, DayPieceIs
  <2>2. k = row
    BY <1>12, <2>1 DEF DayPiece
  <2>3. f <= l /\ p = DayPiece(s, t, row)
    BY <2>1, <2>2
  <2>4. col \in (f % w)..(l % w)
    BY <1>7, <1>12, <2>3
  <2> HIDE DEF f, l, w, d, z, n
  <2>5. d <= n /\ n < z
    BY <1>10, <1>11, <2>3, <2>4
  <2>6. QED
    BY <1>1, <1>2, <1>5, <1>6, <2>3, <2>5
<1>13. ASSUME p = DayPiece(s, t, row), DayFirst(s) <= c, c < DayEnd(t, s)
       PROVE  p \in RangeToSegments(s, t, Grid) /\ p.row = row /\ col \in p.leftCol..p.rightCol
  <2>1. f <= n /\ n <= l
    <3> HIDE DEF f, l, d, z, n
    <3>1. QED
      BY <1>1, <1>2, <1>5, <1>6, <1>10, <1>13
  <2>2. f <= l
    <3> HIDE DEF f, l, n
    <3>1. QED
      BY <1>1, <1>5, <2>1
  <2>3. p \in RangeToSegments(s, t, Grid)
    BY <1>13, <2>2, DayPieceIs
  <2>4. col \in (f % w)..(l % w)
    BY <1>11, <2>1, <2>2
  <2> HIDE DEF f, l, w
  <2>5. QED
    BY <1>7, <1>13, <2>3, <2>4
<1>14. QED
  BY <1>12, <1>13

\* A cell has one piece of the event if its day is one of those it lasts, else none.
LEMMA DaysDrawn ==
  ASSUME PageOK, NEW e, IsEvent(e), NEW row \in 0..Grid.rowCnt - 1, NEW col \in 0..Grid.colCnt - 1
  PROVE  Cardinality({p \in DayPieces(e) : p.row = row /\ col \in p.leftCol..p.rightCol}) =
           IF DateOf([row |-> row, col |-> col]) \in
                DayOf(e.start)..Max({LastDay(GetEventEnd(e)), DayOf(e.start)})
           THEN 1 ELSE 0
<1> DEFINE s == e.start
           t == GetEventEnd(e)
           c == CellOffsetToDayOffset(row * Grid.colCnt + col, Grid.start)
           S == {p \in DayPieces(e) : p.row = row /\ col \in p.leftCol..p.rightCol}
           taken == DateOf([row |-> row, col |-> col]) \in DayOf(s)..Max({LastDay(t), DayOf(s)})
<1>1. s \in Moment /\ t \in Moment
  BY EventIs, EventEndIs
<1>2. DateOf([row |-> row, col |-> col]) = Grid.start + c
  BY DEF DateOf, CellToDate, CellToCellOffset
<1>3. c \in Int
  <2>1. row * Grid.colCnt \in Int /\ Grid.start \in Int /\ Grid.colCnt \in 1..7
    BY <1>1, DayCellsAre, PageGrid
  <2>2. row * Grid.colCnt + col \in Int
    BY <2>1
  <2>3. QED
    BY <2>1, <2>2, OffsetsAreInts
<1>4. \A p : p \in S <=> /\ p \in RangeToSegments(s, t, Grid)
                         /\ p.row = row /\ col \in p.leftCol..p.rightCol
  BY DEF DayPieces
<1> HIDE DEF s, t, S
<1>5. taken <=> DayFirst(s) <= c /\ c < DayEnd(t, s)
  <2> HIDE DEF c
  <2>1. QED
    BY <1>1, <1>2, <1>3, DaysTaken
<1> HIDE DEF taken
<1>6. \A p : p \in S <=> p = DayPiece(s, t, row) /\ taken
  BY <1>1, <1>4, <1>5, CellCovered
<1>7. CASE taken
  <2>1. S = {DayPiece(s, t, row)}
    BY <1>6, <1>7
  <2>2. QED
    BY <1>7, <2>1, FS_Singleton DEF S, taken, s, t
<1>8. CASE ~ taken
  <2>1. S = {}
    BY <1>6, <1>8
  <2>2. QED
    BY <1>8, <2>1, FS_EmptySet DEF S, taken, s, t
<1>9. QED
  BY <1>7, <1>8

\* A row of the grid is told by any of its cells.
LEMMA SameRow ==
  ASSUME NEW i \in Int, NEW j \in Int, NEW w \in 1..7, NEW n \in Int,
         i * w <= n, n <= i * w + (w - 1), j * w <= n, n <= j * w + (w - 1)
  PROVE  i = j
<1>1. w \in Nat /\ i * w \in Int /\ j * w \in Int
  OBVIOUS
<1>2. ASSUME NEW k \in Int, k * w <= n, n <= k * w + (w - 1) PROVE n \div w = k
  <2> DEFINE r == n - k * w
  <2>1. k * w \in Int
    OBVIOUS
  <2>2. r \in Int /\ 0 <= r /\ r < w /\ k * w + r = n
    BY <1>2, <2>1
  <2> HIDE DEF r
  <2>3. (k * w + r) \div w = k
    BY <1>1, <2>2, PartsOf
  <2>4. QED
    BY <2>2, <2>3
<1>3. QED
  BY <1>2

\* At most one piece is the first, and one the last.
LEMMA EndsOnce ==
  ASSUME PageOK, NEW e, IsEvent(e)
  PROVE  /\ Cardinality({p \in DayPieces(e) : p.isStart}) <= 1
         /\ Cardinality({p \in DayPieces(e) : p.isEnd}) <= 1
<1> DEFINE s == e.start
           t == GetEventEnd(e)
<1>1. s \in Moment /\ t \in Moment
  BY EventIs, EventEndIs
<1>2. DayPieces(e) = RangeToSegments(s, t, Grid)
  BY DEF DayPieces
<1> HIDE DEF s, t
<1>3. Grid.start \in Int /\ Grid.colCnt \in 1..7
  BY PageGrid
<1>4. ASSUME NEW i \in 0..Grid.rowCnt - 1, CellFrom(s, i) <= CellTo(s, t, i)
      PROVE  /\ i \in Int /\ CellFrom(s, i) \in Int /\ CellTo(s, t, i) \in Int
             /\ i * Grid.colCnt <= CellFrom(s, i) /\ i * Grid.colCnt <= CellTo(s, t, i)
             /\ CellFrom(s, i) <= i * Grid.colCnt + (Grid.colCnt - 1)
             /\ CellTo(s, t, i) <= i * Grid.colCnt + (Grid.colCnt - 1)
  <2>1. i \in Int /\ i * Grid.colCnt \in Int /\ CellFrom(s, i) \in Int /\ CellTo(s, t, i) \in Int
    BY <1>1, DayCellsAre
  <2>2. /\ i * Grid.colCnt <= CellFrom(s, i)
        /\ CellTo(s, t, i) <= i * Grid.colCnt + (Grid.colCnt - 1)
    BY <1>1, <1>4, CellOfEnd
  <2>3. QED
    BY <1>3, <1>4, <2>1, <2>2
<1>5. ASSUME NEW p \in DayPieces(e), NEW q \in DayPieces(e), p.isStart, q.isStart
      PROVE  p = q
  <2>1. PICK i \in 0..Grid.rowCnt - 1 : CellFrom(s, i) <= CellTo(s, t, i) /\ p = DayPiece(s, t, i)
    BY <1>2, DayPieceIs
  <2>2. PICK j \in 0..Grid.rowCnt - 1 : CellFrom(s, j) <= CellTo(s, t, j) /\ q = DayPiece(s, t, j)
    BY <1>2, DayPieceIs
  <2>3. CellOffsetToDayOffset(CellFrom(s, i), Grid.start)
          = CellOffsetToDayOffset(CellFrom(s, j), Grid.start)
    BY <1>5, <2>1, <2>2 DEF DayPiece
  <2>4. CellFrom(s, i) = CellFrom(s, j)
    BY <1>3, <1>4, <2>1, <2>2, <2>3, CellsDiffer
  <2>5. i = j
    BY <1>3, <1>4, <2>1, <2>2, <2>4, SameRow
  <2>6. QED
    BY <2>1, <2>2, <2>5
<1>6. ASSUME NEW p \in DayPieces(e), NEW q \in DayPieces(e), p.isEnd, q.isEnd
      PROVE  p = q
  <2>1. PICK i \in 0..Grid.rowCnt - 1 : CellFrom(s, i) <= CellTo(s, t, i) /\ p = DayPiece(s, t, i)
    BY <1>2, DayPieceIs
  <2>2. PICK j \in 0..Grid.rowCnt - 1 : CellFrom(s, j) <= CellTo(s, t, j) /\ q = DayPiece(s, t, j)
    BY <1>2, DayPieceIs
  <2>3. /\ CellOffsetToDayOffset(CellTo(s, t, i), Grid.start) + 1 = DayEnd(t, s)
        /\ CellOffsetToDayOffset(CellTo(s, t, j), Grid.start) + 1 = DayEnd(t, s)
    BY <1>6, <2>1, <2>2 DEF DayPiece
  <2>4. /\ CellOffsetToDayOffset(CellTo(s, t, i), Grid.start) \in Int
        /\ CellOffsetToDayOffset(CellTo(s, t, j), Grid.start) \in Int
    BY <1>3, <1>4, <2>1, <2>2, OffsetsAreInts
  <2>5. CellOffsetToDayOffset(CellTo(s, t, i), Grid.start)
          = CellOffsetToDayOffset(CellTo(s, t, j), Grid.start)
    BY <2>3, <2>4
  <2>6. CellTo(s, t, i) = CellTo(s, t, j)
    BY <1>3, <1>4, <2>1, <2>2, <2>5, CellsDiffer
  <2>7. i = j
    BY <1>3, <1>4, <2>1, <2>2, <2>6, SameRow
  <2>8. QED
    BY <2>1, <2>2, <2>7
<1>7. \A p, q \in {x \in DayPieces(e) : x.isStart} : p = q
  BY <1>5
<1>8. \A p, q \in {x \in DayPieces(e) : x.isEnd} : p = q
  BY <1>6
<1>9. QED
  BY <1>7, <1>8, AtMostOne

\* A tick that a column shows is in one piece of the event if it lasts then, else in none.
LEMMA SlotsDrawn ==
  ASSUME PageOK, EventsOK, NEW id \in DOMAIN events, NEW col \in 0..Grid.colCnt - 1,
         NEW time \in MinTime..MaxTime - 1, NEW at,
         at = DateOf([row |-> 0, col |-> col]) * TicksPerDay + time
  PROVE  Cardinality({p \in SlotPieces(id) :
                        p.col = col /\ p.seg.start <= at /\ at < p.seg.end}) =
           IF events[id].start.at <= at /\ at < GetEventEnd(events[id]).at THEN 1 ELSE 0
<1> DEFINE e == events[id]
           x == e.start.at
           y == GetEventEnd(e).at
           from == ColumnFrom(col)
           to == ColumnTo(col)
           lasts == x <= at /\ at < y
           S == {p \in SlotPieces(id) : p.col = col /\ p.seg.start <= at /\ at < p.seg.end}
<1>1. x \in Int /\ y \in Int
  <2>1. IsEvent(e)
    BY DEF EventsOK
  <2> HIDE DEF e
  <2>2. QED
    BY <2>1, EventIs, EventEndIs, MomentIs
<1>2. from \in Int /\ to \in Int /\ at \in Int /\ from <= at /\ at < to
  <2> DEFINE day == DateOf([row |-> 0, col |-> col]) * TicksPerDay
  <2>1. DateOf([row |-> 0, col |-> col]) \in Int
    BY ColumnTicks
  <2>2. day \in Int
    BY <2>1, WholeDays
  <2>3. MinTime \in Int /\ MaxTime \in Int /\ time \in Int /\ MinTime <= time /\ time < MaxTime
    BY SlotAssumption, DurationAssumption
  <2>4. from = day + MinTime /\ to = day + MaxTime /\ at = day + time
    BY DEF ColumnFrom, ColumnTo
  <2> HIDE DEF day, from, to
  <2>5. QED
    BY <2>2, <2>3, <2>4
<1>3. /\ SlotPiece(id, e, col).col = col
      /\ SlotPiece(id, e, col).seg.start = Max({x, from})
      /\ SlotPiece(id, e, col).seg.end = Min({y, to})
  BY DEF SlotPiece
<1>4. Seen(e, col) <=> y > from /\ x < to
  BY DEF Seen
<1>5. /\ \A c : SlotPiece(id, e, c).col = c
      /\ \A p : p \in SlotPieces(id) <=>
                  \E c \in 0..Grid.colCnt - 1 : Seen(e, c) /\ p = SlotPiece(id, e, c)
  BY SlotPieceIs DEF SlotPiece
<1> HIDE DEF e, x, y, from, to
<1>6. /\ Max({x, from}) \in {x, from} /\ Max({x, from}) >= x /\ Max({x, from}) >= from
      /\ Min({y, to}) \in {y, to} /\ Min({y, to}) <= y /\ Min({y, to}) <= to
  BY <1>1, <1>2, LeastOf
<1>7. Max({x, from}) <= at /\ at < Min({y, to}) <=> lasts
  BY <1>1, <1>2, <1>6
<1>8. lasts => Seen(e, col)
  BY <1>1, <1>2, <1>4
<1>9. ASSUME NEW p
      PROVE  p \in S <=> p = SlotPiece(id, e, col) /\ lasts
  <2>1. p \in S <=> p \in SlotPieces(id) /\ p.col = col /\ p.seg.start <= at /\ at < p.seg.end
    OBVIOUS
  <2>2. p \in SlotPieces(id) /\ p.col = col <=> Seen(e, col) /\ p = SlotPiece(id, e, col)
    BY <1>5
  <2> HIDE DEF S, lasts
  <2>3. p = SlotPiece(id, e, col) => (p.seg.start <= at /\ at < p.seg.end <=> lasts)
    BY <1>3, <1>7
  <2>4. QED
    BY <1>8, <2>1, <2>2, <2>3
<1> HIDE DEF S, lasts
<1>10. CASE lasts
  <2>1. S = {SlotPiece(id, e, col)}
    BY <1>9, <1>10
  <2>2. QED
    BY <1>10, <2>1, FS_Singleton DEF S, lasts, x, y, e
<1>11. CASE ~ lasts
  <2>1. S = {}
    BY <1>9, <1>11
  <2>2. QED
    BY <1>11, <2>1, FS_EmptySet DEF S, lasts, x, y, e
<1>12. QED
  BY <1>10, <1>11

-----------------------------------------------------------------------------
(* Stacking the rows of day cells                                           *)
(*                                                                          *)
(* compareDaySegments orders the segments of a row (Compared), so sorting   *)
(* puts each in one place (SortedIs). buildSegmentSubrows puts a segment    *)
(* in the first subrow it does not collide with, and the subrows one after  *)
(* the other hold each segment once (RowListed). calculateVerticals never   *)
(* lowers the height of a column, and a segment reaches from the highest    *)
(* of its columns to what it leaves them at (PilesUp): so a later segment   *)
(* of the same columns starts below it (StaysBelow), and the room of the    *)
(* row, the highest of all columns in the end, holds every segment.         *)

-----------------------------------------------------------------------------
(* The segments of a row                                                    *)

\* Of two lists of numbers one is less when the first difference says so.
LexLess(p, q) ==
  \/ p[1] < q[1]
  \/ p[1] = q[1] /\ p[2] < q[2]
  \/ p[1] = q[1] /\ p[2] = q[2] /\ p[3] < q[3]
  \/ p[1] = q[1] /\ p[2] = q[2] /\ p[3] = q[3] /\ p[4] < q[4]

\* The first difference is found by the place with no difference before it.
LEMMA FirstDifference ==
  ASSUME NEW p, NEW q, \A k \in 1..4 : p[k] \in Int /\ q[k] \in Int, p[4] # q[4],
         NEW i, i = CHOOSE k \in 1..4 : /\ p[k] # q[k]
                                        /\ \A j \in 1..k - 1 : p[j] = q[j]
  PROVE  p[i] < q[i] <=> LexLess(p, q)
<1> DEFINE Differ(k) == p[k] # q[k] /\ \A j \in 1..k - 1 : p[j] = q[j]
<1>1. \E k \in 1..4 : Differ(k)
  <2>1. CASE p[1] # q[1]
    <3>1. Differ(1)
      BY <2>1
    <3>2. QED
      BY <3>1
  <2>2. CASE p[1] = q[1] /\ p[2] # q[2]
    <3>1. Differ(2)
      BY <2>2
    <3>2. QED
      BY <3>1
  <2>3. CASE p[1] = q[1] /\ p[2] = q[2] /\ p[3] # q[3]
    <3>1. Differ(3)
      BY <2>3
    <3>2. QED
      BY <3>1
  <2>4. CASE p[1] = q[1] /\ p[2] = q[2] /\ p[3] = q[3]
    <3>1. Differ(4)
      BY <2>4
    <3>2. QED
      BY <3>1
  <2>5. QED
    BY <2>1, <2>2, <2>3, <2>4
<1>2. i \in 1..4 /\ Differ(i)
  <2> HIDE DEF Differ
  <2>1. i = CHOOSE k \in 1..4 : Differ(k)
    BY DEF Differ
  <2>2. QED
    BY <1>1, <2>1
<1>3. /\ p[1] \in Int /\ p[2] \in Int /\ p[3] \in Int /\ p[4] \in Int
      /\ q[1] \in Int /\ q[2] \in Int /\ q[3] \in Int /\ q[4] \in Int
  OBVIOUS
<1>4. CASE i = 1
  <2>1. p[1] # q[1]
    BY <1>2, <1>4
  <2>2. QED
    BY <1>3, <1>4, <2>1 DEF LexLess
<1>5. CASE i = 2
  <2>1. p[1] = q[1] /\ p[2] # q[2]
    BY <1>2, <1>5
  <2>2. QED
    BY <1>3, <1>5, <2>1 DEF LexLess
<1>6. CASE i = 3
  <2>1. p[1] = q[1] /\ p[2] = q[2] /\ p[3] # q[3]
    BY <1>2, <1>6
  <2>2. QED
    BY <1>3, <1>6, <2>1 DEF LexLess
<1>7. CASE i = 4
  <2>1. p[1] = q[1] /\ p[2] = q[2] /\ p[3] = q[3] /\ p[4] # q[4]
    BY <1>2, <1>7
  <2>2. QED
    BY <1>3, <1>7, <2>1 DEF LexLess
<1>8. QED
  BY <1>2, <1>4, <1>5, <1>6, <1>7

\* What compareDaySegments compares.
RowKey(s, es) ==
  <<- Span(s), IF es[s.id].allDay THEN 0 ELSE 1, Instant(es[s.id].start), s.id>>

\* The segments of a row of a grid of w columns: an event has one at most.
RowOf(S, es, w) ==
  /\ IsFiniteSet(S)
  /\ \A s \in S :
       /\ s.id \in DOMAIN es /\ s.id \in Nat
       /\ s.at.leftCol \in Int /\ s.at.rightCol \in Int
       /\ 0 <= s.at.leftCol /\ s.at.leftCol <= s.at.rightCol /\ s.at.rightCol <= w - 1
       /\ es[s.id].allDay \in BOOLEAN /\ Instant(es[s.id].start) \in Int
  /\ \A s, t \in S : s.id = t.id => s = t

\* Two segments of a row are compared by their keys.
LEMMA ComparedByKey ==
  ASSUME NEW S, NEW es, NEW w, RowOf(S, es, w), NEW s \in S, NEW t \in S, s # t
  PROVE  /\ \A k \in 1..4 : RowKey(s, es)[k] \in Int /\ RowKey(t, es)[k] \in Int
         /\ RowKey(s, es)[4] # RowKey(t, es)[4]
         /\ CompareDaySegments(s, t, es) <=> LexLess(RowKey(s, es), RowKey(t, es))
<1>1. ASSUME NEW x \in S
      PROVE  /\ \A k \in 1..4 : RowKey(x, es)[k] \in Int
             /\ RowKey(x, es)[4] = x.id
  <2>1. /\ - Span(x) \in Int /\ (IF es[x.id].allDay THEN 0 ELSE 1) \in Int
        /\ Instant(es[x.id].start) \in Int /\ x.id \in Int
    <3>1. x.at.leftCol \in Int /\ x.at.rightCol \in Int
      BY DEF RowOf
    <3>2. - Span(x) \in Int
      BY <3>1 DEF Span
    <3>3. QED
      BY <3>2 DEF RowOf
  <2> DEFINE a == - Span(x)
             b == IF es[x.id].allDay THEN 0 ELSE 1
             c == Instant(es[x.id].start)
             d == x.id
  <2>2. RowKey(x, es) = <<a, b, c, d>>
    BY DEF RowKey
  <2>3. a \in Int /\ b \in Int /\ c \in Int /\ d \in Int
    BY <2>1
  <2> HIDE DEF a, b, c, d
  <2>4. /\ RowKey(x, es)[1] = a /\ RowKey(x, es)[2] = b
        /\ RowKey(x, es)[3] = c /\ RowKey(x, es)[4] = d
    BY <2>2
  <2>5. \A k \in 1..4 : k = 1 \/ k = 2 \/ k = 3 \/ k = 4
    OBVIOUS
  <2>6. \A k \in 1..4 : RowKey(x, es)[k] \in Int
    BY <2>3, <2>4, <2>5
  <2>7. QED
    BY <2>4, <2>6 DEF d
<1>2. RowKey(s, es)[4] # RowKey(t, es)[4]
  <2>1. s.id # t.id
    BY DEF RowOf
  <2>2. QED
    BY <1>1, <2>1
<1> DEFINE i == CHOOSE k \in 1..4 : /\ RowKey(s, es)[k] # RowKey(t, es)[k]
                                    /\ \A j \in 1..k - 1 : RowKey(s, es)[j] = RowKey(t, es)[j]
<1>3. CompareDaySegments(s, t, es) <=> RowKey(s, es)[i] < RowKey(t, es)[i]
  BY DEF CompareDaySegments, RowKey
<1>4. \A k \in 1..4 : RowKey(s, es)[k] \in Int /\ RowKey(t, es)[k] \in Int
  BY <1>1
<1>5. RowKey(s, es)[i] < RowKey(t, es)[i] <=> LexLess(RowKey(s, es), RowKey(t, es))
  <2> DEFINE p == RowKey(s, es)
             q == RowKey(t, es)
  <2>1. i = CHOOSE k \in 1..4 : p[k] # q[k] /\ \A j \in 1..k - 1 : p[j] = q[j]
    OBVIOUS
  <2>2. \A k \in 1..4 : p[k] \in Int /\ q[k] \in Int
    BY <1>4
  <2>3. p[4] # q[4]
    BY <1>2
  <2> HIDE DEF p, q, i
  <2>4. p[i] < q[i] <=> LexLess(p, q)
    BY <2>1, <2>2, <2>3, FirstDifference
  <2>5. QED
    BY <2>4 DEF p, q
<1>6. QED
  BY <1>2, <1>3, <1>4, <1>5

Compared(S, es) == {p \in S \X S : CompareDaySegments(p[1], p[2], es) /\ p[1] # p[2]}

\* compareDaySegments orders the segments of a row.
LEMMA RowOrdered ==
  ASSUME NEW S, NEW es, NEW w, RowOf(S, es, w)
  PROVE  Orders(Compared(S, es), S)
<1>1. \A s, t \in S : <<s, t>> \in Compared(S, es) <=> s # t /\ LexLess(RowKey(s, es), RowKey(t, es))
  BY ComparedByKey DEF Compared
<1> DEFINE K(s) == RowKey(s, es)
<1>2. \A s, t \in S : s # t =>
        /\ K(s)[1] \in Int /\ K(s)[2] \in Int /\ K(s)[3] \in Int /\ K(s)[4] \in Int
        /\ K(s)[4] # K(t)[4]
  BY ComparedByKey
<1> HIDE DEF K
<1>3. ASSUME NEW s \in S, NEW t \in S, s # t
      PROVE  LexLess(K(s), K(t)) <=> ~ LexLess(K(t), K(s))
  <2>1. /\ K(s)[1] \in Int /\ K(s)[2] \in Int /\ K(s)[3] \in Int /\ K(s)[4] \in Int
        /\ K(t)[1] \in Int /\ K(t)[2] \in Int /\ K(t)[3] \in Int /\ K(t)[4] \in Int
        /\ K(s)[4] # K(t)[4]
    BY <1>2, <1>3
  <2>2. QED
    BY <2>1 DEF LexLess
<1>4. ASSUME NEW s \in S, NEW t \in S, NEW u \in S, s # t, t # u,
             LexLess(K(s), K(t)), LexLess(K(t), K(u))
      PROVE  s # u /\ LexLess(K(s), K(u))
  <2>1. /\ K(s)[1] \in Int /\ K(s)[2] \in Int /\ K(s)[3] \in Int /\ K(s)[4] \in Int
        /\ K(t)[1] \in Int /\ K(t)[2] \in Int /\ K(t)[3] \in Int /\ K(t)[4] \in Int
        /\ K(u)[1] \in Int /\ K(u)[2] \in Int /\ K(u)[3] \in Int /\ K(u)[4] \in Int
    BY <1>2, <1>4
  <2>2. s # u
    BY <1>3, <1>4
  <2>3. LexLess(K(s), K(u))
    BY <1>4, <2>1 DEF LexLess
  <2>4. QED
    BY <2>2, <2>3
<1>5. \A s, t \in S : <<s, t>> \in Compared(S, es) <=> s # t /\ LexLess(K(s), K(t))
  BY <1>1 DEF K
<1>6. \A s, t \in S : s # t => (<<s, t>> \in Compared(S, es) <=> ~ (<<t, s>> \in Compared(S, es)))
  BY <1>3, <1>5
<1>7. \A s, t, u \in S : <<s, t>> \in Compared(S, es) /\ <<t, u>> \in Compared(S, es)
                           => <<s, u>> \in Compared(S, es)
  BY <1>4, <1>5
<1>8. QED
  BY <1>6, <1>7 DEF Orders

\* The segments of a row in their order: each of them, once.
LEMMA SortedIs ==
  ASSUME NEW S, NEW es, NEW w, RowOf(S, es, w)
  PROVE  /\ Cardinality(S) \in Nat
         /\ SortedRow(S, es) \in [1..Cardinality(S) -> S]
         /\ \A i, j \in 1..Cardinality(S) : SortedRow(S, es)[i] = SortedRow(S, es)[j] => i = j
         /\ \A s \in S : \E i \in 1..Cardinality(S) : SortedRow(S, es)[i] = s
<1> DEFINE R == Compared(S, es)
           n == Cardinality(S)
           rank(s) == Cardinality(Earlier(R, S, s))
<1>1. IsFiniteSet(S) /\ Orders(R, S)
  BY RowOrdered DEF RowOf
<1>2. /\ n \in Nat
      /\ \A s \in S : rank(s) \in 0..n - 1
      /\ \A s, t \in S : rank(s) = rank(t) => s = t
      /\ \A i \in 1..n : \E s \in S : rank(s) = i - 1
  <2> HIDE DEF R
  <2>1. QED
    BY <1>1, Ranks
<1>3. \A s \in S : {t \in S \ {s} : CompareDaySegments(t, s, es)} = Earlier(R, S, s)
  BY DEF Earlier, Compared
<1>4. SortedRow(S, es) = [k \in 1..n |-> CHOOSE s \in S : rank(s) = k - 1]
  <2> DEFINE earlier(s) == {t \in S \ {s} : CompareDaySegments(t, s, es)}
  <2>1. SortedRow(S, es) = [k \in 1..n |-> CHOOSE s \in S : Cardinality(earlier(s)) = k - 1]
    BY DEF SortedRow
  <2>2. \A s \in S : Cardinality(earlier(s)) = rank(s)
    BY <1>3
  <2> HIDE DEF earlier, rank, n
  <2>3. \A k : (CHOOSE s \in S : Cardinality(earlier(s)) = k - 1) = CHOOSE s \in S : rank(s) = k - 1
    BY <2>2
  <2>4. QED
    BY <2>1, <2>3
<1> HIDE DEF rank, n
<1>5. ASSUME NEW k \in 1..n
      PROVE  SortedRow(S, es)[k] \in S /\ rank(SortedRow(S, es)[k]) = k - 1
  <2>1. \E s \in S : rank(s) = k - 1
    BY <1>2
  <2>2. SortedRow(S, es)[k] = CHOOSE s \in S : rank(s) = k - 1
    BY <1>4
  <2>3. QED
    BY <2>1, <2>2
<1>6. SortedRow(S, es) \in [1..n -> S]
  BY <1>4, <1>5
<1>7. \A i, j \in 1..n : SortedRow(S, es)[i] = SortedRow(S, es)[j] => i = j
  <2> SUFFICES ASSUME NEW i \in 1..n, NEW j \in 1..n, SortedRow(S, es)[i] = SortedRow(S, es)[j]
               PROVE  i = j
    OBVIOUS
  <2>1. i - 1 = j - 1
    BY <1>5, Zenon
  <2>2. QED
    BY <1>2, <2>1
<1>8. ASSUME NEW s \in S PROVE \E i \in 1..n : SortedRow(S, es)[i] = s
  <2> DEFINE i == rank(s) + 1
  <2>1. i \in 1..n /\ i - 1 = rank(s)
    BY <1>2
  <2> HIDE DEF i
  <2>2. rank(SortedRow(S, es)[i]) = rank(s) /\ SortedRow(S, es)[i] \in S
    BY <1>5, <2>1
  <2>3. QED
    BY <1>2, <2>1, <2>2
<1>9. QED
  BY <1>2, <1>6, <1>7, <1>8 DEF n

\* Subrows of segments of S, no segment in two places.
Subrows(S, rows) ==
  /\ rows \in Seq(Seq(S))
  /\ \A j, k \in DOMAIN rows : \A a \in DOMAIN rows[j], b \in DOMAIN rows[k] :
       rows[j][a] = rows[k][b] => j = k /\ a = b

\* The segments in some subrows.
InSubrows(s, rows) == \E j \in DOMAIN rows : \E a \in DOMAIN rows[j] : rows[j][a] = s

\* The i-th subrow with one more segment.
Longer(rows, i, s) == [rows EXCEPT ![i] = Append(rows[i], s)]

\* A subrow gets one more segment, or a new subrow starts with it.
LEMMA JoinPlace ==
  ASSUME NEW S, NEW rows \in Seq(Seq(S)), NEW s \in S
  PROVE  \/ JoinSubrow(rows, s) = Append(rows, <<s>>)
         \/ \E i \in DOMAIN rows : JoinSubrow(rows, s) = Longer(rows, i, s)
<1> DEFINE free == {j \in DOMAIN rows : ~ IsDaySegmentCollision(s, ToSet(rows[j]))}
<1>1. JoinSubrow(rows, s) = IF free = {} THEN Append(rows, <<s>>)
                            ELSE Longer(rows, Min(free), s)
  BY DEF JoinSubrow, Longer
<1>2. CASE free = {}
  BY <1>1, <1>2
<1>3. CASE free # {}
  <2> DEFINE n == Len(rows)
  <2>1. 1 \in Int /\ n \in Int /\ DOMAIN rows = 1..n
    OBVIOUS
  <2>2. free \in SUBSET (1..n)
    BY <2>1
  <2>3. Min(free) \in free
    <3> HIDE DEF free, n
    <3>1. QED
      BY <1>3, <2>1, <2>2, Extremes
  <2>4. Min(free) \in DOMAIN rows
    BY <2>3
  <2> HIDE DEF free
  <2>5. QED
    BY <1>1, <1>3, <2>4
<1>4. QED
  BY <1>2, <1>3

\* A segment that joins is in one place, and moves no other.
LEMMA JoinIs ==
  ASSUME NEW S, NEW rows, Subrows(S, rows), NEW s \in S, ~ InSubrows(s, rows)
  PROVE  /\ Subrows(S, JoinSubrow(rows, s))
         /\ \A t : InSubrows(t, JoinSubrow(rows, s)) <=> InSubrows(t, rows) \/ t = s
<1> DEFINE new == JoinSubrow(rows, s)
<1>1. rows \in Seq(Seq(S)) /\ DOMAIN rows = 1..Len(rows) /\ Len(rows) \in Nat
  BY DEF Subrows
<1>2. CASE new = Append(rows, <<s>>)
  <2> DEFINE n == Len(rows)
  <2>1. /\ DOMAIN new = 1..n + 1 /\ new[n + 1] = <<s>> /\ \A j \in 1..n : new[j] = rows[j]
        /\ <<s>> \in Seq(S)
    BY <1>1, <1>2
  <2>2. new \in Seq(Seq(S))
    BY <1>1, <1>2, <2>1
  <2>3. DOMAIN <<s>> = {1} /\ <<s>>[1] = s
    OBVIOUS
  <2>4. /\ \A j \in DOMAIN new : j \in 1..n \/ j = n + 1
        /\ \A j \in 1..n : j \in DOMAIN new /\ j \in DOMAIN rows
        /\ n + 1 \in DOMAIN new
    BY <1>1, <2>1
  <2> HIDE DEF new, n
  <2>5. \A t : InSubrows(t, new) <=> InSubrows(t, rows) \/ t = s
    <3> SUFFICES ASSUME NEW t PROVE InSubrows(t, new) <=> InSubrows(t, rows) \/ t = s
      OBVIOUS
    <3>1. ASSUME InSubrows(t, new) PROVE InSubrows(t, rows) \/ t = s
      <4>1. PICK j \in DOMAIN new : \E a \in DOMAIN new[j] : new[j][a] = t
        BY <3>1 DEF InSubrows
      <4>2. CASE j = n + 1
        BY <2>1, <2>3, <4>1, <4>2
      <4>3. CASE j \in 1..n
        <5>1. j \in DOMAIN rows /\ new[j] = rows[j]
          BY <2>1, <2>4, <4>3
        <5>2. QED
          BY <4>1, <5>1 DEF InSubrows
      <4>4. QED
        BY <2>4, <4>2, <4>3
    <3>2. ASSUME InSubrows(t, rows) PROVE InSubrows(t, new)
      <4>1. PICK j \in DOMAIN rows : \E a \in DOMAIN rows[j] : rows[j][a] = t
        BY <3>2 DEF InSubrows
      <4>2. j \in DOMAIN new /\ new[j] = rows[j]
        BY <1>1, <2>1, <2>4 DEF n
      <4>3. QED
        BY <4>1, <4>2 DEF InSubrows
    <3>3. ASSUME t = s PROVE InSubrows(t, new)
      <4>1. 1 \in DOMAIN new[n + 1] /\ new[n + 1][1] = t
        BY <2>1, <2>3, <3>3
      <4>2. QED
        BY <2>4, <4>1 DEF InSubrows
    <3>4. QED
      BY <3>1, <3>2, <3>3
  <2>6. ASSUME NEW j \in DOMAIN new, NEW k \in DOMAIN new,
               NEW a \in DOMAIN new[j], NEW b \in DOMAIN new[k], new[j][a] = new[k][b]
        PROVE  j = k /\ a = b
    <3>1. CASE j \in 1..n /\ k \in 1..n
      <4>1. /\ j \in DOMAIN rows /\ k \in DOMAIN rows
            /\ new[j] = rows[j] /\ new[k] = rows[k]
        BY <2>1, <2>4, <3>1
      <4>2. QED
        BY <2>6, <4>1 DEF Subrows
    <3>2. CASE j \in 1..n /\ k = n + 1
      <4>1. j \in DOMAIN rows /\ new[j] = rows[j] /\ new[k][b] = s
        BY <2>1, <2>3, <2>4, <3>2
      <4>2. InSubrows(s, rows)
        BY <2>6, <4>1 DEF InSubrows
      <4>3. QED
        BY <4>2
    <3>3. CASE j = n + 1 /\ k \in 1..n
      <4>1. k \in DOMAIN rows /\ new[k] = rows[k] /\ new[j][a] = s
        BY <2>1, <2>3, <2>4, <3>3
      <4>2. InSubrows(s, rows)
        BY <2>6, <4>1 DEF InSubrows
      <4>3. QED
        BY <4>2
    <3>4. CASE j = n + 1 /\ k = n + 1
      BY <2>1, <2>3, <3>4
    <3>5. QED
      BY <2>4, <3>1, <3>2, <3>3, <3>4
  <2>7. Subrows(S, new)
    BY <2>2, <2>6 DEF Subrows
  <2>8. QED
    BY <2>5, <2>7 DEF new
<1>3. ASSUME NEW i \in DOMAIN rows, new = Longer(rows, i, s)
      PROVE  /\ Subrows(S, new)
             /\ \A t : InSubrows(t, new) <=> InSubrows(t, rows) \/ t = s
  <2> DEFINE n == Len(rows[i])
  <2>1. rows[i] \in Seq(S) /\ n \in Nat /\ DOMAIN rows[i] = 1..n
    BY <1>1
  <2>2. /\ DOMAIN new = DOMAIN rows /\ new[i] = Append(rows[i], s)
        /\ \A j \in DOMAIN rows : j # i => new[j] = rows[j]
    BY <1>3 DEF Longer
  <2>3. /\ new[i] \in Seq(S)
        /\ DOMAIN new[i] = 1..n + 1 /\ new[i][n + 1] = s
        /\ \A a \in 1..n : new[i][a] = rows[i][a]
    <3> HIDE DEF new
    <3>1. QED
      BY <2>1, <2>2
  <2>4. new \in Seq(Seq(S))
    <3>1. Append(rows[i], s) \in Seq(S)
      BY <2>1
    <3> DEFINE T == Seq(S)
               one == Append(rows[i], s)
    <3>2. rows \in Seq(T) /\ one \in T
      BY <1>1, <3>1
    <3> HIDE DEF T, one
    <3>3. [rows EXCEPT ![i] = one] \in Seq(T)
      BY <3>2
    <3>4. QED
      BY <1>3, <3>3 DEF T, one, Longer
  <2>5. /\ \A a \in 1..n + 1 : a \in 1..n \/ a = n + 1
        /\ \A a \in 1..n : a \in 1..n + 1 /\ a # n + 1
        /\ n + 1 \in 1..n + 1
    BY <2>1
  <2> HIDE DEF new, n
  \* Each place of the new subrows is that of s, or the same place as before.
  <2>6. ASSUME NEW j \in DOMAIN new, NEW a \in DOMAIN new[j]
        PROVE  \/ j = i /\ a = n + 1 /\ new[j][a] = s
               \/ j \in DOMAIN rows /\ a \in DOMAIN rows[j] /\ new[j][a] = rows[j][a]
    <3>1. CASE j # i
      BY <2>2, <3>1
    <3>2. CASE j = i
      BY <2>1, <2>3, <2>5, <3>2
    <3>3. QED
      BY <3>1, <3>2
  <2>7. ASSUME NEW j \in DOMAIN rows, NEW a \in DOMAIN rows[j]
        PROVE  j \in DOMAIN new /\ a \in DOMAIN new[j] /\ new[j][a] = rows[j][a]
    <3>1. CASE j # i
      BY <2>2, <3>1
    <3>2. CASE j = i
      BY <2>1, <2>2, <2>3, <2>5, <3>2
    <3>3. QED
      BY <3>1, <3>2
  <2>8. \A t : InSubrows(t, new) <=> InSubrows(t, rows) \/ t = s
    <3>1. \A t : InSubrows(t, new) => InSubrows(t, rows) \/ t = s
      BY <2>6 DEF InSubrows
    <3>2. \A t : InSubrows(t, rows) => InSubrows(t, new)
      BY <2>7 DEF InSubrows
    <3>3. i \in DOMAIN new /\ n + 1 \in DOMAIN new[i] /\ new[i][n + 1] = s
      BY <2>2, <2>3, <2>5
    <3>4. InSubrows(s, new)
      BY <3>3 DEF InSubrows
    <3>5. QED
      BY <3>1, <3>2, <3>4
  <2>9. ASSUME NEW j \in DOMAIN new, NEW k \in DOMAIN new,
               NEW a \in DOMAIN new[j], NEW b \in DOMAIN new[k], new[j][a] = new[k][b]
        PROVE  j = k /\ a = b
    <3>1. \A x \in DOMAIN rows : \A y \in DOMAIN rows[x] : rows[x][y] # s
      BY DEF InSubrows
    <3>2. \/ j = i /\ a = n + 1 /\ new[j][a] = s
          \/ j \in DOMAIN rows /\ a \in DOMAIN rows[j] /\ new[j][a] = rows[j][a]
      BY <2>6
    <3>3. \/ k = i /\ b = n + 1 /\ new[k][b] = s
          \/ k \in DOMAIN rows /\ b \in DOMAIN rows[k] /\ new[k][b] = rows[k][b]
      BY <2>6
    <3>4. QED
      BY <2>9, <3>1, <3>2, <3>3 DEF Subrows
  <2>10. Subrows(S, new)
    BY <2>4, <2>9 DEF Subrows
  <2>11. QED
    BY <2>8, <2>10
<1>4. new = Append(rows, <<s>>) \/ \E i \in DOMAIN rows : new = Longer(rows, i, s)
  <2>1. rows \in Seq(Seq(S))
    BY <1>1
  <2> HIDE DEF new
  <2>2. \/ JoinSubrow(rows, s) = Append(rows, <<s>>)
        \/ \E i \in DOMAIN rows : JoinSubrow(rows, s) = Longer(rows, i, s)
    BY <2>1, JoinPlace, Zenon
  <2>3. QED
    BY <2>2, Zenon DEF new
<1> HIDE DEF new
<1>5. Subrows(S, new) /\ \A t : InSubrows(t, new) <=> InSubrows(t, rows) \/ t = s
  BY <1>2, <1>3, <1>4 DEF new
<1>6. QED
  BY <1>5 DEF new

\* f tells the subrows after each segment of a list.
Joining(f, sorted, k) == IF k = 0 THEN <<>> ELSE JoinSubrow(f[k - 1], sorted[k])

Joins(f, sorted, n) == f = [k \in 0..n |-> Joining(f, sorted, k)]

\* There are such subrows: each depends on those before.
LEMMA JoinsExist ==
  ASSUME NEW sorted, NEW n \in Nat
  PROVE  \E f : Joins(f, sorted, n)
<1> DEFINE T == {m \in 0..n : ~ \E f : Joins(f, sorted, m)}
<1>1. SUFFICES ASSUME T # {} PROVE FALSE
  <2>1. n \in 0..n
    OBVIOUS
  <2>2. QED
    BY <2>1
<1> DEFINE m == Min(T)
<1>2. m \in 0..n /\ m \in T /\ \A y \in T : m =< y
  <2>1. 0 \in Int /\ n \in Int /\ T \in SUBSET (0..n)
    OBVIOUS
  <2>2. Min(T) \in T /\ \A y \in T : Min(T) =< y
    <3> HIDE DEF T, m
    <3>1. QED
      BY <1>1, <2>1, Extremes
  <2>3. QED
    BY <2>1, <2>2
<1> HIDE DEF m
<1>3. ~ \E f : Joins(f, sorted, m)
  BY <1>2
<1>4. CASE m = 0
  <2> DEFINE f == [k \in 0..m |-> <<>>]
  <2>1. \A k \in 0..m : Joining(f, sorted, k) = <<>>
    BY <1>4 DEF Joining
  <2>2. Joins(f, sorted, m)
    BY <2>1 DEF Joins
  <2>3. QED
    BY <1>3, <2>2
<1>5. CASE m # 0
  <2>1. m - 1 \in 0..n /\ ~ (m =< m - 1)
    BY <1>2, <1>5
  <2>2. m - 1 \notin T
    <3> HIDE DEF T
    <3>1. QED
      BY <1>2, <2>1
  <2>3. PICK g : Joins(g, sorted, m - 1)
    BY <2>1, <2>2
  <2> DEFINE f == [k \in 0..m |-> IF k = m THEN JoinSubrow(g[m - 1], sorted[m]) ELSE g[k]]
  <2>4. \A k \in 0..m - 1 : g[k] = Joining(g, sorted, k)
    BY <2>3 DEF Joins
  <2>5. ASSUME NEW k \in 0..m PROVE f[k] = Joining(f, sorted, k)
    <3>1. CASE k = m
      <4>1. m - 1 \in 0..m /\ m - 1 # m
        BY <1>2, <1>5
      <4>2. f[m - 1] = g[m - 1]
        BY <4>1
      <4>3. f[k] = JoinSubrow(g[m - 1], sorted[m])
        BY <3>1
      <4> HIDE DEF f
      <4>4. QED
        BY <1>5, <3>1, <4>2, <4>3 DEF Joining
    <3>2. CASE k # m
      <4>1. k \in 0..m - 1 /\ (k # 0 => k - 1 \in 0..m /\ k - 1 # m)
        BY <1>2, <3>2
      <4>2. f[k] = g[k] /\ (k # 0 => f[k - 1] = g[k - 1])
        BY <3>2, <4>1
      <4>3. g[k] = Joining(g, sorted, k)
        BY <2>4, <4>1
      <4> HIDE DEF f
      <4>4. QED
        BY <4>2, <4>3 DEF Joining
    <3>3. QED
      BY <3>1, <3>2
  <2>6. f = [k \in 0..m |-> Joining(f, sorted, k)]
    BY <2>5
  <2>7. Joins(f, sorted, m)
    <3> HIDE DEF f
    <3>1. QED
      BY <2>6 DEF Joins
  <2>8. QED
    BY <1>3, <2>7
<1>6. QED
  BY <1>4, <1>5

\* The subrows of a row hold each of its segments, and each in one place.
LEMMA SubrowsAre ==
  ASSUME NEW S, NEW es, NEW w, RowOf(S, es, w)
  PROVE  /\ Subrows(S, BuildSegmentSubrows(S, es))
         /\ \A s : InSubrows(s, BuildSegmentSubrows(S, es)) <=> s \in S
<1> DEFINE sorted == SortedRow(S, es)
           n == Cardinality(S)
           f == CHOOSE g : Joins(g, sorted, n)
<1>1. BuildSegmentSubrows(S, es) = f[n]
  BY DEF BuildSegmentSubrows, Joins, Joining
<1>2. /\ n \in Nat /\ sorted \in [1..n -> S]
      /\ \A i, j \in 1..n : sorted[i] = sorted[j] => i = j
      /\ \A s \in S : \E i \in 1..n : sorted[i] = s
  BY SortedIs
<1> HIDE DEF sorted, n
<1>3. Joins(f, sorted, n)
  BY <1>2, JoinsExist
<1>4. \A k \in 0..n : f[k] = Joining(f, sorted, k)
  <2> HIDE DEF f
  <2>1. QED
    BY <1>3 DEF Joins
<1> HIDE DEF f
<1> DEFINE Fine(k) == /\ Subrows(S, f[k])
                      /\ \A s : InSubrows(s, f[k]) <=> \E i \in 1..k : sorted[i] = s
           T == {k \in 0..n : ~ Fine(k)}
<1>5. T = {}
  <2>1. SUFFICES ASSUME T # {} PROVE FALSE
    OBVIOUS
  <2> DEFINE m == Min(T)
  <2>2. m \in T /\ \A y \in T : m =< y
    <3>1. 0 \in Int /\ n \in Int /\ T \in SUBSET (0..n)
      BY <1>2
    <3>2. Min(T) \in T /\ \A y \in T : Min(T) =< y
      <4> HIDE DEF T
      <4>1. QED
        BY <2>1, <3>1, Extremes
    <3>3. QED
      BY <3>2
  <2> HIDE DEF m
  <2>3. m \in 0..n /\ ~ Fine(m)
    BY <2>2
  <2>4. CASE m = 0
    <3>1. f[0] = <<>>
      BY <1>2, <1>4 DEF Joining
    <3>2. Subrows(S, <<>>)
      <4>1. <<>> \in Seq(Seq(S)) /\ DOMAIN <<>> = {}
        OBVIOUS
      <4>2. QED
        BY <4>1, Zenon DEF Subrows
    <3>3. \A s : ~ InSubrows(s, <<>>)
      <4>1. DOMAIN <<>> = {}
        OBVIOUS
      <4>2. QED
        BY <4>1, Zenon DEF InSubrows
    <3>4. 1..0 = {}
      OBVIOUS
    <3>5. QED
      BY <2>3, <2>4, <3>1, <3>2, <3>3, <3>4
  <2>5. CASE m # 0
    <3>1. m - 1 \in 0..n /\ ~ (m =< m - 1) /\ m \in 1..n
      BY <1>2, <2>3, <2>5
    <3>2. Fine(m - 1)
      <4>1. m - 1 \notin T
        <5> HIDE DEF T
        <5>1. QED
          BY <2>2, <3>1
      <4> HIDE DEF Fine
      <4>2. QED
        BY <3>1, <4>1
    <3>3. f[m] = JoinSubrow(f[m - 1], sorted[m])
      BY <1>4, <2>3, <2>5 DEF Joining
    <3>4. sorted[m] \in S
      BY <1>2, <3>1
    <3>5. ~ InSubrows(sorted[m], f[m - 1])
      <4>1. ASSUME NEW i \in 1..m - 1, sorted[i] = sorted[m] PROVE FALSE
        <5>1. i \in 1..n /\ i # m
          BY <1>2, <3>1
        <5>2. QED
          BY <1>2, <3>1, <4>1, <5>1
      <4>2. QED
        BY <3>2, <4>1
    <3>6. /\ Subrows(S, f[m])
          /\ \A t : InSubrows(t, f[m]) <=> InSubrows(t, f[m - 1]) \/ t = sorted[m]
      <4>1. Subrows(S, f[m - 1])
        BY <3>2
      <4> DEFINE rows == f[m - 1]
                 s == sorted[m]
      <4>2. Subrows(S, rows) /\ s \in S /\ ~ InSubrows(s, rows)
        BY <3>4, <3>5, <4>1
      <4> HIDE DEF rows, s
      <4>3. /\ Subrows(S, JoinSubrow(rows, s))
            /\ \A t : InSubrows(t, JoinSubrow(rows, s)) <=> InSubrows(t, rows) \/ t = s
        BY <4>2, JoinIs
      <4>4. QED
        BY <3>3, <4>3 DEF rows, s
    <3>7. \A i : i \in 1..m <=> i \in 1..m - 1 \/ i = m
      BY <1>2, <3>1
    <3>8. \A t : (\E i \in 1..m : sorted[i] = t) <=> (\E i \in 1..m - 1 : sorted[i] = t) \/ t = sorted[m]
      BY <3>7
    <3>9. QED
      BY <2>3, <3>2, <3>6, <3>8
  <2>6. QED
    BY <2>4, <2>5
<1>6. Fine(n)
  <2>1. n \in 0..n
    BY <1>2
  <2> HIDE DEF Fine
  <2>2. QED
    BY <1>5, <2>1
<1>7. \A s : (\E i \in 1..n : sorted[i] = s) <=> s \in S
  BY <1>2
<1>8. QED
  BY <1>1, <1>6, <1>7

\* A list of elements of S, each one in one place.
Listed(S, p) ==
  /\ p \in Seq(S)
  /\ \A a, b \in DOMAIN p : p[a] = p[b] => a = b

InList(s, p) == \E a \in DOMAIN p : p[a] = s

\* Two lists with nothing in common make one.
LEMMA JoinedLists ==
  ASSUME NEW S, NEW p, NEW q, Listed(S, p), Listed(S, q),
         \A s : ~ (InList(s, p) /\ InList(s, q))
  PROVE  /\ Listed(S, p \o q)
         /\ \A s : InList(s, p \o q) <=> InList(s, p) \/ InList(s, q)
<1> DEFINE r == p \o q
           m == Len(p)
           n == Len(q)
<1>1. /\ p \in Seq(S) /\ q \in Seq(S) /\ m \in Nat /\ n \in Nat
      /\ DOMAIN p = 1..m /\ DOMAIN q = 1..n
  BY DEF Listed
<1>2. /\ r \in Seq(S) /\ DOMAIN r = 1..m + n
      /\ \A i \in 1..m + n : r[i] = IF i <= m THEN p[i] ELSE q[i - m]
  BY <1>1
<1> HIDE DEF r, m, n
<1>3. ASSUME NEW i \in DOMAIN r
      PROVE  \/ i \in DOMAIN p /\ i <= m /\ r[i] = p[i]
             \/ i - m \in DOMAIN q /\ ~ (i <= m) /\ r[i] = q[i - m]
  <2>1. i \in 1..m + n
    BY <1>2
  <2>2. CASE i <= m
    <3>1. i \in 1..m
      BY <1>1, <2>1, <2>2
    <3>2. QED
      BY <1>1, <1>2, <2>1, <2>2, <3>1
  <2>3. CASE ~ (i <= m)
    <3>1. i - m \in 1..n
      BY <1>1, <2>1, <2>3
    <3>2. QED
      BY <1>1, <1>2, <2>1, <2>3, <3>1
  <2>4. QED
    BY <2>2, <2>3
<1>4. ASSUME NEW a \in DOMAIN p PROVE a \in DOMAIN r /\ r[a] = p[a]
  <2>1. a \in 1..m + n /\ a <= m
    BY <1>1
  <2>2. QED
    BY <1>2, <2>1
<1>5. ASSUME NEW b \in DOMAIN q PROVE b + m \in DOMAIN r /\ r[b + m] = q[b]
  <2>1. b + m \in 1..m + n /\ ~ (b + m <= m) /\ (b + m) - m = b
    BY <1>1
  <2>2. QED
    BY <1>2, <2>1
<1>6. \A s : InList(s, r) <=> InList(s, p) \/ InList(s, q)
  <2>1. \A s : InList(s, r) => InList(s, p) \/ InList(s, q)
    BY <1>3 DEF InList
  <2>2. \A s : InList(s, p) => InList(s, r)
    BY <1>4 DEF InList
  <2>3. \A s : InList(s, q) => InList(s, r)
    BY <1>5 DEF InList
  <2>4. QED
    BY <2>1, <2>2, <2>3
<1>7. ASSUME NEW i \in DOMAIN r, NEW j \in DOMAIN r, r[i] = r[j]
      PROVE  i = j
  <2>1. \A a \in DOMAIN p, b \in DOMAIN q : p[a] # q[b]
    BY DEF InList
  <2>2. CASE i \in DOMAIN p /\ r[i] = p[i] /\ j \in DOMAIN p /\ r[j] = p[j]
    BY <1>7, <2>2 DEF Listed
  <2>3. CASE i - m \in DOMAIN q /\ r[i] = q[i - m] /\ j - m \in DOMAIN q /\ r[j] = q[j - m]
    <3>1. i - m = j - m
      BY <1>7, <2>3 DEF Listed
    <3>2. i \in Int /\ j \in Int
      BY <1>1, <1>2
    <3>3. QED
      BY <1>1, <3>1, <3>2
  <2>4. CASE i \in DOMAIN p /\ r[i] = p[i] /\ j - m \in DOMAIN q /\ r[j] = q[j - m]
    BY <1>7, <2>1, <2>4, Zenon
  <2>5. CASE i - m \in DOMAIN q /\ r[i] = q[i - m] /\ j \in DOMAIN p /\ r[j] = p[j]
    BY <1>7, <2>1, <2>5, Zenon
  <2>6. QED
    BY <1>3, <2>2, <2>3, <2>4, <2>5
<1>8. Listed(S, r)
  BY <1>2, <1>7 DEF Listed
<1>9. QED
  BY <1>6, <1>8 DEF r

\* f tells what the first lists of rows make.
Flattening(f, rows, i) == IF i = 1 THEN rows[i] ELSE f[i - 1] \o rows[i]

Flattens(f, rows, n) == f = [i \in 1..n |-> Flattening(f, rows, i)]

\* There is such a list: each depends on those before.
LEMMA FlattensExist ==
  ASSUME NEW rows, NEW n \in Nat
  PROVE  \E f : Flattens(f, rows, n)
<1> DEFINE T == {m \in 0..n : ~ \E f : Flattens(f, rows, m)}
<1>1. SUFFICES ASSUME T # {} PROVE FALSE
  <2>1. n \in 0..n
    OBVIOUS
  <2>2. QED
    BY <2>1
<1> DEFINE m == Min(T)
<1>2. m \in 0..n /\ m \in T /\ \A y \in T : m =< y
  <2>1. 0 \in Int /\ n \in Int /\ T \in SUBSET (0..n)
    OBVIOUS
  <2>2. Min(T) \in T /\ \A y \in T : Min(T) =< y
    <3> HIDE DEF T, m
    <3>1. QED
      BY <1>1, <2>1, Extremes
  <2>3. QED
    BY <2>1, <2>2
<1> HIDE DEF m
<1>3. ~ \E f : Flattens(f, rows, m)
  BY <1>2
<1>4. CASE m = 0
  <2> DEFINE f == [k \in 1..m |-> <<>>]
  <2>1. 1..m = {}
    BY <1>4
  <2>2. f = [i \in 1..m |-> Flattening(f, rows, i)]
    BY <2>1
  <2>3. Flattens(f, rows, m)
    <3> HIDE DEF f
    <3>1. QED
      BY <2>2 DEF Flattens
  <2>4. QED
    BY <1>3, <2>3
<1>5. CASE m # 0
  <2>1. m - 1 \in 0..n /\ ~ (m =< m - 1)
    BY <1>2, <1>5
  <2>2. m - 1 \notin T
    <3> HIDE DEF T
    <3>1. QED
      BY <1>2, <2>1
  <2>3. PICK g : Flattens(g, rows, m - 1)
    BY <2>1, <2>2
  <2> DEFINE f == [k \in 1..m |-> IF k = m THEN Flattening(g, rows, m) ELSE g[k]]
  <2>4. \A k \in 1..m - 1 : g[k] = Flattening(g, rows, k)
    BY <2>3 DEF Flattens
  <2>5. ASSUME NEW k \in 1..m PROVE f[k] = Flattening(f, rows, k)
    <3>1. f[k] = Flattening(g, rows, k)
      <4>1. CASE k = m
        BY <4>1
      <4>2. CASE k # m
        <5>1. k \in 1..m - 1
          BY <1>2, <4>2
        <5>2. f[k] = g[k]
          BY <4>2
        <5> HIDE DEF f
        <5>3. QED
          BY <2>4, <5>1, <5>2
      <4>3. QED
        BY <4>1, <4>2
    <3>2. k # 1 => f[k - 1] = g[k - 1]
      <4>1. k # 1 => k - 1 \in 1..m /\ k - 1 # m
        BY <1>2
      <4>2. QED
        BY <4>1
    <3> HIDE DEF f
    <3>3. QED
      BY <3>1, <3>2 DEF Flattening
  <2>6. f = [k \in 1..m |-> Flattening(f, rows, k)]
    BY <2>5
  <2>7. Flattens(f, rows, m)
    <3> HIDE DEF f
    <3>1. QED
      BY <2>6 DEF Flattens
  <2>8. QED
    BY <1>3, <2>7
<1>6. QED
  BY <1>4, <1>5

\* FlattenSeq makes one list of the subrows: each segment of them, once.
LEMMA FlatIs ==
  ASSUME NEW S, NEW rows, Subrows(S, rows)
  PROVE  /\ Listed(S, FlattenSeq(rows))
         /\ \A s : InList(s, FlattenSeq(rows)) <=> InSubrows(s, rows)
<1> DEFINE n == Len(rows)
           f == CHOOSE g : Flattens(g, rows, n)
<1>1. FlattenSeq(rows) = IF n = 0 THEN rows ELSE f[n]
  BY DEF FlattenSeq, Flattens, Flattening
<1>2. rows \in Seq(Seq(S)) /\ n \in Nat /\ DOMAIN rows = 1..n
  BY DEF Subrows
<1>3. \A i \in 1..n : rows[i] \in Seq(S) /\ Listed(S, rows[i])
  <2>1. \A i \in 1..n : rows[i] \in Seq(S)
    BY <1>2
  <2> HIDE DEF n
  <2>2. QED
    BY <1>2, <2>1 DEF Subrows, Listed
<1>4. CASE n = 0
  <2>1. rows = <<>>
    BY <1>2, <1>4
  <2>2. <<>> \in Seq(S) /\ DOMAIN <<>> = {}
    OBVIOUS
  <2>3. FlattenSeq(rows) = <<>>
    <3> HIDE DEF f, n
    <3>1. QED
      BY <1>1, <1>4, <2>1
  <2>4. Listed(S, <<>>)
    BY <2>2, Zenon DEF Listed
  <2>5. \A s : ~ InList(s, <<>>) /\ ~ InSubrows(s, <<>>)
    BY <2>2, Zenon DEF InList, InSubrows
  <2>6. QED
    BY <2>1, <2>3, <2>4, <2>5
<1>5. CASE n # 0
  <2>1. Flattens(f, rows, n)
    <3> HIDE DEF n
    <3>1. QED
      BY <1>2, FlattensExist
  <2>2. FlattenSeq(rows) = f[n]
    <3> HIDE DEF f, n
    <3>1. QED
      BY <1>1, <1>5
  <2> HIDE DEF f, n
  <2>3. \A i \in 1..n : f[i] = Flattening(f, rows, i)
    BY <2>1 DEF Flattens
  <2> DEFINE Within(s, k) == \E j \in 1..k : InList(s, rows[j])
             Fine(k) == Listed(S, f[k]) /\ \A s : InList(s, f[k]) <=> Within(s, k)
             T == {k \in 1..n : ~ Fine(k)}
  <2>4. T = {}
    <3>1. SUFFICES ASSUME T # {} PROVE FALSE
      OBVIOUS
    <3> DEFINE m == Min(T)
    <3>2. m \in T /\ \A y \in T : m =< y
      <4>1. 1 \in Int /\ n \in Int /\ T \in SUBSET (1..n)
        BY <1>2
      <4>2. Min(T) \in T /\ \A y \in T : Min(T) =< y
        <5> HIDE DEF T
        <5>1. QED
          BY <3>1, <4>1, Extremes
      <4>3. QED
        BY <4>2
    <3> HIDE DEF m
    <3>3. m \in 1..n /\ ~ Fine(m)
      BY <3>2
    <3>4. CASE m = 1
      <4>1. f[m] = rows[m]
        BY <2>3, <3>3, <3>4 DEF Flattening
      <4>2. \A j \in 1..m : j = m
        BY <3>4
      <4>3. m \in 1..m
        BY <3>4
      <4>4. \A s : Within(s, m) <=> InList(s, rows[m])
        BY <4>2, <4>3
      <4>5. Listed(S, rows[m])
        BY <1>3, <3>3
      <4> HIDE DEF Within
      <4>6. QED
        BY <3>3, <4>1, <4>4, <4>5
    <3>5. CASE m # 1
      <4>1. m - 1 \in 1..n /\ ~ (m =< m - 1)
        BY <1>2, <3>3, <3>5
      <4>2. Fine(m - 1)
        <5>1. m - 1 \notin T
          <6> HIDE DEF T
          <6>1. QED
            BY <3>2, <4>1
        <5> HIDE DEF Fine
        <5>2. QED
          BY <4>1, <5>1
      <4>3. f[m] = f[m - 1] \o rows[m]
        BY <2>3, <3>3, <3>5 DEF Flattening
      <4>4. \A j : j \in 1..m <=> j \in 1..m - 1 \/ j = m
        BY <1>2, <3>3
      <4>5. \A s : Within(s, m) <=> Within(s, m - 1) \/ InList(s, rows[m])
        BY <4>4
      <4>6. \A s : ~ (InList(s, f[m - 1]) /\ InList(s, rows[m]))
        <5> SUFFICES ASSUME NEW s, Within(s, m - 1), InList(s, rows[m]) PROVE FALSE
          BY <4>2
        <5>1. PICK j \in 1..m - 1 : InList(s, rows[j])
          OBVIOUS
        <5>2. PICK a \in DOMAIN rows[j] : rows[j][a] = s
          BY <5>1 DEF InList
        <5>3. PICK b \in DOMAIN rows[m] : rows[m][b] = s
          BY DEF InList
        <5>4. j \in DOMAIN rows /\ m \in DOMAIN rows /\ j # m
          BY <1>2, <3>3
        <5>5. QED
          BY <5>2, <5>3, <5>4 DEF Subrows
      <4> HIDE DEF Within
      <4>7. Listed(S, f[m - 1]) /\ Listed(S, rows[m])
        BY <1>3, <3>3, <4>2
      <4>8. /\ Listed(S, f[m - 1] \o rows[m])
            /\ \A s : InList(s, f[m - 1] \o rows[m]) <=> InList(s, f[m - 1]) \/ InList(s, rows[m])
        <5> DEFINE p == f[m - 1]
                   q == rows[m]
        <5>1. Listed(S, p) /\ Listed(S, q) /\ \A s : ~ (InList(s, p) /\ InList(s, q))
          BY <4>6, <4>7
        <5> HIDE DEF p, q
        <5>2. /\ Listed(S, p \o q)
              /\ \A s : InList(s, p \o q) <=> InList(s, p) \/ InList(s, q)
          BY <5>1, JoinedLists
        <5>3. QED
          BY <5>2 DEF p, q
      <4>9. QED
        BY <3>3, <4>2, <4>3, <4>5, <4>8
    <3>6. QED
      BY <3>4, <3>5
  <2>5. Fine(n)
    <3>1. n \in 1..n
      BY <1>2, <1>5
    <3> HIDE DEF Fine
    <3>2. QED
      BY <2>4, <3>1
  <2>6. \A s : Within(s, n) <=> InSubrows(s, rows)
    BY <1>2 DEF InSubrows, InList
  <2> HIDE DEF Within
  <2>7. QED
    BY <2>2, <2>5, <2>6
<1>6. QED
  BY <1>4, <1>5

\* So sortSegmentRow puts each segment of a row in one place.
LEMMA RowListed ==
  ASSUME NEW S, NEW es, NEW w, RowOf(S, es, w)
  PROVE  /\ Listed(S, SortSegmentRow(S, es))
         /\ \A s : InList(s, SortSegmentRow(S, es)) <=> s \in S
<1> DEFINE rows == BuildSegmentSubrows(S, es)
<1>1. Subrows(S, rows) /\ \A s : InSubrows(s, rows) <=> s \in S
  BY SubrowsAre
<1>2. SortSegmentRow(S, es) = FlattenSeq(rows)
  BY DEF SortSegmentRow
<1> HIDE DEF rows
<1>3. QED
  BY <1>1, <1>2, FlatIs

\* f tells what the columns have taken after each segment of a row.
Piling(f, row, w, height, k) ==
  IF k = 0 THEN [c \in 0..w - 1 |-> 0] ELSE Pile(f[k - 1], row[k], w, height)

Piles(f, row, w, height, n) == f = [k \in 0..n |-> Piling(f, row, w, height, k)]

\* There is such a pile: each segment lies on those before.
LEMMA PilesExist ==
  ASSUME NEW row, NEW w, NEW height, NEW n \in Nat
  PROVE  \E f : Piles(f, row, w, height, n)
<1> DEFINE T == {m \in 0..n : ~ \E f : Piles(f, row, w, height, m)}
<1>1. SUFFICES ASSUME T # {} PROVE FALSE
  <2>1. n \in 0..n
    OBVIOUS
  <2>2. QED
    BY <2>1
<1> DEFINE m == Min(T)
<1>2. m \in 0..n /\ m \in T /\ \A y \in T : m =< y
  <2>1. 0 \in Int /\ n \in Int /\ T \in SUBSET (0..n)
    OBVIOUS
  <2>2. Min(T) \in T /\ \A y \in T : Min(T) =< y
    <3> HIDE DEF T, m
    <3>1. QED
      BY <1>1, <2>1, Extremes
  <2>3. QED
    BY <2>1, <2>2
<1> HIDE DEF m
<1>3. ~ \E f : Piles(f, row, w, height, m)
  BY <1>2
<1>4. CASE m = 0
  <2> DEFINE zero == [c \in 0..w - 1 |-> 0]
             f == [k \in 0..m |-> zero]
  <2>1. \A g, k : k \in 0..m => Piling(g, row, w, height, k) = zero
    BY <1>4 DEF Piling
  <2> HIDE DEF zero
  <2>2. f = [k \in 0..m |-> Piling(f, row, w, height, k)]
    BY <2>1
  <2>3. Piles(f, row, w, height, m)
    <3> HIDE DEF f
    <3>1. QED
      BY <2>2 DEF Piles
  <2>4. QED
    BY <1>3, <2>3
<1>5. CASE m # 0
  <2>1. m - 1 \in 0..n /\ ~ (m =< m - 1)
    BY <1>2, <1>5
  <2>2. m - 1 \notin T
    <3> HIDE DEF T
    <3>1. QED
      BY <1>2, <2>1
  <2>3. PICK g : Piles(g, row, w, height, m - 1)
    BY <2>1, <2>2
  <2> DEFINE f == [k \in 0..m |-> IF k = m THEN Piling(g, row, w, height, m) ELSE g[k]]
  <2>4. \A k \in 0..m - 1 : g[k] = Piling(g, row, w, height, k)
    BY <2>3 DEF Piles
  <2>5. ASSUME NEW k \in 0..m PROVE f[k] = Piling(f, row, w, height, k)
    <3>1. f[k] = Piling(g, row, w, height, k)
      <4>1. CASE k = m
        BY <4>1
      <4>2. CASE k # m
        <5>1. k \in 0..m - 1
          BY <1>2, <4>2
        <5>2. f[k] = g[k]
          BY <4>2
        <5> HIDE DEF f
        <5>3. QED
          BY <2>4, <5>1, <5>2
      <4>3. QED
        BY <4>1, <4>2
    <3>2. k # 0 => f[k - 1] = g[k - 1]
      <4>1. k # 0 => k - 1 \in 0..m /\ k - 1 # m
        BY <1>2
      <4>2. QED
        BY <4>1
    <3> HIDE DEF f
    <3>3. QED
      BY <3>1, <3>2 DEF Piling
  <2>6. f = [k \in 0..m |-> Piling(f, row, w, height, k)]
    BY <2>5
  <2>7. Piles(f, row, w, height, m)
    <3> HIDE DEF f
    <3>1. QED
      BY <2>6 DEF Piles
  <2>8. QED
    BY <1>3, <2>7
<1>6. QED
  BY <1>4, <1>5

\* The columns of a segment.
ColumnsOf(s) == s.at.leftCol..s.at.rightCol

\* What the w columns of a row have taken.
Taken(w) == [0..w - 1 -> Nat]

\* A segment lies under nothing: its top is the greatest height of its columns.
LEMMA UnderIs ==
  ASSUME NEW w \in Nat, NEW h, \A c \in 0..w - 1 : h[c] \in Nat, NEW s,
         s.at.leftCol \in Int, s.at.rightCol \in Int,
         0 <= s.at.leftCol, s.at.leftCol <= s.at.rightCol, s.at.rightCol <= w - 1
  PROVE  /\ Under(h, s) \in Nat
         /\ \A c \in ColumnsOf(s) : h[c] <= Under(h, s)
<1> DEFINE l == s.at.leftCol
           r == s.at.rightCol
           V == {h[c] : c \in l..r}
<1>1. Under(h, s) = Max(V)
  BY DEF Under
<1>2. l \in Int /\ r \in Int /\ l =< r
  OBVIOUS
<1>3. \A c \in l..r : c \in 0..w - 1
  OBVIOUS
<1>4. \A c \in l..r : h[c] \in Nat
  <2> HIDE DEF l, r
  <2>1. QED
    BY <1>3
<1>5. ColumnsOf(s) = l..r
  BY DEF ColumnsOf
<1> HIDE DEF l, r
<1>6. \A c \in l..r : h[c] \in Int
  BY <1>4
<1>7. /\ Max(V) \in V
      /\ \A c \in l..r : h[c] =< Max(V)
  <2> DEFINE g == [c \in l..r |-> h[c]]
  <2>1. g \in [l..r -> Int] /\ V = {g[c] : c \in l..r} /\ \A c \in l..r : g[c] = h[c]
    BY <1>6
  <2> HIDE DEF V, g
  <2>2. Max(V) \in V /\ \A c \in l..r : g[c] =< Max(V)
    BY <1>2, <2>1, GreatestOf
  <2>3. QED
    BY <2>1, <2>2
<1>8. \A v \in V : v \in Nat
  BY <1>4
<1>9. Max(V) \in Nat
  <2> HIDE DEF V
  <2>1. QED
    BY <1>7, <1>8
<1>10. \A c \in l..r : h[c] <= Max(V)
  <2> HIDE DEF V
  <2>1. QED
    BY <1>4, <1>7, <1>9
<1>11. QED
  BY <1>1, <1>5, <1>9, <1>10

\* What a segment piled on a row makes of its columns.
LEMMA PileIs ==
  ASSUME NEW w \in Nat, NEW h \in Taken(w), NEW s, NEW height,
         s.at.leftCol \in Int, s.at.rightCol \in Int,
         0 <= s.at.leftCol, s.at.leftCol <= s.at.rightCol, s.at.rightCol <= w - 1,
         height[s.id] \in Nat
  PROVE  /\ Pile(h, s, w, height) \in Taken(w)
         /\ \A c \in 0..w - 1 : h[c] <= Pile(h, s, w, height)[c]
         /\ \A c \in ColumnsOf(s) :
              c \in 0..w - 1 /\ Pile(h, s, w, height)[c] = Under(h, s) + height[s.id]
<1> DEFINE new == Pile(h, s, w, height)
           top == Under(h, s)
           y == height[s.id]
<1>0. \A c \in 0..w - 1 : h[c] \in Nat /\ h[c] <= h[c]
  BY DEF Taken
<1>1. top \in Nat /\ \A c \in ColumnsOf(s) : h[c] <= top
  <2>1. \A c \in 0..w - 1 : h[c] \in Nat
    BY <1>0
  <2>2. QED
    BY <2>1, UnderIs
<1>2. new = [c \in 0..w - 1 |-> IF c \in ColumnsOf(s) THEN top + y ELSE h[c]]
  BY DEF Pile, ColumnsOf
<1>3. \A c \in ColumnsOf(s) : c \in 0..w - 1
  BY DEF ColumnsOf
<1>4. y \in Nat
  OBVIOUS
<1> HIDE DEF new, top, y
<1>5. top + y \in Nat /\ \A x \in Nat : x <= top => x <= top + y
  BY <1>1, <1>4
<1>7. new \in Taken(w)
  BY <1>0, <1>2, <1>5 DEF Taken
<1>8. \A c \in 0..w - 1 : h[c] <= new[c]
  BY <1>0, <1>1, <1>2, <1>5
<1>9. \A c \in ColumnsOf(s) : c \in 0..w - 1 /\ new[c] = top + y
  BY <1>2, <1>3
<1>10. QED
  BY <1>7, <1>8, <1>9 DEF new, top, y

\* The heights of the segments of a row.
Heights(S, height) == \A s \in S : height[s.id] \in Nat /\ height[s.id] > 0

\* What calculateVerticals piles up: the columns never sink, and after a segment its
\* columns reach to its bottom.
LEMMA PilesUp ==
  ASSUME NEW S, NEW es, NEW w \in Nat, RowOf(S, es, w), NEW row \in Seq(S),
         NEW height, Heights(S, height), NEW f, Piles(f, row, w, height, Len(row))
  PROVE  /\ \A k \in 0..Len(row) : f[k] \in Taken(w)
         /\ \A k \in 1..Len(row) :
              /\ f[k] = Pile(f[k - 1], row[k], w, height)
              /\ \A c \in 0..w - 1 : f[k - 1][c] <= f[k][c]
              /\ \A c \in ColumnsOf(row[k]) :
                   /\ c \in 0..w - 1 /\ f[k - 1][c] <= Under(f[k - 1], row[k])
                   /\ f[k][c] = Under(f[k - 1], row[k]) + height[row[k].id]
              /\ Under(f[k - 1], row[k]) \in Nat /\ height[row[k].id] \in Nat
<1> DEFINE n == Len(row)
           H == Taken(w)
<1>1. n \in Nat /\ \A k \in 1..n : row[k] \in S
  OBVIOUS
<1> HIDE DEF n
<1>2. \A k \in 0..n : f[k] = Piling(f, row, w, height, k)
  BY DEF Piles, n
<1>3. ASSUME NEW k \in 1..n
      PROVE  k \in 0..n /\ k - 1 \in 0..n /\ f[k] = Pile(f[k - 1], row[k], w, height)
  <2>1. k \in 0..n /\ k - 1 \in 0..n /\ k # 0
    BY <1>1
  <2>2. QED
    BY <1>2, <2>1 DEF Piling
<1>4. ASSUME NEW k \in 1..n
      PROVE  /\ row[k].at.leftCol \in Int /\ row[k].at.rightCol \in Int
             /\ 0 <= row[k].at.leftCol /\ row[k].at.leftCol <= row[k].at.rightCol
             /\ row[k].at.rightCol <= w - 1 /\ height[row[k].id] \in Nat
  <2>1. row[k] \in S
    BY <1>1
  <2>2. QED
    BY <2>1 DEF RowOf, Heights
<1>5. ASSUME NEW k \in 1..n, f[k - 1] \in H
      PROVE  /\ f[k] \in H
             /\ \A c \in 0..w - 1 : f[k - 1][c] <= f[k][c]
             /\ \A c \in ColumnsOf(row[k]) :
                  c \in 0..w - 1 /\ f[k][c] = Under(f[k - 1], row[k]) + height[row[k].id]
  <2> DEFINE h == f[k - 1]
             s == row[k]
  <2>1. /\ h \in Taken(w)
        /\ s.at.leftCol \in Int /\ s.at.rightCol \in Int
        /\ 0 <= s.at.leftCol /\ s.at.leftCol <= s.at.rightCol
        /\ s.at.rightCol <= w - 1 /\ height[s.id] \in Nat
    BY <1>4, <1>5
  <2>2. f[k] = Pile(h, s, w, height)
    BY <1>3
  <2> HIDE DEF h, s
  <2>3. /\ Pile(h, s, w, height) \in Taken(w)
        /\ \A c \in 0..w - 1 : h[c] <= Pile(h, s, w, height)[c]
        /\ \A c \in ColumnsOf(s) :
             c \in 0..w - 1 /\ Pile(h, s, w, height)[c] = Under(h, s) + height[s.id]
    BY <2>1, PileIs
  <2>4. /\ f[k] \in H
        /\ \A c \in 0..w - 1 : h[c] <= f[k][c]
        /\ \A c \in ColumnsOf(s) : c \in 0..w - 1 /\ f[k][c] = Under(h, s) + height[s.id]
    BY <2>2, <2>3, Zenon
  <2>5. QED
    BY <2>4 DEF h, s
<1>6. \A k \in 0..n : f[k] \in H
  <2> DEFINE T == {k \in 0..n : f[k] \notin H}
  <2>1. SUFFICES ASSUME T # {} PROVE FALSE
    OBVIOUS
  <2> DEFINE m == Min(T)
  <2>2. m \in 0..n /\ f[m] \notin H /\ \A y \in T : m =< y
    <3>1. 0 \in Int /\ n \in Int /\ T \in SUBSET (0..n)
      BY <1>1
    <3>2. Min(T) \in T /\ \A y \in T : Min(T) =< y
      <4> HIDE DEF T
      <4>1. QED
        BY <2>1, <3>1, Extremes
    <3>3. QED
      BY <3>2
  <2> HIDE DEF m
  <2>3. CASE m = 0
    <3>1. f[m] = [c \in 0..w - 1 |-> 0]
      BY <1>2, <2>2, <2>3 DEF Piling
    <3>2. QED
      BY <2>2, <3>1 DEF Taken
  <2>4. CASE m # 0
    <3>1. m \in 1..n /\ m - 1 \in 0..n /\ ~ (m =< m - 1)
      BY <1>1, <2>2, <2>4
    <3>2. f[m - 1] \in H
      <4>1. m - 1 \notin T
        <5> HIDE DEF T
        <5>1. QED
          BY <2>2, <3>1
      <4>2. QED
        BY <3>1, <4>1
    <3> HIDE DEF H, T
    <3>3. QED
      BY <1>5, <2>2, <3>1, <3>2
  <2>5. QED
    BY <2>3, <2>4
<1>7. ASSUME NEW k \in 1..n
      PROVE  /\ Under(f[k - 1], row[k]) \in Nat
             /\ \A c \in ColumnsOf(row[k]) : f[k - 1][c] <= Under(f[k - 1], row[k])
  <2> DEFINE h == f[k - 1]
             s == row[k]
  <2>1. h \in Taken(w)
    BY <1>3, <1>6
  <2>2. \A c \in 0..w - 1 : h[c] \in Nat
    BY <2>1 DEF Taken
  <2>3. /\ s.at.leftCol \in Int /\ s.at.rightCol \in Int
        /\ 0 <= s.at.leftCol /\ s.at.leftCol <= s.at.rightCol /\ s.at.rightCol <= w - 1
    BY <1>4
  <2> HIDE DEF h, s
  <2>4. Under(h, s) \in Nat /\ \A c \in ColumnsOf(s) : h[c] <= Under(h, s)
    BY <2>2, <2>3, UnderIs
  <2>5. QED
    BY <2>4 DEF h, s
<1>8. ASSUME NEW k \in 1..n
      PROVE  /\ f[k] = Pile(f[k - 1], row[k], w, height)
             /\ \A c \in 0..w - 1 : f[k - 1][c] <= f[k][c]
             /\ \A c \in ColumnsOf(row[k]) :
                  /\ c \in 0..w - 1 /\ f[k - 1][c] <= Under(f[k - 1], row[k])
                  /\ f[k][c] = Under(f[k - 1], row[k]) + height[row[k].id]
             /\ Under(f[k - 1], row[k]) \in Nat /\ height[row[k].id] \in Nat
  <2>1. f[k - 1] \in H
    BY <1>3, <1>6
  <2> HIDE DEF H
  <2>2. QED
    BY <1>3, <1>4, <1>5, <1>7, <2>1, Zenon
<1>9. QED
  BY <1>6, <1>8 DEF n

\* A segment lies below those piled up before it in a column they share.
LEMMA StaysBelow ==
  ASSUME NEW S, NEW es, NEW w \in Nat, RowOf(S, es, w), NEW row \in Seq(S),
         NEW height, Heights(S, height), NEW f, Piles(f, row, w, height, Len(row)),
         NEW j \in 1..Len(row), NEW c \in ColumnsOf(row[j]), NEW i \in j..Len(row)
  PROVE  Under(f[j - 1], row[j]) + height[row[j].id] <= f[i][c]
<1>0. /\ \A k \in 0..Len(row) : f[k] \in Taken(w)
      /\ \A k \in 1..Len(row) :
           /\ f[k] = Pile(f[k - 1], row[k], w, height)
           /\ \A d \in 0..w - 1 : f[k - 1][d] <= f[k][d]
           /\ \A d \in ColumnsOf(row[k]) :
                /\ d \in 0..w - 1 /\ f[k - 1][d] <= Under(f[k - 1], row[k])
                /\ f[k][d] = Under(f[k - 1], row[k]) + height[row[k].id]
           /\ Under(f[k - 1], row[k]) \in Nat /\ height[row[k].id] \in Nat
  BY PilesUp
<1> DEFINE n == Len(row)
           bottom == Under(f[j - 1], row[j]) + height[row[j].id]
           T == {k \in j..n : ~ (bottom <= f[k][c])}
<1>1. /\ \A k \in 0..n : f[k] \in Taken(w)
      /\ \A k \in 1..n :
           /\ \A d \in 0..w - 1 : f[k - 1][d] <= f[k][d]
           /\ \A d \in ColumnsOf(row[k]) :
                d \in 0..w - 1 /\ f[k][d] = Under(f[k - 1], row[k]) + height[row[k].id]
           /\ Under(f[k - 1], row[k]) \in Nat /\ height[row[k].id] \in Nat
  BY <1>0, Zenon
<1>2. n \in Nat
  OBVIOUS
<1> HIDE DEF n
<1>3. j \in 1..n /\ j \in Int /\ i \in j..n
  BY DEF n
<1>4. c \in 0..w - 1 /\ f[j][c] = bottom /\ bottom \in Nat
  BY <1>1, <1>3
<1> HIDE DEF bottom
<1>5. T = {}
  <2>1. SUFFICES ASSUME T # {} PROVE FALSE
    OBVIOUS
  <2> DEFINE m == Min(T)
  <2>2. m \in T /\ \A y \in T : m =< y
    <3>1. j \in Int /\ n \in Int /\ T \in SUBSET (j..n)
      BY <1>2, <1>3
    <3>2. Min(T) \in T /\ \A y \in T : Min(T) =< y
      <4> HIDE DEF T
      <4>1. QED
        BY <2>1, <3>1, Extremes
    <3>3. QED
      BY <3>2
  <2> HIDE DEF m
  <2>3. m \in j..n /\ ~ (bottom <= f[m][c])
    BY <2>2
  <2>4. CASE m = j
    <3>1. bottom <= bottom
      BY <1>4
    <3>2. QED
      BY <1>4, <2>3, <2>4, <3>1
  <2>5. CASE m # j
    <3>1. m - 1 \in j..n /\ ~ (m =< m - 1) /\ m \in 1..n /\ m \in 0..n /\ m - 1 \in 0..n
      BY <1>2, <1>3, <2>3, <2>5
    <3>2. bottom <= f[m - 1][c]
      <4>1. m - 1 \notin T
        <5> HIDE DEF T
        <5>1. QED
          BY <2>2, <3>1
      <4>2. QED
        BY <3>1, <4>1
    <3>3. f[m - 1][c] <= f[m][c] /\ f[m - 1][c] \in Nat /\ f[m][c] \in Nat
      BY <1>1, <1>4, <3>1 DEF Taken
    <3>4. QED
      BY <1>4, <2>3, <3>2, <3>3
  <2>6. QED
    BY <2>4, <2>5
<1>6. bottom <= f[i][c]
  BY <1>3, <1>5
<1>7. QED
  BY <1>6 DEF bottom

\* In a row two segments that share a column do not cover each other, and all have room.
LEMMA RowStacked ==
  ASSUME NEW S, NEW es, NEW w \in Nat, w > 0, RowOf(S, es, w), NEW row \in Seq(S),
         NEW height, Heights(S, height), NEW down, down = CalculateRow(row, w, height),
         NEW i \in DOMAIN row
  PROVE  /\ down.tops[i] + height[row[i].id] <= down.contentHeight
         /\ \A j \in DOMAIN row :
              i < j /\ IsDaySegmentCollision(row[i], {row[j]}) =>
                down.tops[i] + height[row[i].id] <= down.tops[j]
<1> DEFINE n == Len(row)
           f == CHOOSE g : Piles(g, row, w, height, n)
<1>1. /\ DOMAIN row = 1..n /\ n \in Nat /\ \A k \in 1..n : row[k] \in S
  OBVIOUS
<1>2. Piles(f, row, w, height, n)
  <2> HIDE DEF n
  <2>1. QED
    BY <1>1, PilesExist
<1>3. /\ down.tops = [k \in DOMAIN row |-> Under(f[k - 1], row[k])]
      /\ down.contentHeight = Max({f[n][c] : c \in 0..w - 1})
  BY DEF CalculateRow, Piles, Piling
<1> HIDE DEF f
<1>4. /\ \A k \in 0..n : f[k] \in Taken(w)
      /\ \A k \in 1..n :
           /\ \A c \in ColumnsOf(row[k]) :
                c \in 0..w - 1 /\ f[k - 1][c] <= Under(f[k - 1], row[k])
           /\ Under(f[k - 1], row[k]) \in Nat /\ height[row[k].id] \in Nat
  BY <1>2, PilesUp
<1>5. \A k \in 1..n : \A c \in ColumnsOf(row[k]) : \A m \in k..n :
        Under(f[k - 1], row[k]) + height[row[k].id] <= f[m][c]
  BY <1>2, StaysBelow
<1> HIDE DEF n
<1>6. i \in 1..n /\ i \in Int /\ down.tops[i] = Under(f[i - 1], row[i])
  BY <1>1, <1>3
<1> DEFINE bottom == down.tops[i] + height[row[i].id]
<1>7. bottom = Under(f[i - 1], row[i]) + height[row[i].id] /\ bottom \in Nat
  BY <1>4, <1>6
<1> HIDE DEF bottom
<1>8. bottom <= down.contentHeight
  <2> DEFINE V == {f[n][c] : c \in 0..w - 1}
             l == 0
             r == w - 1
             h == f[n]
  <2>1. l \in Int /\ r \in Int /\ l =< r
    OBVIOUS
  <2>2. h \in [l..r -> Nat]
    BY <1>1, <1>4 DEF Taken
  <2>3. V = {h[c] : c \in l..r} /\ down.contentHeight = Max(V)
    BY <1>3
  <2>4. row[i].at.leftCol \in ColumnsOf(row[i])
    <3>1. row[i] \in S
      BY <1>1, <1>6
    <3>2. row[i].at.leftCol \in Int /\ row[i].at.rightCol \in Int
          /\ row[i].at.leftCol <= row[i].at.rightCol
      BY <3>1 DEF RowOf
    <3>3. QED
      BY <3>2 DEF ColumnsOf
  <2>5. PICK c \in ColumnsOf(row[i]) : TRUE
    BY <2>4
  <2>6. c \in l..r /\ bottom <= h[c]
    <3>1. n \in i..n
      BY <1>1, <1>6
    <3>2. QED
      BY <1>4, <1>5, <1>6, <1>7, <3>1
  <2> HIDE DEF V, l, r, h
  <2>7. h \in [l..r -> Int]
    BY <2>2
  <2>8. Max(V) \in V /\ \A d \in l..r : h[d] =< Max(V)
    BY <2>1, <2>3, <2>7, GreatestOf
  <2>9. h[c] \in Nat /\ h[c] =< Max(V) /\ \A v \in V : v \in Nat
    BY <2>2, <2>3, <2>6, <2>8
  <2>10. Max(V) \in Nat
    BY <2>8, <2>9
  <2>11. QED
    BY <1>7, <2>3, <2>6, <2>9, <2>10
<1>9. ASSUME NEW j \in DOMAIN row, i < j, IsDaySegmentCollision(row[i], {row[j]})
      PROVE  bottom <= down.tops[j]
  <2>1. j \in 1..n /\ j \in Int /\ down.tops[j] = Under(f[j - 1], row[j])
    BY <1>1, <1>3
  <2>2. PICK c \in ColumnsOf(row[i]) : c \in ColumnsOf(row[j])
    <3> DEFINE a == row[i].at.leftCol
               b == row[i].at.rightCol
               d == row[j].at.leftCol
               e == row[j].at.rightCol
    <3>1. row[i] \in S /\ row[j] \in S
      BY <1>1, <1>6, <2>1
    <3>2. a \in Int /\ b \in Int /\ d \in Int /\ e \in Int /\ a <= b /\ d <= e
      BY <3>1 DEF RowOf
    <3>3. d <= b /\ e >= a
      BY <1>9 DEF IsDaySegmentCollision
    <3>4. ColumnsOf(row[i]) = a..b /\ ColumnsOf(row[j]) = d..e
      BY DEF ColumnsOf
    <3> HIDE DEF a, b, d, e
    <3>5. CASE a <= d
      <4>1. d \in a..b /\ d \in d..e
        BY <3>2, <3>3, <3>5
      <4>2. QED
        BY <3>4, <4>1
    <3>6. CASE d <= a
      <4>1. a \in a..b /\ a \in d..e
        BY <3>2, <3>3, <3>6
      <4>2. QED
        BY <3>4, <4>1
    <3>7. QED
      BY <3>2, <3>5, <3>6
  <2>3. j - 1 \in i..n /\ j - 1 \in 0..n
    BY <1>1, <1>6, <1>9, <2>1
  <2>4. bottom <= f[j - 1][c]
    BY <1>5, <1>6, <1>7, <2>2, <2>3
  <2>5. c \in 0..w - 1 /\ f[j - 1][c] <= Under(f[j - 1], row[j]) /\ Under(f[j - 1], row[j]) \in Nat
    BY <1>4, <2>1, <2>2
  <2>6. f[j - 1][c] \in Nat
    BY <1>4, <2>3, <2>5 DEF Taken
  <2>7. QED
    BY <1>7, <2>1, <2>4, <2>5, <2>6
<1>10. QED
  BY <1>8, <1>9 DEF bottom

\* The days of an event in a grid of days.
LEMMA SegmentIs ==
  ASSUME PageOK, NEW m \in Moment, NEW n \in Moment, NEW p \in RangeToSegments(m, n, Grid)
  PROVE  /\ p.row \in 0..Grid.rowCnt - 1
         /\ p.leftCol \in Int /\ p.rightCol \in Int
         /\ 0 <= p.leftCol /\ p.leftCol <= p.rightCol /\ p.rightCol <= Grid.colCnt - 1
         /\ \A q \in RangeToSegments(m, n, Grid) : q.row = p.row => q = p
<1>1. PICK row \in 0..Grid.rowCnt - 1 :
        CellFrom(m, row) <= CellTo(m, n, row) /\ p = DayPiece(m, n, row)
  BY DayPieceIs
<1> DEFINE w == Grid.colCnt
           a == CellFrom(m, row)
           b == CellTo(m, n, row)
           x == row * w
<1>2. w \in 1..7 /\ row \in Int /\ x \in Int /\ a \in Int /\ b \in Int /\ a <= b
  BY <1>1, PageGrid, DayCellsAre
<1>3. x <= a
  <2>1. x \in Int /\ DayOffsetToCellOffset(DayFirst(m), Grid.start) \in Int
    <3>1. DayFirst(m) \in Int /\ Grid.start \in Int
      BY DayCellsAre, PageGrid
    <3>2. QED
      BY <1>2, <3>1, OffsetsAreInts
  <2>2. a = Max({DayOffsetToCellOffset(DayFirst(m), Grid.start), x})
    BY DEF CellFrom
  <2> HIDE DEF x, a
  <2>3. QED
    BY <2>1, <2>2, LeastOf
<1>4. b <= x + (w - 1)
  <2> DEFINE y == (row + 1) * w - 1
             z == DayOffsetToCellOffset(DayEnd(n, m), Grid.start) - 1
  <2>1. y = x + (w - 1) /\ y \in Int
    BY <1>2
  <2>2. z \in Int
    <3>1. DayEnd(n, m) \in Int /\ Grid.start \in Int
      BY DayCellsAre, PageGrid
    <3>2. DayOffsetToCellOffset(DayEnd(n, m), Grid.start) \in Int
      BY <3>1, OffsetsAreInts
    <3>3. QED
      BY <3>2
  <2>3. b = Min({z, y})
    BY DEF CellTo
  <2> HIDE DEF b, x, y, z
  <2>4. QED
    BY <2>1, <2>2, <2>3, LeastOf
<1>5. a % w = a - x /\ b % w = b - x
  <2>1. w \in Nat /\ row \in Int
    BY <1>2
  <2>2. ASSUME NEW c \in Int, x <= c, c <= x + (w - 1) PROVE c % w = c - x
    <3> DEFINE r == c - x
    <3>1. r \in Int /\ 0 <= r /\ r < w /\ c = x + r
      BY <1>2, <2>2
    <3> HIDE DEF r
    <3>2. (row * w + r) % w = r
      <4> HIDE DEF w
      <4>1. QED
        BY <2>1, <3>1, PartsOf
    <3>3. QED
      BY <3>1, <3>2 DEF r
  <2>3. x <= a /\ a <= x + (w - 1) /\ x <= b /\ b <= x + (w - 1)
    <3> HIDE DEF a, b, x, w
    <3>1. QED
      BY <1>2, <1>3, <1>4
  <2> HIDE DEF a, b, x, w
  <2>4. QED
    BY <1>2, <2>2, <2>3
<1>6. p.row = row /\ p.leftCol = a % w /\ p.rightCol = b % w
  BY <1>1 DEF DayPiece
<1>7. \A q \in RangeToSegments(m, n, Grid) : q.row = p.row => q = p
  <2>1. SUFFICES ASSUME NEW q \in RangeToSegments(m, n, Grid), q.row = p.row PROVE q = p
    OBVIOUS
  <2>2. PICK r \in 0..Grid.rowCnt - 1 : q = DayPiece(m, n, r)
    BY DayPieceIs
  <2>3. q.row = r
    BY <2>2 DEF DayPiece
  <2>4. QED
    BY <1>1, <1>6, <2>1, <2>2, <2>3
<1> HIDE DEF a, b, x, w
<1>8. /\ 0 <= p.leftCol /\ p.leftCol <= p.rightCol /\ p.rightCol <= w - 1
      /\ p.leftCol \in Int /\ p.rightCol \in Int
  BY <1>2, <1>3, <1>4, <1>5, <1>6
<1>9. QED
  BY <1>6, <1>7, <1>8 DEF w

\* Events that a grid of day cells may draw.
CellEvents(es) ==
  DOMAIN es \subseteq Id /\ \A id \in DOMAIN es : IsEvent(es[id])

RowSegments(es, r) == {s \in BuildSegments(es, Grid) : s.at.row = r}

\* What buildSegments makes.
LEMMA BuiltIs ==
  ASSUME PageOK, NEW es, CellEvents(es), NEW s
  PROVE  /\ s \in BuildSegments(es, Grid) <=>
              \E id \in DOMAIN es :
                \E p \in RangeToSegments(es[id].start, GetEventEnd(es[id]), Grid) :
                  s = [id |-> id, at |-> p]
         /\ s \in BuildSegments(es, Grid) =>
              /\ s.id \in DOMAIN es /\ s = [id |-> s.id, at |-> s.at]
              /\ s.at \in RangeToSegments(es[s.id].start, GetEventEnd(es[s.id]), Grid)
              /\ s.at.row \in 0..Grid.rowCnt - 1
<1>1. s \in BuildSegments(es, Grid) <=>
        \E id \in DOMAIN es :
          \E p \in RangeToSegments(es[id].start, GetEventEnd(es[id]), Grid) :
            s = [id |-> id, at |-> p]
  BY DEF BuildSegments
<1>2. ASSUME s \in BuildSegments(es, Grid)
      PROVE  /\ s.id \in DOMAIN es /\ s = [id |-> s.id, at |-> s.at]
             /\ s.at \in RangeToSegments(es[s.id].start, GetEventEnd(es[s.id]), Grid)
             /\ s.at.row \in 0..Grid.rowCnt - 1
  <2>1. PICK id \in DOMAIN es : \E p \in RangeToSegments(es[id].start, GetEventEnd(es[id]), Grid) :
                                  s = [id |-> id, at |-> p]
    BY <1>1, <1>2
  <2>2. PICK p \in RangeToSegments(es[id].start, GetEventEnd(es[id]), Grid) :
               s = [id |-> id, at |-> p]
    BY <2>1
  <2>3. s.id = id /\ s.at = p
    BY <2>2
  <2>4. es[id].start \in Moment /\ GetEventEnd(es[id]) \in Moment
    BY EventIs, EventEndIs DEF CellEvents
  <2>5. p.row \in 0..Grid.rowCnt - 1
    BY <2>4, SegmentIs
  <2>6. QED
    BY <2>2, <2>3, <2>5
<1>3. QED
  BY <1>1, <1>2

\* A moment is some number of ticks for the code's operators, too.
LEMMA InstantIsInt ==
  ASSUME NEW m \in Moment
  PROVE  Instant(m) \in Int
<1>1. m.at \in Int /\ m.zone \in Maybe(Int)
  BY DEF Moment
<1>2. m.zone # <<>> => m.zone[1] \in Int
  BY <1>1, MaybeIs
<1>3. QED
  BY <1>1, <1>2 DEF Instant

\* The segments of a row of the grid of the page.
LEMMA RowIs ==
  ASSUME PageOK, NEW es, CellEvents(es), NEW r
  PROVE  RowOf(RowSegments(es, r), es, Grid.colCnt)
<1> DEFINE S == RowSegments(es, r)
<1>1. ASSUME NEW s \in S
      PROVE  /\ s.id \in DOMAIN es /\ s = [id |-> s.id, at |-> s.at] /\ s.at.row = r
             /\ s.at \in RangeToSegments(es[s.id].start, GetEventEnd(es[s.id]), Grid)
             /\ es[s.id].start \in Moment /\ GetEventEnd(es[s.id]) \in Moment
             /\ es[s.id].allDay \in BOOLEAN
  <2>1. s \in BuildSegments(es, Grid) /\ s.at.row = r
    BY DEF RowSegments
  <2>2. /\ s.id \in DOMAIN es /\ s = [id |-> s.id, at |-> s.at]
        /\ s.at \in RangeToSegments(es[s.id].start, GetEventEnd(es[s.id]), Grid)
    BY <2>1, BuiltIs
  <2>3. IsEvent(es[s.id])
    BY <2>2 DEF CellEvents
  <2>4. /\ es[s.id].start \in Moment /\ GetEventEnd(es[s.id]) \in Moment
        /\ es[s.id].allDay \in BOOLEAN
    BY <2>3, EventIs, EventEndIs
  <2>5. QED
    BY <2>1, <2>2, <2>4
<1> HIDE DEF S
<1>2. \A s, t \in S : s.id = t.id => s = t
  <2> SUFFICES ASSUME NEW s \in S, NEW t \in S, s.id = t.id PROVE s = t
    OBVIOUS
  <2> DEFINE m == es[s.id].start
             n == GetEventEnd(es[s.id])
             p == s.at
             q == t.at
  <2>1. /\ m \in Moment /\ n \in Moment
        /\ p \in RangeToSegments(m, n, Grid) /\ q \in RangeToSegments(m, n, Grid)
        /\ q.row = p.row
    BY <1>1
  <2>2. q = p
    <3> HIDE DEF m, n, p, q
    <3>1. QED
      BY <2>1, SegmentIs
  <2>3. s = [id |-> s.id, at |-> s.at] /\ t = [id |-> t.id, at |-> t.at]
    BY <1>1
  <2>4. QED
    BY <2>2, <2>3, Zenon
<1>3. IsFiniteSet(S)
  <2> DEFINE f == [s \in S |-> s.id]
  <2>1. IsFiniteSet(DOMAIN es)
    BY FewEvents, FS_Subset DEF CellEvents
  <2>2. f \in [S -> DOMAIN es] /\ \A s, t \in S : f[s] = f[t] => s = t
    BY <1>1, <1>2
  <2> HIDE DEF f
  <2>3. f \in Injection(S, DOMAIN es)
    BY <2>2 DEF Injection, IsInjective
  <2>4. QED
    BY <2>1, <2>3, FS_Injection
<1>4. ASSUME NEW s \in S
      PROVE  /\ s.id \in DOMAIN es /\ s.id \in Nat
             /\ s.at.leftCol \in Int /\ s.at.rightCol \in Int
             /\ 0 <= s.at.leftCol /\ s.at.leftCol <= s.at.rightCol
             /\ s.at.rightCol <= Grid.colCnt - 1
             /\ es[s.id].allDay \in BOOLEAN /\ Instant(es[s.id].start) \in Int
  <2> DEFINE m == es[s.id].start
             n == GetEventEnd(es[s.id])
             p == s.at
  <2>1. m \in Moment /\ n \in Moment /\ p \in RangeToSegments(m, n, Grid)
    BY <1>1
  <2>2. /\ p.leftCol \in Int /\ p.rightCol \in Int
        /\ 0 <= p.leftCol /\ p.leftCol <= p.rightCol /\ p.rightCol <= Grid.colCnt - 1
    <3> HIDE DEF m, n, p
    <3>1. QED
      BY <2>1, SegmentIs
  <2>3. Instant(m) \in Int
    <3> HIDE DEF m
    <3>1. QED
      BY <2>1, InstantIsInt
  <2>4. s.id \in Nat
    BY <1>1, GestureAssumption DEF CellEvents
  <2>5. QED
    BY <1>1, <2>2, <2>3, <2>4
<1>5. RowOf(S, es, Grid.colCnt)
  BY <1>2, <1>3, <1>4 DEF RowOf
<1>6. QED
  BY <1>5 DEF S

RowInOrder(es, r) == SortSegmentRow(RowSegments(es, r), es)

\* Where the i-th segment of a row is drawn.
DrawnAt(es, r, i) ==
  LET segs == RowInOrder(es, r)
      down == CalculateRow(segs, Grid.colCnt, Height)
  IN  [seg |-> segs[i], top |-> down.tops[i],
       bottom |-> down.tops[i] + Height[segs[i].id], room |-> down.contentHeight]

\* What is drawn in a grid of day cells.
LEMMA DrawnIs ==
  ASSUME NEW es, NEW d
  PROVE  d \in DrawDaySegments(es, Grid, Height) <=>
           \E r \in 0..Grid.rowCnt - 1 : \E i \in DOMAIN RowInOrder(es, r) : d = DrawnAt(es, r, i)
<1> DEFINE drawn(r) == {DrawnAt(es, r, i) : i \in DOMAIN RowInOrder(es, r)}
<1>1. DrawDaySegments(es, Grid, Height) = UNION {drawn(r) : r \in 0..Grid.rowCnt - 1}
  BY DEF DrawDaySegments, DrawnAt, RowInOrder, RowSegments
<1>2. \A r : d \in drawn(r) <=> \E i \in DOMAIN RowInOrder(es, r) : d = DrawnAt(es, r, i)
  OBVIOUS
<1> HIDE DEF drawn
<1>3. QED
  BY <1>1, <1>2

\* What RowsStacked says of the events of the day cells and of what is drawn of them.
Stacked(es, drawn) ==
  /\ {s.seg : s \in drawn} = BuildSegments(es, Grid)
  /\ \A s, t \in drawn :
       /\ s.bottom <= s.room
       /\ s.seg = t.seg => s = t
       /\ (/\ s # t /\ s.seg.at.row = t.seg.at.row
           /\ IsDaySegmentCollision(s.seg, {t.seg}))
          => s.bottom <= t.top \/ t.bottom <= s.top

\* Every segment is drawn, once; no two of a row cover each other, and all have room.
LEMMA AllStacked ==
  ASSUME PageOK, NEW es, CellEvents(es), NEW drawn, drawn = DrawDaySegments(es, Grid, Height)
  PROVE  Stacked(es, drawn)
<1> DEFINE w == Grid.colCnt
<1>1. w \in Nat /\ w > 0
  BY PageGrid
<1>2. ASSUME NEW r
      PROVE  /\ RowOf(RowSegments(es, r), es, w)
             /\ RowInOrder(es, r) \in Seq(RowSegments(es, r))
             /\ \A i, j \in DOMAIN RowInOrder(es, r) :
                  RowInOrder(es, r)[i] = RowInOrder(es, r)[j] => i = j
             /\ \A s : s \in RowSegments(es, r) <=> \E i \in DOMAIN RowInOrder(es, r) :
                                                     RowInOrder(es, r)[i] = s
             /\ Heights(RowSegments(es, r), Height)
  <2> DEFINE S == RowSegments(es, r)
  <2>1. RowOf(S, es, w)
    BY RowIs
  <2> HIDE DEF S, w
  <2>2. /\ Listed(S, SortSegmentRow(S, es))
        /\ \A s : InList(s, SortSegmentRow(S, es)) <=> s \in S
    BY <2>1, RowListed
  <2>3. Heights(S, Height)
    <3>1. \A s \in S : s.id \in Id
      BY <2>1 DEF RowOf, CellEvents
    <3>2. Height \in [Id -> Nat \ {0}]
      BY GestureAssumption, Zenon
    <3>3. \A id \in Id : Height[id] \in Nat /\ Height[id] > 0
      BY <3>2
    <3>4. QED
      BY <3>1, <3>3, Zenon DEF Heights
  <2>4. RowInOrder(es, r) = SortSegmentRow(S, es)
    BY DEF RowInOrder, S
  <2>5. /\ RowInOrder(es, r) \in Seq(S)
        /\ \A i, j \in DOMAIN RowInOrder(es, r) :
             RowInOrder(es, r)[i] = RowInOrder(es, r)[j] => i = j
    BY <2>2, <2>4 DEF Listed
  <2>6. \A s : s \in S <=> \E i \in DOMAIN RowInOrder(es, r) : RowInOrder(es, r)[i] = s
    BY <2>2, <2>4 DEF InList
  <2>7. QED
    BY <2>1, <2>3, <2>5, <2>6 DEF S
<1>3. ASSUME NEW r, NEW i \in DOMAIN RowInOrder(es, r)
      PROVE  /\ RowInOrder(es, r)[i] \in RowSegments(es, r)
             /\ DrawnAt(es, r, i).seg = RowInOrder(es, r)[i]
             /\ DrawnAt(es, r, i).seg.at.row = r
             /\ DrawnAt(es, r, i).bottom <= DrawnAt(es, r, i).room
             /\ \A j \in DOMAIN RowInOrder(es, r) :
                  i < j /\ IsDaySegmentCollision(DrawnAt(es, r, i).seg, {DrawnAt(es, r, j).seg}) =>
                    DrawnAt(es, r, i).bottom <= DrawnAt(es, r, j).top
  <2> DEFINE S == RowSegments(es, r)
             row == RowInOrder(es, r)
             down == CalculateRow(row, w, Height)
  <2>1. RowOf(S, es, w) /\ row \in Seq(S) /\ Heights(S, Height)
    BY <1>2
  <2>2. \A j : /\ DrawnAt(es, r, j).seg = row[j] /\ DrawnAt(es, r, j).top = down.tops[j]
               /\ DrawnAt(es, r, j).bottom = down.tops[j] + Height[row[j].id]
               /\ DrawnAt(es, r, j).room = down.contentHeight
    BY DEF DrawnAt
  <2>3. i \in DOMAIN row
    OBVIOUS
  <2>4. row[i] \in S /\ row[i].at.row = r
    <3>1. row[i] \in S
      BY <1>2
    <3>2. QED
      BY <3>1 DEF RowSegments
  <2> HIDE DEF S, row, w, down
  <2>5. down = CalculateRow(row, w, Height)
    BY DEF down
  <2>6. /\ down.tops[i] + Height[row[i].id] <= down.contentHeight
        /\ \A j \in DOMAIN row :
             i < j /\ IsDaySegmentCollision(row[i], {row[j]}) =>
               down.tops[i] + Height[row[i].id] <= down.tops[j]
    BY <1>1, <2>1, <2>3, <2>5, RowStacked
  <2>7. /\ DrawnAt(es, r, i).bottom <= DrawnAt(es, r, i).room
        /\ \A j \in DOMAIN row :
             i < j /\ IsDaySegmentCollision(DrawnAt(es, r, i).seg, {DrawnAt(es, r, j).seg}) =>
               DrawnAt(es, r, i).bottom <= DrawnAt(es, r, j).top
    BY <2>2, <2>6, Zenon
  <2>8. QED
    BY <2>2, <2>4, <2>7 DEF S, row
<1> HIDE DEF w
<1>4. {s.seg : s \in drawn} = BuildSegments(es, Grid)
  <2>1. ASSUME NEW s \in drawn PROVE s.seg \in BuildSegments(es, Grid)
    <3>1. PICK r \in 0..Grid.rowCnt - 1 : \E i \in DOMAIN RowInOrder(es, r) : s = DrawnAt(es, r, i)
      BY DrawnIs
    <3>2. PICK i \in DOMAIN RowInOrder(es, r) : s = DrawnAt(es, r, i)
      BY <3>1
    <3>3. s.seg \in RowSegments(es, r)
      BY <1>3, <3>2
    <3>4. QED
      BY <3>3 DEF RowSegments
  <2>2. ASSUME NEW p \in BuildSegments(es, Grid) PROVE \E s \in drawn : s.seg = p
    <3> DEFINE r == p.at.row
    <3>1. r \in 0..Grid.rowCnt - 1 /\ p \in RowSegments(es, r)
      BY BuiltIs DEF RowSegments
    <3> HIDE DEF r
    <3>2. PICK i \in DOMAIN RowInOrder(es, r) : RowInOrder(es, r)[i] = p
      BY <1>2, <3>1
    <3>3. DrawnAt(es, r, i) \in drawn
      BY <3>1, DrawnIs
    <3>4. QED
      BY <1>3, <3>2, <3>3
  <2>3. QED
    BY <2>1, <2>2
<1>5. ASSUME NEW s \in drawn, NEW t \in drawn
      PROVE  /\ s.bottom <= s.room
             /\ s.seg = t.seg => s = t
             /\ (/\ s # t /\ s.seg.at.row = t.seg.at.row
                 /\ IsDaySegmentCollision(s.seg, {t.seg}))
                => s.bottom <= t.top \/ t.bottom <= s.top
  <2>1. PICK r \in 0..Grid.rowCnt - 1 : \E i \in DOMAIN RowInOrder(es, r) : s = DrawnAt(es, r, i)
    BY DrawnIs
  <2>2. PICK i \in DOMAIN RowInOrder(es, r) : s = DrawnAt(es, r, i)
    BY <2>1
  <2>3. PICK q \in 0..Grid.rowCnt - 1 : \E j \in DOMAIN RowInOrder(es, q) : t = DrawnAt(es, q, j)
    BY DrawnIs
  <2>4. PICK j \in DOMAIN RowInOrder(es, q) : t = DrawnAt(es, q, j)
    BY <2>3
  <2>5. s.seg.at.row = r /\ t.seg.at.row = q
    BY <1>3, <2>2, <2>4
  <2>6. s.bottom <= s.room
    BY <1>3, <2>2
  <2>7. ASSUME s.seg = t.seg PROVE s = t
    <3>1. q = r
      BY <2>5, <2>7
    <3>2. i \in DOMAIN RowInOrder(es, r) /\ j \in DOMAIN RowInOrder(es, r)
      BY <2>2, <2>4, <3>1
    <3>3. RowInOrder(es, r)[i] = RowInOrder(es, r)[j]
      <4>1. s.seg = RowInOrder(es, r)[i] /\ t.seg = RowInOrder(es, q)[j]
        BY <1>3, <2>2, <2>4
      <4>2. QED
        BY <2>7, <3>1, <4>1
    <3>4. i = j
      BY <1>2, <3>2, <3>3
    <3>5. QED
      BY <2>2, <2>4, <3>1, <3>4
  <2>8. ASSUME s # t, s.seg.at.row = t.seg.at.row, IsDaySegmentCollision(s.seg, {t.seg})
        PROVE  s.bottom <= t.top \/ t.bottom <= s.top
    <3>1. q = r
      BY <2>5, <2>8
    <3>2. i # j /\ j \in DOMAIN RowInOrder(es, r) /\ t = DrawnAt(es, r, j)
      BY <2>2, <2>4, <2>8, <3>1
    <3>3. i \in Int /\ j \in Int
      <4>1. RowInOrder(es, r) \in Seq(RowSegments(es, r))
        BY <1>2
      <4>2. QED
        BY <3>2, <4>1
    <3>4. CASE i < j
      BY <1>3, <2>2, <2>8, <3>2, <3>4
    <3>5. CASE j < i
      <4>1. IsDaySegmentCollision(t.seg, {s.seg})
        <5>1. /\ t.seg.at.leftCol <= s.seg.at.rightCol
              /\ t.seg.at.rightCol >= s.seg.at.leftCol
          BY <2>8 DEF IsDaySegmentCollision
        <5>2. /\ s.seg.at.leftCol \in Int /\ s.seg.at.rightCol \in Int
              /\ t.seg.at.leftCol \in Int /\ t.seg.at.rightCol \in Int
          <6>1. s.seg \in RowSegments(es, r) /\ t.seg \in RowSegments(es, r)
            BY <1>3, <2>2, <3>2
          <6>2. RowOf(RowSegments(es, r), es, w)
            BY <1>2
          <6>3. QED
            BY <6>1, <6>2 DEF RowOf
        <5>3. /\ s.seg.at.leftCol <= t.seg.at.rightCol
              /\ s.seg.at.rightCol >= t.seg.at.leftCol
          BY <5>1, <5>2
        <5>4. QED
          BY <5>3 DEF IsDaySegmentCollision
      <4>2. QED
        BY <1>3, <2>2, <3>2, <3>5, <4>1
    <3>6. QED
      BY <3>2, <3>3, <3>4, <3>5
  <2>9. QED
    BY <2>6, <2>7, <2>8
<1>6. QED
  BY <1>4, <1>5, Zenon DEF Stacked

\* So the events of a page are stacked in their cells.
LEMMA PageStacked ==
  ASSUME PageOK, EventsOK
  PROVE  RowsStacked
<1> DEFINE inCells == [id \in {i \in DOMAIN events : IsMonth \/ events[i].allDay} |-> events[id]]
           drawn == DrawDaySegments(inCells, Grid, Height)
<1>1. CellEvents(inCells)
  BY DEF EventsOK, CellEvents
<1>2. drawn = DrawDaySegments(inCells, Grid, Height)
  OBVIOUS
<1> HIDE DEF inCells, drawn
<1>3. Stacked(inCells, drawn)
  BY <1>1, <1>2, AllStacked
<1>4. QED
  BY <1>3, Zenon DEF RowsStacked, Stacked, inCells, drawn

-----------------------------------------------------------------------------
(* What is drawn                                                            *)

\* Every event ends after it starts, unless an answer overtook a resize or a late drop, and
\* is drawn exactly where it lasts: in the columns of the agenda tick by tick, in the cells of a
\* grid day by day, with one first and one last segment; each of these segments has a
\* place of its own in its row, which no other covers and for which the row has room;
\* for any week, hidden days, next day threshold, hours the columns show, heights of
\* the elements and number of events.
THEOREM AllDrawn == Spec => []DrawnExactly
<1>1. TypeInv /\ EndInv => DrawnExactly
  <2> SUFFICES ASSUME TypeInv, EndInv PROVE EndAfterStart /\ DrawnWhereItLasts /\ RowsStacked
    BY DEF DrawnExactly
  <2>1. EndAfterStart
    BY DEF EndInv, Lasting, Lasts, EndAfterStart
  <2>2. PageOK /\ EventsOK
    BY DEF TypeInv
  <2>3. ASSUME NEW id \in DOMAIN events,
               NEW row \in 0..Grid.rowCnt - 1, NEW col \in 0..Grid.colCnt - 1
        PROVE  LET e == events[id]
               IN  Cardinality({p \in DayPieces(e) : p.row = row /\ col \in p.leftCol..p.rightCol}) =
                     IF DateOf([row |-> row, col |-> col]) \in
                          DayOf(e.start)..Max({LastDay(GetEventEnd(e)), DayOf(e.start)})
                     THEN 1 ELSE 0
    BY <2>2, DaysDrawn DEF EventsOK
  <2>4. ASSUME NEW id \in DOMAIN events
        PROVE  /\ Cardinality({p \in DayPieces(events[id]) : p.isStart}) <= 1
               /\ Cardinality({p \in DayPieces(events[id]) : p.isEnd}) <= 1
    BY <2>2, EndsOnce DEF EventsOK
  <2>5. ASSUME NEW id \in DOMAIN events, NEW col \in 0..Grid.colCnt - 1,
               NEW t \in MinTime..MaxTime - 1
        PROVE  LET at == DateOf([row |-> 0, col |-> col]) * TicksPerDay + t
               IN  Cardinality({p \in SlotPieces(id) :
                                  p.col = col /\ p.seg.start <= at /\ at < p.seg.end}) =
                     IF events[id].start.at <= at /\ at < GetEventEnd(events[id]).at THEN 1 ELSE 0
    BY <2>2, SlotsDrawn
  <2>6. ASSUME NEW id \in DOMAIN events
        PROVE  LET e == events[id]
                   start == e.start.at
                   end == GetEventEnd(e).at
                   late == TimeOf(GetEventEnd(e)) # 0 /\ TimeOf(GetEventEnd(e)) >= NextDayThreshold
                   lastDay == (end - (IF late THEN 0 ELSE TicksPerDay)) \div TicksPerDay
                   pieces == DayPieces(e)
                   slots == SlotPieces(id)
               IN  IF IsMonth \/ e.allDay
                   THEN /\ \A row \in 0..Grid.rowCnt - 1, col \in 0..Grid.colCnt - 1 :
                             Cardinality({p \in pieces : p.row = row /\ col \in p.leftCol..p.rightCol}) =
                               IF DateOf([row |-> row, col |-> col]) \in
                                    DayOf(e.start)..Max({lastDay, DayOf(e.start)})
                               THEN 1 ELSE 0
                        /\ Cardinality({p \in pieces : p.isStart}) <= 1
                        /\ Cardinality({p \in pieces : p.isEnd}) <= 1
                   ELSE \A col \in 0..Grid.colCnt - 1, t \in MinTime..MaxTime - 1 :
                          LET at == DateOf([row |-> 0, col |-> col]) * TicksPerDay + t
                          IN  Cardinality({p \in slots :
                                             p.col = col /\ p.seg.start <= at /\ at < p.seg.end}) =
                                IF start <= at /\ at < end THEN 1 ELSE 0
    <3>1. CASE IsMonth \/ events[id].allDay
      BY <2>3, <2>4, <3>1, Zenon DEF LastDay, LateEnd
    <3>2. CASE ~ (IsMonth \/ events[id].allDay)
      BY <2>5, <3>2, Zenon
    <3>3. QED
      BY <3>1, <3>2, Zenon
  <2>60. DrawnWhereItLasts
    BY <2>6, Zenon DEF DrawnWhereItLasts
  <2>61. RowsStacked
    BY <2>2, PageStacked
  <2>7. QED
    BY <2>1, <2>60, <2>61
<1>2. QED
  BY <1>1, AlwaysEndInv, PTL

=============================================================================
