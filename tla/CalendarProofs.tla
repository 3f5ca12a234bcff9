--------------------------- MODULE CalendarProofs ---------------------------
(***************************************************************************)
(* Proofs about Calendar, for any calendar of months, machines,            *)
(* reservations, format of titles and number of fetches: shapes, exact     *)
(* counters, what a page at rest shows, what one lost answer does, what    *)
(* the view covers and its title tells, that "next" follows, and that the  *)
(* screen implements LatestAnswer. Where days of the week are hidden a     *)
(* view skips them; fablabcalendar.js hides none, and the theorems about   *)
(* what a view covers say so (HiddenDays = {}). The others hold for any.   *)
(*                                                                         *)
(* The inductive invariant says of the event manager which replies its     *)
(* cache holds and which requests it still waits for (Sound, Filled,       *)
(* Settled), of the page how the selection on its way to the server        *)
(* relates to the one on the screen (Sent), and of the view that what is   *)
(* drawn was asked for and the header speaks of it (ViewInv).              *)
(***************************************************************************)
EXTENDS Calendar, SetFacts, SequenceTheorems

USE DEF ViewName

-----------------------------------------------------------------------------
(* Days                                                                     *)

\* Skipping hidden days ends, as some day of the week is drawn.
LEMMA SkipsToADay ==
  ASSUME NEW d \in Int, NEW inc \in {-1, 1}, NEW isExclusive \in BOOLEAN
  PROVE  SkipHiddenDays(d, inc, isExclusive) \in Int
<1> DEFINE edge == IF isExclusive THEN inc ELSE 0
           steps == {k \in 0..6 : ~ IsHiddenDay(d + k * inc + edge)}
<1>1. PICK day \in 0..6 : day \notin HiddenDays
  BY WeekAssumption
<1>2. \E k \in 0..6 : (d + k * inc + edge) % 7 = day
  <2>1. CASE inc = 1
    <3>1. (day - d - edge) % 7 \in 0..6 /\ (d + ((day - d - edge) % 7) + edge) % 7 = day
      BY <2>1
    <3>2. QED
      BY <2>1, <3>1
  <2>2. CASE inc = -1
    <3>1. (d + edge - day) % 7 \in 0..6 /\ (d - ((d + edge - day) % 7) + edge) % 7 = day
      BY <2>2
    <3>2. QED
      BY <2>2, <3>1
  <2>3. QED
    BY <2>1, <2>2
<1>3. steps # {}
  BY <1>1, <1>2 DEF IsHiddenDay, DayOfWeek
<1>4. Min(steps) \in 0..6
  <2>1. 0 \in Int /\ 6 \in Int /\ steps \in SUBSET (0..6)
    OBVIOUS
  <2> HIDE DEF steps
  <2>2. Min(steps) \in steps
    BY <1>3, <2>1, Extremes, Zenon
  <2>3. QED
    BY <2>1, <2>2
<1>5. SkipHiddenDays(d, inc, isExclusive) = d + inc * Min(steps)
  BY DEF SkipHiddenDays
<1> HIDE DEF steps
<1>6. QED
  BY <1>4, <1>5

\* A later month starts later.
LEMMA MonthsFollow ==
  ASSUME NEW i \in 1..Len(MonthStart), NEW j \in 1..Len(MonthStart), i < j
  PROVE  MonthStart[i] < MonthStart[j]
<1>1. /\ Len(MonthStart) \in Nat
      /\ \A k \in 1..Len(MonthStart) : MonthStart[k] \in Int
      /\ \A k \in 1..Len(MonthStart) - 1 : MonthStart[k] + 28 =< MonthStart[k + 1]
  <2>1. MonthStart \in Seq(Int) /\ Len(MonthStart) \in Nat
    BY MonthAssumption
  <2>2. \A k \in 1..Len(MonthStart) : MonthStart[k] \in Int
    BY <2>1
  <2>3. ASSUME NEW k \in 1..Len(MonthStart) - 1
        PROVE  MonthStart[k] + 28 =< MonthStart[k + 1]
    <3>1. MonthStart[k + 1] - MonthStart[k] \in 28..31
      BY MonthAssumption
    <3>2. MonthStart[k] \in Int /\ MonthStart[k + 1] \in Int
      BY <2>1, <2>2
    <3>3. QED
      BY <3>1, <3>2
  <2>4. QED
    BY <2>1, <2>2, <2>3
<1> DEFINE T == {k \in 1..Len(MonthStart) : i < k /\ MonthStart[k] =< MonthStart[i]}
<1>2. SUFFICES ASSUME T # {} PROVE FALSE
  <2>1. j \notin T => MonthStart[i] < MonthStart[j]
    BY <1>1
  <2>2. QED
    BY <2>1
<1>3. PICK k \in T : \A l \in T : k =< l
  <2>1. T \in SUBSET (1..Len(MonthStart)) /\ 1 \in Int /\ Len(MonthStart) \in Int
    BY <1>1
  <2> HIDE DEF T
  <2>2. Min(T) \in T /\ \A l \in T : Min(T) =< l
    BY <1>2, <2>1, Extremes, Zenon
  <2>3. QED
    BY <2>2
<1>4. k - 1 \in 1..Len(MonthStart) - 1 /\ k - 1 \notin T
  BY <1>1, <1>3
<1>5. MonthStart[i] =< MonthStart[k - 1]
  <2>1. CASE k - 1 = i
    BY <1>1, <1>4, <2>1
  <2>2. CASE i < k - 1
    <3>1. k - 1 \in 1..Len(MonthStart)
      BY <1>1, <1>4
    <3>2. ~ (MonthStart[k - 1] =< MonthStart[i])
      BY <1>4, <2>2, <3>1
    <3>3. MonthStart[k - 1] \in Int /\ MonthStart[i] \in Int
      BY <1>1, <3>1
    <3> HIDE DEF T
    <3>4. QED
      BY <3>2, <3>3
  <2>3. k - 1 = i \/ i < k - 1
    <3>1. i < k /\ k \in Int /\ i \in Int
      BY <1>1
    <3> HIDE DEF T
    <3>2. QED
      BY <3>1
  <2>4. QED
    BY <2>1, <2>2, <2>3
<1>6. MonthStart[k - 1] + 28 =< MonthStart[k]
  BY <1>1, <1>4
<1>7. MonthStart[k] =< MonthStart[i] /\ k \in 1..Len(MonthStart)
  BY <1>3
<1> HIDE DEF T
<1>8. MonthStart[k] \in Int /\ MonthStart[i] \in Int /\ MonthStart[k - 1] \in Int
  BY <1>1, <1>4, <1>7
<1>9. QED
  BY <1>5, <1>6, <1>7, <1>8

\* A day lies in one month only.
LEMMA MonthIsOne ==
  ASSUME NEW d \in Int, NEW i \in 1..Len(MonthStart) - 1,
         MonthStart[i] =< d, d < MonthStart[i + 1]
  PROVE  MonthOf(d) = i
<1>1. /\ Len(MonthStart) \in Nat
      /\ \A k \in 1..Len(MonthStart) : MonthStart[k] \in Int
  BY MonthAssumption
<1> DEFINE m == MonthOf(d)
<1>2. m \in 1..Len(MonthStart) - 1 /\ MonthStart[m] =< d /\ d < MonthStart[m + 1]
  BY <1>1 DEF MonthOf
<1> HIDE DEF m
<1>3. CASE m < i
  <2>1. m + 1 = i \/ m + 1 < i
    BY <1>2, <1>3
  <2>2. MonthStart[m + 1] =< MonthStart[i]
    BY <1>1, <1>2, <2>1, MonthsFollow
  <2>3. QED
    BY <1>1, <1>2, <2>2
<1>4. CASE i < m
  <2>1. i + 1 = m \/ i + 1 < m
    BY <1>2, <1>4
  <2>2. MonthStart[i + 1] =< MonthStart[m]
    BY <1>1, <1>2, <2>1, MonthsFollow
  <2>3. QED
    BY <1>1, <1>2, <2>2
<1>5. QED
  BY <1>2, <1>3, <1>4 DEF m

\* The month of a day the calendar is moved to, and the ones before and after it.
LEMMA MonthOfDate ==
  ASSUME NEW d \in Dates
  PROVE  /\ d \in Int /\ MonthOf(d) \in 2..Len(MonthStart) - 2
         /\ MonthStart[MonthOf(d)] =< d /\ d < MonthStart[MonthOf(d) + 1]
         /\ \A i \in 1..Len(MonthStart) : MonthStart[i] \in Int
         /\ Len(MonthStart) \in Nat
<1>1. d \in Int /\ KnownDay(d) /\ Len(MonthStart) \in Nat
      /\ \A i \in 1..Len(MonthStart) : MonthStart[i] \in Int
  BY CalendarAssumption, MonthAssumption
<1>2. PICK i \in 2..Len(MonthStart) - 2 : MonthStart[i] =< d /\ d < MonthStart[i + 1]
  BY <1>1 DEF KnownDay
<1>3. MonthOf(d) = i
  BY <1>1, <1>2, MonthIsOne
<1>4. QED
  BY <1>1, <1>2, <1>3

\* The edges of the month of such a day.
LEMMA MonthIsKnown ==
  ASSUME NEW d \in Dates
  PROVE  /\ d \in Int
         /\ MonthStart[MonthOf(d)] \in Int
         /\ MonthStart[MonthOf(d) + 1] \in Int
BY MonthOfDate

\* A window bears the name of its view.
LEMMA WindowIsNamed ==
  ASSUME NEW name \in ViewName, NEW d
  PROVE  WindowOf(name, d).name = name
BY DEF WindowOf, MonthWindow, WeekWindow, DayWindow, Window

\* The days a view draws are days.
LEMMA WindowIsDays ==
  ASSUME NEW name \in ViewName, NEW d \in Dates
  PROVE  WindowOf(name, d).start \in Int /\ WindowOf(name, d).end \in Int
<1>1. /\ d \in Int
      /\ MonthStart[MonthOf(d)] \in Int
      /\ MonthStart[MonthOf(d) + 1] \in Int
  BY MonthIsKnown
<1>2. \A n \in Int : Weekday(n) \in 0..6 /\ StartOfWeek(n) \in Int
  BY WeekAssumption DEF Weekday, StartOfWeek
<1>3. \A n \in Int : /\ SkipHiddenDays(n, 1, FALSE) \in Int
                     /\ SkipHiddenDays(n, -1, TRUE) \in Int
  BY SkipsToADay
<1>4. CASE name = "month"
  <2> DEFINE first == MonthStart[MonthOf(d)]
             last  == MonthStart[MonthOf(d) + 1]
             start == SkipHiddenDays(StartOfWeek(SkipHiddenDays(first, 1, FALSE)), 1, FALSE)
             edge  == SkipHiddenDays(last, -1, TRUE)
             end   == SkipHiddenDays(edge + ((7 - Weekday(edge)) % 7), -1, TRUE)
             rowCnt == (end - start + 6) \div 7
  <2>1. WindowOf(name, d) = Window("month", first, last, start, end + 7 * (6 - rowCnt))
    BY <1>4 DEF WindowOf, MonthWindow
  <2>2. start \in Int
    BY <1>1, <1>2, <1>3
  <2>3. edge \in Int
    BY <1>1, <1>3
  <2>4. edge + ((7 - Weekday(edge)) % 7) \in Int
    <3> HIDE DEF edge
    <3>1. Weekday(edge) \in 0..6
      BY <1>2, <2>3
    <3>2. (7 - Weekday(edge)) % 7 \in 0..6
      BY <3>1
    <3>3. QED
      BY <2>3, <3>2
  <2>5. end \in Int
    BY <1>3, <2>4
  <2> HIDE DEF first, last, start, edge, end
  <2>6. QED
    BY <2>1, <2>2, <2>5 DEF Window
<1>5. CASE name = "agendaWeek"
  <2>1. StartOfWeek(d) \in Int /\ StartOfWeek(d) + 7 \in Int
    BY <1>1, <1>2
  <2>2. /\ SkipHiddenDays(StartOfWeek(d), 1, FALSE) \in Int
        /\ SkipHiddenDays(StartOfWeek(d) + 7, -1, TRUE) \in Int
    BY <1>3, <2>1
  <2>3. QED
    BY <1>5, <2>2 DEF WindowOf, WeekWindow, Window
<1>6. CASE name = "agendaDay"
  BY <1>1, <1>6 DEF WindowOf, DayWindow, Window
<1>7. QED
  BY <1>4, <1>5, <1>6

\* Where every day of the week is drawn none is skipped.
LEMMA NoneSkipped ==
  ASSUME HiddenDays = {}, NEW d \in Int, NEW inc \in {-1, 1}, NEW isExclusive \in BOOLEAN
  PROVE  SkipHiddenDays(d, inc, isExclusive) = d
<1>1. {k \in 0..6 : ~ IsHiddenDay(d + k * inc + (IF isExclusive THEN inc ELSE 0))} = 0..6
  BY DEF IsHiddenDay
<1>2. Min(0..6) = 0
  BY DEF Min
<1>3. d + inc * 0 = d
  OBVIOUS
<1>4. SkipHiddenDays(d, inc, isExclusive) = d + inc * Min(0..6)
  BY <1>1, Zenon DEF SkipHiddenDays
<1>5. QED
  BY <1>2, <1>3, <1>4

\* A day lies in the week that starts with the day of the week FirstDay.
LEMMA WeekOfDay ==
  ASSUME NEW d \in Int
  PROVE  /\ FirstDay \in Int /\ Weekday(d) \in 0..6
         /\ StartOfWeek(d) = d - Weekday(d) /\ StartOfWeek(d) \in Int
         /\ StartOfWeek(d) =< d /\ d < StartOfWeek(d) + 7
<1>1. FirstDay \in Int
  BY WeekAssumption
<1>2. Weekday(d) \in 0..6
  BY <1>1 DEF Weekday
<1>3. QED
  BY <1>1, <1>2 DEF StartOfWeek

\* Weeks start whole weeks apart.
LEMMA WeeksApart ==
  ASSUME NEW d \in Int
  PROVE  /\ \E w \in Int : StartOfWeek(d) = FirstDay + 7 * w
         /\ StartOfWeek(d + 7) = StartOfWeek(d) + 7
         /\ StartOfWeek(d - 7) = StartOfWeek(d) - 7
<1>1. FirstDay \in Int
  BY WeekAssumption
<1> DEFINE n == d - FirstDay
<1>2. n \in Int /\ (d + 7) - FirstDay = n + 7 /\ (d - 7) - FirstDay = n - 7
  BY <1>1
<1>3. n = 7 * (n \div 7) + (n % 7) /\ n \div 7 \in Int /\ n % 7 \in 0..6
  <2> HIDE DEF n
  <2>1. QED
    BY <1>2
<1>4. (n + 7) % 7 = n % 7 /\ (n - 7) % 7 = n % 7
  <2> HIDE DEF n
  <2>1. QED
    BY <1>2
<1>5. Weekday(d + 7) = Weekday(d) /\ Weekday(d - 7) = Weekday(d) /\ Weekday(d) = n % 7
  <2>1. Weekday(d) = n % 7
    BY DEF Weekday
  <2>2. Weekday(d + 7) = (n + 7) % 7
    BY <1>2 DEF Weekday
  <2>3. Weekday(d - 7) = (n - 7) % 7
    BY <1>2 DEF Weekday
  <2>4. QED
    BY <1>4, <2>1, <2>2, <2>3
<1>6. StartOfWeek(d) = FirstDay + 7 * (n \div 7)
  BY <1>1, <1>3, <1>5 DEF StartOfWeek
<1>7. Weekday(d) \in Int
  BY WeekOfDay
<1>8. /\ StartOfWeek(d + 7) = StartOfWeek(d) + 7
      /\ StartOfWeek(d - 7) = StartOfWeek(d) - 7
  BY <1>5, <1>7 DEF StartOfWeek
<1>9. QED
  BY <1>3, <1>6, <1>8

\* A month's view is six whole weeks, the first with the month's first day.
LEMMA MonthCovers ==
  ASSUME HiddenDays = {}, NEW d \in Dates
  PROVE  LET w == MonthWindow(d)
         IN  /\ w.intervalStart = MonthStart[MonthOf(d)]
             /\ w.intervalEnd = MonthStart[MonthOf(d) + 1]
             /\ w.start \in Int /\ w.end \in Int /\ w.end - w.start = 42
             /\ w.start =< w.intervalStart /\ w.intervalEnd =< w.end
<1> DEFINE m     == MonthOf(d)
           first == MonthStart[m]
           last  == MonthStart[m + 1]
           start == StartOfWeek(first)
           end   == last + ((7 - Weekday(last)) % 7)
           rowCnt == (end - start + 6) \div 7
<1>1. first \in Int /\ last \in Int /\ last - first \in 28..31
  <2>1. m \in 1..Len(MonthStart) - 1
    BY MonthOfDate
  <2>2. MonthStart[m + 1] - MonthStart[m] \in 28..31
    BY <2>1, MonthAssumption
  <2>3. QED
    BY <2>2, MonthIsKnown
<1>2. MonthWindow(d) = Window("month", first, last, start, end + 7 * (6 - rowCnt))
  <2>1. SkipHiddenDays(first, 1, FALSE) = first /\ SkipHiddenDays(last, -1, TRUE) = last
    BY <1>1, NoneSkipped
  <2>2. SkipHiddenDays(start, 1, FALSE) = start /\ SkipHiddenDays(end, -1, TRUE) = end
    <3>1. start \in Int
      BY <1>1, WeekOfDay
    <3>2. end \in Int
      <4>1. Weekday(last) \in 0..6
        BY <1>1, WeekOfDay
      <4>2. (7 - Weekday(last)) % 7 \in 0..6
        BY <4>1
      <4>3. QED
        BY <1>1, <4>2
    <3> HIDE DEF start, end
    <3>3. QED
      BY <3>1, <3>2, NoneSkipped
  <2>3. QED
    BY <2>1, <2>2, Zenon DEF MonthWindow
<1>3. PICK v \in Int : start = FirstDay + 7 * v
  BY <1>1, WeeksApart
<1>4. PICK u \in Int : last - Weekday(last) = FirstDay + 7 * u
  <2>1. StartOfWeek(last) = last - Weekday(last)
    BY <1>1, WeekOfDay
  <2>2. QED
    BY <1>1, <2>1, WeeksApart
<1>5. FirstDay \in Int /\ Weekday(first) \in 0..6 /\ start = first - Weekday(first)
  BY <1>1, WeekOfDay
<1>6. Weekday(last) \in 0..6
  BY <1>1, WeekOfDay
<1>7. /\ end = IF Weekday(last) = 0 THEN FirstDay + 7 * u ELSE FirstDay + 7 * (u + 1)
      /\ last =< end /\ end - last \in 0..6 /\ start =< first
  <2>1. (7 - Weekday(last)) % 7 = IF Weekday(last) = 0 THEN 0 ELSE 7 - Weekday(last)
    BY <1>6
  <2> HIDE DEF last, first
  <2>2. QED
    BY <1>1, <1>4, <1>5, <1>6, <2>1
<1>8. start \in Int /\ end \in Int /\ end - start \in 28..43
  <2> HIDE DEF first, last, start, end
  <2>1. end \in Int /\ start \in Int
    BY <1>1, <1>3, <1>5, <1>7
  <2>2. QED
    BY <1>1, <1>5, <1>7, <2>1
<1>9. end - start = 7 * rowCnt /\ rowCnt \in 4..6
  <2>1. PICK k \in Int : end - start = 7 * k
    <3> HIDE DEF first, last, start, end
    <3>1. end - start = 7 * (u - v) \/ end - start = 7 * (u + 1 - v)
      BY <1>3, <1>5, <1>7, <1>8
    <3>2. u - v \in Int /\ u + 1 - v \in Int
      OBVIOUS
    <3>3. QED
      BY <3>1, <3>2
  <2>2. k \in 4..6
    <3> HIDE DEF first, last, start, end
    <3>1. QED
      BY <1>8, <2>1
  <2>3. (7 * k + 6) \div 7 = k
    BY <2>2
  <2>4. QED
    BY <2>1, <2>2, <2>3
<1>10. first =< last
  BY <1>1
<1> DEFINE stop == end + 7 * (6 - rowCnt)
<1>11. stop \in Int /\ stop - start = 42 /\ last =< stop
  <2> HIDE DEF first, last, start, end, rowCnt
  <2>1. QED
    BY <1>1, <1>7, <1>8, <1>9
<1> HIDE DEF m, first, last, start, stop
<1>12. MonthWindow(d) = Window("month", MonthStart[MonthOf(d)], MonthStart[MonthOf(d) + 1],
                                start, stop)
  BY <1>2 DEF m, first, last, stop
<1>13. /\ start =< MonthStart[MonthOf(d)] /\ MonthStart[MonthOf(d) + 1] =< stop
       /\ start \in Int
  BY <1>7, <1>8, <1>11 DEF first, last, m
<1>14. QED
  BY <1>11, <1>12, <1>13 DEF Window

\* A view is about the calendar's date and draws all it is about.
LEMMA WindowCovers ==
  ASSUME HiddenDays = {}, NEW name \in ViewName, NEW d \in Dates
  PROVE  LET w == WindowOf(name, d)
         IN  /\ w.intervalStart \in Int /\ w.intervalEnd \in Int
             /\ w.start \in Int /\ w.end \in Int
             /\ IsWithin(d, w.intervalStart, w.intervalEnd)
             /\ w.start =< w.intervalStart /\ w.intervalEnd =< w.end
             /\ name = "month" => w.end - w.start = 42
             /\ name = "agendaWeek" => w.start = StartOfWeek(d) /\ w.end = w.start + 7
<1>1. d \in Int
  BY CalendarAssumption
<1>2. CASE name = "month"
  <2>1. WindowOf(name, d) = MonthWindow(d)
    BY <1>2 DEF WindowOf
  <2>2. /\ MonthStart[MonthOf(d)] \in Int /\ MonthStart[MonthOf(d) + 1] \in Int
        /\ MonthStart[MonthOf(d)] =< d /\ d < MonthStart[MonthOf(d) + 1]
    BY MonthOfDate, MonthIsKnown
  <2>3. QED
    BY <1>2, <2>1, <2>2, MonthCovers DEF IsWithin
<1>3. CASE name = "agendaWeek"
  <2>1. /\ StartOfWeek(d) \in Int /\ StartOfWeek(d) + 7 \in Int
        /\ StartOfWeek(d) =< d /\ d < StartOfWeek(d) + 7
    BY <1>1, WeekOfDay
  <2>2. /\ SkipHiddenDays(StartOfWeek(d), 1, FALSE) = StartOfWeek(d)
        /\ SkipHiddenDays(StartOfWeek(d) + 7, -1, TRUE) = StartOfWeek(d) + 7
    BY <2>1, NoneSkipped
  <2>3. WindowOf(name, d) = Window("agendaWeek", StartOfWeek(d), StartOfWeek(d) + 7,
                                   StartOfWeek(d), StartOfWeek(d) + 7)
    BY <1>3, <2>2 DEF WindowOf, WeekWindow
  <2>4. QED
    BY <1>3, <2>1, <2>3 DEF Window, IsWithin
<1>4. CASE name = "agendaDay"
  BY <1>1, <1>4 DEF WindowOf, DayWindow, Window, IsWithin
<1>5. QED
  BY <1>2, <1>3, <1>4

\* The view one further is about the days that follow, or that precede.
LEMMA NextFollows ==
  ASSUME HiddenDays = {}, NEW name \in ViewName, NEW d \in Dates, NEW e \in Dates
  PROVE  /\ e = IncrementDate(name, d, 1)
              => WindowOf(name, e).intervalStart = WindowOf(name, d).intervalEnd
         /\ e = IncrementDate(name, d, -1)
              => WindowOf(name, e).intervalEnd = WindowOf(name, d).intervalStart
<1>1. d \in Int /\ e \in Int
  BY CalendarAssumption
<1>2. CASE name = "month"
  <2> DEFINE m == MonthOf(d)
  <2>1. /\ m \in 2..Len(MonthStart) - 2 /\ Len(MonthStart) \in Nat
        /\ \A i \in 1..Len(MonthStart) : MonthStart[i] \in Int
    BY MonthOfDate
  <2>2. ASSUME NEW i \in 1..Len(MonthStart) - 1, e = MonthStart[i] PROVE MonthOf(e) = i
    <3>1. MonthStart[i] < MonthStart[i + 1]
      BY <2>1, MonthsFollow
    <3>2. QED
      BY <1>1, <2>1, <2>2, <3>1, MonthIsOne
  <2>3. ASSUME NEW x \in Dates
        PROVE  /\ WindowOf(name, x).intervalStart = MonthStart[MonthOf(x)]
               /\ WindowOf(name, x).intervalEnd = MonthStart[MonthOf(x) + 1]
    BY <1>2, MonthCovers DEF WindowOf
  <2>4. IncrementDate(name, d, 1) = MonthStart[m + 1]
        /\ IncrementDate(name, d, -1) = MonthStart[m - 1]
    BY <1>2, <2>1 DEF IncrementDate, IncrementMonth
  <2>5. ASSUME e = MonthStart[m + 1] PROVE MonthOf(e) = m + 1
    BY <2>1, <2>2, <2>5
  <2>6. ASSUME e = MonthStart[m - 1] PROVE MonthOf(e) + 1 = m
    BY <2>1, <2>2, <2>6
  <2>7. QED
    BY <2>3, <2>4, <2>5, <2>6
<1>3. CASE name = "agendaWeek"
  <2>1. ASSUME NEW x \in Dates
        PROVE  /\ WindowOf(name, x).intervalStart = StartOfWeek(x)
               /\ WindowOf(name, x).intervalEnd = StartOfWeek(x) + 7
    BY <1>3 DEF WindowOf, WeekWindow, Window
  <2>2. /\ IncrementDate(name, d, 1) = StartOfWeek(d) + 7
        /\ IncrementDate(name, d, -1) = StartOfWeek(d) - 7
    <3>1. d + 7 * 1 = d + 7 /\ d + 7 * (-1) = d - 7
      BY <1>1
    <3>2. QED
      BY <1>1, <1>3, <3>1, WeeksApart DEF IncrementDate, IncrementWeek
  <2>3. PICK w \in Int : StartOfWeek(d) = FirstDay + 7 * w
    BY <1>1, WeeksApart
  <2>4. FirstDay \in Int
    BY WeekAssumption
  <2>5. ASSUME NEW v \in Int, e = FirstDay + 7 * v PROVE StartOfWeek(e) = e
    BY <2>4, <2>5 DEF StartOfWeek, Weekday
  <2>6. /\ StartOfWeek(d) + 7 = FirstDay + 7 * (w + 1)
        /\ StartOfWeek(d) - 7 = FirstDay + 7 * (w - 1)
    BY <2>3, <2>4
  <2>7. /\ e = StartOfWeek(d) + 7 => StartOfWeek(e) = e
        /\ e = StartOfWeek(d) - 7 => StartOfWeek(e) = e
    <3>1. w + 1 \in Int /\ w - 1 \in Int
      OBVIOUS
    <3>2. QED
      BY <2>5, <2>6, <3>1
  <2>8. StartOfWeek(d) \in Int
    BY <2>3, <2>4
  <2>9. QED
    BY <2>1, <2>2, <2>7, <2>8
<1>4. CASE name = "agendaDay"
  <2>1. IncrementDate(name, d, 1) = d + 1 /\ IncrementDate(name, d, -1) = d - 1
    <3>1. d + 1 \in Int /\ d + -1 \in Int /\ d + -1 = d - 1
      BY <1>1
    <3>2. /\ SkipHiddenDays(d + 1, 1, FALSE) = d + 1
          /\ SkipHiddenDays(d + -1, -1, FALSE) = d + -1
      BY <3>1, NoneSkipped
    <3>3. /\ IncrementDay(d, 1) = SkipHiddenDays(d + 1, 1, FALSE)
          /\ IncrementDay(d, -1) = SkipHiddenDays(d + -1, -1, FALSE)
      BY DEF IncrementDay
    <3>4. QED
      BY <1>4, <3>1, <3>2, <3>3 DEF IncrementDate
  <2>2. QED
    BY <1>1, <1>4, <2>1 DEF WindowOf, DayWindow, Window
<1>5. QED
  BY <1>2, <1>3, <1>4

-----------------------------------------------------------------------------
(* Titles                                                                   *)

Unit == {"year", "month", "day"}

Chunk == DOMAIN UnitOf \cup {"literal"}

LEMMA UnitsAreUnits == \A c \in DOMAIN UnitOf : UnitOf[c] \in Unit
<1>1. DOMAIN UnitOf = {"YYYY", "MMMM", "MMM", "D"}
  BY DEF UnitOf
<1>2. /\ UnitOf["YYYY"] = "year" /\ UnitOf["MMMM"] = "month"
      /\ UnitOf["MMM"] = "month" /\ UnitOf["D"] = "day"
  BY DEF UnitOf
<1> HIDE DEF UnitOf
<1>3. QED
  BY <1>1, <1>2 DEF Unit

\* A piece of a text: what it is about and what it shows of a day.
LEMMA PieceShows ==
  ASSUME NEW d, NEW c \in Chunk, NEW unit \in Unit
  PROVE  LET piece == FormatDateWithChunk(d, c)
         IN  /\ piece # Separator
             /\ piece[1] = unit <=> c # "literal" /\ UnitOf[c] = unit
             /\ piece[1] = unit => piece[2] = Field(d, unit)
<1>1. CASE c = "literal"
  BY <1>1 DEF FormatDateWithChunk, Separator, Unit
<1>2. CASE c # "literal"
  <2>1. UnitOf[c] \in Unit
    BY <1>2, UnitsAreUnits DEF Chunk
  <2>2. FormatDateWithChunk(d, c) = <<UnitOf[c], Field(d, UnitOf[c])>>
    BY <1>2 DEF FormatDateWithChunk
  <2> HIDE DEF UnitOf
  <2>3. QED
    BY <1>2, <2>1, <2>2 DEF Separator, Unit
<1>3. QED
  BY <1>1, <1>2

\* What a text says of a unit.
LEMMA SaysOf ==
  ASSUME NEW n \in Nat, NEW s, DOMAIN s = 1..n, NEW unit
  PROVE  Said(s, unit) = {s[i][2] : i \in {j \in 1..n : s[j][1] = unit}}
<1>1. ToSet(s) = {s[i] : i \in 1..n}
  BY DEF ToSet
<1>2. {q \in ToSet(s) : q[1] = unit} = {s[i] : i \in {j \in 1..n : s[j][1] = unit}}
  BY <1>1
<1>3. QED
  BY <1>2 DEF Said

LEMMA FunctionIsSeq ==
  ASSUME NEW S, NEW n \in Nat, NEW f \in [1..n -> S]
  PROVE  f \in Seq(S) /\ Len(f) = n
OBVIOUS

Pieces(d) == {FormatDateWithChunk(d, c) : c \in Chunk}

\* A text shows of day d the chunks from i to j.
ShowsPart(text, d, chunks, i, j) ==
  /\ text \in Seq(Pieces(d)) /\ Len(text) = j - i + 1
  /\ \A k \in 1..j - i + 1 : text[k] = FormatDateWithChunk(d, chunks[i + k - 1])

\* The text of some chunks of a format.
LEMMA PartShows ==
  ASSUME NEW chunks \in Seq(Chunk), NEW d,
         NEW i \in 1..Len(chunks) + 1, NEW j \in i - 1..Len(chunks)
  PROVE  ShowsPart(FormatDateWithChunks(d, SubSeq(chunks, i, j)), d, chunks, i, j)
<1> DEFINE sub == SubSeq(chunks, i, j)
           n == j - i + 1
           part == FormatDateWithChunks(d, sub)
           S == Pieces(d)
<1>1. n \in Nat /\ i \in Int /\ j \in Int /\ Len(chunks) \in Nat
  OBVIOUS
<1>2. \A k \in i..j : chunks[k] \in Chunk
  OBVIOUS
<1>3. /\ sub \in Seq(Chunk) /\ Len(sub) = n
      /\ \A k \in 1..n : sub[k] = chunks[i + k - 1]
  <2>1. /\ sub \in Seq(Chunk) /\ Len(sub) = IF i <= j THEN j - i + 1 ELSE 0
        /\ \A k \in 1..j - i + 1 : sub[k] = chunks[i + k - 1]
    BY <1>1, <1>2, SubSeqProperties
  <2>2. QED
    BY <1>1, <2>1
<1> HIDE DEF sub, n
<1>4. DOMAIN sub = 1..n /\ \A k \in 1..n : sub[k] \in Chunk
  BY <1>1, <1>3
<1>5. part = [k \in 1..n |-> FormatDateWithChunk(d, sub[k])]
  BY <1>4, Zenon DEF FormatDateWithChunks
<1>6. part \in [1..n -> S] /\ \A k \in 1..n : part[k] = FormatDateWithChunk(d, chunks[i + k - 1])
  <2>1. \A c \in Chunk : FormatDateWithChunk(d, c) \in S
    BY DEF Pieces
  <2> HIDE DEF S, Chunk
  <2>2. QED
    BY <1>3, <1>4, <1>5, <2>1
<1>7. part \in Seq(S) /\ Len(part) = n
  BY <1>1, <1>6, FunctionIsSeq
<1>8. QED
  BY <1>6, <1>7, Zenon DEF n, sub, part, ShowsPart

\* A format names a unit.
Names(chunks, i, unit) == chunks[i] # "literal" /\ UnitOf[chunks[i]] = unit

Named(chunks, unit) == \E i \in 1..Len(chunks) : Names(chunks, i, unit)

\* A text tells a unit of both its days.
Tells(text, a, b, unit) ==
  ReadFirst(text, unit) = {Field(a, unit)} /\ ReadLast(text, unit) = {Field(b, unit)}

\* A text of one day has no separator, and tells each unit it names.
LEMMA PlainTells ==
  ASSUME NEW chunks \in Seq(Chunk), NEW d, NEW unit \in Unit, Named(chunks, unit)
  PROVE  Tells(FormatDateWithChunks(d, chunks), d, d, unit)
<1> DEFINE n == Len(chunks)
           text == FormatDateWithChunks(d, chunks)
<1>1. n \in Nat /\ \A i \in 1..n : chunks[i] \in Chunk
  OBVIOUS
<1>2. /\ text \in Seq(Pieces(d)) /\ Len(text) = n
      /\ \A i \in 1..n : text[i] = FormatDateWithChunk(d, chunks[i])
  <2>1. SubSeq(chunks, 1, n) = chunks
    BY SubSeqFull
  <2>2. 1 \in 1..n + 1 /\ n \in 1 - 1..n /\ n - 1 + 1 = n
    BY <1>1
  <2>3. ShowsPart(FormatDateWithChunks(d, SubSeq(chunks, 1, n)), d, chunks, 1, n)
    BY <2>2, PartShows
  <2>4. \A k \in 1..n : 1 + k - 1 = k
    BY <1>1
  <2> HIDE DEF n
  <2>5. QED
    BY <2>1, <2>2, <2>3, <2>4 DEF ShowsPart
<1> HIDE DEF text
<1>3. \A i \in 1..n : /\ text[i] # Separator
                      /\ text[i][1] = unit <=> Names(chunks, i, unit)
                      /\ text[i][1] = unit => text[i][2] = Field(d, unit)
  BY <1>1, <1>2, PieceShows DEF Names
<1>4. Said(text, unit) = {Field(d, unit)}
  <2>1. DOMAIN text = 1..n
    BY <1>2
  <2>2. \E i \in 1..n : text[i][1] = unit
    BY <1>3 DEF Named
  <2>3. \A i \in 1..n : text[i][1] = unit => text[i][2] = Field(d, unit)
    BY <1>3
  <2>4. n \in Nat
    BY <1>1
  <2> HIDE DEF n
  <2>5. Said(text, unit) = {text[i][2] : i \in {j \in 1..n : text[j][1] = unit}}
    BY <2>1, <2>4, SaysOf
  <2>6. QED
    BY <2>2, <2>3, <2>5
<1>5. SelectInSeq(text, LAMBDA p : p = Separator) = 0
  <2>1. {i \in 1..Len(text) : text[i] = Separator} = {}
    BY <1>2, <1>3
  <2>2. QED
    BY <2>1, Zenon DEF SelectInSeq
<1>6. SubSeq(text, 0 + 1, Len(text)) = text
  BY <1>2, SubSeqFull
<1>7. ReadFirst(text, unit) = {Field(d, unit)}
  <2> DEFINE k == SelectInSeq(text, LAMBDA p : p = Separator)
  <2>1. ~ (k > 0)
    BY <1>5
  <2> HIDE DEF k
  <2>2. QED
    BY <1>4, <2>1, Zenon DEF ReadFirst, k
<1>8. ReadLast(text, unit) = {Field(d, unit)}
  BY <1>4, <1>5, <1>6, Zenon DEF ReadLast
<1>9. QED
  BY <1>7, <1>8 DEF text, Tells

\* Days that are the same in a unit and the larger ones show the same of it.
LEMMA SameShows ==
  ASSUME NEW a, NEW b, NEW unit \in Unit, IsSame(a, b, unit)
  PROVE  Field(a, unit) = Field(b, unit)
<1>1. CASE unit = "year"
  BY <1>1 DEF IsSame, Field
<1>2. CASE unit = "month"
  BY <1>2 DEF IsSame, Field
<1>3. CASE unit = "day"
  BY <1>3 DEF IsSame
<1>4. QED
  BY <1>1, <1>2, <1>3 DEF Unit

\* The text of two days that differ from the piece lo to the piece hi: the first day's
\* as far as they differ, a separator, the second day's from where they differ, and what
\* both share at the end.
Joined(a, b, chunks, lo, hi) ==
  FormatDateWithChunks(a, SubSeq(chunks, 1, hi)) \o <<Separator>>
    \o FormatDateWithChunks(b, SubSeq(chunks, lo, hi))
    \o FormatDateWithChunks(a, SubSeq(chunks, hi + 1, Len(chunks)))

\* Such a text piece by piece.
ShowsBoth(text, a, b, chunks, lo, hi) ==
  /\ Len(text) = hi + 2 + Len(chunks) - lo /\ DOMAIN text = 1..Len(text)
  /\ \A i \in 1..hi : text[i] = FormatDateWithChunk(a, chunks[i])
  /\ text[hi + 1] = Separator
  /\ \A i \in lo..Len(chunks) :
       text[hi + 2 + i - lo] = FormatDateWithChunk(IF i =< hi THEN b ELSE a, chunks[i])

LEMMA JoinedShows ==
  ASSUME NEW chunks \in Seq(Chunk), NEW a, NEW b,
         NEW lo \in 1..Len(chunks), NEW hi \in lo..Len(chunks)
  PROVE  ShowsBoth(Joined(a, b, chunks, lo, hi), a, b, chunks, lo, hi)
<1> DEFINE n == Len(chunks)
           S == Pieces(a) \cup Pieces(b) \cup {Separator}
           left  == FormatDateWithChunks(a, SubSeq(chunks, 1, hi))
           mid   == FormatDateWithChunks(b, SubSeq(chunks, lo, hi))
           right == FormatDateWithChunks(a, SubSeq(chunks, hi + 1, n))
<1>1. n \in Nat /\ lo \in 1..n /\ hi \in lo..n /\ lo \in Nat /\ hi \in Nat
  OBVIOUS
<1>2. Seq(Pieces(a)) \subseteq Seq(S) /\ Seq(Pieces(b)) \subseteq Seq(S) /\ Separator \in S
  BY SeqMonotonic
<1> HIDE DEF S, Chunk
<1>3. /\ left \in Seq(S) /\ Len(left) = hi
      /\ \A k \in 1..hi : left[k] = FormatDateWithChunk(a, chunks[k])
  <2>1. 1 \in 1..n + 1 /\ hi \in 1 - 1..n /\ hi - 1 + 1 = hi /\ \A k \in 1..hi : 1 + k - 1 = k
    BY <1>1
  <2>2. ShowsPart(left, a, chunks, 1, hi)
    BY <2>1, PartShows
  <2> HIDE DEF n, left
  <2>3. QED
    BY <1>2, <2>1, <2>2 DEF ShowsPart
<1>4. /\ mid \in Seq(S) /\ Len(mid) = hi - lo + 1
      /\ \A k \in 1..hi - lo + 1 : mid[k] = FormatDateWithChunk(b, chunks[lo + k - 1])
  <2>1. lo \in 1..n + 1 /\ hi \in lo - 1..n
    BY <1>1
  <2>2. ShowsPart(mid, b, chunks, lo, hi)
    BY <2>1, PartShows
  <2> HIDE DEF n, mid
  <2>3. QED
    BY <1>2, <2>2 DEF ShowsPart
<1>5. /\ right \in Seq(S) /\ Len(right) = n - hi
      /\ \A k \in 1..n - hi : right[k] = FormatDateWithChunk(a, chunks[hi + k])
  <2> DEFINE r == hi + 1
  <2>1. /\ r \in 1..n + 1 /\ n \in r - 1..n /\ n - r + 1 = n - hi
        /\ \A k \in 1..n - hi : r + k - 1 = hi + k
    BY <1>1
  <2> HIDE DEF r
  <2>2. ShowsPart(FormatDateWithChunks(a, SubSeq(chunks, r, n)), a, chunks, r, n)
    BY <2>1, PartShows
  <2>3. ShowsPart(right, a, chunks, r, n)
    BY <2>2 DEF r
  <2> HIDE DEF n, right
  <2>4. QED
    BY <1>2, <2>1, <2>3 DEF ShowsPart
<1> DEFINE head == left \o <<Separator>>
           most == head \o mid
           text == most \o right
<1>6. Joined(a, b, chunks, lo, hi) = text
  BY DEF Joined
<1> HIDE DEF left, mid, right, n
<1>7. /\ head \in Seq(S) /\ Len(head) = hi + 1
      /\ \A i \in 1..hi : head[i] = FormatDateWithChunk(a, chunks[i])
      /\ head[hi + 1] = Separator
  <2>1. <<Separator>> \in Seq(S) /\ Len(<<Separator>>) = 1 /\ <<Separator>>[1] = Separator
    BY <1>2
  <2>2. /\ head \in Seq(S) /\ Len(head) = Len(left) + Len(<<Separator>>)
        /\ \A i \in 1..Len(left) + Len(<<Separator>>)
             : head[i] = IF i <= Len(left) THEN left[i] ELSE <<Separator>>[i - Len(left)]
    BY <1>3, <2>1, ConcatProperties
  <2>3. head[hi + 1] = <<Separator>>[1]
    BY <1>1, <1>3, <2>1, <2>2
  <2> HIDE DEF head
  <2>4. QED
    BY <1>1, <1>3, <2>1, <2>2, <2>3
<1> HIDE DEF head
<1>8. /\ most \in Seq(S) /\ Len(most) = hi + 1 + (hi - lo + 1)
      /\ \A i \in 1..hi + 1 : most[i] = head[i]
      /\ \A k \in 1..hi - lo + 1 : most[hi + 1 + k] = mid[k]
  <2>1. /\ most \in Seq(S) /\ Len(most) = Len(head) + Len(mid)
        /\ \A i \in 1..Len(head) + Len(mid)
             : most[i] = IF i <= Len(head) THEN head[i] ELSE mid[i - Len(head)]
    BY <1>4, <1>7, ConcatProperties
  <2> DEFINE p == hi + 1
             q == hi - lo + 1
  <2>2. p \in Nat /\ q \in Nat /\ Len(head) = p /\ Len(mid) = q
    BY <1>1, <1>4, <1>7
  <2> HIDE DEF most, p, q
  <2>3. /\ Len(most) = p + q
        /\ \A i \in 1..p + q : most[i] = IF i <= p THEN head[i] ELSE mid[i - p]
    BY <2>1, <2>2
  <2>4. ASSUME NEW i \in 1..p PROVE most[i] = head[i]
    BY <2>2, <2>3
  <2>5. ASSUME NEW k \in 1..q PROVE most[p + k] = mid[k]
    <3>1. p + k \in 1..p + q /\ ~ (p + k <= p) /\ (p + k) - p = k
      BY <2>2
    <3>2. QED
      BY <2>3, <3>1
  <2>6. QED
    BY <2>1, <2>3, <2>4, <2>5 DEF p, q
<1> HIDE DEF most
<1>9. /\ text \in Seq(S) /\ Len(text) = hi + 1 + (hi - lo + 1) + (n - hi)
      /\ \A i \in 1..hi + 1 + (hi - lo + 1) : text[i] = most[i]
      /\ \A k \in 1..n - hi : text[hi + 1 + (hi - lo + 1) + k] = right[k]
  <2>1. /\ text \in Seq(S) /\ Len(text) = Len(most) + Len(right)
        /\ \A i \in 1..Len(most) + Len(right)
             : text[i] = IF i <= Len(most) THEN most[i] ELSE right[i - Len(most)]
    BY <1>5, <1>8, ConcatProperties
  <2> DEFINE p == hi + 1 + (hi - lo + 1)
             q == n - hi
  <2>2. p \in Nat /\ q \in Nat
    BY <1>1
  <2>3. Len(most) = p /\ Len(right) = q
    BY <1>5, <1>8
  <2> HIDE DEF text, p, q
  <2>4. /\ Len(text) = p + q
        /\ \A i \in 1..p + q : text[i] = IF i <= p THEN most[i] ELSE right[i - p]
    BY <2>1, <2>3
  <2>5. ASSUME NEW i \in 1..p PROVE text[i] = most[i]
    BY <2>2, <2>4
  <2>6. ASSUME NEW k \in 1..q PROVE text[p + k] = right[k]
    <3>1. p + k \in 1..p + q /\ ~ (p + k <= p) /\ (p + k) - p = k
      BY <2>2
    <3>2. QED
      BY <2>4, <3>1
  <2>7. QED
    BY <2>1, <2>4, <2>5, <2>6 DEF p, q
<1> HIDE DEF text
<1>10. \A i \in 1..hi + 1 : text[i] = head[i]
  BY <1>1, <1>8, <1>9
<1>11. ASSUME NEW i \in lo..n
       PROVE  text[hi + 2 + i - lo] = FormatDateWithChunk(IF i =< hi THEN b ELSE a, chunks[i])
  <2>1. CASE i =< hi
    <3> DEFINE k == i - lo + 1
    <3>1. k \in 1..hi - lo + 1 /\ hi + 1 + k = hi + 2 + i - lo /\ lo + k - 1 = i
      BY <1>1, <2>1
    <3>2. hi + 1 + k \in 1..hi + 1 + (hi - lo + 1)
      BY <1>1, <3>1
    <3> HIDE DEF k
    <3>3. text[hi + 1 + k] = mid[k]
      BY <1>8, <1>9, <3>1, <3>2
    <3>4. QED
      BY <1>4, <2>1, <3>1, <3>3
  <2>2. CASE ~ (i =< hi)
    <3> DEFINE k == i - hi
    <3>1. /\ k \in 1..n - hi /\ hi + 1 + (hi - lo + 1) + k = hi + 2 + i - lo
          /\ hi + k = i
      BY <1>1, <2>2
    <3> HIDE DEF k
    <3>2. text[hi + 1 + (hi - lo + 1) + k] = right[k]
      BY <1>9, <3>1
    <3>3. QED
      BY <1>5, <2>2, <3>1, <3>2
  <2>3. QED
    BY <2>1, <2>2
<1>12. Len(text) = hi + 2 + n - lo /\ DOMAIN text = 1..Len(text)
  BY <1>1, <1>9
<1>13. text[hi + 1] = Separator /\ \A i \in 1..hi : text[i] = FormatDateWithChunk(a, chunks[i])
  BY <1>1, <1>7, <1>10
<1>14. QED
  BY <1>6, <1>11, <1>12, <1>13, Zenon DEF n, ShowsBoth

\* Where the days differ, both can be read off the text of the range.
LEMMA DifferentTells ==
  ASSUME NEW chunks \in Seq(Chunk), NEW a, NEW b, NEW unit \in Unit, Named(chunks, unit),
         NEW lo \in 1..Len(chunks), NEW hi \in lo..Len(chunks),
         \A i \in 1..Len(chunks) : ~ IsSimilar(a, b, chunks[i]) => lo =< i /\ i =< hi
  PROVE  Tells(Joined(a, b, chunks, lo, hi), a, b, unit)
<1> DEFINE n == Len(chunks)
           text == Joined(a, b, chunks, lo, hi)
           l == hi + 2 + n - lo
           day(i) == IF i =< hi THEN b ELSE a
<1>1. /\ Len(text) = l /\ DOMAIN text = 1..l
      /\ \A i \in 1..hi : text[i] = FormatDateWithChunk(a, chunks[i])
      /\ text[hi + 1] = Separator
      /\ \A i \in lo..n : text[hi + 2 + i - lo] = FormatDateWithChunk(day(i), chunks[i])
  <2>1. ShowsBoth(text, a, b, chunks, lo, hi)
    BY JoinedShows
  <2> HIDE DEF text
  <2>2. QED
    BY <2>1, Zenon DEF ShowsBoth
<1>2. /\ n \in Nat /\ lo \in Int /\ hi \in Int /\ 1 =< lo /\ lo =< hi /\ hi =< n
      /\ l \in Nat /\ \A i \in 1..n : chunks[i] \in Chunk
  OBVIOUS
<1>3. ASSUME NEW i \in 1..n, Names(chunks, i, unit), i < lo \/ hi < i
      PROVE  Field(a, unit) = Field(b, unit)
  <2>1. IsSimilar(a, b, chunks[i])
    BY <1>2, <1>3
  <2>2. QED
    BY <1>3, <2>1, SameShows DEF IsSimilar, Names
<1> HIDE DEF text
\* The two sides, piece by piece.
<1>4. \A i \in 1..hi : /\ text[i] # Separator
                       /\ text[i][1] = unit <=> Names(chunks, i, unit)
                       /\ text[i][1] = unit => text[i][2] = Field(a, unit)
  <2> TAKE i \in 1..hi
  <2>1. chunks[i] \in Chunk /\ text[i] = FormatDateWithChunk(a, chunks[i])
    BY <1>1, <1>2
  <2>2. QED
    BY <2>1, PieceShows DEF Names
<1>5. \A i \in lo..n : /\ text[hi + 2 + i - lo][1] = unit <=> Names(chunks, i, unit)
                       /\ text[hi + 2 + i - lo][1] = unit
                            => text[hi + 2 + i - lo][2] = Field(day(i), unit)
  <2> TAKE i \in lo..n
  <2> DEFINE piece == text[hi + 2 + i - lo]
             e == day(i)
  <2>1. chunks[i] \in Chunk
    BY <1>2
  <2>2. piece = FormatDateWithChunk(e, chunks[i])
    BY <1>1
  <2> HIDE DEF piece, e
  <2>3. /\ piece[1] = unit <=> Names(chunks, i, unit)
        /\ piece[1] = unit => piece[2] = Field(e, unit)
    BY <2>1, <2>2, PieceShows DEF Names
  <2>4. QED
    BY <2>3, Zenon DEF piece, e
<1>6. ASSUME NEW i \in lo..n, Names(chunks, i, unit) PROVE Field(day(i), unit) = Field(b, unit)
  BY <1>2, <1>3, <1>6
<1>7. Separator[1] # unit
  BY DEF Separator, Unit
<1>8. \A j \in hi + 2..l : j - hi - 2 + lo \in lo..n /\ hi + 2 + (j - hi - 2 + lo) - lo = j
  BY <1>2
<1>9. ASSUME NEW j \in 1..l, text[j][1] = unit
      PROVE  \/ j \in 1..hi /\ text[j][2] = Field(a, unit)
             \/ /\ j \in hi + 2..l /\ text[j][2] = Field(b, unit)
                /\ \E i \in lo..n : j = hi + 2 + i - lo /\ Names(chunks, i, unit)
  <2>1. CASE j \in 1..hi
    BY <1>4, <1>9, <2>1
  <2>2. CASE j \in hi + 2..l
    <3> DEFINE i == j - hi - 2 + lo
    <3>1. i \in lo..n /\ hi + 2 + i - lo = j
      BY <1>8, <2>2
    <3> HIDE DEF i
    <3>2. Names(chunks, i, unit) /\ text[j][2] = Field(day(i), unit)
      BY <1>5, <1>9, <3>1
    <3>3. text[j][2] = Field(b, unit)
      BY <1>6, <3>1, <3>2
    <3>4. QED
      BY <2>2, <3>1, <3>2, <3>3
  <2>3. j \in 1..hi \/ j \in hi + 2..l \/ j = hi + 1
    BY <1>2
  <2>4. QED
    BY <1>1, <1>7, <1>9, <2>1, <2>2, <2>3
<1> DEFINE k == SelectInSeq(text, LAMBDA p : p = Separator)
           before == SubSeq(text, 1, k - 1)
           after == SubSeq(text, k + 1, Len(text))
<1>10. k = hi + 1
  <2> DEFINE I == {i \in 1..Len(text) : text[i] = Separator}
  <2>1. hi + 1 \in I /\ \A i \in I : hi + 1 =< i
    BY <1>1, <1>2, <1>4
  <2>2. I # {} /\ Min(I) = hi + 1
    <3>1. \A i \in I : i \in Int
      OBVIOUS
    <3> HIDE DEF I
    <3>2. QED
      BY <1>2, <2>1, <3>1 DEF Min
  <2>3. QED
    BY <2>2, Zenon DEF SelectInSeq
<1> HIDE DEF k
<1>11. DOMAIN before = 1..hi /\ \A i \in 1..hi : before[i] = text[i]
  <2>1. k - 1 = hi /\ hi - 1 + 1 = hi /\ \A i \in 1..hi : 1 + i - 1 = i
    BY <1>2, <1>10
  <2>2. before = SubSeq(text, 1, hi)
    BY <2>1
  <2>3. QED
    BY <1>1, <1>2, <2>1, <2>2
<1>12. /\ DOMAIN after = 1..l - hi - 1
       /\ \A j \in 1..l - hi - 1 : after[j] = text[hi + 1 + j]
  <2>1. after = SubSeq(text, hi + 2, l)
    <3>1. k + 1 = hi + 2 /\ Len(text) = l
      BY <1>1, <1>2, <1>10
    <3>2. QED
      BY <3>1
  <2>2. /\ \A j \in 1..l - hi - 1 : hi + 2 + j - 1 = hi + 1 + j
        /\ hi + 2 \in Int /\ hi + 2 =< l /\ l - (hi + 2) + 1 = l - hi - 1 /\ l - hi - 1 \in Nat
    BY <1>2
  <2> HIDE DEF l
  <2> DEFINE T == {text[i] : i \in hi + 2..l}
             m == hi + 2
  <2>3. \A j \in m..l : text[j] \in T
    OBVIOUS
  <2>4. /\ Len(SubSeq(text, hi + 2, l)) = l - (hi + 2) + 1
        /\ SubSeq(text, hi + 2, l) \in Seq(T)
        /\ \A j \in 1..l - (hi + 2) + 1 : SubSeq(text, hi + 2, l)[j] = text[hi + 2 + j - 1]
    <3>1. m \in Int /\ l \in Int /\ m =< l
      BY <1>2, <2>2
    <3> HIDE DEF T, m
    <3>2. /\ Len(SubSeq(text, m, l)) = l - m + 1
          /\ SubSeq(text, m, l) \in Seq(T)
          /\ \A j \in 1..l - m + 1 : SubSeq(text, m, l)[j] = text[m + j - 1]
      BY <2>3, <3>1, SubSeqProperties
    <3>3. QED
      BY <3>2 DEF m
  <2>5. /\ Len(after) = l - hi - 1 /\ DOMAIN after = 1..Len(after)
        /\ \A j \in 1..l - hi - 1 : after[j] = text[hi + 2 + j - 1]
    <3> HIDE DEF after
    <3>1. QED
      BY <2>1, <2>2, <2>4
  <2> HIDE DEF after
  <2>6. QED
    BY <2>2, <2>5
<1> HIDE DEF before, after, l, n
\* What each side says, and the text as a whole.
<1>13. Said(before, unit) = {before[i][2] : i \in {j \in 1..hi : before[j][1] = unit}}
  BY <1>2, <1>11, SaysOf
<1>14. Said(text, unit) = {text[i][2] : i \in {j \in 1..l : text[j][1] = unit}}
  BY <1>1, <1>2, SaysOf
<1>15. l - hi - 1 \in Nat
  BY <1>2 DEF l
<1>16. Said(after, unit) = {after[i][2] : i \in {j \in 1..l - hi - 1 : after[j][1] = unit}}
  <2> DEFINE m == l - hi - 1
  <2>1. m \in Nat /\ DOMAIN after = 1..m
    BY <1>12, <1>15
  <2> HIDE DEF m
  <2>2. Said(after, unit) = {after[i][2] : i \in {j \in 1..m : after[j][1] = unit}}
    BY <2>1, SaysOf
  <2>3. QED
    BY <2>2 DEF m
<1>17. ReadFirst(text, unit) = {Field(a, unit)}
  <2>1. k > 0
    BY <1>2, <1>10
  <2>2. CASE Said(before, unit) # {}
    <3>1. ReadFirst(text, unit) = Said(before, unit)
      BY <2>1, <2>2, Zenon DEF ReadFirst, before, k
    <3>2. \A i \in 1..hi : before[i][1] = unit => before[i][2] = Field(a, unit)
      BY <1>4, <1>11
    <3>3. QED
      BY <1>13, <2>2, <3>1, <3>2
  <2>3. CASE Said(before, unit) = {}
    <3>1. ReadFirst(text, unit) = Said(text, unit)
      BY <2>3, Zenon DEF ReadFirst, before, k
    <3>2. \A i \in 1..hi : ~ Names(chunks, i, unit)
      <4>1. \A i \in 1..hi : before[i][1] # unit
        BY <1>13, <2>3
      <4>2. QED
        BY <1>4, <1>11, <4>1
    <3>3. PICK i \in 1..n : Names(chunks, i, unit)
      BY DEF Named, n
    <3>4. hi < i /\ i \in lo..n
      BY <1>2, <3>2, <3>3
    <3>5. Field(a, unit) = Field(b, unit)
      BY <1>3, <3>3, <3>4
    <3>6. \A j \in 1..l : text[j][1] = unit => text[j][2] = Field(a, unit)
      BY <1>9, <3>5
    <3>7. hi + 2 + i - lo \in 1..l /\ text[hi + 2 + i - lo][1] = unit
      BY <1>2, <1>5, <3>3, <3>4 DEF l
    <3>8. QED
      BY <1>14, <3>1, <3>6, <3>7
  <2>4. QED
    BY <2>2, <2>3
<1>18. ReadLast(text, unit) = {Field(b, unit)}
  <2>1. \A j \in 1..l - hi - 1 : hi + 1 + j \in 1..l /\ hi + 1 + j \notin 1..hi
    BY <1>2, <1>15
  <2>2. CASE Said(after, unit) # {}
    <3>1. ReadLast(text, unit) = Said(after, unit)
      BY <2>2, Zenon DEF ReadLast, after, k
    <3>2. \A j \in 1..l - hi - 1 : after[j][1] = unit => after[j][2] = Field(b, unit)
      BY <1>9, <1>12, <2>1
    <3>3. QED
      BY <1>16, <2>2, <3>1, <3>2
  <2>3. CASE Said(after, unit) = {}
    <3>1. ReadLast(text, unit) = Said(text, unit)
      BY <2>3, Zenon DEF ReadLast, after, k
    <3>2. ASSUME NEW i \in lo..n PROVE ~ Names(chunks, i, unit)
      <4> DEFINE j == i - lo + 1
      <4>1. j \in 1..l - hi - 1 /\ hi + 1 + j = hi + 2 + i - lo
        BY <1>2 DEF l
      <4> HIDE DEF j
      <4>2. after[j][1] # unit
        BY <1>16, <2>3, <4>1
      <4>3. after[j] = text[hi + 2 + i - lo]
        BY <1>12, <4>1
      <4>4. QED
        BY <1>5, <4>2, <4>3
    <3>3. PICK i \in 1..n : Names(chunks, i, unit)
      BY DEF Named, n
    <3>4. i < lo /\ i \in 1..hi
      BY <1>2, <3>2, <3>3
    <3>5. Field(a, unit) = Field(b, unit)
      BY <1>3, <3>3, <3>4
    <3>6. \A j \in 1..l : text[j][1] = unit => text[j][2] = Field(b, unit)
      BY <1>9, <3>5
    <3>7. i \in 1..l /\ text[i][1] = unit
      BY <1>2, <1>4, <3>3, <3>4 DEF l
    <3>8. QED
      BY <1>14, <3>1, <3>6, <3>7
  <2>4. QED
    BY <2>2, <2>3
<1>19. QED
  BY <1>17, <1>18 DEF text, Tells

\* The text of a range of days tells both days in each unit it names.
LEMMA RangeTells ==
  ASSUME NEW chunks \in Seq(Chunk), NEW a, NEW b, NEW unit \in Unit, Named(chunks, unit)
  PROVE  Tells(FormatRange(a, b, chunks), a, b, unit)
<1> DEFINE n == Len(chunks)
           differ == {i \in DOMAIN chunks : ~ IsSimilar(a, b, chunks[i])}
<1>1. n \in Nat /\ DOMAIN chunks = 1..n
  OBVIOUS
<1>2. CASE differ = {}
  <2>1. FormatRange(a, b, chunks) = FormatDateWithChunks(a, chunks)
    BY <1>2, Zenon DEF FormatRange
  <2>2. PICK i \in 1..n : Names(chunks, i, unit)
    BY DEF Named
  <2>3. IsSimilar(a, b, chunks[i])
    BY <1>1, <1>2, <2>2
  <2>4. Field(a, unit) = Field(b, unit)
    BY <2>2, <2>3, SameShows DEF IsSimilar, Names
  <2>5. Tells(FormatDateWithChunks(a, chunks), a, a, unit)
    BY PlainTells
  <2>6. QED
    BY <2>1, <2>4, <2>5 DEF Tells
<1>3. CASE differ # {}
  <2> DEFINE lo == Min(differ)
             hi == Max(differ)
  <2>1. /\ lo \in differ /\ \A i \in differ : lo =< i
        /\ hi \in differ /\ \A i \in differ : i =< hi
    <3>1. differ \in SUBSET (1..n) /\ 1 \in Int /\ n \in Int
      BY <1>1
    <3> HIDE DEF differ, n
    <3>2. QED
      BY <1>3, <3>1, Extremes, Zenon
  <2>2. FormatRange(a, b, chunks) = Joined(a, b, chunks, lo, hi)
    BY <1>3, Zenon DEF FormatRange, Joined
  <2> HIDE DEF lo, hi
  <2>3. lo \in 1..n /\ hi \in lo..n
    BY <1>1, <2>1
  <2>4. \A i \in 1..n : ~ IsSimilar(a, b, chunks[i]) => lo =< i /\ i =< hi
    BY <1>1, <2>1
  <2>5. Tells(Joined(a, b, chunks, lo, hi), a, b, unit)
    BY <2>3, <2>4, DifferentTells
  <2>6. QED
    BY <2>2, <2>5
<1>4. QED
  BY <1>2, <1>3

\* The titles of the header tell the first and the last day of the view.
LEMMA TitlesTell ==
  ASSUME window.name \in ViewName, title = TitleOf(window)
  PROVE  TitleTells
<1> DEFINE chunks == TitleFormat[window.name]
           first == IF window.name = "month" THEN window.intervalStart ELSE window.start
           last  == IF window.name = "agendaWeek" THEN window.end - 1 ELSE first
           units == {UnitOf[chunk] : chunk \in ToSet(chunks) \ {"literal"}}
<1>1. chunks \in Seq(Chunk)
  BY FormatAssumption DEF Chunk
<1>2. ASSUME NEW unit \in units PROVE unit \in Unit /\ Named(chunks, unit)
  <2>1. PICK chunk \in ToSet(chunks) \ {"literal"} : unit = UnitOf[chunk]
    BY <1>2
  <2>2. PICK i \in DOMAIN chunks : chunk = chunks[i]
    BY <2>1 DEF ToSet
  <2>3. i \in 1..Len(chunks) /\ chunks[i] \in Chunk
    BY <1>1, <2>2
  <2> HIDE DEF chunks
  <2>4. QED
    BY <2>1, <2>2, <2>3, UnitsAreUnits DEF Named, Names, Chunk
<1>3. ASSUME NEW unit \in units
      PROVE  Tells(title, first, last, unit)
  <2>1. CASE window.name = "agendaWeek"
    <3>1. title = FormatRange(first, last, chunks)
      BY <2>1 DEF TitleOf
    <3> HIDE DEF chunks, first, last, units
    <3>2. QED
      BY <1>1, <1>2, <1>3, <3>1, RangeTells
  <2>2. CASE window.name # "agendaWeek"
    <3>1. title = FormatDateWithChunks(first, chunks) /\ last = first
      BY <2>2 DEF TitleOf
    <3> HIDE DEF chunks, first, last, units
    <3>2. Tells(FormatDateWithChunks(first, chunks), first, first, unit)
      BY <1>1, <1>2, <1>3, PlainTells
    <3>3. QED
      BY <3>1, <3>2
  <2>3. QED
    BY <2>1, <2>2
<1>4. QED
  BY <1>3, Zenon DEF TitleTells, Tells

-----------------------------------------------------------------------------
(* The inductive invariant                                                  *)

\* What the calendar asked last, and what it still waits for, lost or not.
Question == Asked(range.start, range.end, machinesSelected)
Waiting == {r \in requests \cup lost : r.id = currentFetchID}

EntriesOf(found) == {f.entry : f \in found}

ManagedOK ==
  /\ range \in [start : Int, end : Int]
  /\ machinesSelected \subseteq Machine
  /\ currentFetchID \in Nat \ {0}
  /\ pendingSourceCnt \in Nat /\ loadingLevel \in Nat
  /\ cache \subseteq Event /\ events \subseteq Event
  /\ drawn \in BOOLEAN
  /\ requests \cup lost \subseteq
       [id : 1..currentFetchID, source : Source,
        question : [start : Int, end : Int, machines : SUBSET Machine]]
  /\ failed \subseteq Source

\* A request is on its way or lost; those the calendar waits for, one of a source
\* at most, are about what it asked last.
Sound ==
  /\ IsFiniteSet(requests \cup lost)
  /\ requests \cap lost = {}
  /\ \A r \in Waiting : r.question = Question /\ r.source \notin failed

\* The cache holds the replies of the sources that have answered without an error.
Filled ==
  EntriesOf(cache) =
    UNION {Reply(s, Question) : s \in Source \ (failed \cup {r.source : r \in Waiting})}

\* With nothing pending the cache and the calendar's events are one and the same.
Settled == pendingSourceCnt = 0 => drawn /\ events = cache

ManagedInv == ManagedOK /\ CountersExact /\ Sound /\ Filled /\ Settled

PageOK ==
  /\ date \in Dates
  /\ window.name \in ViewName /\ window = WindowOf(window.name, date)
  /\ todayDisabled \in BOOLEAN /\ unsaved \in BOOLEAN
  /\ selection \subseteq Machine
  /\ post = {} \/ \E sent \in SUBSET Machine : post = {sent}
  /\ queued \in Nat

\* A request that waits has one before it; the last one to leave carries the
\* selection of the screen; the calendar has the selection that arrived last.
Sent ==
  /\ post = {} => queued = 0 /\ (~ unsaved => machinesSelected = selection)
  /\ queued = 0 => post \subseteq {selection}

\* Every request for a selection has a fetch in reserve.
Budget == currentFetchID + queued + Cardinality(post) =< MaxFetches

PageInv == PageOK /\ Sent /\ Budget

IInv == ManagedInv /\ PageInv

-----------------------------------------------------------------------------
(* What the event manager does                                              *)

\* Two requests of a fetch are two.
LEMMA TwoIsTwo ==
  ASSUME NEW a, NEW b, a # b
  PROVE  IsFiniteSet({a, b}) /\ Cardinality({a, b}) = 2
<1>1. IsFiniteSet({a}) /\ Cardinality({a}) = 1
  BY FS_Singleton
<1>2. IsFiniteSet({a} \cup {b}) /\ Cardinality({a} \cup {b}) = 2
  BY <1>1, FS_AddElement
<1>3. {a, b} = {a} \cup {b}
  OBVIOUS
<1>4. QED
  BY <1>2, <1>3

LEMMA SourcesAreTwo == Cardinality(Source) = 2
  BY TwoIsTwo DEF Source

\* Entries a source replies with, and the events built of them.
LEMMA ReplyType ==
  ASSUME NEW s \in Source, NEW q
  PROVE  /\ Reply(s, q) \subseteq Entry
         /\ BuildEvents(Reply(s, q)) \subseteq Event
         /\ EntriesOf(BuildEvents(Reply(s, q))) = Reply(s, q)
<1>1. Reply(s, q) \subseteq Entry
  BY DEF Reply, GoogleFeed, FindReservations, Entry
<1>2. BuildEvents(Reply(s, q)) \subseteq Event
  <2>1. \A e \in Entry : [entry |-> e, moved |-> FALSE] \in Event
    BY Zenon DEF Event
  <2>2. QED
    BY <1>1, <2>1, Zenon DEF BuildEvents
<1>3. ASSUME NEW found PROVE EntriesOf(BuildEvents(found)) = found
  <2>1. \A e \in found : [entry |-> e, moved |-> FALSE] \in BuildEvents(found)
    BY DEF BuildEvents
  <2>2. \A f \in BuildEvents(found) : f.entry \in found
    BY DEF BuildEvents
  <2>3. \A e \in found : \E f \in BuildEvents(found) : f.entry = e
    BY <2>1
  <2>4. QED
    BY <2>2, <2>3, Zenon DEF EntriesOf
<1>4. QED
  BY <1>1, <1>2, <1>3

\* What a fetch leaves behind, whatever it was before.
LEMMA FetchKeeps ==
  ASSUME ManagedInv, NEW start \in Int, NEW end \in Int,
         machinesSelected' \subseteq Machine,
         FetchAndRender(start, end, machinesSelected')
  PROVE  ManagedInv'
<1> DEFINE asked(s) == [id |-> currentFetchID + 1, source |-> s,
                        question |-> Asked(start, end, machinesSelected')]
           new == {asked("reservations"), asked("google")}
<1> USE DEF FetchAndRender, FetchEvents
<1>1. requests' = requests \cup new /\ lost' = lost
  BY DEF Source
<1>2. asked("reservations") # asked("google")
  OBVIOUS
<1>3. IsFiniteSet(new) /\ Cardinality(new) = 2
  BY <1>2, TwoIsTwo
<1>4. \A r \in requests \cup lost : r.id \in 1..currentFetchID
  BY DEF ManagedInv, ManagedOK
<1>5. currentFetchID \in Nat /\ currentFetchID' = currentFetchID + 1
  BY DEF ManagedInv, ManagedOK
<1>6. \A r \in new : r.id = currentFetchID'
  BY <1>5
<1>7. new \cap (requests \cup lost) = {}
  BY <1>4, <1>5, <1>6
<1>8. Waiting' = new
  BY <1>1, <1>4, <1>5, <1>6 DEF Waiting
<1>9. ManagedOK'
  <2>1. new \subseteq [id : 1..currentFetchID', source : Source,
          question : [start : Int, end : Int, machines : SUBSET Machine]]
    BY <1>5 DEF Source, Asked
  <2>2. 1..currentFetchID \subseteq 1..currentFetchID'
    BY <1>5
  <2>3. requests \cup lost \subseteq [id : 1..currentFetchID', source : Source,
          question : [start : Int, end : Int, machines : SUBSET Machine]]
    BY <2>2 DEF ManagedInv, ManagedOK
  <2>4. (requests \cup lost)' \subseteq [id : 1..currentFetchID', source : Source,
          question : [start : Int, end : Int, machines : SUBSET Machine]]
    BY <1>1, <2>1, <2>3
  <2>5. pendingSourceCnt' \in Nat /\ loadingLevel' \in Nat
    BY SourcesAreTwo DEF ManagedInv, ManagedOK
  <2>6. range' \in [start : Int, end : Int]
    OBVIOUS
  <2>7. cache' \subseteq Event /\ events' \subseteq Event /\ failed' \subseteq Source
    BY DEF ManagedInv, ManagedOK
  <2>8. drawn' \in BOOLEAN /\ machinesSelected' \subseteq Machine
    BY Zenon
  <2>9. currentFetchID' \in Nat \ {0}
    BY <1>5
  <2>10. QED
    BY <2>4, <2>5, <2>6, <2>7, <2>8, <2>9, Zenon DEF ManagedOK
<1>10. CountersExact'
  <2>1. pendingSourceCnt' = Cardinality(Waiting')
    BY <1>3, <1>8, SourcesAreTwo
  <2>2. (requests \cup lost)' = (requests \cup lost) \cup new
    BY <1>1
  <2>3. Cardinality((requests \cup lost)') = Cardinality(requests \cup lost) + 2
    <3>1. IsFiniteSet(requests \cup lost)
      BY DEF ManagedInv, Sound
    <3>2. (requests \cup lost) \cap new = {}
      BY <1>7
    <3>3. Cardinality(requests \cup lost) \in Nat
      BY <3>1, FS_CardinalityType
    <3>4. Cardinality((requests \cup lost) \cup new)
            = Cardinality(requests \cup lost) + 2 - Cardinality({})
      BY <1>3, <3>1, <3>2, FS_Union
    <3>5. Cardinality({}) = 0
      BY FS_EmptySet
    <3>6. Cardinality((requests \cup lost)') = Cardinality((requests \cup lost) \cup new)
      BY <2>2, Zenon
    <3> HIDE DEF new
    <3>7. QED
      BY <3>3, <3>4, <3>5, <3>6
  <2>4. QED
    BY <2>1, <2>3, SourcesAreTwo DEF CountersExact, Waiting, ManagedInv
<1>11. Sound'
  <2>1. IsFiniteSet((requests \cup lost)')
    <3>1. IsFiniteSet(requests \cup lost)
      BY DEF ManagedInv, Sound
    <3>2. IsFiniteSet((requests \cup lost) \cup new)
      BY <1>3, <3>1, FS_Union
    <3>3. (requests \cup lost)' = (requests \cup lost) \cup new
      BY <1>1
    <3>4. QED
      BY <3>2, <3>3
  <2>2. (requests \cap lost)' = {}
    BY <1>1, <1>7 DEF ManagedInv, Sound
  <2>3. \A r \in new : r.question = Question'
    BY DEF Question, Asked
  <2>4. QED
    BY <1>8, <2>1, <2>2, <2>3 DEF Sound
<1>12. Filled'
  <2>1. {r.source : r \in new} = Source
    BY DEF Source
  <2>2. EntriesOf(cache') = {}
    BY DEF EntriesOf
  <2>3. QED
    BY <1>8, <2>1, <2>2 DEF Filled
<1>13. Settled'
  BY SourcesAreTwo DEF Settled
<1>14. QED
  BY <1>9, <1>10, <1>11, <1>12, <1>13 DEF ManagedInv

\* The end of a request, with an answer or with an error.
LEMMA DeliverKeeps ==
  ASSUME ManagedInv, NEW r \in requests, NEW found \in SUBSET Event, Deliver(r, found),
         machinesSelected' = machinesSelected,
         \/ EntriesOf(found) = Reply(r.source, r.question) /\ failed' = failed
         \/ /\ EntriesOf(found) = {}
            /\ failed' = IF r.id = currentFetchID THEN failed \cup {r.source} ELSE failed
  PROVE  ManagedInv'
<1> DEFINE all == requests \cup lost
           fetch == [id : 1..currentFetchID, source : Source,
                     question : [start : Int, end : Int, machines : SUBSET Machine]]
<1>1. /\ requests' = requests \ {r} /\ loadingLevel' = loadingLevel - 1
      /\ range' = range /\ currentFetchID' = currentFetchID /\ lost' = lost
  BY DEF Deliver
<1>2. r \in all /\ IsFiniteSet(all) /\ requests \cap lost = {} /\ all \subseteq fetch
  BY DEF ManagedInv, ManagedOK, Sound
<1>3. (requests \cup lost)' = all \ {r} /\ (requests \cap lost)' = {}
  BY <1>1, <1>2
<1>4. IsFiniteSet(all \ {r}) /\ Cardinality(all \ {r}) = Cardinality(all) - 1
  BY <1>2, FS_RemoveElement
<1>5. loadingLevel' = Cardinality(all \ {r}) /\ loadingLevel' \in Nat
  <2>1. Cardinality(all \ {r}) \in Nat
    BY <1>4, FS_CardinalityType
  <2>2. loadingLevel = Cardinality(all)
    BY DEF ManagedInv, CountersExact
  <2> HIDE DEF all
  <2>3. QED
    BY <1>1, <1>4, <2>1, <2>2
<1>6. Question' = Question
  BY <1>1 DEF Question, Asked
<1>7. Waiting' = Waiting \ {r}
  BY <1>1, <1>2 DEF Waiting
<1>8. r.source \in Source
  BY <1>2
<1>9. CASE r.id = currentFetchID
  <2>1. /\ cache' = cache \cup found /\ pendingSourceCnt' = pendingSourceCnt - 1
        /\ IF pendingSourceCnt = 1 THEN Report(cache') ELSE UNCHANGED <<events, drawn>>
    BY <1>9 DEF Deliver
  <2>2. r \in Waiting /\ r.question = Question /\ r.source \notin failed
    BY <1>9 DEF Waiting, ManagedInv, Sound
  <2>3. IsFiniteSet(Waiting)
    BY <1>2, FS_Subset DEF Waiting
  <2>4. Cardinality(Waiting \ {r}) = Cardinality(Waiting) - 1 /\ IsFiniteSet(Waiting \ {r})
    BY <2>2, <2>3, FS_RemoveElement
  <2>5. pendingSourceCnt' = Cardinality(Waiting') /\ pendingSourceCnt' \in Nat
    <3>1. Cardinality(Waiting \ {r}) \in Nat
      BY <2>4, FS_CardinalityType
    <3>2. pendingSourceCnt = Cardinality(Waiting)
      BY DEF ManagedInv, CountersExact, Waiting
    <3>3. Cardinality(Waiting') = Cardinality(Waiting \ {r})
      BY <1>7, Zenon
    <3>4. QED
      BY <2>1, <2>4, <3>1, <3>2, <3>3
  <2>6. \A q \in Waiting \ {r} : q.source # r.source
    <3>1. SUFFICES ASSUME NEW q \in Waiting, q.source = r.source PROVE q = r
      OBVIOUS
    <3>2. q \in fetch /\ r \in fetch
      BY <1>2 DEF Waiting
    <3>3. q.id = r.id /\ q.question = r.question
      BY <1>9, <2>2 DEF Waiting, ManagedInv, Sound
    <3>4. QED
      BY <3>1, <3>2, <3>3
  <2>7. {q.source : q \in Waiting'} = {q.source : q \in Waiting} \ {r.source}
    BY <1>7, <2>2, <2>6
  <2>8. failed' \subseteq Source /\ failed' \subseteq failed \cup {r.source}
    BY <1>8 DEF ManagedInv, ManagedOK
  <2>9. EntriesOf(cache') = EntriesOf(cache) \cup EntriesOf(found)
    BY <2>1 DEF EntriesOf
  <2>10. Filled'
    <3> DEFINE heard == Source \ (failed \cup {q.source : q \in Waiting})
               heardNow == Source \ (failed' \cup {q.source : q \in Waiting'})
    <3>1. EntriesOf(cache) = UNION {Reply(s, Question) : s \in heard}
      BY DEF ManagedInv, Filled
    <3>2. CASE EntriesOf(found) = Reply(r.source, r.question) /\ failed' = failed
      <4>1. heardNow = heard \cup {r.source}
        BY <1>8, <2>2, <2>7, <3>2
      <4> HIDE DEF heard, heardNow
      <4>2. UNION {Reply(s, Question) : s \in heardNow}
              = (UNION {Reply(s, Question) : s \in heard}) \cup Reply(r.source, Question)
        BY <4>1
      <4>3. EntriesOf(cache') = UNION {Reply(s, Question) : s \in heardNow}
        BY <2>2, <2>9, <3>1, <3>2, <4>2
      <4>4. QED
        BY <1>6, <4>3 DEF Filled, heardNow
    <3>3. CASE EntriesOf(found) = {} /\ failed' = failed \cup {r.source}
      <4>1. heardNow = heard
        BY <2>2, <2>7, <3>3
      <4> HIDE DEF heard, heardNow
      <4>2. EntriesOf(cache') = UNION {Reply(s, Question) : s \in heardNow}
        BY <2>9, <3>1, <3>3, <4>1
      <4>3. QED
        BY <1>6, <4>2 DEF Filled, heardNow
    <3>4. QED
      BY <1>9, <3>2, <3>3
  <2>11. Settled'
    <3>1. pendingSourceCnt \in Nat
      BY DEF ManagedInv, ManagedOK
    <3>2. QED
      BY <2>1, <3>1 DEF Settled, Report
  <2>12. Sound'
    <3>1. ASSUME NEW q \in Waiting' PROVE q.question = Question' /\ q.source \notin failed'
      BY <1>6, <1>7, <2>6, <2>8 DEF ManagedInv, Sound
    <3>2. QED
      BY <1>3, <1>4, <3>1 DEF Sound
  <2>13. CountersExact'
    BY <1>3, <1>5, <2>5 DEF CountersExact, Waiting
  <2>14. ManagedOK'
    <3>1. cache' \subseteq Event /\ events' \subseteq Event
      BY <2>1 DEF ManagedInv, ManagedOK, Report
    <3>2. drawn' \in BOOLEAN
      BY <2>1, Zenon DEF ManagedInv, ManagedOK, Report
    <3>3. (requests \cup lost)' \subseteq fetch
      BY <1>2, <1>3
    <3>4. QED
      BY <1>1, <1>5, <2>5, <2>8, <3>1, <3>2, <3>3, Zenon DEF ManagedInv, ManagedOK
  <2>15. QED
    BY <2>10, <2>11, <2>12, <2>13, <2>14 DEF ManagedInv
<1>10. CASE r.id # currentFetchID
  <2>1. UNCHANGED <<cache, pendingSourceCnt, events, drawn, failed>>
    BY <1>10 DEF Deliver
  <2>2. Waiting' = Waiting
    BY <1>7, <1>10 DEF Waiting
  <2>3. ManagedOK'
    BY <1>1, <1>2, <1>3, <1>5, <2>1 DEF ManagedInv, ManagedOK
  <2>4. CountersExact'
    BY <1>3, <1>5, <2>1, <2>2 DEF ManagedInv, CountersExact, Waiting
  <2>5. Sound'
    BY <1>3, <1>4, <1>6, <2>1, <2>2 DEF ManagedInv, Sound
  <2>6. Filled'
    BY <1>6, <2>1, <2>2 DEF ManagedInv, Filled
  <2>7. Settled'
    BY <2>1 DEF ManagedInv, Settled
  <2>8. QED
    BY <2>3, <2>4, <2>5, <2>6, <2>7 DEF ManagedInv
<1>11. QED
  BY <1>9, <1>10

LEMMA AnswerKeeps ==
  ASSUME ManagedInv, NEW r \in requests, Answer(r) \/ AnswerError(r),
         machinesSelected' = machinesSelected
  PROVE  ManagedInv'
<1>1. r.source \in Source
  BY DEF ManagedInv, ManagedOK
<1>2. CASE Answer(r)
  <2>1. /\ BuildEvents(Reply(r.source, r.question)) \subseteq Event
        /\ EntriesOf(BuildEvents(Reply(r.source, r.question))) = Reply(r.source, r.question)
    BY <1>1, ReplyType
  <2>2. Deliver(r, BuildEvents(Reply(r.source, r.question))) /\ failed' = failed
    BY <1>2 DEF Answer
  <2>3. QED
    BY <2>1, <2>2, DeliverKeeps
<1>3. CASE AnswerError(r)
  <2>1. Deliver(r, {})
    BY <1>3 DEF AnswerError
  <2>2. failed' = IF r.id = currentFetchID THEN failed \cup {r.source} ELSE failed
    BY <1>3 DEF AnswerError
  <2>3. EntriesOf({}) = {}
    BY DEF EntriesOf
  <2>4. QED
    BY <2>1, <2>2, <2>3, DeliverKeeps
<1>4. QED
  BY <1>2, <1>3

\* A lost request stays one the calendar waits for.
LEMMA LoseKeeps ==
  ASSUME ManagedInv, NEW r \in requests, Lose(r), machinesSelected' = machinesSelected
  PROVE  ManagedInv'
<1>1. /\ requests' = requests \ {r} /\ lost' = lost \cup {r}
      /\ UNCHANGED <<range, currentFetchID, failed, pendingSourceCnt, loadingLevel,
                     cache, events, drawn>>
  BY DEF Lose
<1>2. (requests \cup lost)' = requests \cup lost /\ (requests \cap lost)' = {}
  BY <1>1 DEF ManagedInv, Sound
<1>3. Waiting' = Waiting /\ Question' = Question
  BY <1>1, <1>2 DEF Waiting, Question, Asked
<1>4. ManagedOK'
  BY <1>1, <1>2 DEF ManagedInv, ManagedOK
<1>5. CountersExact'
  BY <1>1, <1>2, <1>3 DEF ManagedInv, CountersExact, Waiting
<1>6. Sound'
  BY <1>1, <1>2, <1>3 DEF ManagedInv, Sound
<1>7. Filled' /\ Settled'
  BY <1>1, <1>3 DEF ManagedInv, Filled, Settled
<1>8. QED
  BY <1>4, <1>5, <1>6, <1>7 DEF ManagedInv

\* A gesture moves an event, and leaves which entries the cache has events of.
LEMMA MovedKeeps ==
  ASSUME NEW found \in SUBSET Event, NEW e
  PROVE  Moved(found, e) \subseteq Event /\ EntriesOf(Moved(found, e)) = EntriesOf(found)
<1> DEFINE moved(f) == IF f.entry = e THEN [f EXCEPT !.moved = TRUE] ELSE f
<1>1. ASSUME NEW f \in found PROVE moved(f) \in Event /\ moved(f).entry = f.entry
  <2>1. f \in Event
    OBVIOUS
  <2>2. /\ [f EXCEPT !.moved = TRUE] \in Event
        /\ [f EXCEPT !.moved = TRUE].entry = f.entry
    BY <2>1 DEF Event
  <2>3. QED
    BY <2>1, <2>2
<1>2. Moved(found, e) = {moved(f) : f \in found}
  BY DEF Moved
<1> HIDE DEF moved
<1>3. EntriesOf(Moved(found, e)) = {moved(f).entry : f \in found}
  BY <1>2 DEF EntriesOf
<1>4. QED
  BY <1>1, <1>2, <1>3 DEF EntriesOf

LEMMA EditKeeps ==
  ASSUME ManagedInv, NEW e, Edit(e), machinesSelected' = machinesSelected
  PROVE  ManagedInv' /\ EntriesOf(cache') = EntriesOf(cache)
<1>1. /\ cache' = Moved(cache, e) /\ drawn' = TRUE
      /\ events' = IF pendingSourceCnt = 0 THEN cache' ELSE events
      /\ UNCHANGED <<range, currentFetchID, requests, lost, failed, pendingSourceCnt,
                     loadingLevel>>
  BY DEF Edit, fetching
<1>2. cache' \subseteq Event /\ EntriesOf(cache') = EntriesOf(cache)
  BY <1>1, MovedKeeps DEF ManagedInv, ManagedOK
<1>3. Waiting' = Waiting /\ Question' = Question
  BY <1>1 DEF Waiting, Question, Asked
<1>4. ManagedOK'
  BY <1>1, <1>2 DEF ManagedInv, ManagedOK
<1>5. CountersExact' /\ Sound'
  BY <1>1, <1>3 DEF ManagedInv, CountersExact, Sound
<1>6. Filled'
  BY <1>1, <1>2, <1>3 DEF ManagedInv, Filled
<1>7. Settled'
  BY <1>1 DEF ManagedInv, Settled
<1>8. QED
  BY <1>2, <1>4, <1>5, <1>6, <1>7 DEF ManagedInv

LEMMA RerenderKeeps ==
  ASSUME ManagedInv, Rerender, machinesSelected' = machinesSelected
  PROVE  ManagedInv'
<1>1. /\ drawn' = TRUE
      /\ UNCHANGED <<range, currentFetchID, requests, lost, failed, pendingSourceCnt,
                     loadingLevel, cache, events>>
  BY DEF Rerender, fetching
<1>2. Waiting' = Waiting /\ Question' = Question
  BY <1>1 DEF Waiting, Question, Asked
<1>3. ManagedOK'
  BY <1>1 DEF ManagedInv, ManagedOK
<1>4. CountersExact' /\ Sound' /\ Filled' /\ Settled'
  BY <1>1, <1>2 DEF ManagedInv, CountersExact, Sound, Filled, Settled
<1>5. QED
  BY <1>3, <1>4 DEF ManagedInv

LEMMA ManagedStutter ==
  ASSUME ManagedInv, UNCHANGED <<managed, machinesSelected>>
  PROVE  ManagedInv'
<1>1. UNCHANGED <<range, currentFetchID, requests, lost, failed, pendingSourceCnt,
                  loadingLevel, cache, events, drawn>>
  BY DEF managed, fetching
<1>2. Waiting' = Waiting /\ Question' = Question
  BY <1>1 DEF Waiting, Question, Asked
<1>3. ManagedOK'
  BY <1>1 DEF ManagedInv, ManagedOK
<1>4. CountersExact' /\ Sound' /\ Filled' /\ Settled'
  BY <1>1, <1>2 DEF ManagedInv, CountersExact, Sound, Filled, Settled
<1>5. QED
  BY <1>3, <1>4 DEF ManagedInv

-----------------------------------------------------------------------------
(* What the page does                                                       *)

Fetches ==
  /\ machinesSelected' \subseteq Machine
  /\ \E start, end \in Int : FetchAndRender(start, end, machinesSelected')

Ends(r) == Answer(r) \/ AnswerError(r)

\* The steps, as the event manager sees them: it asks, or with the same machines
\* draws, hears of a request, changes an event or takes no part.
LEMMA ManagedSteps ==
  ASSUME PageInv, ManagedInv, [Next]_vars
  PROVE  \/ Fetches
         \/ /\ machinesSelected' = machinesSelected
            /\ \/ Rerender
               \/ \E r \in requests : Ends(r) \/ Lose(r)
               \/ \E e : Edit(e)
               \/ UNCHANGED managed
<1>1. ASSUME NEW name \in ViewName, NEW d, RenderView(name, d)
      PROVE  Fetches \/ (machinesSelected' = machinesSelected /\ Rerender)
  <2>1. d \in Dates /\ window' = WindowOf(name, d) /\ machinesSelected' = machinesSelected
    BY <1>1 DEF RenderView, selecting
  <2>2. window'.start \in Int /\ window'.end \in Int
    BY <2>1, WindowIsDays
  <2>3. machinesSelected \subseteq Machine
    BY DEF ManagedInv, ManagedOK
  <2>4. CASE FetchAndRender(window'.start, window'.end, machinesSelected)
    BY <2>1, <2>2, <2>3, <2>4 DEF Fetches
  <2>5. CASE Rerender
    BY <2>1, <2>5
  <2>6. QED
    BY <1>1, <2>4, <2>5 DEF RenderView, GetAndRenderEvents
<1>2. window.name \in ViewName /\ window.start \in Int /\ window.end \in Int
  <2>1. date \in Dates /\ window.name \in ViewName /\ window = WindowOf(window.name, date)
    BY DEF PageInv, PageOK
  <2>2. WindowOf(window.name, date).start \in Int /\ WindowOf(window.name, date).end \in Int
    BY <2>1, WindowIsDays
  <2>3. QED
    BY <2>1, <2>2
<1>3. ASSUME NEW inc \in {-1, 1}, Move(inc)
      PROVE  Fetches \/ (machinesSelected' = machinesSelected /\ Rerender)
  BY <1>1, <1>2, <1>3 DEF Move
<1>4. ASSUME NEW name \in ViewName, ChangeView(name)
      PROVE  Fetches \/ (machinesSelected' = machinesSelected /\ Rerender)
  BY <1>1, <1>4 DEF ChangeView
<1>5. CASE ClickToday
  BY <1>1, <1>2, <1>5 DEF ClickToday
<1>6. CASE WindowResize
  BY <1>6 DEF WindowResize, selecting
<1>7. ASSUME NEW m \in Machine, Toggle(m)
      PROVE  machinesSelected' = machinesSelected /\ UNCHANGED managed
  BY <1>7 DEF Toggle
<1>8. CASE Posted
  <2>1. machinesSelected' \subseteq Machine
    BY <1>8 DEF Posted, PageInv, PageOK
  <2>2. FetchAndRender(window.start, window.end, machinesSelected')
    BY <1>8 DEF Posted, UpdateCalendar
  <2>3. QED
    BY <1>2, <2>1, <2>2 DEF Fetches
<1>9. CASE PostFailed
  <2>1. machinesSelected' \subseteq Machine
    BY <1>9 DEF PostFailed, ManagedInv, ManagedOK
  <2>2. FetchAndRender(window.start, window.end, machinesSelected')
    BY <1>9 DEF PostFailed, UpdateCalendar
  <2>3. QED
    BY <1>2, <2>1, <2>2 DEF Fetches
<1>10. CASE AnswerStep
  BY <1>10 DEF AnswerStep, Ends, selecting
<1>11. CASE LoseStep
  BY <1>11 DEF LoseStep, selecting
<1>12. CASE EditStep
  BY <1>12 DEF EditStep, selecting
<1>13. CASE UNCHANGED vars
  BY <1>13 DEF vars, selecting
<1>14. QED
  BY <1>3, <1>4, <1>5, <1>6, <1>7, <1>8, <1>9, <1>10, <1>11, <1>12, <1>13 DEF Next

LEMMA ManagedPreserved ==
  ASSUME PageInv, ManagedInv, [Next]_vars
  PROVE  ManagedInv'
<1>1. CASE Fetches
  BY <1>1, FetchKeeps DEF Fetches
<1>2. CASE machinesSelected' = machinesSelected /\ Rerender
  BY <1>2, RerenderKeeps
<1>3. ASSUME NEW r \in requests, machinesSelected' = machinesSelected, Ends(r)
      PROVE  ManagedInv'
  BY <1>3, AnswerKeeps DEF Ends
<1>4. ASSUME NEW r \in requests, machinesSelected' = machinesSelected, Lose(r)
      PROVE  ManagedInv'
  BY <1>4, LoseKeeps
<1>5. ASSUME NEW e, machinesSelected' = machinesSelected, Edit(e)
      PROVE  ManagedInv'
  BY <1>5, EditKeeps
<1>6. CASE machinesSelected' = machinesSelected /\ UNCHANGED managed
  BY <1>6, ManagedStutter
<1>7. QED
  BY <1>1, <1>2, <1>3, <1>4, <1>5, <1>6, ManagedSteps

\* A set of one request for a selection, or none.
LEMMA PostCounts ==
  ASSUME PageOK
  PROVE  Cardinality(post) = IF post = {} THEN 0 ELSE 1
<1>1. CASE post = {}
  BY <1>1, FS_EmptySet
<1>2. CASE post # {}
  <2>1. PICK sent \in SUBSET Machine : post = {sent}
    BY <1>2 DEF PageOK
  <2>2. QED
    BY <1>2, <2>1, FS_Singleton
<1>3. QED
  BY <1>1, <1>2

\* The end of a request for a selection and the fetch it starts.
LEMMA SendKeeps ==
  ASSUME ManagedInv, PageInv, post # {}, SendNext, UpdateCalendar,
         UNCHANGED <<selection, navigation>>, unsaved' \in BOOLEAN,
         \/ (\E sent \in post : machinesSelected' = sent) /\ unsaved' = FALSE
         \/ unsaved' = TRUE
  PROVE  PageInv'
<1>1. currentFetchID \in Nat /\ currentFetchID' = currentFetchID + 1
  BY DEF UpdateCalendar, FetchAndRender, FetchEvents, ManagedInv, ManagedOK
<1>2. queued \in Nat /\ selection \in SUBSET Machine /\ Cardinality(post) = 1
  BY PostCounts DEF PageInv, PageOK
<1>3. CASE queued = 0
  <2>1. post' = {} /\ queued' = 0
    BY <1>3 DEF SendNext
  <2>2. PageOK'
    BY <2>1 DEF PageInv, PageOK, navigation
  <2>3. unsaved' = FALSE => machinesSelected' = selection'
    BY <1>3 DEF PageInv, Sent
  <2>4. Sent'
    BY <2>1, <2>3 DEF Sent
  <2>5. Budget'
    BY <1>1, <1>2, <1>3, <2>1, <2>2, PostCounts, FS_EmptySet, CalendarAssumption
    DEF PageInv, Budget
  <2>6. QED
    BY <2>2, <2>4, <2>5 DEF PageInv
<1>4. CASE queued > 0
  <2>1. post' = {selection} /\ queued' = queued - 1
    BY <1>2, <1>4 DEF SendNext
  <2>2. PageOK'
    BY <1>2, <1>4, <2>1 DEF PageInv, PageOK, navigation
  <2>3. Sent'
    BY <2>1 DEF Sent
  <2>4. Cardinality(post') = 1
    BY <2>1, FS_Singleton
  <2>5. Budget'
    BY <1>1, <1>2, <1>4, <2>1, <2>4, CalendarAssumption DEF PageInv, Budget
  <2>6. QED
    BY <2>2, <2>3, <2>5 DEF PageInv
<1>5. QED
  BY <1>2, <1>3, <1>4

\* A view that has moved is about the new date, and has spent a fetch at most.
LEMMA ViewKeeps ==
  ASSUME ManagedInv, PageInv, NEW name \in ViewName, NEW d, RenderView(name, d)
  PROVE  PageInv'
<1>1. /\ d \in Dates /\ date' = d /\ window' = WindowOf(name, d)
      /\ UNCHANGED <<selection, post, queued, machinesSelected, unsaved>>
  BY DEF RenderView, selecting
<1>2. todayDisabled' \in BOOLEAN
  BY Zenon DEF RenderView, UpdateTodayButton, IsWithin
<1>3. window'.name = name
  BY <1>1, WindowIsNamed
<1>4. PageOK'
  BY <1>1, <1>2, <1>3 DEF PageInv, PageOK
<1>5. Sent'
  BY <1>1 DEF PageInv, Sent
<1>6. currentFetchID \in Nat /\ queued \in Nat /\ Cardinality(post) \in Nat
  BY PostCounts DEF ManagedInv, ManagedOK, PageInv, PageOK
<1>7. \/ FetchesLeft > 0 /\ currentFetchID' = currentFetchID + 1
      \/ currentFetchID' = currentFetchID
  BY DEF RenderView, GetAndRenderEvents, FetchAndRender, FetchEvents, Rerender, fetching
<1>8. Budget'
  BY <1>1, <1>6, <1>7, CalendarAssumption DEF PageInv, Budget, FetchesLeft
<1>9. QED
  BY <1>4, <1>5, <1>8 DEF PageInv

LEMMA ToggleKeeps ==
  ASSUME ManagedInv, PageInv, NEW m \in Machine, Toggle(m)
  PROVE  PageInv'
<1>1. /\ selection' \in SUBSET Machine /\ FetchesLeft > 0
      /\ UNCHANGED <<machinesSelected, unsaved, date, window, todayDisabled, currentFetchID>>
  BY DEF Toggle, navigation, managed, fetching, PageInv, PageOK
<1>2. queued \in Nat /\ currentFetchID \in Nat
  BY DEF ManagedInv, ManagedOK, PageInv, PageOK
<1>3. CASE post = {} /\ post' = {selection'} /\ queued' = queued
  <2>1. PageOK' /\ Sent'
    BY <1>1, <1>3 DEF PageInv, PageOK, Sent
  <2>2. Cardinality(post) = 0 /\ Cardinality(post') = 1
    BY <1>3, FS_EmptySet, FS_Singleton
  <2>3. Budget'
    BY <1>1, <1>2, <1>3, <2>2, CalendarAssumption DEF Budget, FetchesLeft
  <2>4. QED
    BY <2>1, <2>3 DEF PageInv
<1>4. CASE post # {} /\ queued' = queued + 1 /\ post' = post
  <2>1. PageOK' /\ Sent'
    BY <1>1, <1>2, <1>4 DEF PageInv, PageOK, Sent
  <2>2. Cardinality(post) = 1
    BY <1>4, PostCounts DEF PageInv
  <2>3. Budget'
    BY <1>1, <1>2, <1>4, <2>2, CalendarAssumption DEF Budget, FetchesLeft
  <2>4. QED
    BY <2>1, <2>3 DEF PageInv
<1>5. QED
  BY <1>3, <1>4 DEF Toggle

\* The other steps leave the page and the number of fetches alone.
LEMMA PageStutter ==
  ASSUME PageInv, UNCHANGED <<date, window, todayDisabled, selecting, currentFetchID>>
  PROVE  PageInv'
BY DEF PageInv, PageOK, Sent, Budget, selecting

LEMMA PagePreserved ==
  ASSUME ManagedInv, PageInv, [Next]_vars
  PROVE  PageInv'
<1>1. window.name \in ViewName
  BY DEF PageInv, PageOK
<1>2. ASSUME NEW inc \in {-1, 1}, Move(inc) PROVE PageInv'
  BY <1>1, <1>2, ViewKeeps DEF Move
<1>3. ASSUME NEW name \in ViewName, ChangeView(name) PROVE PageInv'
  BY <1>3, ViewKeeps DEF ChangeView
<1>4. CASE ClickToday
  BY <1>1, <1>4, ViewKeeps DEF ClickToday
<1>5. CASE WindowResize
  BY <1>5, PageStutter DEF WindowResize, Rerender, fetching, navigation
<1>6. ASSUME NEW m \in Machine, Toggle(m) PROVE PageInv'
  BY <1>6, ToggleKeeps
<1>7. CASE Posted
  <2>1. post # {} /\ unsaved' = FALSE /\ \E sent \in post : machinesSelected' = sent
    BY <1>7 DEF Posted
  <2>2. SendNext /\ UpdateCalendar /\ UNCHANGED <<selection, navigation>>
    BY <1>7 DEF Posted
  <2>3. unsaved' \in BOOLEAN
    BY <2>1, Zenon
  <2>4. QED
    BY <2>1, <2>2, <2>3, SendKeeps
<1>8. CASE PostFailed
  <2>1. post # {} /\ unsaved' = TRUE
    BY <1>8 DEF PostFailed
  <2>2. SendNext /\ UpdateCalendar /\ UNCHANGED <<selection, navigation>>
    BY <1>8 DEF PostFailed
  <2>3. unsaved' \in BOOLEAN
    BY <2>1, Zenon
  <2>4. QED
    BY <2>1, <2>2, <2>3, SendKeeps
<1>9. CASE AnswerStep
  <2>1. currentFetchID' = currentFetchID
    BY <1>9 DEF AnswerStep, Answer, AnswerError, Deliver
  <2>2. QED
    BY <1>9, <2>1, PageStutter DEF AnswerStep, navigation
<1>10. CASE LoseStep
  BY <1>10, PageStutter DEF LoseStep, Lose, navigation
<1>11. CASE EditStep
  BY <1>11, PageStutter DEF EditStep, Edit, fetching, navigation
<1>12. CASE UNCHANGED vars
  BY <1>12, PageStutter DEF vars, managed, fetching, navigation
<1>13. QED
  BY <1>2, <1>3, <1>4, <1>5, <1>6, <1>7, <1>8, <1>9, <1>10, <1>11, <1>12 DEF Next

-----------------------------------------------------------------------------
(* The first fetch                                                          *)

LEMMA InitIInv ==
  ASSUME Init
  PROVE  IInv
<1> DEFINE asked(s) == [id |-> 1, source |-> s,
                        question |-> Asked(window.start, window.end, Machine)]
           new == {asked("reservations"), asked("google")}
<1>1. requests = new /\ lost = {} /\ currentFetchID = 1
  BY DEF Init, Source
<1>2. asked("reservations") # asked("google")
  OBVIOUS
<1>3. IsFiniteSet(new) /\ Cardinality(new) = 2
  BY <1>2, TwoIsTwo
<1>4. Waiting = new /\ requests \cup lost = new
  BY <1>1 DEF Waiting
<1>5. /\ Today \in Dates /\ date = Today /\ window = WindowOf("agendaWeek", Today)
      /\ window.start \in Int /\ window.end \in Int /\ window.name = "agendaWeek"
  BY WindowIsDays, WindowIsNamed, CalendarAssumption DEF Init
<1>6. ManagedOK
  <2>1. new \subseteq [id : 1..1, source : Source,
          question : [start : Int, end : Int, machines : SUBSET Machine]]
    BY <1>5 DEF Source, Asked
  <2>2. range \in [start : Int, end : Int]
    BY <1>5 DEF Init
  <2>3. pendingSourceCnt \in Nat /\ loadingLevel \in Nat
    BY SourcesAreTwo DEF Init
  <2>4. drawn \in BOOLEAN
    BY Zenon DEF Init
  <2>5. QED
    BY <1>1, <2>1, <2>2, <2>3, <2>4 DEF Init, ManagedOK
<1>7. CountersExact
  BY <1>3, <1>4, SourcesAreTwo DEF Init, CountersExact, Waiting
<1>8. Sound
  <2>1. \A r \in new : r.question = Question /\ r.source \notin failed
    BY DEF Init, Question, Asked
  <2>2. QED
    BY <1>1, <1>3, <1>4, <2>1 DEF Sound
<1>9. Filled
  <2>1. {r.source : r \in new} = Source
    BY DEF Source
  <2>2. EntriesOf(cache) = {}
    BY DEF Init, EntriesOf
  <2>3. QED
    BY <1>4, <2>1, <2>2 DEF Filled
<1>10. Settled
  BY SourcesAreTwo DEF Init, Settled
<1>11. PageOK
  <2>1. todayDisabled \in BOOLEAN /\ unsaved \in BOOLEAN
    BY Zenon DEF Init
  <2>2. QED
    BY <1>5, <2>1 DEF Init, PageOK
<1>12. Sent
  BY DEF Init, Sent
<1>13. Budget
  BY <1>1, FS_EmptySet, CalendarAssumption DEF Init, Budget
<1>14. QED
  BY <1>6, <1>7, <1>8, <1>9, <1>10, <1>11, <1>12, <1>13 DEF IInv, ManagedInv, PageInv

\* What the cache, the requests and the page tell of each other: the theorems below
\* rest on it.
THEOREM Invariance == Spec => []IInv
<1>1. IInv /\ [Next]_vars => IInv'
  BY ManagedPreserved, PagePreserved DEF IInv
<1>2. QED
  BY <1>1, InitIInv, PTL DEF Spec

\* At any moment of the page's life its variables hold what the code stores in them.
THEOREM TypeCorrect == Spec => []TypeOK
<1>1. ASSUME IInv PROVE TypeOK
  <2>1. Cardinality(post) =< 1 /\ post \subseteq SUBSET Machine
    BY <1>1, PostCounts DEF IInv, PageInv, PageOK
  <2>2. currentFetchID \in 1..MaxFetches
    <3>1. currentFetchID \in Nat \ {0} /\ queued \in Nat /\ Cardinality(post) \in Nat
      BY <1>1, PostCounts DEF IInv, ManagedInv, ManagedOK, PageInv, PageOK
    <3>2. QED
      BY <1>1, <3>1, CalendarAssumption DEF IInv, PageInv, Budget
  <2>3. 1..currentFetchID \subseteq 1..MaxFetches
    BY <2>2, CalendarAssumption
  <2>4. requests \cup lost \subseteq
          [id : 1..MaxFetches, source : Source,
           question : [start : Int, end : Int, machines : SUBSET Machine]]
    BY <1>1, <2>3 DEF IInv, ManagedInv, ManagedOK
  <2>5. QED
    BY <1>1, <2>1, <2>2, <2>4 DEF TypeOK, IInv, ManagedInv, ManagedOK, PageInv, PageOK
<1>2. QED
  BY <1>1, Invariance, PTL

\* For any number of fetches under way, abandoned, failed or lost, the counters of
\* EventManager count the callbacks that are still to run.
THEOREM CountersCount == Spec => []CountersExact
<1>1. IInv => CountersExact
  BY DEF IInv, ManagedInv
<1>2. QED
  BY <1>1, Invariance, PTL

\* A request that is lost is one of those the calendar waits for, and the only one
\* only when no other can still come.
LEMMA PendingIsWaiting ==
  ASSUME ManagedInv
  PROVE  /\ IsFiniteSet(Waiting) /\ pendingSourceCnt = Cardinality(Waiting)
         /\ pendingSourceCnt = 0 <=> Waiting = {}
         /\ pendingSourceCnt = 1 => \A q, r \in Waiting : q = r
<1>1. IsFiniteSet(Waiting)
  BY FS_Subset DEF ManagedInv, Sound, Waiting
<1>2. pendingSourceCnt = Cardinality(Waiting)
  BY DEF ManagedInv, CountersExact, Waiting
<1>3. pendingSourceCnt = 0 <=> Waiting = {}
  BY <1>1, <1>2, FS_EmptySet
<1>4. ASSUME pendingSourceCnt = 1, NEW q \in Waiting, NEW r \in Waiting PROVE q = r
  <2>1. PICK x : Waiting = {x}
    BY <1>1, <1>2, <1>4, FS_Singleton
  <2>2. QED
    BY <2>1
<1>5. QED
  BY <1>1, <1>2, <1>3, <1>4

\* For any reservations and machines: once everything has settled the page shows the
\* reservations of the selected machines, but for those that cross an edge of the days
\* last asked for.
THEOREM ShowsTheSelection == Spec => []ShownExact
<1>1. ASSUME IInv, Quiet PROVE drawn /\ EntriesOf(events) =
        GoogleFeed(range.start, range.end)
          \cup FindReservations(range.start, range.end, selection)
  <2>1. pendingSourceCnt = 0 /\ failed = {} /\ machinesSelected = selection
    BY <1>1 DEF Quiet, IInv, PageInv, Sent
  <2>2. Waiting = {} /\ drawn /\ events = cache
    BY <1>1, <2>1, PendingIsWaiting DEF IInv, ManagedInv, Settled
  <2>3. EntriesOf(events) = UNION {Reply(s, Question) : s \in Source}
    BY <1>1, <2>1, <2>2 DEF IInv, ManagedInv, Filled
  <2>4. /\ Reply("google", Question) = GoogleFeed(range.start, range.end)
        /\ Reply("reservations", Question)
             = FindReservations(range.start, range.end, selection)
    BY <2>1 DEF Reply, Question, Asked
  <2>5. UNION {Reply(s, Question) : s \in Source}
          = Reply("google", Question) \cup Reply("reservations", Question)
    BY DEF Source
  <2>6. QED
    BY <2>2, <2>3, <2>4, <2>5
<1>2. ASSUME IInv, Quiet, NEW r \in Reservation
      PROVE  Shown(r) <=> r \in FindReservations(range.start, range.end, selection)
  <2>1. Shown(r) <=> r \in EntriesOf(events)
    BY DEF Shown, EntriesOf
  <2>2. r \notin GoogleFeed(range.start, range.end)
    BY EntryAssumption DEF GoogleFeed
  <2>3. QED
    BY <1>1, <1>2, <2>1, <2>2
<1>3. ASSUME IInv PROVE ShownExact
  <2>1. SUFFICES ASSUME Quiet PROVE
          /\ drawn
          /\ \A r \in Reservation :
               /\ Shown(r) => MachineOf[r] \in selection
               /\ MachineOf[r] \in selection /\ ~ Shown(r)
                    => From[r] < range.start * TicksPerDay \/ range.end * TicksPerDay < To[r]
    BY DEF ShownExact
  <2>2. drawn
    BY <1>1, <1>3, <2>1
  <2>3. ASSUME NEW r \in Reservation
        PROVE  /\ Shown(r) => MachineOf[r] \in selection
               /\ MachineOf[r] \in selection /\ ~ Shown(r)
                    => From[r] < range.start * TicksPerDay \/ range.end * TicksPerDay < To[r]
    <3>1. From[r] \in Int /\ To[r] \in Int
      BY EntryAssumption DEF Entry
    <3>2. range.start * TicksPerDay \in Int /\ range.end * TicksPerDay \in Int
      BY <1>3, EntryAssumption DEF IInv, ManagedInv, ManagedOK
    <3>3. Shown(r) <=> /\ range.start * TicksPerDay =< From[r]
                       /\ To[r] =< range.end * TicksPerDay
                       /\ MachineOf[r] \in selection
      BY <1>2, <1>3, <2>1 DEF FindReservations
    <3>4. QED
      BY <3>1, <3>2, <3>3
  <2>4. QED
    BY <2>2, <2>3
<1>4. QED
  BY <1>3, Invariance, PTL

\* An answer of Google that never comes keeps the reservations from the screen, for any
\* number of fetches, until the calendar asks again.
THEOREM OneLostHoldsAll == Spec => LostHoldsAll
<1>1. ASSUME IInv, [Next]_vars, NEW r \in lost, r.id = currentFetchID,
             currentFetchID' = currentFetchID
      PROVE  events' = events
  <2>1. r \in Waiting /\ r \notin requests /\ ManagedInv /\ PageInv
    BY <1>1 DEF Waiting, IInv, ManagedInv, Sound
  <2>2. pendingSourceCnt # 0
    BY <2>1, PendingIsWaiting
  <2>3. CASE Fetches
    BY <1>1, <2>1, <2>3 DEF Fetches, FetchAndRender, FetchEvents, ManagedInv, ManagedOK
  <2>4. CASE Rerender
    BY <2>4 DEF Rerender
  <2>5. ASSUME NEW q \in requests, Ends(q) PROVE events' = events
    <3>1. q.id = currentFetchID => pendingSourceCnt # 1
      BY <2>1, PendingIsWaiting DEF Waiting
    <3>2. QED
      BY <2>5, <3>1 DEF Ends, Answer, AnswerError, Deliver
  <2>6. ASSUME NEW q \in requests, Lose(q) PROVE events' = events
    BY <2>6 DEF Lose
  <2>7. ASSUME NEW e, Edit(e) PROVE events' = events
    BY <2>2, <2>7 DEF Edit
  <2>8. CASE UNCHANGED managed
    BY <2>8 DEF managed
  <2>9. QED
    BY <1>1, <2>1, <2>3, <2>4, <2>5, <2>6, <2>7, <2>8, ManagedSteps
<1>2. IInv /\ [Next]_vars =>
        [(\E r \in lost : r.id = currentFetchID) /\ currentFetchID' = currentFetchID
           => UNCHANGED events]_vars
  BY <1>1
<1>3. QED
  BY <1>2, Invariance, PTL DEF Spec, LostHoldsAll

-----------------------------------------------------------------------------
(* The view, its title and its button                                       *)

\* What is drawn has been asked for; the header speaks of the view that is drawn.
ViewInv ==
  /\ range.start =< window.start /\ window.end =< range.end
  /\ title = TitleOf(window)
  /\ todayDisabled <=> IsWithin(Today, window.intervalStart, window.intervalEnd)

LEMMA InitView ==
  ASSUME Init
  PROVE  ViewInv
<1>1. Today \in Dates /\ Today \in Int /\ window = WindowOf("agendaWeek", Today)
  BY CalendarAssumption DEF Init
<1>2. window.start \in Int /\ window.end \in Int
  BY <1>1, WindowIsDays
<1>3. range.start =< window.start /\ window.end =< range.end
  BY <1>2 DEF Init
<1>4. /\ window.intervalStart = StartOfWeek(Today)
      /\ window.intervalEnd = StartOfWeek(Today) + 7
  BY <1>1 DEF WindowOf, WeekWindow, Window
<1>5. IsWithin(Today, window.intervalStart, window.intervalEnd)
  BY <1>1, <1>4, WeekOfDay DEF IsWithin
<1>6. QED
  BY <1>3, <1>5 DEF Init, ViewInv

\* The days of the old answers are kept only where they cover the new view.
LEMMA RenderFits ==
  ASSUME ManagedInv, NEW name \in ViewName, NEW d, RenderView(name, d)
  PROVE  ViewInv'
<1>1. d \in Dates /\ window' = WindowOf(name, d) /\ title' = TitleOf(window')
  BY DEF RenderView
<1>2. window'.start \in Int /\ window'.end \in Int
  BY <1>1, WindowIsDays
<1>3. range.start \in Int /\ range.end \in Int
  BY DEF ManagedInv, ManagedOK
<1>4. range'.start =< window'.start /\ window'.end =< range'.end
  <2>1. CASE FetchAndRender(window'.start, window'.end, machinesSelected)
    <3>1. range' = [start |-> window'.start, end |-> window'.end]
      BY <2>1 DEF FetchAndRender, FetchEvents
    <3>2. QED
      BY <1>2, <3>1
  <2>2. CASE ~ IsFetchNeeded(window'.start, window'.end) /\ Rerender
    <3>1. range' = range
      BY <2>2 DEF Rerender, fetching
    <3>2. ~ (window'.start < range.start) /\ ~ (window'.end > range.end)
      BY <2>2 DEF IsFetchNeeded
    <3>3. QED
      BY <1>2, <1>3, <3>1, <3>2
  <2>3. QED
    BY <2>1, <2>2 DEF RenderView, GetAndRenderEvents
<1>5. todayDisabled' <=> IsWithin(Today, window'.intervalStart, window'.intervalEnd)
  BY DEF RenderView, UpdateTodayButton
<1>6. QED
  BY <1>1, <1>4, <1>5 DEF ViewInv

LEMMA ViewStutter ==
  ASSUME ViewInv, UNCHANGED <<navigation, range>>
  PROVE  ViewInv'
BY DEF ViewInv, navigation

LEMMA ViewPreserved ==
  ASSUME IInv, ViewInv, [Next]_vars
  PROVE  ViewInv'
<1>1. window.name \in ViewName /\ ManagedInv
  BY DEF IInv, PageInv, PageOK
<1>2. ASSUME NEW inc \in {-1, 1}, Move(inc) PROVE ViewInv'
  BY <1>1, <1>2, RenderFits DEF Move
<1>3. ASSUME NEW name \in ViewName, ChangeView(name) PROVE ViewInv'
  BY <1>1, <1>3, RenderFits DEF ChangeView
<1>4. CASE ClickToday
  BY <1>1, <1>4, RenderFits DEF ClickToday
<1>5. CASE WindowResize
  BY <1>5, ViewStutter DEF WindowResize, Rerender, fetching
<1>6. ASSUME NEW m \in Machine, Toggle(m) PROVE ViewInv'
  BY <1>6, ViewStutter DEF Toggle, managed, fetching
<1>7. CASE Posted \/ PostFailed
  <2>1. UpdateCalendar /\ UNCHANGED navigation
    BY <1>7 DEF Posted, PostFailed
  <2>2. range' = [start |-> window.start, end |-> window.end] /\ window' = window
    BY <2>1 DEF UpdateCalendar, FetchAndRender, FetchEvents, navigation
  <2>3. window.start \in Int /\ window.end \in Int
    BY WindowIsDays DEF IInv, PageInv, PageOK
  <2>4. range'.start =< window'.start /\ window'.end =< range'.end
    BY <2>2, <2>3
  <2>5. QED
    BY <2>1, <2>4 DEF ViewInv, navigation
<1>8. CASE AnswerStep
  BY <1>8, ViewStutter DEF AnswerStep, Answer, AnswerError, Deliver
<1>9. CASE LoseStep
  BY <1>9, ViewStutter DEF LoseStep, Lose
<1>10. CASE EditStep
  BY <1>10, ViewStutter DEF EditStep, Edit, fetching
<1>11. CASE UNCHANGED vars
  BY <1>11, ViewStutter DEF vars, managed, fetching
<1>12. QED
  BY <1>2, <1>3, <1>4, <1>5, <1>6, <1>7, <1>8, <1>9, <1>10, <1>11 DEF Next

\* What the theorems about the view rest on.
THEOREM ViewInvariance == Spec => [](IInv /\ ViewInv)
<1>1. Init => IInv /\ ViewInv
  BY InitIInv, InitView
<1>2. IInv /\ ViewInv /\ [Next]_vars => IInv' /\ ViewInv'
  BY ManagedPreserved, PagePreserved, ViewPreserved DEF IInv
<1>3. QED
  BY <1>1, <1>2, PTL DEF Spec

\* With every day of the week drawn, as fablabcalendar.js draws them: "next" and "prev"
\* show the days that follow and precede those of the view, in any calendar of months
\* and from any date the calendar was left at.
THEOREM StepsAreAdjacent ==
  ASSUME HiddenDays = {}
  PROVE  Spec => Adjacent
<1>1. ASSUME IInv, IInv', window'.name = window.name
      PROVE  /\ date' = IncrementDate(window.name, date, 1)
                  => window'.intervalStart = window.intervalEnd
             /\ date' = IncrementDate(window.name, date, -1)
                  => window'.intervalEnd = window.intervalStart
  <2>1. /\ date \in Dates /\ window.name \in ViewName
        /\ window = WindowOf(window.name, date)
    BY <1>1 DEF IInv, PageInv, PageOK
  <2>2. date' \in Dates /\ window' = WindowOf(window.name, date')
    BY <1>1 DEF IInv, PageInv, PageOK
  <2> DEFINE name == window.name
             d == date
             e == date'
  <2>3. d \in Dates /\ e \in Dates /\ name \in ViewName
    BY <2>1, <2>2
  <2> HIDE DEF name, d, e
  <2>4. /\ e = IncrementDate(name, d, 1)
              => WindowOf(name, e).intervalStart = WindowOf(name, d).intervalEnd
        /\ e = IncrementDate(name, d, -1)
              => WindowOf(name, e).intervalEnd = WindowOf(name, d).intervalStart
    BY <2>3, NextFollows
  <2>5. window = WindowOf(name, d) /\ window' = WindowOf(name, e)
    BY <2>1, <2>2 DEF name, d, e
  <2>6. QED
    BY <2>4, <2>5 DEF name, d, e
<1>2. IInv /\ IInv' =>
        [window'.name = window.name =>
           /\ date' = IncrementDate(window.name, date, 1)
                => window'.intervalStart = window.intervalEnd
           /\ date' = IncrementDate(window.name, date, -1)
                => window'.intervalEnd = window.intervalStart]_<<date, window>>
  BY <1>1
<1>3. QED
  BY <1>2, Invariance, PTL DEF Adjacent

\* With every day of the week drawn, as fablabcalendar.js draws them: whatever the path
\* through views, dates, clicks on "today" and answers, the view is about the calendar's
\* date, draws it all and has asked for it; its title, of any format, tells its first and
\* its last day, and "today" is off exactly where it would not move the view.
THEOREM ViewIsExact ==
  ASSUME HiddenDays = {}
  PROVE  Spec => []ViewExact
<1>1. ASSUME IInv, ViewInv PROVE ViewExact
  <2>1. date \in Dates /\ window.name \in ViewName /\ window = WindowOf(window.name, date)
    BY <1>1 DEF IInv, PageInv, PageOK
  <2> DEFINE name == window.name
             d == date
             w == WindowOf(name, d)
  <2>2. /\ w.intervalStart \in Int /\ w.intervalEnd \in Int
        /\ w.start \in Int /\ w.end \in Int
        /\ IsWithin(d, w.intervalStart, w.intervalEnd)
        /\ w.start =< w.intervalStart /\ w.intervalEnd =< w.end
        /\ name = "month" => w.end - w.start = 42
    <3> HIDE DEF name, d
    <3>1. name \in ViewName /\ d \in Dates
      BY <2>1 DEF name, d
    <3>2. QED
      BY <3>1, WindowCovers
  <2>3. w = window
    BY <2>1
  <2>4. WindowFits
    BY <1>1, <2>2, <2>3, Zenon DEF WindowFits, ViewInv
  <2>5. TitleTells
    BY <1>1, <2>1, TitlesTell DEF ViewInv
  <2>6. QED
    BY <2>4, <2>5 DEF ViewExact
<1>2. QED
  BY <1>1, ViewInvariance, PTL

-----------------------------------------------------------------------------
(* The page implements the abstract one                                     *)

\* The calendar's fetch is the abstract page's question.
LEMMA FetchAsks ==
  ASSUME Fetches
  PROVE  Latest!Ask
<1>1. PICK start \in Int, end \in Int : FetchAndRender(start, end, machinesSelected')
  BY DEF Fetches
<1>2. range' = [start |-> start, end |-> end] /\ events' = events
  BY <1>1 DEF FetchAndRender, FetchEvents
<1>3. pendingSourceCnt' = 2
  BY <1>1, SourcesAreTwo DEF FetchAndRender, FetchEvents
<1>4. Asked(range'.start, range'.end, machinesSelected')
        \in [start : Int, end : Int, machines : SUBSET Machine]
  BY <1>2 DEF Fetches, Asked
<1>5. pendingSourceCnt' > 0 <=> TRUE
  BY <1>3
<1>6. QED
  BY <1>2, <1>4, <1>5 DEF Latest!Ask

\* The last answer shows what all sources replied to the latest question; any other
\* changes nothing the abstract page has.
LEMMA EndShows ==
  ASSUME IInv, NEW r \in requests, Ends(r), ManagedInv', machinesSelected' = machinesSelected
  PROVE  Latest!Show \/ UNCHANGED Latest!vars
<1>1. range' = range /\ Question' = Question
  BY DEF Ends, Answer, AnswerError, Deliver, Question, Asked
<1>2. pendingSourceCnt \in Nat /\ pendingSourceCnt' \in Nat
  BY DEF IInv, ManagedInv, ManagedOK
<1>3. CASE r.id = currentFetchID /\ pendingSourceCnt = 1
  <2>1. pendingSourceCnt' = 0 /\ events' = cache'
    BY <1>2, <1>3 DEF Ends, Answer, AnswerError, Deliver, Report
  <2>2. Waiting' = {}
    BY <2>1, FS_EmptySet, FS_Subset DEF ManagedInv, CountersExact, Sound, Waiting
  <2>3. EntriesOf(events') = UNION {Reply(s, Question) : s \in Source \ failed'}
    BY <1>1, <2>1, <2>2 DEF ManagedInv, Filled
  <2>4. failed' \in SUBSET Source
    BY DEF ManagedInv, ManagedOK
  <2>5. pendingSourceCnt > 0 /\ (pendingSourceCnt' > 0 <=> FALSE)
    BY <1>3, <2>1
  <2>6. Latest!Show
    BY <1>1, <2>3, <2>4, <2>5 DEF Latest!Show, EntriesOf, Question
  <2>7. QED
    BY <2>6
<1>4. CASE r.id = currentFetchID /\ pendingSourceCnt # 1
  <2>1. events' = events /\ pendingSourceCnt' = pendingSourceCnt - 1
    BY <1>4 DEF Ends, Answer, AnswerError, Deliver
  <2>2. pendingSourceCnt > 0 /\ pendingSourceCnt' > 0
    BY <1>2, <1>4, <2>1
  <2>3. QED
    BY <1>1, <2>1, <2>2 DEF Latest!vars, Question
<1>5. CASE r.id # currentFetchID
  <2>1. events' = events /\ pendingSourceCnt' = pendingSourceCnt
    BY <1>5 DEF Ends, Answer, AnswerError, Deliver
  <2>2. QED
    BY <1>1, <2>1 DEF Latest!vars, Question
<1>6. QED
  BY <1>3, <1>4, <1>5

\* With any machines, reservations and views, the screen is only given whole answers
\* to the latest question.
THEOREM ImplementsLatest == Spec => LatestSpec
<1>1. Init => Latest!Init
  <2>1. SUFFICES ASSUME Init PROVE Latest!Init
    OBVIOUS
  <2>2. ManagedOK /\ events = {} /\ pendingSourceCnt = 2
    <3>1. IInv
      BY <2>1, InitIInv
    <3>2. events = {} /\ pendingSourceCnt = Cardinality(Source)
      BY <2>1 DEF Init
    <3>3. QED
      BY <3>1, <3>2, SourcesAreTwo DEF IInv, ManagedInv
  <2>3. Asked(range.start, range.end, machinesSelected)
          \in [start : Int, end : Int, machines : SUBSET Machine]
    BY <2>2 DEF ManagedOK, Asked
  <2>4. {f.entry : f \in events} = {} /\ (pendingSourceCnt > 0 <=> TRUE)
    BY <2>2
  <2>5. QED
    BY <2>3, <2>4 DEF Latest!Init
<1>2. IInv /\ IInv' /\ [Next]_vars => [Latest!Next]_(Latest!vars)
  <2>1. SUFFICES ASSUME IInv, ManagedInv', [Next]_vars PROVE Latest!Next \/ UNCHANGED Latest!vars
    BY DEF IInv
  <2>2. CASE Fetches
    BY <2>2, FetchAsks DEF Latest!Next
  <2>3. CASE machinesSelected' = machinesSelected /\ Rerender
    BY <2>3 DEF Rerender, fetching, Latest!vars, Asked
  <2>4. ASSUME NEW r \in requests, machinesSelected' = machinesSelected, Ends(r)
        PROVE  Latest!Next \/ UNCHANGED Latest!vars
    BY <2>1, <2>4, EndShows DEF Latest!Next
  <2>5. ASSUME NEW r \in requests, machinesSelected' = machinesSelected, Lose(r)
        PROVE  UNCHANGED Latest!vars
    BY <2>5 DEF Lose, Latest!vars, Asked
  <2>6. ASSUME NEW e, machinesSelected' = machinesSelected, Edit(e)
        PROVE  UNCHANGED Latest!vars
    <3>1. EntriesOf(cache') = EntriesOf(cache)
      BY <2>1, <2>6, EditKeeps DEF IInv
    <3>2. EntriesOf(events') = EntriesOf(events)
      BY <2>1, <2>6, <3>1 DEF Edit, IInv, ManagedInv, Settled
    <3>3. range' = range /\ pendingSourceCnt' = pendingSourceCnt
      BY <2>6 DEF Edit, fetching
    <3>4. QED
      BY <2>6, <3>2, <3>3 DEF Latest!vars, EntriesOf
  <2>7. CASE machinesSelected' = machinesSelected /\ UNCHANGED managed
    BY <2>7 DEF managed, fetching, Latest!vars
  <2>8. QED
    BY <2>1, <2>2, <2>3, <2>4, <2>5, <2>6, <2>7, ManagedSteps DEF IInv
<1>3. QED
  BY <1>1, <1>2, Invariance, PTL DEF Spec, LatestSpec, Latest!Spec

=============================================================================
