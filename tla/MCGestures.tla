----------------------------- MODULE MCGestures -----------------------------
(***************************************************************************)
(* A small instance of Gestures: a day of eight ticks, of which the agenda *)
(* shows four; the week of days 36 to 42. Worlds where the user makes one  *)
(* to three gestures, and worlds that are only laid out: every five events *)
(* in one column, six and nine that computeSlotSegCoords gets wrong, and   *)
(* every three of a few spans of days in a month.                          *)
(***************************************************************************)
EXTENDS Layouts

At(day, tick) == day * TicksPerDay + tick

Timed(at, zone) == [at |-> at, timed |-> TRUE, zone |-> zone]

\* A reservation, as FullCalendarEvent dates it; an entry of Google.
Reserved(start, end) ==
  BuildEvent([start |-> Timed(start, <<>>), end |-> <<Timed(end, <<>>)>>, allDay |-> <<FALSE>>])

Google(start, end) ==
  BuildEvent([start |-> Timed(start, <<1>>), end |-> <<Timed(end, <<1>>)>>, allDay |-> <<>>])

Whole(at) == [at |-> at, timed |-> FALSE, zone |-> <<>>]

GoogleDays(first, end) ==
  BuildEvent([start |-> Whole(At(first, 0)), end |-> <<Whole(At(end, 0))>>, allDay |-> <<>>])

\* A reservation that a gesture has made an event of whole days.
Days(first, end) == [start |-> Whole(At(first, 0)), end |-> end, allDay |-> TRUE]

World(view, server, shown, most) ==
  [view |-> view, server |-> server, events |-> shown, grabs |-> most]

Layout(view, shown) == World(view, <<>>, shown, 0)

WeekServer == <<Reserved(At(41, 3), At(41, 5)), Reserved(At(42, 2), At(42, 3))>>
NightServer == <<Reserved(At(41, 5), At(42, 3)), Reserved(At(40, 2), At(40, 4))>>
DayServer == <<Reserved(At(38, 2), At(38, 4)), GoogleDays(38, 39)>>
MonthServer == <<Reserved(At(42, 5), At(43, 4)), Reserved(At(41, 3), At(41, 4)),
                 Google(At(41, 2), At(41, 4))>>

GestureWorlds ==
  {World("agendaWeek", WeekServer, <<WeekServer[1], Days(42, <<>>)>>, 2),
   World("agendaWeek", NightServer, <<NightServer[1], Days(40, <<Whole(At(44, 0))>>)>>, 1),
   World("agendaDay", DayServer, DayServer, 3),
   World("month", MonthServer,
         <<MonthServer[1], Days(40, <<Whole(At(42, 0))>>), MonthServer[3]>>, 2)}

\* Intervals of a column, in the order of compareSlotSegs.
Interval == <<<<2, 6>>, <<2, 5>>, <<2, 4>>, <<2, 3>>, <<3, 6>>, <<3, 5>>, <<3, 4>>,
              <<4, 6>>, <<4, 5>>, <<5, 6>>>>

ColumnOfEvents(choice) ==
  [i \in DOMAIN choice |-> Reserved(At(41, Interval[choice[i]][1]), At(41, Interval[choice[i]][2]))]

ColumnWorlds ==
  {Layout("agendaWeek", ColumnOfEvents(c)) :
     c \in {f \in [1..5 -> DOMAIN Interval] : \A i \in 1..4 : f[i] <= f[i + 1]}}

SixEvents ==
  <<Reserved(At(41, 2), At(41, 4)), Reserved(At(41, 2), At(41, 3)), Reserved(At(41, 2), At(41, 3)),
    Reserved(At(41, 3), At(41, 5)), Reserved(At(41, 4), At(41, 6)), Reserved(At(41, 5), At(41, 6))>>

NineEvents ==
  <<Reserved(At(41, 2), At(41, 3)), Reserved(At(41, 2), At(41, 4)), Reserved(At(41, 2), At(41, 4)),
    Reserved(At(41, 2), At(41, 6)), Reserved(At(41, 3), At(41, 5)), Reserved(At(41, 4), At(41, 6)),
    Reserved(At(41, 5), At(41, 6)), Reserved(At(41, 5), At(41, 6)), Reserved(At(41, 5), At(41, 6))>>

Spans == <<GoogleDays(28, 32), GoogleDays(36, 41), GoogleDays(41, 43), Google(At(38, 5), At(40, 2)),
           Reserved(At(38, 3), At(39, 3)), Reserved(At(42, 0), At(43, 0)), GoogleDays(40, 58)>>

MonthWorlds ==
  {Layout("month", [i \in 1..3 |-> Spans[f[i]]]) : f \in [1..3 -> DOMAIN Spans]}

MCWorlds ==
  GestureWorlds \cup ColumnWorlds \cup MonthWorlds
    \cup {Layout("agendaWeek", SixEvents), Layout("agendaWeek", NineEvents)}

MCId == 1..9
MCOwn == {1, 2}
MCHeight == [id \in MCId |-> IF id = 3 THEN 2 ELSE 1]
MCMonthStart == <<0, 31, 61, 92>>
MCHiddenDays == {}
MCColumns == {5, 6}

=============================================================================
