----------------------------- MODULE MCCalendar -----------------------------
(***************************************************************************)
(* A small instance of Calendar: the months from October 2013 to February  *)
(* 2014, of which day 87 is the first of January, a page opened on the     *)
(* Sunday after it, a reservation in a week, one over a night between two  *)
(* weeks, one late in the window of a month and an entry of Google.        *)
(***************************************************************************)
EXTENDS Calendar, TLC

CONSTANTS m1, m2, r1, r2, r3, g1

MCMachine == {m1, m2}
MCReservation == {r1, r2, r3}
MCGoogleEvent == {g1}
MCMonthStart == <<-5, 26, 56, 87, 118, 146>>
DayFormat(month) == <<"D", "literal", month, "literal", "YYYY">>
MCTitleFormat ==
  [month |-> <<"MMMM", "literal", "YYYY">>, agendaWeek |-> DayFormat("MMM"),
   agendaDay |-> DayFormat("MMMM")]
MCMachineOf == (r1 :> m1) @@ (r2 :> m2) @@ (r3 :> m2)
\* Two ticks a day.
MCFrom == (r1 :> 174) @@ (r2 :> 183) @@ (r3 :> 200) @@ (g1 :> 180)
MCTo == (r1 :> 175) @@ (r2 :> 185) @@ (r3 :> 201) @@ (g1 :> 184)
MCOwn == {r1}
MCHiddenDays == {}
MCDates == {85, 87, 91, 92}

=============================================================================
