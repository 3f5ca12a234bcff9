---------------------------- MODULE Accounting ----------------------------
(***************************************************************************)
(* The accounting page, AccountingController: quick buttons and date       *)
(* fields choose a period, the page lists the entries of the books dated   *)
(* in it and adds them up. The list stays in the page until the next       *)
(* search, while cashiers book and remove entries and the day goes on.     *)
(*                                                                         *)
(* Time is counted in half-days, because Calendar.HOUR, which              *)
(* updateHoursOfFilters sets, is the hour of the half-day: 23 is the last  *)
(* hour of the half-day after the calendar's own. Half-day 2 * d is the    *)
(* morning of day d, which starts a year if d is a multiple of YearDays.   *)
(* Months have one length. A query may fail (the database is away): the    *)
(* answer is then an error, but the page's state survives on the server.   *)
(***************************************************************************)
EXTENDS Integers, FiniteSetsExt

CONSTANTS
  MonthDays,   \* days of a month
  YearDays,    \* days of a year
  LastDay,     \* bound: the last day modelled
  Days,        \* bound: the days that are typed, and that entries are dated on
  Amounts,     \* amounts of entries: positive cash in, negative sells
  MaxEntries   \* bound: entries at any time

ASSUME AccountingAssumption ==
  /\ MonthDays \in Nat \ {0}
  /\ YearDays \in Nat \ {0} /\ YearDays % MonthDays = 0
  /\ LastDay \in Nat /\ LastDay >= YearDays
  /\ Days \subseteq 0..LastDay
  /\ Amounts \subseteq Int
  /\ MaxEntries \in Nat

VARIABLES
  now,           \* the current half-day
  entries,       \* the entries in the tables
  filterAfter,   \* half-day of the calendar filterAfter
  filterBefore,  \* half-day of the calendar filterBefore
  form,          \* the days in the two date fields
  loaded,        \* listEntries # null
  listEntries,   \* the entries listed
  totals         \* totalSell, totalCashIn

filters == <<filterAfter, filterBefore>>
page == <<filterAfter, filterBefore, form, loaded, listEntries, totals>>
vars == <<now, entries, filterAfter, filterBefore, form, loaded, listEntries,
          totals>>

Day(half) == half \div 2
Today == Day(now)
Half == now % 2  \* morning or afternoon

Entry == [id : 1..MaxEntries, half : 0..(2 * LastDay + 1), amount : Amounts]

\* Slip: a search keeps the totals of the last one.
TotalsKept == totals

\* The totals after refreshSearch.
RefreshSearch == [sell |-> 0, cashIn |-> 0]

SumOf(set) == MapThenSumSet(LAMBDA e : e.amount, set)

UpdateTotal(sums, list) ==
  [sell |-> sums.sell - SumOf({e \in list : e.amount <= 0}),
   cashIn |-> sums.cashIn + SumOf({e \in list : e.amount > 0})]

\* Slip: the last half-day is left out.
LastHalfShort(before) == before

\* updateHoursOfFilters: the hour 23 of filterBefore. The hour 0 leaves
\* filterAfter in its half-day.
LastHalf(before) == before + 1

Between(before, after) ==
  {e \in entries : after <= e.half /\ e.half <= before}

\* The first and the last day of a period of that many days: the current one,
\* or the one that many periods back.
FirstDay(days, back) == ((Today \div days) - back) * days
LastDayOf(days, back) == FirstDay(days, back) + days - 1

\* The calendars keep the time of day of the click.
AfterOf(days, back) == 2 * FirstDay(days, back) + Half
BeforeOf(days, back) == 2 * LastDayOf(days, back) + Half

(***************************************************************************)
(* The page                                                                *)
(***************************************************************************)
\* Slip: a failed query leaves the list of the last search.
LoadKeepsList(after, before, sums) ==
  /\ filterAfter' = after
  /\ filterBefore' = LastHalf(before)
  /\ \/ /\ loaded' = TRUE
        /\ listEntries' = Between(LastHalf(before), after)
        /\ totals' = UpdateTotal(sums, listEntries')
     \/ /\ loaded' = FALSE
        /\ listEntries' = listEntries
        /\ totals' = sums

\* getListEntries while listEntries is null. A failed query leaves the list
\* null, but the hours of the filters have been set.
Load(after, before, sums) ==
  /\ filterAfter' = after
  /\ filterBefore' = LastHalf(before)
  /\ \/ /\ loaded' = TRUE
        /\ listEntries' = Between(LastHalf(before), after)
        /\ totals' = UpdateTotal(sums, listEntries')
     \/ /\ loaded' = FALSE
        /\ listEntries' = {}
        /\ totals' = sums

\* A quick button: the answer draws the date fields before it loads the list.
\* After a failed query the browser keeps the old page.
Quick(days, back) ==
  /\ Load(AfterOf(days, back), BeforeOf(days, back), RefreshSearch)
  /\ form' = IF loaded' THEN <<FirstDay(days, back), LastDayOf(days, back)>>
             ELSE form
  /\ UNCHANGED <<now, entries>>

QuickToday == Quick(1, 0)
QuickYesterday == Quick(1, 1)
QuickThisMonth == Quick(MonthDays, 0)
QuickLastMonth == Quick(MonthDays, 1)
QuickThisYear == Quick(YearDays, 0)
QuickLastYear == Quick(YearDays, 1)

\* Slip: the typed dates keep the time of day of the last search.
RefreshKeepsHalf(first, last) ==
  /\ form' = <<first, last>>
  /\ Load(2 * first + (filterAfter % 2), 2 * last + (filterBefore % 2), RefreshSearch)
  /\ UNCHANGED <<now, entries>>

\* The refresh button: the fields set the calendars to midnight of their days.
Refresh(first, last) ==
  /\ form' = <<first, last>>
  /\ Load(2 * first, 2 * last, RefreshSearch)
  /\ UNCHANGED <<now, entries>>

\* Exporting submits no date field. With a list in the page it changes nothing;
\* without one it runs the query that failed again.
ExportExcel ==
  /\ ~loaded
  /\ filterBefore <= 2 * LastDay + 1  \* bounds the retries
  /\ Load(filterAfter, filterBefore, totals)
  /\ UNCHANGED <<form, now, entries>>

(***************************************************************************)
(* The books and the clock                                                 *)
(***************************************************************************)
\* Entries are dated on a day chosen, at the current time of day.
Book ==
  /\ \E id \in 1..MaxEntries \ {e.id : e \in entries}, day \in Days,
        amount \in Amounts :
       entries' = entries \cup
         {[id |-> id, half |-> 2 * day + Half, amount |-> amount]}
  /\ UNCHANGED <<now, page>>

Remove ==
  /\ \E e \in entries : entries' = entries \ {e}
  /\ UNCHANGED <<now, page>>

Tick ==
  /\ now < 2 * LastDay + 1
  /\ now' = now + 1
  /\ UNCHANGED <<entries, page>>

\* The constructor calls quickThisMonth, and the first answer draws the page.
Init ==
  /\ now \in (2 * YearDays)..(2 * LastDay + 1)
  /\ entries = {}
  /\ filterAfter = AfterOf(MonthDays, 0)
  /\ filterBefore = LastHalf(BeforeOf(MonthDays, 0))
  /\ form = <<FirstDay(MonthDays, 0), LastDayOf(MonthDays, 0)>>
  /\ loaded = TRUE
  /\ listEntries = {}
  /\ totals = [sell |-> 0, cashIn |-> 0]

Next ==
  \/ QuickToday \/ QuickYesterday
  \/ QuickThisMonth \/ QuickLastMonth
  \/ QuickThisYear \/ QuickLastYear
  \/ \E first, last \in Days : Refresh(first, last)
  \/ ExportExcel
  \/ Book \/ Remove \/ Tick

Spec == Init /\ [][Next]_vars

(***************************************************************************)
(* Properties                                                              *)
(***************************************************************************)
\* Every variable keeps its shape; without a list there are no totals.
TypeOK ==
  /\ now \in (2 * YearDays)..(2 * LastDay + 1)
  /\ entries \subseteq Entry
  /\ filterAfter \in Nat /\ filterBefore \in Nat
  /\ form \in Nat \X Nat
  /\ loaded \in BOOLEAN
  /\ listEntries \subseteq Entry
  /\ ~loaded => listEntries = {}

\* The two totals shown always add up the list shown, each entry once, however
\* many searches came before and failed.
TotalsOfList ==
  /\ totals.cashIn - totals.sell = SumOf(listEntries)
  /\ totals.cashIn >= 0 /\ totals.sell >= 0

\* At any moment of the day a period ends where the next one begins: pressed
\* in the same half-day, the buttons for the last and the current day, month or
\* year count every entry of the two exactly once between them.
PeriodsMeet ==
  \A days \in {1, MonthDays, YearDays} :
    LastHalf(BeforeOf(days, 1)) + 1 = AfterOf(days, 0)

\* A search with typed dates lists exactly the entries of those days, whatever
\* quick buttons and failed queries did to the calendars before.
TypedDatesExact ==
  [][\A first, last \in Days :
       Refresh(first, last) /\ loaded' =>
         listEntries' = {e \in entries : Day(e.half) \in first..last}]_vars

\* The button "Today" lists the entries of today. Of the code this is so in the
\* morning only.
TodayExact ==
  [][QuickToday /\ loaded' =>
       listEntries' = {e \in entries : Day(e.half) = Today}]_vars

=============================================================================
