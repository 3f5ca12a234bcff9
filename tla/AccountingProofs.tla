------------------------- MODULE AccountingProofs -------------------------
(***************************************************************************)
(* Proofs about Accounting, for every length of months and years and every *)
(* bound: the shape of the page, the periods of the quick buttons, and the *)
(* searches with typed dates. TypeOK is inductive as it stands: the clock  *)
(* starts a year after the first day, so that no period reaches back       *)
(* before it. The totals are those of the list because a search adds up    *)
(* the list it loads in two parts, and starts from totals that cancel out: *)
(* from zeros, or from those of an earlier search that failed (Totals).    *)
(***************************************************************************)
EXTENDS Accounting, SetFacts

(***************************************************************************)
(* Arithmetic of periods                                                   *)
(***************************************************************************)
LEMMA DivisionFacts ==
  ASSUME NEW n \in Nat, NEW d \in Nat \ {0}
  PROVE  /\ n \div d \in Nat /\ n % d \in Nat /\ n % d < d
         /\ n = (d * (n \div d)) + (n % d)
  OBVIOUS

LEMMA ProductNat ==
  ASSUME NEW m \in Nat, NEW n \in Nat
  PROVE  m * n \in Nat
  OBVIOUS

LEMMA QuotientPositive ==
  ASSUME NEW n \in Nat, NEW d \in Nat \ {0}, d <= n
  PROVE  n \div d >= 1
<1>1. n \div d \in Nat /\ n % d < d /\ n = (d * (n \div d)) + (n % d)
  BY DivisionFacts
<1>2. ASSUME n \div d = 0 PROVE FALSE
  <2>1. d * (n \div d) = 0
    BY <1>2
  <2>2. n % d \in Nat
    BY DivisionFacts
  <2>3. QED BY <1>1, <2>1, <2>2
<1>3. QED BY <1>1, <1>2

LEMMA MonthInYear == MonthDays <= YearDays
<1>1. MonthDays \in Nat \ {0} /\ YearDays \in Nat \ {0} /\ YearDays % MonthDays = 0
  BY AccountingAssumption
<1>2. SUFFICES ASSUME YearDays < MonthDays PROVE FALSE
  BY <1>1
<1>3. YearDays % MonthDays = YearDays
  BY <1>1, <1>2
<1>4. QED BY <1>1, <1>3

\* The days of a period of the buttons, and the half-days of the calendars.
LEMMA PeriodType ==
  ASSUME now \in (2 * YearDays)..(2 * LastDay + 1),
         NEW days \in {1, MonthDays, YearDays}, NEW back \in {0, 1}
  PROVE  /\ FirstDay(days, back) \in Nat /\ LastDayOf(days, back) \in Nat
         /\ AfterOf(days, back) \in Nat /\ BeforeOf(days, back) \in Nat
<1>1. now \in Nat /\ YearDays \in Nat \ {0} /\ now >= 2 * YearDays
  BY AccountingAssumption
<1>2. days \in Nat \ {0} /\ days <= YearDays
  BY <1>1, MonthInYear, AccountingAssumption
<1>3. Today \in Nat /\ days <= Today /\ Half \in Nat
  BY <1>1, <1>2 DEF Today, Day, Half
<1>4. Today \div days \in Nat /\ Today \div days >= 1
  BY <1>2, <1>3, QuotientPositive, DivisionFacts
<1>5. (Today \div days) - back \in Nat
  BY <1>4
<1>6. FirstDay(days, back) \in Nat
  BY <1>2, <1>5, ProductNat DEF FirstDay
<1>7. LastDayOf(days, back) \in Nat
  BY <1>2, <1>6 DEF LastDayOf
<1>8. QED BY <1>3, <1>6, <1>7 DEF AfterOf, BeforeOf

\* The period before ends right before the current one starts.
LEMMA PeriodsAdjacent ==
  ASSUME now \in (2 * YearDays)..(2 * LastDay + 1),
         NEW days \in {1, MonthDays, YearDays}
  PROVE  LastHalf(BeforeOf(days, 1)) + 1 = AfterOf(days, 0)
<1> DEFINE q == Today \div days
<1>1. days \in Nat \ {0} /\ now \in Nat
  BY AccountingAssumption
<1>2. Today \in Nat /\ Half \in Nat
  BY <1>1 DEF Today, Day, Half
<1>3. q \in Nat
  BY <1>1, <1>2, DivisionFacts
<1> HIDE DEF q
<1>4. (q - 1) * days = q * days - days
  BY <1>1, <1>3
<1>5. LastDayOf(days, 1) + 1 = FirstDay(days, 0)
  <2>1. FirstDay(days, 1) = q * days - days
    BY <1>4 DEF FirstDay, q
  <2>2. FirstDay(days, 0) = q * days
    BY <1>1, <1>3 DEF FirstDay, q
  <2>3. q * days \in Nat
    BY <1>1, <1>3, ProductNat
  <2>4. QED BY <1>1, <2>1, <2>2, <2>3 DEF LastDayOf
<1>6. FirstDay(days, 0) \in Nat /\ LastDayOf(days, 1) \in Nat
  BY PeriodType
<1>7. QED BY <1>2, <1>5, <1>6 DEF LastHalf, BeforeOf, AfterOf

(***************************************************************************)
(* The invariant                                                           *)
(***************************************************************************)
LEMMA InitType == Init => TypeOK
<1> SUFFICES ASSUME Init PROVE TypeOK
  OBVIOUS
<1>1. now \in (2 * YearDays)..(2 * LastDay + 1)
  BY DEF Init
<1>2. /\ AfterOf(MonthDays, 0) \in Nat /\ BeforeOf(MonthDays, 0) \in Nat
      /\ FirstDay(MonthDays, 0) \in Nat /\ LastDayOf(MonthDays, 0) \in Nat
  BY <1>1, PeriodType
<1>3. filterAfter \in Nat /\ filterBefore \in Nat /\ form \in Nat \X Nat
  BY <1>2 DEF Init, LastHalf
<1>4. QED BY <1>1, <1>3 DEF Init, TypeOK

\* A list is loaded with calendars that exist, or not at all.
LEMMA LoadType ==
  ASSUME TypeOK, NEW after \in Nat, NEW before \in Nat, NEW sums,
         Load(after, before, sums)
  PROVE  /\ filterAfter' \in Nat /\ filterBefore' \in Nat /\ loaded' \in BOOLEAN
         /\ listEntries' \subseteq Entry /\ (~loaded' => listEntries' = {})
<1>1. Between(LastHalf(before), after) \subseteq Entry
  BY DEF Between, TypeOK
<1>2. LastHalf(before) \in Nat
  BY DEF LastHalf
<1>3. QED BY <1>1, <1>2 DEF Load

LEMMA QuickType ==
  ASSUME TypeOK, NEW days \in {1, MonthDays, YearDays}, NEW back \in {0, 1},
         Quick(days, back)
  PROVE  TypeOK'
<1>1. /\ FirstDay(days, back) \in Nat /\ LastDayOf(days, back) \in Nat
      /\ AfterOf(days, back) \in Nat /\ BeforeOf(days, back) \in Nat
  BY PeriodType DEF TypeOK
<1>2. /\ Load(AfterOf(days, back), BeforeOf(days, back), RefreshSearch)
      /\ form' = IF loaded' THEN <<FirstDay(days, back), LastDayOf(days, back)>>
                 ELSE form
      /\ UNCHANGED <<now, entries>>
  BY DEF Quick
<1>3. /\ filterAfter' \in Nat /\ filterBefore' \in Nat /\ loaded' \in BOOLEAN
      /\ listEntries' \subseteq Entry /\ (~loaded' => listEntries' = {})
  BY <1>1, <1>2, LoadType
<1>4. form' \in Nat \X Nat
  BY <1>1, <1>2 DEF TypeOK
<1>5. QED BY <1>2, <1>3, <1>4 DEF TypeOK

LEMMA RefreshType ==
  ASSUME TypeOK, NEW first \in Days, NEW last \in Days, Refresh(first, last)
  PROVE  TypeOK'
<1>1. first \in Nat /\ last \in Nat
  BY AccountingAssumption
<1>2. /\ Load(2 * first, 2 * last, RefreshSearch)
      /\ form' = <<first, last>> /\ UNCHANGED <<now, entries>>
  BY DEF Refresh
<1>3. 2 * first \in Nat /\ 2 * last \in Nat
  BY <1>1
<1>4. /\ filterAfter' \in Nat /\ filterBefore' \in Nat /\ loaded' \in BOOLEAN
      /\ listEntries' \subseteq Entry /\ (~loaded' => listEntries' = {})
  BY <1>2, <1>3, LoadType
<1>5. QED BY <1>1, <1>2, <1>4 DEF TypeOK

LEMMA ExportType ==
  ASSUME TypeOK, ExportExcel
  PROVE  TypeOK'
<1>1. Load(filterAfter, filterBefore, totals) /\ UNCHANGED <<form, now, entries>>
  BY DEF ExportExcel
<1>2. /\ filterAfter' \in Nat /\ filterBefore' \in Nat /\ loaded' \in BOOLEAN
      /\ listEntries' \subseteq Entry /\ (~loaded' => listEntries' = {})
  BY <1>1, LoadType DEF TypeOK
<1>3. QED BY <1>1, <1>2 DEF TypeOK

LEMMA BooksType ==
  ASSUME TypeOK, Book \/ Remove \/ Tick
  PROVE  TypeOK'
<1>1. CASE Book
  <2>1. PICK id \in 1..MaxEntries \ {e.id : e \in entries}, day \in Days,
             amount \in Amounts :
          entries' = entries \cup
            {[id |-> id, half |-> 2 * day + Half, amount |-> amount]}
    BY <1>1 DEF Book
  <2>2. 2 * day + Half \in 0..(2 * LastDay + 1)
    <3>1. day \in 0..LastDay /\ LastDay \in Nat /\ now \in Nat
      BY AccountingAssumption DEF TypeOK
    <3>2. Half \in 0..1
      BY <3>1 DEF Half
    <3>3. QED BY <3>1, <3>2
  <2>3. [id |-> id, half |-> 2 * day + Half, amount |-> amount] \in Entry
    BY <2>2 DEF Entry
  <2>4. QED BY <1>1, <2>1, <2>3 DEF Book, page, TypeOK
<1>2. CASE Remove
  BY <1>2 DEF Remove, page, TypeOK
<1>3. CASE Tick
  BY <1>3, AccountingAssumption DEF Tick, page, TypeOK
<1>4. QED BY <1>1, <1>2, <1>3

LEMMA NextType ==
  ASSUME TypeOK, [Next]_vars
  PROVE  TypeOK'
<1>1. CASE UNCHANGED vars
  BY <1>1 DEF vars, TypeOK
<1>2. CASE \/ QuickToday \/ QuickYesterday \/ QuickThisMonth \/ QuickLastMonth
           \/ QuickThisYear \/ QuickLastYear
  BY <1>2, QuickType DEF QuickToday, QuickYesterday, QuickThisMonth,
                         QuickLastMonth, QuickThisYear, QuickLastYear
<1>3. CASE \E first, last \in Days : Refresh(first, last)
  BY <1>3, RefreshType
<1>4. CASE ExportExcel
  BY <1>4, ExportType
<1>5. CASE Book \/ Remove \/ Tick
  BY <1>5, BooksType
<1>6. QED BY <1>1, <1>2, <1>3, <1>4, <1>5 DEF Next

\* Every variable keeps its shape.
THEOREM TypeCorrect == Spec => []TypeOK
<1>1. Init => TypeOK
  BY InitType
<1>2. TypeOK /\ [Next]_vars => TypeOK'
  BY NextType
<1>3. QED BY <1>1, <1>2, PTL DEF Spec

\* The buttons for the last and for the current day, month or year share no
\* half-day and leave none out between them, at any moment.
THEOREM PeriodsAlwaysMeet == Spec => []PeriodsMeet
<1>1. TypeOK => PeriodsMeet
  BY PeriodsAdjacent DEF TypeOK, PeriodsMeet
<1>2. QED BY <1>1, TypeCorrect, PTL

\* A search with typed dates lists exactly the entries of those days.
THEOREM TypedSearchesExact == Spec => TypedDatesExact
<1> DEFINE Listed == \A first, last \in Days :
      Refresh(first, last) /\ loaded' =>
        listEntries' = {e \in entries : Day(e.half) \in first..last}
<1>1. TypeOK /\ [Next]_vars => Listed
  <2> SUFFICES ASSUME TypeOK, NEW first \in Days, NEW last \in Days,
                      Refresh(first, last), loaded'
               PROVE  listEntries' = {e \in entries : Day(e.half) \in first..last}
    OBVIOUS
  <2>1. first \in Nat /\ last \in Nat
    BY AccountingAssumption
  <2>2. listEntries' = Between(LastHalf(2 * last), 2 * first)
    BY DEF Refresh, Load
  <2>3. ASSUME NEW e \in entries
        PROVE  2 * first <= e.half /\ e.half <= 2 * last + 1
                 <=> Day(e.half) \in first..last
    <3>1. e.half \in Int
      BY AccountingAssumption DEF TypeOK, Entry
    <3>2. QED BY <2>1, <3>1 DEF Day
  <2>4. QED BY <2>1, <2>2, <2>3 DEF Between, LastHalf
<1>2. Spec => [][Listed]_vars
  BY <1>1, TypeCorrect, PTL DEF Spec
<1>3. QED BY <1>2, PTL DEF TypedDatesExact

(***************************************************************************)
(* The totals                                                              *)
(***************************************************************************)
Totals ==
  /\ IsFiniteSet(entries) /\ IsFiniteSet(listEntries)
  /\ totals \in [sell : Nat, cashIn : Nat]
  /\ totals.cashIn - totals.sell = SumOf(listEntries)

LEMMA SumOfIsAmountSum == \A S : SumOf(S) = AmountSum(S)
  BY DEF SumOf, AmountSum

\* A list is added up in two parts, to totals that cancel out.
LEMMA UpdateTotalAdds ==
  ASSUME NEW sums \in [sell : Nat, cashIn : Nat], sums.cashIn = sums.sell,
         NEW list, IsFiniteSet(list), \A e \in list : e.amount \in Int
  PROVE  /\ UpdateTotal(sums, list) \in [sell : Nat, cashIn : Nat]
         /\ UpdateTotal(sums, list).cashIn - UpdateTotal(sums, list).sell = SumOf(list)
<1> DEFINE out == {e \in list : e.amount <= 0}
           in  == {e \in list : e.amount > 0}
<1>1. IsFiniteSet(out) /\ IsFiniteSet(in)
  BY FS_Subset
<1>2. AmountSum(out) \in Int /\ AmountSum(in) \in Int
  BY <1>1, SumOfOne
<1>3. AmountSum(out) <= 0
  <2>1. \A e \in out : e.amount \in Int /\ (-1) * e.amount >= 0
    OBVIOUS
  <2>2. (-1) * AmountSum(out) >= 0
    BY <1>1, <2>1, SumOfSign
  <2>3. QED
    BY <1>2, <2>2
<1>4. AmountSum(in) >= 0
  <2>1. \A e \in in : e.amount \in Int /\ 1 * e.amount >= 0
    OBVIOUS
  <2>2. 1 * AmountSum(in) >= 0
    BY <1>1, <2>1, SumOfSign
  <2>3. QED
    BY <1>2, <2>2
<1>5. AmountSum(list) = AmountSum(out) + AmountSum(in)
  <2>1. out \cup in = list /\ out \cap in = {}
    OBVIOUS
  <2>2. AmountSum(out \cup in) = AmountSum(out) + AmountSum(in)
    BY <1>1, <2>1, SumOfParts
  <2>3. AmountSum(out \cup in) = AmountSum(list)
    BY <2>1, Zenon
  <2>4. QED
    BY <2>2, <2>3
<1>6. UpdateTotal(sums, list) =
        [sell |-> sums.sell - AmountSum(out), cashIn |-> sums.cashIn + AmountSum(in)]
  BY SumOfIsAmountSum DEF UpdateTotal
<1>7. SumOf(list) = AmountSum(list)
  BY SumOfIsAmountSum
<1> HIDE DEF out, in
<1>8. QED
  BY <1>2, <1>3, <1>4, <1>5, <1>6, <1>7

\* A search leaves totals that fit its list, or totals that cancel out.
LEMMA LoadTotals ==
  ASSUME TypeOK, Totals, NEW after, NEW before,
         NEW sums \in [sell : Nat, cashIn : Nat], sums.cashIn = sums.sell,
         Load(after, before, sums), UNCHANGED entries
  PROVE  Totals'
<1>1. CASE /\ listEntries' = Between(LastHalf(before), after)
           /\ totals' = UpdateTotal(sums, listEntries')
  <2>1. listEntries' \subseteq entries
    BY <1>1 DEF Between
  <2>2. IsFiniteSet(listEntries')
    BY <2>1, FS_Subset DEF Totals
  <2>3. \A e \in listEntries' : e.amount \in Int
    BY <2>1, AccountingAssumption DEF TypeOK, Entry
  <2>4. /\ totals' \in [sell : Nat, cashIn : Nat]
        /\ totals'.cashIn - totals'.sell = SumOf(listEntries')
    BY <1>1, <2>2, <2>3, UpdateTotalAdds
  <2>5. QED
    BY <2>2, <2>4 DEF Totals
<1>2. CASE listEntries' = {} /\ totals' = sums
  <2>1. SumOf(listEntries') = 0
    BY <1>2, SumOfNothing, SumOfIsAmountSum, Zenon
  <2>2. IsFiniteSet(listEntries')
    BY <1>2, FS_EmptySet
  <2>3. QED
    BY <1>2, <2>1, <2>2 DEF Totals
<1>3. QED
  BY <1>1, <1>2 DEF Load

\* The quick buttons and the typed dates start from zeros.
LEMMA SearchTotals ==
  ASSUME TypeOK, Totals, NEW after, NEW before,
         Load(after, before, RefreshSearch), UNCHANGED entries
  PROVE  Totals'
<1>1. RefreshSearch \in [sell : Nat, cashIn : Nat] /\ RefreshSearch.cashIn = RefreshSearch.sell
  BY DEF RefreshSearch
<1>2. QED
  BY <1>1, LoadTotals

\* An export starts from the totals of a search that failed.
LEMMA ExportTotals ==
  ASSUME TypeOK, Totals, ExportExcel
  PROVE  Totals'
<1>1. listEntries = {}
  BY DEF ExportExcel, TypeOK
<1>2. SumOf(listEntries) = 0
  BY <1>1, SumOfNothing, SumOfIsAmountSum, Zenon
<1>3. totals \in [sell : Nat, cashIn : Nat] /\ totals.cashIn = totals.sell
  BY <1>2 DEF Totals
<1>4. Load(filterAfter, filterBefore, totals) /\ UNCHANGED entries
  BY DEF ExportExcel
<1>5. QED
  BY <1>3, <1>4, LoadTotals

LEMMA NextTotals ==
  ASSUME TypeOK, Totals, [Next]_vars
  PROVE  Totals'
<1>1. CASE UNCHANGED <<entries, listEntries, totals>>
  BY <1>1 DEF Totals
<1>2. ASSUME NEW days, NEW back, Quick(days, back) PROVE Totals'
  BY <1>2, SearchTotals DEF Quick
<1>3. ASSUME NEW first, NEW last, Refresh(first, last) PROVE Totals'
  BY <1>3, SearchTotals DEF Refresh
<1>4. CASE ExportExcel
  BY <1>4, ExportTotals
<1>5. CASE Book \/ Remove
  <2>1. IsFiniteSet(entries')
    BY <1>5, FS_AddElement, FS_RemoveElement DEF Book, Remove, Totals
  <2>2. UNCHANGED <<listEntries, totals>>
    BY <1>5 DEF Book, Remove, page
  <2>3. QED
    BY <2>1, <2>2 DEF Totals
<1>6. QED
  BY <1>1, <1>2, <1>3, <1>4, <1>5
  DEF Next, vars, page, Tick, QuickToday, QuickYesterday, QuickThisMonth, QuickLastMonth,
      QuickThisYear, QuickLastYear

\* The totals shown always add up the list shown, whatever searches failed before.
THEOREM TotalsAddUp == Spec => []TotalsOfList
<1>1. Init => Totals
  <2> SUFFICES ASSUME Init PROVE Totals
    OBVIOUS
  <2>1. SumOf(listEntries) = 0
    BY SumOfNothing, SumOfIsAmountSum, Zenon DEF Init
  <2>2. QED
    BY <2>1, FS_EmptySet DEF Init, Totals
<1>2. TypeOK /\ Totals /\ [Next]_vars => Totals'
  BY NextTotals
<1>3. Totals => TotalsOfList
  BY DEF Totals, TotalsOfList
<1>4. QED
  BY <1>1, <1>2, <1>3, TypeCorrect, PTL DEF Spec

=============================================================================
