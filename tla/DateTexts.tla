----------------------------- MODULE DateTexts -----------------------------
(***************************************************************************)
(* The titles of the views: the formatting of one day and of a range of    *)
(* days in fullcalendar.js. A format is a sequence of chunks, tokens of    *)
(* moment.js or literals. A text is a sequence of pieces, a token with the *)
(* value it shows; the wording of a value and of a literal is left out.    *)
(***************************************************************************)
EXTENDS ViewDates, SequencesExt

CONSTANTS
  January,      \* the index in MonthStart of a January
  TitleFormat   \* TitleFormat[name]: titleFormat of a view, expanded

(* similarUnitMap, for the tokens a title has. *)
UnitOf == [YYYY |-> "year", MMMM |-> "month", MMM |-> "month", D |-> "day"]

ASSUME FormatAssumption ==
  /\ January \in DOMAIN MonthStart
  /\ \A name \in ViewName : TitleFormat[name] \in Seq(DOMAIN UnitOf \cup {"literal"})

YearOf(d) == (MonthOf(d) - January) \div 12

(* What a token shows of a day. *)
Field(d, unit) ==
  CASE unit = "year"  -> YearOf(d)
    [] unit = "month" -> (MonthOf(d) - January) % 12
    [] unit = "day"   -> d - MonthStart[MonthOf(d)]

(* External: moment's isSame, of the unit and of the larger ones. *)
IsSame(d1, d2, unit) ==
  CASE unit = "year"  -> YearOf(d1) = YearOf(d2)
    [] unit = "month" -> MonthOf(d1) = MonthOf(d2)
    [] unit = "day"   -> d1 = d2

FormatDateWithChunk(d, chunk) ==
  IF chunk = "literal" THEN <<chunk, 0>> ELSE <<UnitOf[chunk], Field(d, UnitOf[chunk])>>

FormatDateWithChunks(d, chunks) ==
  [i \in DOMAIN chunks |-> FormatDateWithChunk(d, chunks[i])]

Separator == <<"separator", 0>>

(* formatSimilarChunk *)
IsSimilar(d1, d2, chunk) == chunk = "literal" \/ IsSame(d1, d2, UnitOf[chunk])

(* formatRangeWithChunks: what the days share on the left and on the right  *)
(* is written once.                                                         *)
FormatRange(d1, d2, chunks) ==
  LET differ == {i \in DOMAIN chunks : ~ IsSimilar(d1, d2, chunks[i])}
      part(d, i, j) == FormatDateWithChunks(d, SubSeq(chunks, i, j))
  IN  IF differ = {} THEN FormatDateWithChunks(d1, chunks)
      ELSE part(d1, 1, Max(differ)) \o <<Separator>>
             \o part(d2, Min(differ), Max(differ)) \o part(d1, Max(differ) + 1, Len(chunks))

(* The agenda of a week names its first and its last day. *)
TitleOf(window) ==
  LET chunks == TitleFormat[window.name]
  IN  CASE window.name = "month"      -> FormatDateWithChunks(window.intervalStart, chunks)
        [] window.name = "agendaWeek" -> FormatRange(window.start, window.end - 1, chunks)
        [] window.name = "agendaDay"  -> FormatDateWithChunks(window.start, chunks)

-----------------------------------------------------------------------------
(* How a reader takes a title: two sides of a separator or one text for     *)
(* both days; a side that does not say something says what the other does.  *)

Said(side, unit) == {p[2] : p \in {q \in ToSet(side) : q[1] = unit}}

ReadFirst(text, unit) ==
  LET k == SelectInSeq(text, LAMBDA p : p = Separator)
      before == SubSeq(text, 1, k - 1)
  IN  IF k > 0 /\ Said(before, unit) # {} THEN Said(before, unit) ELSE Said(text, unit)

ReadLast(text, unit) ==
  LET k == SelectInSeq(text, LAMBDA p : p = Separator)
      after == SubSeq(text, k + 1, Len(text))
  IN  IF Said(after, unit) # {} THEN Said(after, unit) ELSE Said(text, unit)

=============================================================================
