------------------------------ MODULE Calendar ------------------------------
(***************************************************************************)
(* The reservations page in a browser: Calendar and Header of              *)
(* fullcalendar.js, which move a view over the days and draw the events    *)
(* that EventManager gets; the buttons that select machines, whose choice  *)
(* travels to the server and back before the calendar asks again           *)
(* (list.xhtml, fablabcalendar.js, ReservationController).                 *)
(*                                                                         *)
(* The script runs one callback at a time: a click, an answer, the end of  *)
(* a gesture is one step. External: the browser, the ajax queue of         *)
(* PrimeFaces (one request at a time, written from the form when it        *)
(* leaves, its oncomplete run whatever became of it), Google. The day does *)
(* not change while the page is open.                                      *)
(***************************************************************************)
EXTENDS EventManager, DateTexts

CONSTANTS
  Today,       \* the day the page is open
  Dates,       \* bound: days the calendar is moved to
  MaxFetches   \* bound: fetches

ASSUME CalendarAssumption ==
  /\ Today \in Dates
  /\ \A d \in Dates : d \in Int /\ KnownDay(d)
  /\ MaxFetches \in Nat \ {0}

VARIABLES
  date,              \* the calendar's date
  window,            \* currentView: its name and the days it is about and draws
  title,             \* what the header says of it
  todayDisabled,     \* the button "today"
  selection,         \* the machines selected on the screen
  post,              \* the selection on its way to the server, a singleton or {}
  queued,            \* ajax requests behind it
  machinesSelected,  \* CALENDAR.machinesSelected
  unsaved            \* has the last request for a selection failed

navigation == <<date, window, title, todayDisabled>>
selecting == <<selection, post, queued, machinesSelected, unsaved>>
vars == <<navigation, selecting, managed>>

Init ==
  /\ date = Today
  /\ window = WindowOf("agendaWeek", Today)
  /\ title = TitleOf(window)
  /\ todayDisabled = TRUE
  /\ selection = Machine
  /\ machinesSelected = Machine
  /\ post = {}
  /\ queued = 0
  /\ unsaved = FALSE
  /\ range = [start |-> window.start, end |-> window.end]
  /\ currentFetchID = 1
  /\ pendingSourceCnt = Cardinality(Source)
  /\ loadingLevel = Cardinality(Source)
  /\ cache = {}
  /\ events = {}
  /\ drawn = FALSE
  /\ requests = {[id |-> 1, source |-> s,
                  question |-> Asked(window.start, window.end, Machine)] : s \in Source}
  /\ lost = {}
  /\ failed = {}

(* Bound: the fetches that may still be started, one kept for each request  *)
(* for a selection.                                                         *)
FetchesLeft == MaxFetches - currentFetchID - queued - Cardinality(post)

-----------------------------------------------------------------------------
(* Moving the view                                                          *)

GetAndRenderEvents ==
  \/ /\ IsFetchNeeded(window'.start, window'.end)
     /\ FetchesLeft > 0
     /\ FetchAndRender(window'.start, window'.end, machinesSelected)
  \/ /\ ~ IsFetchNeeded(window'.start, window'.end)
     /\ Rerender

UpdateTodayButton == todayDisabled' = IsWithin(Today, window'.intervalStart, window'.intervalEnd)

\* Slip: the new date is not kept.
RenderViewDateLost(name, d) ==
  /\ d \in Dates
  /\ window' = WindowOf(name, d)
  /\ title' = TitleOf(window')
  /\ UpdateTodayButton
  /\ GetAndRenderEvents
  /\ UNCHANGED <<date, selecting>>

(* _renderView *)
RenderView(name, d) ==
  /\ d \in Dates
  /\ date' = d
  /\ window' = WindowOf(name, d)
  /\ title' = TitleOf(window')
  /\ UpdateTodayButton
  /\ GetAndRenderEvents
  /\ UNCHANGED selecting

(* prev and next *)
Move(inc) == RenderView(window.name, IncrementDate(window.name, date, inc))

ChangeView(name) ==
  /\ name # window.name
  /\ RenderView(name, date)

(* A click on a disabled button does nothing; renderView draws again when *)
(* the view is not about the new date.                                    *)
ClickToday ==
  /\ ~ todayDisabled
  /\ ~ IsWithin(Today, window.intervalStart, window.intervalEnd)
  /\ RenderView(window.name, Today)

(* windowResize: updateSize draws the calendar's events again. *)
WindowResize ==
  /\ Rerender
  /\ UNCHANGED <<navigation, selecting>>

-----------------------------------------------------------------------------
(* Selecting machines                                                       *)

(* A machine button: the request leaves at once, or waits for its turn. *)
Toggle(m) ==
  /\ FetchesLeft > 0
  /\ selection' = IF m \in selection THEN selection \ {m} ELSE selection \cup {m}
  /\ \/ /\ post = {}
        /\ post' = {selection'}
        /\ UNCHANGED queued
     \/ /\ post # {}
        /\ queued' = queued + 1
        /\ UNCHANGED post
  /\ UNCHANGED <<machinesSelected, unsaved, navigation, managed>>

(* The next request of the queue is written when the one before is over. *)
SendNext ==
  \/ /\ queued = 0
     /\ post' = {}
     /\ UNCHANGED queued
  \/ /\ queued > 0
     /\ post' = {selection}
     /\ queued' = queued - 1

\* Slip: the calendar asks with the machines it asked with before.
UpdateCalendarBefore ==
  FetchAndRender(window.start, window.end, machinesSelected)

(* updateCalendar *)
UpdateCalendar ==
  FetchAndRender(window.start, window.end, machinesSelected')

(* The server's list comes back in the script that the request re-renders. *)
Posted ==
  /\ \E sent \in post : machinesSelected' = sent
  /\ unsaved' = FALSE
  /\ SendNext
  /\ UpdateCalendar
  /\ UNCHANGED <<selection, navigation>>

(* A session that expired, a server that does not answer: nothing is re-rendered. *)
PostFailed ==
  /\ post # {}
  /\ unsaved' = TRUE
  /\ SendNext
  /\ UNCHANGED machinesSelected
  /\ UpdateCalendar
  /\ UNCHANGED <<selection, navigation>>

-----------------------------------------------------------------------------
(* Answers and gestures                                                     *)

OnScreen(f) ==
  \/ f.moved
  \/ /\ From[f.entry] < window.end * TicksPerDay
     /\ window.start * TicksPerDay < To[f.entry]

AnswerStep ==
  /\ \E r \in requests : Answer(r) \/ AnswerError(r)
  /\ UNCHANGED <<navigation, selecting>>

LoseStep ==
  /\ \E r \in requests : Lose(r)
  /\ UNCHANGED <<navigation, selecting>>

(* The end of a drag or of a resize that changed something. *)
EditStep ==
  /\ \E f \in events : OnScreen(f) /\ Edit(f.entry)
  /\ UNCHANGED <<navigation, selecting>>

Next ==
  \/ \E inc \in {-1, 1} : Move(inc)
  \/ \E name \in ViewName : ChangeView(name)
  \/ ClickToday
  \/ WindowResize
  \/ \E m \in Machine : Toggle(m)
  \/ Posted
  \/ PostFailed
  \/ AnswerStep
  \/ LoseStep
  \/ EditStep

Spec == Init /\ [][Next]_vars

(* Every request ends, with an answer or an error, unless it is lost. *)
FairSpec ==
  /\ Spec
  /\ WF_vars(Posted \/ PostFailed)
  /\ WF_vars(AnswerStep)

-----------------------------------------------------------------------------
(* Properties                                                               *)

\* The variables hold what the code stores in them.
TypeOK ==
  /\ date \in Dates
  /\ window.name \in ViewName /\ window = WindowOf(window.name, date)
  /\ todayDisabled \in BOOLEAN /\ unsaved \in BOOLEAN /\ drawn \in BOOLEAN
  /\ selection \subseteq Machine /\ machinesSelected \subseteq Machine
  /\ post \subseteq SUBSET Machine /\ Cardinality(post) <= 1 /\ queued \in Nat
  /\ range \in [start : Int, end : Int]
  /\ currentFetchID \in 1..MaxFetches
  /\ pendingSourceCnt \in Nat /\ loadingLevel \in Nat
  /\ cache \subseteq Event /\ events \subseteq Event
  /\ requests \cup lost \subseteq
       [id : 1..MaxFetches, source : Source,
        question : [start : Int, end : Int, machines : SUBSET Machine]]
  /\ failed \subseteq Source

\* The two counters of EventManager: one callback of the current fetch is still to
\* run for each pending source, and the spinner turns for each request without an
\* end, those of abandoned fetches too.
CountersExact ==
  /\ pendingSourceCnt = Cardinality({r \in requests \cup lost : r.id = currentFetchID})
  /\ loadingLevel = Cardinality(requests \cup lost)

\* Whatever the path through views, clicks on "today" and changes of view, the
\* view is about the calendar's date, draws all it is about, and what it draws has
\* been asked for (lazyFetching must not take old answers for the new days). The
\* button "today" is off exactly when its click would not move the view.
WindowFits ==
  /\ IsWithin(date, window.intervalStart, window.intervalEnd)
  /\ window.start <= window.intervalStart /\ window.intervalEnd <= window.end
  /\ range.start <= window.start /\ window.end <= range.end
  /\ window.name = "month" => window.end - window.start = 42
  /\ todayDisabled <=> IsWithin(Today, window.intervalStart, window.intervalEnd)

\* Who reads the title as titles are read, the end of a range giving the start what it
\* lacks and the other way round, knows the first and the last day of the view, also
\* where the days lie in two months or two years.
TitleTells ==
  LET first == IF window.name = "month" THEN window.intervalStart ELSE window.start
      last  == IF window.name = "agendaWeek" THEN window.end - 1 ELSE first
      units == {UnitOf[chunk] : chunk \in ToSet(TitleFormat[window.name]) \ {"literal"}}
  IN  \A unit \in units :
        /\ ReadFirst(title, unit) = {Field(first, unit)}
        /\ ReadLast(title, unit) = {Field(last, unit)}

\* The view covers what it is about, has asked for what it draws, and its title
\* and its button tell which days these are.
ViewExact == WindowFits /\ TitleTells

\* Nothing under way and nothing failed: what the user may take as the reservations of
\* the machines selected on the screen.
Quiet ==
  /\ post = {} /\ pendingSourceCnt = 0
  /\ ~ unsaved /\ failed = {}

Shown(r) == \E f \in events : f.entry = r

\* Once everything has settled the page shows the reservations of the selected
\* machines and of no others; one that is missing crosses an edge of the days that
\* were last asked for, as FindReservations only finds whole ones.
ShownExact ==
  Quiet =>
    /\ drawn
    /\ \A r \in Reservation :
         /\ Shown(r) => MachineOf[r] \in selection
         /\ (/\ MachineOf[r] \in selection /\ ~ Shown(r)
             /\ From[r] < window.end * TicksPerDay /\ window.start * TicksPerDay < To[r])
            => From[r] < range.start * TicksPerDay \/ range.end * TicksPerDay < To[r]

\* The screen is only ever given the whole answer to the latest question, never a
\* part of it or an answer to an earlier one.
Latest ==
  INSTANCE LatestAnswer WITH
    Question <- [start : Int, end : Int, machines : SUBSET Machine],
    question <- Asked(range.start, range.end, machinesSelected),
    due <- pendingSourceCnt > 0,
    shown <- {f.entry : f \in events}

LatestSpec == Latest!Spec

\* One answer of Google that never comes holds back the reservations too, until
\* something makes the calendar ask again.
LostHoldsAll ==
  [][(\E r \in lost : r.id = currentFetchID) /\ currentFetchID' = currentFetchID
       => UNCHANGED events]_vars

\* "next" shows what follows and "prev" what precedes, without gap or overlap,
\* whatever date the calendar was left at within the view.
Adjacent ==
  [][window'.name = window.name =>
       /\ date' = IncrementDate(window.name, date, 1)
            => window'.intervalStart = window.intervalEnd
       /\ date' = IncrementDate(window.name, date, -1)
            => window'.intervalEnd = window.intervalStart]_<<date, window>>

\* When the user stops, the spinner stops and the page shows what is selected,
\* unless Google's answer was lost or the selection never reached the server.
Settles ==
  <>[](lost # {} \/ (/\ loadingLevel = 0 /\ drawn
                     /\ unsaved \/ machinesSelected = selection))

=============================================================================
