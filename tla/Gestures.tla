------------------------------ MODULE Gestures ------------------------------
(***************************************************************************)
(* Dragging and resizing the events of the reservations page: the mouse    *)
(* handlers of AgendaEventRenderer and DayEventRenderer in fullcalendar.js *)
(* with the objects a view shares between them, HoverListener and          *)
(* OverlayManager, and the drawing that every drop ends with. The date of  *)
(* the page does not change. An answer may come at any time and have the   *)
(* events drawn anew, whatever the mouse holds.                            *)
(*                                                                         *)
(* External: jQuery UI. A draggable gets start, drag and stop. When its    *)
(* option revert is set, its element goes back on its own for half a       *)
(* second before stop runs; the mouse is free in the meantime, and an      *)
(* answer may come. A draggable whose element leaves the page is           *)
(* destroyed: setting an option of it throws, and no stop runs unless the  *)
(* element is going back.                                                  *)
(***************************************************************************)
EXTENDS SlotSegments, DaySegments

CONSTANTS
  Id,             \* events, numbered in the order of their titles
  Own,            \* those the user may move
  Height,         \* Height[id]: the outer height of an event's element in a day cell
  Date,           \* the calendar's date
  RowPx, ColPx,   \* bound: pixels of a snap, and of the width of a column
  Columns,        \* bound: the columns the mouse comes to, if the view has them
  Above,          \* snaps that the page would have room for above the grid
  Worlds          \* what the page may show when the user comes to it

(* Sources date events so that they last some time. *)
AreEvents(es) ==
  /\ DOMAIN es \subseteq Id
  /\ \A id \in DOMAIN es :
       IsEvent(es[id]) /\ es[id].start.at < GetEventEnd(es[id]).at

ASSUME GestureAssumption ==
  /\ Id \subseteq Nat \ {0} /\ Own \subseteq Id
  /\ Height \in [Id -> Nat \ {0}]
  /\ Date \in Int /\ KnownDay(Date)
  /\ RowPx \in Nat \ {0} /\ ColPx \in Nat \ {0}
  /\ Columns \subseteq Nat
  /\ Above \in Nat /\ Above < MinTime
  /\ \A w \in Worlds :
       /\ w.view \in ViewName /\ w.grabs \in Nat
       /\ AreEvents(w.events) /\ AreEvents(w.server)

(* The sources give a page finitely many. *)
ASSUME FewEvents == IsFiniteSet(Id)

VARIABLES
  page,        \* the view, its grid, and server, the events as the sources date
               \* them; never changes
  events,      \* the events on the page
  gesture,     \* what the mouse holds
  reverting,   \* drags whose element goes back; one is torn when the element has
               \* left the page, and owns hover's callback or has g, what its own
               \* callback closed over when another replaced it
  hover,       \* the view's HoverListener and the variables its callback closes over
  overlay,     \* the ranges marked with an overlay
  hidden,      \* events whose elements have been hidden
  helpers,     \* events with a temporary element
  grabs,       \* bound: gestures the user may still make, none after a drop
  upset        \* what has gone wrong: a gesture was "torn" off by a redraw, a resize
               \* or a drop "overtaken" by one, or a resize has "left" its callback to
               \* later drags

screen == <<overlay, hidden, helpers>>
vars == <<page, events, gesture, reverting, hover, screen, grabs, upset>>

-----------------------------------------------------------------------------
(* The grid of cells and the mouse                                          *)

GridOf(view) ==
  LET window == WindowOf(view, Date)
  IN  [start |-> window.start,
       rowCnt |-> IF view = "month" THEN (window.end - window.start) \div 7 ELSE 1,
       colCnt |-> IF view = "agendaDay" THEN 1 ELSE GetCellsPerWeek]

IsMonth == page.view = "month"

Grid == page.grid

(* Row 0 of the agenda is the row of all-day events, the others are snaps.  *)
GridRows == IF IsMonth THEN Grid.rowCnt ELSE 1 + (MaxTime - MinTime)

Outside == [x |-> -1, y |-> -1]

NoCell == [row |-> -1, col |-> -1]

(* coordinateGrid.cell *)
Cell(p) == IF p = Outside THEN NoCell ELSE [row |-> p.y \div RowPx, col |-> p.x \div ColPx]

(* Bound: in a month the mouse is in the corner of a cell. *)
Pointer ==
  LET xs(c) == IF IsMonth THEN {c * ColPx} ELSE c * ColPx..(c + 1) * ColPx - 1
      ys(r) == IF IsMonth THEN {r * RowPx} ELSE r * RowPx..(r + 1) * RowPx - 1
  IN  [x : UNION {xs(c) : c \in IF Grid.colCnt = 1 THEN {0} ELSE Columns},
       y : UNION {ys(r) : r \in 0..GridRows - 1}] \cup {Outside}

JsRound(n, d) == (2 * n + d) \div (2 * d)

DateOf(cell) == CellToDate(cell, Grid.colCnt, Grid.start)

DayDelta(cell, origCell) ==
  IF IsMonth THEN DateOf(cell) - DateOf(origCell)
  ELSE DateOf([cell EXCEPT !.row = 0]) - DateOf([origCell EXCEPT !.row = 0])

DayPieces(event) == RangeToSegments(event.start, GetEventEnd(event), Grid)

(* The segments of a timed event in the columns of the agenda. *)
SlotPieces(id) ==
  UNION {{[col |-> c, seg |-> s] : s \in
            SlotSegs([i \in {id} |-> events[id]],
                     DateOf([row |-> 0, col |-> c]) * TicksPerDay + MinTime,
                     DateOf([row |-> 0, col |-> c]) * TicksPerDay + MaxTime)}
           : c \in 0..Grid.colCnt - 1}

SnapOf(at) == (at % TicksPerDay) - MinTime

IsDrawn(id) ==
  /\ id \in DOMAIN events
  /\ IF IsMonth \/ events[id].allDay THEN DayPieces(events[id]) # {} ELSE SlotPieces(id) # {}

AddDays(m, n) == Add(m, n * TicksPerDay)

-----------------------------------------------------------------------------
(* HoverListener. bound holds the types of mouse events it listens to, type *)
(* the one its last start gave; alive is whether the draggable of its       *)
(* callback still exists.                                                   *)

NoHover == [bound |-> {}, type |-> "drag", alive |-> FALSE, first |-> NoCell, cell |-> NoCell,
            g |-> [kind |-> "none", id |-> 0]]

HoverStart(type, cell, g) ==
  [bound |-> hover.bound \cup {type}, type |-> type, alive |-> TRUE,
   first |-> cell, cell |-> cell, g |-> g]

(* stop. A callback that nothing can call any more is forgotten. *)
HoverStop(needed) ==
  LET bound == hover.bound \ {hover.type}
  IN  IF bound = {} /\ ~ needed THEN NoHover ELSE [hover EXCEPT !.bound = bound]

Marked(event, delta) ==
  {<<AddDays(event.start, delta), AddDays(GetEventEnd(event), delta)>>}

(* The event a callback closes over: one of the page, or one that a redraw  *)
(* has put aside.                                                           *)
EventOf(g) == IF g.kept THEN events[g.id] ELSE g.event

Screen(over, hid, help) == [overlay |-> over, hidden |-> hid, helpers |-> help]

Unseen == Screen(overlay, hidden, helpers)

(* A result of the callback: what it closes over, what it draws, and        *)
(* whether it throws.                                                       *)
Told(g, drawn, throws) == [g |-> g, screen |-> drawn, throws |-> throws]

(* draggableDayEvent of the month. No drag is heard by the callback of      *)
(* another there, so the draggable exists.                                  *)
MonthDragHover(g, cell, first) ==
  LET delta == IF cell = NoCell THEN 0 ELSE DayDelta(cell, first)
  IN  Told([g EXCEPT !.revert = cell = NoCell \/ cell = first, !.dayDelta = delta],
           [Unseen EXCEPT !.overlay = IF cell = NoCell THEN {} ELSE Marked(EventOf(g), delta)],
           ~ hover.alive)

(* draggableDayEvent of the agenda: over the slots the element becomes that *)
(* of a timed event, if it is the event's first segment. Without its        *)
(* draggable it cannot, and what follows is lost.                           *)
AgendaDragHover(g, cell, first) ==
  LET inside == cell # NoCell
      slots  == inside /\ cell.row > 0
      delta  == IF inside THEN DayDelta(cell, first) ELSE g.dayDelta
      allDay == IF slots THEN g.allDay /\ ~ g.isStart ELSE TRUE
      stuck  == ~ hover.alive /\ allDay # g.allDay
  IN  Told([g EXCEPT !.dayDelta = delta, !.allDay = IF stuck THEN @ ELSE allDay,
                     !.revert = IF stuck THEN @ /\ ~ inside
                                ELSE ~ inside \/ (slots /\ ~ g.isStart)
                                       \/ (allDay /\ delta = 0)],
           [Unseen EXCEPT !.overlay = IF inside /\ ~ slots THEN Marked(EventOf(g), delta) ELSE {}],
           ~ hover.alive)

(* resizableDayEvent: a temporary element stands for the event. An event    *)
(* without elements cannot be hidden or shown, and what follows is lost.    *)
ResizeHover(g, cell, first) ==
  LET offset(c) == CellToCellOffset(c, Grid.colCnt)
      delta  == CellOffsetToDayOffset(Max({offset(cell), g.least}), Grid.start)
                  - CellOffsetToDayOffset(offset(first), Grid.start)
      throws == ~ IsDrawn(g.id) /\ (delta # 0 \/ g.helper)
      moved  == [g EXCEPT !.dayDelta = delta, !.helper = delta # 0 \/ (throws /\ g.helper)]
      help   == IF delta # 0 THEN helpers \cup {g.id}
                ELSE IF throws THEN helpers ELSE helpers \ {g.id}
      hid    == IF delta # 0 THEN hidden \cup {g.id}
                ELSE IF g.helper THEN hidden \ {g.id} ELSE hidden
  IN  IF cell = NoCell THEN Told(g, Unseen, FALSE)
      ELSE IF throws THEN Told(moved, Screen(overlay, hidden, help), TRUE)
      ELSE Told(moved,
                Screen({<<EventOf(g).start, AddDays(GetEventEnd(EventOf(g)), delta)>>}, hid, help),
                FALSE)

Change(cell) ==
  CASE hover.g.kind = "monthDrag"  -> MonthDragHover(hover.g, cell, hover.first)
    [] hover.g.kind = "agendaDrag" -> AgendaDragHover(hover.g, cell, hover.first)
    [] hover.g.kind = "dayResize"  -> ResizeHover(hover.g, cell, hover.first)

(* mouse: the callback runs when the mouse comes to another cell.           *)
Hover(type, cell) ==
  IF type \notin hover.bound \/ cell = hover.cell
  THEN [hover |-> hover, screen |-> Unseen, throws |-> FALSE]
  ELSE LET told == Change(cell)
       IN  [hover |-> [hover EXCEPT !.g = told.g, !.cell = IF told.throws THEN @ ELSE cell],
            screen |-> told.screen, throws |-> told.throws]

\* Slip: an element that was hidden stays hidden.
ShowHidden(seen) ==
  /\ overlay' = seen.overlay
  /\ hidden' = hidden \cup seen.hidden
  /\ helpers' = seen.helpers

Show(seen) ==
  /\ overlay' = seen.overlay
  /\ hidden' = seen.hidden
  /\ helpers' = seen.helpers

-----------------------------------------------------------------------------
(* Drawing anew                                                             *)

Nothing == [kind |-> "none", id |-> 0]

Mouse == gesture.kind

(* clearEvents and renderEvents: every element is a new one. What jQuery UI *)
(* holds is torn off.                                                       *)
Rerender(held) ==
  /\ hidden' = {}
  /\ helpers' = {}
  /\ gesture' = IF held.kind = "dayResize" THEN held ELSE Nothing

(* No draggable is left. *)
Dead(listener) == [listener EXCEPT !.alive = FALSE]

Torn(r) == [r EXCEPT !.torn = TRUE]

(* eventDrop and eventResize, of the events on the page that have the id.   *)
(* Bound: the user drops one event.                                         *)
Mutate(id, changes) ==
  /\ grabs' = 0
  /\ events' = [i \in DOMAIN events |-> IF i = id THEN MutateEvents(events[i], changes) ELSE events[i]]

EventDrop(event, id, newStart) == Mutate(id, Changes(event, <<newStart>>, <<>>))

EventResize(event, id, newEnd) == Mutate(id, Changes(event, <<>>, <<newEnd>>))

(* A callback's event is no longer the one on the page. *)
Aside(g) == IF g.id = 0 THEN g ELSE [g EXCEPT !.event = EventOf(g), !.kept = FALSE]

(* An answer: the events as the sources date them, for the machines that    *)
(* are selected by now.                                                     *)
Redraw ==
  /\ \E shown \in SUBSET DOMAIN page.server :
       events' = [id \in shown |-> page.server[id]]
  /\ Rerender(gesture)
  /\ LET healed == IF hover.bound = {} THEN upset \ {"left"} ELSE upset
     IN  upset' = CASE Mouse = "none"      -> healed \ {"overtaken"}
                    [] Mouse = "dayResize" -> healed \cup {"overtaken"}
                    [] OTHER               -> (healed \ {"overtaken"}) \cup {"torn"}
  /\ hover' = [Dead(hover) EXCEPT !.g = Aside(@)]
  /\ reverting' = {[Torn(r) EXCEPT !.g = Aside(@)] : r \in reverting}
  /\ UNCHANGED <<page, overlay, grabs>>

(* A draggable that goes back takes no other drag. Bound: nor is an edge of *)
(* its element taken hold of.                                               *)
Free(id) ==
  /\ Mouse = "none"
  /\ grabs > 0
  /\ id \in DOMAIN events \cap Own
  /\ \A r \in reverting : r.torn \/ r.id # id
  /\ grabs' = grabs - 1

(* Bound: one element goes back at a time.                                  *)
GoBack(kind, own) ==
  /\ reverting = {}
  /\ reverting' = {[kind |-> kind, id |-> gesture.id, torn |-> FALSE, own |-> own,
                    g |-> NoHover.g]}
  /\ gesture' = Nothing

(* The callback of a drag that goes back, before another replaces it.       *)
Keep(r) == IF r.own THEN [r EXCEPT !.own = FALSE, !.g = hover.g] ELSE r

-----------------------------------------------------------------------------
(* A timed event of the agenda: draggableSlotEvent                          *)

GrabSlot(id, p) ==
  /\ Free(id)
  /\ ~ IsMonth /\ ~ events[id].allDay
  /\ \E piece \in SlotPieces(id) :
       /\ Cell(p).col = piece.col
       /\ Cell(p).row - 1 \in SnapOf(piece.seg.start)..SnapOf(piece.seg.end - 1)
  /\ gesture' = [kind |-> "slotDrag", id |-> id, from |-> p, inBounds |-> TRUE,
                 allDay |-> FALSE, colDelta |-> 0, dayDelta |-> 0, snapDelta |-> 0]
  /\ hidden' = hidden \cup {id}
  /\ UNCHANGED <<page, events, reverting, hover, overlay, helpers, upset>>

(* Where the event would be dropped. *)
DraggedStart(g) ==
  LET start == events[g.id].start
  IN  IF g.allDay THEN AddDays(StripTime(start), g.dayDelta)
      ELSE AddDays(Add(start, g.snapDelta), g.dayDelta)

DraggedEnd(g) ==
  IF g.allDay THEN Add(DraggedStart(g), DefaultAllDayEventDuration)
  ELSE AddDays(Add(GetEventEnd(events[g.id]), g.snapDelta), g.dayDelta)

(* drag: the element follows the mouse in steps of a cell, along a single   *)
(* column only up and down.                                                 *)
Dragged(g, p) ==
  LET colDelta == IF Grid.colCnt = 1 THEN 0 ELSE JsRound(p.x - g.from.x, ColPx)
      allDay   == Cell(p).row = 0
      col      == Min({Grid.colCnt - 1, Max({0, Cell(g.from).col + colDelta})})
  IN  IF p = Outside THEN [g EXCEPT !.inBounds = FALSE]
      ELSE [g EXCEPT !.inBounds = TRUE, !.allDay = allDay, !.colDelta = colDelta,
                     !.dayDelta = DayDelta([row |-> 0, col |-> col], Cell(g.from)),
                     !.snapDelta = IF allDay THEN @ ELSE JsRound(p.y - g.from.y, RowPx)]

(* The view's HoverListener hears the drag first, if nobody has stopped it; *)
(* when it throws, drag does not run. updateUI marks the days.              *)
DragSlot(p) ==
  /\ Mouse = "slotDrag"
  /\ LET heard == Hover("drag", Cell(p))
         g     == IF heard.throws THEN gesture ELSE Dragged(gesture, p)
     IN  /\ hover' = heard.hover
         /\ gesture' = g
         /\ Show([heard.screen EXCEPT
                    !.overlay = IF g = gesture THEN @
                                ELSE IF g.inBounds /\ g.allDay
                                THEN {<<DraggedStart(g), DraggedEnd(g)>>} ELSE {}])
  /\ UNCHANGED <<page, events, reverting, grabs, upset>>

(* stop *)
ReleaseSlot ==
  /\ Mouse = "slotDrag"
  /\ \/ /\ ~ gesture.inBounds
        /\ GoBack("slotDrag", FALSE)
        /\ UNCHANGED <<events, hover, screen, grabs, upset>>
     \/ /\ gesture.inBounds
        /\ overlay' = {}
        /\ upset' = upset \ {"torn"}
        /\ IF gesture.allDay \/ gesture.dayDelta # 0 \/ gesture.snapDelta # 0
           THEN /\ EventDrop(events[gesture.id], gesture.id, DraggedStart(gesture))
                /\ Rerender(Nothing)
                /\ hover' = Dead(hover)
                /\ reverting' = {Torn(r) : r \in reverting}
           ELSE /\ hidden' = hidden \ {gesture.id}
                /\ gesture' = Nothing
                /\ UNCHANGED <<events, reverting, hover, helpers, grabs>>
  /\ UNCHANGED page

-----------------------------------------------------------------------------
(* The lower edge of a timed event: resizableSlotEvent                      *)

GrabSlotEdge(id) ==
  /\ Free(id)
  /\ ~ IsMonth /\ ~ events[id].allDay
  /\ \E piece \in SlotPieces(id) :
       /\ piece.seg.isEnd
       /\ gesture' = [kind |-> "slotResize", id |-> id, snapDelta |-> 0,
                      length |-> piece.seg.end - piece.seg.start,
                      edge |-> SnapOf(piece.seg.end - 1)]
  /\ hidden' = hidden \cup {id}
  /\ UNCHANGED <<page, events, reverting, hover, overlay, helpers, upset>>

(* Bound: to the lower end of the column. No segment is shorter than a snap. *)
ResizeSlot(row) ==
  /\ Mouse = "slotResize"
  /\ gesture' = [gesture EXCEPT !.snapDelta = Max({1 - gesture.length, row - gesture.edge})]
  /\ UNCHANGED <<page, events, reverting, hover, screen, grabs, upset>>

ReleaseSlotEdge ==
  /\ Mouse = "slotResize"
  /\ IF gesture.snapDelta # 0
     THEN LET event == events[gesture.id]
          IN  /\ EventResize(event, gesture.id, Add(GetEventEnd(event), gesture.snapDelta))
              /\ Rerender(Nothing)
              /\ hover' = Dead(hover)
              /\ reverting' = {Torn(r) : r \in reverting}
     ELSE /\ hidden' = hidden \ {gesture.id}
          /\ gesture' = Nothing
          /\ UNCHANGED <<events, reverting, hover, helpers, grabs>>
  /\ UNCHANGED <<page, overlay, upset>>

-----------------------------------------------------------------------------
(* An event in day cells: draggableDayEvent of the month and of the agenda  *)

GrabDay(id, p) ==
  /\ Free(id)
  /\ IsMonth \/ events[id].allDay
  /\ \E piece \in DayPieces(events[id]) :
       /\ Cell(p).row = piece.row
       /\ Cell(p).col \in piece.leftCol..piece.rightCol
       /\ hover' = HoverStart("drag", Cell(p),
                     [kind |-> IF IsMonth THEN "monthDrag" ELSE "agendaDrag", id |-> id,
                      event |-> events[id], kept |-> TRUE, isStart |-> piece.isStart,
                      dayDelta |-> 0, allDay |-> TRUE, revert |-> TRUE])
  /\ gesture' = [kind |-> "dayDrag", id |-> id, grip |-> p.y % RowPx, top |-> 0]
  /\ overlay' = Marked(events[id], 0)
  /\ hidden' = hidden \cup {id}
  /\ reverting' = {Keep(r) : r \in reverting}
  /\ UNCHANGED <<page, events, helpers, upset>>

(* top is where the element of the agenda is. *)
DragDay(p) ==
  /\ Mouse = "dayDrag"
  /\ LET heard == Hover("drag", Cell(p))
     IN  hover' = heard.hover /\ Show(heard.screen)
  /\ gesture' = IF IsMonth \/ p = Outside THEN gesture
                ELSE [gesture EXCEPT !.top = p.y - gesture.grip]
  /\ UNCHANGED <<page, events, reverting, grabs, upset>>

DroppedStart(g, top) ==
  LET start == AddDays(EventOf(g).start, g.dayDelta)
  IN  IF IsMonth \/ g.allDay THEN start
      ELSE RezoneDate(SetTime(start, MinTime + JsRound(top - RowPx, RowPx)))

(* The event has moved, for all that stop sees. *)
Changed(g) == IF IsMonth THEN g.dayDelta # 0 ELSE ~ g.revert

(* stop, in a drag whose callback closes over g *)
StopDay(g, top, held) ==
  LET stopped == HoverStop(held.kind \in {"dayDrag", "dayResize"})
      lost    == IF Changed(g) /\ held.kind \notin {"none", "dayResize"} THEN {"torn"} ELSE {}
      late    == IF Changed(g) /\ ~ g.kept THEN {"overtaken"} ELSE {}
  IN  /\ overlay' = {}
      /\ upset' = (upset \ {"torn"}) \cup lost \cup late
      /\ IF Changed(g)
         THEN /\ EventDrop(EventOf(g), g.id, DroppedStart(g, top))
              /\ Rerender(held)
              /\ hover' = Dead(stopped)
         ELSE /\ hidden' = hidden \ {g.id}
              /\ gesture' = held
              /\ hover' = stopped
              /\ UNCHANGED <<events, helpers, grabs>>

ReleaseDay ==
  /\ Mouse = "dayDrag"
  /\ \/ /\ hover.g.revert
        /\ GoBack("dayDrag", TRUE)
        /\ UNCHANGED <<events, hover, screen, grabs, upset>>
     \/ /\ ~ hover.g.revert
        /\ StopDay(hover.g, gesture.top, Nothing)
        /\ reverting' = IF Changed(hover.g) THEN {Torn(r) : r \in reverting} ELSE reverting
  /\ UNCHANGED page

Known(r) == IF r.own THEN hover.g ELSE r.g

(* The element is back where it was, or has left the page; stop runs,       *)
(* whatever the mouse holds. Without its draggable, that of a timed event   *)
(* throws before it shows the event.                                        *)
RevertEnds ==
  /\ \E r \in reverting :
       /\ reverting' = reverting \ {r}
       /\ \/ /\ r.kind = "dayDrag"
             /\ StopDay(Known(r), IF r.torn THEN - Above * RowPx ELSE 0, gesture)
          \/ /\ r.kind = "slotDrag"
             /\ overlay' = {}
             /\ upset' = upset \ {"torn"}
             /\ hidden' = IF r.torn THEN hidden ELSE hidden \ {r.id}
             /\ UNCHANGED <<events, gesture, hover, helpers, grabs>>
  /\ UNCHANGED page

-----------------------------------------------------------------------------
(* The right edge of an all-day event: resizableDayEvent                    *)

GrabDayEdge(id) ==
  /\ Free(id)
  /\ events[id].allDay
  /\ \E piece \in DayPieces(events[id]) :
       /\ piece.isEnd
       /\ hover' = HoverStart("mousemove", [row |-> piece.row, col |-> piece.rightCol],
                     [kind |-> "dayResize", id |-> id, event |-> events[id], kept |-> TRUE,
                      least |-> DayOffsetToCellOffset(DateToDayOffset(events[id].start, Grid),
                                                      Grid.start),
                      dayDelta |-> 0, helper |-> FALSE])
  /\ gesture' = [kind |-> "dayResize", id |-> id]
  /\ overlay' = Marked(events[id], 0)
  /\ reverting' = {Keep(r) : r \in reverting}
  /\ UNCHANGED <<page, events, hidden, helpers, upset>>

ResizeDay(p) ==
  /\ Mouse = "dayResize"
  /\ LET heard == Hover("mousemove", Cell(p))
     IN  hover' = heard.hover /\ Show(heard.screen)
  /\ UNCHANGED <<page, events, gesture, reverting, grabs, upset>>

(* mouseup *)
ReleaseDayEdge ==
  /\ Mouse = "dayResize"
  /\ hover' = HoverStop(FALSE)
  /\ overlay' = {}
  /\ upset' = (upset \ {"torn"}) \cup (IF hover'.bound = {} THEN {} ELSE {"left"})
  /\ LET g == hover.g
     IN  IF g.dayDelta # 0
         THEN /\ EventResize(EventOf(g), g.id, AddDays(GetEventEnd(EventOf(g)), g.dayDelta))
              /\ Rerender(Nothing)
              /\ reverting' = {Torn(r) : r \in reverting}
         ELSE /\ gesture' = Nothing
              /\ UNCHANGED <<events, reverting, hidden, helpers, grabs>>
  /\ UNCHANGED page

-----------------------------------------------------------------------------

Init ==
  /\ \E w \in Worlds :
       /\ page = [view |-> w.view, grid |-> GridOf(w.view), server |-> w.server]
       /\ events = w.events
       /\ grabs = w.grabs
  /\ gesture = Nothing
  /\ reverting = {}
  /\ hover = NoHover
  /\ overlay = {} /\ hidden = {} /\ helpers = {}
  /\ upset = {}

Next ==
  \/ \E id \in Own : \/ \E p \in Pointer : GrabSlot(id, p) \/ GrabDay(id, p)
                     \/ GrabSlotEdge(id)
                     \/ GrabDayEdge(id)
  \/ \E p \in Pointer : DragSlot(p) \/ DragDay(p) \/ ResizeDay(p)
  \/ \E row \in 0..MaxTime - MinTime - 1 : ResizeSlot(row)
  \/ ReleaseSlot \/ ReleaseSlotEdge \/ ReleaseDay \/ ReleaseDayEdge
  \/ RevertEnds
  \/ Redraw

Spec == Init /\ [][Next]_vars

-----------------------------------------------------------------------------
(* Properties                                                               *)

\* The variables hold what the code stores in them.
TypeOK ==
  /\ page.view \in ViewName /\ grabs \in Nat
  /\ DOMAIN events \subseteq Id
  /\ \A id \in DOMAIN events : IsEvent(events[id])
  /\ gesture.kind \in {"none", "slotDrag", "slotResize", "dayDrag", "dayResize"}
  /\ Mouse # "none" => gesture.id \in Own
  /\ \A r \in reverting : r.kind \in {"slotDrag", "dayDrag"} /\ r.id \in Own
  /\ Cardinality(reverting) <= 1
  /\ hover.bound \subseteq {"drag", "mousemove"}
  /\ Cardinality(overlay) <= 1
  /\ hidden \subseteq Id /\ helpers \subseteq Own
  /\ upset \subseteq {"torn", "overtaken", "left"}

\* Every segment of an event in day cells is drawn, once; no two of a row cover each
\* other, and the row has room for all.
RowsStacked ==
  Mouse = "none" =>
    LET inCells == [id \in {i \in DOMAIN events : IsMonth \/ events[i].allDay} |-> events[id]]
        drawn   == DrawDaySegments(inCells, Grid, Height)
    IN  /\ {s.seg : s \in drawn} = BuildSegments(inCells, Grid)
        /\ \A s, t \in drawn :
             /\ s.bottom <= s.room
             /\ s.seg = t.seg => s = t
             /\ (/\ s # t /\ s.seg.at.row = t.seg.at.row
                 /\ IsDaySegmentCollision(s.seg, {t.seg}))
                => s.bottom <= t.top \/ t.bottom <= s.top

\* An event ends after it starts, unless an answer overtook a resize or a late drop that
\* was reckoned from the dates before.
EndAfterStart ==
  "overtaken" \notin upset =>
    \A id \in DOMAIN events : events[id].start.at < GetEventEnd(events[id]).at

\* The agenda draws each tick of a timed event that it has a row for, once; a grid
\* of day cells draws an event in the days it lasts, the last of them counting if the
\* event takes some of it, up to nextDayThreshold, with one first and one last piece.
DrawnWhereItLasts ==
  Mouse = "none" =>
    \A id \in DOMAIN events :
      LET e     == events[id]
          start == e.start.at
          end   == GetEventEnd(e).at
          late  == TimeOf(GetEventEnd(e)) # 0 /\ TimeOf(GetEventEnd(e)) >= NextDayThreshold
          lastDay == (end - (IF late THEN 0 ELSE TicksPerDay)) \div TicksPerDay
          pieces  == DayPieces(e)
          slots   == SlotPieces(id)
      IN  IF IsMonth \/ e.allDay
          THEN /\ \A row \in 0..Grid.rowCnt - 1, col \in 0..Grid.colCnt - 1 :
                    Cardinality({p \in pieces : p.row = row /\ col \in p.leftCol..p.rightCol}) =
                      IF DateOf([row |-> row, col |-> col]) \in
                           DayOf(e.start)..Max({lastDay, DayOf(e.start)})
                      THEN 1 ELSE 0
               /\ Cardinality({p \in pieces : p.isStart}) <= 1
               /\ Cardinality({p \in pieces : p.isEnd}) <= 1
          ELSE \A col \in 0..Grid.colCnt - 1, t \in MinTime..MaxTime - 1 :
                 LET at == DateOf([row |-> 0, col |-> col]) * TicksPerDay + t
                 IN  Cardinality({p \in slots :
                                    p.col = col /\ p.seg.start <= at /\ at < p.seg.end}) =
                       IF start <= at /\ at < end THEN 1 ELSE 0

\* Every event lasts some time, and is drawn exactly where it does, with no other over it
\* in the cells of days.
DrawnExactly == EndAfterStart /\ DrawnWhereItLasts /\ RowsStacked

\* When the mouse is free and nothing goes back, no resize is heard any more; only a
\* gesture torn off by an answer has left its range marked, only one heard by the
\* callback a resize left behind keeps an event hidden, and only such a one or a resize
\* overtaken by an answer a temporary element.
CleanAfter ==
  (Mouse = "none" /\ reverting = {}) =>
    /\ "mousemove" \notin hover.bound
    /\ "torn" \notin upset => overlay = {}
    /\ "left" \notin upset => hidden = {}
    /\ upset \cap {"left", "overtaken"} = {} => helpers = {}

Drops == ReleaseSlot \/ ReleaseDay \/ RevertEnds

SameDays(event, mark) ==
  DayPieces(event) = RangeToSegments(mark[1], mark[2], Grid)

\* An event that is dropped or resized while days are marked is then drawn in
\* exactly these days: of a timed event, if no HoverListener hears its drag too.
DropAsMarked ==
  [][/\ ReleaseSlot \/ ReleaseDay \/ ReleaseDayEdge
     /\ upset = {}
     /\ Mouse = "slotDrag" => hover.bound = {}
     => \A id \in DOMAIN events : events'[id] # events[id] =>
          \A mark \in overlay : SameDays(events'[id], mark)]_vars

\* An element that goes back, of an event that an answer has replaced since.
Overtaken == \E r \in reverting : r.kind = "dayDrag" /\ ~ Known(r).kept

\* A drop moves one event and keeps how long it lasts, unless it crosses between
\* the all-day row and the slots; then the default duration is all it has. Dates from
\* before an answer are no measure of it: a late drop of an element that goes back.
KeepsDuration ==
  [][Drops =>
       /\ Cardinality({id \in DOMAIN events : events'[id] # events[id]}) <= 1
       /\ \/ RevertEnds /\ Overtaken
          \/ \A id \in DOMAIN events :
               LET length(e) == GetEventEnd(e).at - e.start.at
               IN  IF events'[id].allDay = events[id].allDay
                   THEN length(events'[id]) = length(events[id])
                   ELSE events'[id].end = <<>>]_vars

\* A drop does what the marks told, to one event, and leaves how long it lasts.
DropExact == DropAsMarked /\ KeepsDuration

=============================================================================
