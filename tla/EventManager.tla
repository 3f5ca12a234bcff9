---------------------------- MODULE EventManager ----------------------------
(***************************************************************************)
(* How the reservations page gets its events: EventManager of              *)
(* fullcalendar.js with the sources of fablabcalendar.js and gcal.js, and  *)
(* the query that ReservationsResource answers.                            *)
(*                                                                         *)
(* A fetch asks every source for the days drawn and empties the cache. The *)
(* answers fill the cache; the last one makes the cache the calendar's     *)
(* events. Answers to an earlier fetch are dropped. The array of events    *)
(* and the cache are one object while no answer is pending. Editing an     *)
(* event changes the cache. A moment is a number of ticks.                 *)
(***************************************************************************)
EXTENDS ViewDates

CONSTANTS
  Reservation,  \* rows of the table of reservations
  GoogleEvent,  \* entries of the Google calendar
  Machine,
  MachineOf,    \* MachineOf[r]: the machine a reservation is for
  From, To,     \* From[e], To[e]: when it starts and ends
  Own,          \* the reservations of the user who looks at the page
  TicksPerDay

Entry == Reservation \cup GoogleEvent

ASSUME EntryAssumption ==
  /\ TicksPerDay \in Nat \ {0}
  /\ Reservation \cap GoogleEvent = {}
  /\ MachineOf \in [Reservation -> Machine]
  /\ From \in [Entry -> Int] /\ To \in [Entry -> Int]
  /\ Own \subseteq Reservation

VARIABLES
  range,              \* rangeStart and rangeEnd
  currentFetchID,
  pendingSourceCnt,   \* sources the current fetch still waits for
  loadingLevel,       \* requests the spinner waits for
  cache,              \* events of the current fetch
  events,             \* events of the calendar
  drawn,              \* are they on the screen, or has it been cleared
  requests,           \* requests on their way
  lost,               \* requests no callback will ever run for
  failed              \* sources whose answer to the current fetch was an error

fetching == <<range, currentFetchID, requests, lost, failed>>
managed == <<fetching, pendingSourceCnt, loadingLevel, cache, events, drawn>>

(* The sources that answer later. The third one, stickySource, is an empty *)
(* array that answers within the call.                                     *)
Source == {"reservations", "google"}

Event == [entry : Entry, moved : BOOLEAN]

-----------------------------------------------------------------------------
(* What the sources answer                                                  *)

(* ReservationDAOImpl: whole reservations between two midnights.            *)
FindReservations(start, end, machines) ==
  {r \in Reservation : /\ start * TicksPerDay <= From[r]
                       /\ To[r] <= end * TicksPerDay
                       /\ MachineOf[r] \in machines}

(* External: the feed gives what overlaps the days asked for.               *)
GoogleFeed(start, end) ==
  {g \in GoogleEvent : From[g] < end * TicksPerDay /\ start * TicksPerDay < To[g]}

Asked(start, end, machines) == [start |-> start, end |-> end, machines |-> machines]

Reply(source, q) ==
  IF source = "google" THEN GoogleFeed(q.start, q.end)
                       ELSE FindReservations(q.start, q.end, q.machines)

(* ReservationsResource: no machine is the empty string, which is no number. *)
CanAnswer(source, q) == source = "google" \/ q.machines # {}

(* buildEvent: an event as its source dates it.                             *)
BuildEvents(entries) == {[entry |-> e, moved |-> FALSE] : e \in entries}

\* Slip: only the start is compared.
IsFetchNeededStart(start, end) == start < range.start

-----------------------------------------------------------------------------
(* Asking                                                                   *)

IsFetchNeeded(start, end) == start < range.start \/ end > range.end

(* stickySource has answered before fetchEvents returns. *)
FetchEvents(start, end, machines) ==
  /\ range' = [start |-> start, end |-> end]
  /\ cache' = {}
  /\ failed' = {}
  /\ currentFetchID' = currentFetchID + 1
  /\ pendingSourceCnt' = Cardinality(Source)
  /\ loadingLevel' = loadingLevel + Cardinality(Source)
  /\ requests' = requests \cup
       {[id |-> currentFetchID + 1, source |-> s, question |-> Asked(start, end, machines)]
          : s \in Source}
  /\ UNCHANGED <<events, lost>>

(* refetchEvents and getAndRenderEvents: the screen is cleared first. *)
FetchAndRender(start, end, machines) ==
  /\ FetchEvents(start, end, machines)
  /\ drawn' = FALSE

(* clearEvents then renderEvents: the events the calendar has, old ones too. *)
Rerender ==
  /\ drawn' = TRUE
  /\ UNCHANGED <<fetching, pendingSourceCnt, loadingLevel, cache, events>>

-----------------------------------------------------------------------------
(* Answers                                                                  *)

(* reportEvents *)
Report(found) ==
  /\ events' = found
  /\ drawn' = TRUE

\* Slip: answers to an abandoned fetch are taken for answers to the current one.
DeliverAny(r, found) ==
  /\ requests' = requests \ {r}
  /\ loadingLevel' = loadingLevel - 1
  /\ cache' = cache \cup found
  /\ pendingSourceCnt' = pendingSourceCnt - 1
  /\ IF pendingSourceCnt = 1 THEN Report(cache') ELSE UNCHANGED <<events, drawn>>
  /\ UNCHANGED <<range, currentFetchID, lost>>

\* Slip: every answer is shown when it comes.
DeliverAtOnce(r, found) ==
  /\ requests' = requests \ {r}
  /\ loadingLevel' = loadingLevel - 1
  /\ UNCHANGED <<range, currentFetchID, lost>>
  /\ \/ /\ r.id = currentFetchID
        /\ cache' = cache \cup found
        /\ pendingSourceCnt' = pendingSourceCnt - 1
        /\ Report(cache')
     \/ /\ r.id # currentFetchID
        /\ UNCHANGED <<cache, pendingSourceCnt, events, drawn>>

\* Slip: only an answer with events ends the spinner's turn.
DeliverSilent(r, found) ==
  /\ requests' = requests \ {r}
  /\ loadingLevel' = IF found = {} THEN loadingLevel ELSE loadingLevel - 1
  /\ UNCHANGED <<range, currentFetchID, lost>>
  /\ \/ /\ r.id = currentFetchID
        /\ cache' = cache \cup found
        /\ pendingSourceCnt' = pendingSourceCnt - 1
        /\ IF pendingSourceCnt = 1 THEN Report(cache') ELSE UNCHANGED <<events, drawn>>
     \/ /\ r.id # currentFetchID
        /\ UNCHANGED <<cache, pendingSourceCnt, events, drawn>>

(* The callback of fetchEventSource, then complete. *)
Deliver(r, found) ==
  /\ requests' = requests \ {r}
  /\ loadingLevel' = loadingLevel - 1
  /\ UNCHANGED <<range, currentFetchID, lost>>
  /\ \/ /\ r.id = currentFetchID
        /\ cache' = cache \cup found
        /\ pendingSourceCnt' = pendingSourceCnt - 1
        /\ IF pendingSourceCnt = 1 THEN Report(cache') ELSE UNCHANGED <<events, drawn>>
     \/ /\ r.id # currentFetchID
        /\ UNCHANGED <<cache, pendingSourceCnt, events, drawn>>

Answer(r) ==
  /\ r \in requests
  /\ CanAnswer(r.source, r.question)
  /\ Deliver(r, BuildEvents(Reply(r.source, r.question)))
  /\ UNCHANGED failed

(* error: the callback runs without events. *)
AnswerError(r) ==
  /\ r \in requests
  /\ Deliver(r, {})
  /\ failed' = IF r.id = currentFetchID THEN failed \cup {r.source} ELSE failed

(* A JSONP request that fails has no callback (external, jQuery 1.10), and  *)
(* an entry gcal.js cannot read throws before the callback.                 *)
Lose(r) ==
  /\ r \in requests
  /\ r.source = "google"
  /\ requests' = requests \ {r}
  /\ lost' = lost \cup {r}
  /\ UNCHANGED <<range, currentFetchID, failed, pendingSourceCnt, loadingLevel,
                 cache, events, drawn>>

-----------------------------------------------------------------------------
(* Editing                                                                  *)

Moved(found, e) ==
  {IF f.entry = e THEN [f EXCEPT !.moved = TRUE] ELSE f : f \in found}

(* isEventDraggable, isEventResizable *)
IsEditable(e) == e \in Own

(* eventDrop and eventResize: mutateEvent changes what clientEvents finds in *)
(* the cache, reportEventChange draws the calendar's events again. Nothing   *)
(* tells the server. The screen may have been cleared since the gesture      *)
(* began: a resize in day cells goes on, and the old events are back.        *)
Edit(e) ==
  /\ \E f \in events : f.entry = e
  /\ IsEditable(e)
  /\ cache' = Moved(cache, e)
  /\ events' = IF pendingSourceCnt = 0 THEN cache' ELSE events
  /\ drawn' = TRUE
  /\ UNCHANGED <<fetching, pendingSourceCnt, loadingLevel>>

=============================================================================
