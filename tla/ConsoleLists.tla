---------------------------- MODULE ConsoleLists ----------------------------
(***************************************************************************)
(* The lists of the browser: organizations and sites, the devices of a     *)
(* site with their presence, the alarms of a device and their transitions, *)
(* the notifications, the events and the journal of commands.  Each shows  *)
(* a page of a list that grows at its head while the operator turns the    *)
(* pages (frontend/src/features/inventory.tsx, alarms.tsx,                 *)
(* alarm-detail.tsx, notifications.tsx, device-events.tsx,                 *)
(* command-journal.tsx, lib/api/inventory.ts).                             *)
(*                                                                         *)
(* A row is the moment of its creation.  The journal alone is read from a  *)
(* cursor; the others by the number of rows to skip, so that new rows may  *)
(* move the pages.                                                         *)
(***************************************************************************)
EXTENDS Naturals, Sequences, SequencesExt, FiniteSets

CONSTANTS Oldest,      \* rows of the list at the beginning
          MaxRows,     \* bound: rows of the list
          Page,        \* rows of a page; one more is asked for, to know of a next page
          Workers,     \* PRESENCE_CONCURRENCY: presence requests at a time
          MaxListReads,    \* bound: reads of the list
          MaxPages     \* bound: pages turned

VARIABLES
    list,       \* the list on the page
    newest,     \* server: the rows are newest .. 1
    open,       \* server: the rows that a filter for open ones keeps
    gone,       \* server: the devices that were taken out of the operator's reach
    selection,  \* the page, the filter and the cursors
    asked,      \* the reads under way: what was asked for and what was answered
    shown,      \* what the page has of each query that is on it
    presence,   \* the presence requests of the devices on the page
    onPage,     \* visible and online
    listReads

ConstantsAssumption == Page \in Nat \ {0} /\ Oldest \in Nat

listVars == <<list, newest, open, gone, selection, asked, shown, presence, onPage, listReads>>

(* What a list offers: a cursor in place of numbers, a filter, a button    *)
(* that returns to the first page, a presence for each row; whether it     *)
(* stops reading while the page is hidden, and asks for a row too many to  *)
(* know of a next page.                                                    *)
Plain == [cursor |-> FALSE, filters |-> FALSE, home |-> FALSE, presence |-> FALSE,
          pauses |-> FALSE, peeks |-> TRUE]
Directory == Plain
DevicePages == [Plain EXCEPT !.presence = TRUE]
DeviceChooser == [Plain EXCEPT !.pauses = TRUE]
TransitionHistory == [Plain EXCEPT !.pauses = TRUE]
DeviceAlarms == [Plain EXCEPT !.filters = TRUE, !.home = TRUE, !.pauses = TRUE]
Feed == [Plain EXCEPT !.filters = TRUE, !.home = TRUE, !.pauses = TRUE]
DeviceEvents == [Plain EXCEPT !.filters = TRUE, !.pauses = TRUE, !.peeks = FALSE]
CommandJournal == [Plain EXCEPT !.cursor = TRUE, !.pauses = TRUE]
Lists == {Directory, DevicePages, DeviceChooser, DeviceAlarms, TransitionHistory, Feed,
          DeviceEvents, CommandJournal}

Start == [page |-> 0, filter |-> "all", cursors |-> <<>>]
NotShown == [known |-> FALSE, error |-> FALSE, of |-> Start, rows |-> <<>>]
NotAsked == [on |-> FALSE, of |-> Start, answered |-> FALSE, rows |-> <<>>]
NoPresence == [run |-> FALSE, rows |-> <<>>, next |-> 1, busy |-> {}, results |-> <<>>, denied |-> FALSE]
Pending == [of |-> 0, online |-> "unknown"]

Init ==
    /\ list \in Lists
    /\ newest = Oldest
    /\ open = 1 .. Oldest
    /\ gone = {}
    /\ selection = Start
    /\ asked = NotAsked
    /\ shown = NotShown
    /\ presence = NoPresence
    /\ onPage = TRUE
    /\ listReads = 0

\* Newest first: before the i-th row come the i - 1 newer ones.
Rows(set) ==
    [i \in 1 .. Cardinality(set) |-> CHOOSE row \in set : Cardinality({r \in set : r > row}) = i - 1]
Passing(filter) == (IF filter = "open" THEN open ELSE 1 .. newest) \ gone
Slice(s, first, last) == SubSeq(s, first, IF Len(s) < last THEN Len(s) ELSE last)

\* limit, offset
FromNumber(sel) ==
    Slice(Rows(Passing(sel.filter)), sel.page * Page + 1,
          sel.page * Page + Page + (IF list.peeks THEN 1 ELSE 0))

\* Mutant: the journal is read by number as well.
FromCursorByNumber(sel) ==
    Slice(Rows(1 .. newest), Len(sel.cursors) * Page + 1, Len(sel.cursors) * Page + Page + 1)

\* before_created_at, before_id: the rows created before the last one of the page before.
FromCursor(sel) ==
    LET before == IF sel.cursors = <<>> THEN newest + 1 ELSE Last(sel.cursors)
    IN Slice(Rows(1 .. before - 1), 1, Page + 1)

Requested(sel) == IF list.cursor THEN FromCursor(sel) ELSE FromNumber(sel)

\* What is shown belongs to the selection on the page, or nothing is.
Ready == shown.known /\ ~shown.error /\ shown.of = selection
Fetching == asked.on
OnThePage == Slice(shown.rows, 1, Page)
More == IF list.peeks THEN Len(shown.rows) > Page ELSE Len(shown.rows) = Page

-----------------------------------------------------------------------------
(* Reading a page.                                                         *)

Ask ==
    /\ listReads < MaxListReads
    /\ listReads' = listReads + 1
    /\ asked' = [NotAsked EXCEPT !.on = TRUE, !.of = selection]

\* The first read of a selection.
Load ==
    /\ onPage /\ ~Fetching /\ ~Ready
    /\ ~(shown.of = selection /\ shown.error)
    /\ Ask
    /\ UNCHANGED <<list, newest, open, gone, selection, shown, presence, onPage>>

PresenceFetching ==
    presence.run /\ ~presence.denied
    /\ (presence.busy # {} \/ presence.next <= Len(presence.rows))

\* The interval of the events and of the first page of the journal; the button.
Reload ==
    /\ onPage /\ ~Fetching
    /\ shown.of = selection /\ (shown.known \/ shown.error)
    /\ ~PresenceFetching
    /\ Ask
    /\ presence' = NoPresence
    /\ UNCHANGED <<list, newest, open, gone, selection, shown, onPage>>

Answer ==
    /\ Fetching /\ ~asked.answered
    /\ asked' = [asked EXCEPT !.answered = TRUE, !.rows = Requested(asked.of)]
    /\ UNCHANGED <<list, newest, open, gone, selection, shown, presence, onPage, listReads>>

PresenceOf(rows) == [NoPresence EXCEPT !.run = TRUE, !.rows = rows,
                                       !.results = [i \in DOMAIN rows |-> Pending]]

\* The page is shown, and the presence of its devices asked for; or the list gives way
\* to the error.  parseCommandPage refuses rows that are not before the cursor.
Received ==
    /\ Fetching
    /\ \/ /\ asked.answered
          /\ shown' = [known |-> TRUE, error |-> FALSE, of |-> asked.of, rows |-> asked.rows]
          /\ presence' = IF list.presence
                         THEN PresenceOf(Slice(asked.rows, 1, Page))
                         ELSE NoPresence
       \/ /\ ~asked.answered
          /\ shown' = [NotShown EXCEPT !.error = TRUE, !.of = asked.of]
          /\ presence' = NoPresence
    /\ asked' = NotAsked
    /\ UNCHANGED <<list, newest, open, gone, selection, onPage, listReads>>

\* Hidden or offline: the read is cancelled.
Leave ==
    /\ list.pauses
    /\ onPage' = ~onPage
    /\ asked' = NotAsked
    /\ UNCHANGED <<list, newest, open, gone, selection, shown, presence, listReads>>

-----------------------------------------------------------------------------
(* Turning pages.  A new selection is a new query: what was read for the   *)
(* old one is dropped, and a read under way is aborted.                    *)

Select(sel) ==
    /\ selection' = sel
    /\ asked' = NotAsked
    /\ shown' = IF sel = selection THEN shown ELSE NotShown
    /\ presence' = NoPresence
    /\ UNCHANGED <<list, newest, open, gone, onPage, listReads>>

Turn ==
    /\ ~list.cursor /\ ~Fetching
    /\ \/ selection.page > 0 /\ Select([selection EXCEPT !.page = @ - 1])
       \/ /\ Ready /\ More /\ selection.page < MaxPages
          /\ Select([selection EXCEPT !.page = @ + 1])

\* A filter starts from the first page.
Filter ==
    /\ list.filters
    /\ \E filter \in {"all", "open"} \ {selection.filter} :
          Select([Start EXCEPT !.filter = filter])

\* The button of the alarms and of the notifications returns to the first page.
FirstPage ==
    /\ list.home /\ onPage /\ ~Fetching /\ selection.page > 0
    /\ Select([selection EXCEPT !.page = 0])

\* The journal goes on from the last row on the page, and back the way it came.
Older ==
    /\ list.cursor /\ onPage /\ ~Fetching
    /\ Ready /\ More /\ Len(selection.cursors) < MaxPages
    /\ Select([selection EXCEPT !.cursors = Append(@, Last(OnThePage))])

Newer ==
    /\ list.cursor /\ onPage /\ ~Fetching /\ selection.cursors # <<>>
    /\ Select([selection EXCEPT !.cursors = Front(@)])

-----------------------------------------------------------------------------
(* The presence of the devices on a page (mapBounded).                     *)

\* A worker takes the next device, unless the run was given up.
TakeNext ==
    /\ presence.run /\ ~presence.denied
    /\ Cardinality(presence.busy) < Workers /\ presence.next <= Len(presence.rows)
    /\ presence' = [presence EXCEPT !.busy = @ \cup {presence.next}, !.next = @ + 1]
    /\ UNCHANGED <<list, newest, open, gone, selection, asked, shown, onPage, listReads>>

\* The answer for one device; an error of that device alone leaves it unknown.
Present(i) ==
    /\ i \in presence.busy
    /\ LET device == presence.rows[i]
       IN \/ /\ device \notin gone
             /\ \E online \in {"yes", "no", "unknown"} :
                   presence' = [presence EXCEPT !.busy = @ \ {i},
                                                !.results[i] = [of |-> device, online |-> online]]
          \/ \* forbidden or not found: the whole page is hidden, the other requests aborted
             /\ device \in gone
             /\ presence' = [presence EXCEPT !.busy = {}, !.denied = TRUE]
    /\ UNCHANGED <<list, newest, open, gone, selection, asked, shown, onPage, listReads>>

RetryPresence ==
    /\ presence.denied
    /\ presence' = PresenceOf(presence.rows)
    /\ UNCHANGED <<list, newest, open, gone, selection, asked, shown, onPage, listReads>>

PresenceShown == presence.run /\ ~presence.denied /\ ~PresenceFetching

-----------------------------------------------------------------------------
(* The server.                                                             *)

Grow ==
    /\ newest < MaxRows
    /\ newest' = newest + 1
    /\ open' = open \cup {newest + 1}
    /\ UNCHANGED <<list, gone, selection, asked, shown, presence, onPage, listReads>>

\* An alarm is resolved, a notification read.
Close ==
    /\ list.filters
    /\ \E row \in open : open' = open \ {row}
    /\ UNCHANGED <<list, newest, gone, selection, asked, shown, presence, onPage, listReads>>

\* A device is moved to a site that the operator may not see.
Move ==
    /\ list.presence
    /\ \E row \in 1 .. newest : gone' = gone \cup {row}
    /\ UNCHANGED <<list, newest, open, selection, asked, shown, presence, onPage, listReads>>

Next ==
    \/ Load \/ Reload \/ Answer \/ Received \/ Leave
    \/ Turn \/ Filter \/ FirstPage \/ Older \/ Newer
    \/ TakeNext \/ RetryPresence \/ \E i \in presence.busy : Present(i)
    \/ Grow \/ Close \/ Move

Spec == Init /\ [][Next]_listVars

-----------------------------------------------------------------------------
(* Properties.                                                             *)

\* The pages of the journal follow one another without a gap and without a repetition,
\* whatever was added to it meanwhile: the rows of a page are those right before the
\* last row that the operator saw on the page before.
JournalIsContiguous ==
    list.cursor /\ Ready /\ selection.cursors # <<>> =>
        \A i \in DOMAIN shown.rows : shown.rows[i] = Last(selection.cursors) - i
=============================================================================
