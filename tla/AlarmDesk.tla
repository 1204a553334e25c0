----------------------------- MODULE AlarmDesk -----------------------------
(***************************************************************************)
(* One incident, or one notification, open in the browser: the operator    *)
(* confirms having seen the incident, or marks the notification as read,   *)
(* while the incident is resolved and other operators confirm it too       *)
(* (frontend/src/features/alarm-detail.tsx, use-alarm-acknowledgement.ts,  *)
(* notification-detail.tsx, use-notification-read.ts).                     *)
(***************************************************************************)
EXTENDS Naturals

CONSTANTS MaxMarks,    \* bound: requests of this page to mark the item
          MaxReads,    \* bound: reads of the item, for the button that asks for one
          MaxTurns     \* bound: events outside the page

VARIABLES
    desk,       \* what is open: an alarm or a notification
    item,       \* server: whether the incident is active, who marked it first
    mayMark,    \* server: the operator still has the permission
    posts,      \* requests to mark that the server may yet handle
    page,       \* the item as it was last read, and the error of the last read
    reading,    \* the read that is under way
    mark,       \* the request of the page that is under way
    outcome,    \* what became of the last request
    dialog,     \* the confirmation is open
    present,    \* visible and online
    marks, reads, turns

deskVars == <<desk, item, mayMark, posts, page, reading, mark, outcome, dialog, present,
              marks, reads, turns>>

NoItem == [active |-> FALSE, by |-> "nobody"]
\* after: the requests that had ended when the read began.
NoPage == [known |-> FALSE, error |-> FALSE, item |-> NoItem, read |-> 0, after |-> 0]
NoReading == [on |-> FALSE, answered |-> FALSE, item |-> NoItem, after |-> 0]
NoMark == [on |-> FALSE, answer |-> "none", read |-> 0]
NoOutcome == [kind |-> "none", checked |-> 0, wait |-> FALSE]

Init ==
    /\ desk \in {"alarm", "notification"}
    /\ item = [active |-> TRUE, by |-> "nobody"]
    /\ mayMark = TRUE
    /\ posts = {}
    /\ page = NoPage
    /\ reading = NoReading
    /\ mark = NoMark
    /\ outcome = NoOutcome
    /\ dialog = FALSE
    /\ present = TRUE
    /\ marks = 0 /\ reads = 0 /\ turns = 0

Ended == IF mark.on THEN marks - 1 ELSE marks
Denied == outcome.kind = "denied"

\* The item is on the page while no read is under way and the last one was answered.
Shown == page.known /\ ~page.error /\ ~reading.on

\* Mutant: the read that was on the page when the request was sent is enough.
NeedsCheckOfSent ==
    /\ outcome.kind \notin IF desk = "alarm" THEN {"none", "confirmed"} ELSE {"none"}
    /\ page.read < outcome.checked

\* After a result that is not known, and for a notification after every result, the
\* item has to be read before the next request.
NeedsCheck ==
    /\ outcome.kind \notin IF desk = "alarm" THEN {"none", "confirmed"} ELSE {"none"}
    /\ page.read <= outcome.checked

CanMark ==
    /\ Shown /\ present /\ ~mark.on
    /\ ~NeedsCheck /\ ~outcome.wait /\ ~Denied
    /\ page.item.by = "nobody"
    /\ desk = "alarm" => page.item.active

-----------------------------------------------------------------------------
(* Reading the item.                                                       *)

StartReading == [NoReading EXCEPT !.on = TRUE, !.after = Ended]

\* The first load, again after a pause that cut it off.
Load ==
    /\ present /\ ~reading.on /\ ~page.known /\ ~page.error
    /\ reading' = StartReading
    /\ UNCHANGED <<desk, item, mayMark, posts, page, mark, outcome, dialog, present, marks, reads, turns>>

\* The button: not while a request is under way, nor when access was denied.
CheckState ==
    /\ present /\ ~reading.on /\ ~mark.on /\ ~Denied
    /\ page.known \/ page.error
    /\ reads < MaxReads
    /\ reading' = StartReading
    /\ UNCHANGED <<desk, item, mayMark, posts, page, mark, outcome, dialog, present, marks, reads, turns>>

AnswerReading ==
    /\ reading.on /\ ~reading.answered
    /\ reading' = [reading EXCEPT !.answered = TRUE, !.item = item]
    /\ UNCHANGED <<desk, item, mayMark, posts, page, mark, outcome, dialog, present, marks, reads, turns>>

ReadingDone ==
    /\ reading.on
    /\ \/ /\ reading.answered
          /\ page' = [known |-> TRUE, error |-> FALSE, item |-> reading.item,
                      read |-> reads + 1, after |-> reading.after]
          /\ reads' = reads + 1
       \/ ~reading.answered /\ page' = [page EXCEPT !.error = TRUE] /\ UNCHANGED reads
    /\ reading' = NoReading
    /\ UNCHANGED <<desk, item, mayMark, posts, mark, outcome, dialog, present, marks, turns>>

\* Denied: the access is read again and the page starts anew.
RetryAccess ==
    /\ Denied /\ present /\ ~reading.on /\ ~mark.on
    /\ page' = NoPage
    /\ outcome' = NoOutcome
    /\ dialog' = FALSE
    /\ UNCHANGED <<desk, item, mayMark, posts, reading, mark, present, marks, reads, turns>>

-----------------------------------------------------------------------------
(* Marking it.                                                             *)

\* An alarm asks for a confirmation, in a dialog that closes with the item.
OpenDialog ==
    /\ desk = "alarm" /\ CanMark /\ ~dialog
    /\ dialog' = TRUE
    /\ UNCHANGED <<desk, item, mayMark, posts, page, reading, mark, outcome, present, marks, reads, turns>>

CloseDialog ==
    /\ dialog
    /\ dialog' = FALSE
    /\ UNCHANGED <<desk, item, mayMark, posts, page, reading, mark, outcome, present, marks, reads, turns>>

Post ==
    /\ marks < MaxMarks
    /\ marks' = marks + 1
    /\ posts' = posts \cup {marks + 1}
    /\ mark' = [NoMark EXCEPT !.on = TRUE, !.read = page.read]
    /\ outcome' = NoOutcome

Acknowledge ==
    /\ desk = "alarm" /\ dialog /\ CanMark
    /\ Post
    /\ dialog' = FALSE
    /\ UNCHANGED <<desk, item, mayMark, page, reading, present, reads, turns>>

MarkRead ==
    /\ desk = "notification" /\ CanMark
    /\ Post
    /\ UNCHANGED <<desk, item, mayMark, page, reading, dialog, present, reads, turns>>

\* The answer: a confirmation and a conflict read the item again.
Answered ==
    /\ mark.answer # "none"
    /\ outcome' = [kind |-> mark.answer, checked |-> mark.read, wait |-> FALSE]
    /\ reading' = IF mark.answer \in {"confirmed", "conflict"} /\ present /\ ~reading.on
                  THEN [NoReading EXCEPT !.on = TRUE, !.after = marks] ELSE reading
    /\ mark' = NoMark
    /\ UNCHANGED <<desk, item, mayMark, posts, page, dialog, present, marks, reads, turns>>

Unknown(wait) == outcome' = [kind |-> "uncertain", checked |-> mark.read, wait |-> wait]

\* No answer in time; the request may still arrive.
Unanswered ==
    /\ mark.on
    /\ Unknown(FALSE)
    /\ mark' = NoMark
    /\ UNCHANGED <<desk, item, mayMark, posts, page, reading, dialog, present, marks, reads, turns>>

\* Refused for the rate of requests: unknown as well, and not before retryAt.
RateLimited ==
    /\ mark.on /\ mark.answer = "none" /\ marks \in posts
    /\ posts' = posts \ {marks}
    /\ Unknown(TRUE)
    /\ mark' = NoMark
    /\ UNCHANGED <<desk, item, mayMark, page, reading, dialog, present, marks, reads, turns>>

RetryAtPasses ==
    /\ outcome.wait
    /\ outcome' = [outcome EXCEPT !.wait = FALSE]
    /\ UNCHANGED <<desk, item, mayMark, posts, page, reading, mark, dialog, present, marks, reads, turns>>

\* Hidden or offline: the read is cancelled, the request aborted.
GoAway ==
    /\ present /\ turns < MaxTurns
    /\ turns' = turns + 1
    /\ present' = FALSE
    /\ reading' = NoReading
    /\ IF mark.on THEN Unknown(FALSE) ELSE UNCHANGED outcome
    /\ mark' = NoMark
    /\ UNCHANGED <<desk, item, mayMark, posts, page, dialog, marks, reads>>

ComeBack ==
    /\ ~present
    /\ present' = TRUE
    /\ UNCHANGED <<desk, item, mayMark, posts, page, reading, mark, outcome, dialog, marks, reads, turns>>

-----------------------------------------------------------------------------
(* The server.                                                             *)

Tell(nr, answer) == mark' = IF mark.on /\ marks = nr THEN [mark EXCEPT !.answer = answer] ELSE mark

\* acknowledge_alarm: the first one stays, and only while the incident is active.
ServerAcknowledges(nr) ==
    /\ desk = "alarm" /\ nr \in posts
    /\ posts' = posts \ {nr}
    /\ IF ~mayMark THEN Tell(nr, "denied") /\ UNCHANGED item
       ELSE IF item.by # "nobody" THEN Tell(nr, "confirmed") /\ UNCHANGED item
       ELSE IF ~item.active THEN Tell(nr, "conflict") /\ UNCHANGED item
       ELSE Tell(nr, "confirmed") /\ item' = [item EXCEPT !.by = "me"]
    /\ UNCHANGED <<desk, mayMark, page, reading, outcome, dialog, present, marks, reads, turns>>

\* mark_read: a row of the reader, inserted once.
ServerMarksRead(nr) ==
    /\ desk = "notification" /\ nr \in posts
    /\ posts' = posts \ {nr}
    /\ IF ~mayMark THEN Tell(nr, "denied") /\ UNCHANGED item
       ELSE Tell(nr, "confirmed") /\ item' = [item EXCEPT !.by = "me"]
    /\ UNCHANGED <<desk, mayMark, page, reading, outcome, dialog, present, marks, reads, turns>>

\* The incident is resolved; another operator confirms it, the operator's own rights change.
Elsewhere ==
    /\ turns < MaxTurns
    /\ turns' = turns + 1
    /\ \/ item' = [item EXCEPT !.active = FALSE] /\ UNCHANGED mayMark
       \/ /\ desk = "alarm" /\ item.active /\ item.by = "nobody"
          /\ item' = [item EXCEPT !.by = "other"] /\ UNCHANGED mayMark
       \/ mayMark' = ~mayMark /\ UNCHANGED item
    /\ UNCHANGED <<desk, posts, page, reading, mark, outcome, dialog, present, marks, reads>>

Next ==
    \/ Load \/ CheckState \/ AnswerReading \/ ReadingDone \/ RetryAccess
    \/ OpenDialog \/ CloseDialog \/ Acknowledge \/ MarkRead
    \/ Answered \/ Unanswered \/ RateLimited \/ RetryAtPasses
    \/ GoAway \/ ComeBack \/ Elsewhere
    \/ \E nr \in posts : ServerAcknowledges(nr) \/ ServerMarksRead(nr)

Spec == Init /\ [][Next]_deskVars

-----------------------------------------------------------------------------
(* Properties.                                                             *)

\* What may already be done is never repeated blindly: after a request whose result is
\* not known, however it was cut off, the next one is made on sight of the item as it
\* was read after the earlier one had ended.
RepeatedOnSight ==
    [][marks' # marks =>
          /\ page.known
          /\ outcome.kind \in {"uncertain", "conflict"} => page.after = marks]_deskVars
=============================================================================
