--------------------------- MODULE ScheduleEditor ---------------------------
(***************************************************************************)
(* The schedules of one device in the browser: the list, the editor with   *)
(* its preview, the dialogs that confirm a write, and the server that      *)
(* answers, while another operator changes the same rules                  *)
(* (frontend/src/features/schedule-panel.tsx, schedule-form.tsx,           *)
(* lib/schedule-validation.ts).                                            *)
(*                                                                         *)
(* A rule is the local interval of one run and its frequency changes, in   *)
(* minutes of which a day has Day, and the rest: the name, the frequency,  *)
(* the repetition and the dates left out, whose calendar is the subject of *)
(* ScheduledRuns.                                                          *)
(***************************************************************************)
EXTENDS Naturals, Sequences, SequencesExt, FiniteSets

CONSTANTS RuleIds,     \* ids of rules
          Day,         \* minutes of a day
          MaxDays,     \* the latest day of the stop, after that of the start
          MaxRun,      \* the longest run, in minutes
          MaxRules,    \* rules a device may have
          Saved,       \* intervals of which one may be saved before
          MaxSends,    \* bound: actions of this page
          MaxEdits,    \* bound: changes made in the form
          MaxOthers    \* bound: writes of the other operator

VARIABLES
    rules,          \* server: id -> row
    wire,           \* writes of this page that the server has yet to handle
    listed,         \* the list on the page
    listRead,       \* the request for the list that is under way
    draft,          \* the editor, NoDraft when closed
    preview,        \* the preview on the page
    confirmation,   \* the write that a dialog asks to confirm
    action,         \* the request of the page that is under way
    active,         \* the section is open, the page visible and online
    sends, edits, others

vars == <<rules, wire, listed, listRead, draft, preview, confirmation, action, active,
          sends, edits, others>>

Blank == Day                       \* a time that was not entered
Rests == {"blank", "first", "second"}
Points == [day : 0 .. MaxDays, at : 0 .. Day]
Specs == [start : 0 .. Day - 1, stop : [day : 0 .. MaxDays, at : 0 .. Day - 1],
          changes : UNION {[1 .. n -> Points] : n \in 0 .. 2}, rest : Rests]

\* What the proofs assume of the constants: a rule that was saved before has passed the form
\* of the request.
ConstantsAssumption == Day \in Nat \ {0} /\ MaxDays \in Nat \ {0} /\ MaxRun \in Nat /\ Saved \subseteq Specs

\* newScheduleSpec: an evening to the next morning, without a name and a frequency.
NewSpec == [start |-> Day - 1, stop |-> [day |-> 1, at |-> 0], changes |-> <<>>, rest |-> "blank"]

Absent == [rev |-> 0, spec |-> NewSpec, on |-> FALSE, gone |-> FALSE, by |-> "nobody"]
NoDraft == [id |-> "none", base |-> 0, spec |-> NewSpec, saw |-> Absent]
NoPreview == [known |-> FALSE, clean |-> FALSE, of |-> NewSpec]
NoAction == [kind |-> "none", nr |-> 0, answer |-> "none"]
NoWrite == [kind |-> "none", id |-> "none", base |-> 0, spec |-> NewSpec, on |-> FALSE,
            saw |-> Absent, checked |-> FALSE, of |-> NewSpec]
NotListed == [known |-> FALSE, error |-> FALSE, rows |-> [id \in RuleIds |-> Absent]]
NotRead == [on |-> FALSE, answered |-> FALSE, rows |-> [id \in RuleIds |-> Absent]]

Init ==
    /\ \/ rules = [id \in RuleIds |-> Absent]
       \/ \E spec \in Saved :
             rules = [[id \in RuleIds |-> Absent] EXCEPT ![CHOOSE id \in RuleIds : TRUE] =
                         [rev |-> 1, spec |-> spec, on |-> TRUE, gone |-> FALSE, by |-> "other"]]
    /\ wire = {}
    /\ listed = NotListed
    /\ listRead = NotRead
    /\ draft = NoDraft
    /\ preview = NoPreview
    /\ confirmation = NoWrite
    /\ action = NoAction
    /\ active = TRUE
    /\ sends = 0 /\ edits = 0 /\ others = 0

-----------------------------------------------------------------------------
(* The interval of a run, checked by the form and by the server.           *)

Minute(p) == p.day * Day + p.at
Stop(spec) == Minute(spec.stop)

\* scheduleTimingErrors: the changes in error; 0 stands for the stop itself.
\* Mutant: a change may fall on the stop.
TimingErrorsAtStop(spec) ==
    IF Stop(spec) - spec.start \notin 1 .. MaxRun THEN {0}
    ELSE {i \in DOMAIN spec.changes :
             /\ spec.changes[i].at # Blank
             /\ Minute(spec.changes[i]) \notin (spec.start + 1) .. Stop(spec)}

TimingErrors(spec) ==
    IF Stop(spec) - spec.start \notin 1 .. MaxRun THEN {0}
    ELSE {i \in DOMAIN spec.changes :
             /\ spec.changes[i].at # Blank
             /\ \/ Minute(spec.changes[i]) \notin (spec.start + 1) .. (Stop(spec) - 1)
                \/ /\ i > 1 /\ spec.changes[i - 1].at # Blank
                   /\ Minute(spec.changes[i]) <= Minute(spec.changes[i - 1])}

\* The browser submits a form only if every field of it is valid.
Submittable(spec) ==
    /\ spec.rest # "blank"
    /\ TimingErrors(spec) = {} /\ \A i \in DOMAIN spec.changes : spec.changes[i].at # Blank

\* ScheduleSpec.coherent of the server: each point a minute after the one before it.
Coherent(spec) ==
    LET points == <<spec.start>> \o [i \in DOMAIN spec.changes |-> Minute(spec.changes[i])]
    IN /\ spec.rest # "blank"
       /\ \A i \in DOMAIN spec.changes : spec.changes[i].at # Blank
       /\ Stop(spec) - spec.start \in 1 .. MaxRun
       /\ \A i \in DOMAIN spec.changes :
             points[i] + 1 <= points[i + 1] /\ points[i + 1] + 1 <= Stop(spec)

-----------------------------------------------------------------------------
(* The list.                                                               *)

StartRead == IF listRead.on THEN listRead ELSE [NotRead EXCEPT !.on = TRUE]

\* The first load, the poll, the button.
ReadList ==
    /\ active /\ ~listRead.on
    /\ listRead' = StartRead
    /\ UNCHANGED <<rules, wire, listed, draft, preview, confirmation, action, active, sends, edits, others>>

AnswerList ==
    /\ listRead.on /\ ~listRead.answered
    /\ listRead' = [on |-> TRUE, answered |-> TRUE, rows |-> rules]
    /\ UNCHANGED <<rules, wire, listed, draft, preview, confirmation, action, active, sends, edits, others>>

\* An error hides the list and disables every action of the section.
ListDone ==
    /\ listRead.on
    /\ \/ listRead.answered /\ listed' = [known |-> TRUE, error |-> FALSE, rows |-> listRead.rows]
       \/ ~listRead.answered /\ listed' = [listed EXCEPT !.error = TRUE]
    /\ listRead' = NotRead
    /\ UNCHANGED <<rules, wire, draft, preview, confirmation, action, active, sends, edits, others>>

\* Collapsed, hidden or offline: the list is no longer read, the draft stays.
Pause ==
    /\ active' = ~active
    /\ listRead' = NotRead
    /\ UNCHANGED <<rules, wire, listed, draft, preview, confirmation, action, sends, edits, others>>

Busy == action.kind # "none"
ActionDisabled == Busy \/ ~active \/ listed.error
Live(rows) == {id \in RuleIds : rows[id].rev > 0 /\ ~rows[id].gone}
Row(id) == listed.rows[id]
Closed == confirmation = NoWrite

-----------------------------------------------------------------------------
(* The editor.                                                             *)

\* "New rule": an id of its own, drawn once.
EditNew(id) ==
    /\ draft = NoDraft /\ Closed /\ ~ActionDisabled
    /\ listed.known /\ Cardinality(Live(listed.rows)) < MaxRules
    /\ rules[id] = Absent /\ \A w \in wire : w.input.id # id
    /\ draft' = [NoDraft EXCEPT !.id = id]
    /\ preview' = NoPreview
    /\ UNCHANGED <<rules, wire, listed, listRead, confirmation, action, active, sends, edits, others>>

Edit(id) ==
    /\ draft = NoDraft /\ Closed /\ ~ActionDisabled
    /\ listed.known /\ id \in Live(listed.rows)
    /\ draft' = [id |-> id, base |-> Row(id).rev, spec |-> Row(id).spec, saw |-> Row(id)]
    /\ preview' = NoPreview
    /\ UNCHANGED <<rules, wire, listed, listRead, confirmation, action, active, sends, edits, others>>

\* A change of the draft takes its preview away.
Changed(spec) == draft' = [draft EXCEPT !.spec = spec] /\ preview' = NoPreview

\* The form is disabled while an action is under way.
Fill(spec) ==
    /\ draft # NoDraft /\ Closed /\ ~Busy /\ edits < MaxEdits
    /\ spec # draft.spec
    /\ Changed(spec)
    /\ edits' = edits + 1
    /\ UNCHANGED <<rules, wire, listed, listRead, confirmation, action, active, sends, others>>

FillWindow ==
    \/ \E m \in 0 .. Day - 1 : Fill([draft.spec EXCEPT !.start = m])
    \/ \E m \in 0 .. Day - 1 : Fill([draft.spec EXCEPT !.stop.at = m])
    \/ \E d \in 0 .. MaxDays : Fill([draft.spec EXCEPT !.stop.day = d])

FillChanges ==
    \/ /\ Len(draft.spec.changes) < 2
       /\ Fill([draft.spec EXCEPT !.changes = Append(@, [day |-> 0, at |-> Blank])])
    \/ \E i \in DOMAIN draft.spec.changes :
          \/ Fill([draft.spec EXCEPT !.changes = RemoveAt(@, i)])
          \/ \E p \in Points : Fill([draft.spec EXCEPT !.changes[i] = p])

FillRest == \E rest \in Rests \ {"blank"} : Fill([draft.spec EXCEPT !.rest = rest])

\* Back to the list.
CloseEditor ==
    /\ draft # NoDraft /\ Closed /\ ~Busy
    /\ draft' = NoDraft
    /\ preview' = NoPreview
    /\ UNCHANGED <<rules, wire, listed, listRead, confirmation, action, active, sends, edits, others>>

-----------------------------------------------------------------------------
(* The requests of the page.                                               *)

\* action(): one at a time.
Begin(kind) ==
    /\ ~ActionDisabled /\ sends < MaxSends
    /\ sends' = sends + 1
    /\ action' = [kind |-> kind, nr |-> sends + 1, answer |-> "none"]

\* The form is submitted.
AskPreview ==
    /\ draft # NoDraft /\ Closed /\ Submittable(draft.spec)
    /\ Begin("preview")
    /\ preview' = NoPreview
    /\ UNCHANGED <<rules, wire, listed, listRead, draft, confirmation, active, edits, others>>

\* The dialogs: to save the draft, to enable or disable a listed rule, to delete one.
ConfirmSave ==
    /\ draft # NoDraft /\ Closed /\ ~ActionDisabled
    /\ preview.known /\ preview.clean
    /\ confirmation' = [kind |-> "save", id |-> draft.id, base |-> draft.base, spec |-> draft.spec,
                        on |-> TRUE, saw |-> draft.saw, checked |-> TRUE, of |-> preview.of]
    /\ UNCHANGED <<rules, wire, listed, listRead, draft, preview, action, active, sends, edits, others>>

ConfirmListed(id, kind) ==
    /\ draft = NoDraft /\ Closed /\ ~ActionDisabled
    /\ listed.known /\ id \in Live(listed.rows)
    /\ confirmation' = [NoWrite EXCEPT !.kind = kind, !.id = id, !.base = Row(id).rev,
                                       !.spec = Row(id).spec, !.on = ~Row(id).on, !.saw = Row(id)]
    /\ UNCHANGED <<rules, wire, listed, listRead, draft, preview, action, active, sends, edits, others>>

Dismiss ==
    /\ ~Closed
    /\ confirmation' = NoWrite
    /\ UNCHANGED <<rules, wire, listed, listRead, draft, preview, action, active, sends, edits, others>>

\* Mutant: the revision is the one the list shows by now.
BaseNow == IF confirmation.saw = Absent THEN 0 ELSE Row(confirmation.id).rev

\* expected_revision: that of the row the dialog or the editor was opened for.
Base == confirmation.base

Confirm ==
    /\ ~Closed
    /\ Begin(confirmation.kind)
    /\ wire' = wire \cup {[nr |-> sends + 1, input |-> [confirmation EXCEPT !.base = Base]]}
    /\ confirmation' = NoWrite
    /\ UNCHANGED <<rules, listed, listRead, draft, preview, active, edits, others>>

Answered(nr, answer) ==
    action' = IF action.nr = nr THEN [action EXCEPT !.answer = answer] ELSE action

\* The answer: the editor is closed and the list read again, or a notice asks to
\* read the list before a repetition.
ActionDone ==
    /\ action.answer # "none"
    /\ LET saved == action.kind = "save" /\ action.answer = "ok"
       IN /\ draft' = IF saved THEN NoDraft ELSE draft
          /\ preview' = IF saved THEN NoPreview
                        ELSE IF action.kind = "preview" /\ action.answer # "refused"
                        THEN [known |-> TRUE, clean |-> action.answer = "clean", of |-> draft.spec]
                        ELSE preview
    /\ listRead' = IF action.kind \in {"save", "delete"} /\ action.answer = "ok" /\ active
                   THEN StartRead ELSE listRead
    /\ action' = NoAction
    /\ UNCHANGED <<rules, wire, listed, confirmation, active, sends, edits, others>>

\* No answer in time; the write may still arrive.
ActionFails ==
    /\ Busy
    /\ action' = NoAction
    /\ UNCHANGED <<rules, wire, listed, listRead, draft, preview, confirmation, active, sends, edits, others>>

-----------------------------------------------------------------------------
(* The server.                                                             *)

\* first_overlap, for rules that run on the same days.
Overlap(s, t) == s.start < Stop(t) /\ t.start < Stop(s)
Conflicts(id, spec) ==
    {other \in Live(rules) \ {id} : rules[other].on /\ Overlap(spec, rules[other].spec)}

\* ScheduleService.preview; what it shows is "clean" if there are runs and no conflicts.
ServerPreviews ==
    /\ action.kind = "preview" /\ action.answer = "none"
    /\ \E answer \in {"refused", "empty"} \cup
                     (IF Conflicts(draft.id, draft.spec) = {} THEN {"clean"} ELSE {}) :
          action' = [action EXCEPT !.answer = answer]
    /\ UNCHANGED <<rules, wire, listed, listRead, draft, preview, confirmation, active, sends, edits, others>>

\* A PUT that was answered but not heard finds its own row.
Repeated(row, w, who) ==
    row.rev = w.base + 1 /\ row.by = who /\ row.spec = w.spec /\ row.on = w.on
Refused(row, w) ==
    \/ row.rev # w.base
    \/ row.rev = 0 /\ Cardinality(Live(rules)) >= MaxRules
    \/ w.on /\ Conflicts(w.id, w.spec) # {}
    \/ ~Coherent(w.spec)
Written(w, who) ==
    rules' = [rules EXCEPT ![w.id] =
                 [rev |-> w.base + 1, spec |-> w.spec, on |-> w.on, gone |-> FALSE, by |-> who]]

\* ScheduleService.write
ServerWrites(w) ==
    LET row == rules[w.input.id]
    IN /\ w \in wire /\ w.input.kind = "save"
       /\ wire' = wire \ {w}
       /\ IF ~row.gone /\ Repeated(row, w.input, "me")
          THEN Answered(w.nr, "ok") /\ UNCHANGED rules
          ELSE IF row.gone \/ Refused(row, w.input)
          THEN Answered(w.nr, "refused") /\ UNCHANGED rules
          ELSE Answered(w.nr, "ok") /\ Written(w.input, "me")
       /\ UNCHANGED <<listed, listRead, draft, preview, confirmation, active, sends, edits, others>>

Deleted(id) ==
    rules' = [rules EXCEPT ![id].rev = rules[id].rev + 1, ![id].on = FALSE, ![id].gone = TRUE]

\* ScheduleService.delete
ServerDeletes(w) ==
    LET row == rules[w.input.id]
    IN /\ w \in wire /\ w.input.kind = "delete"
       /\ wire' = wire \ {w}
       /\ IF row.gone THEN Answered(w.nr, "ok") /\ UNCHANGED rules
          ELSE IF row.rev # w.input.base THEN Answered(w.nr, "refused") /\ UNCHANGED rules
          ELSE Answered(w.nr, "ok") /\ Deleted(w.input.id)
       /\ UNCHANGED <<listed, listRead, draft, preview, confirmation, active, sends, edits, others>>

\* Another operator, on a page that is up to date.
OtherWrites(id) ==
    /\ others < MaxOthers
    /\ others' = others + 1
    /\ id \in Live(rules)
    /\ \/ Deleted(id)
       \/ LET w == [id |-> id, base |-> rules[id].rev, spec |-> rules[id].spec, on |-> ~rules[id].on]
          IN ~Refused(rules[id], w) /\ Written(w, "other")
    /\ UNCHANGED <<wire, listed, listRead, draft, preview, confirmation, action, active, sends, edits>>

Lists == ReadList \/ AnswerList \/ ListDone \/ Pause
Editor ==
    \/ \E id \in RuleIds : EditNew(id) \/ Edit(id)
    \/ FillWindow \/ FillChanges \/ FillRest \/ CloseEditor \/ AskPreview \/ ConfirmSave
Dialogs ==
    \/ \E id \in RuleIds, kind \in {"save", "delete"} : ConfirmListed(id, kind)
    \/ Dismiss \/ Confirm \/ ActionDone \/ ActionFails
Server ==
    \/ ServerPreviews
    \/ \E w \in wire : ServerWrites(w) \/ ServerDeletes(w)
    \/ \E id \in RuleIds : OtherWrites(id)
Next == Lists \/ Editor \/ Dialogs \/ Server
Spec == Init /\ [][Next]_vars

-----------------------------------------------------------------------------
(* Properties.                                                             *)

\* A write of this page, however late it arrives, replaces the row the operator was
\* looking at when the editor or the dialog was opened, and never what another
\* operator has made of it since.
ReplacesWhatWasSeen ==
    [][\A w \in wire : w \notin wire' /\ rules' # rules => rules[w.input.id] = w.input.saw]_vars

\* A rule is enabled from the editor only as it was previewed: the spec that is sent is
\* the spec whose runs the operator was shown.
EnabledAsPreviewed == \A w \in wire : w.input.checked => w.input.of = w.input.spec

\* The form lets through exactly the intervals that the server takes.
FormAgreesWithServer == draft # NoDraft => (Submittable(draft.spec) <=> Coherent(draft.spec))
=============================================================================
