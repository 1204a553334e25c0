---------------------------- MODULE ScheduledRuns ----------------------------
(***************************************************************************)
(* Calendar schedules of one device: rules written by users, the worker     *)
(* that turns each due start into one run, the delivery of the command of   *)
(* that run, and the Stop of an operator                                   *)
(* (backend/app/services/schedules.py, schedule_worker.py,                 *)
(* repositories/schedules.py, command_policy.py, commands.py).              *)
(*                                                                         *)
(* Every operation is one transaction under the lock of the device row and  *)
(* reads its clock under that lock, with two exceptions that the model      *)
(* keeps: a Stop is stamped with its time before it waits for the lock, and *)
(* a command leaves for the broker after the lock was given back.           *)
(*                                                                         *)
(* The unit of time is one in which a start may still be made up for        *)
(* (Grace of them are START_GRACE_SECONDS).  A specification is the set of  *)
(* its starts; the time zone rules may change and move them.  The verdicts  *)
(* that do not concern schedules (availability, capabilities, equipment,    *)
(* limits, state of the pump) may fall either way.                          *)
(***************************************************************************)
EXTENDS Integers, FiniteSets, Sequences

CONSTANTS
    Rules,         \* identifiers of schedules
    Users,
    Specs,         \* sets of starts
    Length,        \* duration of a run
    Grace,         \* START_GRACE_SECONDS, and the TTL of the command
    Day,           \* the worker looks at a rule at least this often
    MaxRules,      \* MAX_DEVICE_SCHEDULES
    Stops,         \* requests to stop the device
    Revisions,     \* bound of the model on revisions of a rule
    Attempts,      \* bound of the model on sendings of one command
    MaxTime        \* bound of the model on the clock

ASSUME SchedulesAssumption ==
    /\ \A spec \in Specs : spec \subseteq Nat /\ spec # {}
    /\ Length \in Nat \ {0} /\ Grace \in Nat \ {0} /\ Day \in Nat \ {0}
    /\ MaxRules \in Nat /\ Revisions \in Nat /\ Attempts \in Nat /\ MaxTime \in Nat

VARIABLES
    clock,
    rules,         \* device_schedules
    runs,          \* schedule_occurrences, each with its command
    stops,         \* Stop requests: the time they carry, whether they took effect
    lastStop,      \* devices.last_stop_requested_at
    other,         \* another command than a Stop is pending for the device
    revoked,       \* users who may no longer give commands
    shift          \* how far the time zone rules have moved all starts

vars == <<clock, rules, runs, stops, lastStop, other, revoked, shift>>

Never == -1
NoRule == [revision |-> 0, enabled |-> FALSE, deleted |-> FALSE, spec |-> {}, author |-> "nobody",
           next |-> Never, check |-> Never]

RuleShape == [revision : 0..Revisions, enabled : BOOLEAN, deleted : BOOLEAN,
              spec : Specs \cup {{}}, author : Users \cup {"nobody"},
              next : Nat \cup {Never}, check : Nat \cup {Never}]

RunShape == [rule : Rules, start : Nat, revision : 1..Revisions,
             status : {"skipped", "queued", "published", "over"}, attempts : 0..Attempts,
             leaving : BOOLEAN, expires : Nat, actor : Users]

\* Only an enabled rule has a next start, and the worker looks at it no later than then.
RuleOK(rule) ==
    /\ rule.enabled => rule.revision > 0 /\ rule.author \in Users /\ rule.spec \in Specs
    /\ rule.deleted => ~rule.enabled
    /\ ~rule.enabled => rule.next = Never
    /\ rule.next = Never <=> rule.check = Never
    /\ rule.check <= rule.next

\* Types, and the constraints of the tables device_schedules and schedule_occurrences.
TypeOK ==
    /\ clock \in 0..MaxTime
    /\ rules \in [Rules -> RuleShape]
    /\ \A r \in Rules : RuleOK(rules[r])
    /\ runs \in Seq(RunShape)
    /\ \A i \in DOMAIN runs : runs[i].leaving => runs[i].attempts > 0
    /\ stops \in [Stops -> [at : 0..MaxTime \cup {Never}, done : BOOLEAN]]
    /\ lastStop \in 0..MaxTime \cup {Never}
    /\ other \in BOOLEAN
    /\ revoked \subseteq Users
    /\ shift \in 0..1

Init ==
    /\ clock = 0
    /\ rules = [r \in Rules |-> NoRule]
    /\ runs = <<>>
    /\ stops = [k \in Stops |-> [at |-> Never, done |-> FALSE]]
    /\ lastStop = Never
    /\ other = FALSE
    /\ revoked = {}
    /\ shift = 0

-----------------------------------------------------------------------------
(* The calendar (schedule_calendar.py)                                      *)

Starts(spec) == {t + shift : t \in spec}

\* The first start of a specification that is not before (or is after) a moment.
Upcoming(spec, from) ==
    LET later == {t \in Starts(spec) : t >= from} IN
    IF later = {} THEN Never ELSE CHOOSE t \in later : \A u \in later : t <= u

\* The runs from two starts have a moment in common that is not past.
Collide(s, t, from) == \E x \in s..(s + Length - 1) : x \in t..(t + Length - 1) /\ x >= from

Overlap(a, b, from) == \E s \in Starts(a), t \in Starts(b) : Collide(s, t, from)
OverlapsItself(a, from) == \E s, t \in Starts(a) : s # t /\ Collide(s, t, from)

\* refresh_next()
Refreshed(rule, from) ==
    LET next == IF rule.enabled THEN Upcoming(rule.spec, from) ELSE Never IN
    [rule EXCEPT !.next = next,
                 !.check = IF next = Never \/ next <= from + Day THEN next ELSE from + Day]

-----------------------------------------------------------------------------
(* ScheduleService                                                          *)

Live == {r \in Rules : rules[r] # NoRule /\ ~rules[r].deleted}

\* write() with the revision its author has seen; with an old one it changes nothing, and
\* neither does its repetition.  The access of the author was checked before the lock was
\* taken and may be gone by now.
Write(u, r, spec, on) ==
    /\ rules[r].revision < Revisions
    /\ ~rules[r].deleted
    /\ rules[r] = NoRule => Cardinality(Live) < MaxRules
    /\ on => /\ Upcoming(spec, clock) # Never
             /\ ~OverlapsItself(spec, clock)
             /\ \A q \in Live \ {r} : rules[q].enabled => ~Overlap(spec, rules[q].spec, clock)
    /\ rules' = [rules EXCEPT ![r] = Refreshed([rules[r] EXCEPT
                    !.revision = @ + 1, !.enabled = on, !.spec = spec, !.author = u], clock)]
    /\ UNCHANGED <<clock, runs, stops, lastStop, other, revoked, shift>>

Delete(r) ==
    /\ r \in Live
    /\ rules[r].revision < Revisions
    /\ rules' = [rules EXCEPT ![r] = [rules[r] EXCEPT !.deleted = TRUE, !.enabled = FALSE,
                    !.next = Never, !.check = Never, !.revision = @ + 1]]
    /\ UNCHANGED <<clock, runs, stops, lastStop, other, revoked, shift>>

-----------------------------------------------------------------------------
(* The worker: process_schedule()                                           *)

\* Mutant: the occurrence of another revision does not count.
HandledByRevision(r) ==
    \E i \in DOMAIN runs : /\ runs[i].rule = r /\ runs[i].start = rules[r].next
                           /\ runs[i].revision = rules[r].revision
Handled(r) == \E i \in DOMAIN runs : runs[i].rule = r /\ runs[i].start = rules[r].next

Busy == other \/ \E i \in DOMAIN runs : runs[i].status \in {"queued", "published"}

ToCheck(r) == rules[r].enabled /\ rules[r].check # Never /\ rules[r].check <= clock

Refresh(r, from) == rules' = [rules EXCEPT ![r] = Refreshed(@, from)]

\* Mutant: a start that is too late to be made up for is moved on from at once.
ProcessRefreshMissed(r) ==
    /\ ToCheck(r)
    /\ rules[r].next > clock \/ rules[r].next \notin Starts(rules[r].spec)
       \/ rules[r].next + Grace <= clock
    /\ Refresh(r, clock)
    /\ UNCHANGED <<clock, runs, stops, lastStop, other, revoked, shift>>

\* The daily look at a start that is still far away, and starts the calendar has moved.
ProcessRefresh(r) ==
    /\ ToCheck(r)
    /\ rules[r].next > clock \/ rules[r].next \notin Starts(rules[r].spec)
    /\ Refresh(r, clock)
    /\ UNCHANGED <<clock, runs, stops, lastStop, other, revoked, shift>>

\* Mutant: there is nothing to do for a start that was handled.
ProcessDuplicateIdle(r) == ToCheck(r) /\ Handled(r) /\ UNCHANGED vars

\* The start is one of a former revision that ran already.
ProcessDuplicate(r) ==
    /\ ToCheck(r)
    /\ rules[r].next <= clock /\ rules[r].next \in Starts(rules[r].spec)
    /\ Handled(r)
    /\ Refresh(r, clock + 1)
    /\ UNCHANGED <<clock, runs, stops, lastStop, other, revoked, shift>>

InTime(start) == clock < start + Grace /\ clock < start + Length

StoppedSince(start) == lastStop # Never /\ lastStop >= start

Run(r, status) == [rule |-> r, start |-> rules[r].next, revision |-> rules[r].revision,
                   status |-> status, attempts |-> 0, leaving |-> FALSE,
                   expires |-> clock + Grace, actor |-> rules[r].author]

\* The start falls out: access revoked, missed, stopped, busy, or another verdict.
ProcessSkipped(r) ==
    /\ ToCheck(r)
    /\ rules[r].next <= clock /\ rules[r].next \in Starts(rules[r].spec)
    /\ ~Handled(r)
    /\ runs' = Append(runs, Run(r, "skipped"))
    /\ rules' = [rules EXCEPT ![r] =
            Refreshed([rules[r] EXCEPT !.enabled = rules[r].author \notin revoked], clock + 1)]
    /\ UNCHANGED <<clock, stops, lastStop, other, revoked, shift>>

ProcessStart(r) ==
    /\ ToCheck(r)
    /\ rules[r].next <= clock /\ rules[r].next \in Starts(rules[r].spec)
    /\ ~Handled(r)
    /\ rules[r].author \notin revoked
    /\ InTime(rules[r].next)
    /\ ~StoppedSince(rules[r].next)
    /\ ~Busy
    /\ runs' = Append(runs, Run(r, "queued"))
    /\ Refresh(r, clock + 1)
    /\ UNCHANGED <<clock, stops, lastStop, other, revoked, shift>>

Process(r) == ProcessRefresh(r) \/ ProcessDuplicate(r) \/ ProcessSkipped(r) \/ ProcessStart(r)

-----------------------------------------------------------------------------
(* Delivery: CommandDispatchService.dispatch and dispatch_rejection         *)

Entitled(run) ==
    /\ run.rule \in Live /\ rules[run.rule].enabled
    /\ run.revision = rules[run.rule].revision
    /\ rules[run.rule].author = run.actor /\ run.actor \notin revoked

InWindow(run) == clock < run.expires /\ InTime(run.start)

\* The attempt is committed; the message has not left yet.
Attempt(i) ==
    /\ runs[i].status \in {"queued", "published"}
    /\ ~runs[i].leaving /\ runs[i].attempts < Attempts
    /\ Entitled(runs[i]) /\ InWindow(runs[i])
    /\ runs' = [runs EXCEPT ![i] = [runs[i] EXCEPT !.status = "published", !.attempts = @ + 1,
                                             !.leaving = TRUE]]
    /\ UNCHANGED <<clock, rules, stops, lastStop, other, revoked, shift>>

\* Expired, no longer entitled, or rejected for another reason.
GiveUp(i) ==
    /\ runs[i].status \in {"queued", "published"}
    /\ runs' = [runs EXCEPT ![i].status = "over"]
    /\ UNCHANGED <<clock, rules, stops, lastStop, other, revoked, shift>>

\* publish_command_message(): the message goes out, or the call fails.
Leave(i) ==
    /\ runs[i].leaving
    /\ runs' = [runs EXCEPT ![i].leaving = FALSE]
    /\ UNCHANGED <<clock, rules, stops, lastStop, other, revoked, shift>>

\* The result of the controller, or the deadline for it.
Finish(i) ==
    /\ runs[i].status = "published"
    /\ runs' = [runs EXCEPT ![i].status = "over"]
    /\ UNCHANGED <<clock, rules, stops, lastStop, other, revoked, shift>>

-----------------------------------------------------------------------------
(* CommandService.create                                                    *)

\* The request carries the time at which it was received, not that of the lock.
RequestStop(k) ==
    /\ stops[k].at = Never
    /\ stops' = [stops EXCEPT ![k].at = clock]
    /\ UNCHANGED <<clock, rules, runs, lastStop, other, revoked, shift>>

\* Mutant: the time of the Stop is not kept.
AcceptStopQuietly(k) ==
    /\ stops[k].at # Never /\ ~stops[k].done
    /\ stops' = [stops EXCEPT ![k].done = TRUE]
    /\ runs' = [i \in DOMAIN runs |-> IF runs[i].status \in {"queued", "published"}
                                      THEN [runs[i] EXCEPT !.status = "over"] ELSE runs[i]]
    /\ other' = FALSE
    /\ UNCHANGED <<clock, rules, lastStop, revoked, shift>>

AcceptStop(k) ==
    /\ stops[k].at # Never /\ ~stops[k].done
    /\ stops' = [stops EXCEPT ![k].done = TRUE]
    /\ lastStop' = stops[k].at
    /\ runs' = [i \in DOMAIN runs |-> IF runs[i].status \in {"queued", "published"}
                                      THEN [runs[i] EXCEPT !.status = "over"] ELSE runs[i]]
    /\ other' = FALSE
    /\ UNCHANGED <<clock, rules, revoked, shift>>

\* Another command of an operator comes, or comes to its end.
OtherCommand ==
    /\ other' = ~other
    /\ UNCHANGED <<clock, rules, runs, stops, lastStop, revoked, shift>>

-----------------------------------------------------------------------------
(* The surroundings.                                                        *)

\* Memberships and accounts change: access is taken away and given again.
AccessChanges(u) ==
    /\ revoked' = IF u \in revoked THEN revoked \ {u} ELSE revoked \cup {u}
    /\ UNCHANGED <<clock, rules, runs, stops, lastStop, other, shift>>

\* New time zone data; in between the starts stay where they were computed.
CalendarChanges ==
    /\ shift' = 1
    /\ UNCHANGED <<clock, rules, runs, stops, lastStop, other, revoked>>

Tick ==
    /\ clock < MaxTime
    /\ clock' = clock + 1
    /\ UNCHANGED <<rules, runs, stops, lastStop, other, revoked, shift>>

Next ==
    \/ \E u \in Users, r \in Rules, spec \in Specs, on \in BOOLEAN : Write(u, r, spec, on)
    \/ \E r \in Rules :
        \/ Delete(r)
        \/ ProcessRefresh(r) \/ ProcessDuplicate(r) \/ ProcessSkipped(r) \/ ProcessStart(r)
    \/ \E i \in DOMAIN runs : Attempt(i) \/ GiveUp(i) \/ Leave(i) \/ Finish(i)
    \/ \E k \in Stops : RequestStop(k) \/ AcceptStop(k)
    \/ OtherCommand
    \/ \E u \in Users : AccessChanges(u)
    \/ CalendarChanges
    \/ Tick

Spec == Init /\ [][Next]_vars

\* The worker thread comes round every two seconds and handles up to a hundred rules.
Fairness == \A r \in Rules : WF_vars(Process(r))

FairSpec == Spec /\ Fairness
-----------------------------------------------------------------------------
(* What a user may rely on. *)

\* No start is run twice: not by two workers, nor by two revisions of the rule that
\* both contain it ("unique between revisions and workers").
OneRunPerStart ==
    \A i, j \in DOMAIN runs :
        runs[i].rule = runs[j].rule /\ runs[i].start = runs[j].start => i = j

\* The runs of all schedules of a device follow one another: the next is not started
\* before the command of the one before has come to its end.
OneAtATime ==
    \A i, j \in DOMAIN runs :
        runs[i].status \in {"queued", "published"} /\ runs[j].status \in {"queued", "published"}
        => i = j

Sending(i) == i \in DOMAIN runs /\ runs'[i].attempts > runs[i].attempts

\* A run is sent within the thirty seconds of its start and while it would still last,
\* however late the worker or the connection was: a missed start is never made up for.
SendsInTime ==
    \A i \in DOMAIN runs : Sending(i) =>
        clock >= runs[i].start /\ clock < runs[i].start + Grace
        /\ clock < runs[i].start + Length
SentInTime == [][SendsInTime]_vars

\* A Stop that was requested after the time of a start keeps that start from being sent,
\* whether the run existed already or not ("the saved date of the STOP prevents the race").
StopPrevents ==
    [][\A i \in DOMAIN runs : Sending(i) =>
        \A k \in Stops : stops[k].done => stops[k].at < runs[i].start]_vars

\* Stops take effect in the order in which they were received.
StopsInOrder ==
    \A k, m \in Stops : stops'[k].done /\ ~stops[k].done /\ stops[m].done
                        => stops[m].at <= stops[k].at

\* No two Stops wait for the device side by side.
SerialStops ==
    \A k, m \in Stops :
        /\ stops[k].at # Never /\ ~stops[k].done
        /\ stops[m].at # Never /\ ~stops[m].done
        => k = m

\* The worker does not pass over a start in silence: a due start it moves on from is in
\* the journal, unless the calendar no longer contains it.
DueIsJournaled ==
    [][\A r \in Rules :
        /\ rules[r].next # Never /\ rules[r].next <= clock
        /\ rules[r].next \in Starts(rules[r].spec)
        /\ rules'[r].next # rules[r].next
        /\ rules'[r].revision = rules[r].revision
        => \E i \in DOMAIN runs' : runs'[i].rule = r /\ runs'[i].start = rules[r].next]_vars

\* No rule stays with a start in the past.
Due(r) == rules[r].enabled /\ rules[r].next # Never /\ rules[r].next <= clock
DueIsSettled == \A r \in Rules : Due(r) ~> ~Due(r)

=============================================================================
