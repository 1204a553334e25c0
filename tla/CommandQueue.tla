---------------------------- MODULE CommandQueue ----------------------------
(***************************************************************************)
(* The durable command queue of one device, as the backend keeps it in     *)
(* PostgreSQL (backend/app/services/commands.py, command_dispatch.py,      *)
(* command_ack.py, command_result.py, command_outcomes.py) while request   *)
(* threads, the reliability worker and the MQTT network thread work on it  *)
(* at the same time.                                                       *)
(*                                                                         *)
(* Every service method locks the Device row and commits once, so each is  *)
(* one action here.  The exception is the dispatch: it commits the attempt,*)
(* talks to the broker WITHOUT the lock and locks again to write what the  *)
(* broker answered; those are three actions of one thread, and a crash may *)
(* fall between any two of them.                                           *)
(*                                                                         *)
(* Time is abstracted to what the code asks of the clock: whether the TTL  *)
(* of a command has passed, whether its retry interval is still running,   *)
(* whether its result deadline has passed.                                 *)
(***************************************************************************)
EXTENDS Naturals

CONSTANTS
    Requests,      \* request_ids: one POST body each (device_commands.request_id)
    Stops,         \* the requests whose command_type is vfd.stop
    Author,        \* [Requests -> users]: who posts the request
    Supersedes,    \* [Requests -> Requests \cup {NoRequest}]: supersedes_request_id
    NoRequest,
    ApiThreads,    \* threads serving POST /devices/{id}/commands
    Workers,       \* reliability workers: one in each backend process
    MaxAttempts    \* bound of the model on publish_attempts

Threads == ApiThreads \cup Workers

\* DeviceCommandCreate: only a Stop names another request, and never itself.
ASSUME RequestsAssumption ==
    /\ Stops \subseteq Requests
    /\ NoRequest \notin Requests
    /\ Supersedes \in [Requests -> Requests \cup {NoRequest}]
    /\ \A r \in Requests : Supersedes[r] # NoRequest => r \in Stops /\ Supersedes[r] # r

ASSUME ThreadsAssumption == ApiThreads \cap Workers = {}

ASSUME MaxAttemptsAssumption == MaxAttempts \in Nat \ {0}

VARIABLES
    sequence,      \* Device.command_sequence
    status,        \* DeviceCommand.status, "absent" before the row exists
    number,        \* DeviceCommand.control_sequence, 0 before the row exists
    attempts,      \* DeviceCommand.publish_attempts
    acked,         \* requests whose acknowledged_at is set
    diagnosis,     \* DeviceCommand.last_publish_error: "none" or "error"
    alarms,        \* requests with an active command.result_unknown.<id> alarm
    expired,       \* requests whose expires_at has passed
    resting,       \* requests attempted less than the retry interval ago
    overdue,       \* requests whose result_deadline_at has passed
    job,           \* what each thread is doing between two of its transactions
    handed         \* requests handed to the MQTT client: they may reach the device

rows == <<status, number, attempts, acked, diagnosis, alarms>>
clock == <<expired, resting, overdue>>
vars == <<sequence, rows, clock, job, handed>>

Pending == {"queued", "published"}
Withdrawn == {"cancelled", "expired"}
Terminal == {"succeeded", "failed"}
Statuses == {"absent", "acknowledged", "result_unknown"} \cup Pending \cup Withdrawn \cup Terminal

\* A thread that is idle; that has created a command and will dispatch it; that
\* has committed an attempt and is about to publish it; that has heard from the
\* broker and is about to write what it heard.
Job(phase, cmd, attempt, error) ==
    [phase |-> phase, cmd |-> cmd, attempt |-> attempt, error |-> error]
Idle == Job("idle", NoRequest, 0, "none")
Created(r) == Job("created", r, 0, "none")
Jobs == [phase : {"idle", "created", "committed", "replied"},
         cmd : Requests \cup {NoRequest}, attempt : Nat, error : {"none", "error"}]

\* Thread t has an attempt of r in flight.
InFlight(t, r) == job[t].phase \in {"committed", "replied"} /\ job[t].cmd = r

Exists(r) == status[r] # "absent"

TypeOK ==
    /\ sequence \in Nat
    /\ status \in [Requests -> Statuses]
    /\ number \in [Requests -> Nat]
    /\ attempts \in [Requests -> Nat]
    /\ acked \subseteq Requests
    /\ diagnosis \in [Requests -> {"none", "error"}]
    /\ alarms \subseteq Requests
    /\ expired \subseteq Requests
    /\ resting \subseteq Requests
    /\ overdue \subseteq Requests
    /\ job \in [Threads -> Jobs]
    /\ handed \subseteq Requests

Init ==
    /\ sequence = 0
    /\ status = [r \in Requests |-> "absent"]
    /\ number = [r \in Requests |-> 0]
    /\ attempts = [r \in Requests |-> 0]
    /\ acked = {}
    /\ diagnosis = [r \in Requests |-> "none"]
    /\ alarms = {}
    /\ expired = {}
    /\ resting = {}
    /\ overdue = {}
    /\ job = [t \in Threads |-> Idle]
    /\ handed = {}

-----------------------------------------------------------------------------
(* command_outcomes.stop_delivery: no further delivery.  A command that may *)
(* have left the backend becomes result_unknown and raises its alarm; only  *)
(* one that never left may be reported as withdrawn.                        *)

Attempted(r) ==
    \/ status[r] \in {"published", "acknowledged"}
    \/ attempts[r] > 0
    \/ r \in acked

StoppedStatus(r, unsent) == IF Attempted(r) THEN "result_unknown" ELSE unsent

RaisedAlarms(S) == alarms \cup {r \in S : Attempted(r)}

StopDelivery(r, unsent) ==
    /\ status' = [status EXCEPT ![r] = StoppedStatus(r, unsent)]
    /\ alarms' = RaisedAlarms({r})

-----------------------------------------------------------------------------
(* CommandService.create: one transaction under the Device lock.            *)

\* Mutant: only a Stop that is still pending is looked for.
SupersededByPending(r) ==
    \E s \in Stops : status[s] \in Pending /\ Supersedes[s] = r /\ Author[s] = Author[r]

\* CommandRepository.superseding_stop: a Stop of the same author that arrived
\* first and named this request.
Superseded(r) ==
    \E s \in Stops : Exists(s) /\ Supersedes[s] = r /\ Author[s] = Author[r]

\* Mutant: a Stop leaves alone what was published already.
PreemptedUnpublished(r) ==
    IF r \in Stops /\ ~Superseded(r)
    THEN {q \in Requests : status[q] = "queued"}
    ELSE {}

\* The pending commands a Stop takes out of delivery when it is created.
Preempted(r) ==
    IF r \in Stops /\ ~Superseded(r)
    THEN {q \in Requests : status[q] \in Pending}
    ELSE {}

\* A repeated POST finds the row (same request_id) and changes nothing, so a
\* request is created once; the thread that created it goes on to dispatch it.
Create(t, r) ==
    /\ job[t] = Idle
    /\ ~Exists(r)
    /\ sequence' = sequence + 1
    /\ number' = [number EXCEPT ![r] = sequence + 1]
    /\ status' = [q \in Requests |->
                    IF q = r THEN IF Superseded(r) THEN "cancelled" ELSE "queued"
                    ELSE IF q \in Preempted(r) THEN StoppedStatus(q, "cancelled")
                    ELSE status[q]]
    /\ alarms' = RaisedAlarms(Preempted(r))
    /\ job' = [job EXCEPT ![t] = Created(r)]
    /\ UNCHANGED <<attempts, acked, diagnosis, clock, handed>>

-----------------------------------------------------------------------------
(* CommandDispatchService.dispatch.  A request thread dispatches the command*)
(* it has just created, with allow_retry = False; a worker dispatches any   *)
(* candidate of its cycle, with allow_retry = True.  The candidate list was *)
(* read without the lock, so a worker may find the command in any state.    *)

MayDispatch(t, r) ==
    \/ t \in ApiThreads /\ job[t] = Created(r)
    \/ t \in Workers /\ job[t] = Idle /\ Exists(r)

AllowsRetry(t) == t \in Workers

\* Mutants: a request thread repeats a published command; nobody revisits one; the
\* worker repeats a command of unknown fate.
DeliverableByAnyone(t, r) == status[r] \in Pending
DeliverableOnce(t, r) == status[r] = "queued"
DeliverableUnknown(t, r) ==
    status[r] = "queued" \/ (status[r] \in {"published", "result_unknown"} /\ AllowsRetry(t))

\* The command is still to be delivered, by a thread allowed to do it.
Deliverable(t, r) == status[r] = "queued" \/ (status[r] = "published" /\ AllowsRetry(t))

RetryDue(t, r) == AllowsRetry(t) => r \notin resting

\* Acknowledged, and no result before the deadline.
DispatchOverdue(t, r) ==
    /\ MayDispatch(t, r)
    /\ status[r] = "acknowledged"
    /\ r \in overdue
    /\ StopDelivery(r, "cancelled")
    /\ job' = [job EXCEPT ![t] = Idle]
    /\ UNCHANGED <<sequence, number, attempts, acked, diagnosis, clock, handed>>

DispatchExpired(t, r) ==
    /\ MayDispatch(t, r)
    /\ Deliverable(t, r)
    /\ r \in expired
    /\ StopDelivery(r, "expired")
    /\ job' = [job EXCEPT ![t] = Idle]
    /\ UNCHANGED <<sequence, number, attempts, acked, diagnosis, clock, handed>>

\* dispatch_rejection: the author's session or role, the capability, the
\* equipment binding or the program changed since the command was created.
DispatchRejected(t, r) ==
    /\ MayDispatch(t, r)
    /\ Deliverable(t, r)
    /\ r \notin expired
    /\ RetryDue(t, r)
    /\ StopDelivery(r, "cancelled")
    /\ job' = [job EXCEPT ![t] = Idle]
    /\ UNCHANGED <<sequence, number, attempts, acked, diagnosis, clock, handed>>

\* The attempt is committed BEFORE the network is touched.
DispatchAttempt(t, r) ==
    /\ MayDispatch(t, r)
    /\ Deliverable(t, r)
    /\ r \notin expired
    /\ RetryDue(t, r)
    /\ attempts[r] < MaxAttempts
    /\ status' = [status EXCEPT ![r] = "published"]
    /\ attempts' = [attempts EXCEPT ![r] = @ + 1]
    /\ diagnosis' = [diagnosis EXCEPT ![r] = "none"]
    /\ resting' = resting \cup {r}
    /\ job' = [job EXCEPT ![t] = Job("committed", r, attempts[r] + 1, "none")]
    /\ UNCHANGED <<sequence, number, acked, alarms, expired, overdue, handed>>

\* Every return that changes nothing: the status moved on, the command was
\* already published, the device is offline, the access check has failed to run.
DispatchNothing(t) ==
    /\ job[t].phase = "created"
    /\ job' = [job EXCEPT ![t] = Idle]
    /\ UNCHANGED <<sequence, rows, clock, handed>>

\* publish_command_message.  Without a connection nothing is handed over.  Once
\* the client has the message it may send it whatever the call returns: a
\* missing PUBACK within the wait is reported as an error.
Publish(t) ==
    /\ job[t].phase = "committed"
    /\ \E connected \in BOOLEAN, error \in {"none", "error"} :
        /\ ~connected => error = "error"
        /\ handed' = IF connected THEN handed \cup {job[t].cmd} ELSE handed
        /\ job' = [job EXCEPT ![t] = Job("replied", job[t].cmd, job[t].attempt, error)]
    /\ UNCHANGED <<sequence, rows, clock>>

NewestAttempt(t) == attempts[job[t].cmd] = job[t].attempt

\* The Device lock is taken again; ACK, result, Stop or a newer attempt may
\* have been committed meanwhile.
RecordReply(t) ==
    /\ job[t].phase = "replied"
    /\ diagnosis' = IF NewestAttempt(t)
                    THEN [diagnosis EXCEPT ![job[t].cmd] = job[t].error]
                    ELSE diagnosis
    /\ job' = [job EXCEPT ![t] = Idle]
    /\ UNCHANGED <<sequence, status, number, attempts, acked, alarms, clock, handed>>

\* The thread is lost between two of its transactions: its process dies, or the
\* database call that follows fails.  What was committed stays.
Abandon(t) ==
    /\ job[t] # Idle
    /\ job' = [job EXCEPT ![t] = Idle]
    /\ UNCHANGED <<sequence, rows, clock, handed>>

-----------------------------------------------------------------------------
(* CommandAckService.acknowledge and CommandResultService.complete, run by  *)
(* the MQTT network thread.  The device can only speak of a command that was*)
(* handed to the network; its answers are lost, repeated, delayed and       *)
(* reordered at will, so any of them may arrive at any time.                *)

Acknowledge(r) ==
    /\ r \in handed
    /\ r \notin acked
    /\ status[r] \in {"published", "result_unknown", "expired"}
    /\ attempts[r] > 0
    /\ acked' = acked \cup {r}
    /\ IF r \in expired \/ status[r] # "published"
       THEN IF status[r] # "result_unknown"
            THEN StopDelivery(r, "cancelled")
            ELSE UNCHANGED <<status, alarms>>
       ELSE /\ status' = [status EXCEPT ![r] = "acknowledged"]
            /\ UNCHANGED alarms
    /\ UNCHANGED <<sequence, number, attempts, diagnosis, clock, job, handed>>

\* Mutant: the old status is read after the new one was written.
AlarmsNeverClosed(r) == alarms

AlarmsAfterResult(r) == IF status[r] = "result_unknown" THEN alarms \ {r} ELSE alarms

Complete(r, outcome) ==
    /\ r \in handed
    /\ \/ status[r] \in {"published", "acknowledged", "result_unknown"}
       \/ status[r] = "expired" /\ attempts[r] > 0
    /\ status' = [status EXCEPT ![r] = outcome]
    /\ acked' = acked \cup {r}
    /\ alarms' = AlarmsAfterResult(r)
    /\ UNCHANGED <<sequence, number, attempts, diagnosis, clock, job, handed>>

-----------------------------------------------------------------------------
(* The clock.  expires_at is set when the row is created, the retry interval *)
(* runs from last_publish_attempt_at, the deadline from the acknowledgement. *)

TtlPasses(r) ==
    /\ Exists(r) /\ r \notin expired
    /\ expired' = expired \cup {r}
    /\ UNCHANGED <<sequence, rows, resting, overdue, job, handed>>

RetryIntervalPasses(r) ==
    /\ r \in resting
    /\ resting' = resting \ {r}
    /\ UNCHANGED <<sequence, rows, expired, overdue, job, handed>>

DeadlinePasses(r) ==
    /\ status[r] = "acknowledged" /\ r \notin overdue
    /\ overdue' = overdue \cup {r}
    /\ UNCHANGED <<sequence, rows, expired, resting, job, handed>>

-----------------------------------------------------------------------------
Next ==
    \/ \E t \in ApiThreads, r \in Requests : Create(t, r)
    \/ \E t \in Threads, r \in Requests :
        \/ DispatchOverdue(t, r)
        \/ DispatchExpired(t, r)
        \/ DispatchRejected(t, r)
        \/ DispatchAttempt(t, r)
    \/ \E t \in Threads : DispatchNothing(t) \/ Publish(t) \/ RecordReply(t) \/ Abandon(t)
    \/ \E r \in Requests :
        \/ Acknowledge(r)
        \/ \E outcome \in Terminal : Complete(r, outcome)
        \/ TtlPasses(r)
        \/ RetryIntervalPasses(r)
        \/ DeadlinePasses(r)

\* Time passes; the MQTT call returns (it waits 3 s at most) and the thread goes
\* on; a worker, whose cycle selects every expired or overdue command first,
\* comes round to each of them.
Fairness ==
    /\ \A r \in Requests : WF_vars(TtlPasses(r)) /\ WF_vars(DeadlinePasses(r))
    /\ \A t \in Threads : WF_vars(Publish(t)) /\ WF_vars(RecordReply(t))
    /\ \A t \in Workers, r \in Requests :
        WF_vars(DispatchExpired(t, r)) /\ WF_vars(DispatchOverdue(t, r))

Spec == Init /\ [][Next]_vars

FairSpec == Spec /\ Fairness
-----------------------------------------------------------------------------
(* What the queue guarantees. *)

\* A command reported as cancelled or expired never left the backend and never
\* will: no thread still holds an attempt of it (stop_delivery's "attempted").
WithdrawnNeverLeft ==
    \A r \in Requests : status[r] \in Withdrawn =>
        r \notin handed /\ \A t \in Threads : ~InFlight(t, r)

\* The operator has one open result_unknown alarm for exactly the commands whose
\* fate is unknown: raised by every path that gives up waiting, closed by the
\* late result (record_result_timeout, resolve_result_timeout).
AlarmIffUnknown == alarms = {r \in Requests : status[r] = "result_unknown"}

\* A Stop that was not itself superseded when it arrived.
Effective(s) ==
    /\ s \in Stops /\ Exists(s)
    /\ \A z \in Stops : Exists(z) /\ Supersedes[z] = s /\ Author[z] = Author[s]
                        => number[z] > number[s]

\* Once a Stop is registered, nothing numbered below it is deliverable, whatever
\* the dispatching threads were doing: a retry of an old Start cannot follow it.
StopEmptiesQueue ==
    \A s, r \in Requests :
        Effective(s) /\ Exists(r) /\ number[r] < number[s] => status[r] \notin Pending

\* A Start that reaches the backend after the Stop of the same author that names
\* it is recorded as cancelled and never published.
LateStartWithheld ==
    \A s \in Stops, r \in Requests :
        /\ Exists(s) /\ Exists(r)
        /\ Supersedes[s] = r /\ Author[s] = Author[r]
        /\ number[s] < number[r]
        => status[r] = "cancelled" /\ r \notin handed

\* A request thread and the worker cannot both publish a fresh command: the
\* message leaves again only after the retry interval.
NoHastyRepeat ==
    [][\A r \in Requests : attempts'[r] > attempts[r] /\ attempts[r] > 0 => r \notin resting]_vars

\* last_publish_error tells of the newest attempt: a slow older attempt that ends
\* after it leaves it alone.
DiagnosisOfNewest ==
    [][\A r \in Requests : diagnosis'[r] = "error" /\ diagnosis[r] = "none" =>
        \E t \in Threads : InFlight(t, r) /\ job[t].attempt = attempts[r]]_vars

\* A withdrawn or reported outcome is never taken back, not by a late answer of
\* the device, not by a Stop, not by a thread that looked before.
DecidedForGood ==
    [][\A r \in Requests : status[r] \in Withdrawn \cup Terminal => status'[r] = status[r]]_vars

\* Nobody waits for ever: every command leaves queued, published, acknowledged.
EventuallyDecided ==
    \A r \in Requests :
        status[r] \in Pending \cup {"acknowledged"}
            ~> status[r] \notin Pending \cup {"acknowledged"}

\* The queue keeps the promise of CommandPromise.
OutcomeOf(s) ==
    CASE s = "queued" -> "waiting"
      [] s = "published" -> "tried"
      [] s = "acknowledged" -> "accepted"
      [] s = "result_unknown" -> "unknown"
      [] s \in Withdrawn -> "withdrawn"
      [] OTHER -> s

Promise == INSTANCE CommandPromise WITH
    outcome <- [r \in Requests |-> OutcomeOf(status[r])],
    wire <- handed

KeepsPromise == Promise!Spec
=============================================================================
