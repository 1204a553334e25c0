-------------------------- MODULE CommandQueueProofs --------------------------
(***************************************************************************)
(* Proofs about CommandQueue, for every set of requests, users and threads *)
(* and every bound on the attempts; at the end, that it implements the      *)
(* safety part of CommandPromise.                                          *)
(***************************************************************************)
EXTENDS CommandQueue, TLAPS

\* Statuses of a command no attempt of which was ever committed.
Unsent == {"absent", "queued"} \cup Withdrawn

\* A busy thread works on a request.
JobsNameRequests ==
    \A t \in Threads : job[t].phase # "idle" => job[t].cmd \in Requests

\* What the columns and the network know of a command agrees with its status.
AttemptEvidence ==
    \A r \in Requests :
        /\ status[r] \in Unsent =>
            /\ attempts[r] = 0
            /\ r \notin acked
            /\ r \notin handed
            /\ \A t \in Threads : ~InFlight(t, r)
        /\ status[r] \notin Unsent => attempts[r] > 0

\* Registered commands are numbered up to the device's counter.
Numbering ==
    \A r \in Requests : number[r] <= sequence /\ (Exists(r) => number[r] > 0)

DeliveryInv == TypeOK /\ JobsNameRequests /\ AttemptEvidence

-----------------------------------------------------------------------------
\* Every service method and thread keeps the rows well formed.
LEMMA TypeStep ==
  ASSUME TypeOK, JobsNameRequests, [Next]_vars
  PROVE  TypeOK'
<1>1. ASSUME NEW t \in ApiThreads, NEW r \in Requests, Create(t, r)
      PROVE  TypeOK'
  BY <1>1 DEF TypeOK, Threads, Create, Preempted, StoppedStatus, RaisedAlarms, Created, Job,
      Jobs, clock, Statuses, Pending, Withdrawn, Terminal
<1>2. ASSUME NEW t \in Threads, NEW r \in Requests, DispatchOverdue(t, r)
      PROVE  TypeOK'
  BY <1>2 DEF TypeOK, Threads, DispatchOverdue, StopDelivery, StoppedStatus, RaisedAlarms,
      Idle, Job, Jobs, clock, Statuses, Pending, Withdrawn, Terminal
<1>3. ASSUME NEW t \in Threads, NEW r \in Requests, DispatchExpired(t, r)
      PROVE  TypeOK'
  BY <1>3 DEF TypeOK, Threads, DispatchExpired, StopDelivery, StoppedStatus, RaisedAlarms,
      Idle, Job, Jobs, clock, Statuses, Pending, Withdrawn, Terminal
<1>4. ASSUME NEW t \in Threads, NEW r \in Requests, DispatchRejected(t, r)
      PROVE  TypeOK'
  BY <1>4 DEF TypeOK, Threads, DispatchRejected, StopDelivery, StoppedStatus, RaisedAlarms,
      Idle, Job, Jobs, clock, Statuses, Pending, Withdrawn, Terminal
<1>5. ASSUME NEW t \in Threads, NEW r \in Requests, DispatchAttempt(t, r)
      PROVE  TypeOK'
  BY <1>5 DEF TypeOK, Threads, DispatchAttempt, Job, Jobs, Statuses, Pending, Withdrawn,
      Terminal
<1>6. ASSUME NEW t \in Threads, DispatchNothing(t)
      PROVE  TypeOK'
  BY <1>6 DEF TypeOK, Threads, DispatchNothing, Idle, Job, Jobs, rows, clock
<1>7. ASSUME NEW t \in Threads, Publish(t)
      PROVE  TypeOK'
  BY <1>7 DEF TypeOK, Threads, Publish, JobsNameRequests, Job, Jobs, rows, clock
<1>8. ASSUME NEW t \in Threads, RecordReply(t)
      PROVE  TypeOK'
  BY <1>8 DEF TypeOK, Threads, RecordReply, Idle, Job, Jobs, clock, JobsNameRequests
<1>9. ASSUME NEW t \in Threads, Abandon(t)
      PROVE  TypeOK'
  BY <1>9 DEF TypeOK, Threads, Abandon, Idle, Job, Jobs, rows, clock
<1>10. ASSUME NEW r \in Requests, Acknowledge(r)
      PROVE  TypeOK'
  BY <1>10 DEF TypeOK, Threads, Acknowledge, StopDelivery, StoppedStatus, RaisedAlarms, clock,
      Statuses, Pending, Withdrawn, Terminal
<1>11. ASSUME NEW r \in Requests, NEW outcome \in Terminal, Complete(r, outcome)
      PROVE  TypeOK'
  BY <1>11 DEF TypeOK, Threads, Complete, AlarmsAfterResult, clock, Statuses, Pending,
      Withdrawn, Terminal
<1>12. ASSUME NEW r \in Requests, TtlPasses(r)
      PROVE  TypeOK'
  BY <1>12 DEF TypeOK, Threads, TtlPasses, rows
<1>13. ASSUME NEW r \in Requests, RetryIntervalPasses(r)
      PROVE  TypeOK'
  BY <1>13 DEF TypeOK, Threads, RetryIntervalPasses, rows
<1>14. ASSUME NEW r \in Requests, DeadlinePasses(r)
      PROVE  TypeOK'
  BY <1>14 DEF TypeOK, Threads, DeadlinePasses, rows
<1>15. CASE UNCHANGED vars
  BY <1>15 DEF TypeOK, vars, rows, clock
<1>16. CASE Next
  BY <1>16, <1>1, <1>2, <1>3, <1>4, <1>5, <1>6, <1>7, <1>8, <1>9, <1>10, <1>11, <1>12,
     <1>13, <1>14 DEF Next
<1> QED
  BY <1>15, <1>16

\* A busy thread keeps working on a request of the device.
LEMMA JobsStep ==
  ASSUME TypeOK, JobsNameRequests, [Next]_vars
  PROVE  JobsNameRequests'
<1>1. ASSUME NEW t \in ApiThreads, NEW r \in Requests, Create(t, r)
      PROVE  JobsNameRequests'
  BY <1>1 DEF TypeOK, JobsNameRequests, Threads, Create, Created, Job
<1>2. ASSUME NEW t \in Threads, NEW r \in Requests, DispatchOverdue(t, r)
      PROVE  JobsNameRequests'
  BY <1>2 DEF TypeOK, JobsNameRequests, Threads, DispatchOverdue, Idle, Job
<1>3. ASSUME NEW t \in Threads, NEW r \in Requests, DispatchExpired(t, r)
      PROVE  JobsNameRequests'
  BY <1>3 DEF TypeOK, JobsNameRequests, Threads, DispatchExpired, Idle, Job
<1>4. ASSUME NEW t \in Threads, NEW r \in Requests, DispatchRejected(t, r)
      PROVE  JobsNameRequests'
  BY <1>4 DEF TypeOK, JobsNameRequests, Threads, DispatchRejected, Idle, Job
<1>5. ASSUME NEW t \in Threads, NEW r \in Requests, DispatchAttempt(t, r)
      PROVE  JobsNameRequests'
  BY <1>5 DEF TypeOK, JobsNameRequests, Threads, DispatchAttempt, Job
<1>6. ASSUME NEW t \in Threads, DispatchNothing(t)
      PROVE  JobsNameRequests'
  BY <1>6 DEF TypeOK, JobsNameRequests, Threads, DispatchNothing, Idle, Job
<1>7. ASSUME NEW t \in Threads, Publish(t)
      PROVE  JobsNameRequests'
  BY <1>7 DEF TypeOK, JobsNameRequests, Threads, Publish, Job
<1>8. ASSUME NEW t \in Threads, RecordReply(t)
      PROVE  JobsNameRequests'
  BY <1>8 DEF TypeOK, JobsNameRequests, Threads, RecordReply, Idle, Job
<1>9. ASSUME NEW t \in Threads, Abandon(t)
      PROVE  JobsNameRequests'
  BY <1>9 DEF TypeOK, JobsNameRequests, Threads, Abandon, Idle, Job
<1>10. ASSUME NEW r \in Requests, Acknowledge(r)
      PROVE  JobsNameRequests'
  BY <1>10 DEF TypeOK, JobsNameRequests, Threads, Acknowledge
<1>11. ASSUME NEW r \in Requests, NEW outcome \in Terminal, Complete(r, outcome)
      PROVE  JobsNameRequests'
  BY <1>11 DEF TypeOK, JobsNameRequests, Threads, Complete
<1>12. ASSUME NEW r \in Requests, TtlPasses(r)
      PROVE  JobsNameRequests'
  BY <1>12 DEF TypeOK, JobsNameRequests, Threads, TtlPasses
<1>13. ASSUME NEW r \in Requests, RetryIntervalPasses(r)
      PROVE  JobsNameRequests'
  BY <1>13 DEF TypeOK, JobsNameRequests, Threads, RetryIntervalPasses
<1>14. ASSUME NEW r \in Requests, DeadlinePasses(r)
      PROVE  JobsNameRequests'
  BY <1>14 DEF TypeOK, JobsNameRequests, Threads, DeadlinePasses
<1>15. CASE UNCHANGED vars
  BY <1>15 DEF JobsNameRequests, vars
<1>16. CASE Next
  BY <1>16, <1>1, <1>2, <1>3, <1>4, <1>5, <1>6, <1>7, <1>8, <1>9, <1>10, <1>11, <1>12,
     <1>13, <1>14 DEF Next
<1> QED
  BY <1>15, <1>16

\* Whatever moves a command keeps its columns and its status in agreement.
LEMMA EvidenceStep ==
  ASSUME TypeOK, JobsNameRequests, AttemptEvidence, [Next]_vars
  PROVE  AttemptEvidence'
<1>1. ASSUME NEW t \in ApiThreads, NEW r \in Requests, Create(t, r)
      PROVE  AttemptEvidence'
  BY <1>1 DEF TypeOK, JobsNameRequests, AttemptEvidence, InFlight, Unsent, Withdrawn, Create,
      Preempted, Pending, StoppedStatus, Attempted, Created, Job, Threads, Exists, clock
<1>2. ASSUME NEW t \in Threads, NEW r \in Requests, DispatchOverdue(t, r)
      PROVE  AttemptEvidence'
  BY <1>2 DEF TypeOK, JobsNameRequests, AttemptEvidence, InFlight, Unsent, Withdrawn,
      DispatchOverdue, StopDelivery, StoppedStatus, Attempted, Idle, Job
<1>3. ASSUME NEW t \in Threads, NEW r \in Requests, DispatchExpired(t, r)
      PROVE  AttemptEvidence'
  BY <1>3 DEF TypeOK, JobsNameRequests, AttemptEvidence, InFlight, Unsent, Withdrawn,
      DispatchExpired, StopDelivery, StoppedStatus, Attempted, Deliverable, Idle, Job
<1>4. ASSUME NEW t \in Threads, NEW r \in Requests, DispatchRejected(t, r)
      PROVE  AttemptEvidence'
  BY <1>4 DEF TypeOK, JobsNameRequests, AttemptEvidence, InFlight, Unsent, Withdrawn,
      DispatchRejected, StopDelivery, StoppedStatus, Attempted, Deliverable, Idle, Job
<1>5. ASSUME NEW t \in Threads, NEW r \in Requests, DispatchAttempt(t, r)
      PROVE  AttemptEvidence'
  BY <1>5 DEF TypeOK, JobsNameRequests, AttemptEvidence, InFlight, Unsent, Withdrawn,
      DispatchAttempt, Deliverable, Job
<1>6. ASSUME NEW t \in Threads, DispatchNothing(t)
      PROVE  AttemptEvidence'
  BY <1>6 DEF TypeOK, JobsNameRequests, AttemptEvidence, InFlight, Unsent, Withdrawn,
      DispatchNothing, Idle, Job, rows
<1>7. ASSUME NEW t \in Threads, Publish(t)
      PROVE  AttemptEvidence'
  BY <1>7 DEF TypeOK, JobsNameRequests, AttemptEvidence, InFlight, Unsent, Withdrawn, Publish,
      Job, rows
<1>8. ASSUME NEW t \in Threads, RecordReply(t)
      PROVE  AttemptEvidence'
  BY <1>8 DEF TypeOK, JobsNameRequests, AttemptEvidence, InFlight, Unsent, Withdrawn,
      RecordReply, Idle, Job
<1>9. ASSUME NEW t \in Threads, Abandon(t)
      PROVE  AttemptEvidence'
  BY <1>9 DEF TypeOK, JobsNameRequests, AttemptEvidence, InFlight, Unsent, Withdrawn, Abandon,
      Idle, Job, rows
<1>10. ASSUME NEW r \in Requests, Acknowledge(r)
      PROVE  AttemptEvidence'
  BY <1>10 DEF TypeOK, JobsNameRequests, AttemptEvidence, InFlight, Unsent, Withdrawn,
      Acknowledge, StopDelivery, StoppedStatus, Attempted
<1>11. ASSUME NEW r \in Requests, NEW outcome \in Terminal, Complete(r, outcome)
      PROVE  AttemptEvidence'
  BY <1>11 DEF TypeOK, JobsNameRequests, AttemptEvidence, InFlight, Unsent, Withdrawn,
      Complete, Terminal
<1>12. ASSUME NEW r \in Requests, TtlPasses(r)
      PROVE  AttemptEvidence'
  BY <1>12 DEF TypeOK, JobsNameRequests, AttemptEvidence, InFlight, Unsent, Withdrawn,
      TtlPasses, rows
<1>13. ASSUME NEW r \in Requests, RetryIntervalPasses(r)
      PROVE  AttemptEvidence'
  BY <1>13 DEF TypeOK, JobsNameRequests, AttemptEvidence, InFlight, Unsent, Withdrawn,
      RetryIntervalPasses, rows
<1>14. ASSUME NEW r \in Requests, DeadlinePasses(r)
      PROVE  AttemptEvidence'
  BY <1>14 DEF TypeOK, JobsNameRequests, AttemptEvidence, InFlight, Unsent, Withdrawn,
      DeadlinePasses, rows
<1>15. CASE UNCHANGED vars
  BY <1>15 DEF vars, rows, TypeOK, JobsNameRequests, AttemptEvidence, InFlight, Unsent,
      Withdrawn
<1>16. CASE Next
  BY <1>16, <1>1, <1>2, <1>3, <1>4, <1>5, <1>6, <1>7, <1>8, <1>9, <1>10, <1>11, <1>12,
     <1>13, <1>14 DEF Next
<1> QED
  BY <1>15, <1>16

-----------------------------------------------------------------------------
\* The inductive invariant of the delivery.
THEOREM DeliveryInvariant == Spec => []DeliveryInv
<1>1. Init => DeliveryInv
  BY DEF Init, DeliveryInv, TypeOK, JobsNameRequests, AttemptEvidence, Unsent, InFlight, Statuses,
         Idle, Job, Jobs, Threads
<1>2. DeliveryInv /\ [Next]_vars => DeliveryInv'
  BY TypeStep, JobsStep, EvidenceStep DEF DeliveryInv
<1> QED
  BY <1>1, <1>2, PTL DEF Spec

\* Type correctness: every column keeps its range.
THEOREM TypeCorrect == Spec => []TypeOK
BY DeliveryInvariant, PTL DEF DeliveryInv

\* A command reported as cancelled or expired never left and never will.
THEOREM WithdrawnSafe == Spec => []WithdrawnNeverLeft
<1>1. DeliveryInv => WithdrawnNeverLeft
  BY DEF DeliveryInv, AttemptEvidence, WithdrawnNeverLeft, Unsent
<1> QED
  BY <1>1, DeliveryInvariant, PTL

-----------------------------------------------------------------------------
\* The alarms follow the statuses: one path raises, one closes.
LEMMA AlarmStep ==
  ASSUME TypeOK, AttemptEvidence, AlarmIffUnknown, [Next]_vars
  PROVE  AlarmIffUnknown'
<1>1. ASSUME NEW t \in ApiThreads, NEW r \in Requests, Create(t, r)
      PROVE  AlarmIffUnknown'
  BY <1>1 DEF TypeOK, AlarmIffUnknown, Create, Preempted, Pending, StoppedStatus, RaisedAlarms,
      Exists
<1>2. ASSUME NEW t \in Threads, NEW r \in Requests, DispatchOverdue(t, r)
      PROVE  AlarmIffUnknown'
  BY <1>2 DEF TypeOK, AlarmIffUnknown, DispatchOverdue, StopDelivery, StoppedStatus,
      RaisedAlarms, Attempted
<1>3. ASSUME NEW t \in Threads, NEW r \in Requests, DispatchExpired(t, r)
      PROVE  AlarmIffUnknown'
  BY <1>3 DEF TypeOK, AlarmIffUnknown, DispatchExpired, StopDelivery, StoppedStatus,
      RaisedAlarms, Deliverable, Attempted
<1>4. ASSUME NEW t \in Threads, NEW r \in Requests, DispatchRejected(t, r)
      PROVE  AlarmIffUnknown'
  BY <1>4 DEF TypeOK, AlarmIffUnknown, DispatchRejected, StopDelivery, StoppedStatus,
      RaisedAlarms, Deliverable, Attempted
<1>5. ASSUME NEW t \in Threads, NEW r \in Requests, DispatchAttempt(t, r)
      PROVE  AlarmIffUnknown'
  BY <1>5 DEF TypeOK, AlarmIffUnknown, DispatchAttempt, Deliverable
<1>6. ASSUME NEW t \in Threads, DispatchNothing(t)
      PROVE  AlarmIffUnknown'
  BY <1>6 DEF TypeOK, AlarmIffUnknown, DispatchNothing, rows
<1>7. ASSUME NEW t \in Threads, Publish(t)
      PROVE  AlarmIffUnknown'
  BY <1>7 DEF TypeOK, AlarmIffUnknown, Publish, rows
<1>8. ASSUME NEW t \in Threads, RecordReply(t)
      PROVE  AlarmIffUnknown'
  BY <1>8 DEF TypeOK, AlarmIffUnknown, RecordReply
<1>9. ASSUME NEW t \in Threads, Abandon(t)
      PROVE  AlarmIffUnknown'
  BY <1>9 DEF TypeOK, AlarmIffUnknown, Abandon, rows
<1>10. ASSUME NEW r \in Requests, Acknowledge(r)
      PROVE  AlarmIffUnknown'
  BY <1>10 DEF TypeOK, AlarmIffUnknown, Acknowledge, StopDelivery, StoppedStatus, RaisedAlarms,
      Attempted, AttemptEvidence, Unsent, Withdrawn
<1>11. ASSUME NEW r \in Requests, NEW outcome \in Terminal, Complete(r, outcome)
      PROVE  AlarmIffUnknown'
  BY <1>11 DEF TypeOK, AlarmIffUnknown, Complete, AlarmsAfterResult, Terminal
<1>12. ASSUME NEW r \in Requests, TtlPasses(r)
      PROVE  AlarmIffUnknown'
  BY <1>12 DEF TypeOK, AlarmIffUnknown, TtlPasses, rows
<1>13. ASSUME NEW r \in Requests, RetryIntervalPasses(r)
      PROVE  AlarmIffUnknown'
  BY <1>13 DEF TypeOK, AlarmIffUnknown, RetryIntervalPasses, rows
<1>14. ASSUME NEW r \in Requests, DeadlinePasses(r)
      PROVE  AlarmIffUnknown'
  BY <1>14 DEF TypeOK, AlarmIffUnknown, DeadlinePasses, rows
<1>15. CASE UNCHANGED vars
  BY <1>15 DEF AlarmIffUnknown, vars, rows
<1>16. CASE Next
  BY <1>16, <1>1, <1>2, <1>3, <1>4, <1>5, <1>6, <1>7, <1>8, <1>9, <1>10, <1>11, <1>12,
     <1>13, <1>14 DEF Next
<1> QED
  BY <1>15, <1>16

\* Numbers are given once, in the order of registration.
LEMMA NumberingStep ==
  ASSUME TypeOK, Numbering, [Next]_vars
  PROVE  Numbering'
<1>1. ASSUME NEW t \in ApiThreads, NEW r \in Requests, Create(t, r)
      PROVE  Numbering'
  BY <1>1 DEF TypeOK, Numbering, Exists, Create, StoppedStatus, Preempted, Pending
<1>2. ASSUME NEW t \in Threads, NEW r \in Requests, DispatchOverdue(t, r)
      PROVE  Numbering'
  BY <1>2 DEF TypeOK, Numbering, Exists, DispatchOverdue, StopDelivery, StoppedStatus,
      RaisedAlarms
<1>3. ASSUME NEW t \in Threads, NEW r \in Requests, DispatchExpired(t, r)
      PROVE  Numbering'
  BY <1>3 DEF TypeOK, Numbering, Exists, DispatchExpired, StopDelivery, StoppedStatus,
      RaisedAlarms, Deliverable
<1>4. ASSUME NEW t \in Threads, NEW r \in Requests, DispatchRejected(t, r)
      PROVE  Numbering'
  BY <1>4 DEF TypeOK, Numbering, Exists, DispatchRejected, StopDelivery, StoppedStatus,
      RaisedAlarms, Deliverable
<1>5. ASSUME NEW t \in Threads, NEW r \in Requests, DispatchAttempt(t, r)
      PROVE  Numbering'
  BY <1>5 DEF TypeOK, Numbering, Exists, DispatchAttempt, Deliverable
<1>6. ASSUME NEW t \in Threads, DispatchNothing(t)
      PROVE  Numbering'
  BY <1>6 DEF TypeOK, Numbering, Exists, DispatchNothing, rows
<1>7. ASSUME NEW t \in Threads, Publish(t)
      PROVE  Numbering'
  BY <1>7 DEF TypeOK, Numbering, Exists, Publish, rows
<1>8. ASSUME NEW t \in Threads, RecordReply(t)
      PROVE  Numbering'
  BY <1>8 DEF TypeOK, Numbering, Exists, RecordReply
<1>9. ASSUME NEW t \in Threads, Abandon(t)
      PROVE  Numbering'
  BY <1>9 DEF TypeOK, Numbering, Exists, Abandon, rows
<1>10. ASSUME NEW r \in Requests, Acknowledge(r)
      PROVE  Numbering'
  BY <1>10 DEF TypeOK, Numbering, Exists, Acknowledge, StopDelivery, StoppedStatus,
      RaisedAlarms
<1>11. ASSUME NEW r \in Requests, NEW outcome \in Terminal, Complete(r, outcome)
      PROVE  Numbering'
  BY <1>11 DEF TypeOK, Numbering, Exists, Complete, Terminal
<1>12. ASSUME NEW r \in Requests, TtlPasses(r)
      PROVE  Numbering'
  BY <1>12 DEF TypeOK, Numbering, Exists, TtlPasses, rows
<1>13. ASSUME NEW r \in Requests, RetryIntervalPasses(r)
      PROVE  Numbering'
  BY <1>13 DEF TypeOK, Numbering, Exists, RetryIntervalPasses, rows
<1>14. ASSUME NEW r \in Requests, DeadlinePasses(r)
      PROVE  Numbering'
  BY <1>14 DEF TypeOK, Numbering, Exists, DeadlinePasses, rows
<1>15. CASE UNCHANGED vars
  BY <1>15 DEF Numbering, Exists, vars, rows
<1>16. CASE Next
  BY <1>16, <1>1, <1>2, <1>3, <1>4, <1>5, <1>6, <1>7, <1>8, <1>9, <1>10, <1>11, <1>12,
     <1>13, <1>14 DEF Next
<1> QED
  BY <1>15, <1>16

\* No step forgets a registered command, renumbers it, makes it deliverable again
\* or revives a cancelled one.
RowsKept ==
    \A q \in Requests :
        /\ Exists(q) => number'[q] = number[q] /\ Exists(q)'
        /\ Exists(q) /\ status[q] \notin Pending => status'[q] \notin Pending
        /\ status[q] = "cancelled" => status'[q] = "cancelled"

\* Rows only move forward.
LEMMA RowsStep ==
  ASSUME TypeOK, AttemptEvidence, [Next]_vars
  PROVE  RowsKept
<1>1. ASSUME NEW t \in ApiThreads, NEW r \in Requests, Create(t, r)
      PROVE  RowsKept
  BY <1>1 DEF TypeOK, RowsKept, Exists, Pending, Create, Preempted, StoppedStatus
<1>2. ASSUME NEW t \in Threads, NEW r \in Requests, DispatchOverdue(t, r)
      PROVE  RowsKept
  BY <1>2 DEF TypeOK, RowsKept, Exists, Pending, DispatchOverdue, StopDelivery, StoppedStatus
<1>3. ASSUME NEW t \in Threads, NEW r \in Requests, DispatchExpired(t, r)
      PROVE  RowsKept
  BY <1>3 DEF TypeOK, RowsKept, Exists, Pending, DispatchExpired, StopDelivery, StoppedStatus,
      Deliverable
<1>4. ASSUME NEW t \in Threads, NEW r \in Requests, DispatchRejected(t, r)
      PROVE  RowsKept
  BY <1>4 DEF TypeOK, RowsKept, Exists, Pending, DispatchRejected, StopDelivery, StoppedStatus,
      Deliverable
<1>5. ASSUME NEW t \in Threads, NEW r \in Requests, DispatchAttempt(t, r)
      PROVE  RowsKept
  BY <1>5 DEF TypeOK, RowsKept, Exists, Pending, DispatchAttempt, Deliverable
<1>6. ASSUME NEW t \in Threads, DispatchNothing(t)
      PROVE  RowsKept
  BY <1>6 DEF TypeOK, RowsKept, Exists, Pending, DispatchNothing, rows
<1>7. ASSUME NEW t \in Threads, Publish(t)
      PROVE  RowsKept
  BY <1>7 DEF TypeOK, RowsKept, Exists, Pending, Publish, rows
<1>8. ASSUME NEW t \in Threads, RecordReply(t)
      PROVE  RowsKept
  BY <1>8 DEF TypeOK, RowsKept, Exists, Pending, RecordReply
<1>9. ASSUME NEW t \in Threads, Abandon(t)
      PROVE  RowsKept
  BY <1>9 DEF TypeOK, RowsKept, Exists, Pending, Abandon, rows
<1>10. ASSUME NEW r \in Requests, Acknowledge(r)
      PROVE  RowsKept
  BY <1>10 DEF TypeOK, RowsKept, Exists, Pending, Acknowledge, StopDelivery, StoppedStatus,
      Attempted
<1>11. ASSUME NEW r \in Requests, NEW outcome \in Terminal, Complete(r, outcome)
      PROVE  RowsKept
  BY <1>11 DEF TypeOK, RowsKept, Exists, Pending, Complete, Terminal
<1>12. ASSUME NEW r \in Requests, TtlPasses(r)
      PROVE  RowsKept
  BY <1>12 DEF TypeOK, RowsKept, Exists, Pending, TtlPasses, rows
<1>13. ASSUME NEW r \in Requests, RetryIntervalPasses(r)
      PROVE  RowsKept
  BY <1>13 DEF TypeOK, RowsKept, Exists, Pending, RetryIntervalPasses, rows
<1>14. ASSUME NEW r \in Requests, DeadlinePasses(r)
      PROVE  RowsKept
  BY <1>14 DEF TypeOK, RowsKept, Exists, Pending, DeadlinePasses, rows
<1>15. CASE UNCHANGED vars
  BY <1>15 DEF RowsKept, Exists, Pending, vars, rows
<1>16. CASE Next
  BY <1>16, <1>1, <1>2, <1>3, <1>4, <1>5, <1>6, <1>7, <1>8, <1>9, <1>10, <1>11, <1>12,
     <1>13, <1>14 DEF Next
<1> QED
  BY <1>15, <1>16

\* Only Create brings a row into being.
NothingNew == \A q \in Requests : Exists(q)' => Exists(q)
OneCreated == \E t \in ApiThreads, q \in Requests : Create(t, q)

\* A step either creates one command or none.
LEMMA NewRowStep ==
  ASSUME TypeOK, [Next]_vars
  PROVE  NothingNew \/ OneCreated
<1>1. ASSUME NEW t \in ApiThreads, NEW r \in Requests, Create(t, r)
      PROVE  NothingNew \/ OneCreated
  BY <1>1 DEF OneCreated
<1>2. ASSUME NEW t \in Threads, NEW r \in Requests, DispatchOverdue(t, r)
      PROVE  NothingNew \/ OneCreated
  BY <1>2 DEF TypeOK, NothingNew, Exists, DispatchOverdue, StopDelivery, StoppedStatus
<1>3. ASSUME NEW t \in Threads, NEW r \in Requests, DispatchExpired(t, r)
      PROVE  NothingNew \/ OneCreated
  BY <1>3 DEF TypeOK, NothingNew, Exists, DispatchExpired, StopDelivery, StoppedStatus,
      Deliverable
<1>4. ASSUME NEW t \in Threads, NEW r \in Requests, DispatchRejected(t, r)
      PROVE  NothingNew \/ OneCreated
  BY <1>4 DEF TypeOK, NothingNew, Exists, DispatchRejected, StopDelivery, StoppedStatus,
      Deliverable
<1>5. ASSUME NEW t \in Threads, NEW r \in Requests, DispatchAttempt(t, r)
      PROVE  NothingNew \/ OneCreated
  BY <1>5 DEF TypeOK, NothingNew, Exists, DispatchAttempt, Deliverable
<1>6. ASSUME NEW t \in Threads, DispatchNothing(t)
      PROVE  NothingNew \/ OneCreated
  BY <1>6 DEF TypeOK, NothingNew, Exists, DispatchNothing, rows
<1>7. ASSUME NEW t \in Threads, Publish(t)
      PROVE  NothingNew \/ OneCreated
  BY <1>7 DEF TypeOK, NothingNew, Exists, Publish, rows
<1>8. ASSUME NEW t \in Threads, RecordReply(t)
      PROVE  NothingNew \/ OneCreated
  BY <1>8 DEF TypeOK, NothingNew, Exists, RecordReply
<1>9. ASSUME NEW t \in Threads, Abandon(t)
      PROVE  NothingNew \/ OneCreated
  BY <1>9 DEF TypeOK, NothingNew, Exists, Abandon, rows
<1>10. ASSUME NEW r \in Requests, Acknowledge(r)
      PROVE  NothingNew \/ OneCreated
  BY <1>10 DEF TypeOK, NothingNew, Exists, Acknowledge, StopDelivery, StoppedStatus
<1>11. ASSUME NEW r \in Requests, NEW outcome \in Terminal, Complete(r, outcome)
      PROVE  NothingNew \/ OneCreated
  BY <1>11 DEF TypeOK, NothingNew, Exists, Complete, Terminal
<1>12. ASSUME NEW r \in Requests, TtlPasses(r)
      PROVE  NothingNew \/ OneCreated
  BY <1>12 DEF TypeOK, NothingNew, Exists, TtlPasses, rows
<1>13. ASSUME NEW r \in Requests, RetryIntervalPasses(r)
      PROVE  NothingNew \/ OneCreated
  BY <1>13 DEF TypeOK, NothingNew, Exists, RetryIntervalPasses, rows
<1>14. ASSUME NEW r \in Requests, DeadlinePasses(r)
      PROVE  NothingNew \/ OneCreated
  BY <1>14 DEF TypeOK, NothingNew, Exists, DeadlinePasses, rows
<1>15. CASE UNCHANGED vars
  BY <1>15 DEF NothingNew, Exists, vars, rows
<1>16. CASE Next
  BY <1>16, <1>1, <1>2, <1>3, <1>4, <1>5, <1>6, <1>7, <1>8, <1>9, <1>10, <1>11, <1>12,
     <1>13, <1>14 DEF Next
<1> QED
  BY <1>15, <1>16

\* A new Stop empties the queue and only a new command enters it, with a higher number.
LEMMA StopStep ==
  ASSUME TypeOK, AttemptEvidence, Numbering, StopEmptiesQueue, [Next]_vars
  PROVE  StopEmptiesQueue'
<1>1. RowsKept
  BY RowsStep
<1> SUFFICES ASSUME NEW s \in Requests, NEW r \in Requests,
                    Effective(s)', Exists(r)', number'[r] < number'[s]
             PROVE  status'[r] \notin Pending
  BY DEF StopEmptiesQueue
<1>2. CASE NothingNew
  <2>1. Exists(s) /\ Exists(r) /\ number[r] < number[s]
    BY <1>1, <1>2 DEF NothingNew, Effective, RowsKept
  <2>2. \A z \in Stops : Exists(z) => Exists(z)' /\ number'[z] = number[z]
    BY <1>1, RequestsAssumption DEF RowsKept
  <2>3. number'[s] = number[s]
    BY <1>1, <2>1 DEF RowsKept
  <2>4. Effective(s)
    BY <2>1, <2>2, <2>3 DEF Effective
  <2> QED
    BY <1>1, <2>1, <2>4 DEF StopEmptiesQueue, RowsKept
<1>3. ASSUME NEW t \in ApiThreads, NEW c \in Requests, Create(t, c)
      PROVE  status'[r] \notin Pending
  <2>1. number'[c] = sequence + 1 /\ \A q \in Requests \ {c} : number'[q] = number[q]
    BY <1>3 DEF Create, TypeOK
  <2>2. r # c /\ Exists(r)
    <3>1. number'[s] <= sequence + 1
      BY <2>1 DEF Numbering, TypeOK
    <3>2. r # c
      BY <2>1, <3>1 DEF Numbering, TypeOK
    <3> QED
      BY <3>2, <1>3 DEF Create, Exists, Preempted, Pending, TypeOK
  <2>3. CASE s = c
    <3>1. \A z \in Stops : Exists(z) => z # c /\ Exists(z)' /\ number'[z] <= sequence
      BY <1>1, <1>3, <2>1, RequestsAssumption DEF Create, Numbering, RowsKept, TypeOK
    <3>2. ~Superseded(c)
      <4>1. ASSUME NEW z \in Stops, Exists(z), Supersedes[z] = c, Author[z] = Author[c]
            PROVE  FALSE
        <5>1. Exists(z)' /\ number'[z] \in Nat /\ number'[z] <= sequence
          BY <2>1, <3>1, <4>1, RequestsAssumption DEF TypeOK
        <5>2. number'[z] > sequence + 1
          BY <2>1, <2>3, <4>1, <5>1 DEF Effective
        <5> QED
          BY <5>1, <5>2 DEF TypeOK
      <4> QED
        BY <4>1 DEF Superseded
    <3>3. c \in Stops
      BY <2>3 DEF Effective
    <3>4. r \in Preempted(c) <=> status[r] \in Pending
      BY <3>2, <3>3 DEF Preempted
    <3> QED
      BY <1>3, <2>2, <3>4 DEF Create, StoppedStatus, Pending, TypeOK
  <2>4. CASE s # c
    <3>1. Exists(s)
      BY <1>3, <2>4 DEF Effective, Create, Exists, Preempted, Pending, TypeOK
    <3>2. number[r] < number[s]
      BY <2>1, <2>2, <2>4
    <3>3. Effective(s)
      <4>1. \A z \in Stops : Exists(z) => Exists(z)' /\ number'[z] = number[z]
        BY <1>1, RequestsAssumption DEF RowsKept
      <4>2. number'[s] = number[s]
        BY <1>1, <3>1 DEF RowsKept
      <4> QED
        BY <3>1, <4>1, <4>2 DEF Effective
    <3> QED
      BY <1>1, <2>2, <3>2, <3>3 DEF StopEmptiesQueue, RowsKept
  <2> QED
    BY <2>3, <2>4
<1> QED
  BY <1>2, <1>3, NewRowStep DEF OneCreated

\* A withheld Start stays withheld.
LEMMA LateStep ==
  ASSUME TypeOK, JobsNameRequests, AttemptEvidence, Numbering, LateStartWithheld, [Next]_vars
  PROVE  LateStartWithheld'
<1>1. RowsKept
  BY RowsStep
<1>2. AttemptEvidence'
  BY EvidenceStep
<1> SUFFICES ASSUME NEW s \in Stops, NEW r \in Requests, Exists(s)', Exists(r)',
                    Supersedes[s] = r, Author[s] = Author[r], number'[s] < number'[r]
             PROVE  status'[r] = "cancelled" /\ r \notin handed'
  BY DEF LateStartWithheld
<1>3. s \in Requests
  BY RequestsAssumption
<1>4. CASE NothingNew
  <2>1. Exists(s) /\ Exists(r) /\ number[s] < number[r]
    BY <1>1, <1>3, <1>4 DEF NothingNew, RowsKept
  <2> QED
    BY <1>1, <1>2, <2>1 DEF LateStartWithheld, RowsKept, AttemptEvidence, Unsent, Withdrawn
<1>5. ASSUME NEW t \in ApiThreads, NEW c \in Requests, Create(t, c)
      PROVE  status'[r] = "cancelled" /\ r \notin handed'
  <2>1. number'[c] = sequence + 1 /\ \A q \in Requests \ {c} : number'[q] = number[q]
    BY <1>5 DEF Create, TypeOK
  <2>2. s # c
    <3>1. number'[r] <= sequence + 1
      BY <2>1 DEF Numbering, TypeOK
    <3> QED
      BY <2>1, <3>1 DEF Numbering, TypeOK
  <2>3. Exists(s)
    BY <1>3, <1>5, <2>2 DEF Create, Exists, Preempted, Pending, TypeOK
  <2>4. CASE r = c
    <3>1. Superseded(c)
      BY <2>3, <2>4 DEF Superseded
    <3>2. status'[r] = "cancelled"
      BY <1>5, <2>4, <3>1 DEF Create, TypeOK
    <3> QED
      BY <1>2, <3>2 DEF AttemptEvidence, Unsent, Withdrawn
  <2>5. CASE r # c
    <3>1. Exists(r)
      BY <1>5, <2>5 DEF Create, Exists, Preempted, Pending, TypeOK
    <3>2. number[s] < number[r]
      BY <1>3, <2>1, <2>2, <2>5
    <3>3. status[r] = "cancelled"
      BY <2>3, <3>1, <3>2 DEF LateStartWithheld
    <3> QED
      BY <1>1, <1>2, <3>3 DEF RowsKept, AttemptEvidence, Unsent, Withdrawn
  <2> QED
    BY <2>4, <2>5
<1> QED
  BY <1>4, <1>5, NewRowStep DEF OneCreated

-----------------------------------------------------------------------------
\* The inductive invariant of the whole queue.
QueueInv == DeliveryInv /\ AlarmIffUnknown /\ Numbering /\ StopEmptiesQueue /\ LateStartWithheld

THEOREM QueueInvariant == Spec => []QueueInv
<1>1. Init => AlarmIffUnknown /\ Numbering /\ StopEmptiesQueue /\ LateStartWithheld
  BY RequestsAssumption DEF Init, AlarmIffUnknown, Numbering, StopEmptiesQueue, LateStartWithheld,
         Effective, Exists
<1>2. DeliveryInv /\ QueueInv /\ [Next]_vars
        => (AlarmIffUnknown /\ Numbering /\ StopEmptiesQueue /\ LateStartWithheld)'
  BY AlarmStep, NumberingStep, StopStep, LateStep DEF DeliveryInv, QueueInv
<1> QED
  BY <1>1, <1>2, DeliveryInvariant, PTL DEF Spec, QueueInv

\* The operator's unknown-result alarms are exactly the commands of unknown fate.
THEOREM AlarmsTruthful == Spec => []AlarmIffUnknown
BY QueueInvariant, PTL DEF QueueInv

\* After a Stop is registered no older command is ever deliverable.
THEOREM StopPreempts == Spec => []StopEmptiesQueue
BY QueueInvariant, PTL DEF QueueInv

\* A Start that arrives after its Stop is never published.
THEOREM LateStartStays == Spec => []LateStartWithheld
BY QueueInvariant, PTL DEF QueueInv

-----------------------------------------------------------------------------
(* The action properties. *)

Decided == Withdrawn \cup Terminal

OutcomesKept == \A q \in Requests : status[q] \in Decided => status'[q] = status[q]

RepeatsRested ==
    \A q \in Requests : attempts'[q] > attempts[q] /\ attempts[q] > 0 => q \notin resting

DiagnosesOwned ==
    \A q \in Requests : diagnosis'[q] = "error" /\ diagnosis[q] = "none" =>
        \E t \in Threads : InFlight(t, q) /\ job[t].attempt = attempts[q]

\* What a step may never do to a command: take back its outcome, send it again before
\* the retry interval is over, blame it for an attempt that is not its newest.
StepAllowed == OutcomesKept /\ RepeatsRested /\ DiagnosesOwned

\* A queued command was never attempted and a request thread repeats nothing, so only
\* the worker has an interval to wait for.
LEMMA AllowedStep ==
  ASSUME DeliveryInv, [Next]_vars
  PROVE  StepAllowed
<1> USE DEF DeliveryInv, StepAllowed, OutcomesKept, RepeatsRested, DiagnosesOwned, Decided,
        Withdrawn, Terminal
<1>1. ASSUME NEW t \in ApiThreads, NEW r \in Requests, Create(t, r)
      PROVE  StepAllowed
  BY <1>1 DEF TypeOK, Create, Preempted, Pending, Exists
<1>2. ASSUME NEW t \in Threads, NEW r \in Requests, DispatchOverdue(t, r)
      PROVE  StepAllowed
  BY <1>2 DEF TypeOK, DispatchOverdue, StopDelivery
<1>3. ASSUME NEW t \in Threads, NEW r \in Requests, DispatchExpired(t, r)
      PROVE  StepAllowed
  BY <1>3 DEF TypeOK, DispatchExpired, StopDelivery, Deliverable
<1>4. ASSUME NEW t \in Threads, NEW r \in Requests, DispatchRejected(t, r)
      PROVE  StepAllowed
  BY <1>4 DEF TypeOK, DispatchRejected, StopDelivery, Deliverable
<1>5. ASSUME NEW t \in Threads, NEW r \in Requests, DispatchAttempt(t, r)
      PROVE  StepAllowed
  <2>1. status[r] \in {"queued", "published"} /\ (attempts[r] > 0 => r \notin resting)
    BY <1>5 DEF DispatchAttempt, Deliverable, RetryDue, AttemptEvidence, Unsent, TypeOK
  <2> QED
    BY <1>5, <2>1 DEF TypeOK, DispatchAttempt
<1>6. ASSUME NEW t \in Threads, DispatchNothing(t) \/ Publish(t) \/ Abandon(t)
      PROVE  StepAllowed
  BY <1>6 DEF TypeOK, DispatchNothing, Publish, Abandon, rows
<1>7. ASSUME NEW t \in Threads, RecordReply(t)
      PROVE  StepAllowed
  BY <1>7 DEF TypeOK, RecordReply, NewestAttempt, InFlight, JobsNameRequests
<1>8. ASSUME NEW r \in Requests, Acknowledge(r)
      PROVE  StepAllowed
  BY <1>8 DEF TypeOK, Acknowledge, StopDelivery, AttemptEvidence, Unsent
<1>9. ASSUME NEW r \in Requests, NEW outcome \in Terminal, Complete(r, outcome)
      PROVE  StepAllowed
  BY <1>9 DEF TypeOK, Complete, AttemptEvidence, Unsent
<1>10. ASSUME NEW r \in Requests, TtlPasses(r) \/ RetryIntervalPasses(r) \/ DeadlinePasses(r)
       PROVE  StepAllowed
  BY <1>10 DEF TypeOK, TtlPasses, RetryIntervalPasses, DeadlinePasses, rows
<1>11. CASE UNCHANGED vars
  BY <1>11 DEF TypeOK, vars, rows
<1> QED
  BY <1>1, <1>2, <1>3, <1>4, <1>5, <1>6, <1>7, <1>8, <1>9, <1>10, <1>11 DEF Next

\* A withdrawn or reported outcome is never taken back.
THEOREM OutcomesStay == Spec => DecidedForGood
<1>1. DeliveryInv /\ [Next]_vars =>
          [\A r \in Requests : status[r] \in Withdrawn \cup Terminal
               => status'[r] = status[r]]_vars
  BY AllowedStep DEF StepAllowed, OutcomesKept, Decided
<1> QED
  BY <1>1, DeliveryInvariant, PTL DEF Spec, DecidedForGood

\* A message leaves again only after the retry interval.
THEOREM RepeatsWait == Spec => NoHastyRepeat
<1>1. DeliveryInv /\ [Next]_vars =>
          [\A r \in Requests : attempts'[r] > attempts[r] /\ attempts[r] > 0
               => r \notin resting]_vars
  BY AllowedStep DEF StepAllowed, RepeatsRested
<1> QED
  BY <1>1, DeliveryInvariant, PTL DEF Spec, NoHastyRepeat

\* The publish error kept with a command is the newest attempt's.
THEOREM DiagnosisIsCurrent == Spec => DiagnosisOfNewest
<1>1. DeliveryInv /\ [Next]_vars =>
          [\A r \in Requests : diagnosis'[r] = "error" /\ diagnosis[r] = "none" =>
              \E t \in Threads : InFlight(t, r) /\ job[t].attempt = attempts[r]]_vars
  BY AllowedStep DEF StepAllowed, DiagnosesOwned
<1> QED
  BY <1>1, DeliveryInvariant, PTL DEF Spec, DiagnosisOfNewest

-----------------------------------------------------------------------------
(* CommandQueue implements CommandPromise: the initial state maps to the   *)
(* initial state and every step to a step of the promise or to none.  That *)
(* no command stays open for ever is left to TLC (KeepsPromise).           *)

\* The state of the promise that a state of the queue stands for.
Outcome == [r \in Requests |-> OutcomeOf(status[r])]

Stutter == Outcome' = Outcome /\ handed' = handed

PromiseStep == Promise!Next \/ Stutter

\* One command of the promise moves, or none.
OneMoves(r) ==
    Promise!Withhold(r) \/ Promise!Halt(r) \/ Promise!Try(r) \/ Promise!Transmit(r)
        \/ Promise!Accept(r) \/ Promise!Settle(r)

\* What one command does is a step of the promise.
LEMMA OneMovesIsStep ==
  ASSUME NEW r \in Requests, OneMoves(r)
  PROVE  PromiseStep
BY DEF OneMoves, PromiseStep, Promise!Next

\* Writing one status writes one outcome.
LEMMA WriteOne ==
  ASSUME TypeOK, NEW r \in Requests, NEW s, status' = [status EXCEPT ![r] = s]
  PROVE  Outcome' = [Outcome EXCEPT ![r] = OutcomeOf(s)]
BY DEF TypeOK, Outcome

\* The status as the promise reads it.
LEMMA OutcomeTable ==
    /\ OutcomeOf("absent") = "absent"
    /\ OutcomeOf("queued") = "waiting"
    /\ OutcomeOf("published") = "tried"
    /\ OutcomeOf("acknowledged") = "accepted"
    /\ OutcomeOf("result_unknown") = "unknown"
    /\ \A s \in Withdrawn : OutcomeOf(s) = "withdrawn"
    /\ \A s \in Terminal : OutcomeOf(s) = s
BY DEF OutcomeOf, Withdrawn, Terminal

\* Delivery stopped for a deliverable or acknowledged command halts it: withdrawn
\* only if no attempt was ever committed.
LEMMA StopDeliveryHalts ==
  ASSUME TypeOK, AttemptEvidence, NEW r \in Requests, NEW unsent \in Withdrawn,
         status[r] \in Pending \cup {"acknowledged"}, StopDelivery(r, unsent),
         handed' = handed
  PROVE  PromiseStep
<1>1. Outcome' = [Outcome EXCEPT ![r] = OutcomeOf(StoppedStatus(r, unsent))]
  BY WriteOne DEF StopDelivery
<1>2. Outcome[r] = OutcomeOf(status[r])
  BY DEF Outcome
<1>3. OutcomeOf(status[r]) \in {"waiting", "tried", "accepted"}
  BY OutcomeTable DEF Pending
<1>4. OutcomeOf(StoppedStatus(r, unsent)) =
          IF OutcomeOf(status[r]) = "waiting" THEN "withdrawn" ELSE "unknown"
  BY OutcomeTable DEF StoppedStatus, Attempted, AttemptEvidence, Unsent, Pending
<1>5. Promise!Halt(r)
  BY <1>1, <1>2, <1>3, <1>4 DEF Promise!Halt, Promise!Open, Promise!Halted, Outcome
<1> QED
  BY <1>5, OneMovesIsStep DEF OneMoves

\* A POST registers a request, a Stop with the deliverable ones it preempts; one that
\* arrives after its own Stop is withheld.
LEMMA CreateStep ==
  ASSUME TypeOK, AttemptEvidence, NEW t \in ApiThreads, NEW r \in Requests, Create(t, r)
  PROVE  PromiseStep
<1>1. status[r] = "absent" /\ Outcome[r] = "absent" /\ handed' = handed
  BY OutcomeTable DEF Create, Exists, Outcome
<1>2. CASE Superseded(r)
  <2>1. Preempted(r) = {}
    BY <1>2 DEF Preempted
  <2>2. status' = [status EXCEPT ![r] = "cancelled"]
    BY <1>2, <2>1 DEF Create, TypeOK
  <2>3. Outcome' = [Outcome EXCEPT ![r] = "withdrawn"]
    BY <2>2, WriteOne, OutcomeTable DEF Withdrawn
  <2>4. Promise!Withhold(r)
    BY <1>1, <2>3 DEF Promise!Withhold, Outcome
  <2> QED
    BY <2>4, OneMovesIsStep DEF OneMoves
<1>3. CASE ~Superseded(r)
  <2>1. \A q \in Preempted(r) : q \in Requests /\ status[q] \in Pending
    BY DEF Preempted
  <2>2. \A q \in Preempted(r) : Outcome[q] \in {"waiting", "tried"}
    BY <2>1, OutcomeTable DEF Outcome, Pending
  <2>3. \A q \in Preempted(r) : OutcomeOf(StoppedStatus(q, "cancelled")) =
            IF Outcome[q] = "waiting" THEN "withdrawn" ELSE "unknown"
    BY <2>1, OutcomeTable DEF Outcome, StoppedStatus, Attempted, AttemptEvidence, Unsent,
       Pending, Withdrawn
  <2>4. status' = [q \in Requests |->
                      IF q = r THEN "queued"
                      ELSE IF q \in Preempted(r) THEN StoppedStatus(q, "cancelled")
                      ELSE status[q]]
    BY <1>3 DEF Create
  <2>5. Outcome' = [q \in Requests |->
                      IF q = r THEN "waiting"
                      ELSE IF q \in Preempted(r)
                           THEN IF Outcome[q] = "waiting" THEN "withdrawn" ELSE "unknown"
                           ELSE Outcome[q]]
    <3>1. \A q \in Requests : Outcome'[q] =
              IF q = r THEN "waiting"
              ELSE IF q \in Preempted(r)
                   THEN IF Outcome[q] = "waiting" THEN "withdrawn" ELSE "unknown"
                   ELSE Outcome[q]
      BY <2>3, <2>4, OutcomeTable DEF Outcome
    <3> QED
      BY <3>1 DEF Outcome
  <2>6. Promise!Register(r, Preempted(r))
    BY <1>1, <2>2, <2>5 DEF Promise!Register, Promise!Halted, Outcome
  <2>7. Preempted(r) \in SUBSET Requests
    BY <2>1
  <2> QED
    BY <2>6, <2>7 DEF PromiseStep, Promise!Next
<1> QED
  BY <1>2, <1>3

\* An attempt of a queued command tries it; of a published one changes nothing promised.
LEMMA AttemptStep ==
  ASSUME TypeOK, NEW t \in Threads, NEW r \in Requests, DispatchAttempt(t, r)
  PROVE  PromiseStep
<1>0. status' = [status EXCEPT ![r] = "published"] /\ handed' = handed
  BY DEF DispatchAttempt
<1>1. Outcome' = [Outcome EXCEPT ![r] = "tried"] /\ handed' = handed
  <2>1. Outcome' = [Outcome EXCEPT ![r] = OutcomeOf("published")]
    BY <1>0, WriteOne
  <2>2. OutcomeOf("published") = "tried"
    BY OutcomeTable
  <2> QED
    BY <1>0, <2>1, <2>2
<1>2. CASE status[r] = "queued"
  <2>1. Outcome[r] = "waiting"
    BY <1>2, OutcomeTable DEF Outcome
  <2>2. Promise!Try(r)
    BY <1>1, <2>1 DEF Promise!Try, Outcome
  <2> QED
    BY <2>2, OneMovesIsStep DEF OneMoves
<1>3. CASE status[r] = "published"
  <2>1. Outcome[r] = "tried"
    BY <1>3, OutcomeTable DEF Outcome
  <2>2. Outcome' = Outcome
    BY <1>1, <2>1 DEF Outcome
  <2> QED
    BY <1>1, <2>2 DEF PromiseStep, Stutter
<1> QED
  BY <1>2, <1>3 DEF DispatchAttempt, Deliverable

\* Only a command that may have run is handed to the network: its attempt was committed.
LEMMA PublishStep ==
  ASSUME TypeOK, JobsNameRequests, AttemptEvidence, NEW t \in Threads, Publish(t)
  PROVE  PromiseStep
<1> DEFINE r == job[t].cmd
<1>1. r \in Requests /\ status[r] \notin Unsent
  BY DEF Publish, JobsNameRequests, AttemptEvidence, InFlight
<1>2. Outcome' = Outcome
  BY DEF Publish, rows, Outcome
<1>3. handed' = handed \/ handed' = handed \cup {r}
  BY DEF Publish
<1>4. CASE handed' = handed
  BY <1>2, <1>4 DEF PromiseStep, Stutter
<1>5. CASE handed' = handed \cup {r}
  <2>1. status[r] \in Pending \cup Terminal \cup {"acknowledged", "result_unknown"}
            /\ status[r] # "queued"
    BY <1>1 DEF TypeOK, Statuses, Unsent
  <2>2. OutcomeOf(status[r]) \in {"tried", "accepted", "unknown", "succeeded", "failed"}
    BY <2>1, OutcomeTable DEF Pending, Terminal
  <2>3. Promise!Transmit(r)
    BY <1>1, <1>2, <1>5, <2>2 DEF Promise!Transmit, Promise!MayHaveRun, Outcome
  <2> QED
    BY <1>1, <2>3, OneMovesIsStep DEF OneMoves
<1> QED
  BY <1>3, <1>4, <1>5

\* An ACK in time accepts a tried command, a late one halts it; it takes back nothing.
LEMMA AcknowledgeStep ==
  ASSUME TypeOK, AttemptEvidence, NEW r \in Requests, Acknowledge(r)
  PROVE  PromiseStep
<1>1. handed' = handed /\ r \in handed /\ status[r] \in {"published", "result_unknown"}
  BY DEF Acknowledge, AttemptEvidence, Unsent, Withdrawn
<1>2. CASE status[r] = "result_unknown"
  <2>1. status' = status
    BY <1>2 DEF Acknowledge
  <2> QED
    BY <1>1, <2>1 DEF PromiseStep, Stutter, Outcome
<1>3. CASE status[r] = "published" /\ r \in expired
  <2>1. StopDelivery(r, "cancelled")
    BY <1>3 DEF Acknowledge
  <2> QED
    BY <1>1, <1>3, <2>1, StopDeliveryHalts DEF Pending, Withdrawn
<1>4. CASE status[r] = "published" /\ r \notin expired
  <2>1. status' = [status EXCEPT ![r] = "acknowledged"]
    BY <1>4 DEF Acknowledge
  <2>2. Outcome' = [Outcome EXCEPT ![r] = "accepted"]
    <3>1. Outcome' = [Outcome EXCEPT ![r] = OutcomeOf("acknowledged")]
      BY <2>1, WriteOne
    <3> QED
      BY <3>1, OutcomeTable
  <2>3. Outcome[r] = "tried"
    BY <1>4, OutcomeTable DEF Outcome
  <2>4. Promise!Accept(r)
    BY <1>1, <2>2, <2>3 DEF Promise!Accept, Outcome
  <2> QED
    BY <2>4, OneMovesIsStep DEF OneMoves
<1> QED
  BY <1>1, <1>2, <1>3, <1>4

\* A result settles a command that may have run.
LEMMA CompleteStep ==
  ASSUME TypeOK, AttemptEvidence, NEW r \in Requests, NEW o \in Terminal, Complete(r, o)
  PROVE  PromiseStep
<1>1. handed' = handed /\ r \in handed
         /\ status[r] \in {"published", "acknowledged", "result_unknown"}
  BY DEF Complete, AttemptEvidence, Unsent, Withdrawn
<1>2. Outcome' = [Outcome EXCEPT ![r] = o] /\ o \in {"succeeded", "failed"}
  <2>1. status' = [status EXCEPT ![r] = o]
    BY DEF Complete
  <2>2. OutcomeOf(o) = o
    BY OutcomeTable
  <2> QED
    BY <2>1, <2>2, WriteOne DEF Terminal
<1>3. OutcomeOf(status[r]) \in {"tried", "accepted", "unknown"}
  BY <1>1, OutcomeTable
<1>4. Promise!Settle(r)
  BY <1>1, <1>2, <1>3 DEF Promise!Settle, Outcome
<1> QED
  BY <1>4, OneMovesIsStep DEF OneMoves

-----------------------------------------------------------------------------
\* Every step of the queue is a step of the promise, or none.
LEMMA QueueStep ==
  ASSUME DeliveryInv, [Next]_vars
  PROVE  PromiseStep
<1> USE DEF DeliveryInv
<1>1. ASSUME NEW t \in ApiThreads, NEW r \in Requests, Create(t, r)
      PROVE  PromiseStep
  BY <1>1, CreateStep
<1>2. ASSUME NEW t \in Threads, NEW r \in Requests, DispatchOverdue(t, r)
      PROVE  PromiseStep
  BY <1>2, StopDeliveryHalts DEF DispatchOverdue, Withdrawn
<1>3. ASSUME NEW t \in Threads, NEW r \in Requests, DispatchExpired(t, r)
      PROVE  PromiseStep
  BY <1>3, StopDeliveryHalts DEF DispatchExpired, Deliverable, Pending, Withdrawn
<1>4. ASSUME NEW t \in Threads, NEW r \in Requests, DispatchRejected(t, r)
      PROVE  PromiseStep
  BY <1>4, StopDeliveryHalts DEF DispatchRejected, Deliverable, Pending, Withdrawn
<1>5. ASSUME NEW t \in Threads, NEW r \in Requests, DispatchAttempt(t, r)
      PROVE  PromiseStep
  BY <1>5, AttemptStep
<1>6. ASSUME NEW t \in Threads, Publish(t)
      PROVE  PromiseStep
  BY <1>6, PublishStep
<1>7. ASSUME NEW t \in Threads, DispatchNothing(t) \/ RecordReply(t) \/ Abandon(t)
      PROVE  PromiseStep
  BY <1>7 DEF DispatchNothing, RecordReply, Abandon, rows, PromiseStep, Stutter, Outcome
<1>8. ASSUME NEW r \in Requests, Acknowledge(r)
      PROVE  PromiseStep
  BY <1>8, AcknowledgeStep
<1>9. ASSUME NEW r \in Requests, NEW o \in Terminal, Complete(r, o)
      PROVE  PromiseStep
  BY <1>9, CompleteStep
<1>10. ASSUME NEW r \in Requests, TtlPasses(r) \/ RetryIntervalPasses(r) \/ DeadlinePasses(r)
       PROVE  PromiseStep
  BY <1>10 DEF TtlPasses, RetryIntervalPasses, DeadlinePasses, rows, PromiseStep, Stutter,
         Outcome
<1>11. CASE UNCHANGED vars
  BY <1>11 DEF vars, rows, PromiseStep, Stutter, Outcome
<1> QED
  BY <1>1, <1>2, <1>3, <1>4, <1>5, <1>6, <1>7, <1>8, <1>9, <1>10, <1>11 DEF Next

\* The queue keeps the safety part of its promise: nothing withdrawn ever leaves, only
\* what left is accepted or settled, and no outcome is taken back.
THEOREM KeepsPromiseSafely == Spec => Promise!Init /\ [][Promise!Next]_<<Outcome, handed>>
<1>1. Init => Promise!Init
  BY OutcomeTable DEF Init, Promise!Init
<1>2. DeliveryInv /\ [Next]_vars => [Promise!Next]_<<Outcome, handed>>
  BY QueueStep DEF PromiseStep, Stutter
<1> QED
  BY <1>1, <1>2, DeliveryInvariant, PTL DEF Spec
=============================================================================
