------------------------- MODULE DeviceAlarmsProofs -------------------------
(***************************************************************************)
(* Proofs about DeviceAlarms, for any number of commands, operators and    *)
(* readings.  The argument for FailureTells: there is at most one open     *)
(* failure incident, and the command it names did fail, so a later         *)
(* success of an older command can never be newer than the last failure.   *)
(* For AlarmIsDebounced: what the rule has pending counts no more than the *)
(* last readings judged, which were all on the same side (HeardInv).       *)
(***************************************************************************)
EXTENDS DeviceAlarms, SequenceTheorems, FiniteSetTheorems, TLAPS

\* uq_device_alarms_active_key, for the failure incident.
OneOpenFailure == \A i, j \in Open("command") : i = j

\* The open failure incident names a command that failed.
CauseFailed ==
    \A i \in Open("command") : alarms[i].cause \in Command /\ outcome[alarms[i].cause] = "failed"

AlarmsInv == TypeOK /\ OneOpenFailure /\ CauseFailed /\ FailureTells

\* What a step that is not about the command leaves alone.
FailuresKept ==
    /\ Open("command")' = Open("command")
    /\ \A i \in Open("command") : alarms'[i].cause = alarms[i].cause

-----------------------------------------------------------------------------
(* The operations of the lifecycle on the rows.                             *)

LEMMA AppendRow ==
  ASSUME TypeOK, NEW r \in Alarm, alarms' = Append(alarms, r)
  PROVE  /\ alarms' \in Seq(Alarm)
         /\ Len(alarms) + 1 \notin DOMAIN alarms
         /\ DOMAIN alarms' = DOMAIN alarms \cup {Len(alarms) + 1}
         /\ \A i \in DOMAIN alarms : alarms'[i] = alarms[i]
         /\ alarms'[Len(alarms) + 1] = r
<1>1. alarms \in Seq(Alarm) /\ DOMAIN alarms = 1..Len(alarms) /\ Len(alarms) \in Nat
  BY LenProperties DEF TypeOK
<1>2. /\ alarms' \in Seq(Alarm)
      /\ Len(alarms') = Len(alarms) + 1
      /\ \A i \in 1..Len(alarms) : alarms'[i] = alarms[i]
      /\ alarms'[Len(alarms) + 1] = r
  BY <1>1, AppendProperties
<1>3. DOMAIN alarms' = 1..(Len(alarms) + 1)
  BY <1>2, LenProperties
<1> QED
  BY <1>1, <1>2, <1>3

LEMMA ChangeRow ==
  ASSUME TypeOK, NEW i \in DOMAIN alarms, NEW r \in Alarm, alarms' = [alarms EXCEPT ![i] = r]
  PROVE  /\ alarms' \in Seq(Alarm)
         /\ DOMAIN alarms' = DOMAIN alarms
         /\ \A j \in DOMAIN alarms : alarms'[j] = IF j = i THEN r ELSE alarms[j]
<1>1. alarms \in Seq(Alarm) /\ DOMAIN alarms = 1..Len(alarms)
  BY LenProperties DEF TypeOK
<1> QED
  BY <1>1, ExceptSeq

LEMMA RowTyped ==
  ASSUME TypeOK, NEW i \in DOMAIN alarms
  PROVE  alarms[i] \in Alarm /\ i \in Nat
BY LenProperties, ElementOfSeq DEF TypeOK

\* One note more.
LEMMA NotifyTyped ==
  ASSUME TypeOK, NEW i \in Nat, NEW kind \in {"raised", "resolved"}, Notify(i, kind)
  PROVE  notes' \in Seq([alarm : Nat, kind : {"raised", "resolved"}])
BY AppendProperties DEF Notify, TypeOK

\* What raise_alarm() writes: a row more, or another occurrence in the open one.
LEMMA RaiseWrites ==
  ASSUME TypeOK, NEW key \in {"rule", "command"}, NEW cause \in Command \cup {NoCommand},
         Raise(key, cause)
  PROVE  /\ alarms' \in Seq(Alarm)
         /\ notes' \in Seq([alarm : Nat, kind : {"raised", "resolved"}])
         /\ \/ /\ Open(key) = {}
               /\ Open(key)' = {Len(alarms) + 1}
               /\ alarms'[Len(alarms) + 1].cause = cause
            \/ /\ Open(key) # {}
               /\ Open(key)' = Open(key)
               /\ \E i \in Open(key) : alarms'[i].cause = cause
         /\ \A other \in {"rule", "command"} \ {key} :
               /\ Open(other)' = Open(other)
               /\ \A i \in Open(other) : alarms'[i] = alarms[i]
<1>1. CASE Open(key) = {}
  <2> DEFINE r == NewAlarm(key, cause)
  <2>1. r \in Alarm /\ r.key = key /\ r.active /\ r.cause = cause
    BY DEF NewAlarm, Alarm
  <2>2. alarms' = Append(alarms, r) /\ Notify(Len(alarms) + 1, "raised")
    BY <1>1 DEF Raise
  <2>3. Len(alarms) + 1 \in Nat
    BY LenProperties DEF TypeOK
  <2> HIDE DEF r
  <2>4. /\ alarms' \in Seq(Alarm)
        /\ Len(alarms) + 1 \notin DOMAIN alarms
        /\ DOMAIN alarms' = DOMAIN alarms \cup {Len(alarms) + 1}
        /\ \A i \in DOMAIN alarms : alarms'[i] = alarms[i]
        /\ alarms'[Len(alarms) + 1] = r
    BY <2>1, <2>2, AppendRow
  <2>5. notes' \in Seq([alarm : Nat, kind : {"raised", "resolved"}])
    BY <2>2, <2>3, NotifyTyped
  <2>6. Open(key)' = {Len(alarms) + 1}
    BY <1>1, <2>1, <2>4 DEF Open
  <2>7. \A other \in {"rule", "command"} \ {key} :
           /\ Open(other)' = Open(other)
           /\ \A i \in Open(other) : alarms'[i] = alarms[i]
    BY <2>1, <2>4 DEF Open
  <2> QED
    BY <1>1, <2>1, <2>4, <2>5, <2>6, <2>7
<1>2. CASE Open(key) # {}
  <2>1. PICK i \in Open(key) : alarms' = [alarms EXCEPT ![i] = Again(@, cause)]
    BY <1>2 DEF Raise
  <2>2. i \in DOMAIN alarms /\ alarms[i].key = key /\ alarms[i].active
    BY <2>1 DEF Open
  <2> DEFINE r == Again(alarms[i], cause)
  <2>3. r \in Alarm /\ r.key = key /\ r.active /\ r.cause = cause
    <3>1. PICK a \in Alarm : a = alarms[i]
      BY <2>2, RowTyped
    <3>2. a.occurrences + 1 \in Nat \ {0}
      BY DEF Alarm
    <3>3. r = [[a EXCEPT !.occurrences = a.occurrences + 1] EXCEPT !.cause = cause]
      BY <3>1 DEF Again
    <3>4. [a EXCEPT !.occurrences = a.occurrences + 1] \in Alarm
      BY <3>2 DEF Alarm
    <3> QED
      BY <2>2, <3>1, <3>3, <3>4 DEF Alarm
  <2>4. alarms' = [alarms EXCEPT ![i] = r]
    BY <2>1
  <2> HIDE DEF r
  <2>5. /\ alarms' \in Seq(Alarm)
        /\ DOMAIN alarms' = DOMAIN alarms
        /\ \A j \in DOMAIN alarms : alarms'[j] = IF j = i THEN r ELSE alarms[j]
    BY <2>2, <2>3, <2>4, ChangeRow
  <2>6. Open(key)' = Open(key)
    BY <2>2, <2>3, <2>5 DEF Open
  <2>7. \A other \in {"rule", "command"} \ {key} :
           /\ Open(other)' = Open(other)
           /\ \A j \in Open(other) : alarms'[j] = alarms[j]
    BY <2>2, <2>3, <2>5 DEF Open
  <2>8. notes' = notes
    BY <1>2 DEF Raise
  <2> QED
    BY <1>2, <2>1, <2>2, <2>3, <2>5, <2>6, <2>7, <2>8 DEF TypeOK
<1> QED
  BY <1>1, <1>2

\* What resolve_alarm() writes: one of the open rows is closed.
LEMMA ResolveWrites ==
  ASSUME TypeOK, NEW key \in {"rule", "command"}, Resolve(key)
  PROVE  /\ alarms' \in Seq(Alarm)
         /\ notes' \in Seq([alarm : Nat, kind : {"raised", "resolved"}])
         /\ \E i \in Open(key) : Open(key)' = Open(key) \ {i}
         /\ \A other \in {"rule", "command"} \ {key} :
               /\ Open(other)' = Open(other)
               /\ \A i \in Open(other) : alarms'[i] = alarms[i]
<1>1. PICK i \in Open(key) :
        alarms' = [alarms EXCEPT ![i] = Closed(@)] /\ Notify(i, "resolved")
  BY DEF Resolve
<1>2. i \in DOMAIN alarms /\ alarms[i].key = key /\ alarms[i].active
  BY <1>1 DEF Open
<1> DEFINE r == Closed(alarms[i])
<1>3. r \in Alarm /\ r.key = key /\ ~r.active
  BY <1>2, RowTyped DEF Closed, Alarm
<1>4. alarms' = [alarms EXCEPT ![i] = r]
  BY <1>1
<1> HIDE DEF r
<1>5. /\ alarms' \in Seq(Alarm)
      /\ DOMAIN alarms' = DOMAIN alarms
      /\ \A j \in DOMAIN alarms : alarms'[j] = IF j = i THEN r ELSE alarms[j]
  BY <1>2, <1>3, <1>4, ChangeRow
<1>6. notes' \in Seq([alarm : Nat, kind : {"raised", "resolved"}])
  BY <1>1, <1>2, RowTyped, NotifyTyped
<1>7. Open(key)' = Open(key) \ {i}
  BY <1>2, <1>3, <1>5 DEF Open
<1>8. \A other \in {"rule", "command"} \ {key} :
         /\ Open(other)' = Open(other)
         /\ \A j \in Open(other) : alarms'[j] = alarms[j]
  BY <1>2, <1>3, <1>5 DEF Open
<1> QED
  BY <1>1, <1>5, <1>6, <1>7, <1>8

\* Raising and resolving the incident of the rule does not touch that of the commands.
LEMMA RuleKeepsFailures ==
  ASSUME TypeOK, Raise("rule", NoCommand) \/ Resolve("rule")
  PROVE  FailuresKept
BY RaiseWrites, ResolveWrites DEF FailuresKept

LEMMA KeptIsEnough ==
  ASSUME AlarmsInv, FailuresKept, outcome' = outcome
  PROVE  OneOpenFailure' /\ CauseFailed' /\ FailureTells'
BY DEF AlarmsInv, FailuresKept, OneOpenFailure, CauseFailed, FailureTells

\* The two halves of FailureTells.
LEMMA NoneAfterCause ==
  ASSUME AlarmsInv, NEW i \in Open("command")
  PROVE  \E k \in Command :
            /\ alarms[i].cause = k /\ outcome[k] = "failed"
            /\ \A d \in Command : d > k => outcome[d] \notin {"failed", "succeeded"}
BY DEF AlarmsInv, CauseFailed, FailureTells

LEMMA ClosedIfRecovered ==
  ASSUME AlarmsInv
  PROVE  Open("command") # {}
           <=> \E c \in Command : /\ outcome[c] = "failed"
                                  /\ \A d \in Command : d > c => outcome[d] # "succeeded"
BY DEF AlarmsInv, FailureTells

\* What the two ways to write the failure incident make of it.
LEMMA RaiseFailure ==
  ASSUME AlarmsInv, NEW c \in Command, Raise("command", c)
  PROVE  /\ Open("command")' # {}
         /\ \A i \in Open("command")' : alarms'[i].cause = c
         /\ OneOpenFailure'
<1>1. CASE /\ Open("command")' = {Len(alarms) + 1}
           /\ alarms'[Len(alarms) + 1].cause = c
  BY <1>1 DEF OneOpenFailure
<1>2. CASE /\ Open("command")' = Open("command")
           /\ \E i \in Open("command") : alarms'[i].cause = c
  BY <1>2 DEF AlarmsInv, OneOpenFailure
<1> QED
  BY <1>1, <1>2, RaiseWrites DEF AlarmsInv

LEMMA ResolveFailure ==
  ASSUME AlarmsInv, Resolve("command")
  PROVE  Open("command")' = {}
BY ResolveWrites DEF AlarmsInv, OneOpenFailure
-----------------------------------------------------------------------------
\* Results of commands, in any order.
LEMMA SuccessKeeps ==
  ASSUME AlarmsInv, NEW c \in Command, CommandSucceeds(c)
  PROVE  OneOpenFailure' /\ CauseFailed' /\ FailureTells'
<1>1. /\ outcome[c] = "open"
      /\ outcome'[c] = "succeeded"
      /\ \A d \in Command \ {c} : outcome'[d] = outcome[d]
      /\ Command \subseteq Nat
  BY AlarmsAssumption DEF CommandSucceeds, AlarmsInv, TypeOK, Command
<1>2. CASE Open("command") = {} /\ alarms' = alarms
  <2>1. Open("command")' = {}
    BY <1>2 DEF Open
  <2>2. ~\E d \in Command : /\ outcome'[d] = "failed"
                            /\ \A e \in Command : e > d => outcome'[e] # "succeeded"
    BY <1>1, <1>2 DEF AlarmsInv, FailureTells
  <2> QED
    BY <2>1, <2>2 DEF OneOpenFailure, CauseFailed, FailureTells
<1>3. CASE FailedAfter(c) /\ alarms' = alarms
  <2>1. PICK i \in Open("command") : alarms[i].cause > c
    BY <1>3 DEF FailedAfter
  <2>2. Open("command")' = {i} /\ Open("command") = {i}
    BY <1>3, <2>1 DEF Open, AlarmsInv, OneOpenFailure
  <2>3. PICK k \in Command :
          /\ alarms[i].cause = k /\ outcome[k] = "failed"
          /\ \A d \in Command : d > k => outcome[d] \notin {"failed", "succeeded"}
    BY NoneAfterCause
  <2>4. /\ c < k /\ outcome'[k] = "failed"
        /\ \A d \in Command : d > k => outcome'[d] \notin {"failed", "succeeded"}
    BY <1>1, <2>1, <2>3
  <2> QED
    BY <1>3, <2>2, <2>3, <2>4 DEF OneOpenFailure, CauseFailed, FailureTells
<1>4. CASE Open("command") # {} /\ ~FailedAfter(c) /\ Resolve("command")
  <2>1. Open("command")' = {}
    BY <1>4, ResolveFailure
  <2>2. PICK i \in Open("command") : ~(alarms[i].cause > c)
    BY <1>4 DEF FailedAfter
  <2>3. PICK k \in Command :
          /\ alarms[i].cause = k /\ outcome[k] = "failed"
          /\ \A d \in Command : d > k => outcome[d] \notin {"failed", "succeeded"}
    BY NoneAfterCause
  <2>4. \A d \in Command : outcome'[d] = "failed" => d < c
    BY <1>1, <2>2, <2>3
  <2>5. ~\E d \in Command : /\ outcome'[d] = "failed"
                            /\ \A e \in Command : e > d => outcome'[e] # "succeeded"
    BY <1>1, <2>4
  <2> QED
    BY <2>1, <2>5 DEF OneOpenFailure, CauseFailed, FailureTells
<1> QED
  BY <1>2, <1>3, <1>4 DEF CommandSucceeds

LEMMA FailureKeeps ==
  ASSUME AlarmsInv, NEW c \in Command, CommandFails(c)
  PROVE  OneOpenFailure' /\ CauseFailed' /\ FailureTells'
<1>1. /\ outcome[c] = "open"
      /\ outcome'[c] = "failed"
      /\ \A d \in Command \ {c} : outcome'[d] = outcome[d]
      /\ Command \subseteq Nat
  BY AlarmsAssumption DEF CommandFails, AlarmsInv, TypeOK, Command
<1>2. CASE alarms' = alarms /\ (SucceededAfter(c) \/ FailedAfter(c))
  <2>1. Open("command")' = Open("command")
    BY <1>2 DEF Open
  <2>2. \A i \in Open("command") : c < alarms[i].cause
    <3>1. TAKE i \in Open("command")
    <3>2. CASE SucceededAfter(c)
      <4>1. PICK d \in Command : d > c /\ outcome[d] = "succeeded"
        BY <3>2 DEF SucceededAfter
      <4>2. PICK k \in Command :
              /\ alarms[i].cause = k
              /\ \A e \in Command : e > k => outcome[e] \notin {"failed", "succeeded"}
        BY <3>1, NoneAfterCause
      <4>3. ~(d > k)
        BY <4>1, <4>2
      <4> QED
        BY <1>1, <4>1, <4>2, <4>3
    <3>3. CASE FailedAfter(c)
      BY <3>1, <3>3 DEF FailedAfter, AlarmsInv, OneOpenFailure
    <3> QED
      BY <1>2, <3>2, <3>3
  <2>3. (\E d \in Command : /\ outcome'[d] = "failed"
                            /\ \A e \in Command : e > d => outcome'[e] # "succeeded")
        => Open("command") # {}
    <3>1. SUFFICES ASSUME NEW d \in Command, outcome'[d] = "failed",
                          \A e \in Command : e > d => outcome'[e] # "succeeded"
                   PROVE  Open("command") # {}
      OBVIOUS
    <3>2. CASE d = c
      BY <1>1, <1>2, <3>1, <3>2 DEF SucceededAfter, FailedAfter
    <3>3. CASE d # c
      BY <1>1, <3>1, <3>3 DEF AlarmsInv, FailureTells
    <3> QED
      BY <3>2, <3>3
  <2>4. ASSUME NEW i \in Open("command")
        PROVE  /\ alarms[i].cause \in Command /\ outcome'[alarms[i].cause] = "failed"
               /\ \A d \in Command : d > alarms[i].cause => outcome'[d] \notin {"failed", "succeeded"}
    <3>1. PICK k \in Command :
            /\ alarms[i].cause = k /\ outcome[k] = "failed"
            /\ \A d \in Command : d > k => outcome[d] \notin {"failed", "succeeded"}
      BY NoneAfterCause
    <3>2. c < k
      BY <2>2, <3>1
    <3> QED
      BY <1>1, <3>1, <3>2
  <2> QED
    BY <1>2, <2>1, <2>3, <2>4 DEF AlarmsInv, OneOpenFailure, CauseFailed, FailureTells
<1>3. CASE Raise("command", c) /\ ~SucceededAfter(c) /\ ~FailedAfter(c)
  <2>1. /\ Open("command")' # {}
        /\ \A i \in Open("command")' : alarms'[i].cause = c
        /\ OneOpenFailure'
    BY <1>3, RaiseFailure
  <2>2. \A d \in Command : d > c => outcome[d] # "succeeded"
    BY <1>3 DEF SucceededAfter
  <2>3. \A d \in Command : d > c => outcome[d] # "failed"
    <3>1. CASE Open("command") = {}
      <4>1. ~\E d \in Command : /\ outcome[d] = "failed"
                                /\ \A e \in Command : e > d => outcome[e] # "succeeded"
        BY <3>1, ClosedIfRecovered
      <4>2. SUFFICES ASSUME NEW d \in Command, d > c, outcome[d] = "failed" PROVE FALSE
        OBVIOUS
      <4>3. PICK e \in Command : e > d /\ outcome[e] = "succeeded"
        BY <4>1, <4>2
      <4>4. e > c
        BY <1>1, <4>2, <4>3
      <4> QED
        BY <2>2, <4>3, <4>4
    <3>2. CASE Open("command") # {}
      <4>1. PICK i \in Open("command") : TRUE
        BY <3>2
      <4>2. PICK k \in Command :
              /\ alarms[i].cause = k
              /\ \A d \in Command : d > k => outcome[d] \notin {"failed", "succeeded"}
        BY NoneAfterCause
      <4>3. ~(k > c)
        BY <1>3, <4>1, <4>2 DEF FailedAfter
      <4>4. \A d \in Command : d > c => d > k
        BY <1>1, <4>3
      <4> QED
        BY <4>2, <4>4
    <3> QED
      BY <3>1, <3>2
  <2>4. \A d \in Command : d > c => outcome'[d] \notin {"failed", "succeeded"}
    BY <1>1, <2>2, <2>3
  <2> QED
    BY <1>1, <2>1, <2>4 DEF CauseFailed, FailureTells
<1> QED
  BY <1>2, <1>3 DEF CommandFails

LEMMA CancelKeeps ==
  ASSUME AlarmsInv, NEW c \in Command, CommandCancelled(c)
  PROVE  OneOpenFailure' /\ CauseFailed' /\ FailureTells'
<1>1. /\ outcome[c] = "open"
      /\ outcome'[c] = "cancelled"
      /\ \A d \in Command \ {c} : outcome'[d] = outcome[d]
      /\ alarms' = alarms
  BY DEF CommandCancelled, AlarmsInv, TypeOK
<1>2. Open("command")' = Open("command")
  BY <1>1 DEF Open
<1> QED
  BY <1>1, <1>2 DEF AlarmsInv, OneOpenFailure, CauseFailed, FailureTells
-----------------------------------------------------------------------------
\* The values of readings and their history.
Reading == Values \cup {Invalid}

LEMMA SideTyped ==
  ASSUME NEW v
  PROVE  SideOf(v) \in Side \ {"unjudged"}
BY DEF SideOf, Side

LEMMA HeardTyped ==
  ASSUME TypeOK, NEW side \in Side, heard' = Append(heard, side)
  PROVE  /\ heard' \in Seq(Side)
         /\ Len(heard) \in Nat
         /\ DOMAIN heard = 1..Len(heard)
         /\ DOMAIN heard' = 1..(Len(heard) + 1)
         /\ \A i \in 1..Len(heard) : heard'[i] = heard[i]
         /\ heard'[Len(heard) + 1] = side
<1>1. heard \in Seq(Side) /\ Len(heard) \in Nat /\ DOMAIN heard = 1..Len(heard)
  BY LenProperties DEF TypeOK
<1>2. /\ heard' \in Seq(Side)
      /\ Len(heard') = Len(heard) + 1
      /\ \A i \in 1..Len(heard) : heard'[i] = heard[i]
      /\ heard'[Len(heard) + 1] = side
  BY <1>1, AppendProperties
<1>3. DOMAIN heard' = 1..(Len(heard) + 1)
  BY <1>2, LenProperties
<1> QED
  BY <1>1, <1>2, <1>3

\* An acknowledgement leaves the state and the cause of every incident alone.
LEMMA AcknowledgeKeeps ==
  ASSUME AlarmsInv, NEW u \in Users, NEW i \in DOMAIN alarms, Acknowledge(u, i)
  PROVE  alarms' \in Seq(Alarm) /\ FailuresKept
<1> DEFINE r == By(alarms[i], u)
<1>1. /\ r \in Alarm /\ r.key = alarms[i].key
      /\ r.active = alarms[i].active /\ r.cause = alarms[i].cause
  BY RowTyped DEF By, Alarm, AlarmsInv
<1>2. alarms' = [alarms EXCEPT ![i] = r]
  BY DEF Acknowledge
<1> HIDE DEF r
<1>3. /\ alarms' \in Seq(Alarm)
      /\ DOMAIN alarms' = DOMAIN alarms
      /\ \A j \in DOMAIN alarms : alarms'[j] = IF j = i THEN r ELSE alarms[j]
  BY <1>1, <1>2, ChangeRow DEF AlarmsInv
<1> QED
  BY <1>1, <1>3 DEF FailuresKept, Open

\* The inductive invariant.
THEOREM AlarmsInvariant == Spec => []AlarmsInv
<1>1. Init => AlarmsInv
  BY AlarmsAssumption DEF Init, AlarmsInv, TypeOK, OneOpenFailure, CauseFailed, FailureTells, Open,
     NotPending, Command
<1>2. AlarmsInv /\ [Next]_vars => AlarmsInv'
  <2> SUFFICES ASSUME AlarmsInv, [Next]_vars PROVE AlarmsInv'
    OBVIOUS
  <2>1. ASSUME NEW u \in Users, NEW i \in DOMAIN alarms, Acknowledge(u, i) PROVE AlarmsInv'
    <3>1. alarms' \in Seq(Alarm) /\ FailuresKept
      BY <2>1, AcknowledgeKeeps
    <3>2. TypeOK'
      BY <2>1, <3>1 DEF Acknowledge, AlarmsInv, TypeOK
    <3> QED
      BY <2>1, <3>1, <3>2, KeptIsEnough DEF AlarmsInv, Acknowledge
  <2>2. ASSUME NEW v \in Reading, ReadingHolds(v) PROVE AlarmsInv'
    <3>1. TypeOK'
      BY <2>2, SideTyped, HeardTyped DEF ReadingHolds, AlarmsInv, TypeOK, NotPending
    <3>2. FailuresKept
      BY <2>2 DEF ReadingHolds, FailuresKept, Open
    <3> QED
      BY <2>2, <3>1, <3>2, KeptIsEnough DEF AlarmsInv, ReadingHolds
  <2>3. ASSUME NEW v \in Reading, ReadingPends(v) PROVE AlarmsInv'
    <3>1. Candidate(v) \in {"raise", "resolve"}
      BY <2>3 DEF ReadingPends, Candidate
    <3>2. Confirmed(Candidate(v)) \in Nat
      BY DEF Confirmed, AlarmsInv, TypeOK
    <3>3. TypeOK'
      BY <2>3, <3>1, <3>2, SideTyped, HeardTyped DEF ReadingPends, AlarmsInv, TypeOK
    <3>4. FailuresKept
      BY <2>3 DEF ReadingPends, FailuresKept, Open
    <3> QED
      BY <2>3, <3>3, <3>4, KeptIsEnough DEF AlarmsInv, ReadingPends
  <2>4. ASSUME NEW v \in Reading, ReadingActs(v) PROVE AlarmsInv'
    <3>1. Raise("rule", NoCommand) \/ Resolve("rule")
      BY <2>4 DEF ReadingActs
    <3>2. alarms' \in Seq(Alarm) /\ notes' \in Seq([alarm : Nat, kind : {"raised", "resolved"}])
      BY <3>1, RaiseWrites, ResolveWrites DEF AlarmsInv
    <3>3. TypeOK'
      BY <2>4, <3>2, SideTyped, HeardTyped DEF ReadingActs, AlarmsInv, TypeOK, NotPending
    <3>4. FailuresKept
      BY <3>1, RuleKeepsFailures DEF AlarmsInv
    <3> QED
      BY <2>4, <3>3, <3>4, KeptIsEnough DEF AlarmsInv, ReadingActs
  <2>5. ASSUME NEW config \in Configs, NEW on \in BOOLEAN, EditRule(config, on) PROVE AlarmsInv'
    <3>1. TypeOK'
      BY <2>5 DEF EditRule, AlarmsInv, TypeOK
    <3>2. FailuresKept
      BY <2>5 DEF EditRule, FailuresKept, Open
    <3> QED
      BY <2>5, <3>1, <3>2, KeptIsEnough DEF AlarmsInv, EditRule
  <2>10. CASE ReadingSkipped
    <3>1. TypeOK'
      BY <2>10, HeardTyped DEF ReadingSkipped, AlarmsInv, TypeOK, Side
    <3>2. FailuresKept
      BY <2>10 DEF ReadingSkipped, FailuresKept, Open
    <3> QED
      BY <2>10, <3>1, <3>2, KeptIsEnough DEF AlarmsInv, ReadingSkipped
  <2>6. ASSUME NEW c \in Command, CommandSucceeds(c) PROVE AlarmsInv'
    <3>1. alarms' \in Seq(Alarm) /\ notes' \in Seq([alarm : Nat, kind : {"raised", "resolved"}])
      BY <2>6, ResolveWrites DEF CommandSucceeds, AlarmsInv, TypeOK
    <3>2. TypeOK'
      BY <2>6, <3>1 DEF CommandSucceeds, AlarmsInv, TypeOK
    <3> QED
      BY <2>6, <3>2, SuccessKeeps DEF AlarmsInv
  <2>7. ASSUME NEW c \in Command, CommandFails(c) PROVE AlarmsInv'
    <3>1. alarms' \in Seq(Alarm) /\ notes' \in Seq([alarm : Nat, kind : {"raised", "resolved"}])
      BY <2>7, RaiseWrites DEF CommandFails, AlarmsInv, TypeOK
    <3>2. TypeOK'
      BY <2>7, <3>1 DEF CommandFails, AlarmsInv, TypeOK
    <3> QED
      BY <2>7, <3>2, FailureKeeps DEF AlarmsInv
  <2>8. ASSUME NEW c \in Command, CommandCancelled(c) PROVE AlarmsInv'
    <3>1. TypeOK'
      BY <2>8 DEF CommandCancelled, AlarmsInv, TypeOK
    <3> QED
      BY <2>8, <3>1, CancelKeeps DEF AlarmsInv
  <2>9. CASE UNCHANGED vars
    <3>1. TypeOK' /\ FailuresKept /\ outcome' = outcome
      BY <2>9 DEF vars, AlarmsInv, TypeOK, FailuresKept, Open
    <3> QED
      BY <3>1, KeptIsEnough DEF AlarmsInv
  <2> QED
    BY <2>1, <2>2, <2>3, <2>4, <2>5, <2>6, <2>7, <2>8, <2>9, <2>10 DEF Next, Reading
<1> QED
  BY <1>1, <1>2, PTL DEF Spec

\* Every reachable state is well typed (DeviceAlarms!TypeOK), whatever the rule is edited to.
THEOREM AlarmsTypeCorrect == Spec => []TypeOK
<1>1. AlarmsInv => TypeOK
  BY DEF AlarmsInv
<1> QED
  BY <1>1, AlarmsInvariant, PTL

\* The failure incident of a device tells the truth about its commands of that type,
\* however many there are and in whatever order their outcomes arrive
\* (SystemAlarmService.record_command_outcome).
THEOREM FailureIncidentTells == Spec => []FailureTells
<1>1. AlarmsInv => FailureTells
  BY DEF AlarmsInv
<1> QED
  BY <1>1, AlarmsInvariant, PTL

-----------------------------------------------------------------------------
(* The debounce: what is pending counts no more than the last readings.     *)

HeardInv ==
    /\ pending.action = "raise" => Open("rule") = {} /\ Last(pending.count, "beyond")
    /\ pending.action = "resolve" => Open("rule") # {} /\ Last(pending.count, "clear")

\* What a step does to the incident of the rule.
Debounced ==
    /\ Open("rule") = {} /\ Open("rule")' # {} => Last(rule.debounce, "beyond")'
    /\ Open("rule") # {} /\ Open("rule")' = {} => Last(rule.debounce, "clear")'

LEMMA LastNone ==
  ASSUME NEW side \in Side
  PROVE  Last(0, side)
<1>1. Cardinality({}) = 0
  BY FS_EmptySet
<1>2. {} \in SUBSET DOMAIN heard
  OBVIOUS
<1> QED
  BY <1>1, <1>2 DEF Last

LEMMA LastGoesOn ==
  ASSUME TypeOK, NEW n \in Nat, NEW side \in Side, Last(n, side), heard' = Append(heard, side)
  PROVE  Last(n + 1, side)'
<1>1. /\ Len(heard) \in Nat
      /\ DOMAIN heard = 1..Len(heard)
      /\ DOMAIN heard' = 1..(Len(heard) + 1)
      /\ \A i \in 1..Len(heard) : heard'[i] = heard[i]
      /\ heard'[Len(heard) + 1] = side
  BY HeardTyped
<1>2. PICK run \in SUBSET DOMAIN heard :
        /\ Cardinality(run) >= n
        /\ \A i \in run : heard[i] = side
        /\ \A i \in DOMAIN heard \ run : heard[i] # "unjudged" => \A k \in run : i < k
  BY DEF Last
<1> DEFINE longer == run \cup {Len(heard) + 1}
<1>3. IsFiniteSet(run) /\ Cardinality(run) \in Nat
  <2>1. PICK l \in Nat : l = Len(heard) /\ DOMAIN heard = 1..l
    BY <1>1
  <2>2. IsFiniteSet(1..l)
    BY FS_Interval
  <2>3. IsFiniteSet(run)
    BY <1>2, <2>1, <2>2, FS_Subset
  <2> QED
    BY <2>3, FS_CardinalityType
<1>4. Cardinality(longer) >= n + 1
  <2>1. Len(heard) + 1 \notin run
    BY <1>1, <1>2
  <2>2. Cardinality(longer) = Cardinality(run) + 1
    BY <1>3, <2>1, FS_AddElement
  <2> QED
    BY <1>2, <1>3, <2>2
<1>5. longer \in SUBSET DOMAIN heard'
  BY <1>1, <1>2
<1>6. \A i \in longer : heard'[i] = side
  BY <1>1, <1>2
<1>7. ASSUME NEW i \in DOMAIN heard' \ longer, heard'[i] # "unjudged", NEW k \in longer
      PROVE  i < k
  <2>1. i \in DOMAIN heard \ run /\ heard[i] # "unjudged"
    BY <1>1, <1>7
  <2> QED
    BY <1>1, <1>2, <2>1
<1> HIDE DEF longer
<1> QED
  BY <1>4, <1>5, <1>6, <1>7 DEF Last

\* A reading that is not judged interrupts nothing.
LEMMA LastStays ==
  ASSUME TypeOK, NEW n \in Nat, NEW side \in Side, Last(n, side), heard' = Append(heard, "unjudged")
  PROVE  Last(n, side)'
<1>1. /\ Len(heard) \in Nat
      /\ DOMAIN heard = 1..Len(heard)
      /\ DOMAIN heard' = 1..(Len(heard) + 1)
      /\ \A i \in 1..Len(heard) : heard'[i] = heard[i]
      /\ heard'[Len(heard) + 1] = "unjudged"
  BY HeardTyped DEF Side
<1>2. PICK run \in SUBSET DOMAIN heard :
        /\ Cardinality(run) >= n
        /\ \A i \in run : heard[i] = side
        /\ \A i \in DOMAIN heard \ run : heard[i] # "unjudged" => \A k \in run : i < k
  BY DEF Last
<1>3. run \in SUBSET DOMAIN heard' /\ \A i \in run : heard'[i] = side
  BY <1>1, <1>2
<1>4. ASSUME NEW i \in DOMAIN heard' \ run, heard'[i] # "unjudged", NEW k \in run
      PROVE  i < k
  BY <1>1, <1>2, <1>4
<1> QED
  BY <1>2, <1>3, <1>4 DEF Last

\* More than n readings are n readings.
LEMMA LastIsEnough ==
  ASSUME TypeOK', NEW n \in Nat, NEW m \in Nat, NEW side \in Side, m >= n, Last(m, side)'
  PROVE  Last(n, side)'
<1>1. PICK run \in SUBSET DOMAIN heard' :
        /\ Cardinality(run) >= m
        /\ \A i \in run : heard'[i] = side
        /\ \A i \in DOMAIN heard' \ run : heard'[i] # "unjudged" => \A k \in run : i < k
  BY DEF Last
<1>2. IsFiniteSet(run) /\ Cardinality(run) \in Nat
  <2>1. Len(heard') \in Nat /\ DOMAIN heard' = 1..Len(heard')
    BY LenProperties DEF TypeOK
  <2>2. IsFiniteSet(1..Len(heard'))
    BY <2>1, FS_Interval
  <2> QED
    BY <1>1, <2>1, <2>2, FS_Subset, FS_CardinalityType
<1>3. Cardinality(run) >= n
  BY <1>1, <1>2
<1> QED
  BY <1>1, <1>3 DEF Last

\* The thresholds of a rule that passed validate_hysteresis() lie apart, so the history says
\* of a reading what the rule made of it.
LEMMA CandidateSide ==
  ASSUME TypeOK, NEW v \in Reading
  PROVE  /\ Candidate(v) = "raise" => SideOf(v) = "beyond" /\ Open("rule") = {}
         /\ Candidate(v) = "resolve" => SideOf(v) = "clear" /\ Open("rule") # {}
         /\ Candidate(v) \in {"raise", "resolve", "none"}
<1>1. /\ Candidate(v) = "raise" => v # Invalid /\ Open("rule") = {} /\ Beyond(v)
      /\ Candidate(v) = "resolve" => v # Invalid /\ Open("rule") # {} /\ Clear(v)
      /\ Candidate(v) \in {"raise", "resolve", "none"}
  BY DEF Candidate
<1>2. ASSUME v # Invalid, Clear(v) PROVE ~Beyond(v)
  <2>1. v \in Int
    BY <1>2, AlarmsAssumption DEF Reading
  <2>2. /\ rule.threshold \in Int /\ rule.clear \in Int /\ rule.kind \in {"low", "high"}
        /\ rule.kind = "low" => rule.clear > rule.threshold
        /\ rule.kind = "high" => rule.clear < rule.threshold
    BY AlarmsAssumption DEF TypeOK, NumericAlarmRuleConfig
  <2> QED
    BY <1>2, <2>1, <2>2 DEF Clear, Beyond
<1> QED
  BY <1>1, <1>2 DEF SideOf

\* A reading confirms what was pending, or begins to count.
LEMMA CountIsHeard ==
  ASSUME TypeOK, HeardInv, NEW v \in Reading, Candidate(v) # "none",
         heard' = Append(heard, SideOf(v))
  PROVE  \E n \in Nat, side \in Side :
            n = Confirmed(Candidate(v)) /\ side = SideOf(v) /\ Last(n, side)'
<1>1. PICK side \in Side : side = SideOf(v)
  BY SideTyped
<1>2. CASE pending.action = Candidate(v)
  <2>1. PICK n \in Nat : n = pending.count
    BY DEF TypeOK
  <2>2. Last(n, side)
    BY <1>1, <1>2, <2>1, CandidateSide DEF HeardInv
  <2>3. Last(n + 1, side)'
    BY <1>1, <2>2, LastGoesOn
  <2>4. n + 1 \in Nat /\ n + 1 = Confirmed(Candidate(v))
    BY <1>2, <2>1 DEF Confirmed
  <2> HIDE DEF Last
  <2> QED
    BY <1>1, <2>3, <2>4
<1>3. CASE pending.action # Candidate(v)
  <2>1. Last(0 + 1, side)'
    BY <1>1, LastNone, LastGoesOn
  <2>2. 0 + 1 \in Nat /\ 0 + 1 = Confirmed(Candidate(v))
    BY <1>3 DEF Confirmed
  <2> HIDE DEF Last
  <2> QED
    BY <1>1, <2>1, <2>2
<1> QED
  BY <1>2, <1>3

\* Only a reading that completes the count opens or closes the incident of the rule.
LEMMA RuleStays ==
  ASSUME AlarmsInv, Next, ~ \E v \in Reading : ReadingActs(v)
  PROVE  Open("rule")' = Open("rule")
<1>1. ASSUME NEW u \in Users, NEW i \in DOMAIN alarms, Acknowledge(u, i)
      PROVE  Open("rule")' = Open("rule")
  <2> DEFINE r == By(alarms[i], u)
  <2>1. r \in Alarm /\ r.key = alarms[i].key /\ r.active = alarms[i].active
    BY RowTyped DEF By, Alarm, AlarmsInv
  <2>2. alarms' = [alarms EXCEPT ![i] = r]
    BY <1>1 DEF Acknowledge
  <2> HIDE DEF r
  <2>3. /\ DOMAIN alarms' = DOMAIN alarms
        /\ \A j \in DOMAIN alarms : alarms'[j] = IF j = i THEN r ELSE alarms[j]
    BY <2>1, <2>2, ChangeRow DEF AlarmsInv
  <2> QED
    BY <2>1, <2>3 DEF Open
<1>2. ASSUME NEW v \in Reading, ReadingHolds(v) \/ ReadingPends(v)
      PROVE  Open("rule")' = Open("rule")
  BY <1>2 DEF ReadingHolds, ReadingPends, Open
<1>3. CASE ReadingSkipped \/ \E config \in Configs, on \in BOOLEAN : EditRule(config, on)
  BY <1>3 DEF ReadingSkipped, EditRule, Open
<1>4. ASSUME NEW c \in Command, CommandSucceeds(c) \/ CommandFails(c) \/ CommandCancelled(c)
      PROVE  Open("rule")' = Open("rule")
  <2>1. CASE alarms' = alarms
    BY <2>1 DEF Open
  <2>2. CASE Raise("command", c) \/ Resolve("command")
    BY <2>2, RaiseWrites, ResolveWrites DEF AlarmsInv
  <2> QED
    BY <1>4, <2>1, <2>2 DEF CommandSucceeds, CommandFails, CommandCancelled
<1> QED
  BY <1>1, <1>2, <1>3, <1>4 DEF Next, Reading

LEMMA ReadingIsHeard ==
  ASSUME AlarmsInv, AlarmsInv', HeardInv, NEW v \in Reading,
         ReadingHolds(v) \/ ReadingPends(v) \/ ReadingActs(v)
  PROVE  HeardInv' /\ Debounced
<1>1. CASE ReadingHolds(v)
  BY <1>1 DEF ReadingHolds, HeardInv, NotPending, Debounced, Open
<1>2. CASE ReadingPends(v)
  <2> DEFINE action == Candidate(v)
  <2>1. /\ action # "none" /\ heard' = Append(heard, SideOf(v))
        /\ pending' = [action |-> action, count |-> Confirmed(action)]
        /\ Open("rule")' = Open("rule")
    BY <1>2 DEF ReadingPends, Open
  <2>2. PICK n \in Nat, side \in Side : n = Confirmed(action) /\ side = SideOf(v) /\ Last(n, side)'
    BY <2>1, CountIsHeard DEF AlarmsInv
  <2>3. /\ action = "raise" => side = "beyond" /\ Open("rule") = {}
        /\ action = "resolve" => side = "clear" /\ Open("rule") # {}
    BY <2>2, CandidateSide DEF AlarmsInv
  <2> HIDE DEF action
  <2>4. pending'.action = action /\ pending'.count = n
    BY <2>1, <2>2
  <2>5. Last(pending.count, side)'
    BY <2>2, <2>4 DEF Last
  <2>6. HeardInv'
    BY <2>1, <2>3, <2>4, <2>5 DEF HeardInv
  <2>7. Debounced
    BY <2>1 DEF Debounced
  <2> QED
    BY <2>6, <2>7
<1>3. CASE ReadingActs(v)
  <2> DEFINE action == Candidate(v)
  <2>1. /\ action # "none" /\ heard' = Append(heard, SideOf(v))
        /\ Confirmed(action) >= rule.debounce
        /\ pending' = NotPending /\ rule' = rule
    BY <1>3 DEF ReadingActs, Due
  <2>2. PICK n \in Nat, side \in Side : n = Confirmed(action) /\ side = SideOf(v) /\ Last(n, side)'
    BY <2>1, CountIsHeard DEF AlarmsInv
  <2>3. /\ action = "raise" => side = "beyond" /\ Open("rule") = {}
        /\ action = "resolve" => side = "clear" /\ Open("rule") # {}
        /\ action \in {"raise", "resolve"}
    BY <2>1, <2>2, CandidateSide DEF AlarmsInv
  <2> HIDE DEF action
  <2>4. PICK m \in Nat : m = rule.debounce
    <3>1. rule \in NumericAlarmRuleConfig
      BY AlarmsAssumption DEF AlarmsInv, TypeOK
    <3>2. rule.debounce \in 1..100
      BY <3>1 DEF NumericAlarmRuleConfig
    <3> QED
      BY <3>2
  <2>5. Last(m, side)'
    BY <2>1, <2>2, <2>4, LastIsEnough DEF AlarmsInv
  <2>6. rule'.debounce = m
    BY <2>1, <2>4
  <2>7. Last(rule.debounce, side)'
    BY <2>5, <2>6 DEF Last
  <2>8. HeardInv'
    BY <2>1 DEF HeardInv, NotPending
  <2> QED
    BY <2>3, <2>7, <2>8 DEF Debounced
<1> QED
  BY <1>1, <1>2, <1>3

LEMMA SkippedIsNotHeard ==
  ASSUME TypeOK, HeardInv, ReadingSkipped
  PROVE  HeardInv'
<1>1. /\ heard' = Append(heard, "unjudged") /\ pending' = pending
      /\ Open("rule")' = Open("rule")
  BY DEF ReadingSkipped, Open
<1>2. PICK n \in Nat : n = pending.count
  BY DEF TypeOK
<1>3. ASSUME NEW side \in Side, Last(pending.count, side)
      PROVE  Last(pending.count, side)'
  <2>1. Last(n, side)'
    BY <1>1, <1>2, <1>3, LastStays
  <2>2. pending'.count = n
    BY <1>1, <1>2
  <2> QED
    BY <2>1, <2>2 DEF Last
<1>4. "beyond" \in Side /\ "clear" \in Side
  BY DEF Side
<1> QED
  BY <1>1, <1>3, <1>4 DEF HeardInv

\* The incident of the rule opens and closes after as many readings, one judged after the
\* other, as the rule then in force asks for, each beyond its threshold, or clear of it, by the
\* rule in force when it was read (TelemetryAlarmRuleEngine.evaluate, CapabilityService.
\* update_assignment): for any configurations, edited and switched off and on at any time,
\* with any readings, results and acknowledgements in between.
THEOREM AlarmsDebounced == Spec => AlarmIsDebounced
<1>1. Init => HeardInv
  BY DEF Init, HeardInv, NotPending
<1>2. ASSUME AlarmsInv, AlarmsInv', HeardInv, [Next]_vars
      PROVE  HeardInv' /\ [Debounced]_vars
  <2>1. CASE \E v \in Reading : ReadingHolds(v) \/ ReadingPends(v) \/ ReadingActs(v)
    BY <1>2, <2>1, ReadingIsHeard
  <2>2. CASE Next /\ ~ \E v \in Reading : ReadingHolds(v) \/ ReadingPends(v) \/ ReadingActs(v)
    <3>1. Open("rule")' = Open("rule")
      BY <1>2, <2>2, RuleStays
    <3>2. CASE ReadingSkipped
      BY <1>2, <3>1, <3>2, SkippedIsNotHeard DEF AlarmsInv, Debounced
    <3>3. CASE UNCHANGED <<pending, heard>>
      BY <1>2, <3>1, <3>3 DEF HeardInv, Debounced, Last
    <3> QED
      BY <2>2, <3>2, <3>3 DEF Next, Reading, Acknowledge, EditRule, CommandSucceeds, CommandFails,
         CommandCancelled
  <2>3. CASE UNCHANGED vars
    BY <1>2, <2>3 DEF vars, HeardInv, Open, Last
  <2> QED
    BY <1>2, <2>1, <2>2, <2>3
<1>3. Spec => [][Debounced]_vars
  BY <1>1, <1>2, AlarmsInvariant, PTL DEF Spec
<1> QED
  BY <1>3 DEF AlarmIsDebounced, Debounced
=============================================================================
