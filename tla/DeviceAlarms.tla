---------------------------- MODULE DeviceAlarms ----------------------------
(***************************************************************************)
(* The incidents of one device: a numeric rule with debounce and hysteresis *)
(* over its readings, the failure incident of one type of command, the      *)
(* acknowledgement of operators and the notifications                      *)
(* (backend/app/services/alarm_rule_engine.py, alarms.py, system_alarms.py, *)
(* notifications.py).                                                       *)
(*                                                                         *)
(* Every operation is one transaction under the lock of the device row, so  *)
(* each is one action; what comes in any order is the operations: results   *)
(* of commands arrive late and in another order than the commands were      *)
(* given, operators answer to a page read some time ago, rules are edited   *)
(* while readings are pending.                                              *)
(*                                                                         *)
(* Readings are the packets that became the current state (DeviceFeed):     *)
(* repeated and outdated ones are not evaluated.  The history keeps of each *)
(* the side of the thresholds it fell on, those of the rule then in force.  *)
(* The times of all operations are stamped under the lock, so the branches  *)
(* for late raises and late recoveries of alarms.py have no caller that     *)
(* reaches them; neither has a change of severity, since an open rule is    *)
(* never raised again.                                                      *)
(***************************************************************************)
EXTENDS Integers, Sequences, FiniteSets

CONSTANTS
    Values,        \* values of the metric
    Invalid,       \* what is not a number
    Configs,       \* the configurations operators give the rule
    Commands,      \* the commands of one type in the order of created_at
    Users,         \* operators
    Nobody,        \* not an operator
    Readings       \* bound of the model on readings

\* NumericAlarmRuleConfig with its validate_hysteresis().
NumericAlarmRuleConfig ==
    {c \in [kind : {"low", "high"}, threshold : Int, clear : Int, debounce : 1..100] :
        /\ c.kind = "low" => c.clear > c.threshold
        /\ c.kind = "high" => c.clear < c.threshold}

ASSUME AlarmsAssumption ==
    /\ Values \subseteq Int /\ Invalid \notin Values
    /\ Configs # {} /\ Configs \subseteq NumericAlarmRuleConfig
    /\ Commands \in Nat
    /\ Nobody \notin Users
    /\ Readings \in Nat

VARIABLES
    rule,          \* alarm_rules of the assignment: the configuration in force
    enabled,       \* the rule and its capability are enabled
    pending,       \* device_alarm_rule_states
    alarms,        \* device_alarms in the order in which they were raised
    notes,         \* alarm_notifications
    outcome,       \* what is known of each command
    heard          \* history: what the readings so far were judged to be

vars == <<rule, enabled, pending, alarms, notes, outcome, heard>>

Command == 1..Commands
NoCommand == 0
Side == {"beyond", "between", "clear", "invalid", "unjudged"}
NotPending == [action |-> "none", count |-> 0]
Alarm == [key : {"rule", "command"}, active : BOOLEAN, occurrences : Nat \ {0},
          acknowledged : Users \cup {Nobody}, cause : Command \cup {NoCommand}]

TypeOK ==
    /\ rule \in Configs
    /\ enabled \in BOOLEAN
    /\ pending \in [action : {"none", "raise", "resolve"}, count : Nat]
    /\ alarms \in Seq(Alarm)
    /\ notes \in Seq([alarm : Nat, kind : {"raised", "resolved"}])
    /\ outcome \in [Command -> {"open", "succeeded", "failed", "cancelled"}]
    /\ heard \in Seq(Side)

Init ==
    /\ rule \in Configs
    /\ enabled = TRUE
    /\ pending = NotPending
    /\ alarms = <<>> /\ notes = <<>>
    /\ outcome = [c \in Command |-> "open"]
    /\ heard = <<>>

-----------------------------------------------------------------------------
(* AlarmLifecycleService                                                    *)

Open(key) == {i \in DOMAIN alarms : alarms[i].key = key /\ alarms[i].active}

Notify(i, kind) == notes' = Append(notes, [alarm |-> i, kind |-> kind])

NewAlarm(key, cause) == [key |-> key, active |-> TRUE, occurrences |-> 1,
                         acknowledged |-> Nobody, cause |-> cause]
Again(a, cause) == [a EXCEPT !.occurrences = @ + 1, !.cause = cause]
Closed(a) == [a EXCEPT !.active = FALSE]
By(a, u) == [a EXCEPT !.acknowledged = u]

\* raise_alarm(): a new incident, or one more occurrence of the open one.
Raise(key, cause) ==
    IF Open(key) = {}
    THEN /\ alarms' = Append(alarms, NewAlarm(key, cause))
         /\ Notify(Len(alarms) + 1, "raised")
    ELSE \E i \in Open(key) :
            /\ alarms' = [alarms EXCEPT ![i] = Again(@, cause)]
            /\ UNCHANGED notes

\* resolve_alarm() of an open incident.
Resolve(key) ==
    \E i \in Open(key) :
        /\ alarms' = [alarms EXCEPT ![i] = Closed(@)]
        /\ Notify(i, "resolved")

\* acknowledge_alarm() by an operator whose page shows incident i, open or not.
Acknowledge(u, i) ==
    /\ alarms[i].acknowledged = Nobody
    /\ alarms[i].active
    /\ alarms' = [alarms EXCEPT ![i] = By(@, u)]
    /\ UNCHANGED <<rule, enabled, pending, notes, outcome, heard>>

-----------------------------------------------------------------------------
(* TelemetryAlarmRuleEngine.evaluate for one rule                           *)

Beyond(v) == IF rule.kind = "low" THEN v <= rule.threshold ELSE v >= rule.threshold
Clear(v) == IF rule.kind = "low" THEN v >= rule.clear ELSE v <= rule.clear

\* _candidate_action(), and the invalid values before it.
Candidate(v) ==
    CASE v # Invalid /\ Open("rule") = {} /\ Beyond(v) -> "raise"
      [] v # Invalid /\ Open("rule") # {} /\ Clear(v) -> "resolve"
      [] OTHER -> "none"

\* What the history keeps of a reading that was judged.
SideOf(v) ==
    CASE v = Invalid -> "invalid"
      [] v # Invalid /\ Beyond(v) -> "beyond"
      [] v # Invalid /\ ~Beyond(v) /\ Clear(v) -> "clear"
      [] OTHER -> "between"

\* set_pending()
Confirmed(action) == IF pending.action = action THEN pending.count + 1 ELSE 1

Due(action) == Confirmed(action) >= rule.debounce

\* Mutant: a reading that asks for nothing leaves the count alone.
ReadingHoldsOn(v) ==
    /\ enabled /\ Candidate(v) = "none"
    /\ heard' = Append(heard, SideOf(v))
    /\ UNCHANGED <<rule, enabled, pending, alarms, notes, outcome>>

ReadingHolds(v) ==
    /\ enabled /\ Candidate(v) = "none"
    /\ pending' = NotPending
    /\ heard' = Append(heard, SideOf(v))
    /\ UNCHANGED <<rule, enabled, alarms, notes, outcome>>

ReadingPends(v) ==
    LET action == Candidate(v) IN
    /\ enabled /\ action # "none"
    /\ ~Due(action)
    /\ pending' = [action |-> action, count |-> Confirmed(action)]
    /\ heard' = Append(heard, SideOf(v))
    /\ UNCHANGED <<rule, enabled, alarms, notes, outcome>>

ReadingActs(v) ==
    LET action == Candidate(v) IN
    /\ enabled /\ action # "none"
    /\ Due(action)
    /\ IF action = "raise" THEN Raise("rule", NoCommand) ELSE Resolve("rule")
    /\ pending' = NotPending
    /\ heard' = Append(heard, SideOf(v))
    /\ UNCHANGED <<rule, enabled, outcome>>

\* The rule or its capability is off, or the packet lacks the metric.
ReadingSkipped ==
    /\ heard' = Append(heard, "unjudged")
    /\ UNCHANGED <<rule, enabled, pending, alarms, notes, outcome>>

\* CapabilityService.update_assignment(): switched on or off, or configured anew, with the
\* same rule_key; what is pending or open stays as it is.
EditRule(config, on) ==
    /\ <<config, on>> # <<rule, enabled>>
    /\ rule' = config
    /\ enabled' = on
    /\ UNCHANGED <<pending, alarms, notes, outcome, heard>>

-----------------------------------------------------------------------------
(* SystemAlarmService.record_command_outcome                                *)

FailedAfter(c) == \E i \in Open("command") : alarms[i].cause > c

\* Mutant: only the open incident is looked at.
SucceededAfterUnknown(c) == FALSE

SucceededAfter(c) == \E d \in Command : d > c /\ outcome[d] = "succeeded"

CommandSucceeds(c) ==
    /\ outcome[c] = "open"
    /\ outcome' = [outcome EXCEPT ![c] = "succeeded"]
    /\ IF Open("command") = {} \/ FailedAfter(c) THEN UNCHANGED <<alarms, notes>>
       ELSE Resolve("command")
    /\ UNCHANGED <<rule, enabled, pending, heard>>

\* A failed result, or a TTL that ran out before the command was ever sent.
CommandFails(c) ==
    /\ outcome[c] = "open"
    /\ outcome' = [outcome EXCEPT ![c] = "failed"]
    /\ IF SucceededAfter(c) \/ FailedAfter(c) THEN UNCHANGED <<alarms, notes>>
       ELSE Raise("command", c)
    /\ UNCHANGED <<rule, enabled, pending, heard>>

\* A program its operator stopped, a command withdrawn before it was sent.
CommandCancelled(c) ==
    /\ outcome[c] = "open"
    /\ outcome' = [outcome EXCEPT ![c] = "cancelled"]
    /\ UNCHANGED <<rule, enabled, pending, alarms, notes, heard>>

-----------------------------------------------------------------------------
Next ==
    \/ \E u \in Users, i \in DOMAIN alarms : Acknowledge(u, i)
    \/ /\ Len(heard) < Readings
       /\ \/ \E v \in Values \cup {Invalid} : ReadingHolds(v) \/ ReadingPends(v) \/ ReadingActs(v)
          \/ ReadingSkipped
    \/ \E config \in Configs, on \in BOOLEAN : EditRule(config, on)
    \/ \E c \in Command : CommandSucceeds(c) \/ CommandFails(c) \/ CommandCancelled(c)

Spec == Init /\ [][Next]_vars

-----------------------------------------------------------------------------
(* What an operator may rely on. *)

\* The failure incident is open exactly while the newest command with an outcome is a
\* failed one, in whatever order the outcomes came in ("a late failure of an older
\* command does not open the closed problem again"), and it names that command.
FailureTells ==
    /\ Open("command") # {}
       <=> \E c \in Command : /\ outcome[c] = "failed"
                              /\ \A d \in Command : d > c => outcome[d] # "succeeded"
    /\ \A i \in Open("command") :
          \A d \in Command : d > alarms[i].cause => outcome[d] \notin {"failed", "succeeded"}

\* The last n readings that were judged, or more, fell on that side.
Last(n, side) ==
    \E run \in SUBSET DOMAIN heard :
        /\ Cardinality(run) >= n
        /\ \A i \in run : heard[i] = side
        /\ \A i \in DOMAIN heard \ run : heard[i] # "unjudged" => \A k \in run : i < k

\* Nothing less than the debounce of the rule in force opens or closes it: each reading that
\* counts was beyond, or clear of, the thresholds it was read under, however often the rule
\* was edited in between, and no other was judged since the first of them.  Not a single
\* peak, not a value between the two thresholds, not a reading that came while the rule was
\* off, not an edit; and no reading counts for two incidents.
AlarmIsDebounced ==
    [][LET opens == Open("rule") = {} /\ Open("rule")' # {}
           closes == Open("rule") # {} /\ Open("rule")' = {} IN
       /\ opens => Last(rule.debounce, "beyond")'
       /\ closes => Last(rule.debounce, "clear")']_vars

=============================================================================
