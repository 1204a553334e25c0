----------------------------- MODULE DeviceFeed -----------------------------
(***************************************************************************)
(* What the backend believes of one controller: its current state, its boot *)
(* session, whether it is online, and the two incidents that follow from    *)
(* them (backend/app/services/telemetry.py, telemetry_ordering.py,          *)
(* device_presence.py, system_alarms.py, system_alarm_worker.py).           *)
(*                                                                         *)
(* Every message is handled in one transaction under the lock of the device *)
(* row, so each handler is one action.  MQTT may lose a message, deliver it *)
(* late or several times (a commit is acknowledged to the broker only       *)
(* afterwards, mqtt_client.py).  The worker reads its clock and selects its *)
(* candidates first, and checks each of them later.                        *)
(*                                                                         *)
(* Left out: payloads without a session or a sequence (older firmware), the *)
(* values themselves, and clocks that step back.                            *)
(***************************************************************************)
EXTENDS Integers, FiniteSets

CONSTANTS
    Boots,         \* bound of the model on boots of the controller
    Packets,       \* bound of the model on packets of one boot
    MaxTime,       \* bound of the model on the clock
    Timeout        \* DEVICE_ONLINE_TIMEOUT_SECONDS

ASSUME FeedAssumption ==
    /\ Boots \in Nat \ {0} /\ Packets \in Nat \ {0}
    /\ MaxTime \in Nat /\ Timeout \in Nat

VARIABLES
    boot,          \* the running boot session of the controller
    sequence,      \* its next packet number
    sent,          \* what it has published: the broker may deliver it at any time
    stored,        \* telemetry_messages
    snapshot,      \* device_states: the packet that is the current state
    observed,      \* devices.last_observed_session_id
    sessions,      \* device_sessions
    seenAt,        \* devices.last_seen_at
    alarms,        \* the active ones of device.offline and device.reboot
    clock,
    scan,          \* the clock the worker has read for the check it is about to make
    reboots,       \* device.reboot events so far
    raisedBy       \* the packet that raised the active device.reboot

device == <<boot, sequence, sent>>
vars == <<device, stored, snapshot, observed, sessions, seenAt, alarms, clock, scan,
          reboots, raisedBy>>

Boot == 1..Boots
Packet == [boot : Boot, seq : 0..(Packets - 1), kind : {"heartbeat", "telemetry"}]
NoPacket == [boot |-> 0, seq |-> -1, kind |-> "none"]
Nobody == 0
Never == -1

Unknown == [seen |-> FALSE, last |-> NoPacket, heartbeat |-> -1]
Session == [seen : BOOLEAN, last : Packet \cup {NoPacket}, heartbeat : -1..(Packets - 1)]

TypeOK ==
    /\ boot \in Boot
    /\ sequence \in 0..Packets
    /\ sent \subseteq Packet
    /\ stored \subseteq {p \in Packet : p.kind = "telemetry"}
    /\ snapshot \in stored \cup {NoPacket}
    /\ observed \in Boot \cup {Nobody}
    /\ sessions \in [Boot -> Session]
    /\ seenAt \in 0..MaxTime \cup {Never}
    /\ alarms \subseteq {"offline", "reboot"}
    /\ clock \in 0..MaxTime
    /\ scan \in 0..MaxTime \cup {Never}
    /\ reboots \in Nat
    /\ raisedBy \in Packet \cup {NoPacket}

Init ==
    /\ boot = 1 /\ sequence = 0 /\ sent = {}
    /\ stored = {} /\ snapshot = NoPacket
    /\ observed = Nobody /\ sessions = [b \in Boot |-> Unknown]
    /\ seenAt = Never /\ alarms = {}
    /\ clock = 0 /\ scan = Never
    /\ reboots = 0 /\ raisedBy = NoPacket

-----------------------------------------------------------------------------
(* The controller: one counter for both kinds of packet, new with each boot. *)

Publish(kind) ==
    /\ sequence < Packets
    /\ sent' = sent \cup {[boot |-> boot, seq |-> sequence, kind |-> kind]}
    /\ sequence' = sequence + 1
    /\ UNCHANGED <<boot, stored, snapshot, observed, sessions, seenAt, alarms, clock, scan,
                   reboots, raisedBy>>

Restart ==
    /\ boot < Boots
    /\ boot' = boot + 1 /\ sequence' = 0
    /\ UNCHANGED <<sent, stored, snapshot, observed, sessions, seenAt, alarms, clock, scan,
                   reboots, raisedBy>>

\* What the broker may deliver: anything that was published, but the first packet it
\* delivers of a boot comes before those of later boots (the new connection of the
\* controller ends the old one).
Deliverable(p) ==
    /\ p \in sent
    /\ sessions[p.boot].seen \/ \A b \in Boot : b > p.boot => ~sessions[b].seen

-----------------------------------------------------------------------------
(* SystemAlarmService                                                       *)

\* A known session that is not the observed one is over.
Reappears(p) == observed # p.boot /\ sessions[p.boot].seen

\* Mutant: a new row of device_sessions does not remember the packet that made it.
RememberedLater(p) ==
    IF sessions[p.boot].seen
    THEN [seen |-> TRUE, last |-> p,
          heartbeat |-> IF p.kind = "heartbeat" THEN p.seq ELSE sessions[p.boot].heartbeat]
    ELSE [Unknown EXCEPT !.seen = TRUE]

\* The row of device_sessions after packet p.
Remembered(p) ==
    [seen |-> TRUE, last |-> p,
     heartbeat |-> IF p.kind = "heartbeat" THEN p.seq ELSE sessions[p.boot].heartbeat]

\* observe_session() of a packet that is neither old nor repeated nor stale, and the
\* mark_online() that follows it in the same transaction.
Observe(p) ==
    /\ sessions' = [sessions EXCEPT ![p.boot] = Remembered(p)]
    /\ observed' = p.boot
    /\ LET rebooted == observed \notin {p.boot, Nobody}
           others == alarms \ {"offline"} IN
       /\ reboots' = IF rebooted THEN reboots + 1 ELSE reboots
       /\ raisedBy' = IF rebooted THEN p ELSE raisedBy
       /\ alarms' = CASE rebooted -> others \cup {"reboot"}
                      [] observed = p.boot -> others \ {"reboot"}
                      [] OTHER -> others

Seen == seenAt' = clock

-----------------------------------------------------------------------------
(* DevicePresenceService.mark_seen                                          *)

StaleHeartbeat(p) == p.seq <= sessions[p.boot].heartbeat

Repeated(p) == sessions[p.boot].last = p

HeartbeatIgnored(p) ==
    /\ p.kind = "heartbeat" /\ Deliverable(p)
    /\ Reappears(p) \/ Repeated(p) \/ StaleHeartbeat(p)
    /\ UNCHANGED vars

Heartbeat(p) ==
    /\ p.kind = "heartbeat" /\ Deliverable(p)
    /\ ~Reappears(p) /\ ~Repeated(p) /\ ~StaleHeartbeat(p)
    /\ Observe(p)
    /\ Seen
    /\ UNCHANGED <<device, stored, snapshot, clock, scan>>

-----------------------------------------------------------------------------
(* TelemetryService.ingest                                                  *)

\* decide_snapshot_update() for packets with a session and a number.
Outdated(p) ==
    /\ snapshot # NoPacket /\ snapshot.boot # p.boot
    /\ \E q \in stored : q.boot = p.boot

\* Mutant: the packets of one session count as they arrive.
NewerByArrival(p) ==
    \/ snapshot = NoPacket
    \/ snapshot.boot = p.boot
    \/ snapshot.boot # p.boot /\ ~Outdated(p)

Newer(p) ==
    \/ snapshot = NoPacket
    \/ snapshot.boot = p.boot /\ p.seq > snapshot.seq
    \/ snapshot.boot # p.boot /\ ~Outdated(p)

\* A heartbeat has announced this boot before its first telemetry.
Announced(p) == p.boot = observed /\ snapshot # NoPacket /\ snapshot.boot # p.boot

TelemetryRepeated(p) ==
    /\ p.kind = "telemetry" /\ Deliverable(p) /\ p \in stored
    /\ UNCHANGED vars

\* The packet becomes the current state.
TelemetryCurrent(p) ==
    /\ p.kind = "telemetry" /\ Deliverable(p) /\ p \notin stored
    /\ ~Reappears(p)
    /\ Announced(p) \/ Newer(p)
    /\ stored' = stored \cup {p}
    /\ snapshot' = p
    /\ Observe(p)
    /\ Seen
    /\ UNCHANGED <<device, clock, scan>>

\* History only; of the running session it shows that the controller is there.
TelemetryLate(p) ==
    /\ p.kind = "telemetry" /\ Deliverable(p) /\ p \notin stored
    /\ ~Reappears(p)
    /\ ~Announced(p) /\ ~Newer(p)
    /\ stored' = stored \cup {p}
    /\ IF Outdated(p) THEN UNCHANGED <<seenAt, alarms>>
       ELSE Seen /\ alarms' = alarms \ {"offline"}
    /\ UNCHANGED <<device, snapshot, observed, sessions, clock, scan, reboots, raisedBy>>

TelemetryOld(p) ==
    /\ p.kind = "telemetry" /\ Deliverable(p) /\ p \notin stored
    /\ Reappears(p)
    /\ stored' = stored \cup {p}
    /\ UNCHANGED <<device, snapshot, observed, sessions, seenAt, alarms, clock, scan,
                   reboots, raisedBy>>

-----------------------------------------------------------------------------
(* The worker.                                                              *)

Silent(now) == seenAt # Never /\ seenAt + Timeout < now

\* run_system_alarm_cycle(): the clock is read, the candidates are selected.
Scan ==
    /\ scan = Never
    /\ Silent(clock) /\ "offline" \notin alarms
    /\ scan' = clock
    /\ UNCHANGED <<device, stored, snapshot, observed, sessions, seenAt, alarms, clock,
                   reboots, raisedBy>>

\* Mutant: the boundary is off by one.
SilentForLonger(now) == seenAt # Never /\ seenAt + Timeout + 1 < now
StillSilent(now) == Silent(now)

\* check_offline(): everything is read again under the lock.
CheckOffline ==
    /\ scan # Never
    /\ alarms' = IF StillSilent(scan) THEN alarms \cup {"offline"} ELSE alarms
    /\ scan' = Never
    /\ UNCHANGED <<device, stored, snapshot, observed, sessions, seenAt, clock, reboots, raisedBy>>

Tick ==
    /\ clock < MaxTime
    /\ clock' = clock + 1
    /\ UNCHANGED <<device, stored, snapshot, observed, sessions, seenAt, alarms, scan,
                   reboots, raisedBy>>

-----------------------------------------------------------------------------
Next ==
    \/ \E kind \in {"heartbeat", "telemetry"} : Publish(kind)
    \/ Restart
    \/ \E p \in Packet :
        \/ HeartbeatIgnored(p) \/ Heartbeat(p)
        \/ TelemetryRepeated(p) \/ TelemetryCurrent(p) \/ TelemetryLate(p) \/ TelemetryOld(p)
    \/ Scan \/ CheckOffline
    \/ Tick

Spec == Init /\ [][Next]_vars

\* The worker comes round every few seconds and ends what it began.
Fairness == WF_vars(Scan) /\ WF_vars(CheckOffline) /\ WF_vars(Tick)

FairSpec == Spec /\ Fairness
-----------------------------------------------------------------------------
(* What the feed guarantees. *)

After(p, q) == p.boot > q.boot \/ (p.boot = q.boot /\ p.seq > q.seq)

\* The current state never goes back to an older reading, however packets of two
\* boots are repeated and reordered, and although each boot counts from zero.
SnapshotAdvances ==
    [][snapshot' # snapshot => snapshot = NoPacket \/ After(snapshot', snapshot)]_vars

\* Every boot after the first that was heard of is reported as a reboot once, no
\* matter which of its packets comes first and how often it is delivered.
OneRebootPerBoot ==
    observed # Nobody => reboots = Cardinality({b \in Boot : sessions[b].seen}) - 1

\* The reboot incident ends with another packet of that boot, not with the one that
\* raised it delivered again.
RebootIsConfirmed ==
    [][/\ "reboot" \in alarms /\ "reboot" \notin alarms'
       => /\ sessions'[observed].last # raisedBy
          /\ raisedBy.boot = observed]_vars

\* Nobody is told that a controller is offline which was heard within the timeout,
\* although the worker decides on a clock and a selection of some time ago.
OfflineIsSilent == "offline" \in alarms => Silent(clock)

\* A controller that falls silent is reported, unless it is heard again.
SilenceIsReported == seenAt # Never /\ Silent(clock) ~> "offline" \in alarms \/ ~Silent(clock)

=============================================================================
