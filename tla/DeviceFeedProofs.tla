-------------------------- MODULE DeviceFeedProofs --------------------------
(***************************************************************************)
(* Proofs about DeviceFeed, for any number of boots, packets and clock      *)
(* ticks.  The argument: the boots that were heard of never exceed the      *)
(* observed one, so a packet of another known boot is one of the past, and  *)
(* the current state is always of a known boot.                            *)
(***************************************************************************)
EXTENDS DeviceFeed, FiniteSetTheorems, TLAPS

\* The observed boot is the latest of those that were heard of.
ObservedIsLatest ==
    /\ observed # Nobody => sessions[observed].seen
    /\ \A b \in Boot : sessions[b].seen => observed # Nobody /\ b <= observed

\* The current state is a reading of a boot that was heard of.
SnapshotIsKnown == snapshot # NoPacket => sessions[snapshot.boot].seen

FeedInv == TypeOK /\ ObservedIsLatest /\ SnapshotIsKnown

\* A heartbeat or a telemetry packet that is observed keeps the boots in order.
LEMMA ObserveKeeps ==
  ASSUME TypeOK, ObservedIsLatest, NEW p \in Packet, Deliverable(p), ~Reappears(p), Observe(p)
  PROVE  /\ ObservedIsLatest'
         /\ observed' = p.boot
         /\ sessions' \in [Boot -> Session]
         /\ sessions'[p.boot].seen
         /\ \A b \in Boot : sessions[b].seen => sessions'[b].seen
         /\ reboots' \in Nat
         /\ alarms' \subseteq {"offline", "reboot"}
         /\ raisedBy' \in Packet \cup {NoPacket}
<1>1. Remembered(p) \in Session
  BY DEF Remembered, Session, Packet, TypeOK
<1>2. sessions' = [sessions EXCEPT ![p.boot] = Remembered(p)] /\ observed' = p.boot
  BY DEF Observe
<1>3. sessions' \in [Boot -> Session] /\ p.boot \in Boot
  BY <1>1, <1>2 DEF TypeOK, Packet
<1>4. sessions'[p.boot].seen /\ \A b \in Boot \ {p.boot} : sessions'[b] = sessions[b]
  BY <1>2, <1>3 DEF TypeOK, Remembered
<1>5. \A b \in Boot : sessions[b].seen => b <= p.boot
  <2>1. CASE observed = p.boot
    BY <2>1 DEF ObservedIsLatest
  <2>2. CASE ~sessions[p.boot].seen
    BY <2>2, <1>3 DEF Deliverable, Boot
  <2> QED
    BY <2>1, <2>2 DEF Reappears
<1>6. ObservedIsLatest'
  BY <1>2, <1>3, <1>4, <1>5, FeedAssumption DEF ObservedIsLatest, Boot, Nobody
<1>7. reboots' \in Nat /\ alarms' \subseteq {"offline", "reboot"} /\ raisedBy' \in Packet \cup {NoPacket}
  BY DEF Observe, TypeOK
<1> QED
  BY <1>2, <1>3, <1>4, <1>6, <1>7

\* The inductive invariant.
THEOREM FeedInvariant == Spec => []FeedInv
<1>1. Init => FeedInv
  BY FeedAssumption DEF Init, FeedInv, TypeOK, ObservedIsLatest, SnapshotIsKnown, Boot, Packet, Session,
     Unknown, NoPacket, Nobody, Never
<1>2. FeedInv /\ [Next]_vars => FeedInv'
  <2> SUFFICES ASSUME FeedInv, [Next]_vars PROVE FeedInv'
    OBVIOUS
  <2> USE DEF FeedInv
  <2>1. ASSUME NEW kind \in {"heartbeat", "telemetry"}, Publish(kind) PROVE FeedInv'
    BY <2>1, FeedAssumption DEF Publish, TypeOK, ObservedIsLatest, SnapshotIsKnown, Packet
  <2>2. CASE Restart
    BY <2>2, FeedAssumption DEF Restart, TypeOK, ObservedIsLatest, SnapshotIsKnown, Boot
  <2>3. ASSUME NEW p \in Packet, Heartbeat(p) PROVE FeedInv'
    <3>1. Deliverable(p) /\ ~Reappears(p) /\ Observe(p)
      BY <2>3 DEF Heartbeat
    <3>2. TypeOK'
      BY <2>3, <3>1, ObserveKeeps DEF Heartbeat, TypeOK, Seen, device, Packet
    <3>3. SnapshotIsKnown'
      BY <2>3, <3>1, ObserveKeeps DEF Heartbeat, SnapshotIsKnown, TypeOK, Packet
    <3> QED
      BY <3>1, <3>2, <3>3, ObserveKeeps
  <2>4. ASSUME NEW p \in Packet, TelemetryCurrent(p) PROVE FeedInv'
    <3>1. Deliverable(p) /\ ~Reappears(p) /\ Observe(p)
      BY <2>4 DEF TelemetryCurrent
    <3>2. TypeOK'
      BY <2>4, <3>1, ObserveKeeps DEF TelemetryCurrent, TypeOK, Seen, device, Packet
    <3>3. SnapshotIsKnown'
      BY <2>4, <3>1, ObserveKeeps DEF TelemetryCurrent, SnapshotIsKnown
    <3> QED
      BY <3>1, <3>2, <3>3, ObserveKeeps
  <2>5. ASSUME NEW p \in Packet, TelemetryLate(p) PROVE FeedInv'
    BY <2>5 DEF TelemetryLate, TypeOK, ObservedIsLatest, SnapshotIsKnown, Seen, device
  <2>6. ASSUME NEW p \in Packet, TelemetryOld(p) PROVE FeedInv'
    BY <2>6 DEF TelemetryOld, TypeOK, ObservedIsLatest, SnapshotIsKnown, device
  <2>7. ASSUME NEW p \in Packet, HeartbeatIgnored(p) \/ TelemetryRepeated(p) PROVE FeedInv'
    BY <2>7 DEF HeartbeatIgnored, TelemetryRepeated, vars, device, TypeOK, ObservedIsLatest,
       SnapshotIsKnown
  <2>8. CASE Scan
    BY <2>8 DEF Scan, TypeOK, ObservedIsLatest, SnapshotIsKnown, device
  <2>9. CASE CheckOffline
    BY <2>9 DEF CheckOffline, TypeOK, ObservedIsLatest, SnapshotIsKnown, device
  <2>10. CASE Tick
    BY <2>10, FeedAssumption DEF Tick, TypeOK, ObservedIsLatest, SnapshotIsKnown, device
  <2>11. CASE UNCHANGED vars
    BY <2>11 DEF vars, device, TypeOK, ObservedIsLatest, SnapshotIsKnown
  <2> HIDE DEF FeedInv
  <2> QED
    BY <2>1, <2>2, <2>3, <2>4, <2>5, <2>6, <2>7, <2>8, <2>9, <2>10, <2>11 DEF Next
<1> QED
  BY <1>1, <1>2, PTL DEF Spec

\* Every reachable state of the feed is well typed.
THEOREM FeedTypeCorrect == Spec => []TypeOK
BY FeedInvariant, PTL DEF FeedInv

\* A step that replaces the current state replaces it by a later reading.
LEMMA CurrentIsLater ==
  ASSUME FeedInv, NEW p \in Packet, TelemetryCurrent(p)
  PROVE  snapshot = NoPacket \/ After(p, snapshot)
<1> SUFFICES ASSUME snapshot # NoPacket PROVE After(p, snapshot)
  OBVIOUS
<1>1. snapshot \in Packet /\ sessions[snapshot.boot].seen
  BY DEF FeedInv, SnapshotIsKnown, TypeOK
<1>2. CASE snapshot.boot = p.boot
  BY <1>1, <1>2 DEF TelemetryCurrent, Announced, Newer, Outdated, After, Packet
<1>3. CASE snapshot.boot # p.boot
  <2>1. snapshot.boot <= p.boot
    <3>1. CASE observed = p.boot
      BY <1>1, <3>1 DEF FeedInv, ObservedIsLatest, Packet
    <3>2. CASE ~sessions[p.boot].seen
      BY <1>1, <3>2 DEF TelemetryCurrent, Deliverable, Packet, Boot
    <3> QED
      BY <3>1, <3>2 DEF TelemetryCurrent, Reappears
  <2> QED
    BY <1>1, <1>3, <2>1 DEF After, Packet, Boot
<1> QED
  BY <1>2, <1>3

\* The current state never goes back to an older reading.
THEOREM StateAdvances == Spec => SnapshotAdvances
<1>1. FeedInv /\ [Next]_vars
        => [snapshot' # snapshot => snapshot = NoPacket \/ After(snapshot', snapshot)]_vars
  <2> SUFFICES ASSUME FeedInv, Next, snapshot' # snapshot
               PROVE  snapshot = NoPacket \/ After(snapshot', snapshot)
    BY DEF vars
  <2>1. \A p \in Packet : TelemetryCurrent(p) => snapshot' = p
    BY DEF TelemetryCurrent
  <2>2. \E p \in Packet : TelemetryCurrent(p)
    BY DEF Next, Publish, Restart, HeartbeatIgnored, Heartbeat, TelemetryRepeated, TelemetryLate,
       TelemetryOld, Scan, CheckOffline, Tick, vars, device
  <2> QED
    BY <2>1, <2>2, CurrentIsLater
<1> QED
  BY <1>1, FeedInvariant, PTL DEF Spec, SnapshotAdvances

-----------------------------------------------------------------------------
\* The worker decides on a clock of the past.
WorkerInv ==
    /\ "offline" \in alarms => Silent(clock)
    /\ scan # Never => scan <= clock

\* Nobody is told that a controller is offline which was heard within the timeout.
THEOREM OfflineIsTrue == Spec => []OfflineIsSilent
<1>1. Init => WorkerInv
  BY DEF Init, WorkerInv
<1>2. FeedInv /\ WorkerInv /\ [Next]_vars => WorkerInv'
  <2> SUFFICES ASSUME TypeOK, WorkerInv, [Next]_vars PROVE WorkerInv'
    BY DEF FeedInv
  <2>1. ASSUME NEW p \in Packet, Observe(p) PROVE "offline" \notin alarms'
    BY <2>1 DEF Observe
  <2>2. ASSUME NEW p \in Packet, Heartbeat(p) \/ TelemetryCurrent(p) PROVE WorkerInv'
    BY <2>1, <2>2 DEF Heartbeat, TelemetryCurrent, WorkerInv
  <2>3. ASSUME NEW p \in Packet, TelemetryLate(p) PROVE WorkerInv'
    BY <2>3 DEF TelemetryLate, WorkerInv, Silent
  <2>4. CASE Scan
    BY <2>4 DEF Scan, WorkerInv, Silent, TypeOK
  <2>5. CASE CheckOffline
    BY <2>5, FeedAssumption DEF CheckOffline, WorkerInv, StillSilent, Silent, TypeOK, Never
  <2>6. CASE Tick
    BY <2>6, FeedAssumption DEF Tick, WorkerInv, Silent, TypeOK, Never
  <2>7. ASSUME UNCHANGED <<seenAt, alarms, clock, scan>> PROVE WorkerInv'
    BY <2>7 DEF WorkerInv, Silent
  <2> QED
    BY <2>2, <2>3, <2>4, <2>5, <2>6, <2>7 DEF Next, Publish, Restart, HeartbeatIgnored,
       TelemetryRepeated, TelemetryOld, vars
<1> QED
  BY <1>1, <1>2, FeedInvariant, PTL DEF Spec, WorkerInv, OfflineIsSilent

-----------------------------------------------------------------------------
\* The packet behind an open reboot incident is remembered: as a reading that is stored,
\* or as a heartbeat whose number the session has reached.
IncidentInv ==
    /\ "reboot" \in alarms => raisedBy \in Packet /\ raisedBy.boot = observed
    /\ raisedBy \in Packet =>
          IF raisedBy.kind = "telemetry" THEN raisedBy \in stored
          ELSE raisedBy.seq <= sessions[raisedBy.boot].heartbeat

\* A packet that is observed is not the one that raised the incident.
LEMMA NotTheSame ==
  ASSUME TypeOK, IncidentInv, NEW p \in Packet, Heartbeat(p) \/ TelemetryCurrent(p)
  PROVE  p # raisedBy
<1> SUFFICES ASSUME p = raisedBy PROVE FALSE
  OBVIOUS
<1>1. CASE Heartbeat(p)
  BY <1>1 DEF Heartbeat, IncidentInv, StaleHeartbeat, Packet, TypeOK, Session
<1>2. CASE TelemetryCurrent(p)
  BY <1>2 DEF TelemetryCurrent, IncidentInv
<1> QED
  BY <1>1, <1>2

\* Observing a packet keeps what is known of the packet behind the incident.
LEMMA ObserveRemembers ==
  ASSUME TypeOK, IncidentInv, NEW p \in Packet, Heartbeat(p) \/ TelemetryCurrent(p)
  PROVE  IncidentInv'
<1>1. Observe(p)
  BY DEF Heartbeat, TelemetryCurrent
<1>2. observed' = p.boot /\ sessions' = [sessions EXCEPT ![p.boot] = Remembered(p)]
  BY <1>1 DEF Observe
<1>3. p.boot \in Boot /\ sessions \in [Boot -> Session]
  BY DEF Packet, TypeOK
<1>4. sessions'[p.boot] = Remembered(p) /\ \A b \in Boot : b # p.boot => sessions'[b] = sessions[b]
  BY <1>2, <1>3
<1>5. CASE observed \notin {p.boot, Nobody}
  <2>1. raisedBy' = p
    BY <1>1, <1>5 DEF Observe
  <2>2. CASE Heartbeat(p)
    BY <1>2, <1>4, <2>1, <2>2 DEF IncidentInv, Heartbeat, Remembered, Packet
  <2>3. CASE TelemetryCurrent(p)
    BY <1>2, <2>1, <2>3 DEF IncidentInv, TelemetryCurrent
  <2> QED
    BY <2>2, <2>3
<1>6. CASE observed \in {p.boot, Nobody}
  <2>1. raisedBy' = raisedBy /\ alarms' \subseteq alarms
    BY <1>1, <1>6 DEF Observe
  <2>2. "reboot" \in alarms' => raisedBy' \in Packet /\ raisedBy'.boot = observed'
    <3>1. Nobody \notin Boot
      BY FeedAssumption DEF Nobody, Boot
    <3>2. raisedBy \in Packet => raisedBy.boot \in Boot
      BY DEF Packet
    <3> QED
      BY <1>2, <1>6, <2>1, <3>1, <3>2 DEF IncidentInv
  <2>3. stored \subseteq stored'
    BY DEF Heartbeat, TelemetryCurrent
  <2>4. ASSUME raisedBy \in Packet, raisedBy.kind # "telemetry"
        PROVE  raisedBy.seq <= sessions'[raisedBy.boot].heartbeat
    <3>1. raisedBy.boot \in Boot /\ raisedBy.seq \in Int /\ raisedBy.seq <= sessions[raisedBy.boot].heartbeat
      BY <2>4 DEF IncidentInv, Packet
    <3>2. CASE raisedBy.boot # p.boot
      BY <1>4, <3>1, <3>2
    <3>3. CASE raisedBy.boot = p.boot /\ p.kind # "heartbeat"
      BY <1>4, <3>1, <3>3 DEF Remembered
    <3>4. CASE raisedBy.boot = p.boot /\ p.kind = "heartbeat"
      <4>1. ~StaleHeartbeat(p)
        BY <3>4 DEF Heartbeat, TelemetryCurrent
      <4>2. p.seq \in Int /\ sessions[p.boot].heartbeat \in Int
        BY <1>3 DEF Packet, Session
      <4>3. sessions'[p.boot].heartbeat = p.seq
        BY <1>4, <3>4 DEF Remembered
      <4> QED
        BY <3>1, <3>4, <4>1, <4>2, <4>3 DEF StaleHeartbeat
    <3> QED
      BY <3>2, <3>3, <3>4
  <2> QED
    BY <2>1, <2>2, <2>3, <2>4 DEF IncidentInv
<1> QED
  BY <1>5, <1>6

THEOREM IncidentInvariant == Spec => []IncidentInv
<1>1. Init => IncidentInv
  BY DEF Init, IncidentInv, Packet, NoPacket
<1>2. FeedInv /\ IncidentInv /\ [Next]_vars => IncidentInv'
  <2> SUFFICES ASSUME TypeOK, IncidentInv, [Next]_vars PROVE IncidentInv'
    BY DEF FeedInv
  <2>1. ASSUME NEW p \in Packet, TelemetryLate(p) \/ TelemetryOld(p) PROVE IncidentInv'
    BY <2>1 DEF TelemetryLate, TelemetryOld, IncidentInv
  <2>2. CASE CheckOffline
    BY <2>2 DEF CheckOffline, IncidentInv
  <2>3. ASSUME UNCHANGED <<stored, observed, sessions, alarms, raisedBy>> PROVE IncidentInv'
    BY <2>3 DEF IncidentInv
  <2> QED
    BY <2>1, <2>2, <2>3, ObserveRemembers DEF Next, Publish, Restart, HeartbeatIgnored,
       TelemetryRepeated, Scan, Tick, vars
<1> QED
  BY <1>1, <1>2, FeedInvariant, PTL DEF Spec

\* The reboot incident ends with another packet of that boot, not with the one that
\* raised it delivered again.
THEOREM ConfirmedByAnother == Spec => RebootIsConfirmed
<1> DEFINE Ends == "reboot" \in alarms /\ "reboot" \notin alarms'
           Confirmed == sessions'[observed].last # raisedBy /\ raisedBy.boot = observed
<1>1. FeedInv /\ IncidentInv /\ [Next]_vars => [Ends => Confirmed]_vars
  <2> SUFFICES ASSUME TypeOK, IncidentInv, Next, Ends PROVE Confirmed
    BY DEF FeedInv
  <2>1. PICK p \in Packet : Heartbeat(p) \/ TelemetryCurrent(p)
    BY DEF Next, Publish, Restart, HeartbeatIgnored, TelemetryRepeated, TelemetryLate,
       TelemetryOld, Scan, CheckOffline, Tick, vars
  <2>2. Observe(p)
    BY <2>1 DEF Heartbeat, TelemetryCurrent
  <2>3. observed = p.boot
    BY <2>2 DEF Observe
  <2>4. sessions'[p.boot].last = p
    BY <2>2 DEF Observe, Remembered, TypeOK, Packet
  <2> QED
    BY <2>1, <2>3, <2>4, NotTheSame DEF IncidentInv
<1> QED
  BY <1>1, FeedInvariant, IncidentInvariant, PTL DEF Spec, RebootIsConfirmed

-----------------------------------------------------------------------------
\* One event for each boot that was heard of, but the first.
Heard == {b \in Boot : sessions[b].seen}
CountInv == IF observed = Nobody THEN reboots = 0 ELSE reboots = Cardinality(Heard) - 1

\* A packet that is observed counts a boot exactly when it is new.
LEMMA ObserveCounts ==
  ASSUME FeedInv, CountInv, NEW p \in Packet, Heartbeat(p) \/ TelemetryCurrent(p)
  PROVE  CountInv'
<1>1. Observe(p) /\ ~Reappears(p)
  BY DEF Heartbeat, TelemetryCurrent
<1>2. p.boot \in Boot /\ p.boot # Nobody /\ observed' = p.boot
  BY <1>1, FeedAssumption DEF Observe, Packet, Boot, Nobody
<1>3. Heard' = Heard \cup {p.boot}
  <2>1. sessions' = [sessions EXCEPT ![p.boot] = Remembered(p)] /\ sessions \in [Boot -> Session]
    BY <1>1 DEF Observe, FeedInv, TypeOK
  <2> QED
    BY <1>2, <2>1 DEF Heard, Remembered
<1>4. IsFiniteSet(Heard)
  <2>1. IsFiniteSet(1 .. Boots)
    BY FeedAssumption, FS_Interval
  <2>2. Heard \in SUBSET (1 .. Boots)
    BY DEF Heard, Boot
  <2> QED
    BY <2>1, <2>2, FS_Subset
<1>5. CASE observed = Nobody
  <2>1. Heard = {}
    BY <1>5 DEF FeedInv, ObservedIsLatest, Heard
  <2>2. Cardinality(Heard') = 1
    BY <1>3, <2>1, FS_Singleton
  <2> QED
    BY <1>1, <1>2, <1>5, <2>2 DEF CountInv, Observe
<1>6. CASE observed = p.boot
  <2>1. p.boot \in Heard
    BY <1>2, <1>6 DEF FeedInv, ObservedIsLatest, Heard
  <2>2. Heard' = Heard
    BY <1>3, <2>1
  <2> QED
    BY <1>1, <1>2, <1>6, <2>2 DEF CountInv, Observe
<1>7. CASE observed \notin {p.boot, Nobody}
  <2>1. p.boot \notin Heard
    BY <1>1, <1>7 DEF Reappears, Heard
  <2>2. Cardinality(Heard') = Cardinality(Heard) + 1
    BY <1>3, <1>4, <2>1, FS_AddElement
  <2>3. Cardinality(Heard) \in Nat
    BY <1>4, FS_CardinalityType
  <2> QED
    BY <1>1, <1>2, <1>7, <2>2, <2>3 DEF CountInv, Observe
<1> QED
  BY <1>5, <1>6, <1>7

\* Every boot after the first that was heard of is reported as a reboot once.
THEOREM RebootsAreCounted == Spec => []OneRebootPerBoot
<1>1. Init => CountInv
  BY DEF Init, CountInv
<1>2. FeedInv /\ CountInv /\ [Next]_vars => CountInv'
  <2> SUFFICES ASSUME FeedInv, CountInv, [Next]_vars PROVE CountInv'
    OBVIOUS
  <2>1. ASSUME UNCHANGED <<observed, sessions, reboots>> PROVE CountInv'
    BY <2>1 DEF CountInv, Heard
  <2> QED
    BY <2>1, ObserveCounts DEF Next, Publish, Restart, HeartbeatIgnored, TelemetryRepeated,
       TelemetryLate, TelemetryOld, Scan, CheckOffline, Tick, vars
<1>3. CountInv => OneRebootPerBoot
  BY DEF CountInv, Heard, OneRebootPerBoot
<1> QED
  BY <1>1, <1>2, <1>3, FeedInvariant, PTL DEF Spec

=============================================================================
