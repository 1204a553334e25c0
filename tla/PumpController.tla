--------------------------- MODULE PumpController ---------------------------
(***************************************************************************)
(* The control core of the field controller (firmware/kerumo_v3/src/        *)
(* core.cpp, class Controller) with the flash journal it keeps and the     *)
(* drive it commands.  One task calls begin, receive, tick, sample, arm and*)
(* disarm, so handlers never overlap; but power may fail inside any of them*)
(* and the drive, the link and the clock change while one is running.  So  *)
(* receive and tick are cut where they write flash or the drive, and `at'   *)
(* says which part comes next; a crash may fall between two parts.         *)
(*                                                                         *)
(* Every Modbus read may fail, every write may be lost whatever its echo    *)
(* says, and every check of the clock, of the configuration or of a TTL may *)
(* come out either way.  A read that succeeds tells the truth, and the     *)
(* drive reports that it runs as soon as it has taken a RUN.               *)
(*                                                                         *)
(* Left out: the two settings commands, the change of equipment binding,    *)
(* error codes and diagnostics.  MODULE constants name the bounds.         *)
(***************************************************************************)
EXTENDS Integers, FiniteSets

CONSTANTS
    N,             \* commands 1..N, named by their control_sequence
    Type,          \* [1..N -> Types]
    StepsOf,       \* [1..N -> Nat]: steps of a program
    LedgerSize,    \* records the journal remembers
    LoadsFail,     \* whether the journal may turn out unreadable
    MaxRefusals,   \* bound of the model on refusals
    MaxFaults,     \* bound of the model on failed saves
    MaxCrashes     \* bound of the model on power failures

Commands == 1..N
Types == {"start", "stop", "frequency", "program"}
Slots == 0..(LedgerSize - 1)
NoSlot == -1

\* Two records may be active (a program and the Stop that ends it); the slot search
\* of receive needs a third.
ASSUME CoreAssumption ==
    /\ N \in Nat /\ LedgerSize \in Nat /\ LedgerSize > 2
    /\ Type \in [Commands -> Types]
    /\ StepsOf \in [Commands -> Nat \ {0}]
    /\ LoadsFail \in BOOLEAN
    /\ MaxRefusals \in Nat /\ MaxFaults \in Nat /\ MaxCrashes \in Nat

VARIABLES
    at,            \* the part of a handler that comes next; "loop" between handlers
    cur,           \* the command or the slot receive is working on
    core,          \* the RAM of the Controller
    nvs,           \* the journal in flash
    told,          \* [Commands -> outcomes of its record that were emitted]
    motor,         \* what the drive does
    runs,          \* [Commands -> RUN words written for the command]
    issued,        \* commands 1..issued exist: they may arrive at any time, repeatedly
    refused,       \* <<command, why>> of the failures emitted that no record keeps
    faults,        \* failed saves so far
    crashes        \* power failures so far

env == <<issued, refused, faults, crashes>>
vars == <<at, cur, core, nvs, told, motor, runs, env>>

Outcomes == {"pending", "succeeded", "failed", "unknown"}
Refusals == {"untimely", "stale"}
Phases == {"idle", "setting", "starting", "holding", "stopping"}
Places == {"off", "loop", "displaced", "accepted", "prepared",
           "stop", "cleared", "verify", "verified", "program", "guard"}

EmptyRecord == [cmd |-> 0, outcome |-> "empty", steps |-> 0]
Records == [cmd : Commands, outcome : Outcomes, steps : Nat] \cup {EmptyRecord}

EmptyJournal == [highest |-> 0, next |-> 0, motionPossible |-> FALSE,
                 records |-> [s \in Slots |-> EmptyRecord]]
Journals == [highest : Nat, next : Slots, motionPossible : BOOLEAN, records : [Slots -> Records]]

\* A Controller as constructed: journalWritable_ and storageOk_ are false.
NewCore == [journal |-> EmptyJournal, writable |-> FALSE, storageOk |-> FALSE,
            armed |-> FALSE, mode |-> "bench", stopping |-> FALSE, inhibited |-> FALSE,
            linked |-> FALSE, permission |-> 0, pending |-> NoSlot, program |-> NoSlot,
            phase |-> "idle", cause |-> "none"]

Cores == [journal : Journals, writable : BOOLEAN, storageOk : BOOLEAN,
          armed : BOOLEAN, mode : {"bench", "extended"}, stopping : BOOLEAN,
          inhibited : BOOLEAN, linked : BOOLEAN, permission : Nat,
          pending : Slots \cup {NoSlot}, program : Slots \cup {NoSlot},
          phase : Phases, cause : {"none", "completed", "cut"}]

TypeOK ==
    /\ at \in Places
    /\ cur \in Nat
    /\ core \in Cores
    /\ nvs \in Journals
    /\ told \in [Commands -> SUBSET Outcomes]
    /\ motor \in {"stopped", "forward", "slowing"}
    /\ runs \in [Commands -> Nat]
    /\ issued \in 0..N
    /\ refused \subseteq Commands \X Refusals
    /\ faults \in 0..MaxFaults
    /\ crashes \in 0..MaxCrashes

Init ==
    /\ at = "off"
    /\ cur = 0
    /\ core = NewCore
    /\ nvs = EmptyJournal
    /\ told = [c \in Commands |-> {}]
    /\ motor = "stopped"
    /\ runs = [c \in Commands |-> 0]
    /\ issued = 0 /\ refused = {} /\ faults = 0 /\ crashes = 0

-----------------------------------------------------------------------------
(* Stopping.  `cause' is programReason_ and programError_: how the program   *)
(* came to its end, and only a program that came to it by itself succeeds.  *)

KeepsPermission(c, reason) == reason \in {"command", "completed"} /\ c.mode = "extended"

RequestStop(c, reason) ==
    LET ended == IF reason = "completed" /\ c.cause # "cut" THEN "completed" ELSE "cut" IN
    [c EXCEPT !.phase = IF c.program # NoSlot THEN "stopping" ELSE @,
              !.cause = IF c.program # NoSlot THEN ended ELSE @,
              !.armed = @ /\ KeepsPermission(c, reason),
              !.mode = IF KeepsPermission(c, reason) THEN @ ELSE "bench",
              !.stopping = TRUE]

Disarm(c, reason) ==
    LET d == [c EXCEPT !.inhibited = @ \/ reason = "local_disarm",
                       !.armed = FALSE, !.mode = "bench"] IN
    IF d.journal.motionPossible THEN RequestStop(d, reason) ELSE d

\* save(): one NVS blob.  What reaches flash is SavedTo, what it does to RAM Saved.
Saved(c, ok) ==
    IF ok /\ c.writable
    THEN [c EXCEPT !.storageOk = TRUE]
    ELSE Disarm([c EXCEPT !.storageOk = FALSE], "storage_failed")

SavedTo(c, ok) == IF ok /\ c.writable THEN c.journal ELSE nvs

WithOutcome(c, slot, outcome) == [c EXCEPT !.journal.records[slot].outcome = outcome]

\* finish(): the outcome is emitted only after it is durable.
Finish(c, slot, outcome, ok) ==
    LET s == Saved(WithOutcome(c, slot, outcome), ok) IN
    [s EXCEPT !.pending = IF @ = slot THEN NoSlot ELSE @]

\* Mutant: the answer leaves even if it could not be saved.
TellsAnyway(c, slot, outcome, ok) ==
    /\ nvs' = SavedTo(WithOutcome(c, slot, outcome), ok)
    /\ told' = [told EXCEPT ![c.journal.records[slot].cmd] = @ \cup {outcome}]

\* The flash and the emitted outcomes after Finish.
FinishEffects(c, slot, outcome, ok) ==
    /\ nvs' = SavedTo(WithOutcome(c, slot, outcome), ok)
    /\ told' = IF ok /\ c.writable
               THEN [told EXCEPT ![c.journal.records[slot].cmd] = @ \cup {outcome}]
               ELSE told

\* A save may fail, within the bound.
Saving(ok) ==
    /\ faults' = IF ok THEN faults ELSE faults + 1
    /\ UNCHANGED <<issued, refused, crashes>>
Verdicts == IF faults < MaxFaults THEN BOOLEAN ELSE {TRUE}

RecordOf(c, slot) == c.journal.records[slot]
TypeOf(c, slot) == Type[RecordOf(c, slot).cmd]
Active(c) == {c.pending, c.program}
Busy(c) == c.journal.motionPossible \/ c.stopping \/ Active(c) # {NoSlot}

-----------------------------------------------------------------------------
(* begin(): at power on, and again when the installer confirms the equipment.*)

RestoredPhase == "stopping"

PendingPrograms(j) ==
    {s \in Slots : j.records[s].outcome = "pending" /\ Type[j.records[s].cmd] = "program"}

\* Mutant: a boot clears the run latch.
IntentDropped(j) ==
    [j EXCEPT !.records = [s \in Slots |->
                  IF j.records[s].outcome = "pending" /\ s \notin PendingPrograms(j)
                  THEN [j.records[s] EXCEPT !.outcome = "unknown"]
                  ELSE j.records[s]],
              !.motionPossible = FALSE]

\* Mutant: the highest number is counted from boot.
NumberForgotten(j) ==
    [j EXCEPT !.records = [s \in Slots |->
                  IF j.records[s].outcome = "pending" /\ s \notin PendingPrograms(j)
                  THEN [j.records[s] EXCEPT !.outcome = "unknown"]
                  ELSE j.records[s]],
              !.highest = 0,
              !.motionPossible = @ \/ PendingPrograms(j) # {}]

\* A command that was pending when the power failed has an unknown fate.  A
\* pending program is kept until its STOP is confirmed.
Interrupted(j) ==
    [j EXCEPT !.records = [s \in Slots |->
                  IF j.records[s].outcome = "pending" /\ s \notin PendingPrograms(j)
                  THEN [j.records[s] EXCEPT !.outcome = "unknown"]
                  ELSE j.records[s]],
              !.motionPossible = @ \/ PendingPrograms(j) # {}]

\* The core that has read journal j, before it saves it back.
Recovered(c, j) ==
    LET p == IF PendingPrograms(j) = {} THEN NoSlot
             ELSE CHOOSE s \in PendingPrograms(j) : TRUE IN
    [c EXCEPT !.journal = Interrupted(j), !.writable = TRUE,
              !.pending = NoSlot, !.program = p,
              !.phase = IF p = NoSlot THEN "idle" ELSE RestoredPhase,
              !.cause = IF p = NoSlot THEN "none" ELSE "cut"]

\* Mutant: recovery waits for an operator.
NoRecoveryStop(j) == FALSE
RecoveryStop(j) == j.motionPossible

Begin(c) ==
    LET locked == [Disarm(c, "storage_failed") EXCEPT !.storageOk = FALSE, !.writable = FALSE]
        blank == [locked EXCEPT !.journal = EmptyJournal, !.pending = NoSlot,
                                !.program = NoSlot, !.phase = "idle", !.cause = "none"]
    IN  IF Busy(c)
        THEN /\ core' = IF c.pending # NoSlot
                        THEN Finish(locked, c.pending, "unknown", FALSE) ELSE locked
             /\ UNCHANGED <<nvs, env>>
        ELSE \/ \* The journal cannot be read, or holds two pending programs.
                /\ LoadsFail \/ Cardinality(PendingPrograms(nvs)) > 1
                /\ core' = blank
                /\ UNCHANGED <<nvs, env>>
             \/ /\ Cardinality(PendingPrograms(nvs)) <= 1
                /\ \E ok \in Verdicts :
                     LET r == Recovered(blank, nvs) IN
                     /\ core' = IF ok
                                THEN [Saved(r, ok) EXCEPT !.stopping = RecoveryStop(r.journal)]
                                ELSE [Saved(r, ok) EXCEPT !.writable = FALSE]
                     /\ nvs' = SavedTo(r, ok)
                     /\ Saving(ok)

PowerOn ==
    /\ at = "off"
    /\ Begin(NewCore)
    /\ at' = "loop" /\ cur' = 0
    /\ UNCHANGED <<told, motor, runs>>

\* restoreRemotePermission(): the installer, at the machine, sees it stopped.
Restorable(c) == c.storageOk /\ ~Busy(c) /\ motor = "stopped"

\* Local action 5: equipment confirmed, journal read again.  The next loop may
\* then restore the permission (RestorePermission).
ConfirmEquipment ==
    /\ at = "loop" /\ ~core.armed /\ motor = "stopped"
    /\ Begin(core)
    /\ UNCHANGED <<at, cur, told, motor, runs>>

RestorePermission ==
    /\ at = "loop" /\ Restorable(core) /\ core.inhibited
    /\ core' = [core EXCEPT !.inhibited = FALSE]
    /\ UNCHANGED <<at, cur, nvs, told, motor, runs, env>>

\* Power fails: RAM is lost, the drive goes on.
Crash ==
    /\ at # "off" /\ crashes < MaxCrashes
    /\ at' = "off" /\ cur' = 0
    /\ core' = NewCore
    /\ crashes' = crashes + 1
    /\ UNCHANGED <<nvs, told, motor, runs, issued, refused, faults>>

-----------------------------------------------------------------------------
(* receive().  The network may lose, repeat, delay and reorder commands, and *)
(* the Stop queue overtakes the other one: any issued command may come next. *)

Issue ==
    /\ issued < N
    /\ issued' = issued + 1
    /\ UNCHANGED <<at, cur, core, nvs, told, motor, runs, refused, faults, crashes>>

Known(c, cmd) == \E s \in Slots : c.journal.records[s].cmd = cmd

\* Mutant: the ledger alone tells a repeat from a new command.
TakesAny(cmd) == TRUE

\* A command is new if its number is above every number accepted before.
Fresh(cmd) == cmd > core.journal.highest

\* A command of the ledger gets its saved answer again.
ReceiveKnown(cmd) ==
    /\ at = "loop" /\ core.storageOk /\ cmd <= issued
    /\ \E s \in Slots :
        /\ RecordOf(core, s).cmd = cmd
        /\ told' = [told EXCEPT ![cmd] = @ \cup {RecordOf(core, s).outcome}]
    /\ UNCHANGED <<at, cur, core, nvs, motor, runs, env>>

\* A command the ledger does not know is refused when there is no clock, its TTL is
\* over or it seems to come from the future, and else when its number is not new.  The
\* failure is emitted and no record keeps it: the next copy is judged afresh.
ReceiveRefused(cmd) ==
    /\ at = "loop" /\ core.storageOk /\ cmd <= issued
    /\ ~Known(core, cmd)
    /\ Cardinality(refused) < MaxRefusals
    /\ \E why \in Refusals :
        /\ why = "stale" => ~Fresh(cmd)
        /\ refused' = refused \cup {<<cmd, why>>}
    /\ UNCHANGED <<at, cur, core, nvs, told, motor, runs, issued, faults, crashes>>

\* Where the record goes: the next slot that is not active.
Slot(c) ==
    CHOOSE s \in Slots : \E k \in 0..(LedgerSize - 1) :
        /\ s = (c.journal.next + k) % LedgerSize
        /\ s \notin Active(c)
        /\ \A i \in 0..(k - 1) : (c.journal.next + i) % LedgerSize \in Active(c)

Permitted(c, cmd) == Type[cmd] = "stop" \/ (c.armed /\ cmd > c.permission)

Free(c, cmd) == c.pending = NoSlot /\ (c.program = NoSlot \/ Type[cmd] = "stop")

AcceptedOutcome(c, cmd) == IF Free(c, cmd) /\ Permitted(c, cmd) THEN "pending" ELSE "failed"

WithRecord(c, cmd) ==
    [c EXCEPT !.journal.next = (Slot(c) + 1) % LedgerSize,
              !.journal.highest = cmd,
              !.journal.records[Slot(c)] =
                  [cmd |-> cmd, outcome |-> AcceptedOutcome(c, cmd), steps |-> 0]]

\* The record is saved, then the answer leaves.
Accept(cmd) ==
    \E ok \in Verdicts :
        LET r == WithRecord(core, cmd)
            s == Saved(r, ok) IN
        /\ core' = s
        /\ nvs' = SavedTo(r, ok)
        /\ told' = IF s.storageOk
                   THEN [told EXCEPT ![cmd] = @ \cup {AcceptedOutcome(core, cmd)}] ELSE told
        /\ IF s.storageOk /\ AcceptedOutcome(core, cmd) = "pending"
           THEN at' = "accepted" /\ cur' = Slot(core)
           ELSE at' = "loop" /\ cur' = 0
        /\ Saving(ok)

Displaces(cmd) == core.pending # NoSlot /\ Type[cmd] = "stop"

ReceiveNew(cmd) ==
    /\ at = "loop" /\ core.storageOk /\ cmd <= issued
    /\ ~Known(core, cmd) /\ Fresh(cmd)
    /\ ~Displaces(cmd)
    /\ Accept(cmd)
    /\ UNCHANGED <<motor, runs>>

\* A Stop does not wait for a command that is being verified: that one becomes
\* unknown first.
ReceiveDisplacing(cmd) ==
    /\ at = "loop" /\ core.storageOk /\ cmd <= issued
    /\ ~Known(core, cmd) /\ Fresh(cmd)
    /\ Displaces(cmd)
    /\ \E ok \in Verdicts :
        /\ core' = Finish(core, core.pending, "unknown", ok)
        /\ FinishEffects(core, core.pending, "unknown", ok)
        /\ IF ok THEN at' = "displaced" /\ cur' = cmd ELSE at' = "loop" /\ cur' = 0
        /\ Saving(ok)
    /\ UNCHANGED <<motor, runs>>

AcceptDisplacing ==
    /\ at = "displaced"
    /\ Accept(cur)
    /\ UNCHANGED <<motor, runs>>

\* The checks between the acceptance and the drive: configuration, TTL, fault,
\* frequency limits, schedule, state of the drive.  Some revoke the permission.
ExamineFails ==
    /\ at = "accepted"
    /\ \E ok \in Verdicts, revokes \in BOOLEAN :
        LET f == Finish(core, cur, "failed", ok) IN
        /\ core' = IF revokes THEN Disarm(f, "configuration_mismatch") ELSE f
        /\ FinishEffects(core, cur, "failed", ok)
        /\ Saving(ok)
    /\ at' = "loop" /\ cur' = 0
    /\ UNCHANGED <<motor, runs>>

\* The state word of a Start is read, not the output frequency.
Startable(c) == ~c.journal.motionPossible /\ motor # "forward"

ProgramStartable(c) ==
    /\ c.mode = "extended"
    /\ ~c.journal.motionPossible /\ ~c.stopping /\ motor = "stopped"

\* Mutant: only the acceptance is in flash when the drive is written.
IntendedInRam(c, slot) ==
    CASE TypeOf(c, slot) = "program" ->
            [c EXCEPT !.program = slot, !.phase = "idle", !.cause = "none"]
      [] OTHER -> c

\* What the command is about to do, before it is saved.
Intended(c, slot) ==
    CASE TypeOf(c, slot) = "frequency" -> c
      [] TypeOf(c, slot) = "start" -> [c EXCEPT !.journal.motionPossible = TRUE]
      [] TypeOf(c, slot) = "stop" ->
            RequestStop([c EXCEPT !.journal.motionPossible = TRUE], "command")
      [] TypeOf(c, slot) = "program" ->
            [c EXCEPT !.journal.motionPossible = TRUE, !.program = slot,
                      !.phase = "idle", !.cause = "none"]

\* Possible motion is durable BEFORE the drive is written.
ExaminePasses ==
    /\ at = "accepted"
    /\ TypeOf(core, cur) = "start" => Startable(core)
    /\ TypeOf(core, cur) = "program" => ProgramStartable(core)
    /\ \E ok \in Verdicts :
        LET i == Intended(core, cur) IN
        /\ core' = Saved(i, ok)
        /\ nvs' = SavedTo(i, ok)
        /\ IF core'.storageOk THEN at' = "prepared" /\ cur' = cur ELSE at' = "loop" /\ cur' = 0
        /\ Saving(ok)
    /\ UNCHANGED <<told, motor, runs>>

\* A RUN or a STOP word may be lost on the bus.
WriteRun(cmd) ==
    /\ runs' = [runs EXCEPT ![cmd] = @ + 1]
    /\ motor' \in {motor, "forward"}
WriteStop ==
    motor' \in {motor, IF motor = "forward" THEN "slowing" ELSE motor}

\* beginProgramStep(): the frequency of the step, if everything is still in order.
StepBegun(c, fit, linkValid) ==
    IF ~fit THEN RequestStop(c, "configuration_mismatch")
    ELSE LET b == [c EXCEPT !.phase = "setting"] IN
         IF linkValid THEN b ELSE Disarm(b, "network_lost")

ActuateProgram ==
    /\ at = "prepared" /\ TypeOf(core, cur) = "program"
    /\ \E fit, linkValid \in BOOLEAN : core' = StepBegun(core, fit, linkValid)
    /\ at' = "loop" /\ cur' = 0
    /\ UNCHANGED <<nvs, told, motor, runs, env>>

\* The TTL passed, or the clock was lost, while flash was written.
ActuateLate ==
    /\ at = "prepared" /\ TypeOf(core, cur) # "program"
    /\ \E ok \in Verdicts :
        LET f == Finish(core, cur, "failed", ok) IN
        /\ core' = IF f.journal.motionPossible
                   THEN RequestStop(f, "physical_result_unconfirmed") ELSE f
        /\ FinishEffects(core, cur, "failed", ok)
        /\ Saving(ok)
    /\ at' = "loop" /\ cur' = 0
    /\ UNCHANGED <<motor, runs>>

\* The network lease ran out while flash was written.
ActuateUnlinked ==
    /\ at = "prepared" /\ TypeOf(core, cur) \in {"start", "frequency"}
    /\ \E ok \in Verdicts :
        LET d == Disarm(core, "network_lost") IN
        /\ core' = Finish(d, cur, "failed", ok)
        /\ FinishEffects(d, cur, "failed", ok)
        /\ Saving(ok)
    /\ at' = "loop" /\ cur' = 0
    /\ UNCHANGED <<motor, runs>>

Actuate ==
    /\ at = "prepared" /\ TypeOf(core, cur) # "program"
    /\ core' = [core EXCEPT !.pending = cur]
    /\ CASE TypeOf(core, cur) = "start" -> WriteRun(RecordOf(core, cur).cmd)
         [] TypeOf(core, cur) = "stop" -> WriteStop /\ UNCHANGED runs
         [] OTHER -> UNCHANGED <<motor, runs>>
    /\ at' = "loop" /\ cur' = 0
    /\ UNCHANGED <<nvs, told, env>>

-----------------------------------------------------------------------------
(* tick(), part by part.                                                    *)

\* Mutant: a lost network only revokes the permission.
NetworkLossDisarms(c) == [c EXCEPT !.armed = FALSE, !.mode = "bench"]

OnNetworkLoss(c) ==
    IF c.armed \/ c.journal.motionPossible THEN Disarm(c, "network_lost") ELSE c

\* The bench timer, 60 s after a Start.
OnTimer(c) ==
    IF c.journal.motionPossible /\ ~c.stopping /\ c.mode = "bench"
    THEN RequestStop(c, "bench_timer") ELSE c

TickNetwork ==
    /\ at = "loop"
    /\ \E networkConnected, minutePassed \in BOOLEAN :
        LET n == [core EXCEPT !.linked = networkConnected]
            l == IF networkConnected THEN n ELSE OnNetworkLoss(n) IN
        core' = IF minutePassed THEN OnTimer(l) ELSE l
    /\ at' = "stop"
    /\ UNCHANGED <<cur, nvs, told, motor, runs, env>>

StopConfirmed(m) == m = "stopped"

Halted(c) == [c EXCEPT !.journal.motionPossible = FALSE, !.stopping = FALSE]

\* Another second passed: STOP is written again, and believed once it is read back.
TickStopRead ==
    /\ at = "stop" /\ core.stopping
    /\ WriteStop
    /\ StopConfirmed(motor')
    /\ \E ok \in Verdicts :
        /\ core' = Saved(Halted(core), ok)
        /\ nvs' = SavedTo(Halted(core), ok)
        /\ Saving(ok)
    /\ at' = IF core.program # NoSlot THEN "cleared" ELSE "verify"
    /\ UNCHANGED <<cur, told, runs>>

\* No second passed, the profile forbids recovery, or no STOP is read.
TickStopUnread ==
    /\ at = "stop"
    /\ \/ UNCHANGED motor
       \/ core.stopping /\ WriteStop
    /\ at' = "verify"
    /\ UNCHANGED <<cur, core, nvs, told, runs, env>>

\* Mutant: any confirmed STOP ends a program well.
SucceedsOnceStopped(c, stopConfirmed) == stopConfirmed

Succeeds(c, stopConfirmed) == stopConfirmed /\ c.cause = "completed"

ProgramOutcome(c, stopConfirmed) ==
    CASE ~stopConfirmed -> "unknown"
      [] Succeeds(c, stopConfirmed) -> "succeeded"
      [] OTHER -> "failed"

\* completeProgram()
CompleteProgram(stopConfirmed) ==
    \E ok \in Verdicts :
        LET p == [core EXCEPT !.program = NoSlot, !.phase = "idle", !.cause = "none"]
            d == IF stopConfirmed THEN p ELSE Disarm(p, "physical_result_unconfirmed")
            outcome == ProgramOutcome(core, stopConfirmed) IN
        /\ core' = Finish(d, core.program, outcome, ok)
        /\ FinishEffects(d, core.program, outcome, ok)
        /\ Saving(ok)

TickCompleteProgram ==
    /\ at \in {"cleared", "verified"}
    /\ CompleteProgram(TRUE)
    /\ at' = IF at = "cleared" THEN "verify" ELSE "program"
    /\ UNCHANGED <<cur, motor, runs>>

Verified(type) ==
    CASE type = "start" -> motor = "forward" /\ ~core.stopping
      [] type = "stop" -> motor = "stopped"
      [] OTHER -> TRUE

TickVerified ==
    /\ at = "verify" /\ core.pending # NoSlot /\ core.storageOk
    /\ LET type == TypeOf(core, core.pending)
           h == IF type = "stop" THEN Halted(core) ELSE core IN
       /\ Verified(type)
       /\ \E ok \in Verdicts :
            /\ core' = Finish(h, core.pending, "succeeded", ok)
            /\ FinishEffects(h, core.pending, "succeeded", ok)
            /\ Saving(ok)
       /\ at' = IF type = "stop" /\ core.program # NoSlot THEN "verified" ELSE "program"
    /\ UNCHANGED <<cur, motor, runs>>

\* Ten seconds passed without a confirmation.
TickVerifyTimedOut ==
    /\ at = "verify" /\ core.pending # NoSlot /\ core.storageOk
    /\ \E ok \in Verdicts :
        /\ core' = RequestStop(Finish(core, core.pending, "unknown", ok),
                               "physical_result_unconfirmed")
        /\ FinishEffects(core, core.pending, "unknown", ok)
        /\ Saving(ok)
    /\ at' = "program"
    /\ UNCHANGED <<cur, motor, runs>>

TickVerifyNothing ==
    /\ at = "verify"
    /\ at' = "program"
    /\ UNCHANGED <<cur, core, nvs, told, motor, runs, env>>

-----------------------------------------------------------------------------
(* tickProgram()                                                            *)

InPhase(phases) == at = "program" /\ core.program # NoSlot /\ core.phase \in phases

StepsDone == RecordOf(core, core.program).steps

\* A minute in the stopping phase without a confirmed STOP.
ProgramUnstopped ==
    /\ InPhase({"stopping"})
    /\ CompleteProgram(FALSE)
    /\ at' = "guard"
    /\ UNCHANGED <<cur, motor, runs>>

\* A fault, a failed read, a wrong state or frequency, a transition of over a minute.
ProgramTrouble ==
    /\ InPhase({"setting", "starting", "holding"})
    /\ core' = RequestStop(core, "physical_result_unconfirmed")
    /\ at' = "guard"
    /\ UNCHANGED <<cur, nvs, told, motor, runs, env>>

\* The one RUN of a program, once the drive has taken the first frequency.
ProgramStart ==
    /\ InPhase({"setting"}) /\ StepsDone = 0
    /\ motor = "stopped"
    /\ core' = [core EXCEPT !.phase = "starting"]
    /\ WriteRun(RecordOf(core, core.program).cmd)
    /\ at' = "guard"
    /\ UNCHANGED <<cur, nvs, told, env>>

ProgramUnlinked ==
    /\ InPhase({"setting"}) /\ StepsDone = 0
    /\ motor = "stopped"
    /\ core' = Disarm(core, "network_lost")
    /\ at' = "guard"
    /\ UNCHANGED <<cur, nvs, told, motor, runs, env>>

ProgramHolds ==
    /\ \/ InPhase({"starting"})
       \/ InPhase({"setting"}) /\ StepsDone > 0
    /\ motor = "forward"
    /\ core' = [core EXCEPT !.phase = "holding"]
    /\ at' = "guard"
    /\ UNCHANGED <<cur, nvs, told, motor, runs, env>>

ProgramStepEnds ==
    /\ InPhase({"holding"})
    /\ \E ok \in Verdicts, fit, linkValid \in BOOLEAN :
        LET n == [core EXCEPT !.journal.records[core.program].steps = @ + 1]
            s == Saved(n, ok)
            last == StepsDone + 1 = StepsOf[RecordOf(core, core.program).cmd] IN
        /\ core' = IF ~s.storageOk THEN s
                   ELSE IF last THEN RequestStop(s, "completed")
                   ELSE StepBegun(s, fit, linkValid)
        /\ nvs' = SavedTo(n, ok)
        /\ Saving(ok)
    /\ at' = "guard"
    /\ UNCHANGED <<cur, told, motor, runs>>

ProgramNothing ==
    /\ at = "program"
    /\ at' = "guard"
    /\ UNCHANGED <<cur, core, nvs, told, motor, runs, env>>

-----------------------------------------------------------------------------
(* The end of tick, and the other calls of the device task.                 *)

\* arm() after its first check; its failure disarms too.
Armed(c, mode, fit) ==
    IF fit THEN [c EXCEPT !.armed = TRUE, !.mode = mode, !.inhibited = FALSE, !.permission = 0]
    ELSE [c EXCEPT !.armed = FALSE, !.mode = "bench"]

RemotelyArmable(c) == c.linked /\ ~c.inhibited /\ ~c.armed /\ c.storageOk /\ ~Busy(c)

\* The configuration is read again; then a confirmed installation is armed for the
\* commands issued from now on.
TickGuard ==
    /\ at = "guard"
    /\ \E fit, remoteOperation \in BOOLEAN, mode \in {"bench", "extended"} :
        LET rechecked == (~core.journal.motionPossible \/ core.mode = "extended")
                            /\ core.pending = NoSlot
            d == IF rechecked /\ ~fit THEN Disarm(core, "configuration_mismatch") ELSE core IN
        core' = IF remoteOperation /\ RemotelyArmable(d) /\ motor = "stopped"
                THEN [Armed(d, mode, TRUE) EXCEPT !.permission = issued] ELSE d
    /\ at' = "loop"
    /\ UNCHANGED <<cur, nvs, told, motor, runs, env>>

\* sample(): a motor that may run must be seen, and without a fault.
SampleTrouble ==
    /\ at = "loop" /\ core.journal.motionPossible
    /\ core' = RequestStop(core, "vfd_link_lost")
    /\ UNCHANGED <<at, cur, nvs, told, motor, runs, env>>

\* replay(): what the response queue lost is sent again.
Replay ==
    /\ at = "loop" /\ core.storageOk
    /\ told' = [c \in Commands |-> told[c] \cup
                   {RecordOf(core, s).outcome : s \in {x \in Slots : RecordOf(core, x).cmd = c}}]
    /\ UNCHANGED <<at, cur, core, nvs, motor, runs, env>>

\* ARM SU600, ARM SU600 TEST on the serial port.
LocalArm ==
    /\ at = "loop" /\ ~Busy(core)
    /\ \E mode \in {"bench", "extended"}, fit \in BOOLEAN :
        core' = Armed(core, mode, fit /\ core.storageOk /\ motor = "stopped")
    /\ UNCHANGED <<at, cur, nvs, told, motor, runs, env>>

LocalDisarm ==
    /\ at = "loop"
    /\ core' = Disarm(core, "local_disarm")
    /\ UNCHANGED <<at, cur, nvs, told, motor, runs, env>>

\* The server changed its grant: only commands issued after it count.
GrantChanges ==
    /\ at = "loop"
    /\ \E utc \in BOOLEAN :
        core' = [Disarm(core, "configuration_mismatch")
                    EXCEPT !.permission = IF utc THEN issued ELSE @]
    /\ UNCHANGED <<at, cur, nvs, told, motor, runs, env>>

-----------------------------------------------------------------------------
(* The drive: it coasts down, and its own protections may stop it.           *)

MotorStops ==
    /\ motor = "slowing"
    /\ motor' = "stopped"
    /\ UNCHANGED <<at, cur, core, nvs, told, runs, env>>

DriveTrips ==
    /\ motor = "forward"
    /\ motor' = "slowing"
    /\ UNCHANGED <<at, cur, core, nvs, told, runs, env>>

Next ==
    \/ PowerOn \/ ConfirmEquipment \/ RestorePermission \/ Crash
    \/ Issue
    \/ \E cmd \in Commands :
        ReceiveKnown(cmd) \/ ReceiveRefused(cmd) \/ ReceiveNew(cmd) \/ ReceiveDisplacing(cmd)
    \/ AcceptDisplacing
    \/ ExamineFails \/ ExaminePasses
    \/ Actuate \/ ActuateLate \/ ActuateUnlinked \/ ActuateProgram
    \/ TickNetwork \/ TickStopRead \/ TickStopUnread \/ TickCompleteProgram
    \/ TickVerified \/ TickVerifyTimedOut \/ TickVerifyNothing
    \/ ProgramUnstopped \/ ProgramTrouble \/ ProgramStart \/ ProgramUnlinked
    \/ ProgramHolds \/ ProgramStepEnds \/ ProgramNothing
    \/ TickGuard
    \/ SampleTrouble \/ Replay \/ LocalArm \/ LocalDisarm \/ GrantChanges
    \/ MotorStops \/ DriveTrips

Spec == Init /\ [][Next]_vars

\* The device task comes round and a part of a handler never waits; the bus is not
\* dead for ever: a STOP that is written again and again gets through and is read
\* back; a drive that was stopped coasts down.
StopTakesEffect == TickStopUnread /\ motor' # "forward"

Fairness ==
    /\ WF_vars(PowerOn)
    /\ SF_vars(TickNetwork)
    /\ WF_vars(AcceptDisplacing)
    /\ WF_vars(ExamineFails \/ ExaminePasses)
    /\ WF_vars(Actuate \/ ActuateLate \/ ActuateUnlinked \/ ActuateProgram)
    /\ WF_vars(TickStopUnread) /\ SF_vars(StopTakesEffect) /\ SF_vars(TickStopRead)
    /\ WF_vars(TickCompleteProgram)
    /\ WF_vars(TickVerified \/ TickVerifyTimedOut \/ TickVerifyNothing)
    /\ WF_vars(ProgramNothing)
    /\ WF_vars(TickGuard)
    /\ WF_vars(MotorStops)

FairSpec == Spec /\ Fairness
-----------------------------------------------------------------------------
(* What the controller guarantees. *)

\* Flash says that the motor may move before it moves and until it was read to be
\* at rest: after any power failure the intent is known ("Persist possible physical
\* execution BEFORE the write").
MotionIsRecorded == motor # "stopped" => nvs.motionPossible

\* Whoever is powered while the motor turns knows it: a controller that has read its
\* journal never forgets a motor it started, whatever failed in between.
MotionIsKnown == at # "off" /\ motor # "stopped" => core.journal.motionPossible

\* A motor that may move is either under a live permission or being stopped: every
\* path that takes the permission away also asks for the STOP.
UnarmedIsStopping ==
    at = "loop" /\ core.journal.motionPossible /\ ~core.armed => core.stopping

\* A command runs the motor once, however often it is delivered, and whatever power
\* failure falls between its parts.
RunsOnce == \A c \in Commands : runs[c] <= 1

\* The answers of a record agree: no command is ever given two different final
\* outcomes by the ledger, not across a failed save, a power failure, an eviction or
\* a replay.  Refusals, which no record keeps, are apart.
OneSavedAnswer == \A c \in Commands : Cardinality(told[c] \ {"pending"}) <= 1

\* A command refused for its number is over: no later copy of it is accepted, whatever
\* power failed and whatever journal was read since, so it gets no other outcome and
\* runs nothing ("evicted commands are never executed again").
StaleIsFinal ==
    [][\A c \in Commands :
        <<c, "stale">> \in refused => told'[c] = told[c] /\ runs'[c] = runs[c]]_vars

\* Once a Stop is acknowledged, and unless it is reported as failed, no command with
\* a lower number writes a RUN: not one that arrives late, not a program that had
\* begun, not after a power failure.
StopOutranks ==
    [][\A c, s \in Commands :
        runs'[c] > runs[c] /\ Type[s] = "stop" /\ told[s] \cap {"pending", "failed"} = {"pending"}
            => s < c]_vars

\* A RUN, the first of a program included, is written under a permission that was
\* not taken away since and covers the command, with no STOP outstanding, and
\* recorded in flash.
RunIsPermitted ==
    [][\A c \in Commands : runs'[c] > runs[c] =>
        c > core.permission /\ core.armed /\ ~core.inhibited /\ ~core.stopping /\ nvs.motionPossible]_vars

\* A program succeeds only if every step was held and the motor is at rest.
SuccessIsWhole ==
    [][\A s \in Slots :
        LET old == RecordOf(core, s)
            new == RecordOf(core', s) IN
        /\ old.cmd # 0 /\ new.cmd = old.cmd /\ Type[old.cmd] = "program"
        /\ old.outcome = "pending" /\ new.outcome = "succeeded"
        => old.steps = StepsOf[old.cmd] /\ motor = "stopped"]_vars

\* After a power failure a motor that may run is brought to rest.
RecoveryStops == at = "off" /\ nvs.motionPossible ~> motor = "stopped"

=============================================================================
