--------------------------- MODULE DriveSettings ---------------------------
(***************************************************************************)
(* A setting of the drive (a parameter, or the source of control) changed  *)
(* from the device page: the dialog and its checks in the browser, the     *)
(* admission by the server beside starts of the motor, the comparison and  *)
(* the writes of the controller, and the person at the panel of the drive  *)
(* (frontend/src/features/vfd-settings.tsx, backend/app/services/          *)
(* vfd_settings.py, firmware/kerumo_v3/src/core.cpp).                      *)
(*                                                                         *)
(* A parameter is one register of the drive; the source of control is two, *)
(* that of the frequency and that of RUN, written in this order.  Between  *)
(* the comparison and each write the controller saves to flash and checks  *)
(* again that it may write, but does not compare again; the panel may      *)
(* change a register at any of these moments.                              *)
(*                                                                         *)
(* A command is identified by its control sequence, which is also the      *)
(* order of creation.                                                      *)
(***************************************************************************)
EXTENDS Naturals, Sequences, FiniteSets

CONSTANTS Parts,          \* values of a register
          Remote,         \* that of both sources when control is with the server
          MaxCommands,    \* bound: commands created
          MaxSamples,     \* bound: samples of telemetry
          MaxPanel        \* bound: changes at the panel of the drive

SettingsAssumption == Remote \in Parts

VARIABLES
    setting,    \* what is changed: a parameter, or the source of control
    drive,      \* its value, whether the motor turns, registers written by commands, and
                \* the last command that was issued before permission was withdrawn
    doing,      \* controller: the setting it carries out, how far it is, what it last read of
                \* the drive, and the registers the panel has changed since its comparison
    highest,    \* controller: the highest sequence it has accepted
    commands,   \* server: the commands, by sequence
    results,    \* results on their way to the server
    sample,     \* the sample of telemetry on its way to the server
    snapshot,   \* server: the state of the device
    view,       \* page: the overview it shows
    change,     \* page: the change in the dialog, or being sent
    sending,    \* page: how far the request has come
    intent,     \* page: the request whose command is awaited
    samples, panel

settingVars == <<setting, drive, doing, highest, commands, results, sample, snapshot, view, change,
                 sending, intent, samples, panel>>

\* The two sources, first that of the frequency, then that of RUN; a parameter, which has
\* one register only, leaves the second as it is.
Values == [1..2 -> Parts]
Source(part) == [r \in 1..2 |-> part]
Parameter(part) == [Source(Remote) EXCEPT ![1] = part]
Registers == IF setting = "source" THEN 1..2 ELSE 1..1
Whole(part) == IF setting = "source" THEN Source(part) ELSE Parameter(part)

\* late: published, and its time to be accepted is over.
Pending == {"queued", "published", "late"}
NoSample == [on |-> FALSE, value |-> CHOOSE v \in Values : TRUE, stopped |-> TRUE, highest |-> 0,
             made |-> 0, writes |-> 0]
NoChange == [on |-> FALSE, expected |-> CHOOSE v \in Values : TRUE, saw |-> CHOOSE v \in Values : TRUE,
             value |-> CHOOSE v \in Values : TRUE]
Idle == [of |-> 0, register |-> 1, phase |-> "none", found |-> NoChange.value, changed |-> {}]
NoIntent == [on |-> FALSE, seq |-> 0, settled |-> FALSE]

Init ==
    /\ setting \in {"parameter", "source"}
    /\ drive \in [value : Values, runs : {FALSE}, writes : {0}, since : {0}]
    /\ setting = "parameter" => drive.value[2] = Remote
    /\ doing = Idle
    /\ highest = 0
    /\ commands = <<>>
    /\ results = {}
    /\ sample = NoSample
    /\ snapshot = [NoSample EXCEPT !.on = TRUE, !.value = drive.value]
    /\ view = snapshot
    /\ change = NoChange
    /\ sending = "no"
    /\ intent = NoIntent
    /\ samples = 0 /\ panel = 0

-----------------------------------------------------------------------------
(* The page.                                                               *)

\* Overview: polled, and read again when a command is settled.
PollView ==
    /\ view' = snapshot
    /\ UNCHANGED <<setting, drive, doing, highest, commands, results, sample, snapshot, change, sending, intent, samples, panel>>

Busy == sending # "no" \/ (intent.on /\ ~intent.settled)

\* The drive is at rest and the controller ready.
CanAct == view.stopped

\* A button opens the dialog with the value that is shown.
Open(value) ==
    /\ CanAct /\ ~Busy /\ ~change.on
    /\ value # view.value
    /\ change' = [on |-> TRUE, expected |-> view.value, saw |-> view.value, value |-> value]
    /\ UNCHANGED <<setting, drive, doing, highest, commands, results, sample, snapshot, view, sending, intent, samples, panel>>

\* The panel asks for control, or gives it back; a form has a field for each parameter.
OpenSource(part) == setting = "source" /\ Open(Source(part))
OpenParameter(part) == setting = "parameter" /\ Open(Parameter(part))

Dismiss ==
    /\ change.on /\ sending = "no"
    /\ change' = NoChange
    /\ UNCHANGED <<setting, drive, doing, highest, commands, results, sample, snapshot, view, sending, intent, samples, panel>>

\* The confirmation reads the overview again before anything is sent.
Send ==
    /\ change.on /\ CanAct /\ ~Busy
    /\ sending' = "checking"
    /\ UNCHANGED <<setting, drive, doing, highest, commands, results, sample, snapshot, view, change, intent, samples, panel>>

\* Mutant: the value that was just read is the expected one.
CheckedNow == [change EXCEPT !.expected = snapshot.value]

\* What is sent is what the dialog showed.
Checked == change

CheckPasses ==
    /\ sending = "checking"
    /\ snapshot.stopped /\ snapshot.value = Checked.expected
    /\ change' = Checked
    /\ sending' = "posting"
    /\ intent' = [NoIntent EXCEPT !.on = TRUE]
    /\ UNCHANGED <<setting, drive, doing, highest, commands, results, sample, snapshot, view, samples, panel>>

\* The state has changed, or could not be read: nothing was sent.
CheckFails ==
    /\ sending = "checking"
    /\ sending' = "no" /\ change' = NoChange /\ intent' = NoIntent
    /\ UNCHANGED <<setting, drive, doing, highest, commands, results, sample, snapshot, view, samples, panel>>

\* No answer to the request: the page goes on asking for its command and never sends
\* it again.
PostUnanswered ==
    /\ sending = "posting"
    /\ sending' = "no"
    /\ change' = NoChange
    /\ UNCHANGED <<setting, drive, doing, highest, commands, results, sample, snapshot, view, intent, samples, panel>>

\* by-request: not found, pending, or settled.
AskCommand ==
    /\ intent.on /\ intent.seq # 0
    /\ intent' = [intent EXCEPT !.settled = commands[intent.seq].status \notin Pending]
    /\ UNCHANGED <<setting, drive, doing, highest, commands, results, sample, snapshot, view, change, sending, samples, panel>>

\* The page is left, or loaded again.
LeavePage ==
    /\ sending # "no" \/ intent.on \/ change.on
    /\ change' = NoChange /\ sending' = "no" /\ intent' = NoIntent
    /\ view' = snapshot
    /\ UNCHANGED <<setting, drive, doing, highest, commands, results, sample, snapshot, samples, panel>>

-----------------------------------------------------------------------------
(* The server.                                                             *)

Settings == {i \in DOMAIN commands : commands[i].kind = "setting"}

\* The snapshot was taken after the controller had done with the command.
Observed(i) == snapshot.highest >= i /\ snapshot.made >= i

\* Mutant: the result of a change is enough.
UnseenAnswered == {i \in Settings : commands[i].status \in Pending \cup {"result_unknown"}
                                    /\ ~Observed(i)}

\* Changes whose effect the snapshot does not show yet.
Unseen ==
    LET answered == {i \in Settings : commands[i].status \in {"succeeded", "failed"} /\ commands[i].sent}
    IN {i \in Settings : commands[i].status \in Pending \cup {"result_unknown"} /\ ~Observed(i)}
       \cup {i \in answered : (\A j \in answered : j <= i) /\ ~Observed(i)}

\* settings_rejection, for a command that is created or sent.
Admits(kind, expected, self) ==
    /\ Unseen \ {self} = {}
    /\ kind = "start" /\ setting = "source" => snapshot.value = Source(Remote)
    /\ kind = "setting" =>
          /\ \A i \in DOMAIN commands \ Settings : commands[i].status \notin Pending
          /\ snapshot.stopped /\ snapshot.value = expected

Create(command) ==
    /\ Len(commands) < MaxCommands
    /\ commands' = Append(commands, command)

Fresh(kind) == [kind |-> kind, saw |-> NoChange.value, expected |-> NoChange.value,
                value |-> NoChange.value, status |-> "queued", sent |-> FALSE]

\* CommandService.create: the request of the page is accepted or refused.
PostArrives ==
    /\ intent.on /\ intent.seq = 0 /\ change.on /\ sending = "posting"
    /\ \/ /\ Admits("setting", change.expected, 0)
          /\ Create([Fresh("setting") EXCEPT !.saw = change.saw, !.expected = change.expected,
                                             !.value = change.value])
          /\ intent' = [intent EXCEPT !.seq = Len(commands) + 1]
          /\ UNCHANGED <<change, sending>>
       \/ \* by these rules, or for an enabled schedule or a lost permission
          /\ change' = NoChange /\ sending' = "no" /\ intent' = NoIntent
          /\ UNCHANGED commands
    /\ UNCHANGED <<setting, drive, doing, highest, results, sample, snapshot, view, samples, panel>>

\* Another operator, or a schedule, starts the motor, stops it or changes the setting.
OthersAsk(kind) ==
    /\ kind = "stop" \/ Admits(kind, snapshot.value, 0)
    /\ \/ kind # "setting" /\ Create(Fresh(kind))
       \/ /\ kind = "setting"
          /\ \E value \in {Whole(part) : part \in Parts} \ {snapshot.value} :
                Create([Fresh(kind) EXCEPT !.saw = snapshot.value, !.expected = snapshot.value,
                                           !.value = value])
    /\ UNCHANGED <<setting, drive, doing, highest, results, sample, snapshot, view, change, sending, intent, samples, panel>>

Become(i, status) == commands' = [commands EXCEPT ![i].status = status]

\* dispatch: the rules are checked once more before the command is sent.
Dispatch(i) ==
    /\ commands[i].status = "queued"
    /\ \/ /\ commands[i].kind = "stop" \/ Admits(commands[i].kind, commands[i].expected, i)
          /\ commands' = [commands EXCEPT ![i].status = "published", ![i].sent = TRUE]
       \/ commands[i].kind # "stop" /\ Become(i, "failed")
    /\ UNCHANGED <<setting, drive, doing, highest, results, sample, snapshot, view, change, sending, intent, samples, panel>>

\* The time to accept a command is over, for the controller too; later, the time to
\* answer it.
Expire(i) ==
    /\ \/ commands[i].status = "queued" /\ Become(i, "failed")
       \/ commands[i].status = "published" /\ Become(i, "late")
    /\ UNCHANGED <<setting, drive, doing, highest, results, sample, snapshot, view, change, sending, intent, samples, panel>>

GiveUp(i) ==
    /\ commands[i].status = "late"
    /\ Become(i, "result_unknown")
    /\ UNCHANGED <<setting, drive, doing, highest, results, sample, snapshot, view, change, sending, intent, samples, panel>>

ResultArrives(r) ==
    /\ r \in results
    /\ results' = results \ {r}
    /\ IF commands[r.of].status \in {"published", "late", "result_unknown"}
       THEN Become(r.of, r.outcome) ELSE UNCHANGED commands
    /\ UNCHANGED <<setting, drive, doing, highest, sample, snapshot, view, change, sending, intent, samples, panel>>

-----------------------------------------------------------------------------
(* The controller and the drive.                                           *)

Finish(i, outcome) == results' = results \cup {[of |-> i, outcome |-> outcome]}

\* A start that was issued before is refused.
Withdraw == drive' = [drive EXCEPT !.since = Len(commands)]

\* executeSetting: the drive is at rest and has the value that was expected, or the command
\* is refused.
Compare(i) ==
    /\ commands[i].kind = "setting"
    /\ \/ /\ ~drive.runs /\ drive.value = commands[i].expected
          /\ doing' = [Idle EXCEPT !.of = i, !.phase = "permit"]
          /\ UNCHANGED results
       \/ UNCHANGED doing /\ Finish(i, "failed")
    /\ UNCHANGED drive

Target == commands[doing.of].value

\* permitted(), each time after a save or another write.  The sources are read anew before it;
\* of a parameter it is known only what it was compared with.
MayWrite ==
    /\ doing.phase = "permit"
    /\ ~drive.runs /\ commands[doing.of].status = "published"
    /\ doing' = [doing EXCEPT !.phase = "write",
                               !.found = IF setting = "source" THEN drive.value
                                         ELSE commands[doing.of].expected]
    /\ UNCHANGED <<setting, drive, highest, commands, results, sample, snapshot, view, change, sending, intent, samples, panel>>

\* writeSetting(), writeSourcePart(): one write, which may be lost; none where the register
\* was read to have the value already.
WriteRegister ==
    LET r == doing.register IN
    /\ doing.phase = "write"
    /\ \/ /\ doing.found[r] # Target[r]
          /\ drive' = [drive EXCEPT !.value[r] = Target[r], !.writes = @ + 1]
       \/ UNCHANGED drive
    /\ doing' = [doing EXCEPT !.phase = "readback", !.found = Idle.found]
    /\ UNCHANGED <<setting, highest, commands, results, sample, snapshot, view, change, sending, intent, samples, panel>>

\* The register has its value, and another one is left.
ReadBack ==
    /\ doing.phase = "readback" /\ doing.register + 1 \in Registers
    /\ drive.value[doing.register] = Target[doing.register]
    /\ doing' = [doing EXCEPT !.phase = "permit", !.register = @ + 1]
    /\ UNCHANGED <<setting, drive, highest, commands, results, sample, snapshot, view, change, sending, intent, samples, panel>>

\* The end of executeSetting: all registers were read back, or one was not, or the second
\* source may not be written any more.  Permission to move is withdrawn.
FinishSetting ==
    /\ doing.phase = "readback" \/ (setting = "source" /\ doing.phase # "none")
    /\ \E outcome \in {"succeeded", "failed"} :
          /\ outcome = "succeeded" => doing.phase = "readback" /\ drive.value = Target
          /\ Finish(doing.of, outcome)
    /\ Withdraw
    /\ doing' = Idle
    /\ UNCHANGED <<setting, highest, commands, sample, snapshot, view, change, sending, intent, samples, panel>>

\* The first write is not permitted any more, or its intent cannot be saved: then nothing is
\* answered.
Abandon ==
    /\ doing.phase \in {"permit", "write"} /\ doing.register = 1
    /\ Finish(doing.of, "failed") \/ UNCHANGED results
    /\ doing' = Idle
    /\ UNCHANGED <<setting, drive, highest, commands, sample, snapshot, view, change, sending, intent, samples, panel>>

\* A start needs control from the server and a permission given before it was issued.
Motion(i) ==
    \/ /\ commands[i].kind = "stop"
       /\ drive' = [drive EXCEPT !.runs = FALSE]
       /\ Finish(i, "succeeded")
    \/ /\ commands[i].kind = "start" /\ i > drive.since
       /\ setting = "source" => drive.value = Source(Remote)
       /\ drive' = [drive EXCEPT !.runs = TRUE]
       /\ Finish(i, "succeeded")
    \/ /\ commands[i].kind = "start"
       /\ UNCHANGED drive /\ Finish(i, "failed")

\* A message of the server, in any order; one that is late or stale is refused.  The
\* controller does one thing at a time.
Deliver(i) ==
    /\ doing.phase = "none"
    /\ commands[i].status = "published" /\ i > highest
    /\ highest' = i
    /\ Compare(i) \/ (Motion(i) /\ UNCHANGED doing)
    /\ UNCHANGED <<setting, commands, sample, snapshot, view, change, sending, intent, samples, panel>>

\* The controller sends a sample; one that is still on its way is lost.
Sample ==
    /\ samples < MaxSamples /\ doing.phase = "none"
    /\ samples' = samples + 1
    /\ sample' = [on |-> TRUE, value |-> drive.value, stopped |-> ~drive.runs, highest |-> highest,
                  made |-> Len(commands), writes |-> drive.writes]
    /\ UNCHANGED <<setting, drive, doing, highest, commands, results, snapshot, view, change, sending, intent, panel>>

SampleArrives ==
    /\ sample.on
    /\ snapshot' = sample
    /\ sample' = NoSample
    /\ UNCHANGED <<setting, drive, doing, highest, commands, results, view, change, sending, intent, samples, panel>>

\* The person at the panel of the drive, while it is at rest.
Panel ==
    /\ panel < MaxPanel /\ ~drive.runs
    /\ panel' = panel + 1
    /\ \E r \in Registers, part \in Parts :
          /\ part # drive.value[r]
          /\ drive' = [drive EXCEPT !.value[r] = part]
          /\ doing' = IF doing.phase = "none" THEN doing ELSE [doing EXCEPT !.changed = @ \cup {r}]
    /\ UNCHANGED <<setting, highest, commands, results, sample, snapshot, view, change, sending, intent, samples>>

Next ==
    \/ PollView \/ \E part \in Parts : OpenSource(part) \/ OpenParameter(part)
    \/ Dismiss \/ Send \/ CheckPasses \/ CheckFails \/ PostArrives \/ PostUnanswered
    \/ AskCommand \/ LeavePage
    \/ \E kind \in {"setting", "start", "stop"} : OthersAsk(kind)
    \/ \E i \in DOMAIN commands : Dispatch(i) \/ Expire(i) \/ GiveUp(i) \/ Deliver(i)
    \/ \E r \in results : ResultArrives(r)
    \/ MayWrite \/ WriteRegister \/ ReadBack \/ FinishSetting \/ Abandon
    \/ Sample \/ SampleArrives \/ Panel

Spec == Init /\ [][Next]_settingVars

-----------------------------------------------------------------------------
(* Properties.                                                             *)

\* The controller begins to carry a change out only over the value that its operator was
\* shown, and each write replaces the register that was shown, whoever else has changed the
\* setting in between; all that it may overwrite unseen is what the panel changed after the
\* controller's own comparison.
WritesOverWhatWasSeen ==
    [][/\ doing.phase = "none" /\ doing'.phase # "none" => drive.value = commands[doing'.of].saw
       /\ drive'.writes # drive.writes =>
             \/ doing.register \in doing.changed
             \/ drive.value[doing.register] = commands[doing.of].saw[doing.register]]_settingVars

\* A start is admitted and sent only on a snapshot that shows the drive after the last
\* change of a setting: the result of a change may come before its effect is reported.
StartSeesSettings ==
    [][\A i \in DOMAIN commands' :
          /\ commands'[i].kind = "start"
          /\ i \in DOMAIN commands => commands'[i].sent /\ ~commands[i].sent
          => snapshot.writes = drive.writes]_settingVars
=============================================================================
