# Kerumo pump control: verification project

This directory is a TLA+ development of the Kerumo control system: a backend that queues remote
commands for pump controllers, the controllers themselves (ESP32 firmware in front of an SU600
frequency inverter), the services around them and the browser in front of them. It says what the
code promises, model-checks it with TLC on small instances and proves the central promises with
TLAPS for every instance. Every definition is translated from the source; `PROJECT.json` maps each
one to its lines and lists the components, the runs, the hazards of the code and the main theorems.

Run a check with `tlc -config MCCommandQueue.cfg MCCommandQueue.tla`, a proof with
`tlapm CommandQueueProofs.tla`.

## The system

| part | code | state it keeps | operations |
|---|---|---|---|
| Command queue | `backend/app/services/command*.py`, `repositories/commands.py` | rows of `device_commands`: status, sequence, attempts, diagnosis, TTL | create, dispatch, publish, acknowledge, complete, retry, expire, supersede |
| MQTT transport, ingress | `mqtt_client.py`, `mqtt_ingress.py` | a paho client, its queue | publish (3 s wait), ack, result, telemetry and heartbeat messages |
| Unknown-result alarms | `system_alarms.py` | one open alarm per command of unknown fate | raise, resolve |
| Control core | `firmware/kerumo_v3/src/core.cpp` | the `Controller` object: permission, stop request, pending command, running program | begin, receive, tick, sample, arm, disarm |
| Flash journal | `core.h`, `esp32_storage.h`, `scoped_journal.h` | the last accepted commands, the highest sequence, `motionPossible` | load, save (one blob) |
| Drive | `su600_driver.cpp`, `esp32_modbus.h` | the inverter: running, coasting, stopped; its parameters | Modbus reads and writes, and the panel of the drive |
| Telemetry, presence | `telemetry*.py`, `device_presence.py` | snapshots, sessions, last seen | ingest, mark seen, offline check |
| Alarms, notifications | `alarms.py`, `alarm_rule_engine.py`, `notifications.py` | alarms, rule states, notifications | raise, acknowledge, resolve, evaluate |
| Schedules | `schedule_worker.py`, `schedules.py` | schedules, occurrences | write, delete, process |
| Drive settings | `vfd_settings.py`, `core.cpp` (`executeSetting`), `vfd-settings.tsx` | settings on their way, the samples that show them | admit, compare and write, observe |
| Members, invitations, accounts | `memberships.py`, `invitations.py`, `api/v1/staff.py` and their forms | memberships, links, portals | add, change, switch off, invite, accept, revoke, remove a site |
| Sessions | `auth.py` | refresh sessions | login, rotate, logout, end |
| Browser session | `frontend/src/features/auth-*.ts*`, `access-context.tsx` | access token per tab, the shared cookie, messages between tabs | refresh, login, logout, recover |
| Command card | `command-controls.tsx` | the dialog, the request under way, the one without an answer | confirm, send, interrupt, repeat |
| Live data | `device-overview.tsx`, `use-panel-query.ts`, `polling-policy.ts` | the last answer and its age, the retry budget | poll, back off, hide, show |
| Schedule, alarm, notification pages, lists | `schedule-*.tsx`, `alarm-detail.tsx`, `notification*.tsx`, `inventory.tsx`, `command-journal.tsx`, ... | what was read, the form, the request under way | read, edit, preview, confirm, turn pages |
| Equipment, lifecycle, onboarding | `equipment.py`, `controller_lifecycle.py`, `onboarding.py` | bindings, credentials, grants | configure, commission, rotate, release |
| Operations | `operations/backup.py`, `recovery.py` | a dump and its epoch | back up, restore |

How the parts interact. A browser posts a command with a `request_id`; `CommandService.create`
numbers it under the lock of the device row, and the request thread dispatches it to MQTT. The
reliability worker (one thread per process, a round every two seconds) retries, expires and gives
up commands, and turns due schedules into commands. The controller takes a command from MQTT,
checks it, writes its journal to flash, drives the inverter and answers with an acknowledgement
and a result; the MQTT network thread of the backend writes both into the same row. Telemetry and
heartbeats of the controller move the device state, presence and the alarm rules; each alarm
transition writes notifications. All services of one device serialise on its row (`SELECT ... FOR
UPDATE`), those of one organization on its row; what is not serialised are the network calls, the
times stamped before the lock, the few operations that take no such lock, and everything that
happens on the controller. The pages of the browser poll what they show and act on what they were
shown; the tabs of one browser share a refresh cookie, a Web Lock and a broadcast channel.

What is hard about it, and what the properties are for: threads that act on a row between two
transactions of another thread; answers that come late, twice or in another order than the
commands; a publish that was reported as failed and leaves later; power failures between a flash
write and the drive; boots of a controller that count from zero; a Stop that must win against
whatever is already on its way; a person who acts on a screen that is already old; a request
that was cut off and may have been carried out; tabs that rotate one secret. `PROJECT.json` lists
each hazard at its line with the properties that would catch it.

Correctness of each component, in a sentence:

- *queue*: no command is told to be withdrawn that may run, nothing is delivered after its Stop,
  every command is decided once and in the end;
- *controller*: no RUN without a live permission and a record in flash, one RUN for a command, one
  answer from its record, and after a power failure a motor that may turn is stopped;
- *feed*: the current state only advances, an old boot is silent, presence and reboots are true;
- *alarms*: an incident says what the newest outcome or the last readings say and is announced once;
- *schedules*: a start is run at most once, in its window, one run at a time, never after a Stop
  that came in order, and never dropped in silence;
- *drive settings*: a change is begun only over the value that was seen, nothing but the panel of the
  drive can slip in before its writes, and no start before their effect is known;
- *members*: an organization keeps an owner and the platform a head administrator, and access that
  was turned off comes back only by somebody who saw it turned off;
- *browser session*: no tab presents a secret that was already used, a logout ends the session
  everywhere, and only the server's verdict ends a session;
- *screens*: what is confirmed is what was shown, whatever was interrupted is accounted for, and
  what is called fresh is recent;
- *equipment, lifecycle* (planned): a controller has one live credential and no grant outlives its
  binding.

## Modules

| module | models | state ↔ code |
|---|---|---|
| `CommandPromise` | what the queue promises, without threads, rows or time | an outcome per request and what has left |
| `CommandQueue` | `commands.py`, `command_dispatch.py`, `command_ack.py`, `command_result.py`, `command_outcomes.py`, `command_reliability.py` | `status`, `number`, `attempts`, `acked`, `diagnosis` are columns of `device_commands`; `alarms` the open unknown-result alarms; `expired`, `resting`, `overdue` what the code asks of the clock; `job` what a thread does between two transactions; `handed` what paho has |
| `CommandQueueProofs` | theorems about it, and that it implements `CommandPromise` | |
| `PumpController`, `PumpControllerProofs` | `core.cpp` with the journal and the drive | `core` is the RAM of `Controller`, `nvs` its flash blob, `motor` the drive, `at` the part of `receive` or `tick` that comes next |
| `DeviceFeed`, `DeviceFeedProofs` | `telemetry.py`, `telemetry_ordering.py`, `device_presence.py`, the offline and reboot parts of `system_alarms.py` and their worker | `stored` and `snapshot` are the telemetry tables, `sessions` the device sessions, `observed` and `seenAt` columns of the device, `scan` the clock the worker has read |
| `DeviceAlarms`, `DeviceAlarmsProofs` | `alarm_rule_engine.py`, `alarms.py`, `record_command_outcome`, `notifications.py` | `alarms` and `notes` are the tables of incidents and notifications, `rule` the assignment with its configuration (kind, threshold, clear threshold, debounce), `pending` the rule state, `heard` on which side each reading so far fell when it was judged, `outcome` the results |
| `ScheduledRuns`, `ScheduledRunsProofs` | `schedules.py`, `schedule_worker.py`, the scheduled branch of `command_policy.py` and `program_policy.py`, the Stop of `commands.py` | `rules` and `runs` are `device_schedules` and `schedule_occurrences` (with the command of the run), `lastStop` is `devices.last_stop_requested_at`, `shift` the time zone data |
| `DriveSettings` | a change of a drive setting from the dialog over the admission to `executeSetting` of `core.cpp`, beside starts and the panel of the drive | `commands`, `results`, `snapshot` are rows of the server, `drive` and `highest` the inverter and the controller, `doing` how far `executeSetting` is, `view`, `change`, `sending` the page |
| `CommandPanel` | the command card and the part of `CommandService.create` that answers it | `row`, `number`, `target` are the server's rows, `posts` requests under way, `shown`, `dialog`, `pending`, `uncertain` the React state |
| `PanelPolling` | `usePanelQuery` with its `PollingBudget`, the overview query, the ageing of a snapshot | `fetch` the request under way, `data` the last answer with the moment it was begun, `budget` and `timer` the polling policy, `rendered` what the person looks at |
| `ScheduleEditor` | list, form, preview and dialogs of the schedules of a device | `rules` and `wire` are the server and requests under way, `listed`, `draft`, `preview`, `confirmation`, `action` the React state |
| `AlarmDesk` | one incident or notification open in the browser, confirmed or marked as read | `item` and `posts` are the server and requests under way, `page`, `mark`, `outcome`, `dialog` the React state |
| `ConsoleLists` | the paged lists: by offset and, the journal, by cursor; presence requests of a page of devices | `asked`, `shown` what was asked for and is shown, `presence` the requests of the four workers |
| `BrowserSession`, `BrowserSessionProofs` | the provider of the session in each tab, the Web Lock, the channel between tabs, the server's rotation and logout | `tab` has one record per tab (its React state and refs), `cookie` and `marker` are the cookie and the tombstone of the browser, `secret` and `sess` the sessions of the server, `chan` messages under way, `queue` who asked for the lock before whom, `lost` the answers that never arrived |
| `Memberships`, `MembershipRows`, `MembershipsProofs` | `memberships.py`, `invitations.py`, `staff.py` and the forms that call them | `members`, `accounts`, `links`, `places` are tables, `requests` what waits for a lock or has been checked and not yet committed, `pages` what the persons were shown |
| `MCConsole`, `ConsoleProofs` | the screens of the browser in one specification, instantiated for TLC by its configuration | `screen` is the one that is open |
| the other `MC*` | instances for TLC | |

`CommandQueue` refines `CommandPromise` (`KeepsPromise`, checked by TLC; its safety part is proved).
The other modules share no variable; they meet at the interfaces named above: a command of
`ScheduledRuns` or `CommandPanel` is one request of `CommandQueue`, the results of `CommandQueue` are
the outcomes of `DeviceAlarms`, the packets that became the state of `DeviceFeed` are the readings of
`DeviceAlarms` and the samples of `PanelPolling`, and what `CommandQueue` hands over is what
`PumpController` may receive at any time and repeatedly.

An action is a transaction, a callback of the browser or a part of a firmware handler: a service
method that locks the device, checks, writes and commits is one action with its checks as guards.
Where the code works outside a transaction the action is cut: `DispatchAttempt`, `Publish`,
`RecordReply` for a dispatch; `RequestStop`, `AcceptStop` for the time of a Stop that is stamped
before the lock; `Attempt`, `Leave` for a scheduled command; `Scan`, `CheckOffline` for the offline
worker; asking, checking under the locks and committing for a change of members; the request, the
server's handling and the answer for everything a page sends, so that a page may be hidden, left
or given another answer in between; in `DriveSettings` the comparison (`Compare`), each permission
(`MayWrite`), each write of a register (`WriteRegister`) and each reading back, because the panel of
the drive may act between them; and in `PumpController` every place where `receive` and `tick` write
flash or the drive, because power may fail there.

Operators named with "Mutant" above them are plausible mistakes in that code. They are not part of
the specification: replacing the definition they stand before makes a property fail, which shows
that the property depends on the code.

## Runs

| run | instance | shows |
|---|---|---|
| `queue_pair` | a Start and its Stop, one request thread, one worker, two attempts, crashes anywhere | unknown-result alarms are open exactly where they should be, a Stop empties the queue and withholds the Start it names, retries keep their interval, every command is decided in the end, and the queue keeps `CommandPromise` |
| `pump_program` | a program of two steps and a Stop, one failed flash write and one power failure at any place | the motor and its record, one answer from the record of a command (one refusal may come before it), success only of a whole program, a command refused for its number stays refused, and the recovery after the failure |
| `pump_eviction` | four commands in any order, a ledger of three, an unreadable journal | a command evicted from the ledger never runs again; a Stop outranks what is numbered below it |
| `pump_two_programs` | a hand start, two programs, one failed write, one power failure | **violation** of `MotionIsKnown`, see below |
| `device_feed` | two boots of three packets, lost, repeated and reordered; a clock of four | the state advances, a reboot is confirmed by another packet, silence is reported |
| `device_alarms` | three commands, two operators, up to seven readings, three configurations (above a limit with a debounce of two, above a lower one with three, below a limit with one), edits and times off at any moment | the failure incident tells the newest outcome; threshold incidents open and close only after their debounce |
| `schedules_rule` | one rule of two starts, two revisions, one Stop | one run per start, none after a Stop, none passed over, none left in the past |
| `schedules_two_stops` | two Stops that wait for the lock together | **violation** of `StopPrevents` |
| `session` | two tabs; rotations, a logout against logins, reloads, a lost answer, a rotation or a logout after one, a worn token, an end by the server (eight budgets) | no used secret is presented, a logout stays and has ended the session, a tab gives up of itself only what the server ended, what a fault took from it or what its page was refused twice |
| `session_failure` | one access token that runs out and one request that fails, under fairness | **violation** of `FailureIsNoLogout` |
| `console` | seven screens, one per behaviour; for the drive a parameter or the two sources, two commands, one sample under way and one change at the panel at any moment; three persons in eight casts for the members | whatever is saved, confirmed or sent is what the person had seen, and a register is written over it unless the panel came after the comparison; a start waits for the effect of a change; an interrupted Start is accounted for; fresh data is recent; owners and standing |
| `members_site` | the members, two sites, the removal of a site | **violation** of `NothingPointsAtRemoved` |

`console` composes the screens because a person works on one at a time and they share nothing but
the server: `MCConsole` lets `screen` choose one of them in the initial state and leaves the others
at rest, so its state space is the sum, not the product, and its properties are those of the
screens, each stated in its own module. TLC tells states apart by the open screen and its variables
only (the `VIEW` `OnScreen`); the others keep their initial values, so nothing is merged by it.
Control is with the server at first, and changes from there at the panel or from the page.

Why the bounds are enough to be worth running. The properties relate at most two commands (a
command and its Stop), two boots, two revisions or two starts, two tabs, two requests that wait for
one organization, and each bound holds one more than the case it is about: a second attempt to make
retries overtake, a ledger of three because two records may be active and one is evicted, a third
reading after a debounce of two and seven for an incident, its end and the next one with an edit in
between (`Room`: each outcome of a command takes the place of two of them), a fourth moment after a window of two, three persons because an owner, another one and the member they disagree about are needed. The budgets of the session and
the `Bounds` of the card split one large instance into several, each of which has what one scenario
needs (`Usual` names them). The form of a schedule is changed once, after or before its preview, because
its properties are proved for any number of changes. What the bounds cut off are longer histories of
the same events. Users,
rules and tabs are symmetric where no operation compares them; liveness is checked without symmetry.
`CHECK_DEADLOCK FALSE` stands where the bounded system comes to rest: every command decided, every
packet delivered, the clock at its bound, nobody doing anything in the browser.

## Fairness

Liveness is stated under what the code schedules by itself:

- queue (`EventuallyDecided`): time passes (TTL and deadline), an MQTT call returns within its three
  seconds, and the worker's cycle selects expired and overdue rows before anything else
  (`command_reliability.py`); request threads and devices owe nothing;
- controller (`RecoveryStops`): the device task loops for ever (weak fairness of its parts), power
  comes back, a motor without RUN comes to rest; strong fairness says only that the bus is not dead
  for ever (of infinitely many STOP words one arrives, of infinitely many reads one succeeds) and
  that a lost network is noticed;
- feed (`SilenceIsReported`): the offline worker comes round every few seconds and the clock goes on;
- schedules (`DueIsSettled`): the schedule cycle comes round every two seconds and gets to each rule
  (a hundred per cycle, oldest check first);
- session (`FailureIsNoLogout`, only for its counterexample): what a tab has begun goes on, the lock
  of the browser is granted, a message to a tab is received, a cooldown ends; the person owes nothing.

## Proofs

Proved by TLAPS for every value of the constants, under the named assumptions of each module (they
say what the tables and configurations guarantee: a Stop never names itself, durations are positive,
a specification is a set of future dates). The theorems about the screens are about `MCConsole`, the
specification the run `console` checks, for any values of its constants. Each screen's module states
as an operator what it needs of its constants and `MCConsole` assumes it by name, so that TLC evaluates
it: `EditorAssumption` (a day and its horizon are positive, what is saved at first is a
specification), `DriveAssumption` (the value of a source that stands for the server is one of its
values), `CardAssumption` (the bounds are numbers, and those of a scenario are within them),
`QueryAssumption` (intervals and timeouts are positive), `ListsAssumption` (a page has rows) and
`AccessAssumption` (the tables are typed at first, an owner is not limited to sites, a row or an
account that does not exist is not active, and an open invitation has an author). No theorem about the screens has another hypothesis.

| theorem | argument |
|---|---|
| `TypeCorrect`, `WithdrawnSafe` (queue) | `DeliveryInv` adds to the types that a busy thread works on a request and that the columns agree with the status: a row that was never sent has no attempt, no answer, nothing handed to the broker and no thread in flight with it. `WithdrawnNeverLeft` alone is not inductive: a thread in flight may hand a command over after its row was withdrawn. |
| `AlarmsTruthful`, `StopPreempts`, `LateStartStays` (queue) | `QueueInv` adds `Numbering`: registered rows are numbered from one up to the counter of the device, so what is registered later is numbered higher. |
| `OutcomesStay`, `RepeatsWait`, `DiagnosisIsCurrent` (queue) | no step breaks `StepAllowed` from a state of `DeliveryInv`: a queued command was never attempted, so only the worker, which asks for the interval, repeats one; an answer of the device finds no withdrawn row because nothing of such a row was handed over. |
| `KeepsPromiseSafely` (queue) | under `DeliveryInv` a stopped delivery is a withdrawal exactly when nothing was attempted, and only a row with a committed attempt is transmitted, accepted or settled; one lemma per service method. |
| `PumpTypeCorrect`, `MotionRecorded`, `UnarmedStops`, `RunsArePermitted` (controller) | `PumpInv` says what holds between any two parts of a handler: the core is `Sound` (an armed core is not inhibited; possible motion without a permission is being stopped; a program that is not stopping has motion, permission and no STOP), flash and the core know of a motor that is not at rest, and `Working` what each later part relies on (an accepted command is covered by the permission, a prepared Start has its intent in flash). Whatever fails makes the core only `Calmer`: permission gone and, if it may move, a STOP asked for; that relation is reflexive, transitive and keeps `Sound`, so each error path needs one citation. `MotionIsRecorded` is not inductive without it: the RUN word is written two parts after the save. |
| `CommandsRunOnce` (controller) | `OnceInv`: while the journal can be written, the highest number a core has accepted is never below that of its flash, no command above the latter has run, and a command that is being worked on, or whose program has not begun, has not run. Everything but an acceptance and the phases of a program is `Modest`: it keeps numbers, steps and program, so a crash, a failed save or a STOP anywhere needs one citation. `RunsOnce` alone says nothing of the numbers that keep a second delivery out. |
| `CoreInvariant`, `AnswersAreFinal` (controller) | `AnswerInv`: no command has two records, flash is never ahead of the core (`Behind`), and what was told of a command from a record is what both say of it, for as long as either has a record (`Spoken`); a number is accepted once, so a record that was displaced is never told again. Most steps leave the records as they are (`Alike`) or settle pending ones, saved or not, and tell only what is saved (`RecordsGoOn`). The answers of `receive` that no record keeps (`refused`) are not among these, see below. |
| `StaleStaysFinal` (controller) | the number of a command refused as stale is not above the highest number of the core and of flash, which no step lowers, and its record, if there was one, is in neither; so every later copy is refused again. |
| `ProgramsSucceedWhole` (controller) | all but one step leave no record newly succeeded (`Unrewarded`); that one stands behind the last step and a drive read at rest (`Wholly`). |
| `RankInvariant`, `StopsOutrank` (controller) | `RankInv`: while a program goes on, no Stop numbered above it is acknowledged, or recorded as pending, but the one that `receive` is about to carry out. A start has the highest number of flash when it writes its RUN, so nothing acknowledged is above it. |
| `MotionKnownWhileReadable`, `MotionKnown` (controller) | the core forgets a turning motor only where `begin` rejects the journal. With flash that can be read and at most one pending program in it (`Readable`) it never does. The hypothesis is on the behaviour in the first theorem and on the constants in the second, which derives it from `CoreInvariant`; it is needed, see run `pump_two_programs`. |
| `FeedTypeCorrect`, `StateAdvances` (feed) | the snapshot is the last current packet of the observed session, and sessions are observed in the order of their boots. |
| `OfflineIsTrue`, `ConfirmedByAnother`, `RebootsAreCounted` (feed) | the worker decides on a clock of the past (`WorkerInv`), so what was silent then is silent now; the packet that raised the reboot incident stays among what was heard of its boot (`IncidentInv`), so delivered again it is stale; there are as many reboots as boots heard of, less the first (`CountInv`). |
| `AlarmsTypeCorrect`, `FailureIncidentTells` (alarms) | at most one failure incident is open and the command it names did fail; so a success of an older command is never newer than the last failure. |
| `AlarmsDebounced` (alarms) | `HeardInv`: what the rule has pending counts no more than the last readings that were judged, which all fell on that side of the thresholds they were read under; an edit changes the configuration and leaves the count and the history, a reading without a rule or a value leaves both sides. `AlarmIsDebounced` itself says nothing of the count. |
| `SchedulesTypeCorrect`, `StartRunsOnce`, `RunsFollowOneAnother`, `StartsAreSentInTime` (schedules) | every step keeps the rule and start of each entry of the journal, or appends one entry where there is none of that start and nothing pending (`StepKinds`). |
| `StopIsKept`, `SerialStopsAreKept` (schedules) | as long as each Stop takes effect after those received before it (`StopsInOrder`), the saved time is not before that of any Stop in effect and nothing pending starts before it (`StopInv`). Any number of Stops of which no two wait for the device side by side (`SerialStops`) are in that order, because the clock does not go back (`WaitingInv`). The hypothesis is on the behaviour, and needed: run `schedules_two_stops`. |
| `DueStartsAreJournaled` (schedules) | a rule whose revision stays and whose due start is no longer its next one was moved on by the worker (`MovesOn`), and each of the three steps that do so find or write the entry. |
| `CardInvariant`, `StopsAreLast`, `StartsAreAccounted`, `CommandsActOnWhatWasSeen` (command card) | `CardInv`: requests are confirmed in order, and while a Stop is confirmed at most one earlier request is without a receipt. The Stop names it, or what that one names in turn (`Tied`), and the server keeps what a Stop names; so whatever is still under way or may be repeated is `Covered`. `StopIsLast` alone speaks of rows and is not inductive: it says nothing of the POST that has not arrived. |
| `PollingInvariant`, `FreshDataIsRecent` (live data) | an answer is given after its request was begun, so the age it states, counted from that moment, is never too small (`AgeIsNotUnderstated`); a page that is seen was rendered within the second (`ClockOrder`). |
| `DeskInvariant`, `MarksAreRepeatedOnSight` (incidents, notifications) | nothing is read while a request is under way, so a page read after a result was read after all requests; only reading again takes an unknown result away from the view. |
| `DriveInvariant`, `SettingsWriteOverWhatWasSeen`, `StartsSeeSettings` (drive settings) | a setting is admitted only when each earlier one was observed or was given up unsent (`OnlyNewestUnseen`), so a write that a sample does not show is that of a command numbered above what the sample tells of (`WritesAreTold`), and a start waits for it. What the operator saw is the value the controller compares (`SeenIsExpected`); while a change is carried out (`CarriesOut`) each register it has still to write is as it was shown, or the panel has changed it since the comparison (`ShownStill`). |
| `ScheduleInvariant`, `SavedAsPreviewed`, `FormsAgree`, `WritesReplaceWhatWasSeen` (schedule editor) | a revision names one state of a rule: each list that was read, the form, the dialog and every write under way hold a revision with the row that was seen at it (`SeenRow`), and the server compares revisions only. A preview is of the present form, since each edit forgets it. `FormAgrees` compares the two checks of a run, which the code states differently, clause by clause. |
| `MembershipInvariant`, `MembershipsTypeCorrect`, `SomeoneStaysManager`, `RevivedByASight`, `GrantsAreStanding` (members) | of what a request has checked under its locks the part `CheckedSafe` stays true until it commits, because whoever could change it needs one of these locks (`CheckedAreSafe`, `Exclusive`): a change of an owner or a head administrator leaves another one, an owner has no limits, what is turned on was seen as turned off, who joins is not a member yet, and the membership of a member who invited still gives the right to. Not among it is the check that the sites of a scope exist, which a removal makes false (run `members_site`), nor that accounts are active. The removal takes no lock of the organization but touches no owner and nobody who may invite, and turns nothing on. What a page shows of a person is the row of that revision (`SeenInv`). |
| `SessionInvariant`, `SecretsAreLive`, `LogoutsRevoke` (session) | `SecretInv`: the requests for the lock are ordered, so it has one owner; whatever carries or changes the cookie is the owner's (`LockIsHeld`); a request carries the cookie and an answer the newest secret of its session (`RequestsAreSound`); and the secret of the cookie is the one the server accepts, unless the session has ended or the newer one is on its way or lost (`CookieIsKnown`). |
| `LoggedOutStays` (session) | `NewsInv`: every session that was left was left at some stamp (`LeftAt`). Each token in a tab, each snapshot on its way and what a failed logout may bring back is older than that stamp; whoever knows the session has handled the news or has it in its channel; and a request for a snapshot is answered by a tab that will handle the news first, or is asked by one that has it. The last part is what `LoggedOutStaysOut` lacks: without it a tab that asks while the news is on its way could be told of the session after it. |
| `FirstInvariant`, `SessionEndsByServer` (session) | `FirstInv`: as long as nobody has logged in anew there is one session in the browser. Every token in a tab or on its way, and the cookie, is of that session (`OnlySession`), so the server's verdict on the cookie is a verdict on what the tab shows; an empty cookie or a tombstone means that its logout was confirmed; a refused refresh had a cookie that is not the accepted one (`RefusedByServer`). Every step keeps what a tab knows `Sound`, and where a tab gives up, the step, the state of its refresh and the reason are compared case by case: a tab that took an answer is authenticated, a tab that is content with a peer's token has it. `HandedOlder` is what is left of the second case. |
| `JournalInvariant`, `JournalPagesFollow` (journal of commands) | `JournalInv` follows what an answer holds from the request to the page that is shown: consecutive rows right before the cursor it was asked with (`Consecutive`, `BeforeCursor`), whatever is added at the head. The cursors of the pages that were turned lie exactly one page apart, so turning back finds the same rows. `JournalIsContiguous` alone speaks of the page that is shown and is not inductive: the answer may still be on its way. |

Every property of the run `console` is stated by a theorem. In `MCConsole` each screen has its
own invariant, and the steps of the other screens leave its variables alone.

Only model-checked: liveness (`EventuallyDecided`, `RecoveryStops`, `SilenceIsReported`,
`DueIsSettled`) with the liveness part of `KeepsPromise`, which are out of reach of the prover. Every
invariant and every action property of a passing run is stated by a theorem. `Rows` of the lists says
of each row how many newer ones come before it, and not that it is a sorted arrangement: that one
exists would be an induction over the rows, which is out of reach too.

Proved without a run of their own: `DiagnosisOfNewest`, `DecidedForGood`, `WithdrawnNeverLeft`,
`OneRebootPerBoot`, `OfflineIsSilent`, `OneAtATime`, `SentInTime`, `UnarmedIsStopping`,
`RunIsPermitted`, `EnabledAsPreviewed`.

## Disagreements found

- **Two pending programs make the controller forget a turning motor** (`core.cpp:409-411`,
  `206-217`; run `pump_two_programs`). A failed flash write leaves a pending record in RAM, a later
  save makes it durable, and a restart with two pending programs clears the journal and refuses to
  begin. `docs/v3-su600-bench.md:195` says that a possible RUN requires a verified stop after a
  reboot.
- **A duplicate does not reproduce the saved answer** (`core.cpp:366-380`; no run of its own).
  A command that comes without a clock, outside its time or with a number that is not new is answered
  as failed, and nothing is saved. So a Start that was refused for want of a clock is accepted when it
  is delivered again and gets another final answer, and one that was carried out and has left the
  ledger is answered as failed. `docs/v3-remote-operation.md:20` says that duplicates only reproduce
  the saved answer. `StaleIsFinal` says what is left: a refusal for the number is the end of a command.
- **An older Stop moves the saved time of the last Stop back** (`commands.py:118`, `149`; run
  `schedules_two_stops`). The time is stamped before the lock and assigned, not maximised, so the
  start that the newer Stop should have prevented is queued by the worker.
  `docs/control-schedules-v1.md:168` says that the saved date prevents the race.
- **A refresh that fails for a moment logs every tab out** (`access-context.tsx:136`; run
  `session_failure`). The profile request waits for the refresh, finds no token and raises its own
  401, which the page takes for a verdict of the server. `docs/stage-10-op2-session-recovery.md:160`
  says that a temporary failure shows `degraded` and does not destroy the session.
- **A scope may point at a removed site** (`api/v1/staff.py:206`; run `members_site`). The removal
  locks the site and the rows it finds but not the organization, so a change that was checked before
  it commits after it. The comment at that line says that nothing must point at a removed object.
- **A message leaves after an edit that should stop it** (`command_dispatch.py:97-98`; in
  `ScheduledRuns`, without a run). The revision is checked under the lock, the message leaves after
  it. `docs/control-schedules-v1.md:171` says that the old command is no longer delivered.

Observations without a run, met while modelling:

- when the answer of a rotation is lost the browser keeps the old cookie (budget `Replaced` of the
  session): its next refresh is refused and the tab gives up a session the server still accepts, and
  its next logout is confirmed although it ends nothing, because `AuthService.logout`
  (`backend/app/services/auth.py:203-215`) answers an unknown secret like a known one. The page then
  says that the session has ended, which `docs/stage-10-op4-logout-and-failures.md:92` promises of a
  confirmed logout. `PresentsLiveSecret`, `LogoutRevokes` and `EndedByServer` name the case with `lost`;
- with three tabs a live session may be given up everywhere: a tab whose refresh waits for the lock
  takes over a newer snapshot and then hears the late, older answer of a third tab; the refresh is
  content with that answer because it is newer than the one it began with, `applyPeerSnapshot` is
  not because the tab knows a newer one (`auth-session.tsx:173-203`), and the profile request that
  waits ends the session (`access-context.tsx:136`). A request that is repeated with a token that runs
  out on its way ends it too. `EndedByServer` names them as `HandedOlder` and `RefusedTwice`; they were
  found when its proof failed, and the run reaches the second (budget `Worn`);
- the count of a rule that has not yet opened its incident survives an edit of the rule
  (`capabilities.py:137-144` replaces the configuration only), so an incident may open with fewer
  readings beyond its present threshold than its debounce: those before the edit were beyond the old
  one. Readings while the rule is off, or without its metric, neither count nor interrupt the count;
- a confirmed acknowledgement whose re-read is cut off by hiding the page leaves the old state with
  an enabled confirm button; only the idempotence of the server makes that harmless;
- a settings change whose message is lost stays `result_unknown` and unobserved, and blocks every
  start until a Stop raises the sequence (`vfd_settings.py:51-56`); a POST that never arrived leaves
  the editor busy until the page is left (`vfd-settings.tsx:47`, `96`); what the panel changes between the
  controller's comparison and its writes (`core.cpp:830-849`, `865-874`) is overwritten unseen, the one
  exception `WritesOverWhatWasSeen` makes; and the effect is recognised by comparing the clock of the device with that of the server (`vfd_settings.py:40-44`);
- the access of a customer may be restored with a scope that was emptied in between by the removal of
  a site, which makes it access to the whole organization (`memberships.py:213-223`);
- a head administrator whose invitation is being accepted may lose that position between the check and
  the commit: `validate_inviter` (`invitations.py:156-163`) reads the account without a lock, and the
  acceptance holds those of the organization and of the one who accepts. `GrantedByStanding` speaks of
  invitations whose author invites as a member; it was stated more widely until its proof failed. Nor
  does a lock cover the author's account, which may be switched off (`staff.py:90`) after it was found
  active (`invitations.py:174`), so the property is about the membership alone;
- the check for the last owner counts owners whose account is switched off, and `change_user`
  (`staff.py:103-111`) looks without the lock of the organization, so an organization may be left
  without an owner who can log in; the mail of an invitation leaves before its commit
  (`invitations.py:144-152`);
- the events of a device offer `next` on a last page that is exactly full (`device-events.tsx:96`).

## Assumptions and what is left out

- `CommandQueue`: the verdict of the dispatch policy may fall either way at any attempt; restoring a
  database is left out.
- `PumpController`: the drive reports RUN as soon as it has taken the RUN word, a read that succeeds
  is true, writes may be lost, and each check of the clock, a TTL or a configuration may fall
  either way. Motion that the local panel causes, rebinding of the equipment and error codes are left
  out; the two settings commands are in `DriveSettings`. Refusals, which are answered and not
  recorded, are kept apart from the answers of records (`refused`, one per instance). `StopOutranks` speaks of Stops that are not answered as failed: an
  acknowledged Stop that then proves expired does not stop a program.
- `DeviceFeed`: packets without a session or a number (older firmware), the values, clocks that step
  back. The first packet of a boot comes before those of later boots (`Deliverable`): the broker
  closes the old connection first and hands over in order; `system_alarms.py:157` would otherwise take
  an old boot for a new one.
- `DriveSettings`: a failed save is a change that is abandoned or not answered; power failures during
  a change are left out (a settings record that is pending at boot is not carried out again), and so are
  the STOP word and the zero frequency that precede a change of the sources.
- `DeviceAlarms`: one rule, one type of command; times stamped under the lock, so the branches of
  `alarms.py` for late raises and recoveries have no caller; an incident whose rule is disabled or
  renamed stays open (`alarm_rule_engine.py:79`; no document says what should happen).
- `ScheduledRuns`: a rule is the set of its starts; civil time is one possible shift of all
  starts; verdicts on capabilities, limits, availability and the state of the pump fall either
  way; whether a user may give commands changes at any time. The acknowledged command counts as
  published.
- `PanelPolling`: `performance.now()` runs evenly with the server's clock and does not pause while
  the machine sleeps; a page is rendered anew each second.
- `ScheduleEditor`: `FormAgreesWithServer` is about the interval and its frequency changes; names,
  frequencies and dates are passed on.
- `BrowserSession`: stamps are distinct and the machine's clock is not set back; the fallback of the
  lock by storage, the countdown of the throttle and other browsers of the user are left out.
- `Memberships`: expiry of memberships and links, archived organizations, the limit of fifty
  invitations, operator and service roles (which differ in nothing here from the viewer's).
- `ConsoleLists`: rows are only added; filters and search are left out.

Not modelled: the lifecycle of controllers and equipment (a module of its own, see the plan); read
models and audit (queries and append-only records); registration and recovery by mail; screens that
only render what they read (navigation, charts, diagnostics); demo and bench tooling; Modbus frames,
Wi-Fi and LTE drivers (I/O); backup and restore as offline tools.

## Plan

Done: `CommandQueue` with its refinement of `CommandPromise`, `PumpController`, `DeviceFeed`,
`DeviceAlarms`, `ScheduledRuns`, the screens of the browser, its session, and the members of an
organization, each with the theorems above.

1. `EquipmentBinding` (`equipment.py`, `controller_lifecycle.py`, `onboarding.py` with the grants of
   the controller): configuration and confirmation between server and controller, commands on
   their way during a change, rotation, release and factory reset. Runs with one controller, two
   configurations, one command. To prove: a command reaches only the equipment it names.
2. `RemoteControl`: the queue and the journal of the controller joined by MQTT, with a restored
   database and the sequence floor of `telemetry.py:184-187`. To prove: a command numbered below
   what the controller has seen never runs.
3. Firmware connectivity and provisioning (`cellular.h`, `provisioning.h`).
