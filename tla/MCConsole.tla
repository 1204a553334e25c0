------------------------------ MODULE MCConsole ------------------------------
(***************************************************************************)
(* The screens of the browser, on small instances.  A person works on one  *)
(* screen at a time and the screens share no state but what they read from *)
(* the server, so each behaviour is that of one screen and its server,     *)
(* and only the variables of this screen tell its states apart.            *)
(***************************************************************************)
EXTENDS Naturals, MCPeople

CONSTANTS Screens,
          RuleIds, Day, MaxDays, MaxRun, MaxRules, Saved, MaxSends, MaxEdits, MaxOthers,
          MaxMarks, MaxReads, MaxTurns,
          Oldest, MaxRows, Page, Workers, MaxListReads, MaxPages,
          Parts, Remote, MaxCommands, MaxSamples, MaxPanel,
          MaxRequests, MaxAttempts, MaxChanges, MaxAways, Bounds,
          StaleAfter, Timeout, Interval, RetryAfters, MaxTime, MaxFailures,
          People, Places, MaxWrites, MaxLinks, Casts

VARIABLES screen,
          rules, wire, listed, listRead, draft, preview, confirmation, action, active,
          sends, edits, others,
          desk, item, mayMark, posts, page, reading, mark, outcome, dialog, present,
          marks, reads, turns,
          list, newest, open, gone, selection, asked, shown, presence, onPage, listReads,
          setting, drive, doing, highest, commands, results, sample, snapshot, view, change, sending,
          intent, samples, panel,
          row, number, target, equipment, cardPosts, intents, cardShown, cardDialog, pending,
          uncertain, sendings, available, late, aways, bound, seen, receipts, given,
          now, newestReading, visible, online, poll, rendered, fetch, data, budget, timer,
          members, accounts, signedIn, places, links, requests, pages, asks

scheduleVars == <<rules, wire, listed, listRead, draft, preview, confirmation, action, active,
                  sends, edits, others>>
itemVars == <<desk, item, mayMark, posts, page, reading, mark, outcome, dialog, present,
              marks, reads, turns>>
rowVars == <<list, newest, open, gone, selection, asked, shown, presence, onPage, listReads>>
driveVars == <<setting, drive, doing, highest, commands, results, sample, snapshot, view, change,
               sending, intent, samples, panel>>
cardVars == <<row, number, target, equipment, cardPosts, intents, cardShown, cardDialog, pending,
              uncertain, sendings, available, late, aways, bound, seen, receipts, given>>
queryVars == <<now, newestReading, visible, online, poll, rendered, fetch, data, budget, timer>>
accessVars == <<members, accounts, signedIn, places, links, requests, pages, asks>>

\* A run over midnight with two changes.
LongNight == {[start |-> 0, stop |-> [day |-> 1, at |-> 1],
               changes |-> <<[day |-> 0, at |-> 1], [day |-> 1, at |-> 0]>>,
               rest |-> "first"]}

\* Three commands whose sendings may be lost or arrive at any later time; two on a
\* page that may be left, over equipment that may be changed.
Usual == {[requests |-> 3, attempts |-> 3, changes |-> 0, aways |-> 0],
          [requests |-> 2, attempts |-> 2, changes |-> 1, aways |-> 1]}

Schedules == INSTANCE ScheduleEditor
Desk == INSTANCE AlarmDesk
Rows == INSTANCE ConsoleLists
Drive == INSTANCE DriveSettings
Card == INSTANCE CommandPanel WITH posts <- cardPosts, shown <- cardShown, dialog <- cardDialog
Polling == INSTANCE PanelPolling WITH reading <- newestReading
Access == INSTANCE Memberships

\* What the proofs about these screens assume of their constants.
ASSUME EditorAssumption == Schedules!ConstantsAssumption
ASSUME QueryAssumption == Polling!ConstantsAssumption
ASSUME AccessAssumption == Access!CastsAssumption
ASSUME CardAssumption == Card!BoundsAssumption
ASSUME ListsAssumption == Rows!ConstantsAssumption
ASSUME DriveAssumption == Drive!SettingsAssumption

\* A screen that is not open has one initial state.
Init ==
    /\ screen \in Screens
    /\ Schedules!Init /\ Desk!Init /\ Rows!Init /\ Drive!Init /\ Card!Init /\ Polling!Init
    /\ Access!Init
    /\ screen # "schedules" => \A id \in RuleIds : rules[id].rev = 0
    /\ screen # "item" => desk = "alarm"
    /\ screen # "lists" => list = Rows!CommandJournal
    /\ screen # "drive" => setting = "parameter"
    \* Which of its values a parameter has first makes no difference; sources that are not
    \* with the server come about by a change, at the panel or from the page.
    /\ setting = "parameter" => drive.value = Drive!Parameter(Remote)
    /\ setting = "source" => drive.value = Drive!Source(Remote)
    /\ screen # "members" => members = Office.members
    /\ screen # "card" => bound = CHOOSE b \in Bounds : TRUE

ScheduleStep ==
    /\ screen = "schedules" /\ Schedules!Next
    /\ UNCHANGED <<screen, itemVars, rowVars, driveVars, cardVars, queryVars, accessVars>>
ItemStep ==
    /\ screen = "item" /\ Desk!Next
    /\ UNCHANGED <<screen, scheduleVars, rowVars, driveVars, cardVars, queryVars, accessVars>>
ListStep ==
    /\ screen = "lists" /\ Rows!Next
    /\ UNCHANGED <<screen, scheduleVars, itemVars, driveVars, cardVars, queryVars, accessVars>>
DriveStep ==
    /\ screen = "drive" /\ Drive!Next
    /\ UNCHANGED <<screen, scheduleVars, itemVars, rowVars, cardVars, queryVars, accessVars>>
CardStep ==
    /\ screen = "card" /\ Card!Next
    /\ UNCHANGED <<screen, scheduleVars, itemVars, rowVars, driveVars, queryVars, accessVars>>
QueryStep ==
    /\ screen = "query" /\ Polling!Next
    /\ UNCHANGED <<screen, scheduleVars, itemVars, rowVars, driveVars, cardVars, accessVars>>
MembersStep ==
    /\ screen = "members" /\ Access!Next
    /\ UNCHANGED <<screen, scheduleVars, itemVars, rowVars, driveVars, cardVars, queryVars>>

Next == ScheduleStep \/ ItemStep \/ ListStep \/ DriveStep \/ CardStep \/ QueryStep \/ MembersStep
Spec == Init /\ [][Next]_<<screen, scheduleVars, itemVars, rowVars, driveVars, cardVars, queryVars, accessVars>>

\* The state of the screen that is open: the other screens stay as they were.
OnScreen ==
    <<screen,
      CASE screen = "schedules" -> scheduleVars [] screen = "item" -> itemVars
        [] screen = "lists" -> rowVars [] screen = "drive" -> driveVars
        [] screen = "card" -> cardVars [] screen = "query" -> queryVars
        [] screen = "members" -> accessVars>>

\* The properties of the screens (each stated in its module), looked at where a step can
\* break them.
EnabledAsPreviewed == screen = "schedules" => Schedules!EnabledAsPreviewed
FormAgreesWithServer == screen = "schedules" => Schedules!FormAgreesWithServer
ReplacesWhatWasSeen == Schedules!ReplacesWhatWasSeen
RepeatedOnSight == Desk!RepeatedOnSight
JournalIsContiguous == screen = "lists" => Rows!JournalIsContiguous
WritesOverWhatWasSeen == Drive!WritesOverWhatWasSeen
StartSeesSettings == Drive!StartSeesSettings
StopIsLast == screen = "card" => Card!StopIsLast
Accounted == screen = "card" => Card!Accounted
ActsOnWhatWasSeen == screen = "card" => Card!ActsOnWhatWasSeen
FreshIsRecent == screen = "query" => Polling!FreshIsRecent
SomeoneManages == [][screen = "members" => Access!KeepsManagers]_accessVars
RevivedOnSight == [][screen = "members" => Access!RevivesOnSight]_accessVars
GrantedByStanding == [][screen = "members" => Access!GrantsByStanding]_accessVars
=============================================================================
