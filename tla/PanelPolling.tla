---------------------------- MODULE PanelPolling ----------------------------
(***************************************************************************)
(* How a device page keeps its overview up to date and what it dares to    *)
(* show of it: usePanelQuery and its PollingBudget, the overview query of  *)
(* DevicePanel, and the ageing of a snapshot by useElapsedSeconds and      *)
(* effectiveQuality (frontend/src/features/use-panel-query.ts,             *)
(* device-overview.tsx, use-elapsed-seconds.ts, lib/api/polling-policy.ts, *)
(* lib/api/overview.ts).                                                   *)
(*                                                                         *)
(* Time is counted in seconds of performance.now(), which is assumed to    *)
(* run evenly with the server's clock (the two are never compared, only    *)
(* intervals are).  The page renders its ages anew each second.            *)
(***************************************************************************)
EXTENDS Naturals

CONSTANTS StaleAfter,   \* freshness.stale_after_seconds
          Timeout,      \* a request is given up after so long
          Interval,     \* the polling interval
          RetryAfters,  \* what a Retry-After header may ask for
          MaxTime,      \* bound of the model on time
          MaxFailures   \* bound of the model on failed requests

\* What the properties assume of the constants.
ConstantsAssumption ==
    /\ StaleAfter \in Nat /\ Timeout \in Nat \ {0} /\ Interval \in Nat \ {0}
    /\ RetryAfters \subseteq Nat
    /\ MaxTime \in Nat /\ MaxFailures \in Nat

VARIABLES
    now,        \* seconds
    reading,    \* when the server received the newest reading of the device
    visible,    \* the page is visible and its section is open
    online,     \* navigator.onLine
    poll,       \* polled by itself (not "by hand only", not another section)
    rendered,   \* the second for which the ages on the page were computed
    fetch,      \* the request under way
    data,       \* the overview on the page
    budget,     \* PollingBudget
    timer       \* when the next automatic refetch is due

vars == <<now, reading, visible, online, poll, rendered, fetch, data, budget, timer>>

Errors == {"none", "transient", "final"}

\* start: when the request was begun; age, of: what the server answered, the age
\* of the reading and (history) when it had been received.
NoFetch == [on |-> FALSE, start |-> 0, answered |-> FALSE, age |-> 0, of |-> 0]
NoData == [known |-> FALSE, receivedAt |-> 0, age |-> 0, of |-> 0]
NewBudget == [failures |-> 0, error |-> "none", next |-> 0, retry |-> 0]

TypeOK ==
    /\ now \in Nat /\ reading \in Nat /\ rendered \in Nat /\ timer \in Nat
    /\ visible \in BOOLEAN /\ online \in BOOLEAN /\ poll \in BOOLEAN
    /\ fetch \in [on : BOOLEAN, start : Nat, answered : BOOLEAN, age : Nat, of : Nat]
    /\ data \in [known : BOOLEAN, receivedAt : Nat, age : Nat, of : Nat]
    /\ budget \in [failures : Nat, error : Errors, next : Nat, retry : Nat]

Init ==
    /\ now = 0 /\ reading = 0 /\ rendered = 0 /\ timer = 0
    /\ visible = TRUE /\ online = TRUE /\ poll = TRUE
    /\ fetch = NoFetch
    /\ data = NoData
    /\ budget = NewBudget

Active == visible /\ online
Later(a, b) == IF a > b THEN a ELSE b

-----------------------------------------------------------------------------
(* PollingBudget.                                                          *)

\* A refresh by hand waits for Retry-After only, an automatic one for the backoff.
Blocked(byHand) == now < (IF byHand THEN budget.retry ELSE budget.next)

\* Beyond the end of time.
Never == MaxTime + 1

\* interval(): when refetchInterval fires next; nothing is polled by itself after
\* an error that will not pass.
NextDue(b) ==
    IF ~poll \/ b.error = "final" THEN Never
    ELSE IF b.error = "none" THEN now + Interval
    ELSE Later(now + 1, b.next)

Doubled == <<1, 2, 4, 8, 16, 32>>
Backoff(n) == Interval * Doubled[IF n < 6 THEN n ELSE 6]

AfterFailure(error, wait) ==
    LET retry == IF wait = 0 THEN 0 ELSE now + wait
        n == budget.failures + 1
    IN [failures |-> n, error |-> error, retry |-> retry, next |-> Later(now + Backoff(n), retry)]

-----------------------------------------------------------------------------
(* usePanelQuery.                                                          *)

Begun == [on |-> TRUE, start |-> now, answered |-> FALSE, age |-> 0, of |-> 0]

\* The timer, the first mount, or the return to the page.
Refetch ==
    /\ Active /\ ~fetch.on
    /\ ~data.known \/ poll
    /\ now >= timer
    /\ IF budget.error # "none" /\ (Blocked(FALSE) \/ budget.error = "final")
       THEN \* queryFn throws the old error, no request is sent
            /\ timer' = NextDue(budget)
            /\ UNCHANGED fetch
       ELSE /\ fetch' = Begun
            /\ UNCHANGED timer
    /\ UNCHANGED <<now, reading, visible, online, poll, rendered, data, budget>>

\* The button.
Refresh ==
    /\ Active /\ ~fetch.on
    /\ ~Blocked(TRUE)
    /\ fetch' = Begun
    /\ UNCHANGED <<now, reading, visible, online, poll, rendered, data, budget, timer>>

\* get_device_overview: the age of the reading at the moment of the answer.
Answer ==
    /\ fetch.on /\ ~fetch.answered
    /\ fetch' = [fetch EXCEPT !.answered = TRUE, !.age = now - reading, !.of = reading]
    /\ UNCHANGED <<now, reading, visible, online, poll, rendered, data, budget, timer>>

\* Mutant: the snapshot is as old as its arrival.
ArrivedAt == now

\* receivedAt is when the request was begun.
ReceivedAt == fetch.start

Succeed ==
    /\ fetch.on /\ fetch.answered
    /\ data' = [known |-> TRUE, receivedAt |-> ReceivedAt, age |-> fetch.age, of |-> fetch.of]
    /\ budget' = NewBudget
    /\ timer' = NextDue(NewBudget)
    /\ fetch' = NoFetch
    /\ UNCHANGED <<now, reading, visible, online, poll, rendered>>

Failed(error, wait) ==
    /\ budget' = AfterFailure(error, wait)
    /\ fetch' = NoFetch
    /\ timer' = NextDue(AfterFailure(error, wait))

\* The network, a timeout, the server (with or without Retry-After), the rights.
Fail ==
    /\ fetch.on
    /\ budget.failures < MaxFailures
    /\ \/ Failed("transient", 0)
       \/ \E wait \in RetryAfters : Failed("transient", wait)
       \/ Failed("final", 0)
    /\ UNCHANGED <<now, reading, visible, online, poll, rendered, data>>

\* The request under way is cancelled when the page cannot use it.
Hide ==
    /\ visible
    /\ visible' = FALSE
    /\ fetch' = NoFetch
    /\ UNCHANGED <<now, reading, online, poll, rendered, data, budget, timer>>

\* visibilitychange: the ages are computed anew, the query is enabled again.
Show ==
    /\ ~visible
    /\ visible' = TRUE
    /\ rendered' = now
    /\ timer' = now
    /\ UNCHANGED <<now, reading, online, poll, fetch, data, budget>>

Disconnect ==
    /\ online
    /\ online' = FALSE
    /\ fetch' = NoFetch
    /\ UNCHANGED <<now, reading, visible, poll, rendered, data, budget, timer>>

Connect ==
    /\ ~online
    /\ online' = TRUE
    /\ timer' = now
    /\ UNCHANGED <<now, reading, visible, poll, rendered, fetch, data, budget>>

\* The operator chooses how often, or goes to another section of the device.
SwitchPolling ==
    /\ poll' = ~poll
    /\ timer' = IF poll THEN Never ELSE IF Active THEN now ELSE timer
    /\ UNCHANGED <<now, reading, visible, online, rendered, fetch, data, budget>>

-----------------------------------------------------------------------------
(* Time.                                                                   *)

\* The interval timer of useElapsedSeconds.
Render ==
    /\ visible /\ rendered # now
    /\ rendered' = now
    /\ UNCHANGED <<now, reading, visible, online, poll, fetch, data, budget, timer>>

\* A visible page renders each second; a request lasts no longer than its timeout.
Tick ==
    /\ now < MaxTime
    /\ visible => rendered = now
    /\ fetch.on => now < fetch.start + Timeout
    /\ now' = now + 1
    /\ UNCHANGED <<reading, visible, online, poll, rendered, fetch, data, budget, timer>>

\* Telemetry of the device reaches the server.
Receive ==
    /\ reading # now
    /\ reading' = now
    /\ UNCHANGED <<now, visible, online, poll, rendered, fetch, data, budget, timer>>

Query == Refetch \/ Refresh \/ Answer \/ Succeed \/ Fail
Environment == Hide \/ Show \/ Disconnect \/ Connect \/ SwitchPolling \/ Receive
Next == Query \/ Environment \/ Render \/ Tick

Spec == Init /\ [][Next]_vars

-----------------------------------------------------------------------------
(* What the page shows.                                                    *)

\* DevicePanel shows no overview after an error.
Displayed == visible /\ data.known /\ budget.error = "none"

Elapsed == IF rendered > data.receivedAt THEN rendered - data.receivedAt ELSE 0

\* effectiveQuality of a reading that the server called fresh (the code also adds
\* the lag between report and receipt, which ends freshness sooner).
Quality == IF data.age + Elapsed <= StaleAfter THEN "fresh" ELSE "stale"

ShownFresh == Displayed /\ Quality = "fresh"

-----------------------------------------------------------------------------
(* Properties.                                                             *)

\* What the page calls fresh data (and bases its Start button on) is a reading the
\* server received no longer than stale_after ago, give or take the second in
\* which the page renders: however slow the answer, however long the page has
\* been offline or polling paused since.
FreshIsRecent == ShownFresh => now - data.of <= StaleAfter + 1
=============================================================================
