--------------------------- MODULE BrowserSession ---------------------------
(***************************************************************************)
(* The session of one browser, shared by its open tabs: login, rotation of *)
(* the refresh cookie, recovery after a reload, logout, the messages with  *)
(* which the tabs keep each other up to date, and the profile request with *)
(* which a workspace page begins (frontend/src/features/auth-session.tsx,  *)
(* auth-session-runtime.ts, auth-coordination.ts, access-context.tsx).     *)
(*                                                                         *)
(* A token pair is a number: the refresh secret in the cookie and the      *)
(* access token of one answer of the server bear the same one.  Answers    *)
(* are numbered in the order the server gives them; a session bears the    *)
(* number of the login that began it.  Stamps (Date.now() in the code) are *)
(* drawn from a counter: two stamped events never fall into one            *)
(* millisecond and the clock of the machine is not set back.               *)
(***************************************************************************)
EXTENDS Naturals, Sequences, FiniteSets

CONSTANTS Tabs,        \* the tabs of the browser
          MaxTokens,   \* bound: answers with a token pair
          Budgets      \* bounds: how often the environment may do what, one is chosen

\* What is bounded: answers with a token pair, tabs opened (a reload closes and opens),
\* logins and logouts asked for, times an access token comes closer to its end, requests
\* without an answer, sessions ended by the server on its own.
Bounded == {"tokens", "opens", "logins", "logouts", "ages", "faults", "revokes"}

ASSUME BoundsAssumption ==
    /\ MaxTokens \in Nat \ {0}
    /\ Budgets \subseteq [Bounded -> Nat]
    /\ \A budget \in Budgets : budget["tokens"] < MaxTokens

Tokens == 1 .. MaxTokens
None == 0                       \* no token, no stamp

VARIABLES
    secret,   \* session -> the refresh secret the server accepts, None once ended
    sess,     \* token -> its session
    top,      \* tokens given out
    age,      \* token -> how far its access token is from its end
    cookie,   \* the refresh cookie of the browser
    marker,   \* stamp of the logout tombstone in localStorage, None if absent
    queue,    \* <<tab, operation>> that asks for the auth lock -> those before it
    chan,     \* tab -> messages of the BroadcastChannel it has yet to handle
    tab,      \* tab -> its state
    clock,    \* the last stamp drawn
    left,     \* how often the environment may still do what is bounded
    ended,    \* history: sessions that a logout of this browser ended
    loginAt,  \* history: stamp of the newest login
    lost      \* history: tokens whose answer did not reach the browser

vars == <<secret, sess, top, age, cookie, marker, queue, chan, tab, clock, left, ended, loginAt,
          lost>>
server == <<secret, sess, top>>
history == <<ended, loginAt, lost>>

-----------------------------------------------------------------------------
(* State of a tab.  rf, li and lo are the stages of its refresh, its login *)
(* and its logout; rfTok, liTok and loTok the cookie the request carries,  *)
(* then the token it was answered.  me is the stage of the profile request *)
(* of the page and meTok the access token it carries.                      *)

Statuses == {"closed", "restoring", "anonymous", "authenticated", "unavailable",
             "logging-out", "logout-failed"}
Reasons == {"none", "ended", "logout"}
Stages == {"none", "queued", "sent", "ok"}
RefreshStages == Stages \cup {"startup", "asking", "refused"}
PageStages == {"none", "wait", "sent", "again", "resent"}
MaybeToken == Tokens \cup {None}

ClosedTab ==
    [status |-> "closed", reason |-> "none", tok |-> None, at |-> None,
     peer |-> None, peerAt |-> None, intent |-> FALSE, back |-> None, cool |-> FALSE,
     rf |-> "none", rfTok |-> None, base |-> None, li |-> "none", liTok |-> None,
     lo |-> "none", loTok |-> None, me |-> "none", meTok |-> None]

TabState ==
    [status : Statuses, reason : Reasons, tok : MaybeToken, at : Nat, peer : MaybeToken,
     peerAt : Nat, intent : BOOLEAN, back : MaybeToken, cool : BOOLEAN,
     rf : RefreshStages, rfTok : MaybeToken, base : Nat, li : Stages, liTok : MaybeToken,
     lo : Stages, loTok : MaybeToken, me : PageStages, meTok : MaybeToken]

Message ==
    [type : {"request"}, from : Tabs \cup {None}]
      \cup [type : {"snapshot"}, tok : Tokens, at : Nat]
      \cup [type : {"cleared"}, reason : {"ended", "logout"}, at : Nat]

LockRequest == Tabs \X {"rf", "li", "lo"}

TypeOK ==
    /\ secret \in [Tokens -> MaybeToken]
    /\ sess \in [Tokens -> Tokens]
    /\ top \in 0 .. MaxTokens
    /\ age \in [Tokens -> {"fresh", "short", "dead"}]
    /\ cookie \in MaybeToken
    /\ marker \in Nat
    /\ DOMAIN queue \subseteq LockRequest
    /\ queue \in [DOMAIN queue -> SUBSET LockRequest]
    /\ chan \in [Tabs -> Seq(Message)]
    /\ tab \in [Tabs -> TabState]
    /\ clock \in Nat
    /\ left \in [Bounded -> Nat]
    /\ ended \subseteq Tokens
    /\ loginAt \in Nat
    /\ lost \subseteq Tokens

\* Every tab is closed; the cookie of an earlier visit still opens session 1.
Init ==
    /\ secret = [k \in Tokens |-> IF k = 1 THEN 1 ELSE None]
    /\ sess = [k \in Tokens |-> k]
    /\ top = 1
    /\ age = [k \in Tokens |-> "fresh"]
    /\ cookie = 1
    /\ marker = None
    /\ queue = [e \in {} |-> {}]
    /\ chan = [t \in Tabs |-> <<>>]
    /\ tab = [t \in Tabs |-> ClosedTab]
    /\ clock = 0
    /\ left \in Budgets
    /\ ended = {}
    /\ loginAt = None
    /\ lost = {}

-----------------------------------------------------------------------------
(* The lock, the channel and the parts the handlers share.                 *)

Enqueue(t, op) ==
    [e \in DOMAIN queue \cup {<<t, op>>} |-> IF e \in DOMAIN queue THEN queue[e] ELSE DOMAIN queue]
Without(requests) == [e \in DOMAIN queue \ requests |-> queue[e] \ requests]
Released(t, op) == Without({<<t, op>>})

\* Mutant: the lock is not waited for.
OwnsNothing(t, op) == <<t, op>> \in DOMAIN queue

Owns(t, op) == <<t, op>> \in DOMAIN queue /\ queue[<<t, op>>] = {}
Spend(b) == left[b] > 0 /\ left' = [left EXCEPT ![b] = @ - 1]

\* postMessage: every other open tab will handle the message.
Posted(c, t, m) ==
    [u \in Tabs |-> IF u = t \/ tab[u].status = "closed" THEN c[u] ELSE Append(c[u], m)]

Request(u) == [type |-> "request", from |-> u]
Snapshot(k, stamp) == [type |-> "snapshot", tok |-> k, at |-> stamp]
ClearedMessage(why, stamp) == [type |-> "cleared", reason |-> why, at |-> stamp]

\* isSnapshotUsable: more than five seconds of the access token are left.
Usable(k) == k # None /\ age[k] # "dead"
NewPeer(T) == Usable(T.peer) /\ T.peerAt > T.base

Leaving(T) == T.intent \/ T.status \in {"logging-out", "logout-failed"}
Receptive(T) == ~Leaving(T) /\ marker = None

\* A token is taken over unless the tab is leaving, a tombstone stands or it
\* knows something newer.
\* Mutant: an older event is taken as well.
TakesAnything(T, stamp) == Receptive(T)

Takes(T, stamp) == Receptive(T) /\ stamp >= T.at
WithToken(T, k, stamp) ==
    [T EXCEPT !.status = "authenticated", !.reason = "none", !.tok = k, !.at = stamp, !.cool = FALSE]
WithPeer(T, k, stamp) ==
    IF Takes(T, stamp) /\ Usable(k)
    THEN [WithToken(T, k, stamp) EXCEPT !.peer = k, !.peerAt = stamp] ELSE T

\* What clearing leaves of a tab.  Its requests are aborted and whoever waits
\* for the answer of a peer goes on without one: under the lock to the server.
Cleared(T, why, stamp) ==
    [T EXCEPT !.status = "anonymous", !.reason = why, !.tok = None, !.at = stamp,
              !.peer = None, !.peerAt = None, !.intent = FALSE, !.back = None, !.cool = FALSE,
              !.me = "none", !.meTok = None,
              !.rf = IF @ = "asking" THEN "sent" ELSE @,
              !.rfTok = IF T.rf = "asking" THEN cookie ELSE @]

\* refreshSession: refused while leaving, under a tombstone and during a
\* cooldown; joins the refresh that is under way; else queues for the lock.
RefreshRefused(T) == ~Receptive(T) \/ (T.rf = "none" /\ T.cool)
Refreshing(T) == IF T.rf = "none" THEN [T EXCEPT !.rf = "queued", !.base = T.at] ELSE T
QueueRefresh(t, T) == queue' = IF T.rf = "none" THEN Enqueue(t, "rf") ELSE queue

(* The end of a refresh in tab t: T is the tab as the refresh leaves it,   *)
(* ok its result.  A profile request that waited for it goes on with the   *)
(* new token; without one its error is a 401 to the workspace, which ends  *)
(* the session in every tab.                                               *)
RefreshEnds(t, T, ok, posted) ==
    LET R == [T EXCEPT !.rf = "none", !.rfTok = None]
        waits == R.me \in {"wait", "again"}
        resumed == [R EXCEPT !.me = IF @ = "wait" THEN "sent" ELSE "resent", !.meTok = R.tok]
    IN IF waits /\ ~ok /\ ~R.intent
       THEN /\ clock' = clock + 1
            /\ tab' = [tab EXCEPT ![t] = Cleared(R, "ended", clock + 1)]
            /\ chan' = Posted(posted, t, ClearedMessage("ended", clock + 1))
       ELSE /\ tab' = [tab EXCEPT ![t] = IF waits /\ ok THEN resumed
                                         ELSE IF waits THEN [R EXCEPT !.me = "none", !.meTok = None]
                                         ELSE R]
            /\ chan' = posted
            /\ UNCHANGED clock

\* clearSession of the workspace: everyone is told.
EndHere(t, T) ==
    /\ clock' = clock + 1
    /\ tab' = [tab EXCEPT ![t] = Cleared(T, "ended", clock + 1)]
    /\ chan' = Posted(chan, t, ClearedMessage("ended", clock + 1))

-----------------------------------------------------------------------------
(* A tab is opened and closed.                                             *)

\* A tombstone makes the new tab anonymous at once; else it asks its peers.
Open(t) ==
    /\ tab[t].status = "closed"
    /\ Spend("opens")
    /\ IF marker # None
       THEN /\ tab' = [tab EXCEPT ![t] = Cleared(ClosedTab, "logout", marker)]
            /\ chan' = chan
       ELSE /\ tab' = [tab EXCEPT ![t] = [ClosedTab EXCEPT !.status = "restoring", !.rf = "startup"]]
            /\ chan' = Posted(chan, t, Request(t))
    /\ UNCHANGED <<server, age, cookie, marker, queue, clock, history>>

\* Its memory is gone, an answer to what it asked its peers reaches nobody (a reloaded page
\* has another DOCUMENT_TAB_ID) and the browser hands the lock on.  A request that is under
\* way ends first, see RefreshFails and LoginFails.
Close(t) ==
    /\ tab[t].status # "closed"
    /\ \A op \in {"rf", "li", "lo"} : tab[t][op] \in {"none", "queued", "startup", "asking"}
    /\ tab' = [tab EXCEPT ![t] = ClosedTab]
    /\ chan' = [u \in Tabs |-> IF u = t THEN <<>> ELSE
                   [i \in DOMAIN chan[u] |-> IF chan[u][i] = Request(t) THEN Request(None) ELSE chan[u][i]]]
    /\ queue' = Without({e \in DOMAIN queue : e[1] = t})
    /\ UNCHANGED <<server, age, cookie, marker, clock, left, history>>

-----------------------------------------------------------------------------
(* Refresh.                                                                *)

\* The timer before the end of the token, a return to the tab, the 401 of a
\* request of the page, the retry after a failure, by timer or by hand.
Refresh(t) ==
    /\ \/ /\ tab[t].status = "authenticated"
          /\ age[tab[t].tok] # "fresh" \/ secret[sess[tab[t].tok]] = None
       \/ tab[t].status = "unavailable"
       \/ tab[t].status = "restoring" /\ tab[t].rf = "none"
    /\ tab[t].rf = "none"
    /\ ~RefreshRefused(tab[t])
    /\ tab' = [tab EXCEPT ![t] = Refreshing(@)]
    /\ QueueRefresh(t, tab[t])
    /\ UNCHANGED <<server, age, cookie, marker, chan, clock, left, history>>

\* Under the lock: what a peer published meanwhile is taken over, ...
GrantRefreshPeer(t) ==
    LET T == WithPeer(tab[t], tab[t].peer, tab[t].peerAt)
    IN /\ Owns(t, "rf") /\ tab[t].rf = "queued"
       /\ NewPeer(tab[t])
       /\ queue' = Released(t, "rf")
       /\ RefreshEnds(t, T, Takes(tab[t], tab[t].peerAt), chan)
       /\ UNCHANGED <<server, age, cookie, marker, left, history>>

\* ... else the peers are asked once more, unless the tab is leaving.
GrantRefreshAsk(t) ==
    /\ Owns(t, "rf") /\ tab[t].rf = "queued"
    /\ ~NewPeer(tab[t])
    /\ IF tab[t].intent \/ marker # None
       THEN /\ tab' = [tab EXCEPT ![t].rf = "sent", ![t].rfTok = cookie]
            /\ UNCHANGED chan
       ELSE /\ tab' = [tab EXCEPT ![t].rf = "asking"]
            /\ chan' = Posted(chan, t, Request(t))
    /\ UNCHANGED <<server, age, cookie, marker, queue, clock, left, history>>

\* No peer answered within 350 ms: at startup the tab calls refreshSession,
\* under the lock it calls the server.
NoPeer(t) ==
    /\ \/ /\ tab[t].rf = "startup"
          /\ LET T == [tab[t] EXCEPT !.rf = "none"]
             IN IF RefreshRefused(T)
                THEN tab' = [tab EXCEPT ![t] = T] /\ UNCHANGED queue
                ELSE tab' = [tab EXCEPT ![t] = Refreshing(T)] /\ QueueRefresh(t, T)
       \/ /\ tab[t].rf = "asking"
          /\ tab' = [tab EXCEPT ![t].rf = "sent", ![t].rfTok = cookie]
          /\ UNCHANGED queue
    /\ UNCHANGED <<server, age, cookie, marker, chan, clock, left, history>>

Accepts(c) == c # None /\ secret[sess[c]] = c

\* AuthService.refresh: the secret is replaced and stops working at once.
ServerRefresh(t) ==
    LET c == tab[t].rfTok
        k == top + 1
    IN /\ tab[t].rf = "sent"
       /\ IF Accepts(c)
          THEN /\ Spend("tokens")
               /\ top' = k
               /\ sess' = [sess EXCEPT ![k] = sess[c]]
               /\ secret' = [secret EXCEPT ![sess[c]] = k]
               /\ tab' = [tab EXCEPT ![t].rf = "ok", ![t].rfTok = k]
          ELSE /\ tab' = [tab EXCEPT ![t].rf = "refused"]
               /\ UNCHANGED <<server, left>>
       /\ UNCHANGED <<age, cookie, marker, queue, chan, clock, history>>

\* commitApiRefresh: the cookie is in the jar, the token is applied and
\* published before the lock is given up.
RefreshOk(t) ==
    LET k == tab[t].rfTok
        takes == Receptive(tab[t])
        stamp == clock + 1
        T == IF takes THEN WithToken(tab[t], k, stamp) ELSE tab[t]
        R == [T EXCEPT !.rf = "none", !.rfTok = None]
    IN /\ tab[t].rf = "ok"
       /\ cookie' = k
       /\ queue' = Released(t, "rf")
       /\ IF takes
          THEN /\ clock' = stamp
               /\ tab' = [tab EXCEPT ![t] = [R EXCEPT
                     !.me = IF @ = "wait" THEN "sent" ELSE IF @ = "again" THEN "resent" ELSE @,
                     !.meTok = IF R.me \in {"wait", "again"} THEN k ELSE @]]
               /\ chan' = Posted(chan, t, Snapshot(k, stamp))
          ELSE RefreshEnds(t, T, FALSE, chan)
       /\ UNCHANGED <<server, age, marker, left, history>>

\* 401 or 403: unless a peer published something newer, the session has ended.
RefreshNo(t) ==
    LET T == tab[t]
        R == [T EXCEPT !.rf = "none", !.rfTok = None]
    IN /\ T.rf = "refused"
       /\ queue' = Released(t, "rf")
       /\ IF NewPeer(T)
          THEN RefreshEnds(t, WithPeer(T, T.peer, T.peerAt), Takes(T, T.peerAt), chan)
          ELSE EndHere(t, R)
       /\ UNCHANGED <<server, age, cookie, marker, left, history>>

\* scheduleRetry: a token that still has five seconds is kept, else the
\* session is unavailable; with Retry-After the next refresh has to wait.
Failed(T, wait) ==
    IF T.intent THEN T
    ELSE [T EXCEPT !.cool = wait,
                   !.status = IF @ = "authenticated" /\ Usable(T.tok) THEN @ ELSE "unavailable"]

\* The request or its answer is lost, or the server refuses for a time.
RefreshFails(t) ==
    LET T == tab[t]
    IN /\ T.rf \in {"sent", "ok", "refused"}
       /\ Spend("faults")
       /\ queue' = Released(t, "rf")
       /\ IF NewPeer(T)
          THEN RefreshEnds(t, WithPeer(T, T.peer, T.peerAt), Takes(T, T.peerAt), chan)
          ELSE \E wait \in BOOLEAN : RefreshEnds(t, Failed(T, wait), FALSE, chan)
       /\ lost' = IF T.rf = "ok" THEN lost \cup {T.rfTok} ELSE lost
       /\ UNCHANGED <<server, age, cookie, marker, ended, loginAt>>

CooldownEnds(t) ==
    /\ tab[t].cool
    /\ tab' = [tab EXCEPT ![t].cool = FALSE]
    /\ UNCHANGED <<server, age, cookie, marker, queue, chan, clock, left, history>>

-----------------------------------------------------------------------------
(* Login.                                                                  *)

\* submitLogin of the login page.
StartLogin(t) ==
    /\ tab[t].status \in {"anonymous", "unavailable", "logout-failed"}
    /\ tab[t].li = "none" /\ tab[t].lo = "none"
    /\ Spend("logins")
    /\ tab' = [tab EXCEPT ![t].li = "queued"]
    /\ queue' = Enqueue(t, "li")
    /\ UNCHANGED <<server, age, cookie, marker, chan, clock, history>>

GrantLogin(t) ==
    /\ Owns(t, "li") /\ tab[t].li = "queued"
    /\ tab' = [tab EXCEPT ![t].intent = FALSE, ![t].back = None, ![t].li = "sent", ![t].liTok = cookie]
    /\ UNCHANGED <<server, age, cookie, marker, queue, chan, clock, left, history>>

\* browser_login: a new session, and the session of the cookie is ended.
ServerLogin(t) ==
    LET c == tab[t].liTok
        k == top + 1
    IN /\ tab[t].li = "sent"
       /\ Spend("tokens")
       /\ top' = k
       /\ sess' = [sess EXCEPT ![k] = k]
       /\ secret' = [s \in Tokens |-> IF s = k THEN k
                                      ELSE IF Accepts(c) /\ s = sess[c] THEN None ELSE secret[s]]
       /\ tab' = [tab EXCEPT ![t].li = "ok", ![t].liTok = k]
       /\ UNCHANGED <<age, cookie, marker, queue, chan, clock, history>>

\* applyTokenResponse with force: the tombstone goes, the token is published.
LoginDone(t) ==
    LET k == tab[t].liTok
        stamp == clock + 1
    IN /\ tab[t].li = "ok"
       /\ cookie' = k
       /\ marker' = None
       /\ clock' = stamp
       /\ loginAt' = stamp
       /\ queue' = Released(t, "li")
       /\ tab' = [tab EXCEPT ![t] = [WithToken(tab[t], k, stamp) EXCEPT
                     !.intent = FALSE, !.back = None, !.li = "none", !.liTok = None]]
       /\ chan' = Posted(chan, t, Snapshot(k, stamp))
       /\ UNCHANGED <<server, age, left, ended, lost>>

\* Wrong credentials, a page left too early or a lost answer.
LoginFails(t) ==
    /\ \/ tab[t].li = "sent" /\ UNCHANGED left
       \/ tab[t].li = "ok" /\ Spend("faults")
    /\ tab' = [tab EXCEPT ![t].li = "none", ![t].liTok = None]
    /\ queue' = Released(t, "li")
    /\ lost' = IF tab[t].li = "ok" THEN lost \cup {tab[t].liTok} ELSE lost
    /\ UNCHANGED <<server, age, cookie, marker, chan, clock, ended, loginAt>>

-----------------------------------------------------------------------------
(* Logout.                                                                 *)

\* The workspace disappears, requests are aborted; the token is kept for a
\* logout that fails.
Logout(t) ==
    LET T == tab[t]
    IN /\ T.status \in {"authenticated", "logout-failed"}
       /\ T.li = "none"
       /\ Spend("logouts")
       /\ tab' = [tab EXCEPT ![t] = [T EXCEPT
             !.status = "logging-out", !.intent = TRUE, !.lo = "queued",
             !.back = IF T.status = "authenticated" THEN T.tok ELSE @,
             !.me = "none", !.meTok = None,
             !.rf = IF @ = "asking" THEN "sent" ELSE @,
             !.rfTok = IF T.rf = "asking" THEN cookie ELSE @]]
       /\ queue' = Enqueue(t, "lo")
       /\ UNCHANGED <<server, age, cookie, marker, chan, clock, history>>

\* Mutant: the logout does not wait for the lock.
GrantLogoutEarly(t) ==
    /\ tab[t].lo = "queued"
    /\ tab' = [tab EXCEPT ![t].lo = "sent", ![t].loTok = cookie]
    /\ UNCHANGED <<server, age, cookie, marker, queue, chan, clock, left, history>>

GrantLogout(t) ==
    /\ Owns(t, "lo") /\ tab[t].lo = "queued"
    /\ tab' = [tab EXCEPT ![t].lo = "sent", ![t].loTok = cookie]
    /\ UNCHANGED <<server, age, cookie, marker, queue, chan, clock, left, history>>

\* AuthService.logout: idempotent, an unknown secret ends nothing.
ServerLogout(t) ==
    LET c == tab[t].loTok
    IN /\ tab[t].lo = "sent"
       /\ tab' = [tab EXCEPT ![t].lo = "ok"]
       /\ secret' = IF Accepts(c) THEN [secret EXCEPT ![sess[c]] = None] ELSE secret
       /\ UNCHANGED <<sess, top, age, cookie, marker, queue, chan, clock, left, history>>

\* The cookie is gone, the tombstone is set, everyone is told.
LogoutDone(t) ==
    LET stamp == clock + 1
        c == tab[t].loTok
    IN /\ tab[t].lo = "ok"
       /\ cookie' = None
       /\ marker' = stamp
       /\ clock' = stamp
       /\ ended' = IF c = None THEN ended ELSE ended \cup {sess[c]}
       /\ queue' = Released(t, "lo")
       /\ tab' = [tab EXCEPT ![t] = [Cleared(@, "logout", stamp) EXCEPT !.lo = "none", !.loTok = None]]
       /\ chan' = Posted(chan, t, ClearedMessage("logout", stamp))
       /\ UNCHANGED <<server, age, left, loginAt, lost>>

\* Not confirmed: unless another tab has logged out, the user is asked.
LogoutFails(t) ==
    LET T == [tab[t] EXCEPT !.lo = "none", !.loTok = None]
    IN /\ T # tab[t]
       /\ tab[t].lo \in {"sent", "ok"}
       /\ Spend("faults")
       /\ queue' = Released(t, "lo")
       /\ tab' = [tab EXCEPT ![t] =
             IF T.status = "anonymous" /\ T.reason = "logout" THEN T
             ELSE [T EXCEPT !.intent = FALSE, !.status = "logout-failed"]]
       /\ UNCHANGED <<server, age, cookie, marker, chan, clock, history>>

\* Back to the workspace with the old token, or with what the server says.
CancelLogout(t) ==
    LET T == [tab[t] EXCEPT !.back = None]
        R == [T EXCEPT !.status = "restoring"]
    IN /\ tab[t].status = "logout-failed"
       /\ IF Usable(tab[t].back)
          THEN /\ tab' = [tab EXCEPT ![t] = [T EXCEPT !.status = "authenticated", !.tok = tab[t].back]]
               /\ UNCHANGED queue
          ELSE /\ tab' = [tab EXCEPT ![t] = IF RefreshRefused(R) THEN R ELSE Refreshing(R)]
               /\ IF RefreshRefused(R) THEN UNCHANGED queue ELSE QueueRefresh(t, R)
       /\ UNCHANGED <<server, age, cookie, marker, chan, clock, left, history>>

-----------------------------------------------------------------------------
(* The profile request of a workspace page (AccessContextProvider).        *)

\* authorizedRequest needs thirty seconds of token, else a refresh first.
StartRun(t) ==
    LET T == tab[t]
    IN /\ T.status = "authenticated" /\ T.me = "none"
       /\ IF age[T.tok] = "fresh"
          THEN /\ tab' = [tab EXCEPT ![t].me = "sent", ![t].meTok = T.tok]
               /\ UNCHANGED <<queue, chan, clock>>
          ELSE IF RefreshRefused(T)
          THEN EndHere(t, T) /\ UNCHANGED queue
          ELSE /\ tab' = [tab EXCEPT ![t] = [Refreshing(T) EXCEPT !.me = "wait"]]
               /\ QueueRefresh(t, T)
               /\ UNCHANGED <<chan, clock>>
       /\ UNCHANGED <<server, age, cookie, marker, left, history>>

TokenAccepted(k) == age[k] # "dead" /\ secret[sess[k]] # None

RunDone(t) ==
    /\ tab[t].me \in {"sent", "resent"}
    /\ TokenAccepted(tab[t].meTok)
    /\ tab' = [tab EXCEPT ![t].me = "none", ![t].meTok = None]
    /\ UNCHANGED <<server, age, cookie, marker, queue, chan, clock, left, history>>

\* Mutant: the first 401 of the profile request is final.
RunRefusedAtOnce(t) ==
    /\ tab[t].me \in {"sent", "resent"}
    /\ ~TokenAccepted(tab[t].meTok)
    /\ EndHere(t, tab[t])
    /\ UNCHANGED <<server, age, cookie, marker, queue, left, history>>

\* 401: once more after a refresh; a second one ends the session everywhere.
RunRefused(t) ==
    LET T == tab[t]
    IN /\ T.me \in {"sent", "resent"}
       /\ ~TokenAccepted(T.meTok)
       /\ IF T.me = "sent" /\ ~RefreshRefused(T)
          THEN /\ tab' = [tab EXCEPT ![t] = [Refreshing(T) EXCEPT !.me = "again"]]
               /\ QueueRefresh(t, T)
               /\ UNCHANGED <<chan, clock>>
          ELSE EndHere(t, T) /\ UNCHANGED queue
       /\ UNCHANGED <<server, age, cookie, marker, left, history>>

\* The effect is cleaned up when the tab is no longer authenticated.
AbortRun(t) ==
    /\ tab[t].status # "authenticated" /\ tab[t].me # "none"
    /\ tab' = [tab EXCEPT ![t].me = "none", ![t].meTok = None]
    /\ UNCHANGED <<server, age, cookie, marker, queue, chan, clock, left, history>>

-----------------------------------------------------------------------------
(* Messages of other tabs.                                                 *)

Received(t, type) == chan[t] # <<>> /\ Head(chan[t]).type = type
Handled(t) == [chan EXCEPT ![t] = Tail(@)]

\* session-request: answered to the one who asks.
ReceiveRequest(t) ==
    LET T == tab[t]
        u == Head(chan[t]).from
    IN /\ Received(t, "request")
       /\ chan' = IF /\ ~T.intent /\ marker = None
                     /\ T.status = "authenticated" /\ Usable(T.tok)
                     /\ u # None /\ tab[u].status # "closed"
                  THEN [Handled(t) EXCEPT ![u] = Append(@, Snapshot(T.tok, T.at))]
                  ELSE Handled(t)
       /\ UNCHANGED <<server, age, cookie, marker, queue, tab, clock, left, history>>

\* session-snapshot: remembered, handed to whoever waits, and applied.
ReceiveSnapshot(t) ==
    LET m == Head(chan[t])
        T == WithPeer([tab[t] EXCEPT !.peer = m.tok, !.peerAt = m.at], m.tok, m.at)
        took == Takes(tab[t], m.at) /\ Usable(m.tok)
        S == [T EXCEPT !.rf = "none"]
    IN /\ Received(t, "snapshot")
       /\ CASE T.rf = "startup" ->
                 /\ tab' = [tab EXCEPT ![t] = IF took \/ RefreshRefused(S) THEN S ELSE Refreshing(S)]
                 /\ IF took \/ RefreshRefused(S) THEN UNCHANGED queue ELSE QueueRefresh(t, S)
                 /\ chan' = Handled(t)
                 /\ UNCHANGED clock
            [] T.rf = "asking" /\ NewPeer(T) ->
                 /\ queue' = Released(t, "rf")
                 /\ RefreshEnds(t, T, took, Handled(t))
            [] T.rf = "asking" /\ ~NewPeer(T) ->
                 /\ tab' = [tab EXCEPT ![t] = [T EXCEPT !.rf = "sent", !.rfTok = cookie]]
                 /\ chan' = Handled(t)
                 /\ UNCHANGED <<queue, clock>>
            [] OTHER ->
                 /\ tab' = [tab EXCEPT ![t] = T]
                 /\ chan' = Handled(t)
                 /\ UNCHANGED <<queue, clock>>
       /\ UNCHANGED <<server, age, cookie, marker, left, history>>

\* session-cleared: ignored if something newer is known; a logout sets the
\* tombstone again.  A tab that is starting up goes on to refreshSession.
ReceiveCleared(t) ==
    LET m == Head(chan[t])
        T == Cleared(tab[t], m.reason, m.at)
        S == [T EXCEPT !.rf = "none"]
    IN /\ Received(t, "cleared")
       /\ chan' = Handled(t)
       /\ IF m.at < tab[t].at
          THEN UNCHANGED <<tab, marker, queue>>
          ELSE /\ marker' = IF m.reason = "logout" THEN m.at ELSE marker
               /\ IF T.rf # "startup"
                  THEN tab' = [tab EXCEPT ![t] = T] /\ UNCHANGED queue
                  ELSE IF marker' # None
                  THEN tab' = [tab EXCEPT ![t] = S] /\ UNCHANGED queue
                  ELSE tab' = [tab EXCEPT ![t] = Refreshing(S)] /\ QueueRefresh(t, S)
       /\ UNCHANGED <<server, age, cookie, clock, left, history>>

-----------------------------------------------------------------------------
(* Time and the server.                                                    *)

\* First less than thirty, then less than five seconds of a token are left.
TokenAges(k) ==
    /\ k <= top /\ age[k] # "dead"
    /\ Spend("ages")
    /\ age' = [age EXCEPT ![k] = IF @ = "fresh" THEN "short" ELSE "dead"]
    /\ UNCHANGED <<server, cookie, marker, queue, chan, tab, clock, history>>

\* Five minutes after the logout.
MarkerExpires ==
    /\ marker # None
    /\ marker' = None
    /\ UNCHANGED <<server, age, cookie, queue, chan, tab, clock, left, history>>

\* An administrator, a new password or the end of its term ends a session.
Revoke(s) ==
    /\ secret[s] # None
    /\ Spend("revokes")
    /\ secret' = [secret EXCEPT ![s] = None]
    /\ UNCHANGED <<sess, top, age, cookie, marker, queue, chan, tab, clock, history>>

RefreshSteps(t) ==
    \/ Refresh(t) \/ GrantRefreshPeer(t) \/ GrantRefreshAsk(t) \/ NoPeer(t)
    \/ ServerRefresh(t) \/ RefreshOk(t) \/ RefreshNo(t) \/ RefreshFails(t) \/ CooldownEnds(t)
LoginSteps(t) ==
    StartLogin(t) \/ GrantLogin(t) \/ ServerLogin(t) \/ LoginDone(t) \/ LoginFails(t)
LogoutSteps(t) ==
    \/ Logout(t) \/ GrantLogout(t) \/ ServerLogout(t) \/ LogoutDone(t) \/ LogoutFails(t)
    \/ CancelLogout(t)
RunSteps(t) == StartRun(t) \/ RunDone(t) \/ RunRefused(t) \/ AbortRun(t)
Receive(t) == ReceiveRequest(t) \/ ReceiveSnapshot(t) \/ ReceiveCleared(t)

Next ==
    \/ \E t \in Tabs : \/ Open(t) \/ Close(t) \/ RefreshSteps(t) \/ LoginSteps(t)
                       \/ LogoutSteps(t) \/ RunSteps(t) \/ Receive(t)
    \/ \E k \in Tokens : TokenAges(k) \/ Revoke(k)
    \/ MarkerExpires

Spec == Init /\ [][Next]_vars

\* Requests are answered or time out, messages are delivered, timers fire and
\* the lock is granted in order; users, faults and the server's own decisions
\* owe nothing.
Fairness ==
    \A t \in Tabs :
        /\ WF_vars(Refresh(t) \/ GrantRefreshPeer(t) \/ GrantRefreshAsk(t) \/ NoPeer(t)
                     \/ ServerRefresh(t) \/ RefreshOk(t) \/ RefreshNo(t))
        /\ WF_vars(GrantLogin(t) \/ ServerLogin(t) \/ LoginDone(t))
        /\ WF_vars(GrantLogout(t) \/ ServerLogout(t) \/ LogoutDone(t))
        /\ WF_vars(Receive(t))
        /\ WF_vars(CooldownEnds(t))

FairSpec == Spec /\ Fairness

-----------------------------------------------------------------------------
(* Properties.                                                             *)

Authenticated(t) == tab[t].status = "authenticated"

\* A session that the user left stays left: a tab that still shows it has the
\* news of the logout in its channel, as nothing it knows is newer.
LoggedOutStaysOut ==
    \A t \in Tabs : Authenticated(t) /\ sess[tab[t].tok] \in ended =>
        \E i \in DOMAIN chan[t] : /\ chan[t][i].type = "cleared"
                                  /\ chan[t][i].at >= tab[t].at

\* No tab presents a refresh secret when another request has already had it replaced: the
\* server accepts it, has ended its session, or gave out the next one with an answer that
\* was lost.  (A secret that was replaced is refused, and every tab would be logged out.)
PresentsLiveSecret ==
    \A t \in Tabs : tab[t].rf = "sent" /\ tab[t].rfTok # None =>
        secret[sess[tab[t].rfTok]] \in {tab[t].rfTok, None} \cup lost

\* As long as nobody logs in anew, a tab gives up a session without a logout only
\* when the server has ended it.
GivenUp(t) ==
    /\ Authenticated(t) /\ loginAt = None
    /\ tab'[t].status = "anonymous" /\ tab'[t].reason = "ended"

\* A refresh that fails for a moment does not destroy the session while the access token
\* is valid (docs/stage-10-op2-session-recovery.md:160).
FailureIsNoLogout ==
    [][\A t \in Tabs : GivenUp(t) => secret[sess[tab[t].tok]] = None]_vars

\* A late answer of a third tab is older than the snapshot the tab has meanwhile taken over:
\* the refresh that waits for a peer is content with it (waitForSnapshot), the tab is not
\* (applyPeerSnapshot), so the waiting request of the page has no new token.
HandedOlder(t) ==
    /\ tab[t].me \in {"wait", "again"}
    /\ \/ NewPeer(tab[t]) /\ tab[t].peerAt < tab[t].at
       \/ tab[t].rf = "asking" /\ Received(t, "snapshot") /\ Head(chan[t]).at < tab[t].at

\* The repeated request of the page is refused too: its token ran out on the way.
RefusedTwice(t) == tab[t].me = "resent" /\ ~TokenAccepted(tab[t].meTok)

\* What is left of it: the tab that gives the session up of itself (with a new stamp, the
\* others follow its message) was refused a refresh because the session had ended or the
\* answer with its newest secret was lost, or has a request of the page that needs a refresh
\* when one has just failed or brought an older token, or that was refused twice.
EndedByServer ==
  [][\A t \in Tabs : GivenUp(t) /\ clock' # clock =>
        \/ secret[sess[tab[t].tok]] \in lost \cup {None}
        \/ tab[t].cool \/ left'["faults"] # left["faults"]
        \/ HandedOlder(t) \/ RefusedTwice(t)]_vars

\* What a tab calls a finished logout has ended the session on the server, unless the
\* answer with the newest refresh secret of the session never reached the browser: it then
\* presents the one before, and the server confirms a logout that ended nothing.
LogoutRevokes == \A s \in ended : secret[s] # None => secret[s] \in lost
=============================================================================
