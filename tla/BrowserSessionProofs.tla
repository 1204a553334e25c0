------------------------ MODULE BrowserSessionProofs ------------------------
(***************************************************************************)
(* Proofs about BrowserSession, for any number of tabs and any bounds,     *)
(* with messages and answers in any order the channels allow.  SecretInv:  *)
(* the lock has one owner, every request or answer that is under way is    *)
(* its owner's, and the cookie is the newest secret of its session that    *)
(* reached the browser.  NewsInv: a session that was left was left at      *)
(* some stamp; all that any tab or message still says of it is older, and  *)
(* whoever knows it has handled or will handle the news of the logout,     *)
(* and does so before it answers a tab that will not.  Ordinary steps,     *)
(* which end no session, are told apart from the logout: they keep the     *)
(* news by one citation.  FirstInv: as long as nobody has logged in anew   *)
(* the browser knows one session, so what a tab was told of is its own.    *)
(***************************************************************************)
EXTENDS BrowserSession, SequenceTheorems, TLAPS

\* The tokens a tab knows, each with its stamp.  What it keeps for a logout that fails
\* counts while the logout may still be called off.
Quits(T) == T.status \in {"logging-out", "logout-failed"}
Knows(T) ==
    {p \in {<<T.tok, T.at>>, <<T.peer, T.peerAt>>} : p[1] # None}
      \cup {p \in {<<T.back, T.at>>} : p[1] # None /\ Quits(T)}

\* The stages of a refresh, a login and a logout that are under the lock.
RefreshHolds(T) == T.rf \in {"asking", "sent", "ok", "refused"}
LoginHolds(T) == T.li \in {"sent", "ok"}
LogoutHolds(T) == T.lo \in {"sent", "ok"}

-----------------------------------------------------------------------------
(* What the parts that the handlers share make of a tab.                   *)

\* The stages of T and R are the same.
SameStages(T, R) ==
    R.rf = T.rf /\ R.rfTok = T.rfTok /\ R.li = T.li /\ R.liTok = T.liTok
      /\ R.lo = T.lo /\ R.loTok = T.loTok

\* What T and R know of the session is the same.
SameSession(T, R) ==
    R.status = T.status /\ R.tok = T.tok /\ R.at = T.at /\ R.peer = T.peer
      /\ R.peerAt = T.peerAt /\ R.intent = T.intent /\ R.back = T.back

LEMMA WithTokenTab ==
  ASSUME NEW T \in TabState, NEW k \in Tokens, NEW stamp \in Nat
  PROVE  /\ WithToken(T, k, stamp) \in TabState
         /\ SameStages(T, WithToken(T, k, stamp))
         /\ WithToken(T, k, stamp).status = "authenticated"
         /\ WithToken(T, k, stamp).tok = k /\ WithToken(T, k, stamp).at = stamp
         /\ WithToken(T, k, stamp).peer = T.peer /\ WithToken(T, k, stamp).peerAt = T.peerAt
         /\ WithToken(T, k, stamp).intent = T.intent /\ WithToken(T, k, stamp).back = T.back
         /\ WithToken(T, k, stamp).me = T.me /\ WithToken(T, k, stamp).meTok = T.meTok
<1>1. WithToken(T, k, stamp) \in TabState
  <2>1. "authenticated" \in Statuses /\ "none" \in Reasons /\ k \in MaybeToken
    BY DEF Statuses, Reasons, MaybeToken
  <2> QED
    BY <2>1 DEF WithToken, TabState
<1>2. SameStages(T, WithToken(T, k, stamp))
  BY DEF WithToken, TabState, SameStages
<1>3. /\ WithToken(T, k, stamp).status = "authenticated"
      /\ WithToken(T, k, stamp).tok = k /\ WithToken(T, k, stamp).at = stamp
      /\ WithToken(T, k, stamp).peer = T.peer /\ WithToken(T, k, stamp).peerAt = T.peerAt
  BY DEF WithToken, TabState
<1>4. /\ WithToken(T, k, stamp).intent = T.intent /\ WithToken(T, k, stamp).back = T.back
      /\ WithToken(T, k, stamp).me = T.me /\ WithToken(T, k, stamp).meTok = T.meTok
  BY DEF WithToken, TabState
<1> QED
  BY <1>1, <1>2, <1>3, <1>4

LEMMA WithPeerTab ==
  ASSUME NEW T \in TabState, NEW k \in MaybeToken, NEW stamp \in Nat
  PROVE  /\ WithPeer(T, k, stamp) \in TabState
         /\ SameStages(T, WithPeer(T, k, stamp))
         /\ \/ WithPeer(T, k, stamp) = T
            \/ /\ k \in Tokens /\ Receptive(T) /\ stamp >= T.at
               /\ WithPeer(T, k, stamp).status = "authenticated"
               /\ WithPeer(T, k, stamp).tok = k /\ WithPeer(T, k, stamp).at = stamp
               /\ WithPeer(T, k, stamp).peer = k /\ WithPeer(T, k, stamp).peerAt = stamp
               /\ WithPeer(T, k, stamp).intent = T.intent /\ WithPeer(T, k, stamp).back = T.back
<1> DEFINE W == WithToken(T, k, stamp)
           P == [W EXCEPT !.peer = k, !.peerAt = stamp]
<1>1. CASE ~(Takes(T, stamp) /\ Usable(k))
  BY <1>1 DEF WithPeer, SameStages
<1>2. CASE Takes(T, stamp) /\ Usable(k)
  <2>1. k \in Tokens /\ Receptive(T) /\ stamp >= T.at
    BY <1>2 DEF Usable, Takes, MaybeToken
  <2>2. /\ W \in TabState /\ SameStages(T, W) /\ W.status = "authenticated" /\ W.tok = k
        /\ W.at = stamp /\ W.intent = T.intent /\ W.back = T.back
    BY <2>1, WithTokenTab
  <2>3. WithPeer(T, k, stamp) = P
    BY <1>2 DEF WithPeer
  <2> HIDE DEF W
  <2>4. P \in TabState
    BY <2>2 DEF TabState
  <2>5. SameStages(W, P)
    BY <2>2 DEF TabState, SameStages
  <2>6. /\ P.status = W.status /\ P.tok = W.tok /\ P.at = W.at /\ P.intent = W.intent
        /\ P.back = W.back /\ P.peer = k /\ P.peerAt = stamp
    BY <2>2 DEF TabState
  <2> HIDE DEF P
  <2>7. SameStages(T, P)
    BY <2>2, <2>5 DEF SameStages
  <2> QED
    BY <2>1, <2>2, <2>3, <2>4, <2>6, <2>7
<1> QED
  BY <1>1, <1>2

\* The session is forgotten.
Forgets(R, stamp) ==
    R.status = "anonymous" /\ R.tok = None /\ R.at = stamp /\ R.peer = None /\ R.back = None
      /\ R.intent = FALSE

\* C is what clearing leaves of T.  A refresh that waited for a peer goes on to the server.
ClearedOf(T, C, stamp) ==
    /\ Forgets(C, stamp) /\ C.me = "none"
    /\ C.li = T.li /\ C.liTok = T.liTok /\ C.lo = T.lo /\ C.loTok = T.loTok
    /\ C.rf = IF T.rf = "asking" THEN "sent" ELSE T.rf
    /\ C.rfTok = IF T.rf = "asking" THEN cookie ELSE T.rfTok

LEMMA ClearedTab ==
  ASSUME NEW T \in TabState, NEW why \in {"ended", "logout"}, NEW stamp \in Nat,
         cookie \in MaybeToken
  PROVE  Cleared(T, why, stamp) \in TabState /\ ClearedOf(T, Cleared(T, why, stamp), stamp)
<1> DEFINE C == Cleared(T, why, stamp)
<1>1. C \in TabState
  <2> DEFINE rf == IF T.rf = "asking" THEN "sent" ELSE T.rf
             rfTok == IF T.rf = "asking" THEN cookie ELSE T.rfTok
  <2>1. rf \in RefreshStages /\ rfTok \in MaybeToken
    BY DEF TabState, Stages, RefreshStages
  <2>2. /\ "anonymous" \in Statuses /\ why \in Reasons /\ None \in MaybeToken
        /\ "none" \in PageStages
    BY DEF Statuses, Reasons, MaybeToken, PageStages
  <2>3. C = [T EXCEPT !.status = "anonymous", !.reason = why, !.tok = None, !.at = stamp,
               !.peer = None, !.peerAt = None, !.intent = FALSE, !.back = None, !.cool = FALSE,
               !.me = "none", !.meTok = None, !.rf = rf, !.rfTok = rfTok]
    BY DEF Cleared, TabState
  <2> HIDE DEF rf, rfTok
  <2>4. None \in Nat
    BY DEF None
  <2> HIDE DEF C
  <2> QED
    BY <2>1, <2>2, <2>3, <2>4 DEF TabState
<1>2. /\ C.status = "anonymous" /\ C.tok = None /\ C.at = stamp /\ C.peer = None
      /\ C.back = None /\ C.intent = FALSE /\ C.me = "none"
  BY DEF Cleared, TabState
<1>3. C.li = T.li /\ C.liTok = T.liTok /\ C.lo = T.lo /\ C.loTok = T.loTok
  BY DEF Cleared, TabState
<1>4. /\ C.rf = IF T.rf = "asking" THEN "sent" ELSE T.rf
      /\ C.rfTok = IF T.rf = "asking" THEN cookie ELSE T.rfTok
  BY DEF Cleared, TabState
<1> HIDE DEF C
<1>5. ClearedOf(T, C, stamp)
  BY <1>2, <1>3, <1>4 DEF ClearedOf, Forgets
<1> QED
  BY <1>1, <1>5 DEF C

LEMMA RefreshingTab ==
  ASSUME NEW T \in TabState
  PROVE  /\ Refreshing(T) \in TabState
         /\ SameSession(T, Refreshing(T))
         /\ T.rf = "none" => Refreshing(T).rf = "queued"
         /\ T.rf # "none" => Refreshing(T) = T
         /\ Refreshing(T).li = T.li /\ Refreshing(T).liTok = T.liTok
         /\ Refreshing(T).lo = T.lo /\ Refreshing(T).loTok = T.loTok
<1> DEFINE R == [T EXCEPT !.rf = "queued", !.base = T.at]
<1>1. R \in TabState
  <2>1. "queued" \in RefreshStages /\ T.at \in Nat
    BY DEF RefreshStages, Stages, TabState
  <2> QED
    BY <2>1 DEF TabState
<1>2. SameSession(T, R)
  BY DEF TabState, SameSession
<1>3. R.rf = "queued" /\ R.li = T.li /\ R.liTok = T.liTok /\ R.lo = T.lo /\ R.loTok = T.loTok
  BY DEF TabState
<1>4. SameSession(T, T)
  BY DEF SameSession
<1>5. Refreshing(T) = IF T.rf = "none" THEN R ELSE T
  BY DEF Refreshing
<1> HIDE DEF R
<1> QED
  BY <1>1, <1>2, <1>3, <1>4, <1>5

\* The profile request of the page is another matter than the session and its stages.
LEMMA PageTab ==
  ASSUME NEW T \in TabState, NEW stage \in PageStages, NEW k \in MaybeToken
  PROVE  /\ [T EXCEPT !.me = stage] \in TabState
         /\ SameSession(T, [T EXCEPT !.me = stage]) /\ SameStages(T, [T EXCEPT !.me = stage])
         /\ [T EXCEPT !.me = stage, !.meTok = k] \in TabState
         /\ SameSession(T, [T EXCEPT !.me = stage, !.meTok = k])
         /\ SameStages(T, [T EXCEPT !.me = stage, !.meTok = k])
<1>1. [T EXCEPT !.me = stage] \in TabState
  BY DEF TabState
<1>2. [T EXCEPT !.me = stage, !.meTok = k] \in TabState
  BY DEF TabState
<1>3. SameSession(T, [T EXCEPT !.me = stage]) /\ SameStages(T, [T EXCEPT !.me = stage])
  BY DEF TabState, SameSession, SameStages
<1>4. /\ SameSession(T, [T EXCEPT !.me = stage, !.meTok = k])
      /\ SameStages(T, [T EXCEPT !.me = stage, !.meTok = k])
  BY DEF TabState, SameSession, SameStages
<1> QED
  BY <1>1, <1>2, <1>3, <1>4

\* A tab without its refresh.
LEMMA IdleTab ==
  ASSUME NEW T \in TabState
  PROVE  LET R == [T EXCEPT !.rf = "none", !.rfTok = None]
         IN  /\ R \in TabState /\ SameSession(T, R) /\ R.rf = "none"
             /\ R.li = T.li /\ R.liTok = T.liTok /\ R.lo = T.lo /\ R.loTok = T.loTok
             /\ R.me = T.me
<1> DEFINE R == [T EXCEPT !.rf = "none", !.rfTok = None]
<1>1. R \in TabState
  <2>1. "none" \in RefreshStages /\ None \in MaybeToken
    BY DEF RefreshStages, Stages, MaybeToken
  <2> QED
    BY <2>1 DEF TabState
<1>2. SameSession(T, R)
  BY DEF TabState, SameSession
<1>3. /\ R.rf = "none" /\ R.li = T.li /\ R.liTok = T.liTok /\ R.lo = T.lo /\ R.loTok = T.loTok
      /\ R.me = T.me
  BY DEF TabState
<1> QED
  BY <1>1, <1>2, <1>3

\* The end of a refresh leaves what T knows of the session, or makes everyone forget it.
LEMMA RefreshEndsTab ==
  ASSUME NEW t \in Tabs, NEW T \in TabState, NEW ok \in BOOLEAN, NEW posted, clock \in Nat,
         cookie \in MaybeToken, RefreshEnds(t, T, ok, posted)
  PROVE  \E R \in TabState :
            /\ tab' = [tab EXCEPT ![t] = R]
            /\ R.rf = "none"
            /\ R.li = T.li /\ R.liTok = T.liTok /\ R.lo = T.lo /\ R.loTok = T.loTok
            /\ \/ SameSession(T, R) /\ chan' = posted /\ clock' = clock
               \/ /\ Forgets(R, clock + 1) /\ clock' = clock + 1
                  /\ chan' = Posted(posted, t, ClearedMessage("ended", clock + 1))
<1> DEFINE R == [T EXCEPT !.rf = "none", !.rfTok = None]
           waits == R.me \in {"wait", "again"}
           resumed == [R EXCEPT !.me = IF @ = "wait" THEN "sent" ELSE "resent", !.meTok = R.tok]
<1>1. /\ R \in TabState /\ SameSession(T, R) /\ R.rf = "none"
      /\ R.li = T.li /\ R.liTok = T.liTok /\ R.lo = T.lo /\ R.loTok = T.loTok
  BY IdleTab
<1>2. IF waits /\ ~ok /\ ~R.intent
      THEN /\ clock' = clock + 1
           /\ tab' = [tab EXCEPT ![t] = Cleared(R, "ended", clock + 1)]
           /\ chan' = Posted(posted, t, ClearedMessage("ended", clock + 1))
      ELSE /\ tab' = [tab EXCEPT ![t] = IF waits /\ ok THEN resumed
                                        ELSE IF waits THEN [R EXCEPT !.me = "none", !.meTok = None]
                                        ELSE R]
           /\ chan' = posted
           /\ UNCHANGED clock
  BY DEF RefreshEnds
<1> HIDE DEF R
<1>3. resumed \in TabState /\ SameSession(R, resumed) /\ SameStages(R, resumed)
  <2> DEFINE stage == IF R.me = "wait" THEN "sent" ELSE "resent"
  <2>1. stage \in PageStages /\ R.tok \in MaybeToken
    BY <1>1 DEF PageStages, TabState
  <2>2. resumed = [R EXCEPT !.me = stage, !.meTok = R.tok]
    BY <1>1 DEF TabState
  <2> HIDE DEF stage, resumed
  <2> QED
    BY <1>1, <2>1, <2>2, PageTab
<1>4. /\ [R EXCEPT !.me = "none", !.meTok = None] \in TabState
      /\ SameSession(R, [R EXCEPT !.me = "none", !.meTok = None])
      /\ SameStages(R, [R EXCEPT !.me = "none", !.meTok = None])
  <2>1. "none" \in PageStages /\ None \in MaybeToken
    BY DEF PageStages, MaybeToken
  <2> QED
    BY <1>1, <2>1, PageTab
<1>5. CASE waits /\ ~ok /\ ~R.intent
  <2>1. clock + 1 \in Nat /\ R.rf # "asking" /\ "ended" \in {"ended", "logout"}
    BY <1>1
  <2> DEFINE C == Cleared(R, "ended", clock + 1)
  <2>2. C \in TabState /\ ClearedOf(R, C, clock + 1)
    BY <1>1, <2>1, ClearedTab, Zenon
  <2>3. tab' = [tab EXCEPT ![t] = C] /\ clock' = clock + 1
        /\ chan' = Posted(posted, t, ClearedMessage("ended", clock + 1))
    BY <1>2, <1>5
  <2> HIDE DEF C
  <2>4. /\ Forgets(C, clock + 1) /\ C.rf = "none"
        /\ C.li = T.li /\ C.liTok = T.liTok /\ C.lo = T.lo /\ C.loTok = T.loTok
    BY <1>1, <2>1, <2>2 DEF Forgets, ClearedOf
  <2> QED
    BY <1>1, <2>2, <2>3, <2>4
<1>6. CASE ~(waits /\ ~ok /\ ~R.intent)
  <2> DEFINE S == IF waits /\ ok THEN resumed
                  ELSE IF waits THEN [R EXCEPT !.me = "none", !.meTok = None] ELSE R
  <2>1. S \in TabState /\ SameSession(R, S) /\ SameStages(R, S)
    <3>1. SameSession(R, R) /\ SameStages(R, R)
      BY DEF SameSession, SameStages
    <3> HIDE DEF resumed, waits
    <3> QED
      BY <1>1, <1>3, <1>4, <3>1
  <2>2. tab' = [tab EXCEPT ![t] = S] /\ chan' = posted /\ clock' = clock
    BY <1>2, <1>6
  <2> HIDE DEF S
  <2>3. SameSession(T, S)
    BY <1>1, <2>1 DEF SameSession
  <2>4. S.rf = "none" /\ S.li = T.li /\ S.liTok = T.liTok /\ S.lo = T.lo /\ S.loTok = T.loTok
    BY <1>1, <2>1 DEF SameStages
  <2> QED
    BY <2>1, <2>2, <2>3, <2>4
<1> QED
  BY <1>5, <1>6

-----------------------------------------------------------------------------
(* The invariant of the lock, the cookie and the server.                   *)

\* Of two requests for the lock one came before the other.
LockIsOrdered ==
    \A e, f \in DOMAIN queue : e # f => e \in queue[f] \/ f \in queue[e]

\* What goes on under the lock belongs to its owner.
LockIsHeld ==
    \A t \in Tabs : /\ RefreshHolds(tab[t]) => Owns(t, "rf")
                    /\ LoginHolds(tab[t]) => Owns(t, "li")
                    /\ LogoutHolds(tab[t]) => Owns(t, "lo")

\* Tokens are given out in order; what was not given out is not known.
TokensInOrder ==
    /\ top + left["tokens"] <= MaxTokens
    /\ lost \subseteq 1 .. top /\ ended \subseteq 1 .. top /\ cookie <= top
    /\ \A k \in Tokens : /\ secret[k] <= top
                         /\ k <= top => sess[k] <= top
                         /\ k > top => sess[k] = k /\ secret[k] = None

\* The token of an answer on its way: the newest of its session, and new to the browser.
Underway(k) ==
    /\ k \in 1 .. top /\ k # cookie /\ k \notin lost
    /\ secret[sess[k]] \in {k, None} /\ sess[k] \notin ended

\* The server accepts the cookie, has ended its session, or has given out a newer secret
\* with an answer that is lost or on its way.
CookieIsKnown ==
    cookie # None =>
        /\ cookie \notin lost /\ sess[cookie] \notin ended
        /\ \/ secret[sess[cookie]] \in {cookie, None} \cup lost
           \/ \E t \in Tabs : tab[t].rf = "ok" /\ secret[sess[cookie]] = tab[t].rfTok

\* A request carries the cookie; an answer brings a token that is under way; a logout
\* that was answered has ended the session unless the newest secret was lost.
RefreshSound(T) ==
    (T.rf = "sent" => T.rfTok = cookie) /\ (T.rf = "ok" => Underway(T.rfTok))
LoginSound(T) ==
    (T.li = "sent" => T.liTok = cookie) /\ (T.li = "ok" => Underway(T.liTok))
LogoutSound(T) ==
    /\ LogoutHolds(T) => T.loTok = cookie
    /\ T.lo = "ok" /\ cookie # None => secret[sess[cookie]] \in lost \cup {None}

RequestsAreSound ==
    \A t \in Tabs : RefreshSound(tab[t]) /\ LoginSound(tab[t]) /\ LogoutSound(tab[t])

SecretInv ==
    /\ LockIsOrdered /\ LockIsHeld /\ TokensInOrder
    /\ CookieIsKnown /\ RequestsAreSound /\ LogoutRevokes

-----------------------------------------------------------------------------
(* The invariant of what the tabs know and are told.                       *)

\* The channel of t holds, before place n, a snapshot of session s, the news of a logout.
ShownBefore(t, n, s) ==
    \E i \in DOMAIN chan[t] : i < n /\ chan[t][i].type = "snapshot" /\ sess[chan[t][i].tok] = s
ClearedBefore(t, n, stamp) ==
    \E i \in DOMAIN chan[t] : i < n /\ chan[t][i].type = "cleared" /\ chan[t][i].at >= stamp
End(t) == Len(chan[t]) + 1

\* A session that no token of the tab belongs to.
Ignores(t, s) == \A p \in Knows(tab[t]) : sess[p[1]] # s

\* The tab has handled or will handle the news of a logout with this stamp.
Informed(t, stamp) == tab[t].at >= stamp \/ ClearedBefore(t, End(t), stamp)

\* Every token and stamp in the browser has been given out.
Numbered(p) == p[1] <= top /\ p[2] <= clock
StampsInOrder ==
    /\ marker <= clock
    /\ \A t \in Tabs :
          /\ tab[t].at <= clock
          /\ \A p \in Knows(tab[t]) : Numbered(p)
          /\ \A i \in DOMAIN chan[t] :
                /\ chan[t][i].type = "snapshot" => Numbered(<<chan[t][i].tok, chan[t][i].at>>)
                /\ chan[t][i].type = "cleared" => chan[t][i].at <= clock

\* A closed tab knows nothing, is told nothing and waits for no answer.
ClosedTabsAreOut ==
    \A t \in Tabs :
        /\ tab[t].status = "closed" => tab[t] = ClosedTab /\ chan[t] = <<>>
        /\ \A i \in DOMAIN chan[t] :
              chan[t][i].type = "request" /\ chan[t][i].from # None =>
                  tab[chan[t][i].from].status # "closed"

\* A tab that shows the workspace has a token; what is kept for a logout that fails is kept as
\* long as the tab is leaving.
Coherent(T) ==
    /\ T.status = "authenticated" => T.tok # None
    /\ T.lo # "none" => T.back = None \/ (Quits(T) /\ T.intent)

\* Session s was left at the stamp: whatever the browser knows of it is older; who knows it
\* has handled or will handle the news, and handles it before it answers one who will not.
LeftAt(s, stamp) ==
    /\ \A t \in Tabs :
          /\ \A p \in Knows(tab[t]) : sess[p[1]] = s => p[2] < stamp
          /\ \A i \in DOMAIN chan[t] :
                chan[t][i].type = "snapshot" /\ sess[chan[t][i].tok] = s => chan[t][i].at < stamp
          /\ Informed(t, stamp) \/ (Ignores(t, s) /\ ~ShownBefore(t, End(t), s))
    /\ \A t \in Tabs : \A i \in DOMAIN chan[t] :
          chan[t][i].type = "request" /\ chan[t][i].from # None =>
              \/ Informed(chan[t][i].from, stamp)
              \/ tab[t].at >= stamp \/ ClearedBefore(t, i, stamp)
              \/ Ignores(t, s) /\ ~ShownBefore(t, i, s)

NewsInv ==
    /\ StampsInOrder /\ ClosedTabsAreOut
    /\ \A t \in Tabs : Coherent(tab[t])
    /\ \A s \in ended : \E stamp \in 1 .. clock : LeftAt(s, stamp)

-----------------------------------------------------------------------------
(* The lock.                                                               *)

\* The lock stays with whoever owns it, unless the request is one of X.
Keeps(X) ==
    /\ DOMAIN queue' \subseteq LockRequest
    /\ queue' \in [DOMAIN queue' -> SUBSET LockRequest]
    /\ LockIsOrdered'
    /\ \A e \in DOMAIN queue \ X : queue[e] = {} => e \in DOMAIN queue' /\ queue'[e] = {}

QueueOK ==
    /\ DOMAIN queue \subseteq LockRequest
    /\ queue \in [DOMAIN queue -> SUBSET LockRequest]
    /\ LockIsOrdered

LEMMA SameQueue ==
  ASSUME QueueOK, queue' = queue
  PROVE  Keeps({})
BY DEF QueueOK, Keeps, LockIsOrdered

LEMMA LongerQueue ==
  ASSUME QueueOK, NEW t \in Tabs, NEW op \in {"rf", "li", "lo"}, queue' = Enqueue(t, op)
  PROVE  Keeps({})
<1> DEFINE new == <<t, op>>
<1>1. new \in LockRequest
  BY DEF LockRequest
<1>2. /\ queue' = [e \in DOMAIN queue \cup {new} |->
                     IF e \in DOMAIN queue THEN queue[e] ELSE DOMAIN queue]
      /\ DOMAIN queue' = DOMAIN queue \cup {new}
  BY DEF Enqueue
<1> HIDE DEF new
<1>3. \A e \in DOMAIN queue : e \in DOMAIN queue' /\ queue'[e] = queue[e]
  BY <1>2
<1>4. new \notin DOMAIN queue => queue'[new] = DOMAIN queue
  BY <1>2
<1>5. DOMAIN queue' \subseteq LockRequest /\ queue' \in [DOMAIN queue' -> SUBSET LockRequest]
  <2>1. DOMAIN queue' \subseteq LockRequest
    BY <1>1, <1>2 DEF QueueOK
  <2>2. \A e \in DOMAIN queue' : queue'[e] \in SUBSET LockRequest
    <3> TAKE e \in DOMAIN queue'
    <3>1. CASE e \in DOMAIN queue
      BY <1>3, <3>1 DEF QueueOK
    <3>2. CASE e \notin DOMAIN queue
      <4>1. e = new
        BY <1>2, <3>2
      <4> QED
        BY <1>4, <3>2, <4>1 DEF QueueOK
    <3> QED
      BY <3>1, <3>2
  <2> DEFINE f == [e \in DOMAIN queue \cup {new} |->
                     IF e \in DOMAIN queue THEN queue[e] ELSE DOMAIN queue]
  <2>3. f = [e \in DOMAIN f |-> f[e]]
    OBVIOUS
  <2>4. f = queue'
    BY <1>2
  <2> HIDE DEF f
  <2> QED
    BY <2>1, <2>2, <2>3, <2>4
<1>6. LockIsOrdered'
  <2> SUFFICES ASSUME NEW e \in DOMAIN queue', NEW f \in DOMAIN queue', e # f
               PROVE  e \in queue'[f] \/ f \in queue'[e]
    BY DEF LockIsOrdered
  <2>1. CASE e \in DOMAIN queue /\ f \in DOMAIN queue
    BY <1>3, <2>1 DEF QueueOK, LockIsOrdered
  <2>2. CASE e \notin DOMAIN queue
    BY <1>2, <1>4, <2>2
  <2>3. CASE f \notin DOMAIN queue
    BY <1>2, <1>4, <2>3
  <2> QED
    BY <2>1, <2>2, <2>3
<1> QED
  BY <1>3, <1>5, <1>6 DEF Keeps

LEMMA ShorterQueue ==
  ASSUME QueueOK, NEW X, queue' = Without(X)
  PROVE  Keeps(X)
<1>1. /\ queue' = [e \in DOMAIN queue \ X |-> queue[e] \ X]
      /\ DOMAIN queue' = DOMAIN queue \ X
  BY DEF Without
<1>2. \A e \in DOMAIN queue \ X : queue'[e] = queue[e] \ X
  BY <1>1
<1>3. DOMAIN queue' \subseteq LockRequest
  BY <1>1 DEF QueueOK
<1>4. queue' \in [DOMAIN queue' -> SUBSET LockRequest]
  BY <1>1, <1>2 DEF QueueOK
<1>5. LockIsOrdered'
  BY <1>1, <1>2 DEF LockIsOrdered, QueueOK
<1> QED
  BY <1>1, <1>2, <1>3, <1>4, <1>5 DEF Keeps

\* The lock has one owner.
LEMMA OneOwner ==
  ASSUME LockIsOrdered, NEW t, NEW u, NEW op, NEW oq, Owns(t, op), Owns(u, oq)
  PROVE  t = u /\ op = oq
BY DEF LockIsOrdered, Owns

\* The requests of one tab.
Of(t) == {e \in LockRequest : e[1] = t}

\* What tab t has under the lock after the step it owned before.
Holding(t, R, X) ==
    /\ RefreshHolds(R) => Owns(t, "rf") /\ <<t, "rf">> \notin X
    /\ LoginHolds(R) => Owns(t, "li") /\ <<t, "li">> \notin X
    /\ LogoutHolds(R) => Owns(t, "lo") /\ <<t, "lo">> \notin X

LEMMA StillHeld ==
  ASSUME TypeOK, LockIsHeld, NEW t \in Tabs, NEW R \in TabState, NEW X, X \subseteq Of(t),
         Keeps(X), tab' = [tab EXCEPT ![t] = R], Holding(t, R, X)
  PROVE  LockIsHeld'
<1>1. \A u \in Tabs, op \in {"rf", "li", "lo"} :
         Owns(u, op) /\ <<u, op>> \notin X => <<u, op>> \in DOMAIN queue' /\ queue'[<<u, op>>] = {}
  BY DEF Keeps, Owns
<1>2. \A u \in Tabs, op \in {"rf", "li", "lo"} : u # t => <<u, op>> \notin X
  BY DEF Of
<1>3. /\ tab'[t] = R
      /\ \A u \in Tabs : u # t => tab'[u] = tab[u]
  BY DEF TypeOK
<1> SUFFICES ASSUME NEW u \in Tabs
             PROVE  /\ RefreshHolds(tab'[u]) => Owns(u, "rf")'
                    /\ LoginHolds(tab'[u]) => Owns(u, "li")'
                    /\ LogoutHolds(tab'[u]) => Owns(u, "lo")'
  BY DEF LockIsHeld, RefreshHolds, LoginHolds, LogoutHolds
<1>4. CASE u = t
  BY <1>1, <1>3, <1>4 DEF Holding, Owns
<1>5. CASE u # t
  <2>1. /\ RefreshHolds(tab[u]) => Owns(u, "rf")
        /\ LoginHolds(tab[u]) => Owns(u, "li")
        /\ LogoutHolds(tab[u]) => Owns(u, "lo")
    BY DEF LockIsHeld
  <2>2. /\ <<u, "rf">> \notin X /\ <<u, "li">> \notin X /\ <<u, "lo">> \notin X
    BY <1>2, <1>5
  <2>3. tab'[u] = tab[u]
    BY <1>3, <1>5
  <2>4. /\ RefreshHolds(tab'[u]) => Owns(u, "rf")
        /\ LoginHolds(tab'[u]) => Owns(u, "li")
        /\ LogoutHolds(tab'[u]) => Owns(u, "lo")
    BY <2>1, <2>3
  <2>5. /\ Owns(u, "rf") => Owns(u, "rf")'
        /\ Owns(u, "li") => Owns(u, "li")'
        /\ Owns(u, "lo") => Owns(u, "lo")'
    BY <1>1, <2>2 DEF Owns
  <2> QED
    BY <2>4, <2>5
<1> QED
  BY <1>4, <1>5

\* Nothing goes on under the lock but what its owner does.
LEMMA Alone ==
  ASSUME LockIsOrdered, LockIsHeld, NEW t \in Tabs, NEW op, Owns(t, op)
  PROVE  \A u \in Tabs : /\ RefreshHolds(tab[u]) => u = t /\ op = "rf"
                         /\ LoginHolds(tab[u]) => u = t /\ op = "li"
                         /\ LogoutHolds(tab[u]) => u = t /\ op = "lo"
<1> TAKE u \in Tabs
<1>1. /\ RefreshHolds(tab[u]) => Owns(u, "rf")
      /\ LoginHolds(tab[u]) => Owns(u, "li")
      /\ LogoutHolds(tab[u]) => Owns(u, "lo")
  BY DEF LockIsHeld
<1> QED
  BY <1>1, OneOwner, Zenon

-----------------------------------------------------------------------------
(* Steps that leave the server and the cookie alone.                       *)

\* A refresh, a login and a logout go on: idle, or under the lock with the cookie.
RefreshGoesOn(t, R, X) ==
    \/ ~RefreshHolds(R) /\ tab[t].rf # "ok"
    \/ /\ Owns(t, "rf") /\ <<t, "rf">> \notin X
       /\ \/ R.rf = tab[t].rf /\ R.rfTok = tab[t].rfTok
          \/ R.rf \in {"asking", "refused"} /\ tab[t].rf # "ok"
          \/ R.rf = "sent" /\ R.rfTok = cookie /\ tab[t].rf # "ok"
LoginGoesOn(t, R, X) ==
    \/ ~LoginHolds(R)
    \/ /\ Owns(t, "li") /\ <<t, "li">> \notin X
       /\ \/ R.li = tab[t].li /\ R.liTok = tab[t].liTok
          \/ R.li = "sent" /\ R.liTok = cookie
LogoutGoesOn(t, R, X) ==
    \/ ~LogoutHolds(R)
    \/ /\ Owns(t, "lo") /\ <<t, "lo">> \notin X
       /\ \/ R.lo = tab[t].lo /\ R.loTok = tab[t].loTok
          \/ R.lo = "sent" /\ R.loTok = cookie

GoesOn(t, R, X) ==
    /\ X \subseteq Of(t) /\ Keeps(X)
    /\ tab' = [tab EXCEPT ![t] = R]
    /\ RefreshGoesOn(t, R, X) /\ LoginGoesOn(t, R, X) /\ LogoutGoesOn(t, R, X)

\* The server gives out no token.
NoToken == left'["tokens"] \in Nat /\ left'["tokens"] <= left["tokens"]

LEMMA TokensStayInOrder ==
  ASSUME TypeOK, TokensInOrder, NoToken, UNCHANGED <<server, cookie, lost, ended>>
  PROVE  TokensInOrder'
<1>1. left["tokens"] \in Nat /\ "tokens" \in Bounded /\ top \in Nat /\ MaxTokens \in Nat
  BY BoundsAssumption DEF TypeOK, Bounded
<1>2. top' + left'["tokens"] <= MaxTokens
  BY <1>1 DEF TokensInOrder, NoToken, server
<1> QED
  BY <1>2 DEF TokensInOrder, server

LEMMA QuietStep ==
  ASSUME TypeOK, SecretInv, NEW t \in Tabs, NEW R \in TabState, NEW X, GoesOn(t, R, X),
         NoToken, UNCHANGED <<server, cookie, lost, ended>>
  PROVE  SecretInv'
<1>1. LockIsOrdered'
  BY DEF GoesOn, Keeps
<1>2. LockIsHeld'
  <2>1. Holding(t, R, X)
    BY DEF GoesOn, Holding, RefreshGoesOn, LoginGoesOn, LogoutGoesOn
  <2> QED
    BY <2>1, StillHeld DEF GoesOn, SecretInv
<1>3. TokensInOrder'
  BY TokensStayInOrder DEF SecretInv
<1>4. /\ tab'[t] = R
      /\ \A u \in Tabs : u # t => tab'[u] = tab[u]
  BY DEF TypeOK, GoesOn
<1>5. CookieIsKnown'
  <2>1. \A u \in Tabs : tab[u].rf = "ok" => tab'[u].rf = "ok" /\ tab'[u].rfTok = tab[u].rfTok
    <3> TAKE u \in Tabs
    <3>1. CASE u = t
      <4>1. tab[t].rf = "ok" => R.rf = tab[t].rf /\ R.rfTok = tab[t].rfTok
        BY DEF GoesOn, RefreshGoesOn
      <4> QED
        BY <1>4, <3>1, <4>1
    <3>2. CASE u # t
      BY <1>4, <3>2
    <3> QED
      BY <3>1, <3>2
  <2> QED
    BY <2>1 DEF SecretInv, CookieIsKnown, server
<1>6. RequestsAreSound'
  <2>1. RefreshSound(tab[t]) /\ LoginSound(tab[t]) /\ LogoutSound(tab[t])
    BY DEF SecretInv, RequestsAreSound
  <2>2. RefreshSound(R)
    BY <2>1 DEF GoesOn, RefreshGoesOn, RefreshSound, RefreshHolds
  <2>3. LoginSound(R)
    BY <2>1 DEF GoesOn, LoginGoesOn, LoginSound, LoginHolds
  <2>4. LogoutSound(R)
    BY <2>1 DEF GoesOn, LogoutGoesOn, LogoutSound, LogoutHolds
  <2>5. \A u \in Tabs : RefreshSound(tab'[u]) /\ LoginSound(tab'[u]) /\ LogoutSound(tab'[u])
    BY <1>4, <2>2, <2>3, <2>4 DEF SecretInv, RequestsAreSound
  <2>6. \A k \in Tokens : Underway(k) => Underway(k)'
    BY DEF Underway, server
  <2>7. \A u \in Tabs : tab'[u].rfTok \in MaybeToken /\ tab'[u].liTok \in MaybeToken
    BY <1>4 DEF TypeOK, TabState
  <2>8. \A k \in MaybeToken : Underway(k) => k \in Tokens
    BY DEF Underway, MaybeToken, None
  <2> QED
    <3> SUFFICES ASSUME NEW u \in Tabs
                 PROVE  RefreshSound(tab[u])' /\ LoginSound(tab[u])' /\ LogoutSound(tab[u])'
      BY DEF RequestsAreSound
    <3>1. RefreshSound(tab'[u]) /\ LoginSound(tab'[u]) /\ LogoutSound(tab'[u])
      BY <2>5
    <3>2. RefreshSound(tab[u])'
      BY <2>6, <2>7, <2>8, <3>1 DEF RefreshSound
    <3>3. LoginSound(tab[u])'
      BY <2>6, <2>7, <2>8, <3>1 DEF LoginSound
    <3>4. LogoutSound(tab[u])'
      BY <3>1 DEF LogoutSound, LogoutHolds, server
    <3> QED
      BY <3>2, <3>3, <3>4
<1>7. LogoutRevokes'
  BY DEF SecretInv, LogoutRevokes, server
<1> QED
  BY <1>1, <1>2, <1>3, <1>5, <1>6, <1>7 DEF SecretInv

-----------------------------------------------------------------------------
(* The channels.                                                           *)

\* The channels when tab t has handled its first n messages, at most one.
Rest(t, n) == IF n = 0 THEN chan ELSE Handled(t)

\* So many are dropped from the channel of u.
Dropped(t, u, n) == IF u = t THEN n ELSE 0

\* Tab t handles n messages; at most one message is sent to each open tab, one of sent,
\* a set of pairs of a tab and a message.
ChannelStep(t, n, sent) ==
    \A u \in Tabs :
        LET d == Dropped(t, u, n)
        IN  /\ \A i \in DOMAIN chan[u] :
                  i > d => i - d \in DOMAIN chan'[u] /\ chan'[u][i - d] = chan[u][i]
            /\ \A j \in DOMAIN chan'[u] :
                  \/ j + d \in DOMAIN chan[u] /\ chan'[u][j] = chan[u][j + d]
                  \/ j + d = End(u) /\ tab[u].status # "closed" /\ <<u, chan'[u][j]>> \in sent

\* The message sent by t to the others.
Others(t, m) == {<<u, m>> : u \in Tabs \ {t}}

LEMMA RestOfChannel ==
  ASSUME TypeOK, NEW t \in Tabs, NEW n \in {0, 1}, n = 1 => chan[t] # <<>>, NEW u \in Tabs
  PROVE  /\ Rest(t, n) \in [Tabs -> Seq(Message)] /\ Dropped(t, u, n) \in {0, n}
         /\ Len(Rest(t, n)[u]) = Len(chan[u]) - Dropped(t, u, n)
         /\ Dropped(t, u, n) <= Len(chan[u])
         /\ \A i \in 1 .. Len(chan[u]) - Dropped(t, u, n) :
               Rest(t, n)[u][i] = chan[u][i + Dropped(t, u, n)]
<1>1. chan[u] \in Seq(Message) /\ chan[t] \in Seq(Message) /\ chan \in [Tabs -> Seq(Message)]
  BY DEF TypeOK
<1>2. CASE n = 0
  <2>1. Rest(t, n) = chan
    BY <1>2 DEF Rest
  <2>2. Dropped(t, u, n) = 0
    BY <1>2 DEF Dropped
  <2> QED
    BY <1>1, <1>2, <2>1, <2>2
<1>3. CASE n = 1
  <2>1. Rest(t, n) = [chan EXCEPT ![t] = Tail(chan[t])] /\ chan[t] # <<>>
    BY <1>3 DEF Rest, Handled
  <2>2. /\ Tail(chan[t]) \in Seq(Message) /\ Len(Tail(chan[t])) = Len(chan[t]) - 1
        /\ Len(chan[t]) >= 1
        /\ \A i \in 1 .. Len(chan[t]) - 1 : Tail(chan[t])[i] = chan[t][i + 1]
    BY <1>1, <2>1
  <2>3. Rest(t, n) \in [Tabs -> Seq(Message)]
    BY <1>1, <2>1, <2>2
  <2>4. CASE u = t
    BY <1>1, <1>3, <2>1, <2>2, <2>3, <2>4 DEF Dropped
  <2>5. CASE u # t
    BY <1>1, <1>3, <2>1, <2>3, <2>5 DEF Dropped
  <2> QED
    BY <2>4, <2>5
<1> QED
  BY <1>2, <1>3

\* A tab is sent the message m, or nothing.
LEMMA MessageSent ==
  ASSUME TypeOK, NEW t \in Tabs, NEW n \in {0, 1}, n = 1 => chan[t] # <<>>,
         NEW m \in Message, NEW sent,
         chan' \in [Tabs -> Seq(Message)],
         \A u \in Tabs :
            \/ chan'[u] = Rest(t, n)[u]
            \/ /\ chan'[u] = Append(Rest(t, n)[u], m) /\ tab[u].status # "closed"
               /\ <<u, m>> \in sent
  PROVE  ChannelStep(t, n, sent)
<1> SUFFICES ASSUME NEW u \in Tabs
             PROVE  LET d == Dropped(t, u, n)
                    IN  /\ \A i \in DOMAIN chan[u] :
                              i > d => i - d \in DOMAIN chan'[u] /\ chan'[u][i - d] = chan[u][i]
                        /\ \A j \in DOMAIN chan'[u] :
                              \/ j + d \in DOMAIN chan[u] /\ chan'[u][j] = chan[u][j + d]
                              \/ /\ j + d = End(u) /\ tab[u].status # "closed"
                                 /\ <<u, chan'[u][j]>> \in sent
  BY Zenon DEF ChannelStep
<1> DEFINE c == Rest(t, n)
           d == Dropped(t, u, n)
           may == tab[u].status # "closed" /\ <<u, m>> \in sent
<1>1. c \in [Tabs -> Seq(Message)] /\ d \in Nat
  BY RestOfChannel
<1>2. /\ Len(c[u]) = Len(chan[u]) - d /\ d <= Len(chan[u])
      /\ \A i \in 1 .. Len(chan[u]) - d : c[u][i] = chan[u][i + d]
  BY RestOfChannel, Zenon
<1>3. \/ chan'[u] = c[u]
      \/ chan'[u] = Append(c[u], m) /\ may
  OBVIOUS
<1> HIDE DEF c, d, may
<1>4. Len(chan[u]) \in Nat /\ DOMAIN chan[u] = 1 .. Len(chan[u])
  BY DEF TypeOK
<1>5. DOMAIN chan'[u] = 1 .. Len(chan'[u]) /\ c[u] \in Seq(Message)
  BY <1>1
<1>6. /\ Len(chan'[u]) >= Len(c[u])
      /\ \A i \in 1 .. Len(c[u]) : chan'[u][i] = c[u][i]
      /\ \A i \in 1 .. Len(chan'[u]) : i > Len(c[u]) =>
            i = Len(c[u]) + 1 /\ chan'[u][i] = m /\ may
  <2>1. CASE chan'[u] = c[u]
    BY <1>5, <2>1
  <2>2. CASE chan'[u] = Append(c[u], m) /\ may
    <3>1. /\ Len(chan'[u]) = Len(c[u]) + 1 /\ chan'[u][Len(c[u]) + 1] = m
          /\ \A i \in 1 .. Len(c[u]) : chan'[u][i] = c[u][i]
      BY <1>5, <2>2
    <3>2. Len(c[u]) \in Nat
      BY <1>5
    <3> QED
      BY <2>2, <3>1, <3>2
  <2> QED
    BY <1>3, <2>1, <2>2
<1>7. ASSUME NEW i \in DOMAIN chan[u], i > d
      PROVE  i - d \in DOMAIN chan'[u] /\ chan'[u][i - d] = chan[u][i]
  <2>1. i - d \in 1 .. Len(chan[u]) - d /\ (i - d) + d = i
    BY <1>1, <1>4, <1>7
  <2> QED
    BY <1>2, <1>4, <1>5, <1>6, <2>1
<1>8. ASSUME NEW j \in DOMAIN chan'[u]
      PROVE  \/ j + d \in DOMAIN chan[u] /\ chan'[u][j] = chan[u][j + d]
             \/ j + d = End(u) /\ tab[u].status # "closed" /\ <<u, chan'[u][j]>> \in sent
  <2>1. CASE j <= Len(c[u])
    <3>1. j \in 1 .. Len(c[u]) /\ j + d \in DOMAIN chan[u]
      BY <1>1, <1>2, <1>4, <1>5, <2>1
    <3> QED
      BY <1>2, <1>6, <3>1
  <2>2. CASE j > Len(c[u])
    <3>1. j = Len(c[u]) + 1 /\ chan'[u][j] = m /\ may
      BY <1>5, <1>6, <2>2
    <3>2. j + d = End(u)
      BY <1>1, <1>2, <1>4, <3>1 DEF End
    <3> QED
      BY <3>1, <3>2 DEF may
  <2>3. j \in Nat /\ Len(c[u]) \in Nat
    BY <1>5
  <2> QED
    BY <2>1, <2>2, <2>3
<1> QED
  BY <1>7, <1>8 DEF d

LEMMA NothingSent ==
  ASSUME TypeOK, NEW t \in Tabs, NEW n \in {0, 1}, n = 1 => chan[t] # <<>>,
         NEW sent, chan' = Rest(t, n)
  PROVE  chan' \in [Tabs -> Seq(Message)] /\ ChannelStep(t, n, sent)
<1>1. chan' \in [Tabs -> Seq(Message)]
  BY RestOfChannel
<1>2. Request(None) \in Message
  BY DEF Message, Request
<1> QED
  BY <1>1, <1>2, MessageSent

LEMMA OneSent ==
  ASSUME TypeOK, NEW t \in Tabs, NEW n \in {0, 1}, n = 1 => chan[t] # <<>>,
         NEW m \in Message, chan' = Posted(Rest(t, n), t, m)
  PROVE  chan' \in [Tabs -> Seq(Message)] /\ ChannelStep(t, n, Others(t, m))
<1> DEFINE c == Rest(t, n)
<1>1. c \in [Tabs -> Seq(Message)]
  BY RestOfChannel
<1>2. chan' = [u \in Tabs |-> IF u = t \/ tab[u].status = "closed" THEN c[u] ELSE Append(c[u], m)]
  BY DEF Posted
<1> HIDE DEF c
<1>3. chan' \in [Tabs -> Seq(Message)]
  BY <1>1, <1>2
<1>4. \A u \in Tabs : \/ chan'[u] = c[u]
                      \/ /\ chan'[u] = Append(c[u], m) /\ tab[u].status # "closed"
                         /\ <<u, m>> \in Others(t, m)
  BY <1>2 DEF Others
<1> QED
  BY <1>3, <1>4, MessageSent DEF c

\* The answer to one tab.
LEMMA OneAnswered ==
  ASSUME TypeOK, NEW t \in Tabs, NEW n \in {0, 1}, n = 1 => chan[t] # <<>>, NEW m \in Message,
         NEW u \in Tabs, tab[u].status # "closed", chan' = [Rest(t, n) EXCEPT ![u] = Append(@, m)]
  PROVE  chan' \in [Tabs -> Seq(Message)] /\ ChannelStep(t, n, {<<u, m>>})
<1> DEFINE c == Rest(t, n)
<1>1. c \in [Tabs -> Seq(Message)]
  BY RestOfChannel
<1> HIDE DEF c
<1>2. chan' = [c EXCEPT ![u] = Append(@, m)]
  BY DEF c
<1>3. chan' \in [Tabs -> Seq(Message)]
  <2>1. Append(c[u], m) \in Seq(Message)
    BY <1>1
  <2> QED
    BY <1>1, <1>2, <2>1
<1>4. \A v \in Tabs : \/ chan'[v] = c[v]
                      \/ /\ chan'[v] = Append(c[v], m) /\ tab[v].status # "closed"
                         /\ <<v, m>> \in {<<u, m>>}
  BY <1>1, <1>2
<1> QED
  BY <1>3, <1>4, MessageSent DEF c

-----------------------------------------------------------------------------
(* What a step of a tab may do to what the tabs know and are told.         *)

LEMMA MessageFields ==
  ASSUME NEW m \in Message
  PROVE  /\ m.type \in {"request", "snapshot", "cleared"}
         /\ m.type = "request" => m.from \in Tabs \cup {None}
         /\ m.type = "snapshot" => m.tok \in Tokens /\ m.at \in Nat
         /\ m.type = "cleared" => m.at \in Nat
BY DEF Message

LEMMA KnownPairs ==
  ASSUME NEW T \in TabState, NEW p \in Knows(T)
  PROVE  p[1] \in Tokens /\ p[2] \in Nat
<1>1. /\ T.tok \in MaybeToken /\ T.peer \in MaybeToken /\ T.back \in MaybeToken
      /\ T.at \in Nat /\ T.peerAt \in Nat
  BY DEF TabState
<1>2. p[1] # None /\ (p = <<T.tok, T.at>> \/ p = <<T.peer, T.peerAt>> \/ p = <<T.back, T.at>>)
  BY DEF Knows
<1> QED
  BY <1>1, <1>2 DEF MaybeToken

\* A token and its stamp that may be sent to u: it belongs to no session that was left, or
\* u has the news of that.
MayReach(u, p) ==
    \A s \in ended, stamp \in Nat :
        sess[p[1]] = s /\ LeftAt(s, stamp) => p[2] < stamp /\ Informed(u, stamp)

\* Tab t becomes R, handles n messages and sends some.
NewsStep(t, R, n, sent) ==
    /\ tab' = [tab EXCEPT ![t] = R]
    /\ n \in {0, 1} /\ (n = 1 => chan[t] # <<>>)
    /\ ChannelStep(t, n, sent)
    /\ R.status # "closed" /\ tab[t].at <= R.at /\ R.at <= clock'
    /\ Coherent(R)
    /\ \A p \in Knows(R) :
          \/ p \in Knows(tab[t])
          \/ n = 1 /\ chan[t][1].type = "snapshot" /\ p = <<chan[t][1].tok, chan[t][1].at>>
          \/ p[1] <= top /\ p[2] <= clock' /\ sess[p[1]] \notin ended
    /\ n = 1 /\ chan[t][1].type = "cleared" => chan[t][1].at <= R.at
    /\ \A u \in Tabs, m \in Message : <<u, m>> \in sent =>
          /\ m.type = "request" => m.from = t /\ u # t
          /\ m.type = "cleared" => m.at <= clock'
          /\ m.type = "snapshot" => /\ m.tok <= top /\ m.at <= clock'
                                    /\ MayReach(u, <<m.tok, m.at>>)

\* The tokens and the stamps given out stay what they are.
NothingTakenBack ==
    /\ clock' \in Nat /\ clock <= clock' /\ marker' <= clock'
    /\ top <= top' /\ \A k \in 1 .. top : sess'[k] = sess[k]

\* Nobody is logged out either.
NobodyLeaves == NothingTakenBack /\ ended' = ended

LEMMA StampsStay ==
  ASSUME TypeOK, StampsInOrder, TypeOK', NEW t \in Tabs, NEW R \in TabState, NEW n, NEW sent,
         NewsStep(t, R, n, sent), NothingTakenBack
  PROVE  StampsInOrder'
<1>1. /\ tab'[t] = R
      /\ \A u \in Tabs : u # t => tab'[u] = tab[u]
  BY DEF TypeOK, NewsStep
<1>2. /\ clock \in Nat /\ clock' \in Nat /\ clock <= clock' /\ top \in Nat /\ top' \in Nat
      /\ top <= top'
  BY DEF TypeOK, NothingTakenBack
<1>3. \A p : p[1] \in Nat /\ p[2] \in Nat /\ Numbered(p) => Numbered(p)'
  BY <1>2 DEF Numbered
<1>4. \A u \in Tabs : \A i \in DOMAIN chan[u] : chan[u][i] \in Message
  BY DEF TypeOK
<1>5. \A u \in Tabs : \A j \in DOMAIN chan'[u] : chan'[u][j] \in Message
  BY DEF TypeOK
<1>6. ASSUME NEW u \in Tabs
      PROVE  /\ tab'[u].at <= clock'
             /\ \A p \in Knows(tab'[u]) : Numbered(p)'
  <2>1. tab[u] \in TabState
    BY DEF TypeOK
  <2>2. /\ tab[u].at <= clock /\ tab[u].at \in Nat
        /\ \A p \in Knows(tab[u]) : Numbered(p) /\ p[1] \in Nat /\ p[2] \in Nat
    <3>1. tab[u].at \in Nat
      BY <2>1 DEF TabState
    <3>2. \A p \in Knows(tab[u]) : p[1] \in Nat /\ p[2] \in Nat
      BY <2>1, KnownPairs DEF Tokens
    <3> QED
      BY <3>1, <3>2 DEF StampsInOrder
  <2>3. CASE u # t
    BY <1>1, <1>2, <1>3, <2>2, <2>3
  <2>4. CASE u = t
    <3>1. tab'[u].at <= clock'
      BY <1>1, <2>4 DEF NewsStep
    <3>2. ASSUME NEW p \in Knows(R)
          PROVE  Numbered(p)'
      <4>1. CASE p \in Knows(tab[t])
        BY <1>3, <2>2, <2>4, <4>1
      <4>2. CASE n = 1 /\ chan[t][1].type = "snapshot" /\ p = <<chan[t][1].tok, chan[t][1].at>>
        <5>1. 1 \in DOMAIN chan[t]
          BY <4>2 DEF NewsStep, TypeOK
        <5>2. Numbered(<<chan[t][1].tok, chan[t][1].at>>)
          BY <4>2, <5>1 DEF StampsInOrder
        <5>3. chan[t][1].tok \in Nat /\ chan[t][1].at \in Nat
          BY <1>4, <4>2, <5>1, MessageFields DEF Tokens
        <5> QED
          BY <1>2, <4>2, <5>2, <5>3 DEF Numbered
      <4>3. CASE p[1] <= top /\ p[2] <= clock' /\ sess[p[1]] \notin ended
        <5>1. p[1] \in Nat
          BY KnownPairs DEF Tokens
        <5> QED
          BY <1>2, <4>3, <5>1 DEF Numbered
      <4> QED
        BY <4>1, <4>2, <4>3 DEF NewsStep
    <3> QED
      BY <1>1, <2>4, <3>1, <3>2
  <2> QED
    BY <2>3, <2>4
<1>7. ASSUME NEW u \in Tabs, NEW j \in DOMAIN chan'[u]
      PROVE  /\ chan'[u][j].type = "snapshot" => Numbered(<<chan[u][j].tok, chan[u][j].at>>)'
             /\ chan'[u][j].type = "cleared" => chan'[u][j].at <= clock'
  <2> DEFINE i == j + Dropped(t, u, n)
  <2>1. PICK m \in Message : m = chan'[u][j]
    BY <1>5
  <2>2. CASE i \in DOMAIN chan[u] /\ m = chan[u][i]
    <3>1. /\ m.type = "snapshot" => Numbered(<<m.tok, m.at>>)
          /\ m.type = "cleared" => m.at <= clock
      BY <2>2 DEF StampsInOrder
    <3>2. /\ m.type = "snapshot" => Numbered(<<m.tok, m.at>>)'
          /\ m.type = "cleared" => m.at <= clock'
      BY <1>2, <2>1, <3>1, MessageFields DEF Numbered, Tokens
    <3> QED
      BY <2>1, <3>2
  <2>3. CASE <<u, m>> \in sent
    <3>1. /\ m.type = "snapshot" => m.tok <= top /\ m.at <= clock'
          /\ m.type = "cleared" => m.at <= clock'
      BY <2>1, <2>3 DEF NewsStep
    <3>2. /\ m.type = "snapshot" => Numbered(<<m.tok, m.at>>)'
          /\ m.type = "cleared" => m.at <= clock'
      BY <1>2, <2>1, <3>1, MessageFields DEF Numbered, Tokens
    <3> QED
      BY <2>1, <3>2
  <2>4. (i \in DOMAIN chan[u] /\ m = chan[u][i]) \/ <<u, m>> \in sent
    BY <2>1 DEF NewsStep, ChannelStep
  <2> QED
    BY <2>2, <2>3, <2>4
<1>8. marker' <= clock'
  BY DEF NothingTakenBack
<1> QED
  BY <1>6, <1>7, <1>8 DEF StampsInOrder

LEMMA ClosedTabsStayOut ==
  ASSUME TypeOK, ClosedTabsAreOut, TypeOK', NEW t \in Tabs, NEW R \in TabState, NEW n, NEW sent,
         NewsStep(t, R, n, sent)
  PROVE  ClosedTabsAreOut'
<1>1. /\ tab'[t] = R /\ R.status # "closed"
      /\ \A u \in Tabs : u # t => tab'[u] = tab[u]
  BY DEF TypeOK, NewsStep
<1>2. \A u \in Tabs : \A j \in DOMAIN chan'[u] :
         \/ /\ j + Dropped(t, u, n) \in DOMAIN chan[u]
            /\ chan'[u][j] = chan[u][j + Dropped(t, u, n)]
         \/ tab[u].status # "closed" /\ <<u, chan'[u][j]>> \in sent
  BY DEF NewsStep, ChannelStep
<1>3. ASSUME NEW u \in Tabs, tab'[u].status = "closed"
      PROVE  tab'[u] = ClosedTab /\ chan'[u] = <<>>
  <2>1. u # t /\ tab'[u] = tab[u]
    BY <1>1, <1>3
  <2>2. tab[u] = ClosedTab /\ chan[u] = <<>>
    BY <1>3, <2>1 DEF ClosedTabsAreOut
  <2>3. \A j \in DOMAIN chan'[u] : FALSE
    <3>1. DOMAIN chan[u] = {}
      BY <2>2
    <3>2. tab[u].status = "closed"
      BY <1>3, <2>1
    <3> QED
      BY <1>2, <3>1, <3>2
  <2>4. chan'[u] \in Seq(Message)
    BY DEF TypeOK
  <2>5. chan'[u] = <<>>
    <3>1. Len(chan'[u]) \in Nat /\ DOMAIN chan'[u] = 1 .. Len(chan'[u])
      BY <2>4
    <3>2. Len(chan'[u]) = 0
      <4>1. 1 \notin DOMAIN chan'[u]
        BY <2>3
      <4> QED
        BY <3>1, <4>1
    <3> QED
      BY <2>4, <3>2, EmptySeq
  <2> QED
    BY <2>1, <2>2, <2>5
<1>4. ASSUME NEW u \in Tabs, NEW j \in DOMAIN chan'[u],
             chan'[u][j].type = "request", chan'[u][j].from # None
      PROVE  tab'[chan'[u][j].from].status # "closed"
  <2>1. PICK m \in Message : m = chan'[u][j]
    BY DEF TypeOK
  <2>2. m.from \in Tabs
    BY <1>4, <2>1, MessageFields
  <2>3. tab[m.from].status # "closed" \/ m.from = t
    <3>1. CASE /\ j + Dropped(t, u, n) \in DOMAIN chan[u]
               /\ m = chan[u][j + Dropped(t, u, n)]
      BY <1>4, <2>1, <3>1 DEF ClosedTabsAreOut
    <3>2. CASE <<u, m>> \in sent
      BY <1>4, <2>1, <3>2 DEF NewsStep
    <3> QED
      BY <1>2, <2>1, <3>1, <3>2
  <2>4. tab'[m.from].status # "closed"
    BY <1>1, <2>2, <2>3
  <2> QED
    BY <2>1, <2>4
<1> QED
  BY <1>3, <1>4 DEF ClosedTabsAreOut

\* The news of a logout is never lost: what was handled was noted.
LEMMA NewsIsKept ==
  ASSUME TypeOK, TypeOK', NEW t \in Tabs, NEW R \in TabState, NEW n, NEW sent,
         NewsStep(t, R, n, sent), NEW u \in Tabs, NEW stamp \in Nat
  PROVE  /\ tab[u].at >= stamp => tab'[u].at >= stamp
         /\ \A i \in Nat, j \in Nat : i = j + Dropped(t, u, n) /\ ClearedBefore(u, i, stamp) =>
               tab'[u].at >= stamp \/ ClearedBefore(u, j, stamp)'
         /\ Informed(u, stamp) => Informed(u, stamp)'
<1>1. /\ tab'[t] = R
      /\ \A v \in Tabs : v # t => tab'[v] = tab[v]
  BY DEF TypeOK, NewsStep
<1>2. tab[u].at \in Nat /\ tab'[u].at \in Nat
  <2>1. tab[u] \in TabState /\ tab'[u] \in TabState
    BY DEF TypeOK
  <2> QED
    BY <2>1 DEF TabState
<1>3. tab[u].at <= tab'[u].at
  BY <1>1, <1>2 DEF NewsStep
<1>4. tab[u].at >= stamp => tab'[u].at >= stamp
  BY <1>2, <1>3
<1>5. ASSUME NEW i \in Nat, NEW j \in Nat, i = j + Dropped(t, u, n), ClearedBefore(u, i, stamp)
      PROVE  tab'[u].at >= stamp \/ ClearedBefore(u, j, stamp)'
  <2>1. PICK k \in DOMAIN chan[u] : k < i /\ chan[u][k].type = "cleared" /\ chan[u][k].at >= stamp
    BY <1>5 DEF ClearedBefore
  <2>2. DOMAIN chan[u] = 1 .. Len(chan[u]) /\ k \in Nat /\ k >= 1 /\ chan[u][k].at \in Nat
    <3>1. chan[u] \in Seq(Message)
      BY DEF TypeOK
    <3>2. k \in Nat /\ k >= 1 /\ chan[u][k] \in Message /\ DOMAIN chan[u] = 1 .. Len(chan[u])
      BY <2>1, <3>1
    <3> QED
      BY <2>1, <3>2, MessageFields
  <2>3. Dropped(t, u, n) \in {0, 1}
    BY DEF Dropped, NewsStep
  <2>4. CASE k > Dropped(t, u, n)
    <3>1. /\ k - Dropped(t, u, n) \in DOMAIN chan'[u]
          /\ chan'[u][k - Dropped(t, u, n)] = chan[u][k]
      BY <2>1, <2>4 DEF NewsStep, ChannelStep
    <3>2. k - Dropped(t, u, n) < j
      BY <1>5, <2>1, <2>2, <2>3
    <3> QED
      BY <2>1, <3>1, <3>2 DEF ClearedBefore
  <2>5. CASE k <= Dropped(t, u, n)
    <3>1. u = t /\ n = 1 /\ k = 1
      BY <2>2, <2>3, <2>5 DEF Dropped, NewsStep
    <3>2. chan[u][k].at <= tab'[u].at
      BY <1>1, <2>1, <3>1 DEF NewsStep
    <3> QED
      BY <1>2, <2>1, <2>2, <3>2
  <2> QED
    BY <2>2, <2>3, <2>4, <2>5
<1>6. ASSUME Informed(u, stamp)
      PROVE  Informed(u, stamp)'
  <2>1. CASE tab[u].at >= stamp
    BY <1>4, <2>1 DEF Informed
  <2>2. CASE ClearedBefore(u, End(u), stamp)
    <3>1. PICK k \in DOMAIN chan[u] :
             k < End(u) /\ chan[u][k].type = "cleared" /\ chan[u][k].at >= stamp
      BY <2>2 DEF ClearedBefore
    <3>2. k \in Nat /\ k >= 1
      BY <3>1 DEF TypeOK
    <3>3. Dropped(t, u, n) \in {0, 1}
      BY DEF Dropped, NewsStep
    <3>4. CASE k > Dropped(t, u, n)
      <4>1. /\ k - Dropped(t, u, n) \in DOMAIN chan'[u]
            /\ chan'[u][k - Dropped(t, u, n)] = chan[u][k]
        BY <3>1, <3>4 DEF NewsStep, ChannelStep
      <4>2. k - Dropped(t, u, n) < End(u)'
        BY <4>1 DEF TypeOK, End
      <4>3. ClearedBefore(u, End(u), stamp)'
        BY <3>1, <4>1, <4>2 DEF ClearedBefore
      <4> QED
        BY <4>3 DEF Informed
    <3>5. CASE k <= Dropped(t, u, n)
      <4>1. k + 1 \in Nat /\ 1 \in Nat /\ k + 1 = 1 + Dropped(t, u, n)
        BY <3>2, <3>3, <3>5
      <4>2. ClearedBefore(u, k + 1, stamp)
        BY <3>1, <3>2 DEF ClearedBefore
      <4>3. tab'[u].at >= stamp \/ ClearedBefore(u, 1, stamp)'
        BY <1>5, <4>1, <4>2
      <4>4. ~ClearedBefore(u, 1, stamp)'
        BY DEF ClearedBefore, TypeOK
      <4> QED
        BY <4>3, <4>4 DEF Informed
    <3> QED
      BY <3>2, <3>3, <3>4, <3>5
  <2> QED
    BY <1>6, <2>1, <2>2 DEF Informed
<1> QED
  BY <1>4, <1>5, <1>6

LEMMA LeftStaysLeft ==
  ASSUME TypeOK, StampsInOrder, TypeOK', NEW t \in Tabs, NEW R \in TabState, NEW n, NEW sent,
         NewsStep(t, R, n, sent), NothingTakenBack, NEW s \in ended, NEW stamp \in Nat, LeftAt(s, stamp)
  PROVE  LeftAt(s, stamp)'
<1>1. /\ tab'[t] = R
      /\ \A u \in Tabs : u # t => tab'[u] = tab[u]
  BY DEF TypeOK, NewsStep
<1>2. \A u \in Tabs : \A i \in DOMAIN chan[u] : i \in Nat /\ i >= 1 /\ chan[u][i] \in Message
  BY DEF TypeOK
<1>3. \A u \in Tabs : \A j \in DOMAIN chan'[u] :
         j \in Nat /\ j >= 1 /\ chan'[u][j] \in Message
  BY DEF TypeOK
<1>4. \A u \in Tabs : Dropped(t, u, n) \in {0, 1}
  BY DEF Dropped, NewsStep
<1>5. \A u \in Tabs : \A j \in DOMAIN chan'[u] :
         \/ /\ j + Dropped(t, u, n) \in DOMAIN chan[u]
            /\ chan'[u][j] = chan[u][j + Dropped(t, u, n)]
         \/ /\ j + Dropped(t, u, n) = End(u) /\ <<u, chan'[u][j]>> \in sent
  BY DEF NewsStep, ChannelStep
\* The tokens of s that t learns were in the channel.
<1>6. ASSUME NEW u \in Tabs, NEW p \in Knows(tab'[u]), sess[p[1]] = s
      PROVE  \/ p \in Knows(tab[u])
             \/ /\ u = t /\ n = 1 /\ chan[t][1].type = "snapshot"
                /\ p = <<chan[t][1].tok, chan[t][1].at>>
  <2>1. CASE u # t
    BY <1>1, <1>6, <2>1
  <2>2. CASE u = t
    BY <1>1, <1>6, <2>2 DEF NewsStep
  <2> QED
    BY <2>1, <2>2
<1>7. \A k \in 1 .. top : sess'[k] = sess[k]
  BY DEF NothingTakenBack
<1>8. ASSUME NEW u \in Tabs, NEW p \in Knows(tab'[u])
      PROVE  sess'[p[1]] = s => sess[p[1]] = s
  <2>1. tab'[u] \in TabState
    BY DEF TypeOK
  <2>2. p[1] \in Tokens /\ p[2] \in Nat
    BY <2>1, KnownPairs
  <2>3. p[1] <= top
    <3>1. CASE p \in Knows(tab[u])
      BY <3>1 DEF StampsInOrder, Numbered
    <3>2. CASE u = t /\ n = 1 /\ chan[t][1].type = "snapshot"
               /\ p = <<chan[t][1].tok, chan[t][1].at>>
      <4>1. 1 \in DOMAIN chan[t]
        BY <3>2 DEF NewsStep, TypeOK
      <4> QED
        BY <3>2, <4>1 DEF StampsInOrder, Numbered
    <3>3. CASE u = t /\ p[1] <= top
      BY <3>3
    <3> QED
      BY <1>1, <3>1, <3>2, <3>3 DEF NewsStep
  <2> QED
    BY <1>7, <2>2, <2>3 DEF Tokens
<1>9. ASSUME NEW u \in Tabs, NEW j \in DOMAIN chan'[u], chan'[u][j].type = "snapshot"
      PROVE  sess'[chan'[u][j].tok] = s => sess[chan'[u][j].tok] = s
  <2>1. PICK m \in Message : m = chan'[u][j]
    BY <1>3
  <2>2. m.tok \in Tokens
    BY <1>9, <2>1, MessageFields
  <2>3. m.tok <= top
    <3>1. CASE /\ j + Dropped(t, u, n) \in DOMAIN chan[u]
               /\ m = chan[u][j + Dropped(t, u, n)]
      BY <1>9, <2>1, <3>1 DEF StampsInOrder, Numbered
    <3>2. CASE <<u, m>> \in sent
      BY <1>9, <2>1, <3>2 DEF NewsStep
    <3> QED
      BY <1>5, <2>1, <3>1, <3>2
  <2> QED
    BY <1>7, <2>1, <2>2, <2>3 DEF Tokens
\* A snapshot of s that is sent goes to a tab that has the news.
<1>10. ASSUME NEW u \in Tabs, NEW m \in Message, <<u, m>> \in sent, m.type = "snapshot",
              sess[m.tok] = s
       PROVE  m.at < stamp /\ Informed(u, stamp)
  <2>1. MayReach(u, <<m.tok, m.at>>)
    BY <1>10 DEF NewsStep
  <2> QED
    BY <1>10, <2>1 DEF MayReach
<1>11. ASSUME NEW u \in Tabs, NEW p \in Knows(tab'[u]), sess'[p[1]] = s
       PROVE  p[2] < stamp
  <2>1. sess[p[1]] = s
    BY <1>8, <1>11
  <2>2. CASE p \in Knows(tab[u])
    BY <2>1, <2>2 DEF LeftAt
  <2>3. CASE u = t /\ n = 1 /\ chan[t][1].type = "snapshot"
             /\ p = <<chan[t][1].tok, chan[t][1].at>>
    <3>1. 1 \in DOMAIN chan[t]
      BY <2>3 DEF NewsStep, TypeOK
    <3> QED
      BY <2>1, <2>3, <3>1 DEF LeftAt
  <2> QED
    BY <1>6, <2>1, <2>2, <2>3
<1>12. ASSUME NEW u \in Tabs, NEW j \in DOMAIN chan'[u], chan'[u][j].type = "snapshot",
              sess'[chan'[u][j].tok] = s
       PROVE  chan'[u][j].at < stamp
  <2>1. PICK m \in Message : m = chan'[u][j]
    BY <1>3
  <2>2. sess[m.tok] = s
    BY <1>9, <1>12, <2>1
  <2>3. CASE /\ j + Dropped(t, u, n) \in DOMAIN chan[u]
             /\ m = chan[u][j + Dropped(t, u, n)]
    BY <1>12, <2>1, <2>2, <2>3 DEF LeftAt
  <2>4. CASE <<u, m>> \in sent
    BY <1>10, <1>12, <2>1, <2>2, <2>4
  <2> QED
    BY <1>5, <2>1, <2>3, <2>4
\* A tab without the news still does not know s up to a place of its channel.
<1>13. ASSUME NEW u \in Tabs, NEW i \in Nat, NEW j \in Nat, i = j + Dropped(t, u, n), j >= 1,
              i <= End(u) \/ (\A k \in DOMAIN chan'[u] : <<u, chan'[u][k]>> \in sent =>
                                 ~(chan'[u][k].type = "snapshot" /\ sess[chan'[u][k].tok] = s)),
              Ignores(u, s), ~ShownBefore(u, i, s)
       PROVE  (Ignores(u, s) /\ ~ShownBefore(u, j, s))'
  <2>1. \A p \in Knows(tab'[u]) : sess'[p[1]] # s
    <3> SUFFICES ASSUME NEW p \in Knows(tab'[u]), sess'[p[1]] = s
                 PROVE  FALSE
      OBVIOUS
    <3>1. sess[p[1]] = s
      BY <1>8
    <3>2. CASE p \in Knows(tab[u])
      BY <1>13, <3>1, <3>2 DEF Ignores
    <3>3. CASE u = t /\ n = 1 /\ chan[t][1].type = "snapshot"
               /\ p = <<chan[t][1].tok, chan[t][1].at>>
      <4>1. 1 \in DOMAIN chan[u] /\ 1 < i
        BY <1>13, <3>3 DEF NewsStep, TypeOK, Dropped
      <4>2. ShownBefore(u, i, s)
        BY <3>1, <3>3, <4>1 DEF ShownBefore
      <4> QED
        BY <1>13, <4>2
    <3> QED
      BY <1>6, <3>1, <3>2, <3>3
  <2>2. ~(\E k \in DOMAIN chan'[u] : k < j /\ chan'[u][k].type = "snapshot"
                                          /\ sess'[chan'[u][k].tok] = s)
    <3> SUFFICES ASSUME NEW k \in DOMAIN chan'[u], k < j, chan'[u][k].type = "snapshot",
                        sess'[chan'[u][k].tok] = s
                 PROVE  FALSE
      OBVIOUS
    <3>1. sess[chan'[u][k].tok] = s
      BY <1>9
    <3>2. k + Dropped(t, u, n) < i /\ k \in Nat
      BY <1>3, <1>4, <1>13
    <3>3. CASE /\ k + Dropped(t, u, n) \in DOMAIN chan[u]
               /\ chan'[u][k] = chan[u][k + Dropped(t, u, n)]
      <4>1. ShownBefore(u, i, s)
        BY <3>1, <3>2, <3>3 DEF ShownBefore
      <4> QED
        BY <1>13, <4>1
    <3>4. CASE k + Dropped(t, u, n) = End(u) /\ <<u, chan'[u][k]>> \in sent
      <4>1. End(u) \in Nat
        BY DEF End, TypeOK
      <4> QED
        BY <1>13, <3>1, <3>2, <3>4, <4>1
    <3> QED
      BY <1>5, <3>3, <3>4
  <2> QED
    BY <2>1, <2>2 DEF Ignores, ShownBefore
<1>14. ASSUME NEW u \in Tabs
       PROVE  Informed(u, stamp)' \/ (Ignores(u, s) /\ ~ShownBefore(u, End(u), s))'
  <2>1. CASE Informed(u, stamp)
    BY <2>1, NewsIsKept
  <2>2. CASE \E k \in DOMAIN chan'[u] : /\ <<u, chan'[u][k]>> \in sent
                                         /\ chan'[u][k].type = "snapshot"
                                         /\ sess[chan'[u][k].tok] = s
    <3>1. Informed(u, stamp)
      BY <1>3, <1>10, <2>2
    <3> QED
      BY <3>1, NewsIsKept
  <2>3. CASE /\ Ignores(u, s) /\ ~ShownBefore(u, End(u), s)
             /\ \A k \in DOMAIN chan'[u] : <<u, chan'[u][k]>> \in sent =>
                   ~(chan'[u][k].type = "snapshot" /\ sess[chan'[u][k].tok] = s)
    <3>1. PICK j \in Nat : j = End(u)' /\ j >= 1
      BY DEF End, TypeOK
    <3>2. PICK i \in Nat : i = j + Dropped(t, u, n)
      BY <1>4
    <3>3. ~ShownBefore(u, i, s)
      <4>1. \A k \in DOMAIN chan[u] : k < End(u)
        BY DEF End, TypeOK
      <4> QED
        BY <2>3, <4>1 DEF ShownBefore
    <3>4. (Ignores(u, s) /\ ~ShownBefore(u, j, s))'
      BY <1>13, <2>3, <3>1, <3>2, <3>3
    <3> QED
      BY <3>1, <3>4
  <2>4. Informed(u, stamp) \/ (Ignores(u, s) /\ ~ShownBefore(u, End(u), s))
    BY DEF LeftAt
  <2> QED
    BY <2>1, <2>2, <2>3, <2>4
<1>15. ASSUME NEW u \in Tabs, NEW j \in DOMAIN chan'[u], chan'[u][j].type = "request",
              chan'[u][j].from # None
       PROVE  \/ Informed(chan[u][j].from, stamp)'
              \/ tab'[u].at >= stamp \/ ClearedBefore(u, j, stamp)'
              \/ (Ignores(u, s) /\ ~ShownBefore(u, j, s))'
  <2>1. PICK m \in Message : m = chan'[u][j]
    BY <1>3
  <2>2. m.from \in Tabs /\ m.type = "request" /\ j \in Nat /\ j >= 1
    BY <1>3, <1>15, <2>1, MessageFields
  <2>3. PICK i \in Nat : i = j + Dropped(t, u, n)
    BY <1>4, <2>2
  <2>4. CASE i \in DOMAIN chan[u] /\ m = chan[u][i]
    <3>1. \/ Informed(m.from, stamp)
          \/ tab[u].at >= stamp \/ ClearedBefore(u, i, stamp)
          \/ Ignores(u, s) /\ ~ShownBefore(u, i, s)
      BY <1>15, <2>1, <2>4 DEF LeftAt
    <3>2. i <= End(u)
      BY <2>4 DEF End, TypeOK
    <3>3. Informed(m.from, stamp) => Informed(m.from, stamp)'
      BY <2>2, NewsIsKept
    <3>4. tab[u].at >= stamp \/ ClearedBefore(u, i, stamp)
             => tab'[u].at >= stamp \/ ClearedBefore(u, j, stamp)'
      BY <2>2, <2>3, NewsIsKept
    <3>5. Ignores(u, s) /\ ~ShownBefore(u, i, s) => (Ignores(u, s) /\ ~ShownBefore(u, j, s))'
      BY <1>13, <2>2, <2>3, <3>2
    <3> QED
      BY <2>1, <3>1, <3>3, <3>4, <3>5
  <2>5. CASE i = End(u) /\ <<u, m>> \in sent
    <3>1. m.from = t /\ u # t
      BY <2>2, <2>5 DEF NewsStep
    <3>2. Informed(u, stamp) \/ (Ignores(u, s) /\ ~ShownBefore(u, i, s))
      BY <2>5 DEF LeftAt
    <3>3. Informed(u, stamp) => tab[u].at >= stamp \/ ClearedBefore(u, i, stamp)
      BY <2>5 DEF Informed
    <3>4. tab[u].at >= stamp \/ ClearedBefore(u, i, stamp)
             => tab'[u].at >= stamp \/ ClearedBefore(u, j, stamp)'
      BY <2>2, <2>3, NewsIsKept
    <3>5. i <= End(u)
      BY <2>5
    <3>6. Ignores(u, s) /\ ~ShownBefore(u, i, s) => (Ignores(u, s) /\ ~ShownBefore(u, j, s))'
      BY <1>13, <2>2, <2>3, <3>5
    <3> QED
      BY <3>2, <3>3, <3>4, <3>6
  <2> QED
    BY <1>5, <2>1, <2>3, <2>4, <2>5
<1> QED
  <2>1. \A u \in Tabs :
           /\ \A p \in Knows(tab'[u]) : sess'[p[1]] = s => p[2] < stamp
           /\ \A j \in DOMAIN chan'[u] :
                 chan'[u][j].type = "snapshot" /\ sess'[chan'[u][j].tok] = s
                    => chan'[u][j].at < stamp
           /\ Informed(u, stamp)' \/ (Ignores(u, s) /\ ~ShownBefore(u, End(u), s))'
    BY <1>11, <1>12, <1>14
  <2>2. \A u \in Tabs : \A j \in DOMAIN chan'[u] :
           chan'[u][j].type = "request" /\ chan'[u][j].from # None =>
              \/ Informed(chan[u][j].from, stamp)'
              \/ tab'[u].at >= stamp \/ ClearedBefore(u, j, stamp)'
              \/ (Ignores(u, s) /\ ~ShownBefore(u, j, s))'
    BY <1>15
  <2> QED
    BY <2>1, <2>2, Zenon DEF LeftAt

LEMMA NewsStays ==
  ASSUME TypeOK, NewsInv, TypeOK', NEW t \in Tabs, NEW R \in TabState, NEW n, NEW sent,
         NewsStep(t, R, n, sent), NobodyLeaves
  PROVE  NewsInv'
<1>1. StampsInOrder'
  BY StampsStay DEF NewsInv, NobodyLeaves
<1>2. ClosedTabsAreOut'
  BY ClosedTabsStayOut DEF NewsInv
<1>3. \A u \in Tabs : Coherent(tab'[u])
  <2>1. /\ tab'[t] = R
        /\ \A u \in Tabs : u # t => tab'[u] = tab[u]
    BY DEF TypeOK, NewsStep
  <2> QED
    BY <2>1 DEF NewsInv, NewsStep
<1>4. \A s \in ended' : \E stamp \in 1 .. clock' : LeftAt(s, stamp)'
  <2> TAKE s \in ended'
  <2>1. s \in ended
    BY DEF NobodyLeaves, NothingTakenBack
  <2>2. PICK stamp \in 1 .. clock : LeftAt(s, stamp)
    BY <2>1 DEF NewsInv
  <2>3. stamp \in Nat /\ stamp \in 1 .. clock'
    BY DEF NobodyLeaves, NothingTakenBack, TypeOK
  <2>4. LeftAt(s, stamp)'
    BY <2>1, <2>2, <2>3, LeftStaysLeft DEF NewsInv, NobodyLeaves
  <2> QED
    BY <2>3, <2>4
<1>5. (\A u \in Tabs : Coherent(tab[u]))'
  BY <1>3 DEF Coherent, Quits
<1> QED
  BY <1>1, <1>2, <1>4, <1>5 DEF NewsInv

-----------------------------------------------------------------------------
(* The invariant and the ordinary step of a tab.                           *)

SessionInv == TypeOK /\ SecretInv /\ NewsInv

\* What tab t may know as R after it has handled n messages.
Grown(t, R, n, now) ==
    /\ R.status # "closed" /\ tab[t].at <= R.at /\ R.at <= now /\ Coherent(R)
    /\ \A p \in Knows(R) :
          \/ p \in Knows(tab[t])
          \/ n = 1 /\ chan[t][1].type = "snapshot" /\ p = <<chan[t][1].tok, chan[t][1].at>>
    /\ n = 1 /\ chan[t][1].type = "cleared" => chan[t][1].at <= R.at

\* It asks its peers or tells them that the session has ended, or says nothing.
Speaks(t, n) ==
    \/ chan' = Rest(t, n)
    \/ chan' = Posted(Rest(t, n), t, Request(t))
    \/ chan' = Posted(Rest(t, n), t, ClearedMessage("ended", clock'))

\* What no ordinary step touches.
Ordinary ==
    /\ UNCHANGED <<server, age, cookie, history>>
    /\ clock' \in {clock, clock + 1} /\ marker' \in Nat /\ marker' <= clock
    /\ left' \in [Bounded -> Nat] /\ left'["tokens"] <= left["tokens"]

LEMMA SpokenChannel ==
  ASSUME TypeOK, clock' \in Nat, NEW t \in Tabs, NEW n \in {0, 1}, n = 1 => chan[t] # <<>>,
         Speaks(t, n)
  PROVE  /\ chan' \in [Tabs -> Seq(Message)]
         /\ \E sent : /\ ChannelStep(t, n, sent)
                      /\ \A u \in Tabs, m \in Message : <<u, m>> \in sent =>
                            /\ m.type = "request" => m.from = t /\ u # t
                            /\ m.type = "cleared" => m.at <= clock'
                            /\ m.type # "snapshot"
<1>1. CASE chan' = Rest(t, n)
  <2>1. chan' \in [Tabs -> Seq(Message)] /\ ChannelStep(t, n, {})
    BY <1>1, NothingSent
  <2> QED
    BY <2>1
<1>2. CASE chan' = Posted(Rest(t, n), t, Request(t))
  <2> DEFINE m == Request(t)
  <2>1. m \in Message /\ m.type = "request" /\ m.from = t
    BY DEF Message, Request
  <2> HIDE DEF m
  <2>2. chan' = Posted(Rest(t, n), t, m)
    BY <1>2 DEF m
  <2>3. chan' \in [Tabs -> Seq(Message)] /\ ChannelStep(t, n, Others(t, m))
    BY <2>1, <2>2, OneSent
  <2> QED
    BY <2>1, <2>3 DEF Others
<1>3. CASE chan' = Posted(Rest(t, n), t, ClearedMessage("ended", clock'))
  <2>1. PICK now \in Nat : now = clock'
    OBVIOUS
  <2> DEFINE m == ClearedMessage("ended", now)
  <2>2. m \in Message /\ m.type = "cleared" /\ m.at = now
    BY DEF Message, ClearedMessage
  <2>3. chan' = Posted(Rest(t, n), t, m)
    BY <1>3, <2>1
  <2> HIDE DEF m
  <2>4. chan' \in [Tabs -> Seq(Message)] /\ ChannelStep(t, n, Others(t, m))
    BY <2>2, <2>3, OneSent
  <2> QED
    BY <2>1, <2>2, <2>4 DEF Others
<1> QED
  BY <1>1, <1>2, <1>3 DEF Speaks

\* The news of a step that logs nobody in or out.
LEMMA OrdinaryNews ==
  ASSUME TypeOK, NewsInv, NEW t \in Tabs, NEW R \in TabState, NEW n \in {0, 1},
         n = 1 => chan[t] # <<>>, tab' = [tab EXCEPT ![t] = R], Grown(t, R, n, clock'),
         Speaks(t, n), TypeOK', NobodyLeaves
  PROVE  NewsInv'
<1>1. clock' \in Nat
  BY DEF NobodyLeaves, NothingTakenBack
<1>2. PICK sent : /\ ChannelStep(t, n, sent)
                  /\ \A u \in Tabs, m \in Message : <<u, m>> \in sent =>
                        /\ m.type = "request" => m.from = t /\ u # t
                        /\ m.type = "cleared" => m.at <= clock'
                        /\ m.type # "snapshot"
  BY <1>1, SpokenChannel
<1>3. NewsStep(t, R, n, sent)
  BY <1>2 DEF NewsStep, Grown
<1> QED
  BY <1>3, NewsStays

LEMMA OrdinaryStep ==
  ASSUME SessionInv, NEW t \in Tabs, NEW R \in TabState, NEW X, NEW n \in {0, 1},
         n = 1 => chan[t] # <<>>, GoesOn(t, R, X), Grown(t, R, n, clock'), Speaks(t, n), Ordinary
  PROVE  SessionInv'
<1> USE DEF SessionInv
<1>1. SecretInv'
  <2>1. NoToken
    BY DEF NoToken, Ordinary, Bounded
  <2>2. UNCHANGED <<server, cookie, lost, ended>>
    BY DEF Ordinary, history
  <2> QED
    BY <2>1, <2>2, QuietStep
<1>2. NobodyLeaves
  BY DEF NobodyLeaves, NothingTakenBack, Ordinary, TypeOK, server, history
<1>3. TypeOK'
  <2>1. chan' \in [Tabs -> Seq(Message)]
    BY <1>2, SpokenChannel DEF NobodyLeaves, NothingTakenBack
  <2>2. tab' \in [Tabs -> TabState]
    BY DEF GoesOn, TypeOK
  <2>3. /\ DOMAIN queue' \subseteq LockRequest
        /\ queue' \in [DOMAIN queue' -> SUBSET LockRequest]
    BY DEF GoesOn, Keeps
  <2>4. marker' \in Nat /\ clock' \in Nat /\ left' \in [Bounded -> Nat]
    BY DEF Ordinary, TypeOK
  <2>5. UNCHANGED <<secret, sess, top, age, cookie, ended, loginAt, lost>>
    BY DEF Ordinary, server, history
  <2> QED
    BY <2>1, <2>2, <2>3, <2>4, <2>5 DEF TypeOK
<1>4. NewsInv'
  BY <1>2, <1>3, OrdinaryNews DEF GoesOn
<1> QED
  BY <1>1, <1>3, <1>4

-----------------------------------------------------------------------------
(* How the parts that the handlers share fit an ordinary step.             *)

\* What stays as it is goes on.
LEMMA KeptGoesOn ==
  ASSUME SecretInv, NEW t \in Tabs, NEW R, NEW X
  PROVE  /\ R.rf = tab[t].rf /\ R.rfTok = tab[t].rfTok /\ <<t, "rf">> \notin X
               => RefreshGoesOn(t, R, X)
         /\ R.li = tab[t].li /\ R.liTok = tab[t].liTok /\ <<t, "li">> \notin X
               => LoginGoesOn(t, R, X)
         /\ R.lo = tab[t].lo /\ R.loTok = tab[t].loTok /\ <<t, "lo">> \notin X
               => LogoutGoesOn(t, R, X)
<1>1. /\ RefreshHolds(tab[t]) => Owns(t, "rf")
      /\ LoginHolds(tab[t]) => Owns(t, "li")
      /\ LogoutHolds(tab[t]) => Owns(t, "lo")
  BY DEF SecretInv, LockIsHeld
<1>2. ASSUME R.rf = tab[t].rf, R.rfTok = tab[t].rfTok, <<t, "rf">> \notin X
      PROVE  RefreshGoesOn(t, R, X)
  BY <1>1, <1>2 DEF RefreshGoesOn, RefreshHolds
<1>3. ASSUME R.li = tab[t].li, R.liTok = tab[t].liTok, <<t, "li">> \notin X
      PROVE  LoginGoesOn(t, R, X)
  BY <1>1, <1>3 DEF LoginGoesOn, LoginHolds
<1>4. ASSUME R.lo = tab[t].lo, R.loTok = tab[t].loTok, <<t, "lo">> \notin X
      PROVE  LogoutGoesOn(t, R, X)
  BY <1>1, <1>4 DEF LogoutGoesOn, LogoutHolds
<1> QED
  BY <1>2, <1>3, <1>4

\* One who gives up the lock keeps nothing else from going on.
LEMMA ReleasedQueue ==
  ASSUME SessionInv, NEW t \in Tabs, NEW op \in {"rf", "li", "lo"}, queue' = Released(t, op)
  PROVE  /\ {<<t, op>>} \subseteq Of(t) /\ Keeps({<<t, op>>})
         /\ \A oq \in {"rf", "li", "lo"} : oq # op => <<t, oq>> \notin {<<t, op>>}
<1>1. QueueOK
  BY DEF SessionInv, TypeOK, SecretInv, QueueOK
<1>2. Keeps({<<t, op>>})
  BY <1>1, ShorterQueue DEF Released
<1> QED
  BY <1>2 DEF Of, LockRequest

LEMMA GrowingQueue ==
  ASSUME SessionInv, NEW t \in Tabs,
         queue' = queue \/ \E op \in {"rf", "li", "lo"} : queue' = Enqueue(t, op)
  PROVE  {} \subseteq Of(t) /\ Keeps({})
<1>1. QueueOK
  BY DEF SessionInv, TypeOK, SecretInv, QueueOK
<1> QED
  BY <1>1, SameQueue, LongerQueue

LEMMA SameSessionKnows ==
  ASSUME NEW T, NEW R, SameSession(T, R)
  PROVE  Knows(R) = Knows(T) /\ (Quits(R) <=> Quits(T))
BY DEF SameSession, Knows, Quits

\* What is known without a handled message is known as well when one is handled.
LEMMA SameSessionGrown ==
  ASSUME SessionInv, NEW t \in Tabs, NEW T, NEW R, NEW n, NEW now, SameSession(T, R),
         R.lo = T.lo, Grown(t, T, n, now)
  PROVE  Grown(t, R, n, now)
<1>1. Knows(R) = Knows(T) /\ (Quits(R) <=> Quits(T))
  BY SameSessionKnows
<1>2. Coherent(R)
  BY <1>1 DEF SameSession, Grown, Coherent
<1> QED
  BY <1>1, <1>2 DEF SameSession, Grown

LEMMA OpenTab ==
  ASSUME SessionInv, NEW t \in Tabs, tab[t].status # "closed"
  PROVE  tab[t] \in TabState /\ clock \in Nat /\ cookie \in MaybeToken /\ Grown(t, tab[t], 0, clock)
<1>1. tab[t] \in TabState /\ clock \in Nat /\ cookie \in MaybeToken
  BY DEF SessionInv, TypeOK
<1>2. tab[t].at \in Nat
  BY <1>1 DEF TabState
<1>3. tab[t].at <= clock /\ Coherent(tab[t])
  BY DEF SessionInv, NewsInv, StampsInOrder
<1> QED
  BY <1>1, <1>2, <1>3 DEF Grown

LEMMA ForgetsGrown ==
  ASSUME SessionInv, NEW t \in Tabs, NEW R, NEW n \in {0, 1}, n = 1 => chan[t] # <<>>,
         NEW now \in Nat, clock <= now, Forgets(R, now)
  PROVE  Grown(t, R, n, now)
<1>1. Knows(R) = {}
  BY DEF Forgets, Knows
<1>2. Coherent(R) /\ R.status # "closed" /\ R.at = now
  BY DEF Forgets, Coherent
<1>3. tab[t].at <= clock /\ tab[t].at \in Nat /\ clock \in Nat
  <2>1. tab[t] \in TabState
    BY DEF SessionInv, TypeOK
  <2> QED
    BY <2>1 DEF TabState, SessionInv, TypeOK, NewsInv, StampsInOrder
<1>4. ASSUME n = 1, chan[t][1].type = "cleared"
      PROVE  chan[t][1].at <= now
  <2>1. 1 \in DOMAIN chan[t] /\ chan[t][1] \in Message
    BY <1>4 DEF SessionInv, TypeOK
  <2>2. chan[t][1].at \in Nat /\ chan[t][1].at <= clock
    BY <1>4, <2>1, MessageFields DEF SessionInv, NewsInv, StampsInOrder
  <2> QED
    BY <1>3, <2>2
<1> QED
  BY <1>1, <1>2, <1>3, <1>4 DEF Grown

\* Tab t, which handles n messages, becomes R when its refresh is over.
RefreshOver(t, R, n) ==
    /\ R.rf = "none" /\ tab' = [tab EXCEPT ![t] = R]
    /\ R.li = tab[t].li /\ R.liTok = tab[t].liTok /\ R.lo = tab[t].lo /\ R.loTok = tab[t].loTok
    /\ {<<t, "rf">>} \subseteq Of(t) /\ Keeps({<<t, "rf">>})
    /\ tab[t].rf # "ok" => GoesOn(t, R, {<<t, "rf">>})
    /\ Grown(t, R, n, clock') /\ Speaks(t, n) /\ clock' \in {clock, clock + 1}

\* The end of a refresh of a tab that T describes.
LEMMA RefreshEndsStep ==
  ASSUME SessionInv, NEW t \in Tabs, NEW T \in TabState, NEW n \in {0, 1},
         n = 1 => chan[t] # <<>>, Grown(t, T, n, clock), NEW ok \in BOOLEAN,
         RefreshEnds(t, T, ok, Rest(t, n)), queue' = Released(t, "rf"),
         T.li = tab[t].li, T.liTok = tab[t].liTok, T.lo = tab[t].lo, T.loTok = tab[t].loTok
  PROVE  \E R \in TabState : RefreshOver(t, R, n)
<1>1. clock \in Nat /\ cookie \in MaybeToken
  BY DEF SessionInv, TypeOK
<1>2. PICK R \in TabState :
            /\ tab' = [tab EXCEPT ![t] = R]
            /\ R.rf = "none"
            /\ R.li = T.li /\ R.liTok = T.liTok /\ R.lo = T.lo /\ R.loTok = T.loTok
            /\ \/ SameSession(T, R) /\ chan' = Rest(t, n) /\ clock' = clock
               \/ /\ Forgets(R, clock + 1) /\ clock' = clock + 1
                  /\ chan' = Posted(Rest(t, n), t, ClearedMessage("ended", clock + 1))
  BY <1>1, RefreshEndsTab
<1>3. Grown(t, R, n, clock') /\ Speaks(t, n) /\ clock' \in {clock, clock + 1}
  <2>1. CASE SameSession(T, R) /\ chan' = Rest(t, n) /\ clock' = clock
    BY <1>2, <2>1, SameSessionGrown DEF Speaks
  <2>2. CASE /\ Forgets(R, clock + 1) /\ clock' = clock + 1
             /\ chan' = Posted(Rest(t, n), t, ClearedMessage("ended", clock + 1))
    <3>1. PICK now \in Nat : now = clock + 1 /\ clock <= now
      BY <1>1
    <3>2. Grown(t, R, n, now)
      BY <2>2, <3>1, ForgetsGrown
    <3> QED
      BY <2>2, <3>1, <3>2 DEF Speaks
  <2> QED
    BY <1>2, <2>1, <2>2
<1>4. {<<t, "rf">>} \subseteq Of(t) /\ Keeps({<<t, "rf">>})
  BY ReleasedQueue
<1>5. LoginGoesOn(t, R, {<<t, "rf">>}) /\ LogoutGoesOn(t, R, {<<t, "rf">>})
  BY <1>2, KeptGoesOn DEF SessionInv
<1>6. tab[t].rf # "ok" => RefreshGoesOn(t, R, {<<t, "rf">>})
  BY <1>2 DEF RefreshGoesOn, RefreshHolds
<1>7. tab[t].rf # "ok" => GoesOn(t, R, {<<t, "rf">>})
  BY <1>2, <1>4, <1>5, <1>6 DEF GoesOn
<1> QED
  BY <1>2, <1>3, <1>4, <1>7 DEF RefreshOver

LEMMA SpendTyped ==
  ASSUME TypeOK, NEW b \in Bounded, Spend(b)
  PROVE  /\ left' \in [Bounded -> Nat] /\ left'["tokens"] <= left["tokens"]
         /\ b = "tokens" => left'["tokens"] = left["tokens"] - 1
<1>1. /\ left \in [Bounded -> Nat] /\ "tokens" \in Bounded
      /\ left' = [left EXCEPT ![b] = left[b] - 1] /\ left[b] > 0
  BY DEF TypeOK, Bounded, Spend
<1>2. left[b] \in Nat /\ left[b] - 1 \in Nat /\ left["tokens"] \in Nat
  BY <1>1
<1>3. left' \in [Bounded -> Nat]
  BY <1>1, <1>2
<1>4. left'["tokens"] = IF b = "tokens" THEN left[b] - 1 ELSE left["tokens"]
  BY <1>1
<1> QED
  BY <1>2, <1>3, <1>4

LEMMA QuietOrdinary ==
  ASSUME SessionInv, UNCHANGED <<server, age, cookie, history>>, clock' \in {clock, clock + 1},
         marker' = marker, left' = left \/ \E b \in Bounded : Spend(b)
  PROVE  Ordinary
<1>1. marker \in Nat /\ marker <= clock
  BY DEF SessionInv, TypeOK, NewsInv, StampsInOrder
<1>2. left' \in [Bounded -> Nat] /\ left'["tokens"] <= left["tokens"]
  <2>1. CASE left' = left
    BY <2>1 DEF SessionInv, TypeOK, Bounded
  <2>2. CASE \E b \in Bounded : Spend(b)
    BY <2>2, SpendTyped DEF SessionInv
  <2> QED
    BY <2>1, <2>2
<1> QED
  BY <1>1, <1>2 DEF Ordinary

\* A step of one tab of which nobody hears.
LEMMA SilentStep ==
  ASSUME SessionInv, NEW t \in Tabs, NEW R \in TabState, NEW X, GoesOn(t, R, X),
         Grown(t, R, 0, clock), UNCHANGED <<server, age, cookie, marker, chan, clock, history>>,
         left' = left \/ \E b \in Bounded : Spend(b)
  PROVE  SessionInv'
<1>1. Ordinary
  BY QuietOrdinary
<1>2. Speaks(t, 0)
  BY DEF Speaks, Rest
<1>3. Grown(t, R, 0, clock')
  OBVIOUS
<1> QED
  BY <1>1, <1>2, <1>3, OrdinaryStep

\* The page's own matters concern nobody.
LEMMA PageStep ==
  ASSUME SessionInv, NEW t \in Tabs, NEW R \in TabState, tab[t].status # "closed",
         SameSession(tab[t], R), SameStages(tab[t], R), tab' = [tab EXCEPT ![t] = R],
         UNCHANGED <<server, age, cookie, marker, queue, chan, clock, left, history>>
  PROVE  SessionInv'
<1>1. {} \subseteq Of(t) /\ Keeps({})
  BY GrowingQueue
<1>2. GoesOn(t, R, {})
  BY <1>1, KeptGoesOn DEF GoesOn, SameStages, SessionInv
<1>3. Grown(t, R, 0, clock)
  BY OpenTab, SameSessionGrown DEF SameStages
<1> QED
  BY <1>2, <1>3, SilentStep

\* A refresh that T has under way, or that begins.
LEMMA RefreshingGoesOn ==
  ASSUME SessionInv, NEW t \in Tabs, NEW T \in TabState, NEW R \in TabState, NEW n,
         SameSession(Refreshing(T), R), SameStages(Refreshing(T), R), QueueRefresh(t, T),
         tab' = [tab EXCEPT ![t] = R], Grown(t, T, n, clock),
         T.li = tab[t].li, T.liTok = tab[t].liTok, T.lo = tab[t].lo, T.loTok = tab[t].loTok,
         \/ T.rf = tab[t].rf /\ T.rfTok = tab[t].rfTok
         \/ T.rf = "none" /\ tab[t].rf # "ok"
  PROVE  GoesOn(t, R, {}) /\ Grown(t, R, n, clock)
<1>1. /\ SameSession(T, Refreshing(T))
      /\ T.rf = "none" => Refreshing(T).rf = "queued"
      /\ T.rf # "none" => Refreshing(T) = T
      /\ Refreshing(T).li = T.li /\ Refreshing(T).liTok = T.liTok
      /\ Refreshing(T).lo = T.lo /\ Refreshing(T).loTok = T.loTok
  BY RefreshingTab
<1> DEFINE S == Refreshing(T)
<1>2. /\ R.rf = S.rf /\ R.rfTok = S.rfTok /\ R.li = S.li /\ R.liTok = S.liTok
      /\ R.lo = S.lo /\ R.loTok = S.loTok
  BY DEF SameStages
<1>3. SameSession(T, R) /\ R.lo = T.lo
  BY <1>1, <1>2 DEF SameSession
<1> HIDE DEF S
<1>4. Grown(t, R, n, clock)
  BY <1>3, SameSessionGrown
<1>5. {} \subseteq Of(t) /\ Keeps({})
  BY GrowingQueue DEF QueueRefresh
<1>6. LoginGoesOn(t, R, {}) /\ LogoutGoesOn(t, R, {})
  BY <1>1, <1>2, KeptGoesOn DEF SessionInv, S
<1>7. RefreshGoesOn(t, R, {})
  <2>1. CASE T.rf = "none"
    <3>1. R.rf = "queued" /\ tab[t].rf # "ok"
      BY <1>1, <1>2, <2>1 DEF S
    <3> QED
      BY <3>1 DEF RefreshGoesOn, RefreshHolds
  <2>2. CASE T.rf # "none"
    BY <1>1, <1>2, <2>2, KeptGoesOn DEF SessionInv, S
  <2> QED
    BY <2>1, <2>2
<1> QED
  BY <1>4, <1>5, <1>6, <1>7 DEF GoesOn

\* A tab that is cleared goes on with what it has under way.
LEMMA ClearedGoesOn ==
  ASSUME SessionInv, NEW t \in Tabs, NEW R \in TabState, NEW stamp, queue' = queue,
         ClearedOf(tab[t], R, stamp), tab' = [tab EXCEPT ![t] = R]
  PROVE  GoesOn(t, R, {})
<1>1. {} \subseteq Of(t) /\ Keeps({})
  BY GrowingQueue
<1>2. LoginGoesOn(t, R, {}) /\ LogoutGoesOn(t, R, {})
  BY KeptGoesOn DEF SessionInv, ClearedOf
<1>3. RefreshGoesOn(t, R, {})
  <2>1. CASE tab[t].rf = "asking"
    <3>1. Owns(t, "rf")
      BY <2>1 DEF SessionInv, SecretInv, LockIsHeld, RefreshHolds
    <3> QED
      BY <2>1, <3>1 DEF RefreshGoesOn, ClearedOf
  <2>2. CASE tab[t].rf # "asking"
    BY <2>2, KeptGoesOn DEF SessionInv, ClearedOf
  <2> QED
    BY <2>1, <2>2
<1> QED
  BY <1>1, <1>2, <1>3 DEF GoesOn

\* The workspace gives the session up and tells everyone.
LEMMA EndHereTab ==
  ASSUME SessionInv, NEW t \in Tabs, NEW T \in TabState, EndHere(t, T)
  PROVE  \E R \in TabState :
            /\ tab' = [tab EXCEPT ![t] = R] /\ ClearedOf(T, R, clock')
            /\ Grown(t, R, 0, clock') /\ Speaks(t, 0) /\ clock' \in {clock, clock + 1}
<1>1. PICK now \in Nat : now = clock + 1 /\ clock <= now
  BY DEF SessionInv, TypeOK
<1>2. /\ clock' = now /\ tab' = [tab EXCEPT ![t] = Cleared(T, "ended", now)]
      /\ chan' = Posted(chan, t, ClearedMessage("ended", now))
  BY <1>1 DEF EndHere
<1>3. "ended" \in {"ended", "logout"} /\ cookie \in MaybeToken
  BY DEF SessionInv, TypeOK
<1> DEFINE R == Cleared(T, "ended", now)
<1>4. R \in TabState /\ ClearedOf(T, R, now)
  BY <1>3, ClearedTab, Zenon
<1> HIDE DEF R
<1>5. Grown(t, R, 0, now)
  BY <1>1, <1>4, ForgetsGrown DEF ClearedOf
<1>6. Speaks(t, 0)
  BY <1>2 DEF Speaks, Rest
<1> QED
  BY <1>1, <1>2, <1>4, <1>5, <1>6 DEF R

-----------------------------------------------------------------------------
(* A tab is opened.                                                        *)

LEMMA OpenSafe ==
  ASSUME SessionInv, NEW t \in Tabs, Open(t)
  PROVE  SessionInv'
<1>1. tab[t] = ClosedTab /\ clock \in Nat /\ marker \in Nat /\ marker <= clock
  BY DEF Open, SessionInv, TypeOK, NewsInv, ClosedTabsAreOut, StampsInOrder
<1>2. ClosedTab \in TabState /\ cookie \in MaybeToken
  BY <1>1 DEF SessionInv, TypeOK
<1>3. {} \subseteq Of(t) /\ Keeps({})
  BY GrowingQueue DEF Open
<1>4. Ordinary /\ clock' = clock
  BY QuietOrdinary DEF Open, Bounded
<1>5. ASSUME NEW R \in TabState, ~RefreshHolds(R), ~LoginHolds(R), ~LogoutHolds(R),
             tab' = [tab EXCEPT ![t] = R], R.status \in {"anonymous", "restoring"},
             R.at <= clock, Knows(R) = {}, R.lo = "none", Speaks(t, 0)
      PROVE  SessionInv'
  <2>1. tab[t].rf # "ok" /\ tab[t].at = 0 /\ R.at \in Nat
    BY <1>1, <1>5 DEF ClosedTab, None, TabState
  <2>2. GoesOn(t, R, {})
    BY <1>3, <1>5, <2>1 DEF GoesOn, RefreshGoesOn, LoginGoesOn, LogoutGoesOn
  <2>3. Grown(t, R, 0, clock')
    BY <1>1, <1>4, <1>5, <2>1 DEF Grown, Coherent
  <2> QED
    BY <1>4, <1>5, <2>2, <2>3, OrdinaryStep
<1>6. CASE marker # None
  <2> DEFINE R == Cleared(ClosedTab, "logout", marker)
  <2>1. R \in TabState /\ ClearedOf(ClosedTab, R, marker)
    <3>1. "logout" \in {"ended", "logout"}
      OBVIOUS
    <3> QED
      BY <1>1, <1>2, <3>1, ClearedTab, Zenon
  <2>2. tab' = [tab EXCEPT ![t] = R] /\ chan' = chan
    BY <1>6 DEF Open
  <2> HIDE DEF R
  <2>3. /\ R.rf = "none" /\ R.li = "none" /\ R.lo = "none" /\ R.status = "anonymous"
        /\ R.at = marker /\ R.tok = None /\ R.peer = None /\ R.back = None
    BY <2>1 DEF ClearedOf, Forgets, ClosedTab
  <2>4. Knows(R) = {}
    BY <2>3 DEF Knows
  <2>5. ~RefreshHolds(R) /\ ~LoginHolds(R) /\ ~LogoutHolds(R)
    BY <2>3 DEF RefreshHolds, LoginHolds, LogoutHolds
  <2>6. Speaks(t, 0)
    BY <2>2 DEF Speaks, Rest
  <2> QED
    BY <1>1, <1>5, <2>1, <2>2, <2>3, <2>4, <2>5, <2>6
<1>7. CASE marker = None
  <2> DEFINE R == [ClosedTab EXCEPT !.status = "restoring", !.rf = "startup"]
  <2>1. R \in TabState
    <3>1. "restoring" \in Statuses /\ "startup" \in RefreshStages
      BY DEF Statuses, RefreshStages
    <3> QED
      BY <1>2, <3>1 DEF TabState
  <2>2. /\ R.rf = "startup" /\ R.li = "none" /\ R.lo = "none" /\ R.status = "restoring"
        /\ R.at = None /\ R.tok = None /\ R.peer = None /\ R.back = None
    BY DEF ClosedTab
  <2>3. tab' = [tab EXCEPT ![t] = R] /\ chan' = Posted(chan, t, Request(t))
    BY <1>7 DEF Open
  <2> HIDE DEF R
  <2>4. Knows(R) = {}
    BY <2>2 DEF Knows
  <2>5. ~RefreshHolds(R) /\ ~LoginHolds(R) /\ ~LogoutHolds(R)
    BY <2>2 DEF RefreshHolds, LoginHolds, LogoutHolds
  <2>6. Speaks(t, 0)
    BY <2>3 DEF Speaks, Rest
  <2>7. R.at <= clock
    BY <1>1, <2>2 DEF None
  <2> QED
    BY <1>5, <2>1, <2>2, <2>3, <2>4, <2>5, <2>6, <2>7
<1> QED
  BY <1>6, <1>7

-----------------------------------------------------------------------------
(* Refresh.                                                                *)

LEMMA RefreshSafe ==
  ASSUME SessionInv, NEW t \in Tabs, Refresh(t)
  PROVE  SessionInv'
<1>1. /\ tab[t].status # "closed" /\ tab' = [tab EXCEPT ![t] = Refreshing(tab[t])]
      /\ QueueRefresh(t, tab[t])
  BY DEF Refresh
<1>2. tab[t] \in TabState /\ Grown(t, tab[t], 0, clock)
  BY <1>1, OpenTab
<1> DEFINE R == Refreshing(tab[t])
<1>3. R \in TabState /\ SameSession(R, R) /\ SameStages(R, R)
  BY <1>2, RefreshingTab DEF SameSession, SameStages
<1>4. GoesOn(t, R, {}) /\ Grown(t, R, 0, clock)
  BY <1>1, <1>2, <1>3, RefreshingGoesOn
<1> HIDE DEF R
<1> QED
  BY <1>3, <1>4, SilentStep DEF Refresh

\* What a tab takes over from its peer it has known.
LEMMA WithPeerGrown ==
  ASSUME SessionInv, NEW t \in Tabs, tab[t].status # "closed", tab[t].peer # None
  PROVE  /\ WithPeer(tab[t], tab[t].peer, tab[t].peerAt) \in TabState
         /\ SameStages(tab[t], WithPeer(tab[t], tab[t].peer, tab[t].peerAt))
         /\ Grown(t, WithPeer(tab[t], tab[t].peer, tab[t].peerAt), 0, clock)
<1>1. tab[t] \in TabState /\ clock \in Nat /\ Grown(t, tab[t], 0, clock)
  BY OpenTab
<1> DEFINE W == WithPeer(tab[t], tab[t].peer, tab[t].peerAt)
<1>2. tab[t].peer \in MaybeToken /\ tab[t].peerAt \in Nat /\ tab[t].at \in Nat
  BY <1>1 DEF TabState
<1>3. /\ W \in TabState /\ SameStages(tab[t], W)
      /\ \/ W = tab[t]
         \/ /\ Receptive(tab[t]) /\ tab[t].peerAt >= tab[t].at
            /\ W.status = "authenticated" /\ W.tok = tab[t].peer /\ W.at = tab[t].peerAt
            /\ W.peer = tab[t].peer /\ W.peerAt = tab[t].peerAt
            /\ W.intent = tab[t].intent /\ W.back = tab[t].back
  BY <1>1, <1>2, WithPeerTab
<1> HIDE DEF W
<1>4. Grown(t, W, 0, clock)
  <2>1. CASE W = tab[t]
    BY <1>1, <2>1
  <2>2. CASE /\ Receptive(tab[t]) /\ tab[t].peerAt >= tab[t].at
             /\ W.status = "authenticated" /\ W.tok = tab[t].peer /\ W.at = tab[t].peerAt
             /\ W.peer = tab[t].peer /\ W.peerAt = tab[t].peerAt
             /\ W.intent = tab[t].intent /\ W.back = tab[t].back
    <3> DEFINE p == <<tab[t].peer, tab[t].peerAt>>
    <3>1. p \in Knows(tab[t]) /\ p[2] = tab[t].peerAt
      BY DEF Knows
    <3>2. Knows(W) \subseteq {p}
      BY <2>2 DEF Knows, Quits
    <3>3. tab[t].peerAt <= clock
      BY <3>1 DEF SessionInv, NewsInv, StampsInOrder, Numbered
    <3>4. Coherent(W)
      <4>1. ~Quits(tab[t])
        BY <2>2 DEF Receptive, Leaving, Quits
      <4>2. Coherent(tab[t])
        BY DEF SessionInv, NewsInv
      <4>3. W.lo = tab[t].lo
        BY <1>3 DEF SameStages
      <4> QED
        BY <2>2, <4>1, <4>2, <4>3 DEF Coherent
    <3> QED
      BY <1>1, <1>2, <2>2, <3>1, <3>2, <3>3, <3>4 DEF Grown
  <2> QED
    BY <1>3, <2>1, <2>2
<1> QED
  BY <1>3, <1>4 DEF W

\* A refresh that ends with what a peer has published.
LEMMA PeerEndsRefresh ==
  ASSUME SessionInv, NEW t \in Tabs, tab[t].status # "closed", NewPeer(tab[t]),
         queue' = Released(t, "rf"),
         RefreshEnds(t, WithPeer(tab[t], tab[t].peer, tab[t].peerAt), Takes(tab[t], tab[t].peerAt), chan)
  PROVE  \E R \in TabState : RefreshOver(t, R, 0)
<1> DEFINE T == WithPeer(tab[t], tab[t].peer, tab[t].peerAt)
<1>1. tab[t].peer # None
  BY DEF NewPeer, Usable
<1>2. T \in TabState /\ SameStages(tab[t], T) /\ Grown(t, T, 0, clock)
  BY <1>1, WithPeerGrown
<1>3. Takes(tab[t], tab[t].peerAt) \in BOOLEAN
  BY DEF Takes, Receptive
<1>4. RefreshEnds(t, T, Takes(tab[t], tab[t].peerAt), Rest(t, 0))
  BY DEF Rest
<1> HIDE DEF T
<1>5. 0 \in {0, 1} /\ (0 = 1 => chan[t] # <<>>)
  OBVIOUS
<1>6. T.li = tab[t].li /\ T.liTok = tab[t].liTok /\ T.lo = tab[t].lo /\ T.loTok = tab[t].loTok
  BY <1>2 DEF SameStages
<1> QED
  BY <1>2, <1>3, <1>4, <1>5, <1>6, RefreshEndsStep, Zenon

\* Unless it has an answer under way, that is an ordinary step.
LEMMA RefreshOverSafe ==
  ASSUME SessionInv, NEW t \in Tabs, NEW R \in TabState, RefreshOver(t, R, 0), tab[t].rf # "ok",
         UNCHANGED <<server, age, cookie, marker, history>>,
         left' = left \/ \E b \in Bounded : Spend(b)
  PROVE  SessionInv'
<1>1. Ordinary
  BY QuietOrdinary DEF RefreshOver
<1>2. /\ 0 \in {0, 1} /\ (0 = 1 => chan[t] # <<>>)
      /\ GoesOn(t, R, {<<t, "rf">>}) /\ Grown(t, R, 0, clock') /\ Speaks(t, 0)
  BY DEF RefreshOver
<1> QED
  BY <1>1, <1>2, OrdinaryStep, Zenon

LEMMA GrantRefreshPeerSafe ==
  ASSUME SessionInv, NEW t \in Tabs, GrantRefreshPeer(t)
  PROVE  SessionInv'
<1>1. /\ tab[t].rf = "queued" /\ NewPeer(tab[t]) /\ queue' = Released(t, "rf")
      /\ RefreshEnds(t, WithPeer(tab[t], tab[t].peer, tab[t].peerAt),
                     Takes(tab[t], tab[t].peerAt), chan)
      /\ UNCHANGED <<server, age, cookie, marker, left, history>>
  BY DEF GrantRefreshPeer
<1>2. tab[t].status # "closed"
  BY <1>1 DEF SessionInv, NewsInv, ClosedTabsAreOut, ClosedTab
<1>3. PICK R \in TabState : RefreshOver(t, R, 0)
  BY <1>1, <1>2, PeerEndsRefresh
<1> QED
  BY <1>1, <1>3, RefreshOverSafe

\* R is T with its refresh, its login or its logout at another stage.
RefreshAt(T, R, stage, k) ==
    /\ R = [T EXCEPT !.rf = stage, !.rfTok = k]
    /\ SameSession(T, R) /\ R.rf = stage /\ R.rfTok = k
    /\ R.li = T.li /\ R.liTok = T.liTok /\ R.lo = T.lo /\ R.loTok = T.loTok
RefreshAtOnly(T, R, stage) ==
    /\ R = [T EXCEPT !.rf = stage]
    /\ SameSession(T, R) /\ R.rf = stage /\ R.rfTok = T.rfTok
    /\ R.li = T.li /\ R.liTok = T.liTok /\ R.lo = T.lo /\ R.loTok = T.loTok
LoginAt(T, R, stage, k) ==
    /\ R = [T EXCEPT !.li = stage, !.liTok = k]
    /\ SameSession(T, R) /\ R.li = stage /\ R.liTok = k
    /\ R.rf = T.rf /\ R.rfTok = T.rfTok /\ R.lo = T.lo /\ R.loTok = T.loTok
LogoutAt(T, R, stage, k) ==
    /\ R = [T EXCEPT !.lo = stage, !.loTok = k]
    /\ SameSession(T, R) /\ R.lo = stage /\ R.loTok = k
    /\ R.rf = T.rf /\ R.rfTok = T.rfTok /\ R.li = T.li /\ R.liTok = T.liTok

LEMMA RefreshStage ==
  ASSUME NEW T \in TabState, NEW stage \in RefreshStages, NEW k \in MaybeToken
  PROVE  \E R \in TabState : RefreshAt(T, R, stage, k)
<1> DEFINE R == [T EXCEPT !.rf = stage, !.rfTok = k]
<1>1. R \in TabState
  BY DEF TabState
<1>2. SameSession(T, R)
  BY DEF TabState, SameSession
<1>3. /\ R.rf = stage /\ R.rfTok = k
      /\ R.li = T.li /\ R.liTok = T.liTok /\ R.lo = T.lo /\ R.loTok = T.loTok
  BY DEF TabState
<1> QED
  BY <1>1, <1>2, <1>3 DEF RefreshAt

LEMMA LoginStage ==
  ASSUME NEW T \in TabState, NEW stage \in Stages, NEW k \in MaybeToken
  PROVE  \E R \in TabState : LoginAt(T, R, stage, k)
<1> DEFINE R == [T EXCEPT !.li = stage, !.liTok = k]
<1>1. R \in TabState
  BY DEF TabState
<1>2. SameSession(T, R)
  BY DEF TabState, SameSession
<1>3. /\ R.li = stage /\ R.liTok = k
      /\ R.rf = T.rf /\ R.rfTok = T.rfTok /\ R.lo = T.lo /\ R.loTok = T.loTok
  BY DEF TabState
<1> QED
  BY <1>1, <1>2, <1>3 DEF LoginAt

LEMMA LogoutStage ==
  ASSUME NEW T \in TabState, NEW stage \in Stages, NEW k \in MaybeToken
  PROVE  \E R \in TabState : LogoutAt(T, R, stage, k)
<1> DEFINE R == [T EXCEPT !.lo = stage, !.loTok = k]
<1>1. R \in TabState
  BY DEF TabState
<1>2. SameSession(T, R)
  BY DEF TabState, SameSession
<1>3. /\ R.lo = stage /\ R.loTok = k
      /\ R.rf = T.rf /\ R.rfTok = T.rfTok /\ R.li = T.li /\ R.liTok = T.liTok
  BY DEF TabState
<1> QED
  BY <1>1, <1>2, <1>3 DEF LogoutAt

LEMMA RefreshStageOnly ==
  ASSUME NEW T \in TabState, NEW stage \in RefreshStages
  PROVE  \E R \in TabState : RefreshAtOnly(T, R, stage)
<1> DEFINE R == [T EXCEPT !.rf = stage]
<1>1. R \in TabState
  BY DEF TabState
<1>2. SameSession(T, R)
  BY DEF TabState, SameSession
<1>3. /\ R.rf = stage /\ R.rfTok = T.rfTok
      /\ R.li = T.li /\ R.liTok = T.liTok /\ R.lo = T.lo /\ R.loTok = T.loTok
  BY DEF TabState
<1> QED
  BY <1>1, <1>2, <1>3 DEF RefreshAtOnly

LEMMA GrantRefreshAskSafe ==
  ASSUME SessionInv, NEW t \in Tabs, GrantRefreshAsk(t)
  PROVE  SessionInv'
<1>1. Owns(t, "rf") /\ tab[t].rf = "queued" /\ queue' = queue
      /\ UNCHANGED <<server, age, cookie, marker, clock, left, history>>
  BY DEF GrantRefreshAsk
<1>2. tab[t].status # "closed"
  BY <1>1 DEF SessionInv, NewsInv, ClosedTabsAreOut, ClosedTab
<1>3. tab[t] \in TabState /\ cookie \in MaybeToken /\ Grown(t, tab[t], 0, clock)
  BY <1>2, OpenTab
<1>4. {} \subseteq Of(t) /\ Keeps({})
  BY <1>1, GrowingQueue
<1>5. "sent" \in RefreshStages /\ "asking" \in RefreshStages
  BY DEF RefreshStages, Stages
<1>6. Ordinary
  BY <1>1, QuietOrdinary
<1>7. ASSUME NEW R \in TabState, tab' = [tab EXCEPT ![t] = R], SameSession(tab[t], R),
             R.rf = "asking" \/ (R.rf = "sent" /\ R.rfTok = cookie),
             R.li = tab[t].li, R.liTok = tab[t].liTok, R.lo = tab[t].lo, R.loTok = tab[t].loTok,
             Speaks(t, 0)
      PROVE  SessionInv'
  <2>1. RefreshGoesOn(t, R, {})
    BY <1>1, <1>7 DEF RefreshGoesOn
  <2>2. LoginGoesOn(t, R, {}) /\ LogoutGoesOn(t, R, {})
    BY <1>7, KeptGoesOn DEF SessionInv
  <2>3. GoesOn(t, R, {})
    BY <1>4, <1>7, <2>1, <2>2 DEF GoesOn
  <2>4. Grown(t, R, 0, clock')
    BY <1>1, <1>3, <1>7, SameSessionGrown
  <2> QED
    BY <1>6, <1>7, <2>3, <2>4, OrdinaryStep
<1>8. CASE tab[t].intent \/ marker # None
  <2>1. PICK R \in TabState : RefreshAt(tab[t], R, "sent", cookie)
    BY <1>3, <1>5, RefreshStage, Zenon
  <2>2. tab' = [tab EXCEPT ![t] = R] /\ chan' = chan
    BY <1>8, <2>1 DEF GrantRefreshAsk, RefreshAt
  <2>3. Speaks(t, 0)
    BY <2>2 DEF Speaks, Rest
  <2> QED
    BY <1>7, <2>1, <2>2, <2>3 DEF RefreshAt
<1>9. CASE ~(tab[t].intent \/ marker # None)
  <2>1. PICK R \in TabState : RefreshAtOnly(tab[t], R, "asking")
    BY <1>3, <1>5, RefreshStageOnly, Zenon
  <2>2. tab' = [tab EXCEPT ![t] = R] /\ chan' = Posted(chan, t, Request(t))
    BY <1>9, <2>1 DEF GrantRefreshAsk, RefreshAtOnly
  <2>3. Speaks(t, 0)
    BY <2>2 DEF Speaks, Rest
  <2>4. /\ SameSession(tab[t], R) /\ R.rf = "asking" /\ R.li = tab[t].li
        /\ R.liTok = tab[t].liTok /\ R.lo = tab[t].lo /\ R.loTok = tab[t].loTok
    BY <2>1 DEF RefreshAtOnly
  <2> QED
    BY <1>7, <2>2, <2>3, <2>4
<1> QED
  BY <1>8, <1>9

\* A tab that has waited at startup for a peer is idle, or queues for the lock.
LEMMA StartupOver ==
  ASSUME SessionInv, NEW t \in Tabs, NEW T \in TabState, NEW n, Grown(t, T, n, clock),
         tab[t].rf # "ok",
         T.li = tab[t].li, T.liTok = tab[t].liTok, T.lo = tab[t].lo, T.loTok = tab[t].loTok,
         \/ tab' = [tab EXCEPT ![t] = [T EXCEPT !.rf = "none"]] /\ queue' = queue
         \/ /\ tab' = [tab EXCEPT ![t] = Refreshing([T EXCEPT !.rf = "none"])]
            /\ QueueRefresh(t, [T EXCEPT !.rf = "none"])
  PROVE  \E R \in TabState : GoesOn(t, R, {}) /\ Grown(t, R, n, clock)
<1>1. "none" \in RefreshStages
  BY DEF RefreshStages, Stages
<1>2. PICK S \in TabState : RefreshAtOnly(T, S, "none")
  BY <1>1, RefreshStageOnly, Zenon
<1>3. /\ SameSession(T, S) /\ S.rf = "none" /\ S.li = tab[t].li /\ S.liTok = tab[t].liTok
      /\ S.lo = tab[t].lo /\ S.loTok = tab[t].loTok
  BY <1>2 DEF RefreshAtOnly
<1>4. Grown(t, S, n, clock)
  BY <1>3, SameSessionGrown
<1>5. CASE tab' = [tab EXCEPT ![t] = S] /\ queue' = queue
  <2>1. {} \subseteq Of(t) /\ Keeps({})
    BY <1>5, GrowingQueue
  <2>2. RefreshGoesOn(t, S, {})
    BY <1>3 DEF RefreshGoesOn, RefreshHolds
  <2>3. LoginGoesOn(t, S, {}) /\ LogoutGoesOn(t, S, {})
    BY <1>3, KeptGoesOn DEF SessionInv
  <2> QED
    BY <1>4, <1>5, <2>1, <2>2, <2>3 DEF GoesOn
<1>6. CASE tab' = [tab EXCEPT ![t] = Refreshing(S)] /\ QueueRefresh(t, S)
  <2> DEFINE R == Refreshing(S)
  <2>1. R \in TabState /\ SameSession(R, R) /\ SameStages(R, R)
    BY RefreshingTab DEF SameSession, SameStages
  <2>2. GoesOn(t, R, {}) /\ Grown(t, R, n, clock)
    BY <1>3, <1>4, <1>6, <2>1, RefreshingGoesOn
  <2> HIDE DEF R
  <2> QED
    BY <2>1, <2>2
<1>7. \/ tab' = [tab EXCEPT ![t] = S] /\ queue' = queue
      \/ tab' = [tab EXCEPT ![t] = Refreshing(S)] /\ QueueRefresh(t, S)
  BY <1>2 DEF RefreshAtOnly
<1> QED
  BY <1>5, <1>6, <1>7

LEMMA NoPeerSafe ==
  ASSUME SessionInv, NEW t \in Tabs, NoPeer(t)
  PROVE  SessionInv'
<1>1. UNCHANGED <<server, age, cookie, marker, chan, clock, left, history>>
  BY DEF NoPeer
<1>2. tab[t].status # "closed"
  BY DEF NoPeer, SessionInv, NewsInv, ClosedTabsAreOut, ClosedTab
<1>3. tab[t] \in TabState /\ cookie \in MaybeToken /\ Grown(t, tab[t], 0, clock)
  BY <1>2, OpenTab
<1>4. CASE tab[t].rf = "startup"
  <2>1. PICK R \in TabState : GoesOn(t, R, {}) /\ Grown(t, R, 0, clock)
    <3>1. \/ tab' = [tab EXCEPT ![t] = [tab[t] EXCEPT !.rf = "none"]] /\ queue' = queue
          \/ /\ tab' = [tab EXCEPT ![t] = Refreshing([tab[t] EXCEPT !.rf = "none"])]
             /\ QueueRefresh(t, [tab[t] EXCEPT !.rf = "none"])
      BY <1>4 DEF NoPeer
    <3> QED
      BY <1>3, <1>4, <3>1, StartupOver
  <2> QED
    BY <1>1, <2>1, SilentStep
<1>5. CASE tab[t].rf = "asking"
  <2>1. "sent" \in RefreshStages
    BY DEF RefreshStages, Stages
  <2>2. PICK R \in TabState : RefreshAt(tab[t], R, "sent", cookie)
    BY <1>3, <2>1, RefreshStage, Zenon
  <2>3. tab' = [tab EXCEPT ![t] = R] /\ queue' = queue
    BY <1>5, <2>2 DEF NoPeer, RefreshAt
  <2>4. Grown(t, R, 0, clock)
    BY <1>3, <2>2, SameSessionGrown DEF RefreshAt
  <2>5. {} \subseteq Of(t) /\ Keeps({})
    BY <2>3, GrowingQueue
  <2>6. Owns(t, "rf")
    BY <1>5 DEF SessionInv, SecretInv, LockIsHeld, RefreshHolds
  <2>7. RefreshGoesOn(t, R, {})
    BY <1>5, <2>2, <2>6 DEF RefreshGoesOn, RefreshAt
  <2>8. LoginGoesOn(t, R, {}) /\ LogoutGoesOn(t, R, {})
    BY <2>2, KeptGoesOn DEF SessionInv, RefreshAt
  <2>9. GoesOn(t, R, {})
    BY <2>3, <2>5, <2>7, <2>8 DEF GoesOn
  <2> QED
    BY <1>1, <2>4, <2>9, SilentStep
<1> QED
  BY <1>4, <1>5 DEF NoPeer

-----------------------------------------------------------------------------
(* Steps under the lock that change the cookie or the server.              *)

\* The owner of the lock is alone with it after its step, too.
OtherStagesStay(t, R, op) ==
    /\ op # "rf" => R.rf = tab[t].rf
    /\ op # "li" => R.li = tab[t].li
    /\ op # "lo" => R.lo = tab[t].lo
OnlyHolder(t, R, op) ==
    \A u \in Tabs : /\ RefreshHolds(tab'[u]) => u = t /\ op = "rf" /\ tab'[u] = R
                    /\ LoginHolds(tab'[u]) => u = t /\ op = "li" /\ tab'[u] = R
                    /\ LogoutHolds(tab'[u]) => u = t /\ op = "lo" /\ tab'[u] = R

LEMMA OwnerStep ==
  ASSUME SessionInv, NEW t \in Tabs, NEW R, NEW op \in {"rf", "li", "lo"}, Owns(t, op),
         tab' = [tab EXCEPT ![t] = R], OtherStagesStay(t, R, op)
  PROVE  OnlyHolder(t, R, op)
<1> SUFFICES ASSUME NEW u \in Tabs
             PROVE  /\ RefreshHolds(tab'[u]) => u = t /\ op = "rf" /\ tab'[u] = R
                    /\ LoginHolds(tab'[u]) => u = t /\ op = "li" /\ tab'[u] = R
                    /\ LogoutHolds(tab'[u]) => u = t /\ op = "lo" /\ tab'[u] = R
  BY DEF OnlyHolder
<1>1. \A v \in Tabs : /\ RefreshHolds(tab[v]) => v = t /\ op = "rf"
                      /\ LoginHolds(tab[v]) => v = t /\ op = "li"
                      /\ LogoutHolds(tab[v]) => v = t /\ op = "lo"
  BY Alone DEF SessionInv, SecretInv
<1>2. /\ tab'[t] = R
      /\ u # t => tab'[u] = tab[u]
  BY DEF SessionInv, TypeOK
<1>3. CASE u # t
  BY <1>1, <1>2, <1>3
<1>4. CASE u = t
  <2>1. /\ RefreshHolds(R) => op = "rf" \/ RefreshHolds(tab[t])
        /\ LoginHolds(R) => op = "li" \/ LoginHolds(tab[t])
        /\ LogoutHolds(R) => op = "lo" \/ LogoutHolds(tab[t])
    BY DEF RefreshHolds, LoginHolds, LogoutHolds, OtherStagesStay
  <2> QED
    BY <1>1, <1>2, <1>4, <2>1
<1> QED
  BY <1>3, <1>4

\* Nothing goes on under the lock any more.
LEMMA NothingHeld ==
  ASSUME \A u \in Tabs : ~RefreshHolds(tab'[u]) /\ ~LoginHolds(tab'[u]) /\ ~LogoutHolds(tab'[u])
  PROVE  LockIsHeld' /\ RequestsAreSound'
<1>1. LockIsHeld'
  BY DEF LockIsHeld, RefreshHolds, LoginHolds, LogoutHolds
<1>2. \A u \in Tabs : /\ tab'[u].rf # "sent" /\ tab'[u].rf # "ok"
                      /\ tab'[u].li # "sent" /\ tab'[u].li # "ok"
                      /\ tab'[u].lo # "sent" /\ tab'[u].lo # "ok"
  BY DEF RefreshHolds, LoginHolds, LogoutHolds
<1>3. RequestsAreSound'
  BY <1>2 DEF RequestsAreSound, RefreshSound, LoginSound, LogoutSound, LogoutHolds
<1> QED
  BY <1>1, <1>3

\* The owner's stage is the only one under the lock.
LEMMA OneHeld ==
  ASSUME SessionInv, NEW t \in Tabs, NEW R \in TabState, NEW op \in {"rf", "li", "lo"},
         Owns(t, op), tab' = [tab EXCEPT ![t] = R], queue' = queue,
         OtherStagesStay(t, R, op),
         op = "rf" => RefreshSound(R)', op = "li" => LoginSound(R)', op = "lo" => LogoutSound(R)'
  PROVE  LockIsHeld' /\ RequestsAreSound'
<1>0. OnlyHolder(t, R, op)
  BY OwnerStep, Zenon
<1>1. \A u \in Tabs : /\ RefreshHolds(tab'[u]) => u = t /\ op = "rf" /\ tab'[u] = R
                      /\ LoginHolds(tab'[u]) => u = t /\ op = "li" /\ tab'[u] = R
                      /\ LogoutHolds(tab'[u]) => u = t /\ op = "lo" /\ tab'[u] = R
  BY <1>0 DEF OnlyHolder
<1>2. LockIsHeld'
  <2> SUFFICES ASSUME NEW u \in Tabs
               PROVE  /\ RefreshHolds(tab'[u]) => Owns(u, "rf")'
                      /\ LoginHolds(tab'[u]) => Owns(u, "li")'
                      /\ LogoutHolds(tab'[u]) => Owns(u, "lo")'
    BY DEF LockIsHeld, RefreshHolds, LoginHolds, LogoutHolds
  <2>1. /\ u = t /\ op = "rf" => Owns(u, "rf")'
        /\ u = t /\ op = "li" => Owns(u, "li")'
        /\ u = t /\ op = "lo" => Owns(u, "lo")'
    BY DEF Owns
  <2> QED
    BY <1>1, <2>1, Zenon
<1>3. ASSUME NEW u \in Tabs
      PROVE  RefreshSound(tab[u])' /\ LoginSound(tab[u])' /\ LogoutSound(tab[u])'
  <2>1. RefreshSound(tab[u])'
    <3>1. CASE RefreshHolds(tab'[u])
      BY <1>1, <3>1 DEF RefreshSound
    <3>2. CASE ~RefreshHolds(tab'[u])
      BY <3>2 DEF RefreshSound, RefreshHolds
    <3> QED
      BY <3>1, <3>2
  <2>2. LoginSound(tab[u])'
    <3>1. CASE LoginHolds(tab'[u])
      BY <1>1, <3>1 DEF LoginSound
    <3>2. CASE ~LoginHolds(tab'[u])
      BY <3>2 DEF LoginSound, LoginHolds
    <3> QED
      BY <3>1, <3>2
  <2>3. LogoutSound(tab[u])'
    <3>1. CASE LogoutHolds(tab'[u])
      BY <1>1, <3>1 DEF LogoutSound, LogoutHolds
    <3>2. CASE ~LogoutHolds(tab'[u])
      BY <3>2 DEF LogoutSound, LogoutHolds
    <3> QED
      BY <3>1, <3>2
  <2> QED
    BY <2>1, <2>2, <2>3
<1> QED
  BY <1>2, <1>3 DEF RequestsAreSound

LEMMA TokenFacts ==
  ASSUME SessionInv, NEW j \in Tokens
  PROVE  /\ secret[j] <= top
         /\ j <= top => sess[j] <= top
         /\ j > top => sess[j] = j /\ secret[j] = None
         /\ secret[j] \in Nat /\ sess[j] \in Nat /\ j \in Nat
<1>1. secret[j] \in MaybeToken /\ sess[j] \in Tokens
  BY DEF SessionInv, TypeOK
<1>2. secret[j] \in Nat /\ sess[j] \in Nat /\ j \in Nat
  BY <1>1 DEF MaybeToken, Tokens, None
<1>3. /\ secret[j] <= top
      /\ j <= top => sess[j] <= top
      /\ j > top => sess[j] = j /\ secret[j] = None
  BY DEF SessionInv, SecretInv, TokensInOrder
<1> QED
  BY <1>2, <1>3

LEMMA ServerRefreshSafe ==
  ASSUME SessionInv, NEW t \in Tabs, ServerRefresh(t)
  PROVE  SessionInv'
<1>1. /\ tab[t].rf = "sent"
      /\ UNCHANGED <<age, cookie, marker, queue, chan, clock, history>>
  BY DEF ServerRefresh
<1>2. tab[t].status # "closed"
  BY <1>1 DEF SessionInv, NewsInv, ClosedTabsAreOut, ClosedTab
<1>3. tab[t] \in TabState /\ cookie \in MaybeToken /\ Grown(t, tab[t], 0, clock)
  BY <1>2, OpenTab
<1>0. PICK c \in MaybeToken, k \in Nat : c = tab[t].rfTok /\ k = top + 1
  BY <1>3 DEF TabState, SessionInv, TypeOK
<1>4. Owns(t, "rf") /\ c = cookie
  BY <1>0, <1>1 DEF SessionInv, SecretInv, LockIsHeld, RefreshHolds, RequestsAreSound, RefreshSound
<1>5. {} \subseteq Of(t) /\ Keeps({})
  BY <1>1, GrowingQueue
<1>6. CASE ~Accepts(c)
  <2>1. "refused" \in RefreshStages
    BY DEF RefreshStages
  <2>2. PICK R \in TabState : RefreshAtOnly(tab[t], R, "refused")
    BY <1>3, <2>1, RefreshStageOnly, Zenon
  <2>3. tab' = [tab EXCEPT ![t] = R] /\ UNCHANGED <<server, left>>
    BY <1>0, <1>6, <2>2 DEF ServerRefresh, RefreshAtOnly
  <2>4. /\ SameSession(tab[t], R) /\ R.rf = "refused" /\ R.li = tab[t].li
        /\ R.liTok = tab[t].liTok /\ R.lo = tab[t].lo /\ R.loTok = tab[t].loTok
    BY <2>2 DEF RefreshAtOnly
  <2>5. RefreshGoesOn(t, R, {})
    BY <1>1, <1>4, <2>4 DEF RefreshGoesOn
  <2>6. LoginGoesOn(t, R, {}) /\ LogoutGoesOn(t, R, {})
    BY <2>4, KeptGoesOn DEF SessionInv
  <2>7. GoesOn(t, R, {})
    BY <1>5, <2>3, <2>5, <2>6 DEF GoesOn
  <2>8. Grown(t, R, 0, clock)
    BY <1>3, <2>4, SameSessionGrown
  <2> QED
    BY <1>1, <2>3, <2>7, <2>8, SilentStep
<1>7. CASE Accepts(c)
  <2>1. /\ Spend("tokens") /\ top' = k /\ sess' = [sess EXCEPT ![k] = sess[c]]
        /\ secret' = [secret EXCEPT ![sess[c]] = k]
        /\ tab' = [tab EXCEPT ![t] = [tab[t] EXCEPT !.rf = "ok", !.rfTok = k]]
    BY <1>0, <1>7 DEF ServerRefresh
  <2>2. /\ left' \in [Bounded -> Nat] /\ left'["tokens"] = left["tokens"] - 1
        /\ left["tokens"] \in Nat /\ left["tokens"] > 0
    <3>1. "tokens" \in Bounded
      BY DEF Bounded
    <3> QED
      BY <2>1, <3>1, SpendTyped DEF SessionInv, TypeOK, Spend
  <2>3. top \in Nat /\ MaxTokens \in Nat /\ top + left["tokens"] <= MaxTokens
    BY BoundsAssumption DEF SessionInv, TypeOK, SecretInv, TokensInOrder
  <2>4. k \in Tokens /\ k \in Nat /\ k > top
    BY <1>0, <2>2, <2>3 DEF Tokens
  <2>5. /\ c \in Tokens /\ c <= top /\ sess[c] \in Tokens /\ sess[c] <= top
        /\ secret[sess[c]] = c
    <3>1. c \in Tokens /\ secret[sess[c]] = c
      BY <1>3, <1>4, <1>7 DEF Accepts, MaybeToken
    <3>2. c <= top
      BY <1>4 DEF SessionInv, SecretInv, TokensInOrder
    <3> QED
      BY <3>1, <3>2 DEF SessionInv, SecretInv, TokensInOrder, TypeOK
  <2>0. PICK s \in Tokens : s = sess[c]
    BY <2>5
  <2>6. s \notin ended /\ cookie \notin lost /\ cookie # None
    BY <1>4, <2>0, <2>5 DEF SessionInv, SecretInv, CookieIsKnown, Tokens, None
  <2>7. \A j \in Tokens : sess'[j] = IF j = k THEN s ELSE sess[j]
    BY <2>0, <2>1, <2>4 DEF SessionInv, TypeOK
  <2>8. \A j \in Tokens : secret'[j] = IF j = s THEN k ELSE secret[j]
    BY <2>0, <2>1, <2>5 DEF SessionInv, TypeOK
  <2>9. s \in Tokens /\ s <= top /\ s # k
    BY <2>0, <2>3, <2>4, <2>5 DEF Tokens
  <2>10. PICK R \in TabState : RefreshAt(tab[t], R, "ok", k)
    <3>1. "ok" \in RefreshStages /\ k \in MaybeToken
      BY <2>4 DEF RefreshStages, Stages, MaybeToken
    <3> QED
      BY <1>3, <3>1, RefreshStage, Zenon
  <2>11. /\ tab' = [tab EXCEPT ![t] = R] /\ SameSession(tab[t], R)
         /\ R.rf = "ok" /\ R.rfTok = k /\ R.li = tab[t].li /\ R.lo = tab[t].lo
    BY <2>1, <2>10 DEF RefreshAt
  <2>12. /\ k \notin ended /\ k \notin lost /\ k # cookie
         /\ \A j \in ended : j \in Tokens /\ j <= top
    BY <2>3, <2>4, <2>5, <1>4 DEF SessionInv, SecretInv, TokensInOrder, Tokens
  <2>13. Underway(k)'
    <3>1. sess'[k] = s /\ secret'[s] = k
      BY <2>4, <2>7, <2>8, <2>9
    <3>2. k \in 1 .. top' /\ k # cookie' /\ k \notin lost' /\ s \notin ended'
      BY <1>1, <2>1, <2>3, <2>4, <2>6, <2>12 DEF history
    <3> QED
      BY <3>1, <3>2 DEF Underway
  <2>14. LockIsHeld' /\ RequestsAreSound'
    <3>1. RefreshSound(R)'
      BY <2>11, <2>13 DEF RefreshSound
    <3>2. OtherStagesStay(t, R, "rf")
      BY <2>11 DEF OtherStagesStay
    <3> QED
      BY <1>1, <1>4, <2>11, <3>1, <3>2, OneHeld
  <2>15. TokensInOrder'
    <3>1. top' + left'["tokens"] <= MaxTokens
      BY <1>0, <2>1, <2>2, <2>3
    <3>2. lost' \subseteq 1 .. top' /\ ended' \subseteq 1 .. top' /\ cookie' <= top'
      <4>1. lost \subseteq 1 .. top /\ ended \subseteq 1 .. top /\ cookie <= top
        BY DEF SessionInv, SecretInv, TokensInOrder
      <4>2. cookie \in Nat
        BY <1>4, <2>5 DEF Tokens
      <4>3. top' = k /\ UNCHANGED <<lost, ended, cookie>>
        BY <1>1, <2>1 DEF history
      <4> QED
        BY <1>0, <2>3, <2>4, <4>1, <4>2, <4>3
    <3>3. ASSUME NEW j \in Tokens
          PROVE  /\ secret'[j] <= top'
                 /\ j <= top' => sess'[j] <= top'
                 /\ j > top' => sess'[j] = j /\ secret'[j] = None
      <4>1. /\ secret[j] <= top
            /\ j <= top => sess[j] <= top
            /\ j > top => sess[j] = j /\ secret[j] = None
            /\ secret[j] \in Nat /\ sess[j] \in Nat /\ j \in Nat
        BY TokenFacts
      <4>2. top' = k /\ k = top + 1
        BY <1>0, <2>1
      <4>3. s \in Nat
        BY <2>9 DEF Tokens
      <4> QED
        BY <2>3, <2>7, <2>8, <2>9, <4>1, <4>2, <4>3
    <3> QED
      BY <3>1, <3>2, <3>3 DEF TokensInOrder
  <2>16. CookieIsKnown'
    <3>1. tab'[t] = R
      BY <2>11 DEF SessionInv, TypeOK
    <3>2. sess'[cookie] = s /\ secret'[s] = k
      BY <1>4, <2>0, <2>3, <2>4, <2>5, <2>7, <2>8, <2>9 DEF Tokens
    <3>3. cookie' = cookie /\ lost' = lost /\ ended' = ended
      BY <1>1 DEF history
    <3>4. tab'[t].rf = "ok" /\ secret'[sess'[cookie']] = tab'[t].rfTok
      BY <2>11, <3>1, <3>2, <3>3
    <3> QED
      BY <2>6, <3>2, <3>3, <3>4 DEF CookieIsKnown
  <2>17. LogoutRevokes'
    BY <1>1, <2>6, <2>8, <2>12 DEF SessionInv, SecretInv, LogoutRevokes, history
  <2>18. SecretInv'
    <3>1. LockIsOrdered'
      BY <1>5 DEF Keeps
    <3> QED
      BY <3>1, <2>14, <2>15, <2>16, <2>17 DEF SecretInv
  <2>19. TypeOK'
    <3>1. sess' \in [Tokens -> Tokens] /\ secret' \in [Tokens -> MaybeToken]
      BY <2>0, <2>1, <2>4, <2>9 DEF SessionInv, TypeOK, MaybeToken
    <3>2. top' \in 0 .. MaxTokens
      BY <2>1, <2>4 DEF Tokens
    <3>3. tab' \in [Tabs -> TabState]
      BY <2>11 DEF SessionInv, TypeOK
    <3> QED
      BY <1>1, <2>2, <3>1, <3>2, <3>3 DEF SessionInv, TypeOK, history
  <2>20. NobodyLeaves
    <3>1. \A j \in 1 .. top : sess'[j] = sess[j]
      BY <1>0, <2>3, <2>4, <2>7 DEF Tokens
    <3>2. marker <= clock /\ clock \in Nat
      BY DEF SessionInv, NewsInv, StampsInOrder, TypeOK
    <3> QED
      BY <1>1, <2>1, <2>3, <2>4, <3>1, <3>2 DEF NobodyLeaves, NothingTakenBack, history
  <2>21. Grown(t, R, 0, clock')
    BY <1>1, <1>3, <2>11, SameSessionGrown
  <2>22. Speaks(t, 0)
    BY <1>1 DEF Speaks, Rest
  <2>23. NewsInv'
    <3>1. 0 \in {0, 1} /\ (0 = 1 => chan[t] # <<>>)
      OBVIOUS
    <3>2. TypeOK /\ NewsInv
      BY DEF SessionInv
    <3> QED
      BY <2>11, <2>19, <2>20, <2>21, <2>22, <3>1, <3>2, OrdinaryNews, Zenon
  <2> QED
    BY <2>18, <2>19, <2>23 DEF SessionInv
<1> QED
  BY <1>6, <1>7

\* The owner gives up the lock.
LEMMA LockReleased ==
  ASSUME SessionInv, NEW t \in Tabs, NEW R, NEW op \in {"rf", "li", "lo"}, Owns(t, op),
         tab' = [tab EXCEPT ![t] = R], OtherStagesStay(t, R, op),
         op = "rf" => ~RefreshHolds(R), op = "li" => ~LoginHolds(R), op = "lo" => ~LogoutHolds(R)
  PROVE  /\ LockIsHeld' /\ RequestsAreSound'
         /\ op # "rf" => \A u \in Tabs : ~RefreshHolds(tab[u])
         /\ \A u \in Tabs : RefreshHolds(tab[u]) => u = t
<1>1. OnlyHolder(t, R, op)
  BY OwnerStep, Zenon
<1>2. \A u \in Tabs : ~RefreshHolds(tab'[u]) /\ ~LoginHolds(tab'[u]) /\ ~LogoutHolds(tab'[u])
  BY <1>1 DEF OnlyHolder
<1>3. LockIsHeld' /\ RequestsAreSound'
  BY <1>2, NothingHeld
<1>4. \A u \in Tabs : RefreshHolds(tab[u]) => u = t /\ op = "rf"
  BY Alone, Zenon DEF SessionInv, SecretInv
<1> QED
  BY <1>3, <1>4

\* The token of an answer becomes the cookie.
LEMMA AnswerArrives ==
  ASSUME SessionInv, NEW k \in Tokens, Underway(k), cookie' = k,
         UNCHANGED <<server, left, ended, lost>>, LockIsOrdered', LockIsHeld', RequestsAreSound'
  PROVE  SecretInv'
<1>1. TokensInOrder'
  <2>1. k <= top
    BY DEF Underway, Tokens
  <2> QED
    BY <2>1 DEF SessionInv, SecretInv, TokensInOrder, server
<1>2. CookieIsKnown'
  BY DEF Underway, CookieIsKnown, server
<1>3. LogoutRevokes'
  BY DEF SessionInv, SecretInv, LogoutRevokes, server
<1> QED
  BY <1>1, <1>2, <1>3 DEF SecretInv

\* The token of an answer is lost.
LEMMA AnswerLost ==
  ASSUME SessionInv, NEW k \in Tokens, Underway(k), lost' = lost \cup {k}, NoToken,
         UNCHANGED <<server, cookie, ended>>, LockIsOrdered', LockIsHeld', RequestsAreSound',
         \A u \in Tabs : tab[u].rf = "ok" => tab[u].rfTok = k
  PROVE  SecretInv'
<1>1. TokensInOrder'
  <2>1. left["tokens"] \in Nat /\ "tokens" \in Bounded /\ top \in Nat /\ MaxTokens \in Nat
    BY BoundsAssumption DEF SessionInv, TypeOK, Bounded
  <2>2. top' + left'["tokens"] <= MaxTokens
    BY <2>1 DEF SessionInv, SecretInv, TokensInOrder, NoToken, server
  <2>3. lost' \subseteq 1 .. top'
    BY DEF Underway, server, SessionInv, SecretInv, TokensInOrder
  <2> QED
    BY <2>2, <2>3 DEF SessionInv, SecretInv, TokensInOrder, server
<1>2. CookieIsKnown'
  <2> SUFFICES ASSUME cookie # None
               PROVE  /\ cookie \notin lost' /\ sess[cookie] \notin ended
                      /\ secret[sess[cookie]] \in {cookie, None} \cup lost'
    BY DEF CookieIsKnown, server
  <2> QED
    BY DEF Underway, SessionInv, SecretInv, CookieIsKnown
<1>3. LogoutRevokes'
  BY DEF SessionInv, SecretInv, LogoutRevokes, server
<1> QED
  BY <1>1, <1>2, <1>3 DEF SecretInv

\* A tab takes over a new token and tells the others.
LEMMA TokenNews ==
  ASSUME SessionInv, NEW t \in Tabs, NEW R \in TabState, NEW k \in Tokens, NEW stamp \in Nat,
         Underway(k), stamp = clock + 1, tab' = [tab EXCEPT ![t] = R],
         R.status = "authenticated", R.tok = k, R.at = stamp, R.peer = tab[t].peer,
         R.peerAt = tab[t].peerAt, Coherent(R), chan' = Posted(chan, t, Snapshot(k, stamp)),
         clock' = stamp, marker' \in {marker, None}, UNCHANGED <<server, ended>>
  PROVE  chan' \in [Tabs -> Seq(Message)] /\ (TypeOK' => NewsInv')
<1> DEFINE m == Snapshot(k, stamp)
<1>1. m \in Message /\ m.type = "snapshot" /\ m.tok = k /\ m.at = stamp
  BY DEF Message, Snapshot
<1>2. 0 \in {0, 1} /\ (0 = 1 => chan[t] # <<>>)
  OBVIOUS
<1>3. chan' = Posted(Rest(t, 0), t, m)
  BY DEF Rest
<1> HIDE DEF m
<1>4. chan' \in [Tabs -> Seq(Message)] /\ ChannelStep(t, 0, Others(t, m))
  <2>1. TypeOK
    BY DEF SessionInv
  <2> QED
    BY <1>1, <1>2, <1>3, <2>1, OneSent, Zenon
<1>5. /\ clock \in Nat /\ marker <= clock /\ marker \in Nat
      /\ tab[t].at <= clock /\ tab[t].at \in Nat
  <2>1. tab[t] \in TabState /\ clock \in Nat /\ marker \in Nat
    BY DEF SessionInv, TypeOK
  <2> QED
    BY <2>1 DEF TabState, SessionInv, NewsInv, StampsInOrder
<1>6. k <= top /\ sess[k] \notin ended
  BY DEF Underway, Tokens
<1>7. NewsStep(t, R, 0, Others(t, m))
  <2>1. \A p \in Knows(R) :
          p \in Knows(tab[t]) \/ (p[1] <= top /\ p[2] <= clock' /\ sess[p[1]] \notin ended)
    <3> TAKE p \in Knows(R)
    <3>1. p[1] # None /\ (p = <<k, stamp>> \/ p = <<tab[t].peer, tab[t].peerAt>>)
      BY DEF Knows, Quits
    <3>2. CASE p = <<k, stamp>>
      BY <1>6, <3>2
    <3>3. CASE p = <<tab[t].peer, tab[t].peerAt>>
      BY <3>1, <3>3 DEF Knows
    <3> QED
      BY <3>1, <3>2, <3>3
  <2>2. \A u \in Tabs, mm \in Message : <<u, mm>> \in Others(t, m) => mm = m
    BY DEF Others
  <2>3. \A u \in Tabs : MayReach(u, <<k, stamp>>)
    BY <1>6 DEF MayReach
  <2>4. \A u \in Tabs, mm \in Message : <<u, mm>> \in Others(t, m) =>
          /\ mm.type = "request" => mm.from = t /\ u # t
          /\ mm.type = "cleared" => mm.at <= clock'
          /\ mm.type = "snapshot" => /\ mm.tok <= top /\ mm.at <= clock'
                                     /\ MayReach(u, <<mm.tok, mm.at>>)
    BY <1>1, <1>6, <2>2, <2>3
  <2>5. tab[t].at <= R.at /\ R.at <= clock' /\ R.status # "closed"
    BY <1>5
  <2> QED
    BY <1>4, <2>1, <2>4, <2>5 DEF NewsStep
<1>8. NobodyLeaves
  BY <1>5 DEF NobodyLeaves, NothingTakenBack, None, server, SessionInv, TypeOK
<1>9. ASSUME TypeOK'
      PROVE  NewsInv'
  BY <1>7, <1>8, <1>9, NewsStays DEF SessionInv
<1> QED
  BY <1>4, <1>9

-----------------------------------------------------------------------------
(* Answers to a refresh.                                                   *)

\* The tab of a refresh whose token is taken over.
Idle(T) == [T EXCEPT !.rf = "none", !.rfTok = None]
Taken(T, k, stamp) ==
    [Idle(WithToken(T, k, stamp)) EXCEPT
        !.me = IF @ = "wait" THEN "sent" ELSE IF @ = "again" THEN "resent" ELSE @,
        !.meTok = IF Idle(WithToken(T, k, stamp)).me \in {"wait", "again"} THEN k ELSE @]
TakenOf(T, F, k, stamp) ==
    /\ F.status = "authenticated" /\ F.tok = k /\ F.at = stamp /\ F.peer = T.peer
    /\ F.peerAt = T.peerAt /\ F.intent = T.intent /\ F.back = T.back
    /\ F.rf = "none" /\ F.li = T.li /\ F.lo = T.lo

LEMMA TakenTab ==
  ASSUME NEW T \in TabState, NEW k \in Tokens, NEW stamp \in Nat
  PROVE  Taken(T, k, stamp) \in TabState /\ TakenOf(T, Taken(T, k, stamp), k, stamp)
<1> DEFINE W == WithToken(T, k, stamp)
<1>1. /\ W \in TabState /\ W.status = "authenticated" /\ W.tok = k /\ W.at = stamp
      /\ W.peer = T.peer /\ W.peerAt = T.peerAt /\ W.intent = T.intent /\ W.back = T.back
      /\ W.li = T.li /\ W.lo = T.lo
  BY WithTokenTab DEF SameStages
<1>2. PICK R \in TabState : RefreshAt(W, R, "none", None)
  <2>1. "none" \in RefreshStages /\ None \in MaybeToken
    BY DEF RefreshStages, Stages, MaybeToken
  <2> QED
    BY <1>1, <2>1, RefreshStage, Zenon
<1>3. R = Idle(W) /\ SameSession(W, R) /\ R.rf = "none" /\ R.li = W.li /\ R.lo = W.lo
  BY <1>2 DEF RefreshAt, Idle
<1> DEFINE stage == IF R.me = "wait" THEN "sent" ELSE IF R.me = "again" THEN "resent" ELSE R.me
           meTok == IF R.me \in {"wait", "again"} THEN k ELSE R.meTok
           F == [R EXCEPT !.me = stage, !.meTok = meTok]
<1>4. F = Taken(T, k, stamp)
  BY <1>3 DEF Taken
<1>5. stage \in PageStages /\ meTok \in MaybeToken
  BY DEF TabState, PageStages, MaybeToken
<1> HIDE DEF W, stage, meTok
<1>6. F \in TabState /\ SameSession(R, F) /\ SameStages(R, F)
  BY <1>5, PageTab
<1> HIDE DEF F
<1>7. TakenOf(T, F, k, stamp)
  BY <1>1, <1>3, <1>6 DEF SameSession, SameStages, TakenOf
<1> QED
  BY <1>4, <1>6, <1>7

LEMMA RefreshOkSafe ==
  ASSUME SessionInv, NEW t \in Tabs, RefreshOk(t)
  PROVE  SessionInv'
<1>1. /\ tab[t].rf = "ok" /\ cookie' = tab[t].rfTok /\ queue' = Released(t, "rf")
      /\ UNCHANGED <<server, age, marker, left, history>>
  BY DEF RefreshOk
<1>2. tab[t].status # "closed"
  BY <1>1 DEF SessionInv, NewsInv, ClosedTabsAreOut, ClosedTab
<1>3. tab[t] \in TabState /\ clock \in Nat /\ cookie \in MaybeToken /\ Grown(t, tab[t], 0, clock)
  BY <1>2, OpenTab
<1>4. Owns(t, "rf") /\ Underway(tab[t].rfTok)
  BY <1>1 DEF SessionInv, SecretInv, LockIsHeld, RefreshHolds, RequestsAreSound, RefreshSound
<1>5. tab[t].rfTok \in Tokens
  BY <1>3, <1>4 DEF TabState, MaybeToken, Underway, None
<1>6. PICK k \in Tokens, stamp \in Nat : k = tab[t].rfTok /\ stamp = clock + 1
  BY <1>3, <1>5
<1>7. {<<t, "rf">>} \subseteq Of(t) /\ Keeps({<<t, "rf">>})
  BY <1>1, ReleasedQueue
<1>8. ASSUME NEW R \in TabState, tab' = [tab EXCEPT ![t] = R], R.rf = "none",
             R.li = tab[t].li, R.lo = tab[t].lo,
             chan' \in [Tabs -> Seq(Message)], clock' \in Nat
      PROVE  SecretInv' /\ TypeOK'
  <2>1. OtherStagesStay(t, R, "rf") /\ ~RefreshHolds(R)
    BY <1>8 DEF OtherStagesStay, RefreshHolds
  <2>2. LockIsHeld' /\ RequestsAreSound'
    BY <1>4, <1>8, <2>1, LockReleased
  <2>3. LockIsOrdered'
    BY <1>7 DEF Keeps
  <2>4. UNCHANGED <<server, left, ended, lost>> /\ cookie' = k /\ Underway(k)
    BY <1>1, <1>4, <1>6 DEF history
  <2>5. SecretInv'
    BY <2>2, <2>3, <2>4, AnswerArrives
  <2>6. tab' \in [Tabs -> TabState] /\ k \in MaybeToken
    BY <1>8 DEF SessionInv, TypeOK, MaybeToken
  <2>7. TypeOK'
    <3>1. /\ DOMAIN queue' \subseteq LockRequest
          /\ queue' \in [DOMAIN queue' -> SUBSET LockRequest]
      BY <1>7 DEF Keeps
    <3>2. UNCHANGED <<secret, sess, top, age, marker, left, ended, loginAt, lost>>
      BY <1>1 DEF server, history
    <3> QED
      BY <1>8, <2>4, <2>6, <3>1, <3>2 DEF SessionInv, TypeOK
  <2> QED
    BY <2>5, <2>7
<1>9. CASE Receptive(tab[t])
  <2> DEFINE F == Taken(tab[t], k, stamp)
  <2>1. /\ clock' = stamp /\ tab' = [tab EXCEPT ![t] = F]
        /\ chan' = Posted(chan, t, Snapshot(k, stamp))
    BY <1>6, <1>9 DEF RefreshOk, Taken, Idle
  <2>2. F \in TabState /\ TakenOf(tab[t], F, k, stamp)
    BY <1>3, TakenTab, Zenon
  <2> HIDE DEF F
  <2>3. Coherent(F)
    <3>1. ~Quits(tab[t]) /\ Coherent(tab[t])
      BY <1>9 DEF Receptive, Leaving, Quits, SessionInv, NewsInv
    <3>2. k # None
      BY <1>3 DEF Tokens, None
    <3> QED
      BY <2>2, <3>1, <3>2 DEF Coherent, TakenOf
  <2>4. chan' \in [Tabs -> Seq(Message)] /\ (TypeOK' => NewsInv')
    <3>1. Underway(k) /\ marker' \in {marker, None} /\ UNCHANGED <<server, ended>>
      BY <1>1, <1>4, <1>6 DEF history
    <3> QED
      BY <1>6, <2>1, <2>2, <2>3, <3>1, TokenNews DEF TakenOf
  <2> QED
    BY <1>6, <1>8, <2>1, <2>2, <2>4 DEF SessionInv, TakenOf
<1>10. CASE ~Receptive(tab[t])
  <2>1. RefreshEnds(t, tab[t], FALSE, Rest(t, 0))
    BY <1>10 DEF RefreshOk, Rest
  <2>2. 0 \in {0, 1} /\ (0 = 1 => chan[t] # <<>>) /\ FALSE \in BOOLEAN
    OBVIOUS
  <2>3. PICK R \in TabState : RefreshOver(t, R, 0)
    BY <1>1, <1>3, <2>1, <2>2, RefreshEndsStep, Zenon
  <2>4. clock' \in Nat
    BY <1>3, <2>3 DEF RefreshOver
  <2>5. /\ tab' = [tab EXCEPT ![t] = R] /\ R.rf = "none" /\ R.li = tab[t].li /\ R.lo = tab[t].lo
        /\ Grown(t, R, 0, clock') /\ Speaks(t, 0)
    BY <2>3 DEF RefreshOver
  <2>6. chan' \in [Tabs -> Seq(Message)]
    BY <2>2, <2>4, <2>5, SpokenChannel DEF SessionInv
  <2>7. SecretInv' /\ TypeOK'
    BY <1>8, <2>4, <2>5, <2>6
  <2>8. NobodyLeaves
    BY <1>1, <1>3, <2>3 DEF RefreshOver, NobodyLeaves, NothingTakenBack, history, server,
       SessionInv, TypeOK, NewsInv, StampsInOrder
  <2>9. NewsInv'
    BY <2>2, <2>5, <2>7, <2>8, OrdinaryNews, Zenon DEF SessionInv
  <2> QED
    BY <2>7, <2>9 DEF SessionInv
<1> QED
  BY <1>9, <1>10

LEMMA RefreshNoSafe ==
  ASSUME SessionInv, NEW t \in Tabs, RefreshNo(t)
  PROVE  SessionInv'
<1>1. /\ tab[t].rf = "refused" /\ queue' = Released(t, "rf")
      /\ UNCHANGED <<server, age, cookie, marker, left, history>>
  BY DEF RefreshNo
<1>2. tab[t].status # "closed"
  BY <1>1 DEF SessionInv, NewsInv, ClosedTabsAreOut, ClosedTab
<1>3. tab[t] \in TabState
  BY <1>2, OpenTab
<1>4. CASE NewPeer(tab[t])
  <2>1. RefreshEnds(t, WithPeer(tab[t], tab[t].peer, tab[t].peerAt),
                    Takes(tab[t], tab[t].peerAt), chan)
    BY <1>4 DEF RefreshNo
  <2>2. PICK R \in TabState : RefreshOver(t, R, 0)
    BY <1>1, <1>2, <1>4, <2>1, PeerEndsRefresh
  <2> QED
    BY <1>1, <2>2, RefreshOverSafe
<1>5. CASE ~NewPeer(tab[t])
  <2>1. "none" \in RefreshStages /\ None \in MaybeToken
    BY DEF RefreshStages, Stages, MaybeToken
  <2>2. PICK T \in TabState : RefreshAt(tab[t], T, "none", None)
    BY <1>3, <2>1, RefreshStage, Zenon
  <2>3. EndHere(t, T)
    BY <1>5, <2>2 DEF RefreshNo, RefreshAt
  <2>4. PICK R \in TabState :
            /\ tab' = [tab EXCEPT ![t] = R] /\ ClearedOf(T, R, clock')
            /\ Grown(t, R, 0, clock') /\ Speaks(t, 0) /\ clock' \in {clock, clock + 1}
    BY <2>3, EndHereTab
  <2>5. /\ R.rf = "none" /\ R.li = tab[t].li /\ R.liTok = tab[t].liTok
        /\ R.lo = tab[t].lo /\ R.loTok = tab[t].loTok
    BY <2>2, <2>4 DEF RefreshAt, ClearedOf
  <2>6. {<<t, "rf">>} \subseteq Of(t) /\ Keeps({<<t, "rf">>})
    BY <1>1, ReleasedQueue
  <2>7. LoginGoesOn(t, R, {<<t, "rf">>}) /\ LogoutGoesOn(t, R, {<<t, "rf">>})
    BY <2>5, KeptGoesOn DEF SessionInv
  <2>8. RefreshGoesOn(t, R, {<<t, "rf">>})
    BY <1>1, <2>5 DEF RefreshGoesOn, RefreshHolds
  <2>9. GoesOn(t, R, {<<t, "rf">>})
    BY <2>4, <2>6, <2>7, <2>8 DEF GoesOn
  <2>10. RefreshOver(t, R, 0)
    BY <2>4, <2>5, <2>6, <2>9 DEF RefreshOver
  <2> QED
    BY <1>1, <2>10, RefreshOverSafe
<1> QED
  BY <1>4, <1>5

\* A refresh that fails for a moment leaves a tab what it knows.
LEMMA FailedTab ==
  ASSUME SessionInv, NEW t \in Tabs, tab[t].status # "closed", NEW wait \in BOOLEAN
  PROVE  /\ Failed(tab[t], wait) \in TabState
         /\ SameStages(tab[t], Failed(tab[t], wait))
         /\ Grown(t, Failed(tab[t], wait), 0, clock)
<1>1. tab[t] \in TabState /\ Grown(t, tab[t], 0, clock)
  BY OpenTab
<1>2. CASE tab[t].intent
  BY <1>1, <1>2 DEF Failed, SameStages
<1>3. CASE ~tab[t].intent
  <2> DEFINE status == IF tab[t].status = "authenticated" /\ Usable(tab[t].tok)
                       THEN tab[t].status ELSE "unavailable"
             F == [tab[t] EXCEPT !.cool = wait, !.status = status]
  <2>0. status = "authenticated" => tab[t].tok # None
    BY DEF Usable
  <2>1. F = Failed(tab[t], wait)
    BY <1>1, <1>3 DEF Failed, TabState
  <2>2. status \in Statuses /\ status \in {"authenticated", "unavailable"}
    BY <1>1 DEF Statuses, TabState
  <2> HIDE DEF status
  <2>3. F \in TabState
    BY <1>1, <2>2 DEF TabState
  <2>4. SameStages(tab[t], F)
    BY <1>1 DEF TabState, SameStages
  <2>5. /\ F.tok = tab[t].tok /\ F.at = tab[t].at /\ F.peer = tab[t].peer /\ F.status = status
        /\ F.peerAt = tab[t].peerAt /\ F.intent = tab[t].intent /\ F.back = tab[t].back
    BY <1>1 DEF TabState
  <2> HIDE DEF F
  <2>6. Knows(F) \subseteq Knows(tab[t])
    BY <2>2, <2>5 DEF Knows, Quits
  <2>7. Coherent(F)
    BY <1>1, <1>3, <2>0, <2>4, <2>5 DEF Coherent, Grown, SameStages
  <2>8. Grown(t, F, 0, clock)
    BY <1>1, <2>2, <2>5, <2>6, <2>7 DEF Grown
  <2> QED
    BY <2>1, <2>3, <2>4, <2>8
<1> QED
  BY <1>2, <1>3

LEMMA RefreshFailsSafe ==
  ASSUME SessionInv, NEW t \in Tabs, RefreshFails(t)
  PROVE  SessionInv'
<1>1. /\ tab[t].rf \in {"sent", "ok", "refused"} /\ queue' = Released(t, "rf") /\ Spend("faults")
      /\ UNCHANGED <<server, age, cookie, marker, ended, loginAt>>
      /\ lost' = IF tab[t].rf = "ok" THEN lost \cup {tab[t].rfTok} ELSE lost
  BY DEF RefreshFails
<1>2. tab[t].status # "closed"
  BY <1>1 DEF SessionInv, NewsInv, ClosedTabsAreOut, ClosedTab
<1>3. tab[t] \in TabState /\ clock \in Nat /\ cookie \in MaybeToken
  BY <1>2, OpenTab
<1>4. PICK R \in TabState : RefreshOver(t, R, 0)
  <2>1. CASE NewPeer(tab[t])
    <3>1. RefreshEnds(t, WithPeer(tab[t], tab[t].peer, tab[t].peerAt),
                      Takes(tab[t], tab[t].peerAt), chan)
      BY <2>1 DEF RefreshFails
    <3> QED
      BY <1>1, <1>2, <2>1, <3>1, PeerEndsRefresh
  <2>2. CASE ~NewPeer(tab[t])
    <3>1. PICK wait \in BOOLEAN : RefreshEnds(t, Failed(tab[t], wait), FALSE, chan)
      BY <2>2 DEF RefreshFails
    <3> DEFINE T == Failed(tab[t], wait)
    <3>2. T \in TabState /\ SameStages(tab[t], T) /\ Grown(t, T, 0, clock)
      BY <1>2, FailedTab
    <3>3. RefreshEnds(t, T, FALSE, Rest(t, 0))
      BY <3>1 DEF Rest
    <3> HIDE DEF T
    <3>4. 0 \in {0, 1} /\ (0 = 1 => chan[t] # <<>>) /\ FALSE \in BOOLEAN
      OBVIOUS
    <3>5. /\ T.li = tab[t].li /\ T.liTok = tab[t].liTok /\ T.lo = tab[t].lo
          /\ T.loTok = tab[t].loTok
      BY <3>2 DEF SameStages
    <3> QED
      BY <1>1, <3>2, <3>3, <3>4, <3>5, RefreshEndsStep, Zenon
  <2> QED
    BY <2>1, <2>2
<1>5. "faults" \in Bounded
  BY DEF Bounded
<1>6. CASE tab[t].rf # "ok"
  BY <1>1, <1>4, <1>5, <1>6, RefreshOverSafe DEF history
<1>7. CASE tab[t].rf = "ok"
  <2>1. Owns(t, "rf") /\ Underway(tab[t].rfTok)
    BY <1>7 DEF SessionInv, SecretInv, LockIsHeld, RefreshHolds, RequestsAreSound, RefreshSound
  <2>2. tab[t].rfTok \in Tokens
    BY <1>3, <2>1 DEF TabState, MaybeToken, Underway, None
  <2>3. PICK k \in Tokens : k = tab[t].rfTok
    BY <2>2
  <2>4. /\ tab' = [tab EXCEPT ![t] = R] /\ R.rf = "none" /\ R.li = tab[t].li /\ R.lo = tab[t].lo
        /\ Grown(t, R, 0, clock') /\ Speaks(t, 0) /\ clock' \in {clock, clock + 1}
        /\ Keeps({<<t, "rf">>})
    BY <1>4 DEF RefreshOver
  <2>5. OtherStagesStay(t, R, "rf") /\ ~RefreshHolds(R)
    BY <2>4 DEF OtherStagesStay, RefreshHolds
  <2>6. /\ LockIsHeld' /\ RequestsAreSound'
        /\ \A u \in Tabs : RefreshHolds(tab[u]) => u = t
    BY <2>1, <2>4, <2>5, LockReleased
  <2>7. left' \in [Bounded -> Nat] /\ NoToken
    <3>1. left' \in [Bounded -> Nat] /\ left'["tokens"] <= left["tokens"]
      BY <1>1, <1>5, SpendTyped DEF SessionInv
    <3> QED
      BY <3>1 DEF NoToken, Bounded
  <2>8. SecretInv'
    <3>1. \A u \in Tabs : tab[u].rf = "ok" => tab[u].rfTok = k
      BY <2>3, <2>6 DEF RefreshHolds
    <3>2. LockIsOrdered' /\ Underway(k) /\ lost' = lost \cup {k}
      BY <1>1, <1>7, <2>1, <2>3, <2>4 DEF Keeps
    <3> QED
      BY <1>1, <2>6, <2>7, <3>1, <3>2, AnswerLost
  <2>9. clock' \in Nat /\ 0 \in {0, 1} /\ (0 = 1 => chan[t] # <<>>)
    BY <1>3, <2>4
  <2>10. TypeOK'
    <3>1. /\ DOMAIN queue' \subseteq LockRequest
          /\ queue' \in [DOMAIN queue' -> SUBSET LockRequest]
      BY <2>4 DEF Keeps
    <3>2. UNCHANGED <<secret, sess, top, age, cookie, marker, ended, loginAt>>
      BY <1>1 DEF server
    <3>3. lost' \subseteq Tokens
      BY <1>1, <2>2 DEF SessionInv, TypeOK
    <3>4. tab' \in [Tabs -> TabState]
      BY <2>4 DEF SessionInv, TypeOK
    <3>5. chan' \in [Tabs -> Seq(Message)]
      BY <2>4, <2>9, SpokenChannel DEF SessionInv
    <3> QED
      BY <2>7, <2>9, <3>1, <3>2, <3>3, <3>4, <3>5 DEF SessionInv, TypeOK
  <2>11. NobodyLeaves
    BY <1>1, <1>3, <2>4 DEF NobodyLeaves, NothingTakenBack, server, SessionInv, TypeOK, NewsInv, StampsInOrder
  <2>12. NewsInv'
    BY <2>4, <2>9, <2>10, <2>11, OrdinaryNews, Zenon DEF SessionInv
  <2> QED
    BY <2>8, <2>10, <2>12 DEF SessionInv
<1> QED
  BY <1>6, <1>7

LEMMA CooldownEndsSafe ==
  ASSUME SessionInv, NEW t \in Tabs, CooldownEnds(t)
  PROVE  SessionInv'
<1>1. tab[t].status # "closed"
  BY DEF CooldownEnds, SessionInv, NewsInv, ClosedTabsAreOut, ClosedTab
<1>2. tab[t] \in TabState
  BY <1>1, OpenTab
<1> DEFINE R == [tab[t] EXCEPT !.cool = FALSE]
<1>3. R \in TabState
  BY <1>2 DEF TabState
<1>4. SameSession(tab[t], R) /\ SameStages(tab[t], R)
  BY <1>2 DEF TabState, SameSession, SameStages
<1>5. tab' = [tab EXCEPT ![t] = R]
  BY DEF CooldownEnds
<1> HIDE DEF R
<1> QED
  BY <1>1, <1>3, <1>4, <1>5, PageStep DEF CooldownEnds

-----------------------------------------------------------------------------
(* Login.                                                                  *)

LEMMA StartLoginSafe ==
  ASSUME SessionInv, NEW t \in Tabs, StartLogin(t)
  PROVE  SessionInv'
<1>1. /\ tab[t].status # "closed" /\ tab[t].li = "none" /\ Spend("logins")
      /\ queue' = Enqueue(t, "li")
      /\ UNCHANGED <<server, age, cookie, marker, chan, clock, history>>
  BY DEF StartLogin
<1>2. tab[t] \in TabState /\ Grown(t, tab[t], 0, clock)
  BY <1>1, OpenTab
<1> DEFINE R == [tab[t] EXCEPT !.li = "queued"]
<1>3. R \in TabState
  <2>1. "queued" \in Stages
    BY DEF Stages
  <2> QED
    BY <1>2, <2>1 DEF TabState
<1>4. SameSession(tab[t], R)
  BY <1>2 DEF TabState, SameSession
<1>5. /\ R.rf = tab[t].rf /\ R.rfTok = tab[t].rfTok /\ R.li = "queued"
      /\ R.lo = tab[t].lo /\ R.loTok = tab[t].loTok
  BY <1>2 DEF TabState
<1>6. tab' = [tab EXCEPT ![t] = R]
  BY DEF StartLogin
<1> HIDE DEF R
<1>7. Grown(t, R, 0, clock)
  BY <1>2, <1>4, <1>5, SameSessionGrown
<1>8. {} \subseteq Of(t) /\ Keeps({})
  BY <1>1, GrowingQueue
<1>9. RefreshGoesOn(t, R, {}) /\ LogoutGoesOn(t, R, {})
  BY <1>5, KeptGoesOn DEF SessionInv
<1>10. LoginGoesOn(t, R, {})
  BY <1>5 DEF LoginGoesOn, LoginHolds
<1>11. GoesOn(t, R, {})
  BY <1>6, <1>8, <1>9, <1>10 DEF GoesOn
<1>12. "logins" \in Bounded
  BY DEF Bounded
<1> QED
  BY <1>1, <1>3, <1>7, <1>11, <1>12, SilentStep

LEMMA GrantLoginSafe ==
  ASSUME SessionInv, NEW t \in Tabs, GrantLogin(t)
  PROVE  SessionInv'
<1>1. /\ Owns(t, "li") /\ tab[t].li = "queued"
      /\ UNCHANGED <<server, age, cookie, marker, queue, chan, clock, left, history>>
  BY DEF GrantLogin
<1>2. tab[t].status # "closed"
  BY <1>1 DEF SessionInv, NewsInv, ClosedTabsAreOut, ClosedTab
<1>3. tab[t] \in TabState /\ cookie \in MaybeToken /\ Grown(t, tab[t], 0, clock)
  BY <1>2, OpenTab
<1> DEFINE R == [tab[t] EXCEPT !.intent = FALSE, !.back = None, !.li = "sent", !.liTok = cookie]
<1>4. R \in TabState
  <2>1. "sent" \in Stages /\ None \in MaybeToken
    BY DEF Stages, MaybeToken
  <2> QED
    BY <1>3, <2>1 DEF TabState
<1>5. /\ R.rf = tab[t].rf /\ R.rfTok = tab[t].rfTok /\ R.li = "sent" /\ R.liTok = cookie
      /\ R.lo = tab[t].lo /\ R.loTok = tab[t].loTok
  BY <1>3 DEF TabState
<1>6. /\ R.status = tab[t].status /\ R.tok = tab[t].tok /\ R.at = tab[t].at
      /\ R.peer = tab[t].peer /\ R.peerAt = tab[t].peerAt /\ R.back = None
  BY <1>3 DEF TabState
<1>7. tab' = [tab EXCEPT ![t] = R]
  <2>1. tab' = [tab EXCEPT ![t] = [[[[tab[t] EXCEPT !.intent = FALSE] EXCEPT !.back = None]
                                      EXCEPT !.li = "sent"] EXCEPT !.liTok = cookie]]
    BY <1>3 DEF GrantLogin, SessionInv, TypeOK
  <2> QED
    BY <2>1
<1> HIDE DEF R
<1>8. Grown(t, R, 0, clock)
  <2>1. Knows(R) \subseteq Knows(tab[t]) /\ Coherent(R)
    BY <1>3, <1>6 DEF Knows, Coherent, Grown
  <2> QED
    BY <1>3, <1>6, <2>1 DEF Grown
<1>9. {} \subseteq Of(t) /\ Keeps({})
  BY <1>1, GrowingQueue
<1>10. RefreshGoesOn(t, R, {}) /\ LogoutGoesOn(t, R, {})
  BY <1>5, KeptGoesOn DEF SessionInv
<1>11. LoginGoesOn(t, R, {})
  BY <1>1, <1>5 DEF LoginGoesOn
<1>12. GoesOn(t, R, {})
  BY <1>7, <1>9, <1>10, <1>11 DEF GoesOn
<1> QED
  BY <1>1, <1>4, <1>8, <1>12, SilentStep

LEMMA ServerLoginSafe ==
  ASSUME SessionInv, NEW t \in Tabs, ServerLogin(t)
  PROVE  SessionInv'
<1>1. /\ tab[t].li = "sent" /\ Spend("tokens")
      /\ UNCHANGED <<age, cookie, marker, queue, chan, clock, history>>
  BY DEF ServerLogin
<1>2. tab[t].status # "closed"
  BY <1>1 DEF SessionInv, NewsInv, ClosedTabsAreOut, ClosedTab
<1>3. tab[t] \in TabState /\ cookie \in MaybeToken /\ Grown(t, tab[t], 0, clock)
  BY <1>2, OpenTab
<1>4. PICK k \in Nat : k = top + 1
  BY DEF SessionInv, TypeOK
<1>5. Owns(t, "li") /\ tab[t].liTok = cookie
  BY <1>1 DEF SessionInv, SecretInv, LockIsHeld, LoginHolds, RequestsAreSound, LoginSound
<1>6. /\ top' = k /\ sess' = [sess EXCEPT ![k] = k]
      /\ secret' = [s \in Tokens |-> IF s = k THEN k
                                     ELSE IF Accepts(cookie) /\ s = sess[cookie] THEN None
                                     ELSE secret[s]]
      /\ tab' = [tab EXCEPT ![t] = [tab[t] EXCEPT !.li = "ok", !.liTok = k]]
  BY <1>4, <1>5 DEF ServerLogin
<1>7. /\ left' \in [Bounded -> Nat] /\ left'["tokens"] = left["tokens"] - 1
      /\ left["tokens"] \in Nat /\ left["tokens"] > 0
  <2>1. "tokens" \in Bounded
    BY DEF Bounded
  <2> QED
    BY <1>1, <2>1, SpendTyped DEF SessionInv, TypeOK, Spend
<1>8. top \in Nat /\ MaxTokens \in Nat /\ top + left["tokens"] <= MaxTokens
  BY BoundsAssumption DEF SessionInv, TypeOK, SecretInv, TokensInOrder
<1>9. k \in Tokens /\ k \in Nat /\ k > top
  BY <1>4, <1>7, <1>8 DEF Tokens
<1>10. \A j \in Tokens : /\ sess'[j] = IF j = k THEN k ELSE sess[j]
                         /\ j # k => secret'[j] \in {None, secret[j]}
                         /\ j = k => secret'[j] = k
  BY <1>6, <1>9 DEF SessionInv, TypeOK
<1>11. PICK R \in TabState : LoginAt(tab[t], R, "ok", k)
  <2>1. "ok" \in Stages /\ k \in MaybeToken
    BY <1>9 DEF Stages, MaybeToken
  <2> QED
    BY <1>3, <2>1, LoginStage, Zenon
<1>12. /\ tab' = [tab EXCEPT ![t] = R] /\ SameSession(tab[t], R)
       /\ R.li = "ok" /\ R.liTok = k /\ R.rf = tab[t].rf /\ R.lo = tab[t].lo
  BY <1>6, <1>11 DEF LoginAt
<1>13. /\ k \notin ended /\ k \notin lost /\ k # cookie
       /\ \A j \in ended : j \in Tokens /\ j <= top
  BY <1>8, <1>9 DEF SessionInv, SecretInv, TokensInOrder, Tokens
<1>14. Underway(k)'
  <2>1. sess'[k] = k /\ secret'[k] = k
    BY <1>9, <1>10
  <2>2. k \in 1 .. top' /\ k # cookie' /\ k \notin lost' /\ k \notin ended'
    BY <1>1, <1>6, <1>8, <1>9, <1>13 DEF history
  <2> QED
    BY <2>1, <2>2 DEF Underway
<1>15. LockIsHeld' /\ RequestsAreSound'
  <2>1. LoginSound(R)'
    BY <1>12, <1>14 DEF LoginSound
  <2>2. OtherStagesStay(t, R, "li")
    BY <1>12 DEF OtherStagesStay
  <2> QED
    BY <1>1, <1>5, <1>12, <2>1, <2>2, OneHeld
<1>16. TokensInOrder'
  <2>1. top' + left'["tokens"] <= MaxTokens
    BY <1>4, <1>6, <1>7, <1>8
  <2>2. lost' \subseteq 1 .. top' /\ ended' \subseteq 1 .. top' /\ cookie' <= top'
    <3>1. lost \subseteq 1 .. top /\ ended \subseteq 1 .. top /\ cookie <= top
      BY DEF SessionInv, SecretInv, TokensInOrder
    <3>2. cookie \in Nat
      BY <1>3 DEF MaybeToken, Tokens, None
    <3>3. top' = k /\ UNCHANGED <<lost, ended, cookie>>
      BY <1>1, <1>6 DEF history
    <3> QED
      BY <1>8, <1>9, <3>1, <3>2, <3>3
  <2>3. ASSUME NEW j \in Tokens
        PROVE  /\ secret'[j] <= top'
               /\ j <= top' => sess'[j] <= top'
               /\ j > top' => sess'[j] = j /\ secret'[j] = None
    <3>1. /\ secret[j] <= top
          /\ j <= top => sess[j] <= top
          /\ j > top => sess[j] = j /\ secret[j] = None
          /\ secret[j] \in Nat /\ sess[j] \in Nat /\ j \in Nat
      BY TokenFacts
    <3>2. top' = k /\ k = top + 1
      BY <1>4, <1>6
    <3>3. CASE j = k
      BY <1>8, <1>10, <3>1, <3>2, <3>3
    <3>4. CASE j # k
      BY <1>8, <1>10, <3>1, <3>2, <3>4 DEF None
    <3> QED
      BY <3>3, <3>4
  <2> QED
    BY <2>1, <2>2, <2>3 DEF TokensInOrder
<1>17. CookieIsKnown'
  <2> SUFFICES ASSUME cookie # None
               PROVE  /\ cookie \notin lost /\ sess'[cookie] \notin ended
                      /\ secret'[sess'[cookie]] \in {cookie, None} \cup lost
    BY <1>1 DEF CookieIsKnown, history
  <2>1. cookie \in Tokens /\ cookie # k
    BY <1>3, <1>13 DEF MaybeToken
  <2>2. PICK s \in Tokens : s = sess[cookie] /\ s # k
    <3>1. sess[cookie] \in Tokens /\ cookie \in Nat /\ cookie <= top
      BY <2>1 DEF SessionInv, TypeOK, SecretInv, TokensInOrder, Tokens
    <3>2. sess[cookie] <= top /\ sess[cookie] \in Nat
      BY <2>1, <3>1 DEF SessionInv, SecretInv, TokensInOrder, Tokens
    <3> QED
      BY <1>8, <1>9, <3>1, <3>2
  <2>3. sess'[cookie] = s /\ secret'[s] \in {None, secret[s]}
    BY <1>10, <2>1, <2>2
  <2>4. \A u \in Tabs : tab[u].rf # "ok"
    BY <1>5, Alone DEF SessionInv, SecretInv, RefreshHolds
  <2> QED
    BY <2>2, <2>3, <2>4 DEF SessionInv, SecretInv, CookieIsKnown
<1>18. LogoutRevokes'
  BY <1>1, <1>10, <1>13 DEF SessionInv, SecretInv, LogoutRevokes, history
<1>19. SecretInv'
  <2>1. Keeps({})
    BY <1>1, GrowingQueue
  <2>2. LockIsOrdered'
    BY <2>1 DEF Keeps
  <2> QED
    BY <1>15, <1>16, <1>17, <1>18, <2>2 DEF SecretInv
<1>20. TypeOK'
  <2>1. sess' \in [Tokens -> Tokens] /\ secret' \in [Tokens -> MaybeToken]
    BY <1>6, <1>9 DEF SessionInv, TypeOK, MaybeToken
  <2>2. top' \in 0 .. MaxTokens
    BY <1>6, <1>9 DEF Tokens
  <2>3. tab' \in [Tabs -> TabState]
    BY <1>12 DEF SessionInv, TypeOK
  <2> QED
    BY <1>1, <1>7, <2>1, <2>2, <2>3 DEF SessionInv, TypeOK, history
<1>21. NobodyLeaves
  <2>1. \A j \in 1 .. top : sess'[j] = sess[j]
    BY <1>8, <1>9, <1>10 DEF Tokens
  <2>2. marker <= clock /\ clock \in Nat
    BY DEF SessionInv, NewsInv, StampsInOrder, TypeOK
  <2> QED
    BY <1>1, <1>6, <1>8, <1>9, <2>1, <2>2 DEF NobodyLeaves, NothingTakenBack, history
<1>22. Grown(t, R, 0, clock')
  BY <1>1, <1>3, <1>12, SameSessionGrown
<1>23. Speaks(t, 0)
  BY <1>1 DEF Speaks, Rest
<1>24. NewsInv'
  <2>1. 0 \in {0, 1} /\ (0 = 1 => chan[t] # <<>>)
    OBVIOUS
  <2>2. TypeOK /\ NewsInv
    BY DEF SessionInv
  <2> QED
    BY <1>12, <1>20, <1>21, <1>22, <1>23, <2>1, <2>2, OrdinaryNews, Zenon
<1> QED
  BY <1>19, <1>20, <1>24 DEF SessionInv

LEMMA LoginDoneSafe ==
  ASSUME SessionInv, NEW t \in Tabs, LoginDone(t)
  PROVE  SessionInv'
<1>1. /\ tab[t].li = "ok" /\ cookie' = tab[t].liTok /\ marker' = None
      /\ queue' = Released(t, "li") /\ UNCHANGED <<server, age, left, ended, lost>>
  BY DEF LoginDone
<1>2. tab[t].status # "closed"
  BY <1>1 DEF SessionInv, NewsInv, ClosedTabsAreOut, ClosedTab
<1>3. tab[t] \in TabState /\ clock \in Nat /\ cookie \in MaybeToken
  BY <1>2, OpenTab
<1>4. Owns(t, "li") /\ Underway(tab[t].liTok)
  BY <1>1 DEF SessionInv, SecretInv, LockIsHeld, LoginHolds, RequestsAreSound, LoginSound
<1>5. tab[t].liTok \in Tokens
  BY <1>3, <1>4 DEF TabState, MaybeToken, Underway, None
<1>6. PICK k \in Tokens, stamp \in Nat : k = tab[t].liTok /\ stamp = clock + 1
  BY <1>3, <1>5
<1> DEFINE W == WithToken(tab[t], k, stamp)
           R == [W EXCEPT !.intent = FALSE, !.back = None, !.li = "none", !.liTok = None]
<1>7. /\ clock' = stamp /\ loginAt' = stamp /\ tab' = [tab EXCEPT ![t] = R]
      /\ chan' = Posted(chan, t, Snapshot(k, stamp))
  BY <1>6 DEF LoginDone
<1>8. /\ W \in TabState /\ SameStages(tab[t], W)
      /\ W.status = "authenticated" /\ W.tok = k /\ W.at = stamp
      /\ W.peer = tab[t].peer /\ W.peerAt = tab[t].peerAt
  BY <1>3, WithTokenTab
<1> HIDE DEF W
<1>9. R \in TabState
  <2>1. "none" \in Stages /\ None \in MaybeToken
    BY DEF Stages, MaybeToken
  <2> QED
    BY <1>8, <2>1 DEF TabState
<1>10. /\ R.status = "authenticated" /\ R.tok = k /\ R.at = stamp
       /\ R.peer = tab[t].peer /\ R.peerAt = tab[t].peerAt /\ R.back = None
  BY <1>8 DEF TabState
<1>11. R.rf = W.rf /\ R.li = "none" /\ R.lo = W.lo
  BY <1>8 DEF TabState
<1> HIDE DEF R
<1>12. Coherent(R)
  BY <1>3, <1>10 DEF Coherent, Tokens, None
<1>13. Keeps({<<t, "li">>})
  BY <1>1, ReleasedQueue
<1>14. SecretInv'
  <2>1. OtherStagesStay(t, R, "li") /\ ~LoginHolds(R)
    BY <1>8, <1>11 DEF OtherStagesStay, LoginHolds, SameStages
  <2>2. LockIsHeld' /\ RequestsAreSound'
    BY <1>4, <1>7, <2>1, LockReleased
  <2>3. LockIsOrdered' /\ cookie' = k /\ Underway(k)
    BY <1>1, <1>4, <1>6, <1>13 DEF Keeps
  <2> QED
    BY <1>1, <2>2, <2>3, AnswerArrives
<1>15. chan' \in [Tabs -> Seq(Message)] /\ (TypeOK' => NewsInv')
  <2>1. Underway(k) /\ marker' \in {marker, None} /\ UNCHANGED <<server, ended>>
    BY <1>1, <1>4, <1>6
  <2> QED
    BY <1>6, <1>7, <1>9, <1>10, <1>12, <2>1, TokenNews
<1>16. TypeOK'
  <2>1. /\ DOMAIN queue' \subseteq LockRequest
        /\ queue' \in [DOMAIN queue' -> SUBSET LockRequest]
    BY <1>13 DEF Keeps
  <2>2. UNCHANGED <<secret, sess, top, age, left, ended, lost>>
    BY <1>1 DEF server
  <2>3. cookie' \in MaybeToken /\ marker' \in Nat
    BY <1>1, <1>5 DEF MaybeToken, None
  <2>4. tab' \in [Tabs -> TabState]
    BY <1>7, <1>9 DEF SessionInv, TypeOK
  <2> QED
    BY <1>7, <1>15, <2>1, <2>2, <2>3, <2>4 DEF SessionInv, TypeOK
<1> QED
  BY <1>14, <1>15, <1>16 DEF SessionInv

LEMMA LoginFailsSafe ==
  ASSUME SessionInv, NEW t \in Tabs, LoginFails(t)
  PROVE  SessionInv'
<1>1. /\ tab[t].li \in {"sent", "ok"} /\ queue' = Released(t, "li")
      /\ left' = left \/ Spend("faults")
      /\ UNCHANGED <<server, age, cookie, marker, chan, clock, ended, loginAt>>
      /\ lost' = IF tab[t].li = "ok" THEN lost \cup {tab[t].liTok} ELSE lost
  BY DEF LoginFails
<1>2. tab[t].status # "closed"
  BY <1>1 DEF SessionInv, NewsInv, ClosedTabsAreOut, ClosedTab
<1>3. tab[t] \in TabState /\ clock \in Nat /\ Grown(t, tab[t], 0, clock)
  BY <1>2, OpenTab
<1>4. PICK R \in TabState : LoginAt(tab[t], R, "none", None)
  <2>1. "none" \in Stages /\ None \in MaybeToken
    BY DEF Stages, MaybeToken
  <2> QED
    BY <1>3, <2>1, LoginStage, Zenon
<1>5. tab' = [tab EXCEPT ![t] = R]
  BY <1>4 DEF LoginFails, LoginAt
<1>6. /\ SameSession(tab[t], R) /\ R.li = "none" /\ R.rf = tab[t].rf /\ R.rfTok = tab[t].rfTok
      /\ R.lo = tab[t].lo /\ R.loTok = tab[t].loTok
  BY <1>4 DEF LoginAt
<1>7. Grown(t, R, 0, clock)
  BY <1>3, <1>6, SameSessionGrown
<1>8. {<<t, "li">>} \subseteq Of(t) /\ Keeps({<<t, "li">>})
  BY <1>1, ReleasedQueue
<1>9. "faults" \in Bounded
  BY DEF Bounded
<1>10. CASE tab[t].li = "sent"
  <2>1. LoginGoesOn(t, R, {<<t, "li">>})
    BY <1>6 DEF LoginGoesOn, LoginHolds
  <2>2. RefreshGoesOn(t, R, {<<t, "li">>}) /\ LogoutGoesOn(t, R, {<<t, "li">>})
    BY <1>6, KeptGoesOn DEF SessionInv
  <2>3. GoesOn(t, R, {<<t, "li">>})
    BY <1>5, <1>8, <2>1, <2>2 DEF GoesOn
  <2> QED
    BY <1>1, <1>7, <1>9, <1>10, <2>3, SilentStep DEF history
<1>11. CASE tab[t].li = "ok"
  <2>1. Owns(t, "li") /\ Underway(tab[t].liTok)
    BY <1>11 DEF SessionInv, SecretInv, LockIsHeld, LoginHolds, RequestsAreSound, LoginSound
  <2>2. PICK k \in Tokens : k = tab[t].liTok
    BY <1>3, <2>1 DEF TabState, MaybeToken, Underway, None
  <2>3. OtherStagesStay(t, R, "li") /\ ~LoginHolds(R)
    BY <1>6 DEF OtherStagesStay, LoginHolds
  <2>4. /\ LockIsHeld' /\ RequestsAreSound'
        /\ \A u \in Tabs : ~RefreshHolds(tab[u])
    BY <1>5, <2>1, <2>3, LockReleased
  <2>5. left' \in [Bounded -> Nat] /\ NoToken
    <3>1. left' \in [Bounded -> Nat] /\ left'["tokens"] <= left["tokens"]
      <4>1. CASE left' = left
        BY <4>1 DEF SessionInv, TypeOK, Bounded
      <4>2. CASE Spend("faults")
        BY <1>9, <4>2, SpendTyped DEF SessionInv
      <4> QED
        BY <1>1, <4>1, <4>2
    <3> QED
      BY <3>1 DEF NoToken, Bounded
  <2>6. SecretInv'
    <3>1. \A u \in Tabs : tab[u].rf = "ok" => tab[u].rfTok = k
      BY <2>4 DEF RefreshHolds
    <3>2. LockIsOrdered' /\ Underway(k) /\ lost' = lost \cup {k}
      BY <1>1, <1>8, <1>11, <2>1, <2>2 DEF Keeps
    <3> QED
      BY <1>1, <2>4, <2>5, <3>1, <3>2, AnswerLost
  <2>7. TypeOK'
    <3>1. /\ DOMAIN queue' \subseteq LockRequest
          /\ queue' \in [DOMAIN queue' -> SUBSET LockRequest]
      BY <1>8 DEF Keeps
    <3>2. UNCHANGED <<secret, sess, top, age, cookie, marker, chan, clock, ended, loginAt>>
      BY <1>1 DEF server
    <3>3. lost' \subseteq Tokens
      BY <1>1, <2>2 DEF SessionInv, TypeOK
    <3>4. tab' \in [Tabs -> TabState]
      BY <1>5 DEF SessionInv, TypeOK
    <3> QED
      BY <2>5, <3>1, <3>2, <3>3, <3>4 DEF SessionInv, TypeOK
  <2>8. NobodyLeaves
    BY <1>1 DEF NobodyLeaves, NothingTakenBack, server, SessionInv, TypeOK, NewsInv, StampsInOrder
  <2>9. NewsInv'
    <3>1. 0 \in {0, 1} /\ (0 = 1 => chan[t] # <<>>) /\ TypeOK /\ NewsInv
      BY DEF SessionInv
    <3>2. Speaks(t, 0) /\ Grown(t, R, 0, clock')
      BY <1>1, <1>7 DEF Speaks, Rest
    <3> QED
      BY <1>5, <2>7, <2>8, <3>1, <3>2, OrdinaryNews, Zenon
  <2> QED
    BY <2>6, <2>7, <2>9 DEF SessionInv
<1> QED
  BY <1>1, <1>10, <1>11

-----------------------------------------------------------------------------
(* Logout.                                                                 *)

LEMMA LogoutSafe ==
  ASSUME SessionInv, NEW t \in Tabs, Logout(t)
  PROVE  SessionInv'
<1>1. /\ tab[t].status \in {"authenticated", "logout-failed"} /\ Spend("logouts")
      /\ queue' = Enqueue(t, "lo")
      /\ UNCHANGED <<server, age, cookie, marker, chan, clock, history>>
  BY DEF Logout
<1>2. tab[t] \in TabState /\ cookie \in MaybeToken /\ Grown(t, tab[t], 0, clock)
  BY <1>1, OpenTab
<1> DEFINE back == IF tab[t].status = "authenticated" THEN tab[t].tok ELSE tab[t].back
           rf == IF tab[t].rf = "asking" THEN "sent" ELSE tab[t].rf
           rfTok == IF tab[t].rf = "asking" THEN cookie ELSE tab[t].rfTok
           R == [tab[t] EXCEPT !.status = "logging-out", !.intent = TRUE, !.lo = "queued",
                               !.back = back, !.me = "none", !.meTok = None,
                               !.rf = rf, !.rfTok = rfTok]
<1>3. tab' = [tab EXCEPT ![t] = R]
  BY <1>2 DEF Logout, TabState
<1>4. /\ back \in MaybeToken /\ rf \in RefreshStages /\ rfTok \in MaybeToken
      /\ back # None => <<back, tab[t].at>> \in Knows(tab[t])
  <2>1. tab[t].tok # None => <<tab[t].tok, tab[t].at>> \in Knows(tab[t])
    BY DEF Knows
  <2>2. tab[t].status = "logout-failed" /\ tab[t].back # None =>
          <<tab[t].back, tab[t].at>> \in Knows(tab[t])
    BY DEF Knows, Quits
  <2>3. "sent" \in RefreshStages
    BY DEF RefreshStages, Stages
  <2> QED
    BY <1>1, <1>2, <2>1, <2>2, <2>3 DEF TabState
<1>5. \/ rf = tab[t].rf /\ rfTok = tab[t].rfTok
      \/ rf = "sent" /\ rfTok = cookie /\ tab[t].rf = "asking"
  OBVIOUS
<1> HIDE DEF back, rf, rfTok
<1>6. R \in TabState
  <2>1. /\ "logging-out" \in Statuses /\ "queued" \in Stages /\ "none" \in PageStages
        /\ None \in MaybeToken
    BY DEF Statuses, Stages, PageStages, MaybeToken
  <2> QED
    BY <1>2, <1>4, <2>1 DEF TabState
<1>7. /\ R.status = "logging-out" /\ R.intent = TRUE /\ R.back = back
      /\ R.tok = tab[t].tok /\ R.at = tab[t].at
      /\ R.peer = tab[t].peer /\ R.peerAt = tab[t].peerAt
  BY <1>2 DEF TabState
<1>8. R.rf = rf /\ R.rfTok = rfTok /\ R.lo = "queued" /\ R.li = tab[t].li /\ R.liTok = tab[t].liTok
  BY <1>2 DEF TabState
<1> HIDE DEF R
<1>9. Grown(t, R, 0, clock)
  <2>1. Knows(R) \subseteq Knows(tab[t])
    <3> SUFFICES ASSUME NEW p \in Knows(R)
                 PROVE  p \in Knows(tab[t])
      OBVIOUS
    <3>1. /\ p[1] # None
          /\ p = <<tab[t].tok, tab[t].at>> \/ p = <<tab[t].peer, tab[t].peerAt>>
               \/ p = <<back, tab[t].at>>
      BY <1>7 DEF Knows
    <3>2. CASE p = <<back, tab[t].at>>
      BY <1>4, <3>1, <3>2
    <3>3. CASE p = <<tab[t].tok, tab[t].at>> \/ p = <<tab[t].peer, tab[t].peerAt>>
      BY <3>1, <3>3 DEF Knows
    <3> QED
      BY <3>1, <3>2, <3>3
  <2>2. Coherent(R)
    BY <1>7 DEF Coherent, Quits
  <2> QED
    BY <1>2, <1>7, <2>1, <2>2 DEF Grown
<1>10. {} \subseteq Of(t) /\ Keeps({})
  BY <1>1, GrowingQueue
<1>11. LogoutGoesOn(t, R, {})
  BY <1>8 DEF LogoutGoesOn, LogoutHolds
<1>12. LoginGoesOn(t, R, {})
  BY <1>8, KeptGoesOn DEF SessionInv
<1>13. RefreshGoesOn(t, R, {})
  <2>1. CASE rf = tab[t].rf /\ rfTok = tab[t].rfTok
    BY <1>8, <2>1, KeptGoesOn DEF SessionInv
  <2>2. CASE rf = "sent" /\ rfTok = cookie /\ tab[t].rf = "asking"
    <3>1. Owns(t, "rf")
      BY <2>2 DEF SessionInv, SecretInv, LockIsHeld, RefreshHolds
    <3> QED
      BY <1>8, <2>2, <3>1 DEF RefreshGoesOn
  <2> QED
    BY <1>5, <2>1, <2>2
<1>14. GoesOn(t, R, {})
  BY <1>3, <1>10, <1>11, <1>12, <1>13 DEF GoesOn
<1>15. "logouts" \in Bounded
  BY DEF Bounded
<1> QED
  BY <1>1, <1>6, <1>9, <1>14, <1>15, SilentStep

\* At another stage of its logout a tab knows the same.
LEMMA LogoutStageGrown ==
  ASSUME SessionInv, NEW t \in Tabs, tab[t].status # "closed", NEW R, SameSession(tab[t], R),
         tab[t].lo # "none"
  PROVE  Grown(t, R, 0, clock)
<1>1. Grown(t, tab[t], 0, clock)
  BY OpenTab
<1>2. Knows(R) = Knows(tab[t]) /\ (Quits(R) <=> Quits(tab[t]))
  BY SameSessionKnows
<1>3. Coherent(R)
  BY <1>1, <1>2 DEF Grown, Coherent, SameSession
<1> QED
  BY <1>1, <1>2, <1>3 DEF Grown, SameSession

LEMMA GrantLogoutSafe ==
  ASSUME SessionInv, NEW t \in Tabs, GrantLogout(t)
  PROVE  SessionInv'
<1>1. /\ Owns(t, "lo") /\ tab[t].lo = "queued"
      /\ UNCHANGED <<server, age, cookie, marker, queue, chan, clock, left, history>>
  BY DEF GrantLogout
<1>2. tab[t].status # "closed"
  BY <1>1 DEF SessionInv, NewsInv, ClosedTabsAreOut, ClosedTab
<1>3. tab[t] \in TabState /\ cookie \in MaybeToken
  BY <1>2, OpenTab
<1>4. PICK R \in TabState : LogoutAt(tab[t], R, "sent", cookie)
  <2>1. "sent" \in Stages
    BY DEF Stages
  <2> QED
    BY <1>3, <2>1, LogoutStage, Zenon
<1>5. tab' = [tab EXCEPT ![t] = R]
  BY <1>4 DEF GrantLogout, LogoutAt
<1>6. /\ SameSession(tab[t], R) /\ R.lo = "sent" /\ R.loTok = cookie
      /\ R.rf = tab[t].rf /\ R.rfTok = tab[t].rfTok /\ R.li = tab[t].li /\ R.liTok = tab[t].liTok
  BY <1>4 DEF LogoutAt
<1>7. Grown(t, R, 0, clock)
  BY <1>1, <1>2, <1>6, LogoutStageGrown
<1>8. {} \subseteq Of(t) /\ Keeps({})
  BY <1>1, GrowingQueue
<1>9. RefreshGoesOn(t, R, {}) /\ LoginGoesOn(t, R, {})
  BY <1>6, KeptGoesOn DEF SessionInv
<1>10. LogoutGoesOn(t, R, {})
  BY <1>1, <1>6 DEF LogoutGoesOn
<1>11. GoesOn(t, R, {})
  BY <1>5, <1>8, <1>9, <1>10 DEF GoesOn
<1> QED
  BY <1>1, <1>7, <1>11, SilentStep

LEMMA ServerLogoutSafe ==
  ASSUME SessionInv, NEW t \in Tabs, ServerLogout(t)
  PROVE  SessionInv'
<1>1. /\ tab[t].lo = "sent"
      /\ UNCHANGED <<sess, top, age, cookie, marker, queue, chan, clock, left, history>>
  BY DEF ServerLogout
<1>2. tab[t].status # "closed"
  BY <1>1 DEF SessionInv, NewsInv, ClosedTabsAreOut, ClosedTab
<1>3. tab[t] \in TabState /\ cookie \in MaybeToken
  BY <1>2, OpenTab
<1>4. Owns(t, "lo") /\ tab[t].loTok = cookie
  BY <1>1 DEF SessionInv, SecretInv, LockIsHeld, LogoutHolds, RequestsAreSound, LogoutSound
<1>5. \A u \in Tabs : tab[u].rf # "ok"
  BY <1>4, Alone DEF SessionInv, SecretInv, RefreshHolds
<1>6. secret' = IF Accepts(cookie) THEN [secret EXCEPT ![sess[cookie]] = None] ELSE secret
  BY <1>4 DEF ServerLogout
<1>7. \A j \in Tokens : secret'[j] \in {None, secret[j]}
  BY <1>6 DEF SessionInv, TypeOK
<1>8. secret' \in [Tokens -> MaybeToken]
  BY <1>6 DEF SessionInv, TypeOK, MaybeToken
<1>9. cookie # None => sess[cookie] \in Tokens /\ secret'[sess[cookie]] \in lost \cup {None}
  <2> SUFFICES ASSUME cookie # None
               PROVE  sess[cookie] \in Tokens /\ secret'[sess[cookie]] \in lost \cup {None}
    OBVIOUS
  <2>1. cookie \in Tokens /\ sess[cookie] \in Tokens
    BY <1>3 DEF MaybeToken, SessionInv, TypeOK
  <2>2. CASE Accepts(cookie)
    BY <1>6, <2>1, <2>2 DEF SessionInv, TypeOK
  <2>3. CASE ~Accepts(cookie)
    BY <1>5, <1>6, <2>1, <2>3 DEF Accepts, SessionInv, SecretInv, CookieIsKnown
  <2> QED
    BY <2>1, <2>2, <2>3
<1>10. PICK R \in TabState : LogoutAt(tab[t], R, "ok", cookie)
  <2>1. "ok" \in Stages
    BY DEF Stages
  <2> QED
    BY <1>3, <2>1, LogoutStage, Zenon
<1>11. /\ SameSession(tab[t], R) /\ R.lo = "ok" /\ R.loTok = cookie
       /\ R.rf = tab[t].rf /\ R.li = tab[t].li
  BY <1>10 DEF LogoutAt
<1>12. tab' = [tab EXCEPT ![t] = R]
  <2>1. R = [tab[t] EXCEPT !.lo = "ok"]
    BY <1>3, <1>4, <1>10 DEF LogoutAt, TabState
  <2> QED
    BY <2>1 DEF ServerLogout
<1>13. LockIsHeld' /\ RequestsAreSound'
  <2>1. LogoutSound(R)'
    BY <1>1, <1>9, <1>11 DEF LogoutSound, history
  <2>2. OtherStagesStay(t, R, "lo")
    BY <1>11 DEF OtherStagesStay
  <2> QED
    BY <1>1, <1>4, <1>12, <2>1, <2>2, OneHeld
<1>14. TokensInOrder'
  <2>1. \A j \in Tokens : /\ secret'[j] <= top
                          /\ j > top => secret'[j] = None
    BY <1>7, TokenFacts DEF None, SessionInv, TypeOK
  <2> QED
    BY <1>1, <2>1 DEF SessionInv, SecretInv, TokensInOrder, history
<1>15. CookieIsKnown'
  BY <1>1, <1>9 DEF SessionInv, SecretInv, CookieIsKnown, history
<1>16. LogoutRevokes'
  BY <1>1, <1>7 DEF SessionInv, TypeOK, SecretInv, LogoutRevokes, history
<1>17. SecretInv'
  <2>1. Keeps({})
    BY <1>1, GrowingQueue
  <2>2. LockIsOrdered'
    BY <2>1 DEF Keeps
  <2> QED
    BY <1>13, <1>14, <1>15, <1>16, <2>2 DEF SecretInv
<1>18. TypeOK'
  <2>1. tab' \in [Tabs -> TabState]
    BY <1>12 DEF SessionInv, TypeOK
  <2> QED
    BY <1>1, <1>8, <2>1 DEF SessionInv, TypeOK, history
<1>19. NewsInv'
  <2>1. 0 \in {0, 1} /\ (0 = 1 => chan[t] # <<>>) /\ TypeOK /\ NewsInv
    BY DEF SessionInv
  <2>2. Speaks(t, 0)
    BY <1>1 DEF Speaks, Rest
  <2>3. NobodyLeaves
    BY <1>1 DEF NobodyLeaves, NothingTakenBack, history, SessionInv, TypeOK, NewsInv, StampsInOrder
  <2>4. Grown(t, R, 0, clock')
    BY <1>1, <1>2, <1>11, LogoutStageGrown
  <2> QED
    BY <1>12, <1>18, <2>1, <2>2, <2>3, <2>4, OrdinaryNews, Zenon
<1> QED
  BY <1>17, <1>18, <1>19 DEF SessionInv

LEMMA LogoutFailsSafe ==
  ASSUME SessionInv, NEW t \in Tabs, LogoutFails(t)
  PROVE  SessionInv'
<1>1. /\ tab[t].lo \in {"sent", "ok"} /\ Spend("faults") /\ queue' = Released(t, "lo")
      /\ UNCHANGED <<server, age, cookie, marker, chan, clock, history>>
  BY DEF LogoutFails
<1>2. tab[t].status # "closed"
  BY <1>1 DEF SessionInv, NewsInv, ClosedTabsAreOut, ClosedTab
<1>3. tab[t] \in TabState /\ Grown(t, tab[t], 0, clock)
  BY <1>2, OpenTab
<1>4. PICK T \in TabState : LogoutAt(tab[t], T, "none", None)
  <2>1. "none" \in Stages /\ None \in MaybeToken
    BY DEF Stages, MaybeToken
  <2> QED
    BY <1>3, <2>1, LogoutStage, Zenon
<1>5. /\ SameSession(tab[t], T) /\ T.lo = "none"
      /\ T.rf = tab[t].rf /\ T.rfTok = tab[t].rfTok /\ T.li = tab[t].li /\ T.liTok = tab[t].liTok
  BY <1>4 DEF LogoutAt
<1> DEFINE S == [T EXCEPT !.intent = FALSE, !.status = "logout-failed"]
<1>6. S \in TabState
  <2>1. "logout-failed" \in Statuses
    BY DEF Statuses
  <2> QED
    BY <2>1 DEF TabState
<1>7. /\ S.status = "logout-failed" /\ S.tok = T.tok /\ S.at = T.at /\ S.peer = T.peer
      /\ S.peerAt = T.peerAt /\ S.back = T.back
  BY DEF TabState
<1>8. S.lo = T.lo /\ S.rf = T.rf /\ S.rfTok = T.rfTok /\ S.li = T.li /\ S.liTok = T.liTok
  BY DEF TabState
<1>9. tab' = [tab EXCEPT ![t] = T] \/ tab' = [tab EXCEPT ![t] = S]
  BY <1>4 DEF LogoutFails, LogoutAt
<1> HIDE DEF S
<1>10. Grown(t, T, 0, clock)
  BY <1>1, <1>2, <1>5, LogoutStageGrown
<1>11. Grown(t, S, 0, clock)
  <2>1. Knows(S) \subseteq Knows(tab[t])
    <3>1. tab[t].back = None \/ Quits(tab[t])
      BY <1>1, <1>3 DEF Grown, Coherent
    <3>2. S.back = None \/ Quits(tab[t])
      BY <1>5, <1>7, <3>1 DEF SameSession
    <3> QED
      BY <1>5, <1>7, <3>2 DEF SameSession, Knows
  <2>2. Coherent(S)
    BY <1>5, <1>7, <1>8 DEF Coherent
  <2> QED
    BY <1>3, <1>5, <1>7, <2>1, <2>2 DEF Grown, SameSession
<1>12. {<<t, "lo">>} \subseteq Of(t) /\ Keeps({<<t, "lo">>})
  BY <1>1, ReleasedQueue
<1>13. ASSUME NEW R \in {T, S}
       PROVE  /\ RefreshGoesOn(t, R, {<<t, "lo">>}) /\ LoginGoesOn(t, R, {<<t, "lo">>})
              /\ LogoutGoesOn(t, R, {<<t, "lo">>})
  <2>1. /\ R.rf = tab[t].rf /\ R.rfTok = tab[t].rfTok /\ R.li = tab[t].li
        /\ R.liTok = tab[t].liTok /\ R.lo = "none"
    BY <1>5, <1>8
  <2>2. RefreshGoesOn(t, R, {<<t, "lo">>}) /\ LoginGoesOn(t, R, {<<t, "lo">>})
    BY <2>1, KeptGoesOn DEF SessionInv
  <2> QED
    BY <2>1, <2>2 DEF LogoutGoesOn, LogoutHolds
<1>14. "faults" \in Bounded
  BY DEF Bounded
<1>15. CASE tab' = [tab EXCEPT ![t] = T]
  <2>1. GoesOn(t, T, {<<t, "lo">>})
    BY <1>12, <1>13, <1>15 DEF GoesOn
  <2> QED
    BY <1>1, <1>10, <1>14, <2>1, SilentStep
<1>16. CASE tab' = [tab EXCEPT ![t] = S]
  <2>1. GoesOn(t, S, {<<t, "lo">>})
    BY <1>12, <1>13, <1>16 DEF GoesOn
  <2> QED
    BY <1>1, <1>6, <1>11, <1>14, <2>1, SilentStep
<1> QED
  BY <1>9, <1>15, <1>16

LEMMA CancelLogoutSafe ==
  ASSUME SessionInv, NEW t \in Tabs, CancelLogout(t)
  PROVE  SessionInv'
<1>1. /\ tab[t].status = "logout-failed"
      /\ UNCHANGED <<server, age, cookie, marker, chan, clock, left, history>>
  BY DEF CancelLogout
<1>2. tab[t] \in TabState /\ Grown(t, tab[t], 0, clock)
  BY <1>1, OpenTab
<1> DEFINE T == [tab[t] EXCEPT !.back = None]
           A == [T EXCEPT !.status = "authenticated", !.tok = tab[t].back]
           R == [T EXCEPT !.status = "restoring"]
<1>3. CASE Usable(tab[t].back)
  <2>1. tab' = [tab EXCEPT ![t] = A] /\ queue' = queue
    BY <1>3 DEF CancelLogout
  <2>2. A \in TabState
    <3>1. "authenticated" \in Statuses /\ None \in MaybeToken /\ tab[t].back \in MaybeToken
      BY <1>2 DEF Statuses, MaybeToken, TabState
    <3> QED
      BY <1>2, <3>1 DEF TabState
  <2>3. SameStages(tab[t], A)
    BY <1>2 DEF TabState, SameStages
  <2>4. /\ A.status = "authenticated" /\ A.tok = tab[t].back /\ A.at = tab[t].at
        /\ A.peer = tab[t].peer /\ A.peerAt = tab[t].peerAt /\ A.back = None
    BY <1>2 DEF TabState
  <2> HIDE DEF A
  <2>5. Grown(t, A, 0, clock)
    <3>1. Knows(A) \subseteq Knows(tab[t]) /\ Coherent(A)
      BY <1>1, <1>3, <2>4 DEF Knows, Quits, Coherent, Usable
    <3> QED
      BY <1>2, <2>4, <3>1 DEF Grown
  <2>6. {} \subseteq Of(t) /\ Keeps({})
    BY <2>1, GrowingQueue
  <2>7. GoesOn(t, A, {})
    BY <2>1, <2>3, <2>6, KeptGoesOn DEF GoesOn, SameStages, SessionInv
  <2> QED
    BY <1>1, <2>2, <2>5, <2>7, SilentStep
<1>4. CASE ~Usable(tab[t].back)
  <2>1. \/ tab' = [tab EXCEPT ![t] = R] /\ queue' = queue
        \/ tab' = [tab EXCEPT ![t] = Refreshing(R)] /\ QueueRefresh(t, R)
    BY <1>4 DEF CancelLogout
  <2>2. R \in TabState
    <3>1. "restoring" \in Statuses /\ None \in MaybeToken
      BY DEF Statuses, MaybeToken
    <3> QED
      BY <1>2, <3>1 DEF TabState
  <2>3. SameStages(tab[t], R)
    BY <1>2 DEF TabState, SameStages
  <2>4. /\ R.status = "restoring" /\ R.tok = tab[t].tok /\ R.at = tab[t].at
        /\ R.peer = tab[t].peer /\ R.peerAt = tab[t].peerAt /\ R.back = None
    BY <1>2 DEF TabState
  <2> HIDE DEF R
  <2>5. Grown(t, R, 0, clock)
    <3>1. Knows(R) \subseteq Knows(tab[t]) /\ Coherent(R)
      BY <2>4 DEF Knows, Quits, Coherent
    <3> QED
      BY <1>2, <2>4, <3>1 DEF Grown
  <2>6. CASE tab' = [tab EXCEPT ![t] = R] /\ queue' = queue
    <3>1. {} \subseteq Of(t) /\ Keeps({})
      BY <2>6, GrowingQueue
    <3>2. GoesOn(t, R, {})
      BY <2>3, <2>6, <3>1, KeptGoesOn DEF GoesOn, SameStages, SessionInv
    <3> QED
      BY <1>1, <2>2, <2>5, <3>2, SilentStep
  <2>7. CASE tab' = [tab EXCEPT ![t] = Refreshing(R)] /\ QueueRefresh(t, R)
    <3> DEFINE F == Refreshing(R)
    <3>1. F \in TabState /\ SameSession(F, F) /\ SameStages(F, F)
      BY <2>2, RefreshingTab DEF SameSession, SameStages
    <3>2. /\ R.li = tab[t].li /\ R.liTok = tab[t].liTok /\ R.lo = tab[t].lo
          /\ R.loTok = tab[t].loTok /\ R.rf = tab[t].rf /\ R.rfTok = tab[t].rfTok
      BY <2>3 DEF SameStages
    <3>3. GoesOn(t, F, {}) /\ Grown(t, F, 0, clock)
      BY <2>2, <2>5, <2>7, <3>1, <3>2, RefreshingGoesOn
    <3> HIDE DEF F
    <3> QED
      BY <1>1, <3>1, <3>3, SilentStep
  <2> QED
    BY <2>1, <2>6, <2>7
<1> QED
  BY <1>3, <1>4

-----------------------------------------------------------------------------
(* The page's own request.                                                 *)

\* The session ends here and everywhere.
LEMMA EndHereSafe ==
  ASSUME SessionInv, NEW t \in Tabs, tab[t].status # "closed", EndHere(t, tab[t]),
         UNCHANGED <<server, age, cookie, marker, queue, left, history>>
  PROVE  SessionInv'
<1>1. tab[t] \in TabState
  BY OpenTab
<1>2. PICK R \in TabState :
            /\ tab' = [tab EXCEPT ![t] = R] /\ ClearedOf(tab[t], R, clock')
            /\ Grown(t, R, 0, clock') /\ Speaks(t, 0) /\ clock' \in {clock, clock + 1}
  BY <1>1, EndHereTab
<1>3. PICK stamp : ClearedOf(tab[t], R, stamp)
  BY <1>2
<1>4. GoesOn(t, R, {})
  BY <1>2, <1>3, ClearedGoesOn
<1>5. Ordinary
  BY <1>2, QuietOrdinary
<1>6. 0 \in {0, 1} /\ (0 = 1 => chan[t] # <<>>)
  OBVIOUS
<1> QED
  BY <1>2, <1>4, <1>5, <1>6, OrdinaryStep, Zenon

\* A request of the page joins or begins a refresh.
LEMMA PageRefreshes ==
  ASSUME SessionInv, NEW t \in Tabs, tab[t].status # "closed", NEW stage \in PageStages,
         tab' = [tab EXCEPT ![t] = [Refreshing(tab[t]) EXCEPT !.me = stage]],
         QueueRefresh(t, tab[t]),
         UNCHANGED <<server, age, cookie, marker, chan, clock, left, history>>
  PROVE  SessionInv'
<1>1. tab[t] \in TabState /\ Grown(t, tab[t], 0, clock)
  BY OpenTab
<1> DEFINE F == Refreshing(tab[t])
           R == [F EXCEPT !.me = stage]
<1>2. F \in TabState
  BY <1>1, RefreshingTab
<1> HIDE DEF F
<1>3. None \in MaybeToken
  BY DEF MaybeToken
<1>4. R \in TabState /\ SameSession(F, R) /\ SameStages(F, R)
  BY <1>2, <1>3, PageTab
<1>5. tab' = [tab EXCEPT ![t] = R]
  BY DEF F
<1> HIDE DEF R
<1>6. GoesOn(t, R, {}) /\ Grown(t, R, 0, clock)
  BY <1>1, <1>4, <1>5, RefreshingGoesOn DEF F
<1> QED
  BY <1>4, <1>6, SilentStep

LEMMA PageAloneSafe ==
  ASSUME SessionInv, NEW t \in Tabs, tab[t].status # "closed", NEW stage \in PageStages,
         NEW k \in MaybeToken, tab' = [tab EXCEPT ![t].me = stage, ![t].meTok = k],
         UNCHANGED <<server, age, cookie, marker, queue, chan, clock, left, history>>
  PROVE  SessionInv'
<1>1. tab[t] \in TabState
  BY OpenTab
<1> DEFINE R == [tab[t] EXCEPT !.me = stage, !.meTok = k]
<1>2. R \in TabState /\ SameSession(tab[t], R) /\ SameStages(tab[t], R)
  BY <1>1, PageTab
<1>3. tab' = [tab EXCEPT ![t] = R]
  BY DEF SessionInv, TypeOK
<1> HIDE DEF R
<1> QED
  BY <1>2, <1>3, PageStep

LEMMA StartRunSafe ==
  ASSUME SessionInv, NEW t \in Tabs, StartRun(t)
  PROVE  SessionInv'
<1>1. /\ tab[t].status # "closed"
      /\ UNCHANGED <<server, age, cookie, marker, left, history>>
  BY DEF StartRun
<1>2. tab[t].tok \in MaybeToken /\ "sent" \in PageStages /\ "wait" \in PageStages
  BY <1>1, OpenTab DEF TabState, PageStages
<1>3. CASE age[tab[t].tok] = "fresh"
  BY <1>1, <1>2, <1>3, PageAloneSafe DEF StartRun
<1>4. CASE age[tab[t].tok] # "fresh" /\ RefreshRefused(tab[t])
  BY <1>1, <1>4, EndHereSafe DEF StartRun
<1>5. CASE age[tab[t].tok] # "fresh" /\ ~RefreshRefused(tab[t])
  BY <1>1, <1>2, <1>5, PageRefreshes DEF StartRun
<1> QED
  BY <1>3, <1>4, <1>5

LEMMA RunDoneSafe ==
  ASSUME SessionInv, NEW t \in Tabs, RunDone(t) \/ AbortRun(t)
  PROVE  SessionInv'
<1>1. tab[t].status # "closed"
  BY DEF RunDone, AbortRun, SessionInv, NewsInv, ClosedTabsAreOut, ClosedTab
<1>2. None \in MaybeToken /\ "none" \in PageStages
  BY DEF MaybeToken, PageStages
<1> QED
  BY <1>1, <1>2, PageAloneSafe DEF RunDone, AbortRun

LEMMA RunRefusedSafe ==
  ASSUME SessionInv, NEW t \in Tabs, RunRefused(t)
  PROVE  SessionInv'
<1>1. UNCHANGED <<server, age, cookie, marker, left, history>>
  BY DEF RunRefused
<1>2. tab[t].status # "closed"
  BY DEF RunRefused, SessionInv, NewsInv, ClosedTabsAreOut, ClosedTab
<1>3. CASE tab[t].me = "sent" /\ ~RefreshRefused(tab[t])
  <2>1. "again" \in PageStages
    BY DEF PageStages
  <2> QED
    BY <1>1, <1>2, <1>3, <2>1, PageRefreshes DEF RunRefused
<1>4. CASE ~(tab[t].me = "sent" /\ ~RefreshRefused(tab[t]))
  BY <1>1, <1>2, <1>4, EndHereSafe DEF RunRefused
<1> QED
  BY <1>3, <1>4

-----------------------------------------------------------------------------
(* Time and the server's own decisions.                                    *)

LEMMA OutsideStep ==
  ASSUME SessionInv, UNCHANGED <<sess, top, cookie, queue, chan, tab, clock, history>>,
         age' \in [Tokens -> {"fresh", "short", "dead"}], marker' \in {marker, None},
         left' = left \/ \E b \in Bounded : Spend(b),
         secret' \in [Tokens -> MaybeToken], \A j \in Tokens : secret'[j] \in {None, secret[j]}
  PROVE  SessionInv'
<1>1. left' \in [Bounded -> Nat] /\ NoToken
  <2>1. CASE left' = left
    BY <2>1 DEF SessionInv, TypeOK, Bounded, NoToken
  <2>2. CASE \E b \in Bounded : Spend(b)
    <3>1. left' \in [Bounded -> Nat] /\ left'["tokens"] <= left["tokens"]
      BY <2>2, SpendTyped DEF SessionInv
    <3> QED
      BY <3>1 DEF Bounded, NoToken
  <2> QED
    BY <2>1, <2>2
<1>2. TypeOK'
  <2>1. marker' \in Nat
    BY DEF SessionInv, TypeOK, None
  <2> QED
    BY <1>1, <2>1 DEF SessionInv, TypeOK, history
<1>3. SecretInv'
  <2>1. LockIsOrdered' /\ LockIsHeld'
    BY DEF SessionInv, SecretInv, LockIsOrdered, LockIsHeld, Owns, RefreshHolds, LoginHolds, LogoutHolds
  <2>2. TokensInOrder'
    <3>1. left["tokens"] \in Nat /\ top \in Nat /\ MaxTokens \in Nat
      BY BoundsAssumption DEF SessionInv, TypeOK, Bounded
    <3>2. top' + left'["tokens"] <= MaxTokens
      BY <1>1, <3>1 DEF SessionInv, SecretInv, TokensInOrder, NoToken
    <3>3. \A j \in Tokens : secret'[j] <= top /\ (j > top => secret'[j] = None)
      BY <3>1, TokenFacts DEF None
    <3> QED
      BY <3>2, <3>3 DEF SessionInv, SecretInv, TokensInOrder, history
  <2>3. \A k \in Tokens : /\ sess[k] \in Tokens
                          /\ secret'[sess[k]] \in {None, secret[sess[k]]}
    BY DEF SessionInv, TypeOK
  <2>4. cookie # None => cookie \in Tokens
    BY DEF SessionInv, TypeOK, MaybeToken
  <2>5. CookieIsKnown'
    BY <2>3, <2>4 DEF SessionInv, SecretInv, CookieIsKnown, history
  <2>6. \A k \in Tokens : Underway(k) => Underway(k)'
    BY <2>3 DEF Underway, history
  <2>7. RequestsAreSound'
    <3> SUFFICES ASSUME NEW u \in Tabs
                 PROVE  RefreshSound(tab[u])' /\ LoginSound(tab[u])' /\ LogoutSound(tab[u])'
      BY DEF RequestsAreSound
    <3>1. RefreshSound(tab[u]) /\ LoginSound(tab[u]) /\ LogoutSound(tab[u])
      BY DEF SessionInv, SecretInv, RequestsAreSound
    <3>2. tab[u].rfTok \in MaybeToken /\ tab[u].liTok \in MaybeToken
      BY DEF SessionInv, TypeOK, TabState
    <3>3. \A k \in MaybeToken : Underway(k) => k \in Tokens
      BY DEF Underway, MaybeToken, None
    <3>4. RefreshSound(tab[u])'
      BY <2>6, <3>1, <3>2, <3>3 DEF RefreshSound
    <3>5. LoginSound(tab[u])'
      BY <2>6, <3>1, <3>2, <3>3 DEF LoginSound
    <3>6. LogoutSound(tab[u])'
      BY <2>3, <2>4, <3>1 DEF LogoutSound, LogoutHolds, history
    <3> QED
      BY <3>4, <3>5, <3>6
  <2>8. LogoutRevokes'
    BY DEF SessionInv, TypeOK, SecretInv, LogoutRevokes, history
  <2> QED
    BY <2>1, <2>2, <2>5, <2>7, <2>8 DEF SecretInv
<1>4. NewsInv'
  <2>1. StampsInOrder'
    BY DEF SessionInv, TypeOK, NewsInv, StampsInOrder, Numbered, Knows, Quits, None
  <2>2. ClosedTabsAreOut' /\ (\A t \in Tabs : Coherent(tab[t]))'
    BY DEF SessionInv, NewsInv, ClosedTabsAreOut, Coherent, Quits
  <2>3. ASSUME NEW s, NEW stamp, LeftAt(s, stamp)
        PROVE  LeftAt(s, stamp)'
    <3>1. sess' = sess /\ chan' = chan /\ tab' = tab
      OBVIOUS
    <3>2. \A t, n : /\ ShownBefore(t, n, s)' <=> ShownBefore(t, n, s)
                    /\ ClearedBefore(t, n, stamp)' <=> ClearedBefore(t, n, stamp)
      BY <3>1 DEF ShownBefore, ClearedBefore
    <3>3. \A t : /\ End(t)' = End(t) /\ (Ignores(t, s)' <=> Ignores(t, s))
                 /\ Informed(t, stamp)' <=> Informed(t, stamp)
      BY <3>1, <3>2 DEF End, Ignores, Informed
    <3> QED
      BY <3>1, <3>2, <3>3, <2>3 DEF LeftAt
  <2> QED
    BY <2>1, <2>2, <2>3 DEF SessionInv, NewsInv, history
<1> QED
  BY <1>2, <1>3, <1>4 DEF SessionInv

LEMMA TokenAgesSafe ==
  ASSUME SessionInv, NEW k \in Tokens, TokenAges(k)
  PROVE  SessionInv'
<1>1. "ages" \in Bounded
  BY DEF Bounded
<1>2. age' \in [Tokens -> {"fresh", "short", "dead"}]
  BY DEF TokenAges, SessionInv, TypeOK
<1>3. secret' \in [Tokens -> MaybeToken] /\ \A j \in Tokens : secret'[j] \in {None, secret[j]}
  BY DEF TokenAges, server, SessionInv, TypeOK
<1> QED
  BY <1>1, <1>2, <1>3, OutsideStep DEF TokenAges, server

LEMMA MarkerExpiresSafe ==
  ASSUME SessionInv, MarkerExpires
  PROVE  SessionInv'
<1>1. age' \in [Tokens -> {"fresh", "short", "dead"}]
  BY DEF MarkerExpires, SessionInv, TypeOK
<1>2. secret' \in [Tokens -> MaybeToken] /\ \A j \in Tokens : secret'[j] \in {None, secret[j]}
  BY DEF MarkerExpires, server, SessionInv, TypeOK
<1> QED
  BY <1>1, <1>2, OutsideStep DEF MarkerExpires, server

LEMMA RevokeSafe ==
  ASSUME SessionInv, NEW s \in Tokens, Revoke(s)
  PROVE  SessionInv'
<1>1. "revokes" \in Bounded
  BY DEF Bounded
<1>2. age' \in [Tokens -> {"fresh", "short", "dead"}]
  BY DEF Revoke, SessionInv, TypeOK
<1>3. secret' \in [Tokens -> MaybeToken] /\ \A j \in Tokens : secret'[j] \in {None, secret[j]}
  BY DEF Revoke, SessionInv, TypeOK, MaybeToken
<1> QED
  BY <1>1, <1>2, <1>3, OutsideStep DEF Revoke

-----------------------------------------------------------------------------
(* Messages of other tabs.                                                 *)

LEMMA HeadOfChannel ==
  ASSUME SessionInv, NEW t \in Tabs, chan[t] # <<>>
  PROVE  /\ tab[t].status # "closed" /\ 1 \in DOMAIN chan[t] /\ Head(chan[t]) = chan[t][1]
         /\ chan[t][1] \in Message /\ Handled(t) = Rest(t, 1)
         /\ chan[t][1].type = "snapshot" => Numbered(<<chan[t][1].tok, chan[t][1].at>>)
         /\ chan[t][1].type = "cleared" => chan[t][1].at <= clock
<1>1. tab[t].status # "closed"
  BY DEF SessionInv, NewsInv, ClosedTabsAreOut
<1>2. 1 \in DOMAIN chan[t] /\ Head(chan[t]) = chan[t][1] /\ chan[t][1] \in Message
  <2>1. chan[t] \in Seq(Message)
    BY DEF SessionInv, TypeOK
  <2> QED
    BY <2>1
<1>3. Handled(t) = Rest(t, 1)
  BY DEF Rest
<1>4. /\ chan[t][1].type = "snapshot" => Numbered(<<chan[t][1].tok, chan[t][1].at>>)
      /\ chan[t][1].type = "cleared" => chan[t][1].at <= clock
  BY <1>2 DEF SessionInv, NewsInv, StampsInOrder
<1> QED
  BY <1>1, <1>2, <1>3, <1>4

\* The tab forgets the session at the stamp of the message.
LEMMA HeardClearedGrown ==
  ASSUME SessionInv, NEW t \in Tabs, chan[t] # <<>>, NEW stamp \in Nat, stamp <= clock,
         tab[t].at <= stamp, chan[t][1].type = "cleared", chan[t][1].at = stamp,
         NEW R, Forgets(R, stamp)
  PROVE  Grown(t, R, 1, clock)
<1>1. Knows(R) = {}
  BY DEF Forgets, Knows
<1>2. Coherent(R) /\ R.status # "closed" /\ R.at = stamp
  BY DEF Forgets, Coherent
<1> QED
  BY <1>1, <1>2 DEF Grown

LEMMA ReceiveClearedSafe ==
  ASSUME SessionInv, NEW t \in Tabs, ReceiveCleared(t)
  PROVE  SessionInv'
<1>1. chan[t] # <<>> /\ Head(chan[t]).type = "cleared"
  BY DEF ReceiveCleared, Received
<1>2. /\ tab[t].status # "closed" /\ Head(chan[t]) = chan[t][1]
      /\ chan[t][1] \in Message /\ Handled(t) = Rest(t, 1)
      /\ chan[t][1].type = "cleared" => chan[t][1].at <= clock
  BY <1>1, HeadOfChannel
<1>3. PICK m \in Message : m = chan[t][1]
  BY <1>2
<1>4. m.type = "cleared" /\ m.at \in Nat /\ m.at <= clock /\ m.reason \in {"ended", "logout"}
  <2>1. m.type = "cleared" /\ m.at <= clock
    BY <1>1, <1>2, <1>3
  <2> QED
    BY <2>1 DEF Message
<1>5. /\ tab[t] \in TabState /\ cookie \in MaybeToken /\ clock \in Nat
      /\ Grown(t, tab[t], 0, clock) /\ tab[t].at \in Nat
  <2>1. tab[t] \in TabState /\ cookie \in MaybeToken /\ clock \in Nat /\ Grown(t, tab[t], 0, clock)
    BY <1>2, OpenTab
  <2> QED
    BY <2>1 DEF TabState
<1>6. Speaks(t, 1)
  BY <1>2 DEF Speaks, ReceiveCleared
<1>7. Ordinary
  <2>1. marker \in Nat /\ marker <= clock /\ left \in [Bounded -> Nat]
    BY DEF SessionInv, TypeOK, NewsInv, StampsInOrder
  <2>2. marker' \in Nat /\ marker' <= clock
    BY <1>2, <1>3, <1>4, <2>1 DEF ReceiveCleared
  <2>3. UNCHANGED <<server, age, cookie, clock, left, history>>
    BY DEF ReceiveCleared
  <2> QED
    BY <2>1, <2>2, <2>3 DEF Ordinary, Bounded
<1>8. 1 \in {0, 1} /\ (1 = 1 => chan[t] # <<>>) /\ clock' = clock
  BY <1>1 DEF ReceiveCleared
<1>9. CASE m.at < tab[t].at
  <2>1. tab' = tab /\ queue' = queue
    BY <1>2, <1>3, <1>9 DEF ReceiveCleared
  <2>2. tab' = [tab EXCEPT ![t] = tab[t]]
    BY <2>1 DEF SessionInv, TypeOK
  <2>3. {} \subseteq Of(t) /\ Keeps({})
    BY <2>1, GrowingQueue
  <2>4. GoesOn(t, tab[t], {})
    BY <2>2, <2>3, KeptGoesOn DEF GoesOn, SessionInv
  <2>5. Grown(t, tab[t], 1, clock)
    BY <1>3, <1>4, <1>5, <1>9 DEF Grown
  <2> QED
    BY <1>5, <1>6, <1>7, <1>8, <2>4, <2>5, OrdinaryStep
<1>10. CASE ~(m.at < tab[t].at)
  <2>1. PICK why \in {"ended", "logout"} : why = m.reason
    BY <1>4
  <2>2. PICK stamp \in Nat : stamp = m.at
    BY <1>4
  <2> DEFINE C == Cleared(tab[t], why, stamp)
  <2>3. C \in TabState /\ ClearedOf(tab[t], C, stamp)
    BY <1>5, ClearedTab, Zenon
  <2>4. \/ C.rf # "startup" /\ tab' = [tab EXCEPT ![t] = C] /\ queue' = queue
        \/ C.rf = "startup" /\ tab' = [tab EXCEPT ![t] = [C EXCEPT !.rf = "none"]] /\ queue' = queue
        \/ /\ C.rf = "startup" /\ tab' = [tab EXCEPT ![t] = Refreshing([C EXCEPT !.rf = "none"])]
           /\ QueueRefresh(t, [C EXCEPT !.rf = "none"])
    BY <1>2, <1>3, <1>10, <2>1, <2>2 DEF ReceiveCleared
  <2> HIDE DEF C
  <2>5. Grown(t, C, 1, clock)
    BY <1>1, <1>3, <1>4, <1>5, <1>10, <2>2, <2>3, HeardClearedGrown DEF ClearedOf
  <2>6. CASE C.rf # "startup" /\ tab' = [tab EXCEPT ![t] = C] /\ queue' = queue
    <3>1. GoesOn(t, C, {})
      BY <2>3, <2>6, ClearedGoesOn
    <3> QED
      BY <1>6, <1>7, <1>8, <2>3, <2>5, <3>1, OrdinaryStep
  <2>7. CASE C.rf = "startup"
    <3>1. /\ tab[t].rf # "ok" /\ C.li = tab[t].li /\ C.liTok = tab[t].liTok
          /\ C.lo = tab[t].lo /\ C.loTok = tab[t].loTok
      BY <2>3, <2>7 DEF ClearedOf
    <3>2. PICK R \in TabState : GoesOn(t, R, {}) /\ Grown(t, R, 1, clock)
      BY <2>3, <2>4, <2>5, <2>7, <3>1, StartupOver
    <3> QED
      BY <1>6, <1>7, <1>8, <3>2, OrdinaryStep
  <2> QED
    BY <2>4, <2>6, <2>7
<1> QED
  BY <1>9, <1>10

\* What the tab makes of the snapshot that it has received.
HeardSnapshot(T, m) == WithPeer([T EXCEPT !.peer = m.tok, !.peerAt = m.at], m.tok, m.at)

LEMMA HeardSnapshotTab ==
  ASSUME SessionInv, NEW t \in Tabs, chan[t] # <<>>, chan[t][1].type = "snapshot"
  PROVE  /\ HeardSnapshot(tab[t], chan[t][1]) \in TabState
         /\ SameStages(tab[t], HeardSnapshot(tab[t], chan[t][1]))
         /\ Grown(t, HeardSnapshot(tab[t], chan[t][1]), 1, clock)
<1>1. /\ tab[t].status # "closed" /\ chan[t][1] \in Message
      /\ Numbered(<<chan[t][1].tok, chan[t][1].at>>)
  BY HeadOfChannel
<1>2. PICK k \in Tokens, stamp \in Nat : k = chan[t][1].tok /\ stamp = chan[t][1].at
  BY <1>1, MessageFields
<1>3. stamp <= clock
  BY <1>1, <1>2 DEF Numbered
<1>4. tab[t] \in TabState /\ clock \in Nat /\ Grown(t, tab[t], 0, clock)
  BY <1>1, OpenTab
<1> DEFINE P == [tab[t] EXCEPT !.peer = k, !.peerAt = stamp]
           W == WithPeer(P, k, stamp)
<1>5. /\ P \in TabState /\ k \in MaybeToken
      /\ P.status = tab[t].status /\ P.at = tab[t].at /\ P.tok = tab[t].tok
      /\ P.back = tab[t].back /\ P.intent = tab[t].intent /\ P.peer = k /\ P.peerAt = stamp
  <2>1. k \in MaybeToken
    BY DEF MaybeToken
  <2>2. P \in TabState
    BY <1>4, <2>1 DEF TabState
  <2>3. /\ P.status = tab[t].status /\ P.at = tab[t].at /\ P.tok = tab[t].tok
        /\ P.back = tab[t].back /\ P.intent = tab[t].intent /\ P.peer = k /\ P.peerAt = stamp
    BY <1>4 DEF TabState
  <2> QED
    BY <2>1, <2>2, <2>3
<1>6. SameStages(tab[t], P)
  BY <1>4 DEF TabState, SameStages
<1> HIDE DEF P
<1>7. /\ W \in TabState /\ SameStages(P, W)
      /\ \/ W = P
         \/ /\ Receptive(P) /\ stamp >= P.at
            /\ W.status = "authenticated" /\ W.tok = k /\ W.at = stamp
            /\ W.peer = k /\ W.peerAt = stamp
            /\ W.intent = P.intent /\ W.back = P.back
  BY <1>5, WithPeerTab
<1>8. W = HeardSnapshot(tab[t], chan[t][1])
  BY <1>2 DEF HeardSnapshot, P
<1> HIDE DEF W
<1>9. SameStages(tab[t], W)
  BY <1>6, <1>7 DEF SameStages
<1>10. tab[t].at \in Nat /\ Coherent(tab[t]) /\ tab[t].at <= clock
  BY <1>4 DEF TabState, Grown
<1>11. Grown(t, W, 1, clock)
  <2>1. CASE W = P
    <3>1. Knows(W) \subseteq Knows(tab[t]) \cup {<<k, stamp>>}
      BY <1>5, <2>1 DEF Knows, Quits
    <3>2. Coherent(W) /\ W.status # "closed" /\ W.at = tab[t].at
      BY <1>1, <1>5, <1>9, <1>10, <2>1 DEF Coherent, Quits, SameStages
    <3> QED
      BY <1>2, <1>10, <3>1, <3>2 DEF Grown
  <2>2. CASE /\ Receptive(P) /\ stamp >= P.at
             /\ W.status = "authenticated" /\ W.tok = k /\ W.at = stamp
             /\ W.peer = k /\ W.peerAt = stamp
             /\ W.intent = P.intent /\ W.back = P.back
    <3>1. Knows(W) \subseteq {<<k, stamp>>}
      BY <2>2 DEF Knows, Quits
    <3>2. Coherent(W)
      <4>1. ~Quits(tab[t])
        BY <1>5, <2>2 DEF Receptive, Leaving, Quits
      <4> QED
        BY <1>5, <1>9, <1>10, <2>2, <4>1 DEF Coherent, SameStages, Tokens, None
    <3>3. tab[t].at <= W.at /\ W.at <= clock /\ W.status # "closed"
      BY <1>3, <1>5, <2>2
    <3> QED
      BY <1>2, <3>1, <3>2, <3>3 DEF Grown
  <2> QED
    BY <1>7, <2>1, <2>2
<1> QED
  BY <1>7, <1>8, <1>9, <1>11

LEMMA ReceiveSnapshotSafe ==
  ASSUME SessionInv, NEW t \in Tabs, ReceiveSnapshot(t)
  PROVE  SessionInv'
<1>1. chan[t] # <<>> /\ Head(chan[t]).type = "snapshot"
  BY DEF ReceiveSnapshot, Received
<1>2. /\ tab[t].status # "closed" /\ Head(chan[t]) = chan[t][1] /\ chan[t][1] \in Message
      /\ Handled(t) = Rest(t, 1)
  BY <1>1, HeadOfChannel
<1>3. PICK T \in TabState : T = HeardSnapshot(tab[t], chan[t][1])
  BY <1>1, <1>2, HeardSnapshotTab
<1>4. SameStages(tab[t], T) /\ Grown(t, T, 1, clock)
  BY <1>1, <1>2, <1>3, HeardSnapshotTab
<1>5. PICK took \in BOOLEAN :
         took = (Takes(tab[t], Head(chan[t]).at) /\ Usable(Head(chan[t]).tok))
  OBVIOUS
<1>6. /\ UNCHANGED <<server, age, cookie, marker, left, history>>
      /\ \/ /\ T.rf = "startup" /\ chan' = Handled(t) /\ clock' = clock
            /\ \/ tab' = [tab EXCEPT ![t] = [T EXCEPT !.rf = "none"]] /\ queue' = queue
               \/ /\ tab' = [tab EXCEPT ![t] = Refreshing([T EXCEPT !.rf = "none"])]
                  /\ QueueRefresh(t, [T EXCEPT !.rf = "none"])
         \/ /\ T.rf = "asking" /\ queue' = Released(t, "rf")
            /\ RefreshEnds(t, T, took, Handled(t))
         \/ /\ T.rf = "asking" /\ tab' = [tab EXCEPT ![t] = [T EXCEPT !.rf = "sent", !.rfTok = cookie]]
            /\ chan' = Handled(t) /\ queue' = queue /\ clock' = clock
         \/ /\ tab' = [tab EXCEPT ![t] = T]
            /\ chan' = Handled(t) /\ queue' = queue /\ clock' = clock
  <2>1. T = WithPeer([tab[t] EXCEPT !.peer = Head(chan[t]).tok, !.peerAt = Head(chan[t]).at],
                     Head(chan[t]).tok, Head(chan[t]).at)
    BY <1>2, <1>3 DEF HeardSnapshot
  <2> QED
    BY <1>5, <2>1 DEF ReceiveSnapshot
<1>7. 1 \in {0, 1} /\ (1 = 1 => chan[t] # <<>>)
  BY <1>1
<1>8. /\ T.rf = tab[t].rf /\ T.rfTok = tab[t].rfTok /\ T.li = tab[t].li
      /\ T.liTok = tab[t].liTok /\ T.lo = tab[t].lo /\ T.loTok = tab[t].loTok
  BY <1>4 DEF SameStages
<1>9. ASSUME NEW R \in TabState, NEW X, GoesOn(t, R, X), Grown(t, R, 1, clock'), Speaks(t, 1),
             clock' \in {clock, clock + 1}
      PROVE  SessionInv'
  <2>1. Ordinary
    BY <1>6, <1>9, QuietOrdinary
  <2> QED
    BY <1>7, <1>9, <2>1, OrdinaryStep
<1>10. CASE T.rf = "asking" /\ queue' = Released(t, "rf") /\ RefreshEnds(t, T, took, Handled(t))
  <2>1. PICK R \in TabState : RefreshOver(t, R, 1)
    BY <1>2, <1>4, <1>7, <1>8, <1>10, RefreshEndsStep
  <2>2. /\ GoesOn(t, R, {<<t, "rf">>}) /\ Grown(t, R, 1, clock') /\ Speaks(t, 1)
        /\ clock' \in {clock, clock + 1}
    BY <1>8, <1>10, <2>1 DEF RefreshOver
  <2> QED
    BY <1>9, <2>2
<1>11. CASE chan' = Handled(t) /\ clock' = clock
  <2>1. Speaks(t, 1)
    BY <1>2, <1>11 DEF Speaks
  <2>2. CASE /\ T.rf = "startup"
             /\ \/ tab' = [tab EXCEPT ![t] = [T EXCEPT !.rf = "none"]] /\ queue' = queue
                \/ /\ tab' = [tab EXCEPT ![t] = Refreshing([T EXCEPT !.rf = "none"])]
                   /\ QueueRefresh(t, [T EXCEPT !.rf = "none"])
    <3>1. PICK R \in TabState : GoesOn(t, R, {}) /\ Grown(t, R, 1, clock)
      BY <1>4, <1>8, <2>2, StartupOver
    <3> QED
      BY <1>9, <1>11, <2>1, <3>1
  <2>3. CASE /\ T.rf = "asking" /\ queue' = queue
             /\ tab' = [tab EXCEPT ![t] = [T EXCEPT !.rf = "sent", !.rfTok = cookie]]
    <3>1. "sent" \in RefreshStages /\ cookie \in MaybeToken
      BY DEF RefreshStages, Stages, SessionInv, TypeOK
    <3>2. PICK R \in TabState : RefreshAt(T, R, "sent", cookie)
      BY <3>1, RefreshStage, Zenon
    <3>3. /\ tab' = [tab EXCEPT ![t] = R] /\ SameSession(T, R) /\ R.rf = "sent" /\ R.rfTok = cookie
          /\ R.li = T.li /\ R.liTok = T.liTok /\ R.lo = T.lo /\ R.loTok = T.loTok
      BY <2>3, <3>2 DEF RefreshAt
    <3>4. Grown(t, R, 1, clock)
      BY <1>4, <3>3, SameSessionGrown
    <3>5. {} \subseteq Of(t) /\ Keeps({})
      BY <2>3, GrowingQueue
    <3>6. Owns(t, "rf")
      BY <1>8, <2>3 DEF SessionInv, SecretInv, LockIsHeld, RefreshHolds
    <3>7. RefreshGoesOn(t, R, {})
      BY <1>8, <2>3, <3>3, <3>6 DEF RefreshGoesOn
    <3>8. LoginGoesOn(t, R, {}) /\ LogoutGoesOn(t, R, {})
      BY <1>8, <3>3, KeptGoesOn DEF SessionInv
    <3>9. GoesOn(t, R, {})
      BY <3>3, <3>5, <3>7, <3>8 DEF GoesOn
    <3> QED
      BY <1>9, <1>11, <2>1, <3>4, <3>9
  <2>4. CASE tab' = [tab EXCEPT ![t] = T] /\ queue' = queue
    <3>1. {} \subseteq Of(t) /\ Keeps({})
      BY <2>4, GrowingQueue
    <3>2. GoesOn(t, T, {})
      BY <1>8, <2>4, <3>1, KeptGoesOn DEF GoesOn, SessionInv
    <3> QED
      BY <1>4, <1>9, <1>11, <2>1, <3>2
  <2> QED
    BY <1>6, <1>10, <2>2, <2>3, <2>4
<1> QED
  BY <1>6, <1>10, <1>11

\* Who is asked shows what it knows to the one who asks.
LEMMA ShownMayReach ==
  ASSUME SessionInv, NEW t \in Tabs, chan[t] # <<>>, chan[t][1].type = "request",
         chan[t][1].from # None, NEW p \in Knows(tab[t]), p = <<tab[t].tok, tab[t].at>>
  PROVE  MayReach(chan[t][1].from, p)
<1>1. SUFFICES ASSUME NEW s \in ended, NEW stamp \in Nat, sess[p[1]] = s, LeftAt(s, stamp)
               PROVE  p[2] < stamp /\ Informed(chan[t][1].from, stamp)
  BY DEF MayReach
<1>2. 1 \in DOMAIN chan[t]
  BY HeadOfChannel
<1>3. p[2] < stamp /\ p[2] = tab[t].at
  BY <1>1 DEF LeftAt
<1>4. ~Ignores(t, s)
  BY <1>1 DEF Ignores
<1>5. ~ClearedBefore(t, 1, stamp)
  <2>1. \A i \in DOMAIN chan[t] : ~(i < 1)
    BY DEF SessionInv, TypeOK
  <2> QED
    BY <2>1 DEF ClearedBefore
<1>6. ~(tab[t].at >= stamp)
  <2>1. tab[t].at \in Nat
    BY DEF SessionInv, TypeOK, TabState
  <2> QED
    BY <1>3, <2>1
<1> QED
  BY <1>1, <1>2, <1>3, <1>4, <1>5, <1>6 DEF LeftAt

LEMMA ReceiveRequestSafe ==
  ASSUME SessionInv, NEW t \in Tabs, ReceiveRequest(t)
  PROVE  SessionInv'
<1>1. /\ chan[t] # <<>> /\ Head(chan[t]).type = "request"
      /\ UNCHANGED <<server, age, cookie, marker, queue, tab, clock, left, history>>
  BY DEF ReceiveRequest, Received
<1>2. /\ tab[t].status # "closed" /\ Head(chan[t]) = chan[t][1] /\ chan[t][1] \in Message
      /\ Handled(t) = Rest(t, 1)
  BY <1>1, HeadOfChannel
<1>3. tab[t] \in TabState /\ clock \in Nat /\ Grown(t, tab[t], 0, clock)
  BY <1>2, OpenTab
<1>4. tab' = [tab EXCEPT ![t] = tab[t]]
  BY <1>1 DEF SessionInv, TypeOK
<1>5. GoesOn(t, tab[t], {})
  <2>1. {} \subseteq Of(t) /\ Keeps({})
    BY <1>1, GrowingQueue
  <2> QED
    BY <1>4, <2>1, KeptGoesOn DEF GoesOn, SessionInv
<1>6. Grown(t, tab[t], 1, clock)
  BY <1>1, <1>2, <1>3 DEF Grown
<1>7. 1 \in {0, 1} /\ (1 = 1 => chan[t] # <<>>) /\ clock' = clock
  BY <1>1
<1>8. CASE chan' = Handled(t)
  <2>1. Speaks(t, 1)
    BY <1>2, <1>8 DEF Speaks
  <2>2. Ordinary
    BY <1>1, QuietOrdinary
  <2> QED
    BY <1>3, <1>5, <1>6, <1>7, <2>1, <2>2, OrdinaryStep
<1>9. CASE chan' # Handled(t)
  <2>1. PICK u \in Tabs : u = chan[t][1].from /\ u # None
    <3>1. chan[t][1].from # None
      BY <1>2, <1>9 DEF ReceiveRequest
    <3> QED
      BY <1>1, <1>2, <3>1, MessageFields
  <2>2. /\ tab[t].status = "authenticated" /\ tab[t].tok # None /\ tab[u].status # "closed"
        /\ chan' = [Rest(t, 1) EXCEPT ![u] = Append(@, Snapshot(tab[t].tok, tab[t].at))]
    BY <1>2, <1>9, <2>1 DEF ReceiveRequest, Usable
  <2>3. PICK k \in Tokens, stamp \in Nat : k = tab[t].tok /\ stamp = tab[t].at
    BY <1>3, <2>2 DEF TabState, MaybeToken
  <2>4. PICK m \in Message : m = Snapshot(k, stamp)
    BY DEF Message, Snapshot
  <2>5. m.type = "snapshot" /\ m.tok = k /\ m.at = stamp
    BY <2>4 DEF Snapshot
  <2>6. chan' = [Rest(t, 1) EXCEPT ![u] = Append(@, m)]
    BY <2>2, <2>3, <2>4
  <2>7. chan' \in [Tabs -> Seq(Message)] /\ ChannelStep(t, 1, {<<u, m>>})
    BY <1>7, <2>2, <2>6, OneAnswered DEF SessionInv
  <2>8. <<k, stamp>> \in Knows(tab[t])
    BY <2>2, <2>3 DEF Knows
  <2>9. k <= top /\ stamp <= clock /\ MayReach(u, <<k, stamp>>)
    <3>1. Numbered(<<k, stamp>>)
      BY <2>8 DEF SessionInv, NewsInv, StampsInOrder
    <3>2. MayReach(u, <<k, stamp>>)
      BY <1>1, <1>2, <2>1, <2>3, <2>8, ShownMayReach
    <3> QED
      BY <3>1, <3>2 DEF Numbered
  <2>10. NewsStep(t, tab[t], 1, {<<u, m>>})
    <3>1. \A v \in Tabs, w \in Message : <<v, w>> \in {<<u, m>>} =>
             /\ w.type = "request" => w.from = t /\ v # t
             /\ w.type = "cleared" => w.at <= clock'
             /\ w.type = "snapshot" => /\ w.tok <= top /\ w.at <= clock'
                                       /\ MayReach(v, <<w.tok, w.at>>)
      BY <1>7, <2>5, <2>9
    <3> QED
      BY <1>4, <1>6, <1>7, <2>7, <3>1 DEF NewsStep, Grown
  <2>11. UNCHANGED <<server, cookie, lost, ended>> /\ NoToken
    BY <1>1 DEF history, NoToken, SessionInv, TypeOK, Bounded
  <2>12. SecretInv'
    BY <1>3, <1>5, <2>11, QuietStep DEF SessionInv
  <2>13. TypeOK'
    BY <1>1, <2>7 DEF SessionInv, TypeOK, server, history
  <2>14. NobodyLeaves
    BY <1>1, <1>3 DEF NobodyLeaves, NothingTakenBack, server, history, SessionInv, NewsInv, StampsInOrder, TypeOK
  <2>15. NewsInv'
    BY <1>3, <2>10, <2>13, <2>14, NewsStays DEF SessionInv
  <2> QED
    BY <2>12, <2>13, <2>15 DEF SessionInv
<1> QED
  BY <1>8, <1>9

-----------------------------------------------------------------------------
(* A tab is closed.                                                        *)

\* The other tabs keep their messages; a request of t is nobody's any more.
Orphaned(t) ==
    /\ chan' \in [Tabs -> Seq(Message)] /\ chan'[t] = <<>>
    /\ \A u \in Tabs \ {t} :
          /\ DOMAIN chan'[u] = DOMAIN chan[u] /\ Len(chan'[u]) = Len(chan[u])
          /\ \A i \in DOMAIN chan[u] :
                /\ chan'[u][i].type = chan[u][i].type
                /\ chan[u][i].type # "request" => chan'[u][i] = chan[u][i]
                /\ chan[u][i].type = "request" /\ chan'[u][i].from # None =>
                      chan'[u][i].from = chan[u][i].from /\ chan[u][i].from # t

LEMMA RequestsAreOrphaned ==
  ASSUME TypeOK, NEW t \in Tabs,
         chan' = [u \in Tabs |-> IF u = t THEN <<>> ELSE
                    [i \in DOMAIN chan[u] |->
                        IF chan[u][i] = Request(t) THEN Request(None) ELSE chan[u][i]]]
  PROVE  Orphaned(t)
<1>1. chan'[t] = <<>> /\ <<>> \in Seq(Message)
  OBVIOUS
<1>2. ASSUME NEW u \in Tabs \ {t}
      PROVE  /\ chan'[u] \in Seq(Message)
             /\ DOMAIN chan'[u] = DOMAIN chan[u] /\ Len(chan'[u]) = Len(chan[u])
             /\ \A i \in DOMAIN chan[u] :
                   chan'[u][i] = IF chan[u][i] = Request(t) THEN Request(None) ELSE chan[u][i]
  <2>1. PICK s \in Seq(Message) : s = chan[u]
    BY DEF TypeOK
  <2>2. chan'[u] = [i \in 1 .. Len(s) |-> IF s[i] = Request(t) THEN Request(None) ELSE s[i]]
    BY <2>1
  <2>3. \A i \in 1 .. Len(s) : (IF s[i] = Request(t) THEN Request(None) ELSE s[i]) \in Message
    <3>1. Request(None) \in Message
      BY DEF Request, Message
    <3> QED
      BY <3>1
  <2>4. chan'[u] \in Seq(Message) /\ Len(chan'[u]) = Len(s)
    BY <2>2, <2>3
  <2> QED
    BY <2>1, <2>2, <2>4
<1>3. chan' \in [Tabs -> Seq(Message)]
  <2>1. chan' = [u \in Tabs |-> chan'[u]]
    OBVIOUS
  <2>2. \A u \in Tabs : chan'[u] \in Seq(Message)
    BY <1>1, <1>2
  <2> QED
    BY <2>1, <2>2
<1>4. ASSUME NEW u \in Tabs \ {t}, NEW i \in DOMAIN chan[u]
      PROVE  /\ chan'[u][i].type = chan[u][i].type
             /\ chan[u][i].type # "request" => chan'[u][i] = chan[u][i]
             /\ chan[u][i].type = "request" /\ chan'[u][i].from # None =>
                   chan'[u][i].from = chan[u][i].from /\ chan[u][i].from # t
  <2>1. PICK m \in Message : m = chan[u][i]
    BY DEF TypeOK
  <2>2. chan'[u][i] = IF m = Request(t) THEN Request(None) ELSE m
    BY <1>2, <1>4, <2>1
  <2>3. /\ Request(t).type = "request" /\ Request(None).type = "request"
        /\ Request(None).from = None
    BY DEF Request
  <2>4. m.type = "request" /\ m.from = t => m = Request(t)
    BY DEF Message, Request
  <2> QED
    BY <2>1, <2>2, <2>3, <2>4
<1> QED
  BY <1>1, <1>2, <1>3, <1>4 DEF Orphaned

LEMMA OrphanedNews ==
  ASSUME SessionInv, NEW t \in Tabs, Orphaned(t), ClosedTab \in TabState,
         tab' = [tab EXCEPT ![t] = ClosedTab], UNCHANGED <<sess, top, marker, clock, ended>>
  PROVE  NewsInv'
<1>1. tab'[t] = ClosedTab /\ \A u \in Tabs \ {t} : tab'[u] = tab[u]
  BY DEF SessionInv, TypeOK
<1>2. Knows(ClosedTab) = {} /\ Coherent(ClosedTab) /\ ClosedTab.status = "closed"
  BY DEF Knows, ClosedTab, Coherent
<1>3. DOMAIN chan'[t] = {} /\ chan'[t] = <<>>
  BY DEF Orphaned
<1>4. /\ \A u \in Tabs : DOMAIN chan[u] = 1 .. Len(chan[u]) /\ chan[u] \in Seq(Message)
      /\ clock \in Nat
  BY DEF SessionInv, TypeOK
<1>5. StampsInOrder'
  <2>1. ClosedTab.at <= clock
    BY <1>4 DEF ClosedTab, None
  <2>2. marker' <= clock'
    BY DEF SessionInv, NewsInv, StampsInOrder
  <2>3. ASSUME NEW u \in Tabs
        PROVE  tab'[u].at <= clock' /\ \A p \in Knows(tab'[u]) : p[1] <= top' /\ p[2] <= clock'
    BY <1>1, <1>2, <2>1 DEF SessionInv, NewsInv, StampsInOrder, Numbered
  <2>4. ASSUME NEW u \in Tabs, NEW i \in DOMAIN chan'[u]
        PROVE  /\ chan'[u][i].type = "snapshot" => chan'[u][i].tok <= top' /\ chan'[u][i].at <= clock'
               /\ chan'[u][i].type = "cleared" => chan'[u][i].at <= clock'
    <3>1. u # t
      BY <1>3, <2>4
    <3>2. i \in DOMAIN chan[u] /\ chan'[u][i].type = chan[u][i].type
          /\ (chan[u][i].type # "request" => chan'[u][i] = chan[u][i])
      BY <2>4, <3>1 DEF Orphaned
    <3>3. /\ chan[u][i].type = "snapshot" => chan[u][i].tok <= top /\ chan[u][i].at <= clock
          /\ chan[u][i].type = "cleared" => chan[u][i].at <= clock
      BY <3>2 DEF SessionInv, NewsInv, StampsInOrder, Numbered
    <3> QED
      BY <3>2, <3>3
  <2> QED
    BY <2>2, <2>3, <2>4 DEF StampsInOrder, Numbered, Knows, Quits
<1>6. ClosedTabsAreOut'
  <2>1. ASSUME NEW u \in Tabs, tab'[u].status = "closed"
        PROVE  tab'[u] = ClosedTab /\ chan'[u] = <<>>
    <3>1. CASE u = t
      BY <1>1, <1>3, <3>1
    <3>2. CASE u # t
      <4>1. tab[u] = ClosedTab /\ chan[u] = <<>>
        BY <1>1, <2>1, <3>2 DEF SessionInv, NewsInv, ClosedTabsAreOut
      <4>2. chan'[u] \in Seq(Message) /\ Len(chan'[u]) = 0
        BY <3>2, <4>1 DEF Orphaned
      <4> QED
        BY <1>1, <3>2, <4>1, <4>2
    <3> QED
      BY <3>1, <3>2
  <2>2. ASSUME NEW u \in Tabs, NEW i \in DOMAIN chan'[u], chan'[u][i].type = "request",
               chan'[u][i].from # None
        PROVE  tab'[chan'[u][i].from].status # "closed"
    <3>1. u # t
      BY <1>3, <2>2
    <3>2. /\ i \in DOMAIN chan[u] /\ chan[u][i].type = "request"
          /\ chan'[u][i].from = chan[u][i].from /\ chan[u][i].from # t
      BY <2>2, <3>1 DEF Orphaned
    <3>3. chan[u][i] \in Message /\ chan[u][i].from # None
      BY <1>4, <2>2, <3>2
    <3>4. chan[u][i].from \in Tabs /\ tab[chan[u][i].from].status # "closed"
      BY <3>2, <3>3, MessageFields DEF SessionInv, NewsInv, ClosedTabsAreOut
    <3> QED
      BY <1>1, <3>2, <3>4
  <2> QED
    BY <2>1, <2>2 DEF ClosedTabsAreOut, ClosedTab
<1>7. (\A u \in Tabs : Coherent(tab[u]))'
  <2>1. \A u \in Tabs : Coherent(tab'[u])
    BY <1>1, <1>2 DEF SessionInv, NewsInv
  <2> QED
    BY <2>1 DEF Coherent, Quits
<1>8. ASSUME NEW u \in Tabs \ {t}, NEW n, NEW s, NEW stamp
      PROVE  /\ ShownBefore(u, n, s)' => ShownBefore(u, n, s)
             /\ ClearedBefore(u, n, stamp) => ClearedBefore(u, n, stamp)'
             /\ Informed(u, stamp) => Informed(u, stamp)'
             /\ Ignores(u, s) => Ignores(u, s)'
             /\ End(u)' = End(u)
  <2>1. /\ DOMAIN chan'[u] = DOMAIN chan[u] /\ Len(chan'[u]) = Len(chan[u])
        /\ \A i \in DOMAIN chan[u] :
              /\ chan'[u][i].type = chan[u][i].type
              /\ chan[u][i].type # "request" => chan'[u][i] = chan[u][i]
    BY DEF Orphaned
  <2>2. ShownBefore(u, n, s)' => ShownBefore(u, n, s)
    BY <2>1 DEF ShownBefore
  <2>3. \A k : ClearedBefore(u, k, stamp) => ClearedBefore(u, k, stamp)'
    BY <2>1 DEF ClearedBefore
  <2>4. Ignores(u, s) => Ignores(u, s)'
    BY <1>1 DEF Ignores, Knows, Quits
  <2>5. End(u)' = End(u)
    BY <2>1 DEF End
  <2>6. Informed(u, stamp) => Informed(u, stamp)'
    BY <1>1, <2>3, <2>5 DEF Informed
  <2> QED
    BY <2>2, <2>3, <2>4, <2>5, <2>6
<1>9. ASSUME NEW s \in ended, NEW stamp \in Nat, LeftAt(s, stamp)
      PROVE  LeftAt(s, stamp)'
  <2>1. ASSUME NEW u \in Tabs
        PROVE  /\ \A p \in Knows(tab'[u]) : sess'[p[1]] = s => p[2] < stamp
               /\ \A i \in DOMAIN chan'[u] :
                     chan'[u][i].type = "snapshot" /\ sess'[chan'[u][i].tok] = s =>
                        chan'[u][i].at < stamp
    <3>1. \A p \in Knows(tab'[u]) : sess'[p[1]] = s => p[2] < stamp
      BY <1>1, <1>2, <1>9 DEF LeftAt
    <3>2. \A i \in DOMAIN chan'[u] : i \in DOMAIN chan[u] /\ chan'[u][i].type = chan[u][i].type
             /\ (chan[u][i].type # "request" => chan'[u][i] = chan[u][i])
      BY <1>3 DEF Orphaned
    <3>3. \A i \in DOMAIN chan[u] :
             chan[u][i].type = "snapshot" /\ sess[chan[u][i].tok] = s => chan[u][i].at < stamp
      BY <1>9 DEF LeftAt
    <3> QED
      BY <3>1, <3>2, <3>3
  <2>2. ASSUME NEW u \in Tabs
        PROVE  Informed(u, stamp)' \/ (Ignores(u, s)' /\ ~ShownBefore(u, End(u), s)')
    <3>1. CASE u = t
      BY <1>1, <1>2, <1>3, <3>1 DEF Ignores, ShownBefore
    <3>2. CASE u # t
      <4>1. PICK n : n = End(u)
        OBVIOUS
      <4>2. Informed(u, stamp) \/ (Ignores(u, s) /\ ~ShownBefore(u, n, s))
        BY <1>9, <4>1 DEF LeftAt
      <4>3. Informed(u, stamp)' \/ (Ignores(u, s)' /\ ~ShownBefore(u, n, s)')
        BY <1>8, <3>2, <4>2
      <4>4. n = End(u)'
        BY <1>8, <3>2, <4>1
      <4> QED
        BY <4>3, <4>4 DEF ShownBefore
    <3> QED
      BY <3>1, <3>2
  <2>3. ASSUME NEW u \in Tabs, NEW i \in DOMAIN chan'[u], chan'[u][i].type = "request",
               NEW f, f = chan'[u][i].from, f # None
        PROVE  \/ Informed(f, stamp)'
               \/ tab'[u].at >= stamp \/ ClearedBefore(u, i, stamp)'
               \/ Ignores(u, s)' /\ ~ShownBefore(u, i, s)'
    <3>1. u # t
      BY <1>3, <2>3
    <3>2. /\ i \in DOMAIN chan[u] /\ chan[u][i].type = "request"
          /\ f = chan[u][i].from /\ f # t
      BY <2>3, <3>1 DEF Orphaned
    <3>3. f \in Tabs
      <4>1. chan[u][i] \in Message
        BY <1>4, <3>2
      <4> QED
        BY <2>3, <3>2, <4>1, MessageFields
    <3>4. \/ Informed(f, stamp) \/ tab[u].at >= stamp \/ ClearedBefore(u, i, stamp)
          \/ Ignores(u, s) /\ ~ShownBefore(u, i, s)
      BY <1>9, <2>3, <3>2 DEF LeftAt
    <3> QED
      BY <1>1, <1>8, <3>1, <3>2, <3>3, <3>4
  <2>4. (\A u \in Tabs :
           /\ \A p \in Knows(tab[u]) : sess[p[1]] = s => p[2] < stamp
           /\ \A i \in DOMAIN chan[u] :
                 chan[u][i].type = "snapshot" /\ sess[chan[u][i].tok] = s => chan[u][i].at < stamp
           /\ Informed(u, stamp) \/ (Ignores(u, s) /\ ~ShownBefore(u, End(u), s)))'
    BY <2>1, <2>2
  <2>5. (\A u \in Tabs : \A i \in DOMAIN chan[u] :
           chan[u][i].type = "request" /\ chan[u][i].from # None =>
               \/ Informed(chan[u][i].from, stamp)
               \/ tab[u].at >= stamp \/ ClearedBefore(u, i, stamp)
               \/ Ignores(u, s) /\ ~ShownBefore(u, i, s))'
    BY <2>3 DEF Informed, ClearedBefore, End
  <2> QED
    BY <2>4, <2>5 DEF LeftAt
<1>10. \A s \in ended' : \E stamp \in 1 .. clock' : LeftAt(s, stamp)'
  <2> TAKE s \in ended'
  <2>1. PICK stamp \in 1 .. clock : LeftAt(s, stamp)
    BY DEF SessionInv, NewsInv
  <2>2. stamp \in Nat
    BY <1>4
  <2> QED
    BY <1>9, <2>1, <2>2
<1> QED
  BY <1>5, <1>6, <1>7, <1>10 DEF NewsInv

LEMMA CloseSafe ==
  ASSUME SessionInv, NEW t \in Tabs, Close(t)
  PROVE  SessionInv'
<1>1. /\ tab' = [tab EXCEPT ![t] = ClosedTab] /\ queue' = Without({e \in DOMAIN queue : e[1] = t})
      /\ UNCHANGED <<server, age, cookie, marker, clock, left, history>>
      /\ tab[t].rf # "ok"
  BY DEF Close
<1>2. Orphaned(t)
  BY RequestsAreOrphaned DEF Close, SessionInv
<1>3. ClosedTab \in TabState
  BY DEF ClosedTab, TabState, Statuses, Reasons, MaybeToken, RefreshStages, Stages, PageStages, None
<1>4. SecretInv'
  <2> DEFINE X == {e \in DOMAIN queue : e[1] = t}
  <2>1. X \subseteq Of(t)
    BY DEF Of, SessionInv, TypeOK
  <2>2. queue' = Without(X)
    BY <1>1
  <2> HIDE DEF X
  <2>3. Keeps(X)
    BY <2>2, ShorterQueue DEF QueueOK, SessionInv, TypeOK, SecretInv
  <2>4. ~RefreshHolds(ClosedTab) /\ ~LoginHolds(ClosedTab) /\ ~LogoutHolds(ClosedTab)
    BY DEF ClosedTab, RefreshHolds, LoginHolds, LogoutHolds
  <2>5. GoesOn(t, ClosedTab, X)
    BY <1>1, <2>1, <2>3, <2>4 DEF GoesOn, RefreshGoesOn, LoginGoesOn, LogoutGoesOn
  <2>6. NoToken /\ UNCHANGED <<server, cookie, lost, ended>>
    BY <1>1 DEF history, NoToken, SessionInv, TypeOK, Bounded
  <2> QED
    BY <1>3, <2>5, <2>6, QuietStep DEF SessionInv
<1>5. NewsInv'
  BY <1>1, <1>2, <1>3, OrphanedNews DEF server, history
<1>6. TypeOK'
  <2>1. /\ DOMAIN queue' \subseteq LockRequest
        /\ queue' \in [DOMAIN queue' -> SUBSET LockRequest]
    BY <1>1 DEF SessionInv, TypeOK, Without
  <2>2. tab' \in [Tabs -> TabState] /\ chan' \in [Tabs -> Seq(Message)]
    BY <1>1, <1>2, <1>3 DEF SessionInv, TypeOK, Orphaned
  <2> QED
    BY <1>1, <2>1, <2>2 DEF SessionInv, TypeOK, server, history
<1> QED
  BY <1>4, <1>5, <1>6 DEF SessionInv

-----------------------------------------------------------------------------
(* A logout is confirmed.                                                  *)

\* Everyone who is not told of it knows nothing; whatever is known is older.
LEMMA LeftNow ==
  ASSUME SessionInv, NEW t \in Tabs, NEW R \in TabState, NEW stamp \in Nat, stamp = clock + 1,
         Forgets(R, stamp), tab' = [tab EXCEPT ![t] = R], NEW m \in Message,
         m.type = "cleared", m.at = stamp, chan' = Posted(chan, t, m),
         chan' \in [Tabs -> Seq(Message)], ClosedTabsAreOut', StampsInOrder', sess' = sess,
         clock' = stamp, NEW s
  PROVE  LeftAt(s, stamp)'
<1>1. tab'[t] = R /\ (\A u \in Tabs \ {t} : tab'[u] = tab[u]) /\ Knows(R) = {} /\ R.at = stamp
  BY DEF SessionInv, TypeOK, Forgets, Knows
<1>2. clock \in Nat
  BY DEF SessionInv, TypeOK
<1>3. ASSUME NEW u \in Tabs, tab'[u].status # "closed"
      PROVE  Informed(u, stamp)'
  <2>1. CASE u = t
    BY <1>1, <2>1 DEF Informed
  <2>2. CASE u # t
    <3>1. chan'[u] = Append(chan[u], m) /\ chan[u] \in Seq(Message)
      BY <1>1, <1>3, <2>2 DEF Posted, SessionInv, TypeOK
    <3>2. PICK i \in Nat : i = Len(chan[u]) + 1
      BY <3>1
    <3>3. i \in DOMAIN chan'[u] /\ chan'[u][i] = m /\ i < Len(chan'[u]) + 1
      BY <3>1, <3>2
    <3>4. ClearedBefore(u, End(u), stamp)'
      BY <3>3 DEF ClearedBefore, End
    <3> QED
      BY <3>4 DEF Informed
  <2> QED
    BY <2>1, <2>2
<1>4. ASSUME NEW u \in Tabs
      PROVE  \A p \in Knows(tab'[u]) : p[2] < stamp
  <2>1. CASE u = t
    BY <1>1, <2>1
  <2>2. CASE u # t
    <3> SUFFICES ASSUME NEW p \in Knows(tab[u])
                 PROVE  p[2] < stamp
      BY <1>1, <2>2
    <3>1. p[2] \in Nat /\ p[2] <= clock
      BY KnownPairs DEF SessionInv, TypeOK, NewsInv, StampsInOrder, Numbered
    <3> QED
      BY <1>2, <3>1
  <2> QED
    BY <2>1, <2>2
<1>5. ASSUME NEW u \in Tabs, NEW j \in DOMAIN chan'[u], chan'[u][j].type = "snapshot"
      PROVE  chan'[u][j].at < stamp
  <2>1. chan[u] \in Seq(Message) /\ (chan'[u] = chan[u] \/ chan'[u] = Append(chan[u], m))
    BY DEF Posted, SessionInv, TypeOK
  <2>2. chan'[u][j] # m
    BY <1>5
  <2>3. j \in DOMAIN chan[u] /\ chan'[u][j] = chan[u][j]
    <3>1. CASE chan'[u] = chan[u]
      BY <1>5, <3>1
    <3>2. CASE chan'[u] = Append(chan[u], m)
      <4>1. /\ DOMAIN chan'[u] = 1..(Len(chan[u]) + 1) /\ Len(chan[u]) \in Nat
            /\ DOMAIN chan[u] = 1..Len(chan[u])
            /\ chan'[u][Len(chan[u]) + 1] = m
            /\ \A i \in 1..Len(chan[u]) : chan'[u][i] = chan[u][i]
        BY <2>1, <3>2, AppendProperties, LenProperties
      <4> QED
        BY <1>5, <2>2, <4>1
    <3> QED
      BY <2>1, <3>1, <3>2
  <2>4. chan[u][j].at \in Nat /\ chan[u][j].at <= clock
    <3>1. chan[u][j] \in Message
      BY <2>1, <2>3
    <3> QED
      BY <1>5, <2>3, <3>1, MessageFields DEF SessionInv, NewsInv, StampsInOrder, Numbered
  <2> QED
    BY <1>2, <2>3, <2>4
<1>6. ASSUME NEW u \in Tabs
      PROVE  Informed(u, stamp)' \/ (Ignores(u, s) /\ ~ShownBefore(u, End(u), s))'
  <2>1. CASE tab'[u].status = "closed"
    <3>1. tab'[u] = ClosedTab /\ chan'[u] = <<>>
      BY <2>1 DEF ClosedTabsAreOut, ClosedTab
    <3>2. Knows(ClosedTab) = {} /\ DOMAIN chan'[u] = {}
      BY <3>1 DEF Knows, ClosedTab
    <3>3. Knows(tab'[u]) = {}
      BY <3>1, <3>2
    <3> QED
      BY <3>2, <3>3 DEF Ignores, ShownBefore, Knows, Quits
  <2>2. CASE tab'[u].status # "closed"
    BY <1>3, <2>2
  <2> QED
    BY <2>1, <2>2
<1>7. ASSUME NEW u \in Tabs, NEW j \in DOMAIN chan'[u], chan'[u][j].type = "request",
             NEW f, f = chan'[u][j].from, f # None
      PROVE  Informed(f, stamp)'
  <2>1. chan'[u][j] \in Message
    BY <1>7
  <2>2. f \in Tabs
    BY <1>7, <2>1, MessageFields
  <2>3. tab'[f].status # "closed"
    BY <1>7 DEF ClosedTabsAreOut
  <2> QED
    BY <1>3, <2>2, <2>3
<1>8. (\A u \in Tabs :
         /\ \A p \in Knows(tab[u]) : sess[p[1]] = s => p[2] < stamp
         /\ \A i \in DOMAIN chan[u] :
               chan[u][i].type = "snapshot" /\ sess[chan[u][i].tok] = s => chan[u][i].at < stamp
         /\ Informed(u, stamp) \/ (Ignores(u, s) /\ ~ShownBefore(u, End(u), s)))'
  <2>1. \A u \in Tabs : (\A p \in Knows(tab[u]) : sess[p[1]] = s => p[2] < stamp)'
    BY <1>4 DEF Knows, Quits
  <2> QED
    BY <1>5, <1>6, <2>1
<1>9. (\A u \in Tabs : \A i \in DOMAIN chan[u] :
         chan[u][i].type = "request" /\ chan[u][i].from # None => Informed(chan[u][i].from, stamp))'
  BY <1>7 DEF Informed, ClearedBefore, End
<1> QED
  BY <1>8, <1>9 DEF LeftAt

LEMMA LogoutDoneSafe ==
  ASSUME SessionInv, NEW t \in Tabs, LogoutDone(t)
  PROVE  SessionInv'
<1>1. tab[t].lo = "ok" /\ tab[t].status # "closed"
  BY DEF LogoutDone, SessionInv, NewsInv, ClosedTabsAreOut, ClosedTab
<1>2. tab[t] \in TabState /\ cookie \in MaybeToken /\ clock \in Nat /\ Grown(t, tab[t], 0, clock)
  BY <1>1, OpenTab
<1>3. PICK stamp \in Nat : stamp = clock + 1 /\ clock <= stamp
  BY <1>2
<1>4. Owns(t, "lo") /\ tab[t].loTok = cookie
  BY <1>1 DEF SessionInv, SecretInv, LockIsHeld, LogoutHolds, RequestsAreSound, LogoutSound
<1>5. /\ cookie' = None /\ marker' = stamp /\ clock' = stamp
      /\ ended' = (IF cookie = None THEN ended ELSE ended \cup {sess[cookie]})
      /\ queue' = Released(t, "lo")
      /\ tab' = [tab EXCEPT ![t] = [Cleared(tab[t], "logout", stamp) EXCEPT !.lo = "none", !.loTok = None]]
      /\ chan' = Posted(chan, t, ClearedMessage("logout", stamp))
      /\ UNCHANGED <<secret, sess, top, age, left, loginAt, lost>>
  BY <1>3, <1>4 DEF LogoutDone, server
<1>6. PICK C \in TabState : C = Cleared(tab[t], "logout", stamp) /\ ClearedOf(tab[t], C, stamp)
  BY <1>2, ClearedTab
<1>7. PICK R \in TabState : LogoutAt(C, R, "none", None)
  <2>1. "none" \in Stages /\ None \in MaybeToken
    BY DEF Stages, MaybeToken
  <2> QED
    BY <2>1, LogoutStage, Zenon
<1>8. tab' = [tab EXCEPT ![t] = R]
  BY <1>5, <1>6, <1>7 DEF LogoutAt
<1>9. Forgets(R, stamp) /\ R.lo = "none" /\ R.li = tab[t].li
  BY <1>6, <1>7 DEF LogoutAt, SameSession, ClearedOf, Forgets
<1>10. Grown(t, R, 0, stamp)
  BY <1>3, <1>9, ForgetsGrown
<1>11. PICK m \in Message : m = ClearedMessage("logout", stamp)
  BY DEF Message, ClearedMessage
<1>12. m.type = "cleared" /\ m.at = stamp
  BY <1>11 DEF ClearedMessage
<1>13. chan' \in [Tabs -> Seq(Message)] /\ ChannelStep(t, 0, Others(t, m))
  <2>1. chan' = Posted(Rest(t, 0), t, m)
    BY <1>5, <1>11 DEF Rest
  <2> QED
    BY <2>1, OneSent DEF SessionInv
<1>14. {<<t, "lo">>} \subseteq Of(t) /\ Keeps({<<t, "lo">>})
  BY <1>5, ReleasedQueue
<1>15. TypeOK'
  <2>1. cookie' \in MaybeToken /\ ended' \subseteq Tokens
    BY <1>2, <1>5 DEF MaybeToken, SessionInv, TypeOK
  <2>2. tab' \in [Tabs -> TabState]
    BY <1>8 DEF SessionInv, TypeOK
  <2> QED
    BY <1>5, <1>13, <1>14, <2>1, <2>2 DEF SessionInv, TypeOK, Keeps
<1>16. SecretInv'
  <2>1. OtherStagesStay(t, R, "lo")
    <3>1. tab[t].rf # "asking"
      BY <1>4, Alone DEF SessionInv, SecretInv, RefreshHolds
    <3>2. R.rf = C.rf /\ C.rf = tab[t].rf
      BY <1>6, <1>7, <3>1 DEF LogoutAt, ClearedOf
    <3> QED
      BY <1>9, <3>2 DEF OtherStagesStay
  <2>2. LockIsHeld' /\ RequestsAreSound'
    BY <1>4, <1>8, <1>9, <2>1, LockReleased DEF LogoutHolds
  <2>3. LockIsOrdered'
    BY <1>14 DEF Keeps
  <2>4. cookie # None => sess[cookie] \in 1 .. top
    <3>1. cookie <= top /\ top \in Nat
      BY DEF SessionInv, TypeOK, SecretInv, TokensInOrder
    <3>2. ASSUME cookie # None
          PROVE  sess[cookie] \in Tokens /\ sess[cookie] <= top
      BY <1>2, <3>1, <3>2 DEF SessionInv, TypeOK, SecretInv, TokensInOrder, MaybeToken
    <3> QED
      BY <3>1, <3>2 DEF Tokens
  <2>5. TokensInOrder'
    <3>1. ended' \subseteq 1 .. top /\ cookie' <= top
      BY <1>5, <2>4 DEF SessionInv, TypeOK, SecretInv, TokensInOrder, None
    <3> QED
      BY <1>5, <3>1 DEF SessionInv, SecretInv, TokensInOrder
  <2>6. CookieIsKnown'
    BY <1>5 DEF CookieIsKnown
  <2>7. LogoutRevokes'
    <3>1. cookie # None => secret[sess[cookie]] \in lost \cup {None}
      BY <1>1 DEF SessionInv, SecretInv, RequestsAreSound, LogoutSound
    <3> QED
      BY <1>5, <3>1 DEF SessionInv, SecretInv, LogoutRevokes
  <2> QED
    BY <2>2, <2>3, <2>5, <2>6, <2>7 DEF SecretInv
<1>17. NothingTakenBack
  BY <1>2, <1>3, <1>5 DEF NothingTakenBack, SessionInv, TypeOK
<1>18. NewsStep(t, R, 0, Others(t, m))
  <2>1. \A u \in Tabs, w \in Message : <<u, w>> \in Others(t, m) => w = m /\ u # t
    BY DEF Others
  <2>2. \A u \in Tabs, w \in Message : <<u, w>> \in Others(t, m) =>
           /\ w.type = "request" => w.from = t /\ u # t
           /\ w.type = "cleared" => w.at <= clock'
           /\ w.type = "snapshot" => /\ w.tok <= top /\ w.at <= clock'
                                     /\ MayReach(u, <<w.tok, w.at>>)
    BY <1>5, <1>12, <2>1
  <2>3. clock' = stamp
    BY <1>5
  <2>4. Grown(t, R, 0, clock')
    BY <1>10, <2>3
  <2>5. ChannelStep(t, 0, Others(t, m)) /\ 0 \in {0, 1} /\ (0 = 1 => chan[t] # <<>>)
    BY <1>13
  <2> QED
    BY <1>8, <2>2, <2>4, <2>5 DEF NewsStep, Grown
<1>19. NewsInv'
  <2>1. StampsInOrder' /\ ClosedTabsAreOut'
    BY <1>15, <1>17, <1>18, StampsStay, ClosedTabsStayOut DEF SessionInv, NewsInv
  <2>2. (\A u \in Tabs : Coherent(tab[u]))'
    <3>1. tab'[t] = R /\ \A u \in Tabs \ {t} : tab'[u] = tab[u]
      BY <1>8 DEF SessionInv, TypeOK
    <3>2. \A u \in Tabs : Coherent(tab'[u])
      BY <1>10, <3>1 DEF SessionInv, NewsInv, Grown
    <3> QED
      BY <3>2 DEF Coherent, Quits
  <2>3. ASSUME NEW s \in ended'
        PROVE  \E k \in 1 .. clock' : LeftAt(s, k)'
    <3>1. CASE s \in ended
      <4>1. PICK k \in 1 .. clock : LeftAt(s, k)
        BY <3>1 DEF SessionInv, NewsInv
      <4>2. k \in Nat /\ k \in 1 .. clock'
        BY <1>2, <1>3, <1>5
      <4>3. LeftAt(s, k)'
        BY <1>15, <1>17, <1>18, <3>1, <4>1, <4>2, LeftStaysLeft DEF SessionInv, NewsInv
      <4> QED
        BY <4>2, <4>3
    <3>2. CASE s \notin ended
      <4>1. stamp \in 1 .. clock'
        BY <1>2, <1>3, <1>5
      <4>2. chan' = Posted(chan, t, m)
        BY <1>5, <1>11
      <4>3. LeftAt(s, stamp)'
        BY <1>3, <1>5, <1>8, <1>9, <1>12, <1>13, <2>1, <4>2, LeftNow
      <4> QED
        BY <4>1, <4>3
    <3> QED
      BY <3>1, <3>2
  <2> QED
    BY <2>1, <2>2, <2>3 DEF NewsInv
<1> QED
  BY <1>15, <1>16, <1>19 DEF SessionInv

-----------------------------------------------------------------------------
(* The session of a browser, step by step.                                 *)

LEMMA InitSafe ==
  ASSUME Init
  PROVE  SessionInv
<1>1. MaxTokens \in Nat /\ 1 \in Tokens /\ MaxTokens >= 1
  BY BoundsAssumption DEF Tokens
<1>2. left \in [Bounded -> Nat] /\ left["tokens"] < MaxTokens
  BY BoundsAssumption DEF Init
<1>3. ClosedTab \in TabState
  BY DEF ClosedTab, TabState, Statuses, Reasons, MaybeToken, RefreshStages, Stages, PageStages, None
<1>4. TypeOK
  <2>1. secret \in [Tokens -> MaybeToken] /\ sess \in [Tokens -> Tokens] /\ cookie \in MaybeToken
    BY <1>1 DEF Init, MaybeToken
  <2>2. chan \in [Tabs -> Seq(Message)] /\ tab \in [Tabs -> TabState]
    BY <1>3 DEF Init
  <2>3. DOMAIN queue = {} /\ queue \in [{} -> SUBSET LockRequest]
    BY DEF Init
  <2>4. age \in [Tokens -> {"fresh", "short", "dead"}]
    BY DEF Init
  <2>5. top \in 0 .. MaxTokens
    BY <1>1 DEF Init
  <2>6. marker \in Nat /\ clock \in Nat /\ loginAt \in Nat /\ ended \subseteq Tokens /\ lost \subseteq Tokens
    BY DEF Init, None
  <2> QED
    BY <1>2, <2>1, <2>2, <2>3, <2>4, <2>5, <2>6 DEF TypeOK
<1>5. ASSUME NEW t \in Tabs
      PROVE  /\ tab[t] = ClosedTab /\ chan[t] = <<>>
             /\ tab[t].status = "closed" /\ tab[t].at = 0 /\ Knows(tab[t]) = {}
             /\ tab[t].rf = "none" /\ tab[t].li = "none" /\ tab[t].lo = "none"
  <2>1. /\ ClosedTab.status = "closed" /\ ClosedTab.at = 0
        /\ ClosedTab.rf = "none" /\ ClosedTab.li = "none" /\ ClosedTab.lo = "none"
    BY DEF ClosedTab, None
  <2>2. Knows(ClosedTab) = {}
    BY DEF ClosedTab, Knows
  <2>3. tab[t] = ClosedTab /\ chan[t] = <<>>
    BY DEF Init
  <2> QED
    BY <2>1, <2>2, <2>3
<1>6. SecretInv
  <2>1. LockIsOrdered
    BY DEF Init, LockIsOrdered
  <2>2. LockIsHeld /\ RequestsAreSound
    BY <1>5 DEF LockIsHeld, RequestsAreSound, RefreshHolds, LoginHolds, LogoutHolds, RefreshSound,
                LoginSound, LogoutSound
  <2>3. TokensInOrder
    <3>1. top = 1 /\ cookie = 1 /\ lost = {} /\ ended = {}
      BY DEF Init
    <3>2. top + left["tokens"] <= MaxTokens
      BY <1>1, <1>2, <3>1 DEF Bounded
    <3>3. ASSUME NEW k \in Tokens
          PROVE  /\ secret[k] <= 1 /\ sess[k] = k
                 /\ k > 1 => secret[k] = None
      BY <1>1 DEF Init, None
    <3>4. ASSUME NEW k \in Tokens
          PROVE  secret[k] <= top /\ (k <= top => sess[k] <= top)
                 /\ (k > top => sess[k] = k /\ secret[k] = None)
      BY <3>1, <3>3
    <3> QED
      BY <3>1, <3>2, <3>4 DEF TokensInOrder
  <2>4. CookieIsKnown
    BY <1>1 DEF Init, CookieIsKnown
  <2>5. LogoutRevokes
    BY DEF Init, LogoutRevokes
  <2> QED
    BY <2>1, <2>2, <2>3, <2>4, <2>5 DEF SecretInv
<1>7. NewsInv
  <2>1. StampsInOrder
    <3>1. marker <= clock /\ clock = 0
      BY DEF Init, None
    <3>2. \A t \in Tabs : DOMAIN chan[t] = {}
      BY <1>5
    <3> QED
      BY <1>5, <3>1, <3>2 DEF StampsInOrder
  <2>2. ClosedTabsAreOut
    BY <1>5 DEF ClosedTabsAreOut
  <2>3. \A t \in Tabs : Coherent(tab[t])
    BY <1>5 DEF Coherent
  <2>4. ended = {}
    BY DEF Init
  <2> QED
    BY <2>1, <2>2, <2>3, <2>4 DEF NewsInv
<1> QED
  BY <1>4, <1>6, <1>7 DEF SessionInv

LEMMA StutterSafe ==
  ASSUME SessionInv, UNCHANGED vars
  PROVE  SessionInv'
<1>1. UNCHANGED <<secret, sess, top, age, cookie, marker, queue, chan, tab, clock, left, history>>
  BY DEF vars, history
<1>2. \A j \in Tokens : secret'[j] \in {None, secret[j]}
  BY <1>1
<1> QED
  BY <1>1, <1>2, OutsideStep DEF SessionInv, TypeOK

\* Every action keeps the invariant.
LEMMA StepSafe ==
  ASSUME SessionInv, [Next]_vars
  PROVE  SessionInv'
<1>1. ASSUME NEW t \in Tabs, RefreshSteps(t)
      PROVE  SessionInv'
  <2>1. CASE Refresh(t)
    BY <2>1, RefreshSafe
  <2>2. CASE GrantRefreshPeer(t)
    BY <2>2, GrantRefreshPeerSafe
  <2>3. CASE GrantRefreshAsk(t)
    BY <2>3, GrantRefreshAskSafe
  <2>4. CASE NoPeer(t)
    BY <2>4, NoPeerSafe
  <2>5. CASE ServerRefresh(t)
    BY <2>5, ServerRefreshSafe
  <2>6. CASE RefreshOk(t)
    BY <2>6, RefreshOkSafe
  <2>7. CASE RefreshNo(t)
    BY <2>7, RefreshNoSafe
  <2>8. CASE RefreshFails(t)
    BY <2>8, RefreshFailsSafe
  <2>9. CASE CooldownEnds(t)
    BY <2>9, CooldownEndsSafe
  <2> QED
    BY <1>1, <2>1, <2>2, <2>3, <2>4, <2>5, <2>6, <2>7, <2>8, <2>9 DEF RefreshSteps
<1>2. ASSUME NEW t \in Tabs, LoginSteps(t)
      PROVE  SessionInv'
  <2>1. CASE StartLogin(t)
    BY <2>1, StartLoginSafe
  <2>2. CASE GrantLogin(t)
    BY <2>2, GrantLoginSafe
  <2>3. CASE ServerLogin(t)
    BY <2>3, ServerLoginSafe
  <2>4. CASE LoginDone(t)
    BY <2>4, LoginDoneSafe
  <2>5. CASE LoginFails(t)
    BY <2>5, LoginFailsSafe
  <2> QED
    BY <1>2, <2>1, <2>2, <2>3, <2>4, <2>5 DEF LoginSteps
<1>3. ASSUME NEW t \in Tabs, LogoutSteps(t)
      PROVE  SessionInv'
  <2>1. CASE Logout(t)
    BY <2>1, LogoutSafe
  <2>2. CASE GrantLogout(t)
    BY <2>2, GrantLogoutSafe
  <2>3. CASE ServerLogout(t)
    BY <2>3, ServerLogoutSafe
  <2>4. CASE LogoutDone(t)
    BY <2>4, LogoutDoneSafe
  <2>5. CASE LogoutFails(t)
    BY <2>5, LogoutFailsSafe
  <2>6. CASE CancelLogout(t)
    BY <2>6, CancelLogoutSafe
  <2> QED
    BY <1>3, <2>1, <2>2, <2>3, <2>4, <2>5, <2>6 DEF LogoutSteps
<1>4. ASSUME NEW t \in Tabs, RunSteps(t)
      PROVE  SessionInv'
  <2>1. CASE StartRun(t)
    BY <2>1, StartRunSafe
  <2>2. CASE RunDone(t) \/ AbortRun(t)
    BY <2>2, RunDoneSafe
  <2>3. CASE RunRefused(t)
    BY <2>3, RunRefusedSafe
  <2> QED
    BY <1>4, <2>1, <2>2, <2>3 DEF RunSteps
<1>5. ASSUME NEW t \in Tabs, Receive(t)
      PROVE  SessionInv'
  <2>1. CASE ReceiveRequest(t)
    BY <2>1, ReceiveRequestSafe
  <2>2. CASE ReceiveSnapshot(t)
    BY <2>2, ReceiveSnapshotSafe
  <2>3. CASE ReceiveCleared(t)
    BY <2>3, ReceiveClearedSafe
  <2> QED
    BY <1>5, <2>1, <2>2, <2>3 DEF Receive
<1>6. ASSUME NEW t \in Tabs, Open(t) \/ Close(t)
      PROVE  SessionInv'
  BY <1>6, OpenSafe, CloseSafe
<1>7. ASSUME NEW k \in Tokens, TokenAges(k) \/ Revoke(k)
      PROVE  SessionInv'
  BY <1>7, TokenAgesSafe, RevokeSafe
<1>8. CASE Next
  BY <1>1, <1>2, <1>3, <1>4, <1>5, <1>6, <1>7, <1>8, MarkerExpiresSafe, Zenon DEF Next
<1>9. CASE UNCHANGED vars
  BY <1>9, StutterSafe
<1> QED
  BY <1>8, <1>9

\* The invariant of the session in the browser: the lock has one owner and whatever is under way
\* is under it, the cookie is the newest secret that reached the browser, and the news of every
\* logout is or will be with every tab that still knows of the session (TypeOK included).
THEOREM SessionInvariant == Spec => []SessionInv
<1>1. Init => SessionInv
  BY InitSafe
<1>2. SessionInv /\ [Next]_vars => SessionInv'
  BY StepSafe
<1> QED
  BY <1>1, <1>2, PTL DEF Spec

\* The refresh secret that a tab presents has not been replaced by an answer that reached this
\* browser: refreshes of all tabs go one after the other through the lock of
\* auth-coordination.ts, and each commits its cookie before it gives up the lock.
THEOREM SecretsAreLive == Spec => []PresentsLiveSecret
<1>1. SessionInv => PresentsLiveSecret
  <2> SUFFICES ASSUME SessionInv, NEW t \in Tabs, tab[t].rf = "sent", tab[t].rfTok # None
               PROVE  secret[sess[tab[t].rfTok]] \in {tab[t].rfTok, None} \cup lost
    BY DEF PresentsLiveSecret
  <2>1. tab[t].rfTok = cookie /\ Owns(t, "rf")
    BY DEF SessionInv, SecretInv, RequestsAreSound, RefreshSound, LockIsHeld, RefreshHolds
  <2>2. \A u \in Tabs : RefreshHolds(tab[u]) => u = t
    BY <2>1, Alone, Zenon DEF SessionInv, SecretInv
  <2>3. \A u \in Tabs : tab[u].rf # "ok"
    BY <2>2 DEF RefreshHolds
  <2> QED
    BY <2>1, <2>3 DEF SessionInv, SecretInv, CookieIsKnown
<1> QED
  BY <1>1, SessionInvariant, PTL

\* A session that a tab reports as logged out has ended on the server, unless the answer with
\* its newest refresh secret never reached the browser.
THEOREM LogoutsRevoke == Spec => []LogoutRevokes
<1>1. SessionInv => LogoutRevokes
  BY DEF SessionInv, SecretInv
<1> QED
  BY <1>1, SessionInvariant, PTL

\* No message, answer or reload brings a session back that the user has left: a tab that still
\* shows it has the news of the logout before it, and nothing it knows is newer.
THEOREM LoggedOutStays == Spec => []LoggedOutStaysOut
<1>1. SessionInv => LoggedOutStaysOut
  <2> SUFFICES ASSUME SessionInv, NEW t \in Tabs, tab[t].status = "authenticated",
                      sess[tab[t].tok] \in ended
               PROVE  \E i \in DOMAIN chan[t] : /\ chan[t][i].type = "cleared"
                                                /\ chan[t][i].at >= tab[t].at
    BY DEF LoggedOutStaysOut, Authenticated
  <2>1. tab[t].tok # None /\ tab[t].at \in Nat
    BY DEF SessionInv, NewsInv, Coherent, TypeOK, TabState
  <2> DEFINE p == <<tab[t].tok, tab[t].at>>
             s == sess[tab[t].tok]
  <2>2. p \in Knows(tab[t]) /\ sess[p[1]] = s /\ p[2] = tab[t].at
    BY <2>1 DEF Knows
  <2>3. PICK stamp \in 1 .. clock : LeftAt(s, stamp)
    BY DEF SessionInv, NewsInv
  <2>4. tab[t].at < stamp /\ ~Ignores(t, s)
    BY <2>2, <2>3 DEF LeftAt, Ignores
  <2>5. stamp \in Nat
    BY DEF SessionInv, TypeOK
  <2>6. ClearedBefore(t, End(t), stamp)
    BY <2>1, <2>3, <2>4, <2>5 DEF LeftAt, Informed
  <2>7. PICK i \in DOMAIN chan[t] : chan[t][i].type = "cleared" /\ chan[t][i].at >= stamp
    BY <2>6 DEF ClearedBefore
  <2>8. chan[t][i].at \in Nat
    <3>1. chan[t][i] \in Message
      BY DEF SessionInv, TypeOK
    <3> QED
      BY <2>7, <3>1, MessageFields
  <2> QED
    BY <2>1, <2>4, <2>5, <2>7, <2>8
<1> QED
  BY <1>1, SessionInvariant, PTL

-----------------------------------------------------------------------------
(* The end of a session that nobody left.  As long as nobody has logged in *)
(* anew the browser knows one session, that of the cookie it began with:   *)
(* a logout has ended that one.  A refresh is refused only when its cookie *)
(* is not accepted, and a tab that is leaving does not show the workspace. *)

\* A token of the session the browser began with.
OfFirst(k) == k # None => k \in 1 .. top /\ sess[k] = 1
FirstTokens(T) == OfFirst(T.tok) /\ OfFirst(T.peer) /\ OfFirst(T.back)

\* What may be said as long as nobody has logged in anew.
FirstMessage(m) ==
    /\ m.type = "snapshot" => OfFirst(m.tok)
    /\ m.type = "cleared" /\ m.reason = "logout" => 1 \in ended

OnlySession ==
    loginAt = None =>
        /\ OfFirst(cookie)
        /\ cookie = None \/ marker # None => 1 \in ended
        /\ \A t \in Tabs : FirstTokens(tab[t]) /\ (tab[t].rf = "ok" => OfFirst(tab[t].rfTok))
        /\ \A t \in Tabs : \A i \in DOMAIN chan[t] : FirstMessage(chan[t][i])

LeavingIsShown == \A t \in Tabs : tab[t].intent => tab[t].status = "logging-out"

RefusedByServer ==
    \A t \in Tabs : tab[t].rf = "refused" /\ cookie # None => secret[sess[cookie]] # cookie

FirstInv == OnlySession /\ LeavingIsShown /\ RefusedByServer

\* A tab as the invariant knows it, whatever goes on in it.
Sound(T) == (loginAt = None => FirstTokens(T)) /\ (T.intent => T.status = "logging-out")

LEMMA SoundTab ==
  ASSUME SessionInv, FirstInv, NEW t \in Tabs
  PROVE  tab[t] \in TabState /\ Sound(tab[t]) /\ clock \in Nat /\ cookie \in MaybeToken
<1>1. tab[t] \in TabState /\ clock \in Nat /\ cookie \in MaybeToken
  BY DEF SessionInv, TypeOK
<1> QED
  BY <1>1 DEF FirstInv, OnlySession, LeavingIsShown, Sound

LEMMA SoundSame ==
  ASSUME NEW T, NEW R, Sound(T), SameSession(T, R)
  PROVE  Sound(R)
BY DEF Sound, SameSession, FirstTokens

LEMMA SoundForgets ==
  ASSUME NEW R, NEW stamp, Forgets(R, stamp)
  PROVE  Sound(R)
BY DEF Sound, Forgets, FirstTokens, OfFirst

LEMMA SoundPeer ==
  ASSUME NEW T \in TabState, NEW k \in MaybeToken, NEW stamp \in Nat, Sound(T),
         loginAt = None => OfFirst(k)
  PROVE  Sound(WithPeer(T, k, stamp))
<1> DEFINE W == WithPeer(T, k, stamp)
<1>1. \/ W = T
      \/ /\ Receptive(T) /\ W.tok = k /\ W.peer = k /\ W.intent = T.intent /\ W.back = T.back
  BY WithPeerTab
<1> HIDE DEF W
<1>2. ASSUME Receptive(T), W.tok = k, W.peer = k, W.intent = T.intent, W.back = T.back
      PROVE  Sound(W)
  <2>1. ~T.intent /\ T.intent \in BOOLEAN
    BY <1>2, Zenon DEF Receptive, Leaving, TabState
  <2>2. ~W.intent
    BY <1>2, <2>1, Zenon
  <2>3. loginAt = None => FirstTokens(W)
    BY <1>2 DEF Sound, FirstTokens
  <2> QED
    BY <2>2, <2>3 DEF Sound
<1> QED
  BY <1>1, <1>2 DEF W

LEMMA SoundRefreshing ==
  ASSUME NEW T \in TabState, Sound(T)
  PROVE  /\ Refreshing(T) \in TabState /\ Sound(Refreshing(T))
         /\ Refreshing(T).rf \in {T.rf, "queued"}
         /\ Refreshing(T).rf = T.rf => Refreshing(T).rfTok = T.rfTok
<1>1. /\ Refreshing(T) \in TabState /\ SameSession(T, Refreshing(T))
      /\ T.rf = "none" => Refreshing(T).rf = "queued"
      /\ T.rf # "none" => Refreshing(T) = T
  BY RefreshingTab
<1> QED
  BY <1>1, SoundSame

LEMMA SoundCleared ==
  ASSUME SessionInv, NEW T \in TabState, NEW why \in {"ended", "logout"}, NEW stamp \in Nat
  PROVE  /\ Cleared(T, why, stamp) \in TabState /\ Sound(Cleared(T, why, stamp))
         /\ Cleared(T, why, stamp).rf \in {T.rf, "sent"}
         /\ Cleared(T, why, stamp).rf = T.rf => Cleared(T, why, stamp).rfTok = T.rfTok
<1> DEFINE C == Cleared(T, why, stamp)
<1>1. C \in TabState /\ ClearedOf(T, C, stamp)
  BY ClearedTab, Zenon DEF SessionInv, TypeOK
<1> HIDE DEF C
<1>2. C \in TabState /\ Sound(C) /\ C.rf \in {T.rf, "sent"} /\ (C.rf = T.rf => C.rfTok = T.rfTok)
  BY <1>1, SoundForgets DEF ClearedOf
<1> QED
  BY <1>2 DEF C

\* The messages are such as may be said.
Told ==
    loginAt = None => \A u \in Tabs : \A j \in DOMAIN chan'[u] : FirstMessage(chan'[u][j])

LEMMA ToldStep ==
  ASSUME FirstInv, NEW t, NEW n, NEW sent, ChannelStep(t, n, sent),
         \A u \in Tabs : \A m : <<u, m>> \in sent => (loginAt = None => FirstMessage(m))
  PROVE  Told
<1> SUFFICES ASSUME loginAt = None, NEW u \in Tabs, NEW j \in DOMAIN chan'[u]
             PROVE  FirstMessage(chan'[u][j])
  BY DEF Told
<1> DEFINE d == Dropped(t, u, n)
<1>1. \/ j + d \in DOMAIN chan[u] /\ chan'[u][j] = chan[u][j + d]
      \/ <<u, chan'[u][j]>> \in sent
  BY DEF ChannelStep
<1> QED
  BY <1>1 DEF FirstInv, OnlySession

LEMMA ToldNothing ==
  ASSUME SessionInv, FirstInv, NEW t \in Tabs, NEW n \in {0, 1}, n = 1 => chan[t] # <<>>,
         chan' = Rest(t, n)
  PROVE  Told
<1>1. ChannelStep(t, n, {})
  BY NothingSent DEF SessionInv
<1> QED
  BY <1>1, ToldStep

LEMMA ToldSame ==
  ASSUME SessionInv, FirstInv, NEW t \in Tabs, chan' = chan
  PROVE  Told
<1>1. 0 \in {0, 1} /\ (0 = 1 => chan[t] # <<>>) /\ chan' = Rest(t, 0)
  BY DEF Rest
<1> QED
  BY <1>1, ToldNothing, Zenon

LEMMA ToldOthers ==
  ASSUME SessionInv, FirstInv, NEW t \in Tabs, NEW n \in {0, 1}, n = 1 => chan[t] # <<>>,
         NEW m \in Message, loginAt = None => FirstMessage(m), chan' = Posted(Rest(t, n), t, m)
  PROVE  Told
<1>1. ChannelStep(t, n, Others(t, m))
  BY OneSent DEF SessionInv
<1>2. \A u \in Tabs : \A w : <<u, w>> \in Others(t, m) => w = m
  BY DEF Others
<1> QED
  BY <1>1, <1>2, ToldStep

LEMMA PlainMessages ==
  /\ \A u \in Tabs \cup {None} : Request(u) \in Message /\ FirstMessage(Request(u))
  /\ \A stamp \in Nat : /\ ClearedMessage("ended", stamp) \in Message
                        /\ FirstMessage(ClearedMessage("ended", stamp))
<1>1. ASSUME NEW u \in Tabs \cup {None}
      PROVE  Request(u) \in Message /\ FirstMessage(Request(u))
  <2>1. Request(u) \in Message
    BY DEF Request, Message
  <2>2. Request(u).type = "request"
    BY DEF Request
  <2> QED
    BY <2>1, <2>2 DEF FirstMessage
<1>2. ASSUME NEW stamp \in Nat
      PROVE  ClearedMessage("ended", stamp) \in Message /\ FirstMessage(ClearedMessage("ended", stamp))
  <2>1. ClearedMessage("ended", stamp) \in Message
    BY DEF ClearedMessage, Message
  <2>2. ClearedMessage("ended", stamp).type = "cleared" /\ ClearedMessage("ended", stamp).reason = "ended"
    BY DEF ClearedMessage
  <2> QED
    BY <2>1, <2>2 DEF FirstMessage
<1> QED
  BY <1>1, <1>2

\* The end of a refresh.
LEMMA RefreshEndsFirst ==
  ASSUME SessionInv, FirstInv, NEW t \in Tabs, NEW T \in TabState, Sound(T),
         NEW n \in {0, 1}, n = 1 => chan[t] # <<>>, NEW ok \in BOOLEAN,
         RefreshEnds(t, T, ok, Rest(t, n))
  PROVE  \E R \in TabState : tab' = [tab EXCEPT ![t] = R] /\ Sound(R) /\ R.rf = "none" /\ Told
<1>1. clock \in Nat /\ cookie \in MaybeToken
  BY DEF SessionInv, TypeOK
<1>2. PICK R \in TabState :
            /\ tab' = [tab EXCEPT ![t] = R]
            /\ R.rf = "none"
            /\ \/ SameSession(T, R) /\ chan' = Rest(t, n)
               \/ /\ Forgets(R, clock + 1)
                  /\ chan' = Posted(Rest(t, n), t, ClearedMessage("ended", clock + 1))
  BY <1>1, RefreshEndsTab
<1>3. CASE SameSession(T, R) /\ chan' = Rest(t, n)
  BY <1>2, <1>3, SoundSame, ToldNothing
<1>4. CASE Forgets(R, clock + 1) /\ chan' = Posted(Rest(t, n), t, ClearedMessage("ended", clock + 1))
  <2>1. PICK m \in Message : m = ClearedMessage("ended", clock + 1) /\ FirstMessage(m)
    BY <1>1, PlainMessages
  <2> QED
    BY <1>2, <1>4, <2>1, SoundForgets, ToldOthers
<1> QED
  BY <1>2, <1>3, <1>4

\* The workspace ends the session.
LEMMA EndHereFirst ==
  ASSUME SessionInv, FirstInv, NEW t \in Tabs, NEW T \in TabState, EndHere(t, T)
  PROVE  \E R \in TabState : /\ tab' = [tab EXCEPT ![t] = R] /\ Sound(R) /\ Told
                             /\ R.rf \in {T.rf, "sent"} /\ (R.rf = T.rf => R.rfTok = T.rfTok)
<1>1. PICK stamp \in Nat : stamp = clock + 1
  BY DEF SessionInv, TypeOK
<1> DEFINE R == Cleared(T, "ended", stamp)
<1>2. /\ R \in TabState /\ Sound(R)
      /\ R.rf \in {T.rf, "sent"} /\ (R.rf = T.rf => R.rfTok = T.rfTok)
  BY SoundCleared
<1>3. tab' = [tab EXCEPT ![t] = R] /\ chan' = Posted(chan, t, ClearedMessage("ended", stamp))
  BY <1>1 DEF EndHere
<1> HIDE DEF R
<1>4. PICK m \in Message : m = ClearedMessage("ended", stamp) /\ FirstMessage(m)
  BY PlainMessages
<1>5. 0 \in {0, 1} /\ (0 = 1 => chan[t] # <<>>) /\ chan' = Posted(Rest(t, 0), t, m)
  BY <1>3, <1>4 DEF Rest
<1>6. Told
  BY <1>4, <1>5, ToldOthers, Zenon
<1> QED
  BY <1>2, <1>3, <1>6

\* A refusal stands as long as the cookie does; no session revives.
LEMMA RefusalStays ==
  ASSUME SessionInv, FirstInv, NEW t \in Tabs, NEW R, tab' = [tab EXCEPT ![t] = R],
         R.rf = "refused" => tab[t].rf = "refused", UNCHANGED <<cookie, sess>>,
         \A s \in Tokens : secret'[s] \in {secret[s], None}
  PROVE  RefusedByServer'
<1> SUFFICES ASSUME NEW u \in Tabs, tab'[u].rf = "refused", cookie # None
             PROVE  secret'[sess[cookie]] # cookie
  BY DEF RefusedByServer
<1>1. tab[u].rf = "refused"
  <2>1. tab'[u] = IF u = t THEN R ELSE tab[u]
    BY DEF SessionInv, TypeOK
  <2> QED
    BY <2>1
<1>2. secret[sess[cookie]] # cookie
  BY <1>1 DEF FirstInv, RefusedByServer
<1>3. sess[cookie] \in Tokens
  BY DEF SessionInv, TypeOK, MaybeToken
<1> QED
  BY <1>2, <1>3

\* While one has the lock, no other was refused.
LEMMA RefusedAlone ==
  ASSUME SessionInv, NEW t \in Tabs, NEW op, Owns(t, op), NEW R, tab' = [tab EXCEPT ![t] = R],
         R.rf # "refused"
  PROVE  RefusedByServer'
<1> SUFFICES ASSUME NEW u \in Tabs, tab'[u].rf = "refused" PROVE FALSE
  BY DEF RefusedByServer
<1>1. tab'[u] = IF u = t THEN R ELSE tab[u]
  BY DEF SessionInv, TypeOK
<1>2. u # t /\ RefreshHolds(tab[u])
  BY <1>1 DEF RefreshHolds
<1> QED
  BY <1>2, Alone, Zenon DEF SessionInv, SecretInv

\* A step of tab t after which it is R.
LEMMA OnlySessionStays ==
  ASSUME SessionInv, FirstInv, NEW t \in Tabs, NEW R, tab' = [tab EXCEPT ![t] = R],
         loginAt' = loginAt, Sound(R), Told,
         loginAt = None /\ R.rf = "ok" => OfFirst(R.rfTok)',
         \A k : OfFirst(k) => OfFirst(k)',
         loginAt = None => OfFirst(cookie)',
         loginAt = None /\ (cookie' = None \/ marker' # None) => 1 \in ended',
         ended \subseteq ended'
  PROVE  OnlySession' /\ LeavingIsShown'
<1>1. \A u \in Tabs : tab'[u] = IF u = t THEN R ELSE tab[u]
  BY DEF SessionInv, TypeOK
<1>2. LeavingIsShown'
  BY <1>1 DEF LeavingIsShown, FirstInv, Sound
<1>3. OnlySession'
  <2> SUFFICES ASSUME loginAt = None
               PROVE  /\ OfFirst(cookie)'
                      /\ cookie' = None \/ marker' # None => 1 \in ended'
                      /\ \A u \in Tabs : /\ FirstTokens(tab[u])'
                                         /\ tab'[u].rf = "ok" => OfFirst(tab[u].rfTok)'
                      /\ \A u \in Tabs : \A j \in DOMAIN chan'[u] : FirstMessage(chan[u][j])'
    BY DEF OnlySession
  <2>1. ASSUME NEW T, FirstTokens(T) PROVE OfFirst(T.tok)' /\ OfFirst(T.peer)' /\ OfFirst(T.back)'
    BY <2>1 DEF FirstTokens
  <2>2. ASSUME NEW u \in Tabs
        PROVE  FirstTokens(tab[u])' /\ (tab'[u].rf = "ok" => OfFirst(tab[u].rfTok)')
    <3>1. CASE u = t
      <4>1. tab'[u] = R /\ FirstTokens(R)
        BY <1>1, <3>1 DEF Sound
      <4>2. OfFirst(R.tok)' /\ OfFirst(R.peer)' /\ OfFirst(R.back)'
        BY <2>1, <4>1
      <4> QED
        BY <4>1, <4>2 DEF FirstTokens, OfFirst
    <3>2. CASE u # t
      <4> DEFINE T == tab[u]
      <4>1. tab'[u] = T /\ FirstTokens(T) /\ (T.rf = "ok" => OfFirst(T.rfTok))
        BY <1>1, <3>2 DEF FirstInv, OnlySession
      <4> HIDE DEF T
      <4>2. /\ OfFirst(T.tok) => OfFirst(tab[u].tok)'
            /\ OfFirst(T.peer) => OfFirst(tab[u].peer)'
            /\ OfFirst(T.back) => OfFirst(tab[u].back)'
            /\ OfFirst(T.rfTok) => OfFirst(tab[u].rfTok)'
        BY <4>1 DEF OfFirst
      <4> QED
        BY <4>1, <4>2 DEF FirstTokens
    <3> QED
      BY <3>1, <3>2
  <2>3. ASSUME NEW u \in Tabs, NEW j \in DOMAIN chan'[u]
        PROVE  FirstMessage(chan[u][j])'
    <3> DEFINE m == chan'[u][j]
    <3>1. FirstMessage(m)
      BY DEF Told
    <3> HIDE DEF m
    <3>2. OfFirst(m.tok) => (m.tok # None => m.tok \in 1 .. top' /\ sess'[m.tok] = 1)
      BY DEF OfFirst
    <3>3. /\ m.type = "snapshot" => (m.tok # None => m.tok \in 1 .. top' /\ sess'[m.tok] = 1)
          /\ m.type = "cleared" /\ m.reason = "logout" => 1 \in ended'
      BY <3>1, <3>2 DEF FirstMessage
    <3> QED
      BY <3>3 DEF FirstMessage, OfFirst, m
  <2> QED
    BY <2>2, <2>3
<1> QED
  BY <1>2, <1>3

\* A step of one tab that leaves the server, the cookie and the history alone.
LEMMA QuietFirst ==
  ASSUME SessionInv, FirstInv, NEW t \in Tabs, NEW R, tab' = [tab EXCEPT ![t] = R],
         Sound(R), Told, UNCHANGED <<secret, sess, top, cookie, ended, loginAt>>,
         R.rf \in {"ok", "refused"} => R.rf = tab[t].rf /\ R.rfTok = tab[t].rfTok,
         loginAt = None /\ marker' # None => 1 \in ended
  PROVE  FirstInv'
<1>1. loginAt = None => /\ OfFirst(cookie) /\ (cookie = None => 1 \in ended)
                        /\ tab[t].rf = "ok" => OfFirst(tab[t].rfTok)
  BY DEF FirstInv, OnlySession
<1>2. \A k : OfFirst(k) => OfFirst(k)'
  BY DEF OfFirst
<1>3. loginAt = None => OfFirst(cookie)'
  BY <1>1 DEF OfFirst
<1>4. loginAt = None /\ R.rf = "ok" => OfFirst(R.rfTok)'
  <2>1. loginAt = None /\ R.rf = "ok" => OfFirst(R.rfTok)
    BY <1>1
  <2> QED
    BY <1>2, <2>1
<1>5. OnlySession' /\ LeavingIsShown'
  BY <1>1, <1>2, <1>3, <1>4, OnlySessionStays
<1>6. RefusedByServer'
  BY RefusalStays DEF FirstInv
<1> QED
  BY <1>5, <1>6 DEF FirstInv

\* One that says nothing either.
LEMMA SilentFirst ==
  ASSUME SessionInv, FirstInv, NEW t \in Tabs, NEW R, tab' = [tab EXCEPT ![t] = R],
         Sound(R), R.rf \in {"ok", "refused"} => R.rf = tab[t].rf /\ R.rfTok = tab[t].rfTok,
         UNCHANGED <<secret, sess, top, cookie, marker, chan, ended, loginAt>>
  PROVE  FirstInv'
<1>1. Told
  BY ToldSame
<1>2. loginAt = None /\ marker' # None => 1 \in ended
  BY DEF FirstInv, OnlySession
<1> QED
  BY <1>1, <1>2, QuietFirst

-----------------------------------------------------------------------------
(* Its actions.                                                            *)

LEMMA StagesOfTab ==
  /\ {"none", "queued", "startup", "asking", "sent", "ok", "refused"} \subseteq RefreshStages
  /\ {"none", "queued", "sent", "ok"} \subseteq Stages
  /\ {"none", "wait", "sent", "again", "resent"} \subseteq PageStages
  /\ None \in MaybeToken /\ Tokens \subseteq MaybeToken
BY DEF RefreshStages, Stages, PageStages, MaybeToken

LEMMA ClosedTabSound == ClosedTab \in TabState /\ Sound(ClosedTab) /\ ClosedTab.rf = "none"
<1>1. ClosedTab \in TabState
  BY DEF ClosedTab, TabState, Statuses, Reasons, MaybeToken, RefreshStages, Stages, PageStages, None
<1>2. /\ ClosedTab.tok = None /\ ClosedTab.peer = None /\ ClosedTab.back = None
      /\ ClosedTab.intent = FALSE /\ ClosedTab.rf = "none"
  BY DEF ClosedTab
<1> QED
  BY <1>1, <1>2 DEF Sound, FirstTokens, OfFirst

LEMMA OpenFirst ==
  ASSUME SessionInv, FirstInv, NEW t \in Tabs, Open(t)
  PROVE  FirstInv'
<1>1. UNCHANGED <<secret, sess, top, cookie, marker, ended, loginAt>>
  BY DEF Open, server, history
<1>2. ClosedTab \in TabState /\ Sound(ClosedTab) /\ ClosedTab.rf = "none" /\ marker \in Nat
  BY ClosedTabSound DEF SessionInv, TypeOK
<1>3. loginAt = None /\ marker' # None => 1 \in ended
  BY <1>1 DEF FirstInv, OnlySession
<1>4. CASE marker # None
  <2> DEFINE R == Cleared(ClosedTab, "logout", marker)
  <2>1. Sound(R) /\ R.rf \in {"none", "sent"}
    BY <1>2, SoundCleared
  <2>2. tab' = [tab EXCEPT ![t] = R] /\ chan' = chan
    BY <1>4 DEF Open
  <2> HIDE DEF R
  <2>3. Told
    BY <2>2, ToldSame
  <2> QED
    BY <1>1, <1>3, <2>1, <2>2, <2>3, QuietFirst
<1>5. CASE marker = None
  <2> DEFINE R == [ClosedTab EXCEPT !.status = "restoring", !.rf = "startup"]
  <2>1. Sound(R) /\ R.rf = "startup"
    <3>1. R.tok = None /\ R.peer = None /\ R.back = None /\ R.intent = FALSE /\ R.rf = "startup"
      BY DEF ClosedTab
    <3> QED
      BY <3>1 DEF Sound, FirstTokens, OfFirst
  <2>2. tab' = [tab EXCEPT ![t] = R] /\ chan' = Posted(chan, t, Request(t))
    BY <1>5 DEF Open
  <2> HIDE DEF R
  <2>3. PICK m \in Message : m = Request(t) /\ FirstMessage(m)
    BY PlainMessages
  <2>4. 0 \in {0, 1} /\ (0 = 1 => chan[t] # <<>>) /\ chan' = Posted(Rest(t, 0), t, m)
    BY <2>2, <2>3 DEF Rest
  <2>5. Told
    BY <2>3, <2>4, ToldOthers, Zenon
  <2> QED
    BY <1>1, <1>3, <2>1, <2>2, <2>5, QuietFirst
<1> QED
  BY <1>4, <1>5

LEMMA CloseFirst ==
  ASSUME SessionInv, FirstInv, NEW t \in Tabs, Close(t)
  PROVE  FirstInv'
<1>1. /\ UNCHANGED <<secret, sess, top, cookie, marker, ended, loginAt>>
      /\ tab' = [tab EXCEPT ![t] = ClosedTab]
  BY DEF Close, server, history
<1>2. Orphaned(t)
  BY RequestsAreOrphaned DEF Close, SessionInv
<1>3. Told
  <2> SUFFICES ASSUME loginAt = None, NEW u \in Tabs, NEW j \in DOMAIN chan'[u]
               PROVE  FirstMessage(chan'[u][j])
    BY DEF Told
  <2>1. u # t
    BY <1>2 DEF Orphaned
  <2>2. /\ j \in DOMAIN chan[u] /\ chan'[u][j].type = chan[u][j].type
        /\ chan[u][j].type # "request" => chan'[u][j] = chan[u][j]
    BY <1>2, <2>1 DEF Orphaned
  <2>3. FirstMessage(chan[u][j])
    BY <2>2 DEF FirstInv, OnlySession
  <2> QED
    BY <2>2, <2>3 DEF FirstMessage
<1>4. loginAt = None /\ marker' # None => 1 \in ended
  BY <1>1 DEF FirstInv, OnlySession
<1> QED
  BY <1>1, <1>3, <1>4, ClosedTabSound, QuietFirst

LEMMA RefreshFirst ==
  ASSUME SessionInv, FirstInv, NEW t \in Tabs, Refresh(t)
  PROVE  FirstInv'
<1>1. /\ UNCHANGED <<secret, sess, top, cookie, marker, chan, ended, loginAt>>
      /\ tab' = [tab EXCEPT ![t] = Refreshing(tab[t])]
  BY DEF Refresh, server, history
<1>2. tab[t] \in TabState /\ Sound(tab[t])
  BY SoundTab
<1> DEFINE R == Refreshing(tab[t])
<1>3. Sound(R) /\ R.rf \in {tab[t].rf, "queued"} /\ (R.rf = tab[t].rf => R.rfTok = tab[t].rfTok)
  BY <1>2, SoundRefreshing
<1> HIDE DEF R
<1>4. tab' = [tab EXCEPT ![t] = R]
  BY <1>1 DEF R
<1> QED
  BY <1>1, <1>3, <1>4, SilentFirst

\* A refresh that ends with what a peer has published.
LEMMA PeerEndsFirst ==
  ASSUME SessionInv, FirstInv, NEW t \in Tabs,
         RefreshEnds(t, WithPeer(tab[t], tab[t].peer, tab[t].peerAt),
                     Takes(tab[t], tab[t].peerAt), chan)
  PROVE  \E R \in TabState : tab' = [tab EXCEPT ![t] = R] /\ Sound(R) /\ R.rf = "none" /\ Told
<1> DEFINE T == WithPeer(tab[t], tab[t].peer, tab[t].peerAt)
<1>1. /\ tab[t] \in TabState /\ Sound(tab[t])
      /\ tab[t].peer \in MaybeToken /\ tab[t].peerAt \in Nat
  BY SoundTab DEF TabState
<1>2. loginAt = None => OfFirst(tab[t].peer)
  BY <1>1 DEF Sound, FirstTokens
<1>3. T \in TabState /\ Sound(T)
  <2>1. T \in TabState
    BY <1>1, WithPeerTab
  <2> QED
    BY <1>1, <1>2, <2>1, SoundPeer
<1>4. Takes(tab[t], tab[t].peerAt) \in BOOLEAN
  BY DEF Takes, Receptive
<1>5. /\ RefreshEnds(t, T, Takes(tab[t], tab[t].peerAt), Rest(t, 0))
      /\ 0 \in {0, 1} /\ (0 = 1 => chan[t] # <<>>)
  BY DEF Rest
<1> HIDE DEF T
<1> QED
  BY <1>3, <1>4, <1>5, RefreshEndsFirst, Zenon

LEMMA GrantRefreshPeerFirst ==
  ASSUME SessionInv, FirstInv, NEW t \in Tabs, GrantRefreshPeer(t)
  PROVE  FirstInv'
<1>1. /\ UNCHANGED <<secret, sess, top, cookie, marker, ended, loginAt>>
      /\ RefreshEnds(t, WithPeer(tab[t], tab[t].peer, tab[t].peerAt),
                     Takes(tab[t], tab[t].peerAt), chan)
  BY DEF GrantRefreshPeer, server, history
<1>2. PICK R \in TabState : tab' = [tab EXCEPT ![t] = R] /\ Sound(R) /\ R.rf = "none" /\ Told
  BY <1>1, PeerEndsFirst
<1>3. loginAt = None /\ marker' # None => 1 \in ended
  BY <1>1 DEF FirstInv, OnlySession
<1> QED
  BY <1>1, <1>2, <1>3, QuietFirst

LEMMA GrantRefreshAskFirst ==
  ASSUME SessionInv, FirstInv, NEW t \in Tabs, GrantRefreshAsk(t)
  PROVE  FirstInv'
<1>1. UNCHANGED <<secret, sess, top, cookie, marker, ended, loginAt>>
  BY DEF GrantRefreshAsk, server, history
<1>2. tab[t] \in TabState /\ Sound(tab[t]) /\ cookie \in MaybeToken
  BY SoundTab
<1>3. loginAt = None /\ marker' # None => 1 \in ended
  BY <1>1 DEF FirstInv, OnlySession
<1>4. CASE tab[t].intent \/ marker # None
  <2>1. PICK R \in TabState : RefreshAt(tab[t], R, "sent", cookie)
    BY <1>2, StagesOfTab, RefreshStage, Zenon
  <2>2. tab' = [tab EXCEPT ![t] = R] /\ chan' = chan
    BY <1>4, <2>1 DEF GrantRefreshAsk, RefreshAt
  <2>3. Sound(R) /\ R.rf = "sent"
    BY <1>2, <2>1, SoundSame DEF RefreshAt
  <2>4. Told
    BY <2>2, ToldSame
  <2> QED
    BY <1>1, <1>3, <2>2, <2>3, <2>4, QuietFirst
<1>5. CASE ~(tab[t].intent \/ marker # None)
  <2>1. PICK R \in TabState : RefreshAtOnly(tab[t], R, "asking")
    BY <1>2, StagesOfTab, RefreshStageOnly, Zenon
  <2>2. tab' = [tab EXCEPT ![t] = R] /\ chan' = Posted(chan, t, Request(t))
    BY <1>5, <2>1 DEF GrantRefreshAsk, RefreshAtOnly
  <2>3. Sound(R) /\ R.rf = "asking"
    BY <1>2, <2>1, SoundSame DEF RefreshAtOnly
  <2>4. PICK m \in Message : m = Request(t) /\ FirstMessage(m)
    BY PlainMessages
  <2>5. 0 \in {0, 1} /\ (0 = 1 => chan[t] # <<>>) /\ chan' = Posted(Rest(t, 0), t, m)
    BY <2>2, <2>4 DEF Rest
  <2>6. Told
    BY <2>4, <2>5, ToldOthers, Zenon
  <2> QED
    BY <1>1, <1>3, <2>2, <2>3, <2>6, QuietFirst
<1> QED
  BY <1>4, <1>5

LEMMA NoPeerFirst ==
  ASSUME SessionInv, FirstInv, NEW t \in Tabs, NoPeer(t)
  PROVE  FirstInv'
<1>1. UNCHANGED <<secret, sess, top, cookie, marker, chan, ended, loginAt>>
  BY DEF NoPeer, server, history
<1>2. tab[t] \in TabState /\ Sound(tab[t]) /\ cookie \in MaybeToken
  BY SoundTab
<1>3. CASE tab[t].rf = "startup"
  <2>1. PICK T \in TabState : RefreshAtOnly(tab[t], T, "none")
    BY <1>2, StagesOfTab, RefreshStageOnly, Zenon
  <2>2. tab' = [tab EXCEPT ![t] = T] \/ tab' = [tab EXCEPT ![t] = Refreshing(T)]
    BY <1>3, <2>1 DEF NoPeer, RefreshAtOnly
  <2>3. Sound(T) /\ T.rf = "none"
    BY <1>2, <2>1, SoundSame DEF RefreshAtOnly
  <2> DEFINE S == Refreshing(T)
  <2>4. Sound(S) /\ S.rf \in {"none", "queued"}
    BY <2>3, SoundRefreshing
  <2> HIDE DEF S
  <2>5. PICK R : tab' = [tab EXCEPT ![t] = R] /\ Sound(R) /\ R.rf \in {"none", "queued"}
    BY <2>2, <2>3, <2>4 DEF S
  <2> QED
    BY <1>1, <2>5, SilentFirst
<1>4. CASE tab[t].rf = "asking"
  <2>1. PICK R \in TabState : RefreshAt(tab[t], R, "sent", cookie)
    BY <1>2, StagesOfTab, RefreshStage, Zenon
  <2>2. tab' = [tab EXCEPT ![t] = R]
    BY <1>4, <2>1 DEF NoPeer, RefreshAt
  <2>3. Sound(R) /\ R.rf = "sent"
    BY <1>2, <2>1, SoundSame DEF RefreshAt
  <2> QED
    BY <1>1, <2>2, <2>3, SilentFirst
<1> QED
  BY <1>3, <1>4 DEF NoPeer

LEMMA ServerRefreshFirst ==
  ASSUME SessionInv, FirstInv, NEW t \in Tabs, ServerRefresh(t)
  PROVE  FirstInv'
<1>1. tab[t].rf = "sent" /\ UNCHANGED <<cookie, marker, chan, ended, loginAt>>
  BY DEF ServerRefresh, history
<1>2. tab[t] \in TabState /\ Sound(tab[t]) /\ cookie \in MaybeToken
  BY SoundTab
<1>3. Owns(t, "rf") /\ tab[t].rfTok = cookie
  BY <1>1 DEF SessionInv, SecretInv, LockIsHeld, RefreshHolds, RequestsAreSound, RefreshSound
<1>4. Told
  BY <1>1, ToldSame
<1>5. loginAt = None /\ (cookie = None \/ marker # None) => 1 \in ended
  BY DEF FirstInv, OnlySession
<1>6. loginAt = None => OfFirst(cookie)
  BY DEF FirstInv, OnlySession
<1>7. CASE ~Accepts(cookie)
  <2>1. PICK R \in TabState : RefreshAtOnly(tab[t], R, "refused")
    BY <1>2, StagesOfTab, RefreshStageOnly, Zenon
  <2>2. tab' = [tab EXCEPT ![t] = R] /\ UNCHANGED <<secret, sess, top>>
    BY <1>3, <1>7, <2>1 DEF ServerRefresh, RefreshAtOnly, server
  <2>3. Sound(R) /\ R.rf = "refused"
    BY <1>2, <2>1, SoundSame DEF RefreshAtOnly
  <2>4. OfFirst(cookie) => OfFirst(cookie)'
    BY <1>1, <2>2 DEF OfFirst
  <2>5. \A k : OfFirst(k) => OfFirst(k)'
    BY <2>2 DEF OfFirst
  <2>6. OnlySession' /\ LeavingIsShown'
    BY <1>1, <1>4, <1>5, <1>6, <2>2, <2>3, <2>4, <2>5, OnlySessionStays
  <2>7. RefusedByServer'
    BY <1>1, <1>7, <2>2 DEF RefusedByServer, Accepts
  <2> QED
    BY <2>6, <2>7 DEF FirstInv
<1>8. CASE Accepts(cookie)
  <2>1. PICK k \in Nat : k = top + 1
    BY DEF SessionInv, TypeOK
  <2>2. /\ Spend("tokens") /\ top' = k /\ sess' = [sess EXCEPT ![k] = sess[cookie]]
        /\ tab' = [tab EXCEPT ![t] = [tab[t] EXCEPT !.rf = "ok", !.rfTok = k]]
    BY <1>3, <1>8, <2>1 DEF ServerRefresh
  <2>3. k \in Tokens
    <3>1. left["tokens"] \in Nat /\ left["tokens"] > 0
      BY <2>2 DEF SessionInv, TypeOK, Spend, Bounded
    <3>2. top \in Nat /\ MaxTokens \in Nat /\ top + left["tokens"] <= MaxTokens
      BY BoundsAssumption DEF SessionInv, TypeOK, SecretInv, TokensInOrder
    <3> QED
      BY <2>1, <3>1, <3>2 DEF Tokens
  <2>4. PICK R \in TabState : RefreshAt(tab[t], R, "ok", k)
    BY <1>2, <2>3, StagesOfTab, RefreshStage, Zenon
  <2>5. tab' = [tab EXCEPT ![t] = R]
    BY <2>2, <2>4 DEF RefreshAt
  <2>6. Sound(R) /\ R.rf = "ok" /\ R.rfTok = k
    BY <1>2, <2>4, SoundSame DEF RefreshAt
  <2>7. \A j : OfFirst(j) => OfFirst(j)'
    <3> SUFFICES ASSUME NEW j, j # None, j \in 1 .. top, sess[j] = 1
                 PROVE  j \in 1 .. top' /\ sess'[j] = 1
      BY DEF OfFirst
    <3>1. top \in Nat /\ j # k /\ j \in Tokens
      BY <2>1, BoundsAssumption DEF SessionInv, TypeOK, Tokens
    <3> QED
      BY <2>1, <2>2, <3>1 DEF SessionInv, TypeOK
  <2>8. loginAt = None => OfFirst(k)'
    <3>1. sess'[k] = sess[cookie]
      BY <2>2, <2>3 DEF SessionInv, TypeOK
    <3>2. cookie # None /\ k \in 1 .. top'
      BY <1>8, <2>2, <2>3 DEF Accepts, Tokens
    <3> QED
      BY <1>6, <3>1, <3>2 DEF OfFirst
  <2>9. loginAt = None /\ R.rf = "ok" => OfFirst(R.rfTok)'
    <3>1. loginAt = None => (k # None => k \in 1 .. top' /\ sess'[k] = 1)
      BY <2>8 DEF OfFirst
    <3> QED
      BY <2>6, <3>1 DEF OfFirst
  <2>10. OfFirst(cookie) => OfFirst(cookie)'
    BY <1>1, <2>7 DEF OfFirst
  <2>11. OnlySession' /\ LeavingIsShown'
    <3>1. loginAt = None => OfFirst(cookie)'
      BY <1>6, <2>10
    <3>2. loginAt = None /\ (cookie' = None \/ marker' # None) => 1 \in ended'
      BY <1>1, <1>5
    <3> QED
      BY <1>1, <1>4, <2>5, <2>6, <2>7, <2>9, <3>1, <3>2, OnlySessionStays
  <2>12. RefusedByServer'
    BY <1>3, <2>5, <2>6, RefusedAlone
  <2> QED
    BY <2>11, <2>12 DEF FirstInv
<1> QED
  BY <1>7, <1>8

\* The token of an answer that the tab takes over belongs to the session of the cookie.
LEMMA RefreshOkFirst ==
  ASSUME SessionInv, FirstInv, NEW t \in Tabs, RefreshOk(t)
  PROVE  FirstInv'
<1>1. /\ tab[t].rf = "ok" /\ cookie' = tab[t].rfTok
      /\ UNCHANGED <<secret, sess, top, marker, ended, loginAt>>
  BY DEF RefreshOk, server, history
<1>2. tab[t] \in TabState /\ Sound(tab[t]) /\ clock \in Nat
  BY SoundTab
<1>3. Owns(t, "rf") /\ tab[t].rfTok \in 1 .. top
  BY <1>1 DEF SessionInv, SecretInv, LockIsHeld, RefreshHolds, RequestsAreSound, RefreshSound,
     Underway
<1>4. tab[t].rfTok \in Tokens
  BY <1>3, BoundsAssumption DEF SessionInv, TypeOK, Tokens
<1>5. PICK k \in Tokens, stamp \in Nat : k = tab[t].rfTok /\ stamp = clock + 1
  BY <1>2, <1>4
<1>6. loginAt = None => OfFirst(k) /\ (marker # None => 1 \in ended)
  BY <1>1, <1>5 DEF FirstInv, OnlySession
<1>7. PICK R \in TabState : tab' = [tab EXCEPT ![t] = R] /\ Sound(R) /\ R.rf = "none" /\ Told
  <2>1. CASE Receptive(tab[t])
    <3> DEFINE F == Taken(tab[t], k, stamp)
    <3>1. tab' = [tab EXCEPT ![t] = F] /\ chan' = Posted(chan, t, Snapshot(k, stamp))
      BY <1>5, <2>1 DEF RefreshOk, Taken, Idle
    <3>2. F \in TabState /\ TakenOf(tab[t], F, k, stamp)
      BY <1>2, TakenTab, Zenon
    <3> HIDE DEF F
    <3>3. ~tab[t].intent /\ F.intent = tab[t].intent /\ F.rf = "none"
      BY <2>1, <3>2 DEF Receptive, Leaving, TakenOf
    <3>4. loginAt = None => FirstTokens(F)
      BY <1>2, <1>6, <3>2 DEF Sound, FirstTokens, TakenOf
    <3>5. Sound(F)
      BY <3>3, <3>4 DEF Sound
    <3> DEFINE m == Snapshot(k, stamp)
    <3>6. m \in Message /\ m.type = "snapshot" /\ m.tok = k
      BY DEF Snapshot, Message
    <3> HIDE DEF m
    <3>7. loginAt = None => FirstMessage(m)
      BY <1>6, <3>6 DEF FirstMessage
    <3>8. 0 \in {0, 1} /\ (0 = 1 => chan[t] # <<>>) /\ chan' = Posted(Rest(t, 0), t, m)
      BY <3>1 DEF Rest, m
    <3>9. Told
      BY <3>6, <3>7, <3>8, ToldOthers, Zenon
    <3> QED
      BY <3>1, <3>2, <3>3, <3>5, <3>9
  <2>2. CASE ~Receptive(tab[t])
    <3>1. RefreshEnds(t, tab[t], FALSE, Rest(t, 0))
      BY <2>2 DEF RefreshOk, Rest
    <3>2. 0 \in {0, 1} /\ (0 = 1 => chan[t] # <<>>) /\ FALSE \in BOOLEAN
      OBVIOUS
    <3> QED
      BY <1>2, <3>1, <3>2, RefreshEndsFirst, Zenon
  <2> QED
    BY <2>1, <2>2
<1>8. OnlySession' /\ LeavingIsShown'
  <2>1. \A j : OfFirst(j) => OfFirst(j)'
    BY <1>1 DEF OfFirst
  <2>2. loginAt = None => OfFirst(cookie)'
    BY <1>1, <1>5, <1>6 DEF OfFirst
  <2>3. loginAt = None /\ (cookie' = None \/ marker' # None) => 1 \in ended'
    BY <1>1, <1>5, <1>6 DEF Tokens, None
  <2>4. loginAt = None /\ R.rf = "ok" => OfFirst(R.rfTok)'
    BY <1>7
  <2> QED
    BY <1>1, <1>7, <2>1, <2>2, <2>3, <2>4, OnlySessionStays
<1>9. RefusedByServer'
  BY <1>3, <1>7, RefusedAlone
<1> QED
  BY <1>8, <1>9 DEF FirstInv

LEMMA RefreshNoFirst ==
  ASSUME SessionInv, FirstInv, NEW t \in Tabs, RefreshNo(t)
  PROVE  FirstInv'
<1>1. UNCHANGED <<secret, sess, top, cookie, marker, ended, loginAt>>
  BY DEF RefreshNo, server, history
<1>2. tab[t] \in TabState /\ Sound(tab[t])
  BY SoundTab
<1>3. loginAt = None /\ marker' # None => 1 \in ended
  BY <1>1 DEF FirstInv, OnlySession
<1>4. CASE NewPeer(tab[t])
  <2>1. RefreshEnds(t, WithPeer(tab[t], tab[t].peer, tab[t].peerAt),
                    Takes(tab[t], tab[t].peerAt), chan)
    BY <1>4 DEF RefreshNo
  <2>2. PICK R \in TabState : tab' = [tab EXCEPT ![t] = R] /\ Sound(R) /\ R.rf = "none" /\ Told
    BY <2>1, PeerEndsFirst
  <2> QED
    BY <1>1, <1>3, <2>2, QuietFirst
<1>5. CASE ~NewPeer(tab[t])
  <2>1. PICK T \in TabState : RefreshAt(tab[t], T, "none", None)
    BY <1>2, StagesOfTab, RefreshStage, Zenon
  <2>2. EndHere(t, T) /\ T.rf = "none"
    BY <1>5, <2>1 DEF RefreshNo, RefreshAt
  <2>3. PICK R \in TabState : /\ tab' = [tab EXCEPT ![t] = R] /\ Sound(R) /\ Told
                              /\ R.rf \in {T.rf, "sent"}
    BY <2>2, EndHereFirst
  <2> QED
    BY <1>1, <1>3, <2>2, <2>3, QuietFirst
<1> QED
  BY <1>4, <1>5

LEMMA RefreshFailsFirst ==
  ASSUME SessionInv, FirstInv, NEW t \in Tabs, RefreshFails(t)
  PROVE  FirstInv'
<1>1. UNCHANGED <<secret, sess, top, cookie, marker, ended, loginAt>>
  BY DEF RefreshFails, server
<1>2. tab[t] \in TabState /\ Sound(tab[t])
  BY SoundTab
<1>3. loginAt = None /\ marker' # None => 1 \in ended
  BY <1>1 DEF FirstInv, OnlySession
<1>4. PICK R \in TabState : tab' = [tab EXCEPT ![t] = R] /\ Sound(R) /\ R.rf = "none" /\ Told
  <2>1. CASE NewPeer(tab[t])
    <3>1. RefreshEnds(t, WithPeer(tab[t], tab[t].peer, tab[t].peerAt),
                      Takes(tab[t], tab[t].peerAt), chan)
      BY <2>1 DEF RefreshFails
    <3> QED
      BY <3>1, PeerEndsFirst
  <2>2. CASE ~NewPeer(tab[t])
    <3>1. PICK wait \in BOOLEAN : RefreshEnds(t, Failed(tab[t], wait), FALSE, chan)
      BY <2>2 DEF RefreshFails
    <3>2. tab[t].status # "closed"
      BY DEF RefreshFails, SessionInv, NewsInv, ClosedTabsAreOut, ClosedTab
    <3> DEFINE F == Failed(tab[t], wait)
    <3>3. F \in TabState
      BY <3>2, FailedTab
    <3>4. Sound(F)
      <4>1. CASE tab[t].intent
        BY <1>2, <4>1 DEF Failed
      <4>2. CASE ~tab[t].intent
        <5>1. /\ F.tok = tab[t].tok /\ F.peer = tab[t].peer /\ F.back = tab[t].back
              /\ F.intent = tab[t].intent
          BY <1>2, <4>2 DEF Failed, TabState
        <5> HIDE DEF F
        <5>2. Sound(F)
          BY <1>2, <4>2, <5>1 DEF Sound, FirstTokens
        <5> QED
          BY <5>2
      <4> QED
        BY <4>1, <4>2
    <3>5. RefreshEnds(t, F, FALSE, Rest(t, 0))
      BY <3>1 DEF Rest
    <3> HIDE DEF F
    <3>6. 0 \in {0, 1} /\ (0 = 1 => chan[t] # <<>>) /\ FALSE \in BOOLEAN
      OBVIOUS
    <3> QED
      BY <3>3, <3>4, <3>5, <3>6, RefreshEndsFirst, Zenon
  <2> QED
    BY <2>1, <2>2
<1> QED
  BY <1>1, <1>3, <1>4, QuietFirst

LEMMA CooldownEndsFirst ==
  ASSUME SessionInv, FirstInv, NEW t \in Tabs, CooldownEnds(t)
  PROVE  FirstInv'
<1>1. UNCHANGED <<secret, sess, top, cookie, marker, chan, ended, loginAt>>
  BY DEF CooldownEnds, server, history
<1>2. tab[t] \in TabState /\ Sound(tab[t])
  BY SoundTab
<1> DEFINE R == [tab[t] EXCEPT !.cool = FALSE]
<1>3. SameSession(tab[t], R) /\ R.rf = tab[t].rf /\ R.rfTok = tab[t].rfTok
  BY <1>2 DEF TabState, SameSession
<1>4. tab' = [tab EXCEPT ![t] = R]
  BY DEF CooldownEnds
<1> HIDE DEF R
<1> QED
  BY <1>1, <1>2, <1>3, <1>4, SoundSame, SilentFirst

\* At another stage of its login or its logout a tab is as sound as before.
LEMMA LoginStageFirst ==
  ASSUME SessionInv, FirstInv, NEW t \in Tabs, NEW R, SameSession(tab[t], R),
         R.rf = tab[t].rf, R.rfTok = tab[t].rfTok, tab' = [tab EXCEPT ![t] = R],
         UNCHANGED <<secret, sess, top, cookie, marker, chan, ended, loginAt>>
  PROVE  FirstInv'
<1>1. Sound(R)
  BY SoundTab, SoundSame
<1> QED
  BY <1>1, SilentFirst

LEMMA StartLoginFirst ==
  ASSUME SessionInv, FirstInv, NEW t \in Tabs, StartLogin(t)
  PROVE  FirstInv'
<1>1. UNCHANGED <<secret, sess, top, cookie, marker, chan, ended, loginAt>>
  BY DEF StartLogin, server, history
<1>2. tab[t] \in TabState
  BY SoundTab
<1> DEFINE R == [tab[t] EXCEPT !.li = "queued"]
<1>3. SameSession(tab[t], R) /\ R.rf = tab[t].rf /\ R.rfTok = tab[t].rfTok
  BY <1>2 DEF TabState, SameSession
<1>4. tab' = [tab EXCEPT ![t] = R]
  BY DEF StartLogin
<1> HIDE DEF R
<1> QED
  BY <1>1, <1>3, <1>4, LoginStageFirst

LEMMA GrantLoginFirst ==
  ASSUME SessionInv, FirstInv, NEW t \in Tabs, GrantLogin(t)
  PROVE  FirstInv'
<1>1. UNCHANGED <<secret, sess, top, cookie, marker, chan, ended, loginAt>>
  BY DEF GrantLogin, server, history
<1>2. tab[t] \in TabState /\ Sound(tab[t])
  BY SoundTab
<1> DEFINE R == [tab[t] EXCEPT !.intent = FALSE, !.back = None, !.li = "sent", !.liTok = cookie]
<1>3. /\ R.tok = tab[t].tok /\ R.peer = tab[t].peer /\ R.back = None /\ R.intent = FALSE
      /\ R.rf = tab[t].rf /\ R.rfTok = tab[t].rfTok
  BY <1>2 DEF TabState
<1>4. tab' = [tab EXCEPT ![t] = R]
  <2>1. tab' = [tab EXCEPT ![t] = [[[[tab[t] EXCEPT !.intent = FALSE] EXCEPT !.back = None]
                                      EXCEPT !.li = "sent"] EXCEPT !.liTok = cookie]]
    BY <1>2 DEF GrantLogin, SessionInv, TypeOK
  <2> QED
    BY <2>1
<1> HIDE DEF R
<1>5. Sound(R)
  BY <1>2, <1>3 DEF Sound, FirstTokens, OfFirst
<1> QED
  BY <1>1, <1>3, <1>4, <1>5, SilentFirst

\* A new session leaves the tokens of the first one what they are.
LEMMA ServerLoginFirst ==
  ASSUME SessionInv, FirstInv, NEW t \in Tabs, ServerLogin(t)
  PROVE  FirstInv'
<1>1. tab[t].li = "sent" /\ UNCHANGED <<cookie, marker, chan, ended, loginAt>>
  BY DEF ServerLogin, history
<1>2. tab[t] \in TabState /\ Sound(tab[t])
  BY SoundTab
<1>3. Owns(t, "li")
  BY <1>1 DEF SessionInv, SecretInv, LockIsHeld, LoginHolds
<1>4. PICK k \in Nat : k = top + 1
  BY DEF SessionInv, TypeOK
<1>5. /\ Spend("tokens") /\ top' = k /\ sess' = [sess EXCEPT ![k] = k]
      /\ tab' = [tab EXCEPT ![t] = [tab[t] EXCEPT !.li = "ok", !.liTok = k]]
  BY <1>4 DEF ServerLogin
<1>6. k \in Tokens
  <2>1. left["tokens"] \in Nat /\ left["tokens"] > 0
    BY <1>5 DEF SessionInv, TypeOK, Spend, Bounded
  <2>2. top \in Nat /\ MaxTokens \in Nat /\ top + left["tokens"] <= MaxTokens
    BY BoundsAssumption DEF SessionInv, TypeOK, SecretInv, TokensInOrder
  <2> QED
    BY <1>4, <2>1, <2>2 DEF Tokens
<1>7. PICK R \in TabState : LoginAt(tab[t], R, "ok", k)
  BY <1>2, <1>6, StagesOfTab, LoginStage, Zenon
<1>8. /\ tab' = [tab EXCEPT ![t] = R] /\ SameSession(tab[t], R)
      /\ R.rf = tab[t].rf /\ R.rfTok = tab[t].rfTok
  BY <1>5, <1>7 DEF LoginAt
<1>9. \A u \in Tabs : ~RefreshHolds(tab[u])
  BY <1>3, Alone DEF SessionInv, SecretInv
<1>10. R.rf \notin {"ok", "refused"}
  BY <1>8, <1>9 DEF RefreshHolds
<1>11. \A j : OfFirst(j) => OfFirst(j)'
  <2> SUFFICES ASSUME NEW j, j # None, j \in 1 .. top, sess[j] = 1
               PROVE  j \in 1 .. top' /\ sess'[j] = 1
    BY DEF OfFirst
  <2>1. top \in Nat /\ j # k /\ j \in Tokens
    BY <1>4, BoundsAssumption DEF SessionInv, TypeOK, Tokens
  <2> QED
    BY <1>4, <1>5, <2>1 DEF SessionInv, TypeOK
<1>12. Told /\ Sound(R)
  BY <1>1, <1>2, <1>8, ToldSame, SoundSame
<1>13. OnlySession' /\ LeavingIsShown'
  <2>1. OfFirst(cookie) => OfFirst(cookie)'
    BY <1>1, <1>11 DEF OfFirst
  <2>2. loginAt = None => OfFirst(cookie)'
    BY <2>1 DEF FirstInv, OnlySession
  <2>3. loginAt = None /\ (cookie' = None \/ marker' # None) => 1 \in ended'
    BY <1>1 DEF FirstInv, OnlySession
  <2> QED
    BY <1>1, <1>8, <1>10, <1>11, <1>12, <2>2, <2>3, OnlySessionStays
<1>14. RefusedByServer'
  BY <1>3, <1>8, <1>10, RefusedAlone
<1> QED
  BY <1>13, <1>14 DEF FirstInv

LEMMA LoginDoneFirst ==
  ASSUME SessionInv, FirstInv, NEW t \in Tabs, LoginDone(t)
  PROVE  FirstInv'
<1>1. tab[t].li = "ok"
  BY DEF LoginDone
<1>2. tab[t] \in TabState /\ Sound(tab[t]) /\ clock \in Nat
  BY SoundTab
<1>3. Owns(t, "li") /\ tab[t].liTok \in 1 .. top
  BY <1>1 DEF SessionInv, SecretInv, LockIsHeld, LoginHolds, RequestsAreSound, LoginSound, Underway
<1>4. tab[t].liTok \in Tokens
  BY <1>3, BoundsAssumption DEF SessionInv, TypeOK, Tokens
<1>5. PICK k \in Tokens, stamp \in Nat : k = tab[t].liTok /\ stamp = clock + 1
  BY <1>2, <1>4
<1> DEFINE W == WithToken(tab[t], k, stamp)
           R == [W EXCEPT !.intent = FALSE, !.back = None, !.li = "none", !.liTok = None]
<1>6. loginAt' = stamp /\ tab' = [tab EXCEPT ![t] = R]
  BY <1>5 DEF LoginDone
<1>7. W \in TabState /\ SameStages(tab[t], W)
  BY <1>2, WithTokenTab
<1> HIDE DEF W
<1>8. R.intent = FALSE /\ R.rf = W.rf
  BY <1>7 DEF TabState
<1> HIDE DEF R
<1>9. OnlySession'
  BY <1>2, <1>5, <1>6 DEF OnlySession, None
<1>10. \A u \in Tabs : ~RefreshHolds(tab[u])
  BY <1>3, Alone DEF SessionInv, SecretInv
<1>11. RefusedByServer'
  <2>1. R.rf # "refused"
    BY <1>7, <1>8, <1>10 DEF SameStages, RefreshHolds
  <2> QED
    BY <1>3, <1>6, <2>1, RefusedAlone
<1>12. LeavingIsShown'
  <2> SUFFICES ASSUME NEW u \in Tabs, tab'[u].intent
               PROVE  tab'[u].status = "logging-out"
    BY DEF LeavingIsShown
  <2>1. tab'[u] = IF u = t THEN R ELSE tab[u]
    BY <1>6 DEF SessionInv, TypeOK
  <2> QED
    BY <1>8, <2>1 DEF FirstInv, LeavingIsShown
<1> QED
  BY <1>9, <1>11, <1>12 DEF FirstInv

LEMMA LoginFailsFirst ==
  ASSUME SessionInv, FirstInv, NEW t \in Tabs, LoginFails(t)
  PROVE  FirstInv'
<1>1. UNCHANGED <<secret, sess, top, cookie, marker, chan, ended, loginAt>>
  BY DEF LoginFails, server
<1>2. tab[t] \in TabState
  BY SoundTab
<1>3. PICK R \in TabState : LoginAt(tab[t], R, "none", None)
  BY <1>2, StagesOfTab, LoginStage, Zenon
<1>4. tab' = [tab EXCEPT ![t] = R]
  BY <1>3 DEF LoginFails, LoginAt
<1> QED
  BY <1>1, <1>3, <1>4, LoginStageFirst DEF LoginAt

LEMMA LogoutFirst ==
  ASSUME SessionInv, FirstInv, NEW t \in Tabs, Logout(t)
  PROVE  FirstInv'
<1>1. UNCHANGED <<secret, sess, top, cookie, marker, chan, ended, loginAt>>
  BY DEF Logout, server, history
<1>2. tab[t] \in TabState /\ Sound(tab[t])
  BY SoundTab
<1> DEFINE back == IF tab[t].status = "authenticated" THEN tab[t].tok ELSE tab[t].back
           rf == IF tab[t].rf = "asking" THEN "sent" ELSE tab[t].rf
           rfTok == IF tab[t].rf = "asking" THEN cookie ELSE tab[t].rfTok
           R == [tab[t] EXCEPT !.status = "logging-out", !.intent = TRUE, !.lo = "queued",
                               !.back = back, !.me = "none", !.meTok = None,
                               !.rf = rf, !.rfTok = rfTok]
<1>3. tab' = [tab EXCEPT ![t] = R]
  BY <1>2 DEF Logout, TabState
<1>4. /\ back \in {tab[t].tok, tab[t].back}
      /\ rf \in {"ok", "refused"} => rf = tab[t].rf /\ rfTok = tab[t].rfTok
  OBVIOUS
<1> HIDE DEF back, rf, rfTok
<1>5. /\ R.status = "logging-out" /\ R.back = back /\ R.tok = tab[t].tok /\ R.peer = tab[t].peer
      /\ R.rf = rf /\ R.rfTok = rfTok
  BY <1>2 DEF TabState
<1> HIDE DEF R
<1>6. Sound(R)
  BY <1>2, <1>4, <1>5 DEF Sound, FirstTokens
<1> QED
  BY <1>1, <1>3, <1>4, <1>5, <1>6, SilentFirst

LEMMA GrantLogoutFirst ==
  ASSUME SessionInv, FirstInv, NEW t \in Tabs, GrantLogout(t)
  PROVE  FirstInv'
<1>1. UNCHANGED <<secret, sess, top, cookie, marker, chan, ended, loginAt>>
  BY DEF GrantLogout, server, history
<1>2. tab[t] \in TabState /\ cookie \in MaybeToken
  BY SoundTab
<1>3. PICK R \in TabState : LogoutAt(tab[t], R, "sent", cookie)
  BY <1>2, StagesOfTab, LogoutStage, Zenon
<1>4. tab' = [tab EXCEPT ![t] = R]
  BY <1>3 DEF GrantLogout, LogoutAt
<1> QED
  BY <1>1, <1>3, <1>4, LoginStageFirst DEF LogoutAt

LEMMA ServerLogoutFirst ==
  ASSUME SessionInv, FirstInv, NEW t \in Tabs, ServerLogout(t)
  PROVE  FirstInv'
<1>1. /\ tab[t].lo = "sent" /\ UNCHANGED <<sess, top, cookie, marker, chan, ended, loginAt>>
      /\ tab' = [tab EXCEPT ![t] = [tab[t] EXCEPT !.lo = "ok"]]
  BY DEF ServerLogout, history
<1>2. tab[t] \in TabState /\ Sound(tab[t])
  BY SoundTab
<1>3. PICK R : /\ tab' = [tab EXCEPT ![t] = R] /\ SameSession(tab[t], R)
               /\ R.rf = tab[t].rf /\ R.rfTok = tab[t].rfTok
  <2> DEFINE T == [tab[t] EXCEPT !.lo = "ok"]
  <2>1. SameSession(tab[t], T) /\ T.rf = tab[t].rf /\ T.rfTok = tab[t].rfTok
    BY <1>2 DEF TabState, SameSession
  <2>2. tab' = [tab EXCEPT ![t] = T]
    BY <1>1
  <2> HIDE DEF T
  <2> QED
    BY <2>1, <2>2
<1>4. Told /\ Sound(R)
  BY <1>1, <1>2, <1>3, ToldSame, SoundSame
<1>5. OnlySession' /\ LeavingIsShown'
  <2>1. \A j : OfFirst(j) => OfFirst(j)'
    BY <1>1 DEF OfFirst
  <2>2. loginAt = None => /\ OfFirst(cookie) /\ (cookie = None \/ marker # None => 1 \in ended)
                          /\ R.rf = "ok" => OfFirst(R.rfTok)
    BY <1>3 DEF FirstInv, OnlySession
  <2>3. OfFirst(cookie) => OfFirst(cookie)'
    BY <1>1, <2>1 DEF OfFirst
  <2>4. loginAt = None /\ R.rf = "ok" => OfFirst(R.rfTok)'
    BY <2>1, <2>2
  <2> QED
    BY <1>1, <1>3, <1>4, <2>1, <2>2, <2>3, <2>4, OnlySessionStays
<1>6. RefusedByServer'
  <2>1. \A s \in Tokens : secret'[s] \in {secret[s], None}
    BY DEF ServerLogout, SessionInv, TypeOK
  <2> QED
    BY <1>1, <1>3, <2>1, RefusalStays
<1> QED
  BY <1>5, <1>6 DEF FirstInv

\* Whoever has logged out has ended the session of the cookie, the only one there is.
LEMMA LogoutDoneFirst ==
  ASSUME SessionInv, FirstInv, NEW t \in Tabs, LogoutDone(t)
  PROVE  FirstInv'
<1>1. tab[t].lo = "ok"
  BY DEF LogoutDone
<1>2. tab[t] \in TabState /\ Sound(tab[t]) /\ clock \in Nat /\ cookie \in MaybeToken
  BY SoundTab
<1>3. PICK stamp \in Nat : stamp = clock + 1
  BY <1>2
<1>4. Owns(t, "lo") /\ tab[t].loTok = cookie
  BY <1>1 DEF SessionInv, SecretInv, LockIsHeld, LogoutHolds, RequestsAreSound, LogoutSound
<1>5. /\ cookie' = None
      /\ ended' = (IF cookie = None THEN ended ELSE ended \cup {sess[cookie]})
      /\ tab' = [tab EXCEPT ![t] = [Cleared(tab[t], "logout", stamp) EXCEPT !.lo = "none", !.loTok = None]]
      /\ chan' = Posted(chan, t, ClearedMessage("logout", stamp))
      /\ UNCHANGED <<secret, sess, top, loginAt>>
  BY <1>3, <1>4 DEF LogoutDone, server
<1>6. PICK C \in TabState : C = Cleared(tab[t], "logout", stamp) /\ ClearedOf(tab[t], C, stamp)
  BY <1>2, ClearedTab
<1>7. PICK R \in TabState : LogoutAt(C, R, "none", None)
  BY StagesOfTab, LogoutStage, Zenon
<1>8. tab' = [tab EXCEPT ![t] = R]
  BY <1>5, <1>6, <1>7 DEF LogoutAt
<1>9. R.tok = None /\ R.peer = None /\ R.back = None /\ R.intent = FALSE /\ R.rf = C.rf
  BY <1>6, <1>7 DEF LogoutAt, SameSession, ClearedOf, Forgets
<1>10. \A u \in Tabs : tab[u].rf # "ok"
  BY <1>4, Alone DEF SessionInv, SecretInv, RefreshHolds
<1>11. R.rf # "ok"
  BY <1>6, <1>9, <1>10 DEF ClearedOf
<1>12. \A u \in Tabs : tab'[u] = IF u = t THEN R ELSE tab[u]
  BY <1>8 DEF SessionInv, TypeOK
<1>13. OnlySession'
  <2> SUFFICES ASSUME loginAt = None
               PROVE  /\ OfFirst(cookie)' /\ 1 \in ended'
                      /\ \A u \in Tabs : FirstTokens(tab[u])' /\ tab'[u].rf # "ok"
                      /\ \A u \in Tabs : \A j \in DOMAIN chan'[u] : FirstMessage(chan[u][j])'
    BY <1>5 DEF OnlySession
  <2>1. 1 \in ended'
    BY <1>5 DEF FirstInv, OnlySession, OfFirst
  <2>2. OfFirst(cookie)'
    BY <1>5 DEF OfFirst
  <2>3. ASSUME NEW u \in Tabs
        PROVE  FirstTokens(tab[u])' /\ tab'[u].rf # "ok"
    <3>1. CASE u = t
      <4>1. /\ tab'[u].tok = None /\ tab'[u].peer = None /\ tab'[u].back = None
            /\ tab'[u].rf # "ok"
        BY <1>9, <1>11, <1>12, <3>1
      <4> QED
        BY <4>1 DEF FirstTokens, OfFirst
    <3>2. CASE u # t
      <4>1. tab'[u] = tab[u] /\ FirstTokens(tab[u])
        BY <1>12, <3>2 DEF FirstInv, OnlySession
      <4> QED
        BY <1>5, <1>10, <4>1 DEF FirstTokens, OfFirst
    <3> QED
      BY <3>1, <3>2
  <2>4. PICK m \in Message : m = ClearedMessage("logout", stamp) /\ m.type = "cleared"
    <3>1. ClearedMessage("logout", stamp) \in Message
      BY DEF Message, ClearedMessage
    <3>2. ClearedMessage("logout", stamp).type = "cleared"
      BY DEF ClearedMessage
    <3> QED
      BY <3>1, <3>2
  <2>5. ChannelStep(t, 0, Others(t, m))
    <3>1. 0 \in {0, 1} /\ (0 = 1 => chan[t] # <<>>) /\ chan' = Posted(Rest(t, 0), t, m)
      BY <1>5, <2>4 DEF Rest
    <3> QED
      BY <3>1, OneSent DEF SessionInv
  <2>6. ASSUME NEW u \in Tabs, NEW j \in DOMAIN chan'[u]
        PROVE  FirstMessage(chan[u][j])'
    <3> DEFINE d == Dropped(t, u, 0)
    <3>1. \/ j + d \in DOMAIN chan[u] /\ chan'[u][j] = chan[u][j + d]
          \/ <<u, chan'[u][j]>> \in Others(t, m)
      BY <2>5 DEF ChannelStep
    <3> HIDE DEF d
    <3>2. FirstMessage(chan'[u][j]) \/ chan'[u][j] = m
      BY <3>1 DEF FirstInv, OnlySession, Others
    <3> QED
      BY <1>5, <2>1, <2>4, <3>2 DEF FirstMessage, OfFirst
  <2> QED
    BY <2>1, <2>2, <2>3, <2>6
<1>14. LeavingIsShown'
  BY <1>9, <1>12 DEF FirstInv, LeavingIsShown
<1>15. RefusedByServer'
  BY <1>5 DEF RefusedByServer
<1> QED
  BY <1>13, <1>14, <1>15 DEF FirstInv

LEMMA LogoutFailsFirst ==
  ASSUME SessionInv, FirstInv, NEW t \in Tabs, LogoutFails(t)
  PROVE  FirstInv'
<1>1. UNCHANGED <<secret, sess, top, cookie, marker, chan, ended, loginAt>>
  BY DEF LogoutFails, server, history
<1>2. tab[t] \in TabState /\ Sound(tab[t])
  BY SoundTab
<1>3. PICK T \in TabState : LogoutAt(tab[t], T, "none", None)
  BY <1>2, StagesOfTab, LogoutStage, Zenon
<1> DEFINE S == [T EXCEPT !.intent = FALSE, !.status = "logout-failed"]
<1>4. tab' = [tab EXCEPT ![t] = T] \/ tab' = [tab EXCEPT ![t] = S]
  BY <1>3 DEF LogoutFails, LogoutAt
<1>5. Sound(T) /\ T.rf = tab[t].rf /\ T.rfTok = tab[t].rfTok
  BY <1>2, <1>3, SoundSame DEF LogoutAt
<1>6. /\ S.intent = FALSE /\ S.tok = T.tok /\ S.peer = T.peer /\ S.back = T.back
      /\ S.rf = T.rf /\ S.rfTok = T.rfTok
  BY DEF TabState
<1> HIDE DEF S
<1>7. Sound(S)
  BY <1>5, <1>6 DEF Sound, FirstTokens
<1>8. CASE tab' = [tab EXCEPT ![t] = T]
  BY <1>1, <1>5, <1>8, SilentFirst
<1>9. CASE tab' = [tab EXCEPT ![t] = S]
  BY <1>1, <1>5, <1>6, <1>7, <1>9, SilentFirst
<1> QED
  BY <1>4, <1>8, <1>9

LEMMA CancelLogoutFirst ==
  ASSUME SessionInv, FirstInv, NEW t \in Tabs, CancelLogout(t)
  PROVE  FirstInv'
<1>1. UNCHANGED <<secret, sess, top, cookie, marker, chan, ended, loginAt>>
  BY DEF CancelLogout, server, history
<1>2. tab[t] \in TabState /\ Sound(tab[t]) /\ tab[t].status = "logout-failed"
  BY SoundTab DEF CancelLogout
<1> DEFINE T == [tab[t] EXCEPT !.back = None]
           A == [T EXCEPT !.status = "authenticated", !.tok = tab[t].back]
           R == [T EXCEPT !.status = "restoring"]
           F == Refreshing(R)
<1>3. \/ tab' = [tab EXCEPT ![t] = A] \/ tab' = [tab EXCEPT ![t] = R]
      \/ tab' = [tab EXCEPT ![t] = F]
  BY DEF CancelLogout
<1>4. /\ A.tok = tab[t].back /\ A.peer = tab[t].peer /\ A.back = None
      /\ A.intent = tab[t].intent /\ A.rf = tab[t].rf /\ A.rfTok = tab[t].rfTok
  BY <1>2 DEF TabState
<1>5. /\ R.tok = tab[t].tok /\ R.peer = tab[t].peer /\ R.back = None
      /\ R.intent = tab[t].intent /\ R.rf = tab[t].rf /\ R.rfTok = tab[t].rfTok
  BY <1>2 DEF TabState
<1>6. R \in TabState
  <2>1. "restoring" \in Statuses /\ None \in MaybeToken
    BY DEF Statuses, MaybeToken
  <2> QED
    BY <1>2, <2>1 DEF TabState
<1> HIDE DEF A, R
<1>7. ~tab[t].intent
  BY <1>2 DEF Sound
<1>8. Sound(A) /\ Sound(R)
  BY <1>2, <1>4, <1>5, <1>7 DEF Sound, FirstTokens, OfFirst
<1>9. Sound(F) /\ F.rf \in {R.rf, "queued"} /\ (F.rf = R.rf => F.rfTok = R.rfTok)
  BY <1>6, <1>8, SoundRefreshing
<1> HIDE DEF F
<1>10. CASE tab' = [tab EXCEPT ![t] = A]
  BY <1>1, <1>4, <1>8, <1>10, SilentFirst
<1>11. CASE tab' = [tab EXCEPT ![t] = R]
  BY <1>1, <1>5, <1>8, <1>11, SilentFirst
<1>12. CASE tab' = [tab EXCEPT ![t] = F]
  BY <1>1, <1>5, <1>9, <1>12, SilentFirst
<1> QED
  BY <1>3, <1>10, <1>11, <1>12

\* The page's own request ends the session, joins or begins a refresh, or goes on.
LEMMA PageEndsFirst ==
  ASSUME SessionInv, FirstInv, NEW t \in Tabs, EndHere(t, tab[t]),
         UNCHANGED <<secret, sess, top, cookie, marker, ended, loginAt>>
  PROVE  FirstInv'
<1>1. tab[t] \in TabState
  BY SoundTab
<1>2. PICK R \in TabState : /\ tab' = [tab EXCEPT ![t] = R] /\ Sound(R) /\ Told
                            /\ R.rf \in {tab[t].rf, "sent"}
                            /\ R.rf = tab[t].rf => R.rfTok = tab[t].rfTok
  BY <1>1, EndHereFirst
<1>3. loginAt = None /\ marker' # None => 1 \in ended
  BY DEF FirstInv, OnlySession
<1> QED
  BY <1>2, <1>3, QuietFirst

LEMMA PageRefreshesFirst ==
  ASSUME SessionInv, FirstInv, NEW t \in Tabs, NEW stage \in PageStages,
         tab' = [tab EXCEPT ![t] = [Refreshing(tab[t]) EXCEPT !.me = stage]],
         UNCHANGED <<secret, sess, top, cookie, marker, chan, ended, loginAt>>
  PROVE  FirstInv'
<1>1. tab[t] \in TabState /\ Sound(tab[t])
  BY SoundTab
<1>2. PICK T \in TabState : /\ T = Refreshing(tab[t]) /\ Sound(T) /\ T.rf \in {tab[t].rf, "queued"}
                            /\ T.rf = tab[t].rf => T.rfTok = tab[t].rfTok
  BY <1>1, SoundRefreshing
<1> DEFINE R == [T EXCEPT !.me = stage]
<1>3. SameSession(T, R) /\ SameStages(T, R)
  BY StagesOfTab, PageTab
<1>4. tab' = [tab EXCEPT ![t] = R]
  BY <1>2
<1> HIDE DEF R
<1>5. Sound(R) /\ R.rf = T.rf /\ R.rfTok = T.rfTok
  BY <1>2, <1>3, SoundSame DEF SameStages
<1> QED
  BY <1>2, <1>4, <1>5, SilentFirst

LEMMA PageAloneFirst ==
  ASSUME SessionInv, FirstInv, NEW t \in Tabs, NEW stage \in PageStages, NEW k \in MaybeToken,
         tab' = [tab EXCEPT ![t].me = stage, ![t].meTok = k],
         UNCHANGED <<secret, sess, top, cookie, marker, chan, ended, loginAt>>
  PROVE  FirstInv'
<1>1. tab[t] \in TabState /\ Sound(tab[t])
  BY SoundTab
<1> DEFINE R == [tab[t] EXCEPT !.me = stage, !.meTok = k]
<1>2. SameSession(tab[t], R) /\ SameStages(tab[t], R)
  BY <1>1, PageTab
<1>3. tab' = [tab EXCEPT ![t] = R]
  BY <1>1 DEF SessionInv, TypeOK
<1> HIDE DEF R
<1> QED
  BY <1>2, <1>3, LoginStageFirst DEF SameStages

LEMMA StartRunFirst ==
  ASSUME SessionInv, FirstInv, NEW t \in Tabs, StartRun(t)
  PROVE  FirstInv'
<1>1. UNCHANGED <<secret, sess, top, cookie, marker, ended, loginAt>>
  BY DEF StartRun, server, history
<1>2. tab[t].tok \in MaybeToken
  BY SoundTab DEF TabState
<1>3. CASE EndHere(t, tab[t])
  BY <1>1, <1>3, PageEndsFirst
<1>4. CASE tab' = [tab EXCEPT ![t].me = "sent", ![t].meTok = tab[t].tok] /\ chan' = chan
  BY <1>1, <1>2, <1>4, StagesOfTab, PageAloneFirst
<1>5. CASE tab' = [tab EXCEPT ![t] = [Refreshing(tab[t]) EXCEPT !.me = "wait"]] /\ chan' = chan
  BY <1>1, <1>5, StagesOfTab, PageRefreshesFirst
<1> QED
  BY <1>3, <1>4, <1>5 DEF StartRun

LEMMA RunDoneFirst ==
  ASSUME SessionInv, FirstInv, NEW t \in Tabs, RunDone(t) \/ AbortRun(t)
  PROVE  FirstInv'
<1>1. UNCHANGED <<secret, sess, top, cookie, marker, chan, ended, loginAt>>
  BY DEF RunDone, AbortRun, server, history
<1>2. tab' = [tab EXCEPT ![t].me = "none", ![t].meTok = None]
  BY DEF RunDone, AbortRun
<1> QED
  BY <1>1, <1>2, StagesOfTab, PageAloneFirst

LEMMA RunRefusedFirst ==
  ASSUME SessionInv, FirstInv, NEW t \in Tabs, RunRefused(t)
  PROVE  FirstInv'
<1>1. UNCHANGED <<secret, sess, top, cookie, marker, ended, loginAt>>
  BY DEF RunRefused, server, history
<1>2. CASE EndHere(t, tab[t])
  BY <1>1, <1>2, PageEndsFirst
<1>3. CASE tab' = [tab EXCEPT ![t] = [Refreshing(tab[t]) EXCEPT !.me = "again"]] /\ chan' = chan
  BY <1>1, <1>3, StagesOfTab, PageRefreshesFirst
<1> QED
  BY <1>2, <1>3 DEF RunRefused

\* The message that the tab handles may be said.
LEMMA HeadMayBeSaid ==
  ASSUME SessionInv, FirstInv, NEW t \in Tabs, chan[t] # <<>>
  PROVE  /\ Head(chan[t]) = chan[t][1] /\ chan[t][1] \in Message /\ Handled(t) = Rest(t, 1)
         /\ 1 \in {0, 1} /\ (1 = 1 => chan[t] # <<>>)
         /\ loginAt = None => FirstMessage(chan[t][1])
<1>1. /\ 1 \in DOMAIN chan[t] /\ Head(chan[t]) = chan[t][1] /\ chan[t][1] \in Message
      /\ Handled(t) = Rest(t, 1)
  BY HeadOfChannel
<1> QED
  BY <1>1 DEF FirstInv, OnlySession

LEMMA ReceiveRequestFirst ==
  ASSUME SessionInv, FirstInv, NEW t \in Tabs, ReceiveRequest(t)
  PROVE  FirstInv'
<1>1. /\ chan[t] # <<>> /\ Head(chan[t]).type = "request" /\ tab' = tab
      /\ UNCHANGED <<secret, sess, top, cookie, marker, ended, loginAt>>
  BY DEF ReceiveRequest, Received, server, history
<1>2. /\ Head(chan[t]) = chan[t][1] /\ chan[t][1] \in Message /\ Handled(t) = Rest(t, 1)
      /\ 1 \in {0, 1} /\ (1 = 1 => chan[t] # <<>>)
  BY <1>1, HeadMayBeSaid
<1>3. tab[t] \in TabState /\ Sound(tab[t])
  BY SoundTab
<1>4. Told
  <2>1. CASE chan' = Handled(t)
    BY <1>2, <2>1, ToldNothing
  <2>2. CASE chan' # Handled(t)
    <3>1. PICK u \in Tabs : u = chan[t][1].from /\ u # None
      <4>1. chan[t][1].from # None
        BY <1>2, <2>2 DEF ReceiveRequest
      <4> QED
        BY <1>1, <1>2, <4>1, MessageFields
    <3>2. /\ tab[t].tok # None /\ tab[u].status # "closed"
          /\ chan' = [Rest(t, 1) EXCEPT ![u] = Append(@, Snapshot(tab[t].tok, tab[t].at))]
      BY <1>2, <2>2, <3>1 DEF ReceiveRequest, Usable
    <3>3. PICK k \in Tokens, stamp \in Nat : k = tab[t].tok /\ stamp = tab[t].at
      BY <1>3, <3>2 DEF TabState, MaybeToken
    <3>4. PICK m \in Message : m = Snapshot(k, stamp)
      BY DEF Message, Snapshot
    <3>5. m.type = "snapshot" /\ m.tok = k
      BY <3>4 DEF Snapshot
    <3>6. chan' = [Rest(t, 1) EXCEPT ![u] = Append(@, m)]
      BY <3>2, <3>3, <3>4
    <3>7. ChannelStep(t, 1, {<<u, m>>})
      BY <1>2, <3>2, <3>6, OneAnswered DEF SessionInv
    <3>8. loginAt = None => FirstMessage(m)
      BY <1>3, <3>3, <3>5 DEF Sound, FirstTokens, FirstMessage
    <3>9. \A v \in Tabs : \A w : <<v, w>> \in {<<u, m>>} => w = m
      OBVIOUS
    <3> QED
      BY <3>7, <3>8, <3>9, ToldStep
  <2> QED
    BY <2>1, <2>2
<1>5. tab' = [tab EXCEPT ![t] = tab[t]]
  BY <1>1 DEF SessionInv, TypeOK
<1>6. loginAt = None /\ marker' # None => 1 \in ended
  BY <1>1 DEF FirstInv, OnlySession
<1>7. PICK R : R = tab[t] /\ tab' = [tab EXCEPT ![t] = R]
  BY <1>5
<1> QED
  BY <1>1, <1>3, <1>4, <1>6, <1>7, QuietFirst

LEMMA HeardSnapshotSound ==
  ASSUME SessionInv, FirstInv, NEW t \in Tabs, chan[t] # <<>>, chan[t][1].type = "snapshot"
  PROVE  Sound(HeardSnapshot(tab[t], chan[t][1]))
<1>1. chan[t][1] \in Message /\ (loginAt = None => FirstMessage(chan[t][1]))
  BY HeadMayBeSaid
<1>2. PICK k \in Tokens, stamp \in Nat : k = chan[t][1].tok /\ stamp = chan[t][1].at
  BY <1>1, MessageFields
<1>3. k \in MaybeToken /\ (loginAt = None => OfFirst(k))
  BY <1>1, <1>2 DEF FirstMessage, MaybeToken
<1>4. tab[t] \in TabState /\ Sound(tab[t])
  BY SoundTab
<1> DEFINE P == [tab[t] EXCEPT !.peer = k, !.peerAt = stamp]
<1>5. P \in TabState
  BY <1>3, <1>4 DEF TabState
<1>6. /\ P.tok = tab[t].tok /\ P.back = tab[t].back /\ P.peer = k
      /\ P.intent = tab[t].intent /\ P.status = tab[t].status
  BY <1>4 DEF TabState
<1>7. HeardSnapshot(tab[t], chan[t][1]) = WithPeer(P, k, stamp)
  BY <1>2 DEF HeardSnapshot
<1> HIDE DEF P
<1>8. Sound(P)
  BY <1>3, <1>4, <1>6 DEF Sound, FirstTokens
<1> QED
  BY <1>3, <1>5, <1>7, <1>8, SoundPeer

LEMMA ReceiveSnapshotFirst ==
  ASSUME SessionInv, FirstInv, NEW t \in Tabs, ReceiveSnapshot(t)
  PROVE  FirstInv'
<1>1. /\ chan[t] # <<>> /\ Head(chan[t]).type = "snapshot"
      /\ UNCHANGED <<secret, sess, top, cookie, marker, ended, loginAt>>
  BY DEF ReceiveSnapshot, Received, server, history
<1>2. /\ Head(chan[t]) = chan[t][1] /\ chan[t][1] \in Message /\ Handled(t) = Rest(t, 1)
      /\ 1 \in {0, 1} /\ (1 = 1 => chan[t] # <<>>)
  BY <1>1, HeadMayBeSaid
<1>3. PICK T \in TabState : T = HeardSnapshot(tab[t], chan[t][1])
  BY <1>1, <1>2, HeardSnapshotTab
<1>4. Sound(T) /\ T.rf = tab[t].rf /\ T.rfTok = tab[t].rfTok
  BY <1>1, <1>2, <1>3, HeardSnapshotSound, HeardSnapshotTab DEF SameStages
<1>5. PICK took \in BOOLEAN :
         took = (Takes(tab[t], Head(chan[t]).at) /\ Usable(Head(chan[t]).tok))
  OBVIOUS
<1>6. \/ /\ T.rf = "startup" /\ chan' = Handled(t)
         /\ \/ tab' = [tab EXCEPT ![t] = [T EXCEPT !.rf = "none"]]
            \/ tab' = [tab EXCEPT ![t] = Refreshing([T EXCEPT !.rf = "none"])]
      \/ T.rf = "asking" /\ RefreshEnds(t, T, took, Handled(t))
      \/ /\ tab' = [tab EXCEPT ![t] = [T EXCEPT !.rf = "sent", !.rfTok = cookie]]
         /\ chan' = Handled(t)
      \/ tab' = [tab EXCEPT ![t] = T] /\ chan' = Handled(t)
  <2>1. T = WithPeer([tab[t] EXCEPT !.peer = Head(chan[t]).tok, !.peerAt = Head(chan[t]).at],
                     Head(chan[t]).tok, Head(chan[t]).at)
    BY <1>2, <1>3 DEF HeardSnapshot
  <2> QED
    BY <1>5, <2>1 DEF ReceiveSnapshot
<1>7. PICK R : /\ tab' = [tab EXCEPT ![t] = R] /\ Sound(R) /\ Told
               /\ R.rf \in {"ok", "refused"} => R.rf = tab[t].rf /\ R.rfTok = tab[t].rfTok
  <2>1. CASE T.rf = "asking" /\ RefreshEnds(t, T, took, Handled(t))
    <3>1. RefreshEnds(t, T, took, Rest(t, 1))
      BY <1>2, <2>1
    <3>2. PICK R \in TabState : tab' = [tab EXCEPT ![t] = R] /\ Sound(R) /\ R.rf = "none" /\ Told
      BY <1>2, <1>4, <3>1, RefreshEndsFirst, Zenon
    <3> QED
      BY <3>2
  <2>2. CASE chan' = Handled(t)
    <3>1. Told
      BY <1>2, <2>2, ToldNothing
    <3>2. PICK I \in TabState : RefreshAtOnly(T, I, "none")
      BY StagesOfTab, RefreshStageOnly, Zenon
    <3>3. Sound(I) /\ I.rf = "none" /\ I = [T EXCEPT !.rf = "none"]
      BY <1>4, <3>2, SoundSame DEF RefreshAtOnly
    <3>4. PICK S \in TabState : RefreshAt(T, S, "sent", cookie)
      <4>1. cookie \in MaybeToken
        BY DEF SessionInv, TypeOK
      <4> QED
        BY <4>1, StagesOfTab, RefreshStage, Zenon
    <3>5. Sound(S) /\ S.rf = "sent" /\ S = [T EXCEPT !.rf = "sent", !.rfTok = cookie]
      BY <1>4, <3>4, SoundSame DEF RefreshAt
    <3>6. PICK Q \in TabState : Q = Refreshing(I) /\ Sound(Q) /\ Q.rf \in {"none", "queued"}
      BY <3>3, SoundRefreshing
    <3>7. CASE tab' = [tab EXCEPT ![t] = I]
      BY <3>1, <3>3, <3>7
    <3>8. CASE tab' = [tab EXCEPT ![t] = Q]
      BY <3>1, <3>6, <3>8
    <3>9. CASE tab' = [tab EXCEPT ![t] = S]
      BY <3>1, <3>5, <3>9
    <3>10. CASE tab' = [tab EXCEPT ![t] = T]
      BY <1>4, <3>1, <3>10
    <3> QED
      BY <1>6, <2>1, <3>3, <3>5, <3>6, <3>7, <3>8, <3>9, <3>10
  <2> QED
    BY <1>6, <2>1, <2>2
<1>8. loginAt = None /\ marker' # None => 1 \in ended
  BY <1>1 DEF FirstInv, OnlySession
<1> QED
  BY <1>1, <1>7, <1>8, QuietFirst

\* The news of a logout sets the tombstone again: the first session has ended.
LEMMA ReceiveClearedFirst ==
  ASSUME SessionInv, FirstInv, NEW t \in Tabs, ReceiveCleared(t)
  PROVE  FirstInv'
<1>1. /\ chan[t] # <<>> /\ Head(chan[t]).type = "cleared" /\ chan' = Handled(t)
      /\ UNCHANGED <<secret, sess, top, cookie, ended, loginAt>>
  BY DEF ReceiveCleared, Received, server, history
<1>2. /\ Head(chan[t]) = chan[t][1] /\ chan[t][1] \in Message /\ Handled(t) = Rest(t, 1)
      /\ 1 \in {0, 1} /\ (1 = 1 => chan[t] # <<>>)
      /\ loginAt = None => FirstMessage(chan[t][1])
  BY <1>1, HeadMayBeSaid
<1>3. PICK m \in Message : m = chan[t][1] /\ m.type = "cleared"
  BY <1>1, <1>2
<1>4. PICK why \in {"ended", "logout"}, stamp \in Nat : why = m.reason /\ stamp = m.at
  BY <1>3 DEF Message
<1>5. Told
  BY <1>1, <1>2, ToldNothing
<1>6. tab[t] \in TabState /\ Sound(tab[t])
  BY SoundTab
<1>7. loginAt = None /\ marker' # None => 1 \in ended
  <2>1. loginAt = None /\ m.reason = "logout" => 1 \in ended
    BY <1>2, <1>3 DEF FirstMessage
  <2>2. loginAt = None /\ marker # None => 1 \in ended
    BY DEF FirstInv, OnlySession
  <2>3. marker' = marker \/ m.reason = "logout"
    BY <1>2, <1>3 DEF ReceiveCleared
  <2> QED
    BY <2>1, <2>2, <2>3
<1> DEFINE C == Cleared(tab[t], why, stamp)
<1>8. /\ C \in TabState /\ Sound(C) /\ C.rf \in {tab[t].rf, "sent"}
      /\ C.rf = tab[t].rf => C.rfTok = tab[t].rfTok
  BY <1>6, SoundCleared
<1>9. \/ tab' = [tab EXCEPT ![t] = tab[t]] \/ tab' = [tab EXCEPT ![t] = C]
      \/ tab' = [tab EXCEPT ![t] = [C EXCEPT !.rf = "none"]]
      \/ tab' = [tab EXCEPT ![t] = Refreshing([C EXCEPT !.rf = "none"])]
  <2>1. tab = [tab EXCEPT ![t] = tab[t]]
    BY DEF SessionInv, TypeOK
  <2> QED
    BY <1>2, <1>3, <1>4, <2>1 DEF ReceiveCleared
<1> HIDE DEF C
<1>10. PICK I \in TabState : RefreshAtOnly(C, I, "none")
  BY <1>8, StagesOfTab, RefreshStageOnly, Zenon
<1>11. Sound(I) /\ I.rf = "none" /\ I = [C EXCEPT !.rf = "none"]
  BY <1>8, <1>10, SoundSame DEF RefreshAtOnly
<1>12. PICK Q \in TabState : Q = Refreshing(I) /\ Sound(Q) /\ Q.rf \in {"none", "queued"}
  BY <1>11, SoundRefreshing
<1>13. PICK R : /\ tab' = [tab EXCEPT ![t] = R] /\ Sound(R)
                /\ R.rf \in {"ok", "refused"} => R.rf = tab[t].rf /\ R.rfTok = tab[t].rfTok
  <2>1. CASE tab' = [tab EXCEPT ![t] = tab[t]]
    BY <1>6, <2>1
  <2>2. CASE tab' = [tab EXCEPT ![t] = C]
    BY <1>8, <2>2
  <2>3. CASE tab' = [tab EXCEPT ![t] = I]
    BY <1>11, <2>3
  <2>4. CASE tab' = [tab EXCEPT ![t] = Q]
    BY <1>12, <2>4
  <2> QED
    BY <1>9, <1>11, <1>12, <2>1, <2>2, <2>3, <2>4
<1> QED
  BY <1>1, <1>5, <1>7, <1>13, QuietFirst

\* Time and the server leave the tabs and the channels alone.
LEMMA OutsideFirst ==
  ASSUME SessionInv, FirstInv, UNCHANGED <<sess, top, cookie, chan, tab, ended, loginAt>>,
         marker' \in {marker, None}, \A s \in Tokens : secret'[s] \in {secret[s], None}
  PROVE  FirstInv'
<1>1. OnlySession'
  BY DEF FirstInv, OnlySession, OfFirst, FirstTokens, FirstMessage
<1>2. LeavingIsShown'
  BY DEF FirstInv, LeavingIsShown
<1>3. RefusedByServer'
  <2> SUFFICES ASSUME NEW u \in Tabs, tab[u].rf = "refused", cookie # None
               PROVE  secret'[sess[cookie]] # cookie
    BY DEF RefusedByServer
  <2>1. sess[cookie] \in Tokens
    BY DEF SessionInv, TypeOK, MaybeToken
  <2> QED
    BY <2>1 DEF FirstInv, RefusedByServer
<1> QED
  BY <1>1, <1>2, <1>3 DEF FirstInv

LEMMA FirstStays ==
  ASSUME SessionInv, FirstInv, [Next]_vars
  PROVE  FirstInv'
<1>1. ASSUME NEW t \in Tabs, RefreshSteps(t)
      PROVE  FirstInv'
  BY <1>1, RefreshFirst, GrantRefreshPeerFirst, GrantRefreshAskFirst, NoPeerFirst,
     ServerRefreshFirst, RefreshOkFirst, RefreshNoFirst, RefreshFailsFirst, CooldownEndsFirst,
     Zenon DEF RefreshSteps
<1>2. ASSUME NEW t \in Tabs, LoginSteps(t)
      PROVE  FirstInv'
  BY <1>2, StartLoginFirst, GrantLoginFirst, ServerLoginFirst, LoginDoneFirst, LoginFailsFirst,
     Zenon DEF LoginSteps
<1>3. ASSUME NEW t \in Tabs, LogoutSteps(t)
      PROVE  FirstInv'
  BY <1>3, LogoutFirst, GrantLogoutFirst, ServerLogoutFirst, LogoutDoneFirst, LogoutFailsFirst,
     CancelLogoutFirst, Zenon DEF LogoutSteps
<1>4. ASSUME NEW t \in Tabs, RunSteps(t)
      PROVE  FirstInv'
  BY <1>4, StartRunFirst, RunDoneFirst, RunRefusedFirst, Zenon DEF RunSteps
<1>5. ASSUME NEW t \in Tabs, Receive(t)
      PROVE  FirstInv'
  BY <1>5, ReceiveRequestFirst, ReceiveSnapshotFirst, ReceiveClearedFirst, Zenon DEF Receive
<1>6. ASSUME NEW t \in Tabs, Open(t) \/ Close(t)
      PROVE  FirstInv'
  BY <1>6, OpenFirst, CloseFirst, Zenon
<1>7. ASSUME NEW k \in Tokens, TokenAges(k) \/ Revoke(k)
      PROVE  FirstInv'
  <2>1. /\ UNCHANGED <<sess, top, cookie, chan, tab, ended, loginAt>> /\ marker' = marker
        /\ secret' = secret \/ secret' = [secret EXCEPT ![k] = None]
    BY <1>7 DEF TokenAges, Revoke, server, history
  <2>2. \A s \in Tokens : secret'[s] \in {secret[s], None}
    BY <2>1 DEF SessionInv, TypeOK
  <2> QED
    BY <2>1, <2>2, OutsideFirst
<1>8. CASE MarkerExpires
  BY <1>8, OutsideFirst DEF MarkerExpires, server, history
<1>9. CASE UNCHANGED vars
  BY <1>9, OutsideFirst DEF vars
<1>10. CASE Next
  BY <1>1, <1>2, <1>3, <1>4, <1>5, <1>6, <1>7, <1>8, <1>10, Zenon DEF Next
<1> QED
  BY <1>9, <1>10

LEMMA FirstInit ==
  ASSUME Init
  PROVE  FirstInv
<1>1. 1 \in Tokens /\ None # 1
  BY BoundsAssumption DEF Tokens, None
<1>2. OfFirst(cookie) /\ cookie # None /\ marker = None
  BY <1>1 DEF Init, OfFirst
<1>3. \A t \in Tabs : tab[t] = ClosedTab /\ chan[t] = <<>>
  BY DEF Init
<1>4. /\ ClosedTab.tok = None /\ ClosedTab.peer = None /\ ClosedTab.back = None
      /\ ClosedTab.intent = FALSE /\ ClosedTab.rf = "none"
  BY DEF ClosedTab
<1> QED
  BY <1>2, <1>3, <1>4 DEF FirstInv, OnlySession, LeavingIsShown, RefusedByServer, FirstTokens, OfFirst

\* As long as nobody has logged in anew the browser and its tabs know one session only, that of
\* the cookie they began with, a missing cookie or a tombstone means that it was left, and a
\* refresh is refused only when the server does not accept the cookie.
THEOREM FirstInvariant == Spec => []FirstInv
<1>1. Init => FirstInv
  BY FirstInit
<1>2. SessionInv /\ FirstInv /\ [Next]_vars => FirstInv'
  BY FirstStays
<1> QED
  BY <1>1, <1>2, SessionInvariant, PTL DEF Spec

-----------------------------------------------------------------------------
(* Who gives the session up of itself.                                     *)

\* What EndedByServer leaves of it.
Excused(t) ==
    \/ secret[sess[tab[t].tok]] \in lost \cup {None}
    \/ tab[t].cool \/ left'["faults"] # left["faults"]
    \/ HandedOlder(t) \/ RefusedTwice(t)

\* The tab that gives up is the one that acts.
LEMMA GivesUpItself ==
  ASSUME SessionInv, NEW t \in Tabs, GivenUp(t), NEW u \in Tabs, NEW R, tab' = [tab EXCEPT ![u] = R]
  PROVE  t = u /\ tab'[t] = R /\ R.status = "anonymous" /\ R.reason = "ended"
<1>1. tab'[t] = IF t = u THEN R ELSE tab[t]
  BY DEF SessionInv, TypeOK
<1> QED
  BY <1>1 DEF GivenUp, Authenticated

\* A tab that has no excuse is ready for a token: nobody has left, and the server knows
\* the session of the cookie, which is the tab's.
LEMMA StillThere ==
  ASSUME SessionInv, FirstInv, NEW t \in Tabs, GivenUp(t), ~Excused(t)
  PROVE  /\ tab[t] \in TabState /\ Receptive(tab[t]) /\ ~tab[t].cool
         /\ cookie # None /\ secret[sess[cookie]] \notin lost \cup {None}
         /\ left'["faults"] = left["faults"] /\ ~HandedOlder(t) /\ ~RefusedTwice(t)
<1>1. loginAt = None /\ tab[t].status = "authenticated"
  BY DEF GivenUp, Authenticated
<1>2. tab[t] \in TabState /\ FirstTokens(tab[t]) /\ (tab[t].intent => tab[t].status = "logging-out")
  BY <1>1, SoundTab DEF Sound
<1>3. tab[t].tok # None /\ sess[tab[t].tok] = 1
  BY <1>1, <1>2 DEF SessionInv, NewsInv, Coherent, FirstTokens, OfFirst
<1>4. secret[1] \notin lost \cup {None}
  BY <1>3 DEF Excused
<1>5. 1 \notin ended
  BY <1>4 DEF SessionInv, SecretInv, LogoutRevokes
<1>6. OfFirst(cookie) /\ cookie # None /\ marker = None
  BY <1>1, <1>5 DEF FirstInv, OnlySession
<1>7. sess[cookie] = 1
  BY <1>6 DEF OfFirst
<1>8. Receptive(tab[t])
  BY <1>1, <1>2, <1>6 DEF Receptive, Leaving
<1> QED
  BY <1>2, <1>4, <1>6, <1>7, <1>8 DEF Excused

\* A refresh that makes its tab give up has brought no token to a request of the page.
LEMMA RefreshGivesUp ==
  ASSUME NEW t \in Tabs, NEW T \in TabState, NEW ok, NEW posted, RefreshEnds(t, T, ok, posted),
         clock' # clock
  PROVE  T.me \in {"wait", "again"} /\ ~ok
<1> DEFINE R == [T EXCEPT !.rf = "none", !.rfTok = None]
<1>1. R.me = T.me
  BY DEF TabState
<1> HIDE DEF R
<1>2. R.me \in {"wait", "again"} /\ ~ok
  BY DEF RefreshEnds, R
<1> QED
  BY <1>1, <1>2

\* It was content with what a peer had published, and that was older.
LEMMA PeerWasOlder ==
  ASSUME SessionInv, FirstInv, NEW t \in Tabs, GivenUp(t), clock' # clock, NewPeer(tab[t]),
         RefreshEnds(t, WithPeer(tab[t], tab[t].peer, tab[t].peerAt),
                     Takes(tab[t], tab[t].peerAt), chan)
  PROVE  Excused(t)
<1> SUFFICES ASSUME ~Excused(t) PROVE FALSE
  OBVIOUS
<1>1. tab[t] \in TabState /\ Receptive(tab[t]) /\ ~HandedOlder(t)
  BY StillThere
<1> DEFINE T == WithPeer(tab[t], tab[t].peer, tab[t].peerAt)
<1>2. tab[t].peer \in MaybeToken /\ tab[t].peerAt \in Nat /\ tab[t].at \in Nat
  BY <1>1 DEF TabState
<1>3. T \in TabState
  BY <1>1, <1>2, WithPeerTab
<1>4. T.me \in {"wait", "again"} /\ ~Takes(tab[t], tab[t].peerAt)
  BY <1>3, RefreshGivesUp
<1>5. tab[t].peerAt < tab[t].at
  BY <1>1, <1>2, <1>4 DEF Takes
<1>6. T = tab[t]
  BY <1>4 DEF WithPeer
<1> QED
  BY <1>1, <1>4, <1>5, <1>6 DEF HandedOlder

LEMMA RefreshNoExcused ==
  ASSUME SessionInv, FirstInv, NEW t \in Tabs, GivenUp(t), clock' # clock, RefreshNo(t)
  PROVE  Excused(t)
<1>1. tab[t].rf = "refused"
  BY DEF RefreshNo
<1>2. CASE NewPeer(tab[t])
  BY <1>2, PeerWasOlder DEF RefreshNo
<1>3. CASE ~Excused(t)
  <2>1. cookie # None /\ secret[sess[cookie]] \notin lost \cup {None}
    BY <1>3, StillThere
  <2>2. secret[sess[cookie]] # cookie
    BY <1>1, <2>1 DEF FirstInv, RefusedByServer
  <2>3. Owns(t, "rf")
    BY <1>1 DEF SessionInv, SecretInv, LockIsHeld, RefreshHolds
  <2>4. \A u \in Tabs : RefreshHolds(tab[u]) => u = t
    BY <2>3, Alone, Zenon DEF SessionInv, SecretInv
  <2>5. \A u \in Tabs : tab[u].rf # "ok"
    BY <1>1, <2>4 DEF RefreshHolds
  <2> QED
    BY <2>1, <2>2, <2>5 DEF SessionInv, SecretInv, CookieIsKnown
<1> QED
  BY <1>3

LEMMA ReceiveSnapshotExcused ==
  ASSUME SessionInv, FirstInv, NEW t \in Tabs, GivenUp(t), clock' # clock, ReceiveSnapshot(t)
  PROVE  Excused(t)
<1> SUFFICES ASSUME ~Excused(t) PROVE FALSE
  OBVIOUS
<1>1. tab[t] \in TabState /\ Receptive(tab[t]) /\ ~HandedOlder(t)
  BY StillThere
<1>2. Received(t, "snapshot") /\ chan[t] # <<>> /\ Head(chan[t]).type = "snapshot"
  BY DEF ReceiveSnapshot, Received
<1>3. Head(chan[t]) = chan[t][1] /\ chan[t][1] \in Message
  BY <1>2, HeadMayBeSaid
<1>4. PICK k \in Tokens, stamp \in Nat : k = Head(chan[t]).tok /\ stamp = Head(chan[t]).at
  BY <1>2, <1>3, MessageFields
<1> DEFINE P == [tab[t] EXCEPT !.peer = k, !.peerAt = stamp]
           T == WithPeer(P, k, stamp)
<1>5. /\ T.rf = "asking" /\ NewPeer(T)
      /\ RefreshEnds(t, T, Takes(tab[t], stamp) /\ Usable(k), Handled(t))
  BY <1>4 DEF ReceiveSnapshot
<1>6. /\ P \in TabState /\ k \in MaybeToken /\ P.at = tab[t].at /\ P.me = tab[t].me
      /\ P.peer = k /\ P.rf = tab[t].rf
  <2>1. k \in MaybeToken
    BY DEF MaybeToken
  <2> QED
    BY <1>1, <2>1 DEF TabState
<1> HIDE DEF P
<1>7. /\ T \in TabState
      /\ T = P \/ T.peer = k
  BY <1>6, WithPeerTab
<1>8. T.me \in {"wait", "again"} /\ ~(Takes(tab[t], stamp) /\ Usable(k))
  BY <1>5, <1>7, RefreshGivesUp
<1>9. Usable(k)
  BY <1>5, <1>6, <1>7 DEF NewPeer
<1>10. stamp < tab[t].at
  <2>1. tab[t].at \in Nat
    BY <1>1 DEF TabState
  <2> QED
    BY <1>1, <1>8, <1>9, <2>1 DEF Takes
<1>11. T = P
  <2>1. tab[t].at \in Nat
    BY <1>1 DEF TabState
  <2>2. ~Takes(P, stamp)
    BY <1>6, <1>10, <2>1 DEF Takes
  <2> QED
    BY <2>2 DEF WithPeer
<1>12. tab[t].me \in {"wait", "again"} /\ tab[t].rf = "asking"
  BY <1>5, <1>6, <1>8, <1>11
<1> QED
  BY <1>1, <1>2, <1>4, <1>10, <1>12 DEF HandedOlder

LEMMA RefreshOkExcused ==
  ASSUME SessionInv, FirstInv, NEW t \in Tabs, GivenUp(t), RefreshOk(t)
  PROVE  Excused(t)
<1> SUFFICES ASSUME ~Excused(t) PROVE FALSE
  OBVIOUS
<1>1. tab[t] \in TabState /\ Receptive(tab[t]) /\ tab[t].rf = "ok" /\ clock \in Nat
  BY StillThere, SoundTab DEF RefreshOk
<1>2. tab[t].rfTok \in 1 .. top
  BY <1>1 DEF SessionInv, SecretInv, RequestsAreSound, RefreshSound, Underway
<1>3. tab[t].rfTok \in Tokens
  BY <1>2, BoundsAssumption DEF SessionInv, TypeOK, Tokens
<1>4. PICK k \in Tokens, stamp \in Nat : k = tab[t].rfTok /\ stamp = clock + 1
  BY <1>1, <1>3
<1> DEFINE F == Taken(tab[t], k, stamp)
<1>5. tab' = [tab EXCEPT ![t] = F]
  BY <1>1, <1>4 DEF RefreshOk, Taken, Idle
<1>6. F \in TabState /\ TakenOf(tab[t], F, k, stamp)
  BY <1>1, TakenTab, Zenon
<1> HIDE DEF F
<1>7. F.status = "authenticated"
  BY <1>6 DEF TakenOf
<1> QED
  BY <1>5, <1>7, GivesUpItself

LEMMA PageExcused ==
  ASSUME SessionInv, FirstInv, NEW t \in Tabs, GivenUp(t), clock' # clock,
         StartRun(t) \/ RunRefused(t)
  PROVE  Excused(t)
<1> SUFFICES ASSUME ~Excused(t) PROVE FALSE
  OBVIOUS
<1>1. Receptive(tab[t]) /\ ~tab[t].cool /\ ~RefusedTwice(t)
  BY StillThere
<1>2. ~RefreshRefused(tab[t])
  BY <1>1 DEF RefreshRefused
<1>3. CASE StartRun(t)
  BY <1>2, <1>3 DEF StartRun
<1>4. CASE RunRefused(t)
  BY <1>1, <1>2, <1>4 DEF RunRefused, RefusedTwice
<1> QED
  BY <1>3, <1>4

\* A login shows the workspace, a logout gives another reason.
LEMMA NobodyGivesUp ==
  ASSUME SessionInv, NEW t \in Tabs, LoginDone(t) \/ LogoutDone(t)
  PROVE  ~GivenUp(t)
<1>1. tab[t] \in TabState /\ clock + 1 \in Nat /\ cookie \in MaybeToken
  BY DEF SessionInv, TypeOK
<1>2. CASE LoginDone(t)
  <2>1. tab[t].liTok \in Tokens
    <3>1. tab[t].liTok \in 1 .. top
      BY <1>2 DEF LoginDone, SessionInv, SecretInv, RequestsAreSound, LoginSound, Underway
    <3> QED
      BY <3>1, BoundsAssumption DEF SessionInv, TypeOK, Tokens
  <2> DEFINE W == WithToken(tab[t], tab[t].liTok, clock + 1)
             R == [W EXCEPT !.intent = FALSE, !.back = None, !.li = "none", !.liTok = None]
  <2>2. tab' = [tab EXCEPT ![t] = R]
    BY <1>2 DEF LoginDone
  <2>3. W \in TabState /\ W.status = "authenticated"
    BY <1>1, <2>1, WithTokenTab, Zenon
  <2> HIDE DEF W
  <2>4. R.status = "authenticated"
    BY <2>3 DEF TabState
  <2> HIDE DEF R
  <2> QED
    BY <2>2, <2>4, GivesUpItself
<1>3. CASE LogoutDone(t)
  <2> DEFINE C == Cleared(tab[t], "logout", clock + 1)
             R == [C EXCEPT !.lo = "none", !.loTok = None]
  <2>1. tab' = [tab EXCEPT ![t] = R]
    BY <1>3 DEF LogoutDone
  <2>2. C \in TabState
    BY <1>1, ClearedTab
  <2>3. C.reason = "logout"
    BY <1>1 DEF Cleared, TabState
  <2> HIDE DEF C
  <2>4. R.reason = "logout"
    BY <2>2, <2>3 DEF TabState
  <2> HIDE DEF R
  <2> QED
    BY <2>1, <2>4, GivesUpItself
<1> QED
  BY <1>2, <1>3

\* Every step in which a tab gives up at a new stamp is one of these, and the tab's own.
LEMMA StepExcused ==
  ASSUME SessionInv, FirstInv, Next, NEW t \in Tabs, GivenUp(t), clock' # clock
  PROVE  Excused(t)
<1>1. PICK u \in Tabs : \/ GrantRefreshPeer(u) \/ RefreshOk(u) \/ RefreshNo(u) \/ RefreshFails(u)
                        \/ LoginDone(u) \/ LogoutDone(u) \/ StartRun(u) \/ RunRefused(u)
                        \/ ReceiveSnapshot(u)
  <2>1. ASSUME NEW u \in Tabs, RefreshSteps(u)
        PROVE  GrantRefreshPeer(u) \/ RefreshOk(u) \/ RefreshNo(u) \/ RefreshFails(u)
    BY <2>1, Zenon DEF RefreshSteps, Refresh, GrantRefreshAsk, NoPeer, ServerRefresh, CooldownEnds
  <2>2. ASSUME NEW u \in Tabs, LoginSteps(u) PROVE LoginDone(u)
    BY <2>2, Zenon DEF LoginSteps, StartLogin, GrantLogin, ServerLogin, LoginFails
  <2>3. ASSUME NEW u \in Tabs, LogoutSteps(u) PROVE LogoutDone(u)
    BY <2>3, Zenon DEF LogoutSteps, Logout, GrantLogout, ServerLogout, LogoutFails, CancelLogout
  <2>4. ASSUME NEW u \in Tabs, RunSteps(u) PROVE StartRun(u) \/ RunRefused(u)
    BY <2>4, Zenon DEF RunSteps, RunDone, AbortRun
  <2>5. ASSUME NEW u \in Tabs, Receive(u) PROVE ReceiveSnapshot(u)
    BY <2>5, Zenon DEF Receive, ReceiveRequest, ReceiveCleared
  <2>6. \A u \in Tabs : ~Open(u) /\ ~Close(u)
    BY Zenon DEF Open, Close
  <2>7. ~MarkerExpires /\ \A k \in Tokens : ~TokenAges(k) /\ ~Revoke(k)
    BY Zenon DEF MarkerExpires, TokenAges, Revoke
  <2> QED
    BY <2>1, <2>2, <2>3, <2>4, <2>5, <2>6, <2>7, Zenon DEF Next
<1>2. t = u
  <2>1. \E R : tab' = [tab EXCEPT ![u] = R]
    BY <1>1, Zenon DEF GrantRefreshPeer, RefreshOk, RefreshNo, RefreshFails, LoginDone, LogoutDone,
       StartRun, RunRefused, ReceiveSnapshot, RefreshEnds, EndHere
  <2> QED
    BY <2>1, GivesUpItself
<1>3. CASE GrantRefreshPeer(t)
  BY <1>3, PeerWasOlder DEF GrantRefreshPeer
<1>4. CASE RefreshFails(t)
  <2>1. Spend("faults") /\ left["faults"] \in Nat
    BY <1>4 DEF RefreshFails, SessionInv, TypeOK, Bounded
  <2>2. left'["faults"] = left["faults"] - 1
    BY <2>1 DEF Spend, SessionInv, TypeOK, Bounded
  <2> QED
    BY <2>1, <2>2 DEF Excused
<1> QED
  BY <1>1, <1>2, <1>3, <1>4, RefreshOkExcused, RefreshNoExcused, ReceiveSnapshotExcused,
     PageExcused, NobodyGivesUp, Zenon

\* As long as nobody has logged in anew, a tab that shows the workspace gives the session up of
\* itself only if the server has ended it or the answer with its newest secret is lost, if the
\* tab is in the pause after a failure or a refresh has just failed, if its page was handed a
\* token older than the tab's, or if its request was refused twice (auth-session.tsx,
\* access-context.tsx).
THEOREM SessionEndsByServer == Spec => EndedByServer
<1>1. SessionInv /\ FirstInv /\ [Next]_vars =>
        [\A t \in Tabs : GivenUp(t) /\ clock' # clock =>
            \/ secret[sess[tab[t].tok]] \in lost \cup {None}
            \/ tab[t].cool \/ left'["faults"] # left["faults"]
            \/ HandedOlder(t) \/ RefusedTwice(t)]_vars
  BY StepExcused, Zenon DEF Excused
<1> QED
  BY <1>1, SessionInvariant, FirstInvariant, PTL DEF Spec, EndedByServer
=============================================================================
