-------------------------- MODULE MembershipsProofs --------------------------
(***************************************************************************)
(* Proofs about the members' screen of MCConsole and the server behind it  *)
(* (Memberships), for any number of people, sites, requests and            *)
(* invitations.  The argument: what a request has checked stays true until *)
(* it commits, because whoever could change it needs a lock the request    *)
(* holds - but for the removal of a site, which changes nothing about      *)
(* owners and whoever else may invite, and never turns access on.          *)
(***************************************************************************)
EXTENDS MCConsole, TLAPS

-----------------------------------------------------------------------------
(* Types.                                                                  *)

LEMMA EmptyRows ==
  /\ Access!NoMember \in Access!MemberRows /\ Access!NoRequest \in Access!Requests /\ Access!NoDialog \in Access!Dialogs
  /\ Access!NoPage \in Access!Pages /\ Access!Done \in Access!Requests
<1>1. Access!NoMember \in Access!MemberRows
  BY DEF Access!NoMember, Access!MemberRows, Access!Unlimited
<1>2. Access!NoRequest \in Access!Requests
  BY DEF Access!NoRequest, Access!Requests, Access!Portals, Access!Unlimited
<1>3. Access!NoDialog \in Access!Dialogs
  BY DEF Access!NoDialog, Access!Dialogs
<1>4. Access!NoPage \in Access!Pages
  BY <1>1, <1>3 DEF Access!NoPage, Access!Pages
<1>5. Access!Done \in Access!Requests
  BY <1>2 DEF Access!Done, Access!Requests
<1> QED
  BY <1>1, <1>2, <1>3, <1>4, <1>5

LEMMA InitTypes == ASSUME Access!CastsAssumption, Access!Init PROVE Access!TypeOK
BY EmptyRows DEF Access!CastsAssumption, Access!Init, Access!TypeOK

\* What a page sends is a request.
LEMMA RequestType ==
  ASSUME NEW p \in People, NEW kind \in Access!Kinds
  PROVE  /\ Access!Request(p, kind) \in Access!Requests
         /\ Access!Request(p, kind).kind = kind /\ Access!Request(p, kind).by = p
         /\ Access!Request(p, kind).staff = Access!Staff(p) /\ Access!Request(p, kind).step = "arrived"
<1>1. Access!Staff(p) \in BOOLEAN
  BY DEF Access!Staff
<1> QED
  BY <1>1, EmptyRows DEF Access!Request, Access!Requests

LEMMA SendTypes == ASSUME Access!TypeOK, NEW q \in Access!Requests, Access!Send(q) PROVE Access!TypeOK'
<1>1. PICK i \in 1 .. MaxWrites :
         /\ requests' = [requests EXCEPT ![i] = q]
         /\ pages' = [pages EXCEPT ![q.by].busy = @ \cup {i}]
         /\ UNCHANGED Access!rows
  BY DEF Access!Send
<1>2. requests' \in [1 .. MaxWrites -> Access!Requests]
  BY <1>1 DEF Access!TypeOK
<1> DEFINE theirs == [pages[q.by] EXCEPT !.busy = @ \cup {i}]
<1>3. q.by \in People => theirs \in Access!Pages
  BY DEF Access!TypeOK, Access!Pages
<1>4. pages' = [pages EXCEPT ![q.by] = theirs]
  BY <1>1
<1> HIDE DEF theirs
<1>5. pages' \in [People -> Access!Pages]
  BY <1>3, <1>4 DEF Access!TypeOK
<1> QED
  BY <1>1, <1>2, <1>5 DEF Access!TypeOK, Access!rows

-----------------------------------------------------------------------------
(* What the pages know.                                                    *)

\* A version and a state that were seen of a membership: of an earlier version, or true.
Known(person, rev, off) ==
    /\ person \in People
    /\ rev <= members[person].rev
    /\ rev = members[person].rev => (off <=> ~members[person].active)

ListsAreKnown ==
    \A p, person \in People :
        LET entry == pages[p].list[person] IN
        /\ entry.rev <= members[person].rev
        /\ entry.rev = members[person].rev => entry = members[person]

DialogsAreKnown ==
    \A p \in People :
        LET opened == pages[p].dialog IN
        opened.kind = "member" => Known(opened.on, opened.rev, opened.off)

\* A request that has arrived: of a staff page, and of what a page knew.
Honest(q) ==
    /\ q.step = "arrived" /\ q.by \in People
    /\ q.kind = "account" => q.staff
    /\ q.kind = "accept" => q.nr \in 1 .. MaxLinks
    /\ q.kind = "update" => Known(q.on, q.rev, q.off)

ArrivedAreHonest == \A i \in 1 .. MaxWrites : requests[i].step = "arrived" => Honest(requests[i])

SeenInv == ListsAreKnown /\ DialogsAreKnown

\* A step of a visitor that sends nothing.
Looks == /\ UNCHANGED <<members, accounts, places, links, requests, asks>>
         /\ signedIn' \subseteq People /\ pages' \in [People -> Access!Pages]
         /\ ListsAreKnown' /\ DialogsAreKnown'

LEMMA ReadLooks == ASSUME Access!TypeOK, SeenInv, NEW p \in People, Access!Read(p) PROVE Looks
<1>1. pages' = [pages EXCEPT ![p].known = TRUE, ![p].list = members] /\ UNCHANGED <<Access!rows, requests>>
  BY DEF Access!Read
<1>2. pages' \in [People -> Access!Pages]
  BY <1>1 DEF Access!TypeOK, Access!Pages
<1>3. \A o \in People : pages'[o].dialog = pages[o].dialog
                        /\ pages'[o].list = IF o = p THEN members ELSE pages[o].list
  BY <1>1 DEF Access!TypeOK, Access!Pages
<1>4. ListsAreKnown'
  BY <1>1, <1>3 DEF SeenInv, ListsAreKnown, Access!rows, Access!TypeOK, Access!MemberRows
<1>5. DialogsAreKnown'
  BY <1>1, <1>3 DEF SeenInv, DialogsAreKnown, Known, Access!rows
<1> QED
  BY <1>1, <1>2, <1>4, <1>5 DEF Looks, Access!rows, Access!TypeOK

\* A step that changes dialogs and previews only.
LEMMA PageLooks ==
  ASSUME Access!TypeOK, SeenInv, UNCHANGED <<Access!rows, requests>>, pages' \in [People -> Access!Pages],
         \A o \in People : /\ pages'[o].list = pages[o].list
                           /\ \/ pages'[o].dialog = pages[o].dialog
                              \/ pages'[o].dialog.kind # "member"
                              \/ Known(pages'[o].dialog.on, pages'[o].dialog.rev, pages'[o].dialog.off)
  PROVE  Looks
<1>1. ListsAreKnown'
  BY DEF SeenInv, ListsAreKnown, Access!rows
<1>2. DialogsAreKnown'
  BY DEF SeenInv, DialogsAreKnown, Known, Access!rows
<1> QED
  BY <1>1, <1>2 DEF Looks, Access!rows, Access!TypeOK

LEMMA DialogLooks ==
  ASSUME Access!TypeOK, SeenInv, NEW p \in People,
         Access!Dismiss(p) \/ Access!OpenSite(p) \/ Access!Inspect(p)
            \/ \E person \in People : Access!OpenMember(p, person) \/ Access!OpenAccount(p, person),
         Access!CastsAssumption
  PROVE  Looks
<1>1. CASE \E person \in People : Access!OpenMember(p, person)
  <2>1. PICK person \in People : Access!OpenMember(p, person)
    BY <1>1
  <2> DEFINE d == [Access!NoDialog EXCEPT !.kind = "member", !.on = person,
                                   !.rev = pages[p].list[person].rev,
                                   !.off = ~pages[p].list[person].active]
  <2>2. pages' = [pages EXCEPT ![p].dialog = d] /\ UNCHANGED <<Access!rows, requests>>
    BY <2>1 DEF Access!OpenMember
  <2>3. pages[p].list[person] \in Access!MemberRows
    BY DEF Access!TypeOK, Access!Pages
  <2>4. d \in Access!Dialogs /\ d.on = person /\ d.rev = pages[p].list[person].rev
        /\ d.off = ~pages[p].list[person].active
    BY <2>3, EmptyRows DEF Access!Dialogs, Access!MemberRows
  <2> HIDE DEF d
  <2> DEFINE entry == pages[p].list[person]
  <2>8. entry.rev <= members[person].rev /\ (entry.rev = members[person].rev => entry.active = members[person].active)
    BY DEF SeenInv, ListsAreKnown
  <2>9. d.on = person /\ d.rev = entry.rev /\ d.off = ~entry.active
    BY <2>4
  <2> HIDE DEF entry
  <2>5. Known(d.on, d.rev, d.off)
    BY <2>8, <2>9 DEF Known
  <2>6. pages' \in [People -> Access!Pages]
    BY <2>2, <2>4 DEF Access!TypeOK, Access!Pages
  <2>7. \A o \in People : pages'[o].list = pages[o].list
                          /\ pages'[o].dialog = IF o = p THEN d ELSE pages[o].dialog
    BY <2>2 DEF Access!TypeOK, Access!Pages
  <2> QED
    BY <2>2, <2>5, <2>6, <2>7, PageLooks
<1>2. ASSUME NEW d \in Access!Dialogs, d.kind # "member",
             pages' = [pages EXCEPT ![p].dialog = d], UNCHANGED <<Access!rows, requests>>
      PROVE  Looks
  <2>1. pages' \in [People -> Access!Pages]
    BY <1>2 DEF Access!TypeOK, Access!Pages
  <2>2. \A o \in People : pages'[o].list = pages[o].list
                          /\ pages'[o].dialog = IF o = p THEN d ELSE pages[o].dialog
    BY <1>2 DEF Access!TypeOK, Access!Pages
  <2> QED
    BY <1>2, <2>1, <2>2, PageLooks
<1>3. CASE \E person \in People : Access!OpenAccount(p, person)
  <2>1. PICK person \in People : Access!OpenAccount(p, person)
    BY <1>3
  <2> DEFINE d == [Access!NoDialog EXCEPT !.kind = "account", !.on = person, !.rev = accounts[person].rev]
  <2>2. d \in Access!Dialogs /\ d.kind # "member"
    BY EmptyRows DEF Access!Dialogs, Access!TypeOK, Access!AccountRows
  <2> QED
    BY <1>2, <2>1, <2>2 DEF Access!OpenAccount
<1>4. CASE Access!OpenSite(p)
  <2>1. PICK place \in Places :
           pages' = [pages EXCEPT ![p].dialog = [Access!NoDialog EXCEPT !.kind = "site", !.nr = place]]
    BY <1>4 DEF Access!OpenSite
  <2>2. [Access!NoDialog EXCEPT !.kind = "site", !.nr = place] \in Access!Dialogs
        /\ [Access!NoDialog EXCEPT !.kind = "site", !.nr = place].kind # "member"
    BY EmptyRows DEF Access!Dialogs, Access!CastsAssumption
  <2> QED
    BY <1>2, <1>4, <2>1, <2>2 DEF Access!OpenSite
<1>5. CASE Access!Dismiss(p)
  <2>1. Access!NoDialog \in Access!Dialogs /\ Access!NoDialog.kind # "member"
    BY EmptyRows DEF Access!NoDialog
  <2> QED
    BY <1>2, <1>5, <2>1 DEF Access!Dismiss
<1>6. CASE Access!Inspect(p)
  <2>1. PICK l \in 1 .. MaxLinks : pages' = [pages EXCEPT ![p].preview = l]
    BY <1>6 DEF Access!Inspect
  <2>2. UNCHANGED <<Access!rows, requests>>
    BY <1>6 DEF Access!Inspect
  <2>4. pages' \in [People -> Access!Pages]
    BY <2>1 DEF Access!TypeOK, Access!Pages
  <2>5. \A o \in People : pages'[o].list = pages[o].list /\ pages'[o].dialog = pages[o].dialog
    BY <2>1 DEF Access!TypeOK, Access!Pages
  <2> QED
    BY <2>2, <2>4, <2>5, PageLooks
<1> QED
  BY <1>1, <1>3, <1>4, <1>5, <1>6

LEMMA SignInLooks == ASSUME Access!TypeOK, SeenInv, NEW p \in People, Access!SignIn(p) PROVE Looks
<1>1. ListsAreKnown'
  BY DEF Access!SignIn, SeenInv, ListsAreKnown
<1>2. DialogsAreKnown'
  BY DEF Access!SignIn, SeenInv, DialogsAreKnown, Known
<1> QED
  BY <1>1, <1>2 DEF Access!SignIn, Looks, Access!TypeOK

-----------------------------------------------------------------------------
(* What the pages send.                                                    *)

Sends == \E q \in Access!Requests : Access!Send(q) /\ Honest(q)

LEMMA UpdateSends ==
  ASSUME Access!TypeOK, SeenInv, NEW p \in People, NEW person \in People,
         Access!Toggle(p, person) \/ Access!SaveAccess(p, person)
  PROVE  Sends
<1> DEFINE entry == pages[p].list[person]
           shut == ~entry.active
           r == Access!Request(p, "update")
<1>1. entry \in Access!MemberRows
  BY DEF Access!TypeOK, Access!Pages
<1>2. shut \in BOOLEAN /\ Known(person, entry.rev, shut)
  BY <1>1 DEF SeenInv, ListsAreKnown, Known
<1>3. r \in Access!Requests /\ r.by = p /\ r.step = "arrived" /\ r.kind = "update"
  BY RequestType DEF Access!Kinds
<1> HIDE DEF r
<1>4. CASE Access!Toggle(p, person)
  <2> DEFINE q == [r EXCEPT !.on = person, !.rev = entry.rev, !.off = shut, !.sends = {"active"},
                            !.active = shut]
  <2>1. Access!Send(q)
    BY <1>4 DEF Access!Toggle, r
  <2> HIDE DEF shut
  <2>2. q \in Access!Requests
    BY <1>1, <1>2, <1>3 DEF Access!Requests, Access!MemberRows, Access!Fields
  <2>3. q.by = p /\ q.step = "arrived" /\ q.kind = "update" /\ q.on = person
        /\ q.rev = entry.rev /\ q.off = shut
    BY <1>3 DEF Access!Requests
  <2> HIDE DEF q, entry
  <2> QED
    BY <1>2, <2>1, <2>2, <2>3 DEF Honest, Sends
<1>5. CASE Access!SaveAccess(p, person)
  <2>1. PICK role \in Access!FormRoles(p) : \E scope \in Access!FormScopes(role) :
           LET chosen == {f \in {"role", "scope"} :
                              IF f = "role" THEN role # entry.role ELSE scope # entry.scope} IN
           Access!Send([r EXCEPT !.on = person, !.rev = entry.rev, !.off = ~entry.active,
                          !.sends = chosen, !.role = role, !.scope = scope])
    BY <1>5 DEF Access!SaveAccess, r
  <2>2. PICK scope \in Access!FormScopes(role) :
           LET chosen == {f \in {"role", "scope"} :
                              IF f = "role" THEN role # entry.role ELSE scope # entry.scope} IN
           Access!Send([r EXCEPT !.on = person, !.rev = entry.rev, !.off = ~entry.active,
                          !.sends = chosen, !.role = role, !.scope = scope])
    BY <2>1
  <2> DEFINE chosen == {f \in {"role", "scope"} :
                              IF f = "role" THEN role # entry.role ELSE scope # entry.scope}
             q == [r EXCEPT !.on = person, !.rev = entry.rev, !.off = shut,
                            !.sends = chosen, !.role = role, !.scope = scope]
  <2>3. Access!Send(q)
    BY <2>2
  <2>4. role \in Access!Roles /\ scope \in SUBSET Places /\ chosen \in SUBSET Access!Fields
    BY DEF Access!FormRoles, Access!FormScopes, Access!Unlimited, Access!Fields
  <2> HIDE DEF chosen, shut
  <2>5. q \in Access!Requests
    BY <1>1, <1>2, <1>3, <2>4 DEF Access!Requests, Access!MemberRows
  <2>6. q.by = p /\ q.step = "arrived" /\ q.kind = "update" /\ q.on = person
        /\ q.rev = entry.rev /\ q.off = shut
    BY <1>3 DEF Access!Requests
  <2> HIDE DEF q, entry
  <2> QED
    BY <1>2, <2>3, <2>5, <2>6 DEF Honest, Sends
<1> QED
  BY <1>4, <1>5

LEMMA ConsoleSends ==
  ASSUME Access!CastsAssumption, Access!TypeOK, SeenInv, NEW p \in People,
         Access!SubmitMember(p) \/ Access!AddMember(p) \/ Access!SubmitAccount(p) \/ Access!DeleteSite(p)
  PROVE  Sends
<1> DEFINE d == pages[p].dialog
<1>1. d \in Access!Dialogs
  BY DEF Access!TypeOK, Access!Pages
<1>2. Access!Staff(p)
  BY DEF Access!SubmitMember, Access!AddMember, Access!SubmitAccount, Access!DeleteSite
<1>3. CASE Access!SubmitMember(p)
  <2> DEFINE r == Access!Request(p, "update")
  <2>1. r \in Access!Requests /\ r.by = p /\ r.step = "arrived" /\ r.kind = "update"
    BY RequestType DEF Access!Kinds
  <2> HIDE DEF r
  <2>2. PICK role \in Access!Roles, able \in BOOLEAN : \E scope \in Access!FormScopes(role) :
           Access!Send([r EXCEPT !.on = d.on, !.rev = d.rev, !.off = d.off, !.sends = {"role", "active", "scope"},
                          !.role = role, !.active = able, !.scope = scope])
    BY <1>3 DEF Access!SubmitMember, r
  <2>3. PICK scope \in Access!FormScopes(role) :
           Access!Send([r EXCEPT !.on = d.on, !.rev = d.rev, !.off = d.off, !.sends = {"role", "active", "scope"},
                          !.role = role, !.active = able, !.scope = scope])
    BY <2>2
  <2> DEFINE q == [r EXCEPT !.on = d.on, !.rev = d.rev, !.off = d.off, !.sends = {"role", "active", "scope"},
                            !.role = role, !.active = able, !.scope = scope]
  <2>4. scope \in SUBSET Places
    BY DEF Access!FormScopes, Access!Unlimited
  <2>5. Known(d.on, d.rev, d.off)
    BY <1>3 DEF Access!SubmitMember, SeenInv, DialogsAreKnown
  <2>6. q \in Access!Requests
    BY <1>1, <2>1, <2>4 DEF Access!Requests, Access!Dialogs, Access!Fields
  <2>7. q.by = p /\ q.step = "arrived" /\ q.kind = "update" /\ q.on = d.on /\ q.rev = d.rev /\ q.off = d.off
    BY <2>1 DEF Access!Requests
  <2>8. Access!Send(q)
    BY <2>3
  <2> HIDE DEF q
  <2> QED
    BY <2>5, <2>6, <2>7, <2>8 DEF Honest, Sends
<1>4. CASE Access!AddMember(p)
  <2> DEFINE r == Access!Request(p, "add")
  <2>1. r \in Access!Requests /\ r.by = p /\ r.step = "arrived" /\ r.kind = "add"
    BY RequestType DEF Access!Kinds
  <2> HIDE DEF r
  <2>2. PICK person \in People, role \in Access!Roles : \E scope \in Access!FormScopes(role) :
           Access!Send([r EXCEPT !.on = person, !.role = role, !.scope = scope])
    BY <1>4 DEF Access!AddMember, r
  <2>3. PICK scope \in Access!FormScopes(role) : Access!Send([r EXCEPT !.on = person, !.role = role, !.scope = scope])
    BY <2>2
  <2> DEFINE q == [r EXCEPT !.on = person, !.role = role, !.scope = scope]
  <2>4. scope \in SUBSET Places
    BY DEF Access!FormScopes, Access!Unlimited
  <2>5. q \in Access!Requests /\ q.by = p /\ q.step = "arrived" /\ q.kind = "add"
    BY <2>1, <2>4 DEF Access!Requests
  <2>6. Access!Send(q)
    BY <2>3
  <2> HIDE DEF q
  <2> QED
    BY <2>5, <2>6 DEF Honest, Sends
<1>5. CASE Access!SubmitAccount(p)
  <2> DEFINE r == Access!Request(p, "account")
             t == Access!Request(p, "sessions")
  <2>1. r \in Access!Requests /\ r.by = p /\ r.step = "arrived" /\ r.kind = "account" /\ r.staff
    BY <1>2, RequestType DEF Access!Kinds
  <2>2. t \in Access!Requests /\ t.by = p /\ t.step = "arrived" /\ t.kind = "sessions"
    BY RequestType DEF Access!Kinds
  <2> HIDE DEF r, t
  <2>3. CASE Access!Send([t EXCEPT !.on = d.on])
    <3> DEFINE q == [t EXCEPT !.on = d.on]
    <3>1. q \in Access!Requests /\ q.by = p /\ q.step = "arrived" /\ q.kind = "sessions"
      BY <1>1, <2>2 DEF Access!Requests, Access!Dialogs
    <3> HIDE DEF q
    <3> QED
      BY <2>3, <3>1 DEF Honest, Sends, q
  <2>4. CASE \E portal \in Access!Portals, able \in BOOLEAN :
               Access!Send([r EXCEPT !.on = d.on, !.rev = d.rev, !.portal = portal, !.active = able])
    <3>1. PICK portal \in Access!Portals, able \in BOOLEAN :
               Access!Send([r EXCEPT !.on = d.on, !.rev = d.rev, !.portal = portal, !.active = able])
      BY <2>4
    <3> DEFINE q == [r EXCEPT !.on = d.on, !.rev = d.rev, !.portal = portal, !.active = able]
    <3>2. q \in Access!Requests /\ q.by = p /\ q.step = "arrived" /\ q.kind = "account" /\ q.staff
      BY <1>1, <2>1 DEF Access!Requests, Access!Dialogs
    <3>3. Access!Send(q)
      BY <3>1
    <3> HIDE DEF q
    <3> QED
      BY <3>2, <3>3 DEF Honest, Sends
  <2> QED
    BY <1>5, <2>3, <2>4 DEF Access!SubmitAccount, r, t
<1>6. CASE Access!DeleteSite(p)
  <2> DEFINE r == Access!Request(p, "site")
             q == [r EXCEPT !.nr = d.nr]
  <2>1. r \in Access!Requests /\ r.by = p /\ r.step = "arrived" /\ r.kind = "site"
    BY RequestType DEF Access!Kinds
  <2> HIDE DEF r
  <2>2. q \in Access!Requests /\ q.by = p /\ q.step = "arrived" /\ q.kind = "site"
    BY <1>1, <2>1 DEF Access!Requests, Access!Dialogs
  <2>3. Access!Send(q)
    BY <1>6 DEF Access!DeleteSite, r
  <2> HIDE DEF q
  <2> QED
    BY <2>2, <2>3 DEF Honest, Sends
<1> QED
  BY <1>3, <1>4, <1>5, <1>6

LEMMA LinkSends ==
  ASSUME Access!CastsAssumption, Access!TypeOK, NEW p \in People,
         \/ Access!Invite(p) \/ Access!InviteFromConsole(p) \/ Access!RevokeLink(p) \/ Access!RevokeFromConsole(p)
         \/ Access!Accept(p) \/ Access!AcceptAsInstaller(p) \/ Access!Register(p)
  PROVE  Sends
<1>1. ASSUME NEW r \in Access!Requests, r.by = p, r.step = "arrived", r.kind = "invite",
             NEW person \in People, NEW role \in Access!Roles, NEW scope \in SUBSET Places,
             Access!Send([r EXCEPT !.on = person, !.role = role, !.scope = scope])
      PROVE  Sends
  <2>1. ASSUME NEW q \in Access!Requests, q.by = p, q.step = "arrived", q.kind = "invite", Access!Send(q) PROVE Sends
    BY <2>1 DEF Honest, Sends
  <2>2. /\ [r EXCEPT !.on = person, !.role = role, !.scope = scope] \in Access!Requests
        /\ [r EXCEPT !.on = person, !.role = role, !.scope = scope].by = p
        /\ [r EXCEPT !.on = person, !.role = role, !.scope = scope].step = "arrived"
        /\ [r EXCEPT !.on = person, !.role = role, !.scope = scope].kind = "invite"
    BY <1>1 DEF Access!Requests
  <2> QED
    BY <1>1, <2>1, <2>2
<1>2. ASSUME NEW r \in Access!Requests, r.by = p, r.step = "arrived", r.kind \in {"revoke", "accept"},
             NEW l \in Nat, r.kind = "accept" => l \in 1 .. MaxLinks, Access!Send([r EXCEPT !.nr = l])
      PROVE  Sends
  <2>1. /\ [r EXCEPT !.nr = l] \in Access!Requests /\ [r EXCEPT !.nr = l].by = p
        /\ [r EXCEPT !.nr = l].step = "arrived" /\ [r EXCEPT !.nr = l].kind \in {"revoke", "accept"}
        /\ [r EXCEPT !.nr = l].kind = "accept" => [r EXCEPT !.nr = l].nr \in 1 .. MaxLinks
    BY <1>2 DEF Access!Requests
  <2> QED
    BY <1>2, <2>1 DEF Honest, Sends
<1>3. CASE Access!Invite(p) \/ Access!InviteFromConsole(p)
  <2> DEFINE r == Access!Request(p, "invite")
  <2>1. r \in Access!Requests /\ r.by = p /\ r.step = "arrived" /\ r.kind = "invite"
    BY RequestType DEF Access!Kinds
  <2>2. CASE Access!Invite(p)
    <3>1. PICK person \in People, role \in Access!FormRoles(p) : \E scope \in Access!FormScopes(role) :
             Access!Send([r EXCEPT !.on = person, !.role = role, !.scope = scope])
      BY <2>2 DEF Access!Invite
    <3>2. PICK scope \in Access!FormScopes(role) : Access!Send([r EXCEPT !.on = person, !.role = role, !.scope = scope])
      BY <3>1
    <3>3. role \in Access!Roles /\ scope \in SUBSET Places
      BY DEF Access!FormRoles, Access!FormScopes, Access!Unlimited
    <3> HIDE DEF r
    <3> QED
      BY <1>1, <2>1, <3>2, <3>3
  <2>3. CASE Access!InviteFromConsole(p)
    <3>1. PICK person \in People, role \in Access!Roles : Access!Send([r EXCEPT !.on = person, !.role = role])
      BY <2>3 DEF Access!InviteFromConsole
    <3> DEFINE q == [r EXCEPT !.on = person, !.role = role]
    <3> HIDE DEF r
    <3>2. q \in Access!Requests /\ q.by = p /\ q.step = "arrived" /\ q.kind = "invite"
      BY <2>1 DEF Access!Requests
    <3>3. Access!Send(q)
      BY <3>1
    <3> HIDE DEF q
    <3> QED
      BY <3>2, <3>3 DEF Honest, Sends
  <2> QED
    BY <1>3, <2>2, <2>3
<1>4. CASE Access!RevokeLink(p) \/ Access!RevokeFromConsole(p)
  <2>1. PICK l \in 1 .. MaxLinks : Access!Send([Access!Request(p, "revoke") EXCEPT !.nr = l])
    BY <1>4 DEF Access!RevokeLink, Access!RevokeFromConsole, Access!Revoke
  <2>2. l \in Nat
    BY DEF Access!CastsAssumption
  <2> QED
    BY <1>2, <2>1, <2>2, RequestType DEF Access!Kinds
<1>5. CASE Access!Accept(p) \/ Access!AcceptAsInstaller(p) \/ Access!Register(p)
  <2>1. Access!Send([Access!Request(p, "accept") EXCEPT !.nr = pages[p].preview])
    BY <1>5 DEF Access!Accept, Access!AcceptAsInstaller, Access!Register, Access!Accepting
  <2>2. pages[p].preview \in 1 .. MaxLinks /\ pages[p].preview \in Nat
    BY <1>5 DEF Access!TypeOK, Access!Pages, Access!Accept, Access!AcceptAsInstaller,
       Access!Register, Access!Accepting, Access!CastsAssumption
  <2> QED
    BY <1>2, <2>1, <2>2, RequestType DEF Access!Kinds
<1> QED
  BY <1>3, <1>4, <1>5

\* A visitor looks or sends.
LEMMA VisitorSteps ==
  ASSUME Access!CastsAssumption, Access!TypeOK, SeenInv, NEW p \in People, Access!Visitor(p)
  PROVE  Looks \/ Sends
BY ReadLooks, DialogLooks, SignInLooks, UpdateSends, ConsoleSends, LinkSends DEF Access!Visitor
-----------------------------------------------------------------------------
(* What stays true of what a request has checked.                          *)

RoleAfter(q) == IF "role" \in q.writes THEN q.role ELSE members[q.on].role
ActiveAfter(q) == IF "active" \in q.writes THEN q.active ELSE members[q.on].active
ScopeAfter(q) == IF "scope" \in q.writes THEN q.scope ELSE members[q.on].scope

\* It leaves an owner, limits no owner, and turns on only what was seen as turned off.
UpdateSafe(q) ==
    /\ Access!Owner(q.on) /\ ~(RoleAfter(q) = "owner" /\ ActiveAfter(q))
          => \E p \in People \ {q.on} : Access!Owner(p)
    /\ RoleAfter(q) = "owner" => ScopeAfter(q) = Access!Unlimited
    /\ "active" \in q.writes /\ q.active => q.off

JoinSafe(person, q) == (person \in People => members[person] = Access!NoMember) /\ (q.role = "owner" => q.scope = Access!Unlimited)

\* It leaves a head administrator.
AccountSafe(q) ==
    /\ q.staff
    /\ q.on \in People /\ Access!HeadAdministrator(q.on) /\ ~(q.active /\ q.portal = "superadmin")
          => \E p \in People \ {q.on} : Access!HeadAdministrator(p)

\* A member's right to invite, and to invite an owner.
Invites(p, role) ==
    /\ p \in People /\ members[p].active /\ members[p].scope = Access!Unlimited
    /\ members[p].role \in {"owner", "admin"}
    /\ role = "owner" => members[p].role = "owner"

CheckedSafe(q) ==
    /\ q.kind = "update" => q.on \in People /\ UpdateSafe(q)
    /\ q.kind = "add" => JoinSafe(q.on, q)
    /\ q.kind = "accept" => /\ JoinSafe(q.by, q) /\ q.nr \in 1 .. MaxLinks
                            /\ q.staff \/ Invites(links[q.nr].by, q.role)
    /\ q.kind = "account" => AccountSafe(q)
    /\ q.kind = "invite" => q.by \in People

CheckedAreSafe == \A i \in 1 .. MaxWrites : requests[i].step = "checked" => CheckedSafe(requests[i])

\* Two requests that have checked hold no lock in common.
Exclusive ==
    \A i, j \in 1 .. MaxWrites :
        i # j /\ requests[i].step = "checked" /\ requests[j].step = "checked"
        => Access!Locks(requests[i]) \cap Access!Locks(requests[j]) = {}

RowsFit ==
    \A p \in People : /\ members[p].role = "owner" => members[p].scope = Access!Unlimited
                      /\ members[p].rev = 0 => members[p] = Access!NoMember
                      /\ accounts[p].active => accounts[p].known

\* An invitation that is open has an author.
LinksFit == \A l \in 1 .. MaxLinks : links[l].state = "open" => links[l].by \in People

MembershipInv ==
    Access!TypeOK /\ SeenInv /\ ArrivedAreHonest /\ RowsFit /\ LinksFit /\ CheckedAreSafe /\ Exclusive

LEMMA InitSafe == ASSUME Access!CastsAssumption, Access!Init PROVE MembershipInv
<1>1. Access!TypeOK
  BY InitTypes
<1>2. RowsFit /\ LinksFit
  BY DEF Access!Init, Access!CastsAssumption, RowsFit, LinksFit
<1>3. \A i \in 1 .. MaxWrites : requests[i].step = "none"
  BY DEF Access!Init, Access!NoRequest
<1>4. \A p \in People : pages[p].list = [o \in People |-> Access!NoMember] /\ pages[p].dialog.kind = "none"
  BY DEF Access!Init, Access!NoPage, Access!NoDialog
<1>5. Access!NoMember.rev = 0
  BY DEF Access!NoMember
<1>6. ListsAreKnown
  BY <1>1, <1>2, <1>4, <1>5 DEF ListsAreKnown, RowsFit, Access!TypeOK, Access!MemberRows
<1>7. DialogsAreKnown
  BY <1>4 DEF DialogsAreKnown
<1> QED
  BY <1>1, <1>2, <1>3, <1>6, <1>7 DEF SeenInv, MembershipInv, ArrivedAreHonest, CheckedAreSafe,
     Exclusive

\* The condition of a request depends on the rows of members, accounts and invitations only.
LEMMA SafeWithout ==
  ASSUME UNCHANGED <<members, accounts, links>> PROVE \A q : CheckedSafe(q) => CheckedSafe(q)'
BY DEF CheckedSafe, UpdateSafe, RoleAfter, ActiveAfter, ScopeAfter, JoinSafe, AccountSafe, Invites,
   Access!Owner, Access!HeadAdministrator, Access!Staff

LEMMA LooksSafe == ASSUME MembershipInv, Looks PROVE MembershipInv'
<1>1. Access!TypeOK'
  BY DEF MembershipInv, Looks, Access!TypeOK
<1>2. ArrivedAreHonest'
  BY DEF MembershipInv, Looks, ArrivedAreHonest, Honest, Known
<1>3. RowsFit' /\ LinksFit' /\ Exclusive'
  BY DEF MembershipInv, Looks, RowsFit, LinksFit, Exclusive
<1>4. CheckedAreSafe'
  BY SafeWithout DEF MembershipInv, Looks, CheckedAreSafe
<1> QED
  BY <1>1, <1>2, <1>3, <1>4 DEF MembershipInv, Looks, SeenInv

LEMMA SendSafe == ASSUME MembershipInv, Sends PROVE MembershipInv'
<1>1. PICK q \in Access!Requests : Access!Send(q) /\ Honest(q)
  BY DEF Sends
<1>2. PICK i \in 1 .. MaxWrites :
         /\ requests' = [requests EXCEPT ![i] = q]
         /\ pages' = [pages EXCEPT ![q.by].busy = @ \cup {i}]
         /\ UNCHANGED Access!rows
  BY <1>1 DEF Access!Send
<1>3. UNCHANGED <<members, accounts, links>>
  BY <1>2 DEF Access!rows
<1>4. Access!TypeOK'
  BY <1>1, SendTypes DEF MembershipInv
<1>5. \A o \in People : pages'[o].list = pages[o].list /\ pages'[o].dialog = pages[o].dialog
  BY <1>2 DEF MembershipInv, Access!TypeOK, Access!Pages
<1>6. SeenInv'
  BY <1>3, <1>5 DEF MembershipInv, SeenInv, ListsAreKnown, DialogsAreKnown, Known
<1>7. \A j \in 1 .. MaxWrites : requests'[j] = IF j = i THEN q ELSE requests[j]
  BY <1>2 DEF MembershipInv, Access!TypeOK
<1>8. ArrivedAreHonest'
  BY <1>1, <1>3, <1>7 DEF MembershipInv, ArrivedAreHonest, Honest, Known
<1>9. q.step # "checked"
  BY <1>1 DEF Honest
<1>10. RowsFit' /\ LinksFit' /\ Exclusive'
  BY <1>3, <1>7, <1>9 DEF MembershipInv, RowsFit, LinksFit, Exclusive
<1>11. CheckedAreSafe'
  BY <1>3, <1>7, <1>9, SafeWithout DEF MembershipInv, CheckedAreSafe
<1> QED
  BY <1>4, <1>6, <1>8, <1>10, <1>11 DEF MembershipInv

-----------------------------------------------------------------------------
(* The checks of the server.                                               *)

LEMMA AnsweredLooks ==
  ASSUME Access!TypeOK, NEW i \in 1 .. MaxWrites, NEW success \in BOOLEAN, Access!Answered(i, success)
  PROVE  /\ pages' \in [People -> Access!Pages]
         /\ \A o \in People : /\ pages'[o].list = pages[o].list
                              /\ pages'[o].dialog = pages[o].dialog \/ pages'[o].dialog.kind = "none"
<1> DEFINE by == requests[i].by
           settled == success /\ i \in pages[by].busy
           busy == pages[by].busy \ {i}
           opened == IF settled /\ Access!Lane(requests[i]) = "dialog" THEN Access!NoDialog ELSE pages[by].dialog
           offer == IF settled /\ requests[i].kind = "accept" THEN 0 ELSE pages[by].preview
<1>1. pages' = [pages EXCEPT ![by].busy = busy, ![by].dialog = opened, ![by].preview = offer]
  BY DEF Access!Answered
<1>2. by \in People => /\ busy \in SUBSET (1 .. MaxWrites) /\ opened \in Access!Dialogs
                       /\ offer \in {0} \cup 1 .. MaxLinks
                       /\ opened = pages[by].dialog \/ opened.kind = "none"
  BY EmptyRows DEF Access!TypeOK, Access!Pages, Access!NoDialog
<1> HIDE DEF busy, opened, offer, by
<1>3. \A o \in People : o # by => pages'[o] = pages[o]
  BY <1>1 DEF Access!TypeOK
<1>4. by \in People => pages'[by] = [pages[by] EXCEPT !.busy = busy, !.dialog = opened, !.preview = offer]
  BY <1>1 DEF Access!TypeOK
<1>5. by \in People => pages'[by] \in Access!Pages /\ pages'[by].list = pages[by].list /\ pages'[by].dialog = opened
  BY <1>2, <1>4 DEF Access!TypeOK, Access!Pages
<1>6. pages' \in [People -> Access!Pages]
  BY <1>1, <1>3, <1>5 DEF Access!TypeOK
<1> QED
  BY <1>2, <1>3, <1>5, <1>6

\* What is checked under the locks is what has to hold at the commit.
LEMMA LoadedSafe ==
  ASSUME MembershipInv, NEW q \in Access!Requests, Honest(q), Access!Fits(q)
  PROVE  /\ [Access!Loaded(q) EXCEPT !.step = "checked"] \in Access!Requests
         /\ CheckedSafe([Access!Loaded(q) EXCEPT !.step = "checked"])
         /\ Access!Locks([Access!Loaded(q) EXCEPT !.step = "checked"]) = Access!Locks(q)
<1>1. CASE q.kind = "update"
  <2> DEFINE writes == {f \in q.sends : \/ f = "role" /\ q.role # members[q.on].role
                                        \/ f = "active" /\ q.active # members[q.on].active
                                        \/ f = "scope" /\ q.scope # members[q.on].scope}
             n == [q EXCEPT !.writes = writes, !.step = "checked"]
  <2>1. [Access!Loaded(q) EXCEPT !.step = "checked"] = n
    BY <1>1 DEF Access!Loaded, Access!Requests
  <2>2. writes \in SUBSET Access!Fields
    BY DEF Access!Requests
  <2>3. /\ n.writes = writes /\ n.role = q.role /\ n.active = q.active /\ n.scope = q.scope
        /\ n.on = q.on /\ n.off = q.off /\ n.kind = "update" /\ n.staff = q.staff /\ n.by = q.by
    BY <1>1 DEF Access!Requests
  <2>4. n \in Access!Requests
    BY <2>2 DEF Access!Requests
  <2>5. q.on \in People /\ Known(q.on, q.rev, q.off)
    BY <1>1 DEF Honest, Known
  <2>6. members[q.on] \in Access!MemberRows
    BY <2>5 DEF MembershipInv, Access!TypeOK
  <2>7. Access!UpdateFits(q)
    BY <1>1 DEF Access!Fits
  <2>8. RoleAfter(n) = Access!After(q, "role") /\ ActiveAfter(n) = Access!After(q, "active")
        /\ ScopeAfter(n) = Access!After(q, "scope")
    BY <2>3, <2>6 DEF RoleAfter, ActiveAfter, ScopeAfter, Access!After
  <2>9. Access!Owner(n.on) /\ ~(RoleAfter(n) = "owner" /\ ActiveAfter(n)) => \E p \in People \ {n.on} : Access!Owner(p)
    BY <2>3, <2>7, <2>8 DEF Access!UpdateFits
  <2>10. RoleAfter(n) = "owner" => ScopeAfter(n) = Access!Unlimited
    BY <2>7, <2>8 DEF Access!UpdateFits, Access!ScopeFits
  <2>11. "active" \in writes /\ q.active => q.off
    BY <2>5, <2>6, <2>7 DEF Access!UpdateFits, Access!Current, Known, Access!MemberRows,
       Access!Requests
  <2>12. CheckedSafe(n)
    BY <2>3, <2>5, <2>9, <2>10, <2>11 DEF CheckedSafe, UpdateSafe
  <2>13. Access!Locks(n) = Access!Locks(q)
    BY <1>1, <2>3 DEF Access!Locks
  <2> QED
    BY <2>1, <2>4, <2>12, <2>13
<1>2. CASE q.kind = "accept"
  <2> DEFINE by == links[q.nr].by
             staff == Access!Staff(by)
             n == [q EXCEPT !.role = links[q.nr].role, !.scope = links[q.nr].scope,
                            !.staff = staff, !.step = "checked"]
  <2>0. staff \in BOOLEAN
    BY DEF Access!Staff
  <2>1. [Access!Loaded(q) EXCEPT !.step = "checked"] = n
    BY <1>2 DEF Access!Loaded, Access!Requests
  <2>2. links[q.nr] \in Access!LinkRows
    BY <1>2 DEF Honest, MembershipInv, Access!TypeOK
  <2>3. /\ n.role = links[q.nr].role /\ n.scope = links[q.nr].scope /\ n.on = q.on
        /\ n.kind = "accept" /\ n.staff = Access!Staff(by) /\ n.by = q.by /\ n.nr = q.nr
    BY <1>2 DEF Access!Requests
  <2> HIDE DEF staff
  <2>4. n \in Access!Requests
    BY <2>0, <2>2 DEF Access!Requests, Access!LinkRows
  <2> USE DEF staff
  <2>5. JoinSafe(n.by, n)
    BY <1>2, <2>3 DEF Access!Fits, Access!AcceptFits, Access!Member, Access!ScopeFits, JoinSafe
  <2>6. Access!Locks(n) = Access!Locks(q)
    BY <1>2, <2>3 DEF Access!Locks
  <2>7. by \in People /\ q.nr \in 1 .. MaxLinks
    BY <1>2 DEF Access!Fits, Access!AcceptFits, Honest, MembershipInv, LinksFit
  <2>8. n.staff \/ Invites(by, n.role)
    BY <1>2, <2>3, <2>7 DEF Access!Fits, Access!AcceptFits, Access!InviterStands, Access!Manages, Access!Administers,
       Access!Owner, Invites
  <2> QED
    BY <2>1, <2>3, <2>4, <2>5, <2>6, <2>7, <2>8 DEF CheckedSafe
<1>3. CASE q.kind \notin {"update", "accept"}
  <2> DEFINE n == [q EXCEPT !.step = "checked"]
  <2>1. [Access!Loaded(q) EXCEPT !.step = "checked"] = n
    BY <1>3 DEF Access!Loaded
  <2>2. n \in Access!Requests
    BY DEF Access!Requests
  <2>3. /\ n.role = q.role /\ n.scope = q.scope /\ n.on = q.on /\ n.kind = q.kind /\ n.staff = q.staff
        /\ n.by = q.by /\ n.active = q.active /\ n.portal = q.portal
    BY DEF Access!Requests
  <2>4. n.kind = "add" => JoinSafe(n.on, n)
    BY <1>3, <2>3 DEF Access!Fits, Access!AddFits, Access!Member, Access!ScopeFits, JoinSafe
  <2>5. n.kind = "account" => AccountSafe(n)
    BY <1>3, <2>3 DEF Access!Fits, Access!AccountFits, AccountSafe, Honest
  <2>6. Access!Locks(n) = Access!Locks(q)
    BY <2>3 DEF Access!Locks
  <2> HIDE DEF n
  <2> QED
    BY <1>3, <2>1, <2>2, <2>3, <2>4, <2>5, <2>6 DEF CheckedSafe, Honest
<1> QED
  BY <1>1, <1>2, <1>3


LEMMA CheckSafe ==
  ASSUME MembershipInv, NEW i \in 1 .. MaxWrites, Access!Check(i)
  PROVE  MembershipInv'
<1> DEFINE q == requests[i]
           n == IF Access!Fits(q) THEN [Access!Loaded(q) EXCEPT !.step = "checked"] ELSE Access!Done
<1>1. q \in Access!Requests /\ q.step = "arrived" /\ Access!Free(q) /\ Honest(q) /\ UNCHANGED Access!rows
  BY DEF MembershipInv, Access!TypeOK, Access!Check, ArrivedAreHonest
<1>2. requests' = [requests EXCEPT ![i] = n]
  BY DEF Access!Check
<1>3. n \in Access!Requests
  BY <1>1, LoadedSafe, EmptyRows
<1>4. n.step = "checked" => CheckedSafe(n) /\ Access!Locks(n) = Access!Locks(q)
  BY <1>1, LoadedSafe DEF Access!Done, Access!NoRequest
<1>5. n.step \in {"checked", "done"}
  BY <1>1, LoadedSafe DEF Access!Done, Access!NoRequest, Access!Loaded, Access!Requests
<1> HIDE DEF n
<1>6. \A j \in 1 .. MaxWrites : requests'[j] = IF j = i THEN n ELSE requests[j]
  BY <1>2 DEF MembershipInv, Access!TypeOK
<1>7. /\ pages' \in [People -> Access!Pages]
      /\ \A o \in People : /\ pages'[o].list = pages[o].list
                           /\ pages'[o].dialog = pages[o].dialog \/ pages'[o].dialog.kind = "none"
  <2>1. CASE Access!Fits(q)
    BY <2>1 DEF Access!Check, MembershipInv, Access!TypeOK
  <2>2. CASE ~Access!Fits(q)
    BY <2>2, AnsweredLooks DEF Access!Check, MembershipInv
  <2> QED
    BY <2>1, <2>2
<1>8. Access!TypeOK'
  BY <1>1, <1>2, <1>3, <1>7 DEF MembershipInv, Access!TypeOK, Access!rows
<1>9. SeenInv'
  BY <1>1, <1>7 DEF MembershipInv, SeenInv, ListsAreKnown, DialogsAreKnown, Known, Access!rows
<1>10. ArrivedAreHonest'
  BY <1>1, <1>5, <1>6 DEF MembershipInv, ArrivedAreHonest, Honest, Known, Access!rows
<1>11. CheckedAreSafe'
  <2>1. UNCHANGED <<members, accounts, links>>
    BY <1>1 DEF Access!rows
  <2> QED
    BY <1>4, <1>6, <2>1, SafeWithout DEF MembershipInv, CheckedAreSafe
<1>12. Exclusive'
  <2>1. \A j \in 1 .. MaxWrites : requests[j].step = "checked" => Access!Locks(requests[j]) \cap Access!Locks(q) = {}
    BY <1>1 DEF Access!Free
  <2> QED
    BY <1>4, <1>6, <2>1 DEF MembershipInv, Exclusive
<1>13. RowsFit' /\ LinksFit'
  BY <1>1 DEF MembershipInv, RowsFit, LinksFit, Access!rows
<1> QED
  BY <1>8, <1>9, <1>10, <1>11, <1>12, <1>13 DEF MembershipInv

-----------------------------------------------------------------------------
(* The commits of the server.                                              *)

Survive == \A p \in People : members'[p] = members[p] \/ members'[p].rev > members[p].rev

\* The rows after a commit fit what they are, and versions only grow.
RowsStayTyped ==
    /\ members' \in [People -> Access!MemberRows] /\ accounts' \in [People -> Access!AccountRows]
    /\ links' \in [1 .. MaxLinks -> Access!LinkRows]
    /\ signedIn' \subseteq People /\ places' \subseteq Places /\ asks' = asks

\* A commit leaves alone what was checked by requests that hold none of its locks.
LeavesOthers(i) ==
    \A q \in Access!Requests :
        Access!Locks(q) \cap Access!Locks(requests[i]) = {} /\ CheckedSafe(q) => CheckedSafe(q)'

LEMMA CommitKeeps ==
  ASSUME MembershipInv, NEW i \in 1 .. MaxWrites, Access!Finish(i), RowsStayTyped, RowsFit', LinksFit',
         Survive, LeavesOthers(i)
  PROVE  MembershipInv'
<1>1. \A j \in 1 .. MaxWrites : requests'[j] = IF j = i THEN Access!Done ELSE requests[j]
  BY DEF MembershipInv, Access!TypeOK, Access!Finish
<1>2. Access!Done.step = "done"
  BY DEF Access!Done, Access!NoRequest
<1>3. /\ pages' \in [People -> Access!Pages]
      /\ \A o \in People : /\ pages'[o].list = pages[o].list
                           /\ pages'[o].dialog = pages[o].dialog \/ pages'[o].dialog.kind = "none"
  BY AnsweredLooks DEF Access!Finish, MembershipInv
<1>4. requests' \in [1 .. MaxWrites -> Access!Requests]
  BY EmptyRows DEF MembershipInv, Access!TypeOK, Access!Finish
<1>5. Access!TypeOK'
  BY <1>3, <1>4 DEF MembershipInv, Access!TypeOK, RowsStayTyped
<1>6. \A person \in People : members[person].rev \in Nat /\ members'[person].rev \in Nat
  BY DEF MembershipInv, Access!TypeOK, RowsStayTyped, Access!MemberRows
<1>7. \A o, person \in People : pages[o].list[person].rev \in Nat
  BY DEF MembershipInv, Access!TypeOK, Access!Pages, Access!MemberRows
<1>8. ListsAreKnown'
  BY <1>3, <1>6, <1>7 DEF MembershipInv, SeenInv, ListsAreKnown, Survive
<1>9. \A person, rev, off : rev \in Nat /\ Known(person, rev, off) => Known(person, rev, off)'
  BY <1>6 DEF Known, Survive
<1>10. DialogsAreKnown'
  <2>1. \A o \in People : pages[o].dialog.rev \in Nat
    BY DEF MembershipInv, Access!TypeOK, Access!Pages, Access!Dialogs
  <2> QED
    BY <1>3, <1>9, <2>1 DEF MembershipInv, SeenInv, DialogsAreKnown
<1>11. ArrivedAreHonest'
  <2>1. \A j \in 1 .. MaxWrites : requests[j].rev \in Nat
    BY DEF MembershipInv, Access!TypeOK, Access!Requests
  <2> QED
    BY <1>1, <1>2, <1>9, <2>1 DEF MembershipInv, ArrivedAreHonest, Honest
<1>12. CheckedAreSafe'
  <2>1. ASSUME NEW j \in 1 .. MaxWrites, requests'[j].step = "checked" PROVE CheckedSafe(requests[j])'
    <3>1. j # i /\ requests'[j] = requests[j] /\ requests[j] \in Access!Requests
      BY <1>1, <1>2, <2>1 DEF MembershipInv, Access!TypeOK
    <3>2. CheckedSafe(requests[j]) /\ Access!Locks(requests[j]) \cap Access!Locks(requests[i]) = {}
      BY <2>1, <3>1 DEF MembershipInv, CheckedAreSafe, Exclusive, Access!Finish
    <3>3. PICK q \in Access!Requests : q = requests[j]
      BY <3>1
    <3>4. CheckedSafe(q)'
      BY <3>2, <3>3 DEF LeavesOthers
    <3> QED
      BY <3>1, <3>3, <3>4
  <2> QED
    BY <2>1 DEF CheckedAreSafe
<1>13. Exclusive'
  BY <1>1, <1>2 DEF MembershipInv, Exclusive
<1> QED
  BY <1>5, <1>8, <1>10, <1>11, <1>12, <1>13 DEF MembershipInv, SeenInv

\* What commits alone among the requests for the organization: no other request that has
\* checked depends on its members.
LEMMA OrganizationAlone ==
  ASSUME NEW i \in 1 .. MaxWrites, requests[i].kind \in {"update", "add", "accept"},
         \A p \in People : Access!HeadAdministrator(p)' = Access!HeadAdministrator(p)
  PROVE  LeavesOthers(i)
<1> SUFFICES ASSUME NEW q \in Access!Requests, Access!Locks(q) \cap Access!Locks(requests[i]) = {}, CheckedSafe(q)
             PROVE  CheckedSafe(q)'
  BY DEF LeavesOthers
<1>1. "organization" \in Access!Locks(requests[i])
  BY DEF Access!Locks
<1>2. q.kind \notin {"update", "add", "accept"}
  BY <1>1 DEF Access!Locks
<1>3. AccountSafe(q) => AccountSafe(q)'
  BY DEF AccountSafe
<1> QED
  BY <1>2, <1>3 DEF CheckedSafe

LEMMA UpdateCommits ==
  ASSUME MembershipInv, NEW i \in 1 .. MaxWrites, Access!CommitUpdate(i)
  PROVE  MembershipInv'
<1> DEFINE q == requests[i]
           entry == members[q.on]
           new == [role |-> RoleAfter(q), active |-> ActiveAfter(q), scope |-> ScopeAfter(q),
                   rev |-> entry.rev + 1]
<1>1. q \in Access!Requests /\ q.kind = "update" /\ Access!Finish(i) /\ UNCHANGED <<accounts, signedIn, places, links, asks>>
  BY DEF MembershipInv, Access!TypeOK, Access!CommitUpdate
<1>2. members' = members \/ members' = [members EXCEPT ![q.on] = new]
  BY DEF Access!CommitUpdate, RoleAfter, ActiveAfter, ScopeAfter
<1>3. q.on \in People /\ UpdateSafe(q)
  BY <1>1 DEF MembershipInv, CheckedAreSafe, CheckedSafe, Access!Finish
<1>4. entry \in Access!MemberRows
  BY <1>3 DEF MembershipInv, Access!TypeOK
<1>5. new \in Access!MemberRows
  BY <1>1, <1>4 DEF Access!MemberRows, Access!Requests, RoleAfter, ActiveAfter, ScopeAfter
<1>6. new.rev > entry.rev /\ new.rev # 0 /\ (new.role = "owner" => new.scope = Access!Unlimited)
  BY <1>3, <1>4 DEF Access!MemberRows, UpdateSafe
<1> HIDE DEF new
<1>7. \A p \in People : members'[p] = members[p] \/ (p = q.on /\ members'[p] = new)
  BY <1>2 DEF MembershipInv, Access!TypeOK
<1>8. RowsStayTyped
  BY <1>1, <1>2, <1>5 DEF MembershipInv, Access!TypeOK, RowsStayTyped
<1>9. RowsFit'
  BY <1>1, <1>6, <1>7 DEF MembershipInv, RowsFit
<1>10. Survive
  BY <1>6, <1>7 DEF Survive
<1>11. \A p \in People : Access!HeadAdministrator(p)' = Access!HeadAdministrator(p)
  BY <1>1 DEF Access!HeadAdministrator, Access!Staff
<1>12. LinksFit'
  BY <1>1 DEF MembershipInv, LinksFit
<1> QED
  BY <1>1, <1>8, <1>9, <1>10, <1>11, <1>12, OrganizationAlone, CommitKeeps

LEMMA JoinCommits ==
  ASSUME MembershipInv, NEW i \in 1 .. MaxWrites, NEW person,
         requests[i].kind \in {"add", "accept"}, Access!Finish(i), JoinSafe(person, requests[i]),
         members' = Access!Joined(person, requests[i]),
         accounts' \in [People -> Access!AccountRows], links' \in [1 .. MaxLinks -> Access!LinkRows], LinksFit',
         \A p \in People : accounts'[p].active => accounts'[p].known,
         \A p \in People : Access!HeadAdministrator(p)' = Access!HeadAdministrator(p),
         UNCHANGED <<signedIn, places, asks>>
  PROVE  MembershipInv'
<1> DEFINE q == requests[i]
           new == [role |-> q.role, active |-> TRUE, scope |-> q.scope, rev |-> 1]
<1>1. q \in Access!Requests
  BY DEF MembershipInv, Access!TypeOK
<1>2. members' = [members EXCEPT ![person] = new]
  BY DEF Access!Joined
<1>3. new \in Access!MemberRows /\ new.rev = 1 /\ (new.role = "owner" => new.scope = Access!Unlimited)
  BY <1>1 DEF Access!MemberRows, Access!Requests, JoinSafe
<1> HIDE DEF new
<1>4. \A p \in People : \/ members'[p] = members[p]
                        \/ members[p] = Access!NoMember /\ members'[p] = new
  BY <1>2 DEF MembershipInv, Access!TypeOK, JoinSafe
<1>5. RowsStayTyped
  BY <1>2, <1>3 DEF MembershipInv, Access!TypeOK, RowsStayTyped
<1>6. RowsFit'
  BY <1>3, <1>4 DEF MembershipInv, RowsFit
<1>7. Survive
  <2>1. Access!NoMember.rev = 0
    BY DEF Access!NoMember
  <2> QED
    BY <1>3, <1>4, <2>1 DEF Survive
<1> QED
  BY <1>5, <1>6, <1>7, OrganizationAlone, CommitKeeps

LEMMA AddCommits ==
  ASSUME MembershipInv, NEW i \in 1 .. MaxWrites, Access!CommitAdd(i)
  PROVE  MembershipInv'
<1>1. JoinSafe(requests[i].on, requests[i])
  BY DEF Access!CommitAdd, Access!Finish, MembershipInv, CheckedAreSafe, CheckedSafe
<1>2. \A p \in People : Access!HeadAdministrator(p)' = Access!HeadAdministrator(p)
  BY DEF Access!CommitAdd, Access!HeadAdministrator, Access!Staff
<1>3. UNCHANGED <<accounts, links, signedIn, places, asks>>
  BY DEF Access!CommitAdd
<1>4. LinksFit'
  BY <1>3 DEF MembershipInv, LinksFit
<1> QED
  BY <1>1, <1>2, <1>3, <1>4, JoinCommits DEF Access!CommitAdd, MembershipInv, Access!TypeOK, RowsFit

LEMMA AcceptCommits ==
  ASSUME MembershipInv, NEW i \in 1 .. MaxWrites, Access!CommitAccept(i)
  PROVE  MembershipInv'
<1> DEFINE by == requests[i].by
           account == IF accounts[by].known THEN accounts[by]
                      ELSE [known |-> TRUE, active |-> TRUE, portal |-> "user", rev |-> 1]
<1>1. JoinSafe(by, requests[i])
  BY DEF Access!CommitAccept, Access!Finish, MembershipInv, CheckedAreSafe, CheckedSafe
<1>2. accounts' = [accounts EXCEPT ![by] = account]
  BY DEF Access!CommitAccept
<1>3. by \in People => account \in Access!AccountRows
  BY DEF MembershipInv, Access!TypeOK, Access!AccountRows, Access!Portals
<1>4. by \in People => \/ account = accounts[by]
                       \/ /\ ~accounts[by].known /\ account.known
                          /\ account.portal # "superadmin"
  OBVIOUS
<1> HIDE DEF account
<1>5. \A p \in People : accounts'[p] = IF p = by THEN account ELSE accounts[p]
  BY <1>2 DEF MembershipInv, Access!TypeOK
<1>6. accounts' \in [People -> Access!AccountRows]
  BY <1>2, <1>3 DEF MembershipInv, Access!TypeOK
<1>7. \A p \in People : accounts'[p].active => accounts'[p].known
  BY <1>4, <1>5 DEF MembershipInv, RowsFit
<1>8. \A p \in People : accounts[p].active \in BOOLEAN /\ accounts'[p].active \in BOOLEAN
  BY <1>6 DEF MembershipInv, Access!TypeOK, Access!AccountRows
<1>9. \A p \in People : Access!HeadAdministrator(p)' = Access!HeadAdministrator(p)
  BY <1>4, <1>5, <1>8 DEF Access!HeadAdministrator, Access!Staff, MembershipInv, RowsFit
<1>10. links' \in [1 .. MaxLinks -> Access!LinkRows] /\ LinksFit'
  <2> DEFINE nr == requests[i].nr
             used == [links[nr] EXCEPT !.state = "used"]
  <2>1. links' = [links EXCEPT ![nr] = used]
    BY DEF Access!CommitAccept
  <2>2. nr \in 1 .. MaxLinks => used \in Access!LinkRows /\ used.state = "used"
    BY DEF MembershipInv, Access!TypeOK, Access!LinkRows
  <2> HIDE DEF used
  <2>3. links' \in [1 .. MaxLinks -> Access!LinkRows]
    BY <2>1, <2>2 DEF MembershipInv, Access!TypeOK
  <2>4. \A l \in 1 .. MaxLinks : links'[l] = IF l = nr THEN used ELSE links[l]
    BY <2>1 DEF MembershipInv, Access!TypeOK
  <2> QED
    BY <2>2, <2>3, <2>4 DEF MembershipInv, LinksFit
<1>11. /\ requests[i].kind \in {"add", "accept"} /\ Access!Finish(i)
       /\ members' = Access!Joined(by, requests[i])
       /\ UNCHANGED <<signedIn, places, asks>>
  BY DEF Access!CommitAccept
<1> HIDE DEF by
<1> QED
  BY <1>1, <1>6, <1>7, <1>9, <1>10, <1>11, JoinCommits

\* Invitations and sessions.  Only an acceptance depends on an invitation, and it waits for
\* the same lock.
LEMMA NeutralCommits ==
  ASSUME MembershipInv, NEW i \in 1 .. MaxWrites,
         Access!CommitInvite(i) \/ Access!CommitRevoke(i) \/ Access!CommitSessions(i)
  PROVE  MembershipInv'
<1> DEFINE q == requests[i]
<1>1. Access!Finish(i) /\ UNCHANGED <<members, accounts, places, asks>> /\ requests[i] \in Access!Requests
  BY DEF Access!CommitInvite, Access!CommitRevoke, Access!CommitSessions, MembershipInv,
     Access!TypeOK
<1>2. \A l \in 1 .. MaxLinks : links[l] \in Access!LinkRows
  BY DEF MembershipInv, Access!TypeOK
<1>3. links' \in [1 .. MaxLinks -> Access!LinkRows] /\ LinksFit'
  <2>1. CASE Access!CommitInvite(i)
    <3> DEFINE new == [to |-> q.on, by |-> q.by, role |-> q.role, scope |-> q.scope, state |-> "open"]
               old(m) == [links[m] EXCEPT !.state = "revoked"]
    <3>1. q.by \in People
      BY <1>1, <2>1 DEF Access!CommitInvite, Access!Finish, MembershipInv, CheckedAreSafe,
         CheckedSafe
    <3>2. new \in Access!LinkRows /\ new.by = q.by
      BY <1>1 DEF Access!LinkRows, Access!Requests
    <3>3. \A m \in 1 .. MaxLinks : old(m) \in Access!LinkRows /\ old(m).state = "revoked"
      BY <1>2 DEF Access!LinkRows
    <3>4. PICK l \in 1 .. MaxLinks :
             links' = [m \in 1 .. MaxLinks |->
                         IF m = l THEN new
                         ELSE IF links[m].to = q.on /\ links[m].state = "open" THEN old(m) ELSE links[m]]
      BY <2>1 DEF Access!CommitInvite
    <3> HIDE DEF new, old
    <3>5. links' \in [1 .. MaxLinks -> Access!LinkRows]
      BY <1>2, <3>2, <3>3, <3>4
    <3>6. \A m \in 1 .. MaxLinks : links'[m] = new \/ links'[m] = old(m) \/ links'[m] = links[m]
      BY <3>4
    <3> QED
      BY <3>1, <3>2, <3>3, <3>5, <3>6 DEF MembershipInv, LinksFit
  <2>2. CASE Access!CommitRevoke(i)
    <3> DEFINE l == requests[i].nr
               state == IF links[l].state = "open" THEN "revoked" ELSE links[l].state
               entry == [links[l] EXCEPT !.state = state]
    <3>1. links' = [links EXCEPT ![l] = entry]
      BY <2>2 DEF Access!CommitRevoke
    <3>2. l \in 1 .. MaxLinks => entry \in Access!LinkRows /\ entry.state # "open"
      BY <1>2 DEF Access!LinkRows
    <3> HIDE DEF entry
    <3>3. links' \in [1 .. MaxLinks -> Access!LinkRows]
      BY <3>1, <3>2 DEF MembershipInv, Access!TypeOK
    <3>4. \A m \in 1 .. MaxLinks : links'[m] = IF m = l THEN entry ELSE links[m]
      BY <3>1 DEF MembershipInv, Access!TypeOK
    <3> QED
      BY <3>2, <3>3, <3>4 DEF MembershipInv, LinksFit
  <2>3. CASE Access!CommitSessions(i)
    BY <2>3 DEF Access!CommitSessions, MembershipInv, Access!TypeOK, LinksFit
  <2> QED
    BY <2>1, <2>2, <2>3
<1>4. signedIn' \subseteq People
  BY DEF Access!CommitInvite, Access!CommitRevoke, Access!CommitSessions, MembershipInv,
     Access!TypeOK
<1>5. RowsStayTyped
  BY <1>1, <1>3, <1>4 DEF RowsStayTyped, MembershipInv, Access!TypeOK
<1>6. RowsFit' /\ Survive
  BY <1>1 DEF MembershipInv, RowsFit, Survive
<1>7. LeavesOthers(i)
  <2>1. CASE Access!CommitSessions(i)
    BY <1>1, <2>1, SafeWithout DEF Access!CommitSessions, LeavesOthers
  <2>2. CASE Access!CommitInvite(i) \/ Access!CommitRevoke(i)
    <3> SUFFICES ASSUME NEW r \in Access!Requests, Access!Locks(r) \cap Access!Locks(q) = {}, CheckedSafe(r)
                 PROVE  CheckedSafe(r)'
      BY DEF LeavesOthers
    <3>1. "organization" \in Access!Locks(q)
      BY <2>2 DEF Access!Locks, Access!CommitInvite, Access!CommitRevoke
    <3>2. r.kind # "accept"
      BY <3>1 DEF Access!Locks
    <3> QED
      BY <1>1, <3>2 DEF CheckedSafe, UpdateSafe, RoleAfter, ActiveAfter, ScopeAfter, JoinSafe,
         AccountSafe,
         Access!Owner, Access!HeadAdministrator, Access!Staff
  <2> QED
    BY <2>1, <2>2
<1> QED
  BY <1>1, <1>3, <1>5, <1>6, <1>7, CommitKeeps

\* An account is changed under the lock of administrative changes, which every other one
\* needs too.
LEMMA AccountCommits ==
  ASSUME MembershipInv, NEW i \in 1 .. MaxWrites, Access!CommitAccount(i)
  PROVE  MembershipInv'
<1> DEFINE q == requests[i]
           old == accounts[q.on]
           new == [known |-> TRUE, active |-> q.active, portal |-> q.portal,
                   rev |-> IF q.active = old.active /\ q.portal = old.portal THEN old.rev ELSE old.rev + 1]
<1>1. /\ q \in Access!Requests /\ q.kind = "account" /\ Access!Finish(i)
      /\ UNCHANGED <<members, places, links, asks>> /\ signedIn' \subseteq People
  BY DEF MembershipInv, Access!TypeOK, Access!CommitAccount
<1>2. accounts' = [accounts EXCEPT ![q.on] = new]
  BY DEF Access!CommitAccount
<1>3. q.on \in People => new \in Access!AccountRows
  BY <1>1 DEF MembershipInv, Access!TypeOK, Access!AccountRows, Access!Requests
<1>4. new.known
  OBVIOUS
<1>5. q.staff
  BY <1>1 DEF MembershipInv, CheckedAreSafe, CheckedSafe, AccountSafe, Access!Finish
<1> HIDE DEF new
<1>6. RowsStayTyped
  BY <1>1, <1>2, <1>3 DEF MembershipInv, Access!TypeOK, RowsStayTyped
<1>7. RowsFit' /\ LinksFit' /\ Survive
  BY <1>1, <1>2, <1>4 DEF MembershipInv, Access!TypeOK, RowsFit, LinksFit, Survive
<1>8. LeavesOthers(i)
  <2> SUFFICES ASSUME NEW r \in Access!Requests, Access!Locks(r) \cap Access!Locks(q) = {}, CheckedSafe(r)
               PROVE  CheckedSafe(r)'
    BY DEF LeavesOthers
  <2>1. "administration" \in Access!Locks(q)
    BY <1>1, <1>5 DEF Access!Locks
  <2>2. "administration" \notin Access!Locks(r)
    BY <2>1
  <2>3. r.kind # "account"
    BY <2>2 DEF Access!Locks, CheckedSafe, AccountSafe
  <2> QED
    BY <1>1, <2>3 DEF CheckedSafe, UpdateSafe, RoleAfter, ActiveAfter, ScopeAfter, JoinSafe,
       Access!Owner,
       Invites
<1> QED
  BY <1>1, <1>6, <1>7, <1>8, CommitKeeps

\* The removal of a site holds no lock of the organization; what it changes is the scope
\* of rows that are limited, which no owner is, and access it only takes away.
LEMMA SiteChanges ==
  ASSUME MembershipInv, NEW i \in 1 .. MaxWrites, Access!CommitSite(i), NEW p \in People
  PROVE  /\ members'[p] \in Access!MemberRows
         /\ \/ members'[p] = members[p]
            \/ members'[p].rev > members[p].rev /\ members[p].role # "owner"
         /\ members'[p].role = members[p].role /\ members'[p].scope \subseteq members[p].scope
         /\ members'[p].active => members[p].active
         /\ members[p] = Access!NoMember \/ members[p].scope = Access!Unlimited => members'[p] = members[p]
<1> DEFINE site == requests[i].nr
           entry == members[p]
           new == [role |-> entry.role, scope |-> entry.scope \ {site},
                   active |-> entry.active /\ entry.scope # {site}, rev |-> entry.rev + 1]
<1>1. members'[p] = IF site \notin entry.scope THEN entry ELSE new
  BY DEF Access!CommitSite
<1>2. entry \in Access!MemberRows /\ (entry.role = "owner" => entry.scope = Access!Unlimited)
  BY DEF MembershipInv, Access!TypeOK, RowsFit
<1>3. new \in Access!MemberRows
  BY <1>2 DEF Access!MemberRows
<1>4. new.rev > entry.rev /\ new.role = entry.role /\ new.scope \subseteq entry.scope
      /\ (new.active => entry.active)
  BY <1>2 DEF Access!MemberRows
<1>5. site \in entry.scope => entry # Access!NoMember /\ entry.role # "owner" /\ entry.scope # Access!Unlimited
  BY <1>2 DEF Access!NoMember, Access!Unlimited
<1> HIDE DEF new
<1>6. CASE site \notin entry.scope
  <2>1. members'[p] = members[p]
    BY <1>1, <1>6
  <2> QED
    BY <1>2, <2>1
<1>7. CASE site \in entry.scope
  <2>1. members'[p] = new
    BY <1>1, <1>7
  <2> QED
    BY <1>3, <1>4, <1>5, <1>7, <2>1
<1> QED
  BY <1>6, <1>7

LEMMA SiteCommits ==
  ASSUME MembershipInv, NEW i \in 1 .. MaxWrites, Access!CommitSite(i)
  PROVE  MembershipInv'
<1>1. Access!Finish(i) /\ UNCHANGED <<accounts, signedIn, asks>> /\ places' \subseteq Places
  BY DEF Access!CommitSite, MembershipInv, Access!TypeOK
<1>2. members' \in [People -> Access!MemberRows]
  BY SiteChanges DEF Access!CommitSite
<1>3. /\ links' \in [1 .. MaxLinks -> Access!LinkRows]
      /\ \A l \in 1 .. MaxLinks : /\ links'[l].by = links[l].by
                                  /\ links'[l].state = "open" => links[l].state = "open"
  <2> DEFINE site == requests[i].nr
             less(l) == [links[l] EXCEPT !.scope = links[l].scope \ {site},
                                         !.state = IF links[l].scope = {site} /\ links[l].state = "open"
                                                   THEN "revoked" ELSE links[l].state]
  <2>1. links' = [l \in 1 .. MaxLinks |-> IF site \notin links[l].scope THEN links[l] ELSE less(l)]
    BY DEF Access!CommitSite
  <2>2. \A l \in 1 .. MaxLinks : /\ links[l] \in Access!LinkRows /\ less(l) \in Access!LinkRows
                                 /\ less(l).by = links[l].by
                                 /\ less(l).state = "open" => links[l].state = "open"
    BY DEF MembershipInv, Access!TypeOK, Access!LinkRows
  <2> HIDE DEF less
  <2>3. links' \in [1 .. MaxLinks -> Access!LinkRows]
    BY <2>1, <2>2
  <2>4. \A l \in 1 .. MaxLinks : links'[l] = links[l] \/ links'[l] = less(l)
    BY <2>1
  <2> QED
    BY <2>2, <2>3, <2>4
<1>4. RowsStayTyped
  BY <1>1, <1>2, <1>3 DEF RowsStayTyped, MembershipInv, Access!TypeOK
<1>5. RowsFit'
  <2>1. \A p \in People : members'[p].role = "owner" => members'[p].scope = Access!Unlimited
    BY SiteChanges DEF MembershipInv, RowsFit
  <2>2. \A p \in People : members[p].rev \in Nat
    BY DEF MembershipInv, Access!TypeOK, Access!MemberRows
  <2>3. \A p \in People : members'[p].rev \in Nat
    BY <1>2 DEF Access!MemberRows
  <2>4. \A p \in People : members'[p].rev = 0 => members'[p] = Access!NoMember
    BY <2>2, <2>3, SiteChanges DEF MembershipInv, RowsFit
  <2> QED
    BY <1>1, <2>1, <2>4 DEF MembershipInv, RowsFit
<1>6. Survive
  BY SiteChanges DEF Survive
<1>7. LeavesOthers(i)
  <2> SUFFICES ASSUME NEW q \in Access!Requests, CheckedSafe(q) PROVE CheckedSafe(q)'
    BY DEF LeavesOthers
  <2>1. \A p \in People : Access!Owner(p)' = Access!Owner(p)
    <3> SUFFICES ASSUME NEW p \in People PROVE Access!Owner(p)' = Access!Owner(p)
      OBVIOUS
    <3>1. members[p].active \in BOOLEAN /\ members'[p].active \in BOOLEAN
      BY <1>2 DEF MembershipInv, Access!TypeOK, Access!MemberRows
    <3> QED
      BY <3>1, SiteChanges DEF Access!Owner
  <2>2. q.kind = "update" => UpdateSafe(q)'
    <3> SUFFICES ASSUME q.kind = "update" PROVE UpdateSafe(q)'
      OBVIOUS
    <3>1. q.on \in People /\ UpdateSafe(q)
      BY DEF CheckedSafe
    <3>2. Access!Owner(q.on) => members'[q.on] = members[q.on]
      BY <3>1, SiteChanges DEF Access!Owner
    <3>3. Access!Owner(q.on)' /\ ~(RoleAfter(q)' = "owner" /\ ActiveAfter(q)') => \E p \in People \ {q.on} : Access!Owner(p)'
      BY <2>1, <3>1, <3>2 DEF UpdateSafe, RoleAfter, ActiveAfter
    <3>4. RoleAfter(q)' = "owner" => ScopeAfter(q)' = Access!Unlimited
      BY <3>1, SiteChanges DEF UpdateSafe, RoleAfter, ScopeAfter, Access!Unlimited
    <3> QED
      BY <3>1, <3>3, <3>4 DEF UpdateSafe
  <2>3. \A person : JoinSafe(person, q) => JoinSafe(person, q)'
    BY SiteChanges DEF JoinSafe
  <2>4. AccountSafe(q) => AccountSafe(q)'
    BY <1>1 DEF AccountSafe, Access!HeadAdministrator, Access!Staff
  \* A member who may invite is not limited to sites.
  <2>5. ASSUME q.nr \in 1 .. MaxLinks, Invites(links[q.nr].by, q.role)
        PROVE  Invites(links[q.nr].by, q.role)'
    <3>1. links'[q.nr].by = links[q.nr].by
      BY <1>3, <2>5
    <3>2. members'[links[q.nr].by] = members[links[q.nr].by]
      BY <2>5, SiteChanges DEF Invites
    <3> QED
      BY <2>5, <3>1, <3>2 DEF Invites
  <2> QED
    BY <2>2, <2>3, <2>4, <2>5 DEF CheckedSafe
<1>8. LinksFit'
  BY <1>3 DEF MembershipInv, LinksFit
<1> QED
  BY <1>1, <1>4, <1>5, <1>6, <1>7, <1>8, CommitKeeps

LEMMA UnansweredSafe ==
  ASSUME MembershipInv, NEW i \in 1 .. MaxWrites, Access!Unanswered(i)
  PROVE  MembershipInv'
<1>1. /\ pages' = [pages EXCEPT ![requests[i].by].busy = @ \ {i}]
      /\ UNCHANGED <<Access!rows, requests>>
  BY DEF Access!Unanswered
<1> DEFINE by == requests[i].by
           theirs == [pages[by] EXCEPT !.busy = @ \ {i}]
<1>5. pages' = [pages EXCEPT ![by] = theirs] /\ pages \in [People -> Access!Pages]
  BY <1>1 DEF MembershipInv, Access!TypeOK
<1>6. by \in People => theirs \in Access!Pages /\ theirs.list = pages[by].list /\ theirs.dialog = pages[by].dialog
  BY <1>5 DEF Access!Pages
<1> HIDE DEF by, theirs
<1>2. pages' \in [People -> Access!Pages]
  BY <1>5, <1>6
<1>3. \A o \in People : pages'[o].list = pages[o].list /\ pages'[o].dialog = pages[o].dialog
  BY <1>5, <1>6
<1>4. Looks
  BY <1>1, <1>2, <1>3, PageLooks DEF MembershipInv
<1> QED
  BY <1>4, LooksSafe

LEMMA StutterSafe == ASSUME MembershipInv, UNCHANGED accessVars PROVE MembershipInv'
<1>1. Looks
  BY DEF accessVars, MembershipInv, SeenInv, Access!TypeOK, Looks, ListsAreKnown,
     DialogsAreKnown, Known
<1> QED
  BY <1>1, LooksSafe

-----------------------------------------------------------------------------
(* What the steps do to owners, administrators and access.                 *)

\* Only commits touch the rows of members and accounts.
LEMMA OthersKeepRows ==
  ASSUME MembershipInv, Access!CastsAssumption, [Access!Next]_accessVars,
         ~\E i \in 1 .. MaxWrites : \/ Access!CommitUpdate(i) \/ Access!CommitAdd(i) \/ Access!CommitAccept(i)
                                    \/ Access!CommitAccount(i) \/ Access!CommitSite(i)
  PROVE  UNCHANGED <<members, accounts>>
<1>1. CASE UNCHANGED accessVars
  BY <1>1 DEF accessVars
<1>2. ASSUME NEW p \in People, Access!Visitor(p) PROVE UNCHANGED <<members, accounts>>
  <2>1. Looks \/ Sends
    BY <1>2, VisitorSteps DEF MembershipInv
  <2> QED
    BY <2>1 DEF Looks, Sends, Access!Send, Access!rows
<1>3. ASSUME NEW i \in 1 .. MaxWrites, Access!Server(i) PROVE UNCHANGED <<members, accounts>>
  BY <1>3 DEF Access!Server, Access!Commit, Access!Unanswered, Access!Check, Access!rows,
     Access!CommitInvite, Access!CommitRevoke, Access!CommitSessions
<1> QED
  BY <1>1, <1>2, <1>3 DEF Access!Next

\* The commit of an update changes the row it is about, to what it has checked.
LEMMA UpdateRow ==
  ASSUME MembershipInv, NEW i \in 1 .. MaxWrites, Access!CommitUpdate(i)
  PROVE  LET q == requests[i] IN
         /\ q.on \in People /\ UpdateSafe(q) /\ q.kind = "update"
         /\ \A p \in People \ {q.on} : members'[p] = members[p]
         /\ \/ members'[q.on] = members[q.on]
            \/ members'[q.on].role = RoleAfter(q) /\ members'[q.on].active = ActiveAfter(q)
         /\ UNCHANGED accounts
<1> DEFINE q == requests[i]
           new == [role |-> RoleAfter(q), active |-> ActiveAfter(q), scope |-> ScopeAfter(q),
                   rev |-> members[q.on].rev + 1]
<1>1. q.kind = "update" /\ Access!Finish(i) /\ UNCHANGED accounts
  BY DEF Access!CommitUpdate
<1>2. q.on \in People /\ UpdateSafe(q)
  BY <1>1 DEF MembershipInv, CheckedAreSafe, CheckedSafe, Access!Finish
<1>3. members' = members \/ members' = [members EXCEPT ![q.on] = new]
  BY DEF Access!CommitUpdate, RoleAfter, ActiveAfter, ScopeAfter
<1>4. new.role = RoleAfter(q) /\ new.active = ActiveAfter(q)
  OBVIOUS
<1> HIDE DEF new
<1> QED
  BY <1>1, <1>2, <1>3, <1>4 DEF MembershipInv, Access!TypeOK

\* The commit of a new membership leaves those there are.
LEMMA JoinRow ==
  ASSUME MembershipInv, NEW i \in 1 .. MaxWrites, Access!CommitAdd(i) \/ Access!CommitAccept(i)
  PROVE  \A p \in People : members[p] = Access!NoMember \/ members'[p] = members[p]
<1>1. CASE Access!CommitAdd(i)
  <2>1. JoinSafe(requests[i].on, requests[i])
    BY <1>1 DEF Access!CommitAdd, Access!Finish, MembershipInv, CheckedAreSafe, CheckedSafe
  <2> QED
    BY <1>1, <2>1 DEF Access!CommitAdd, Access!Joined, JoinSafe, MembershipInv, Access!TypeOK
<1>2. CASE Access!CommitAccept(i)
  <2>1. JoinSafe(requests[i].by, requests[i])
    BY <1>2 DEF Access!CommitAccept, Access!Finish, MembershipInv, CheckedAreSafe, CheckedSafe
  <2> QED
    BY <1>2, <2>1 DEF Access!CommitAccept, Access!Joined, JoinSafe, MembershipInv, Access!TypeOK
<1> QED
  BY <1>1, <1>2

\* No step takes away the last owner, nor the last head administrator.
LEMMA OwnersStay ==
  ASSUME Access!CastsAssumption, MembershipInv, [Access!Next]_accessVars, NEW o \in People, Access!Owner(o)
  PROVE  \E p \in People : Access!Owner(p)'
<1>1. CASE UNCHANGED members
  BY <1>1 DEF Access!Owner
<1>2. ASSUME NEW i \in 1 .. MaxWrites, Access!CommitUpdate(i) PROVE \E p \in People : Access!Owner(p)'
  <2> DEFINE q == requests[i]
  <2>1. /\ q.on \in People /\ UpdateSafe(q)
        /\ \A p \in People \ {q.on} : members'[p] = members[p]
        /\ \/ members'[q.on] = members[q.on]
           \/ members'[q.on].role = RoleAfter(q) /\ members'[q.on].active = ActiveAfter(q)
    BY <1>2, UpdateRow
  <2> HIDE DEF q
  <2>2. \A p \in People \ {q.on} : Access!Owner(p) => Access!Owner(p)'
    BY <2>1 DEF Access!Owner
  <2>3. CASE o # q.on
    BY <2>2, <2>3
  <2>4. CASE o = q.on /\ ~Access!Owner(o)'
    <3>1. ~(RoleAfter(q) = "owner" /\ ActiveAfter(q))
      BY <2>1, <2>4 DEF Access!Owner
    <3>2. \E p \in People \ {q.on} : Access!Owner(p)
      BY <2>1, <2>4, <3>1 DEF UpdateSafe
    <3> QED
      BY <2>2, <3>2
  <2> QED
    BY <2>3, <2>4
<1>3. ASSUME NEW i \in 1 .. MaxWrites, Access!CommitAdd(i) \/ Access!CommitAccept(i) PROVE \E p \in People : Access!Owner(p)'
  <2>1. members[o] # Access!NoMember
    BY DEF Access!Owner, Access!NoMember
  <2> QED
    BY <1>3, <2>1, JoinRow DEF Access!Owner
<1>4. ASSUME NEW i \in 1 .. MaxWrites, Access!CommitAccount(i) PROVE UNCHANGED members
  BY <1>4 DEF Access!CommitAccount
<1>5. ASSUME NEW i \in 1 .. MaxWrites, Access!CommitSite(i) PROVE \E p \in People : Access!Owner(p)'
  BY <1>5, SiteChanges DEF Access!Owner
<1> QED
  BY <1>1, <1>2, <1>3, <1>4, <1>5, OthersKeepRows

LEMMA HeadsStay ==
  ASSUME Access!CastsAssumption, MembershipInv, [Access!Next]_accessVars, NEW o \in People, Access!HeadAdministrator(o)
  PROVE  \E p \in People : Access!HeadAdministrator(p)'
<1>1. CASE UNCHANGED accounts
  BY <1>1 DEF Access!HeadAdministrator, Access!Staff
<1>2. ASSUME NEW i \in 1 .. MaxWrites, Access!CommitAccount(i) PROVE \E p \in People : Access!HeadAdministrator(p)'
  <2> DEFINE q == requests[i]
  <2>1. AccountSafe(q)
    BY <1>2 DEF Access!CommitAccount, Access!Finish, MembershipInv, CheckedAreSafe, CheckedSafe
  <2>2. \A p \in People \ {q.on} : accounts'[p] = accounts[p]
    BY <1>2 DEF Access!CommitAccount, MembershipInv, Access!TypeOK
  <2>3. q.on \in People => accounts'[q.on].active = q.active /\ accounts'[q.on].portal = q.portal
    BY <1>2 DEF Access!CommitAccount, MembershipInv, Access!TypeOK
  <2> HIDE DEF q
  <2>4. \A p \in People \ {q.on} : Access!HeadAdministrator(p) => Access!HeadAdministrator(p)'
    BY <2>2 DEF Access!HeadAdministrator, Access!Staff
  <2>5. CASE o # q.on
    BY <2>4, <2>5
  <2>6. CASE o = q.on /\ ~Access!HeadAdministrator(o)'
    <3>1. ~(q.active /\ q.portal = "superadmin")
      BY <2>3, <2>6 DEF Access!HeadAdministrator, Access!Staff
    <3>2. \E p \in People \ {q.on} : Access!HeadAdministrator(p)
      BY <2>1, <2>6, <3>1 DEF AccountSafe
    <3> QED
      BY <2>4, <3>2
  <2> QED
    BY <2>5, <2>6
<1>3. ASSUME NEW i \in 1 .. MaxWrites, Access!CommitAccept(i) PROVE Access!HeadAdministrator(o)'
  <2>1. accounts[o].known
    BY DEF Access!HeadAdministrator, MembershipInv, RowsFit
  <2>2. accounts'[o] = accounts[o]
    BY <1>3, <2>1 DEF Access!CommitAccept, MembershipInv, Access!TypeOK
  <2> QED
    BY <2>2 DEF Access!HeadAdministrator, Access!Staff
<1>4. ASSUME NEW i \in 1 .. MaxWrites, Access!CommitUpdate(i) \/ Access!CommitAdd(i) \/ Access!CommitSite(i)
      PROVE  UNCHANGED accounts
  BY <1>4 DEF Access!CommitUpdate, Access!CommitAdd, Access!CommitSite
<1> QED
  BY <1>1, <1>2, <1>3, <1>4, OthersKeepRows

-----------------------------------------------------------------------------
(* What the steps do to owners, administrators and access.                 *)

\* The other screens leave the members alone.
LEMMA MembersSteps ==
  [Next]_<<screen, scheduleVars, itemVars, rowVars, driveVars, cardVars, queryVars, accessVars>>
    => [Access!Next]_accessVars
BY DEF Next, ScheduleStep, ItemStep, ListStep, DriveStep, CardStep, QueryStep, MembersStep

LEMMA MembersStay ==
  ASSUME Access!CastsAssumption, MembershipInv, [Access!Next]_accessVars PROVE MembershipInv'
<1>1. CASE UNCHANGED accessVars
  BY <1>1, StutterSafe
<1>2. ASSUME NEW p \in People, Access!Visitor(p) PROVE MembershipInv'
  BY <1>2, VisitorSteps, LooksSafe, SendSafe DEF MembershipInv
<1>3. ASSUME NEW i \in 1 .. MaxWrites, Access!Server(i) PROVE MembershipInv'
  BY <1>3, UnansweredSafe, CheckSafe, UpdateCommits, AddCommits, AcceptCommits, NeutralCommits,
     AccountCommits, SiteCommits DEF Access!Server, Access!Commit
<1> QED
  BY <1>1, <1>2, <1>3 DEF Access!Next

\* Of what was checked under the locks, this is still true when it is committed: the change
\* leaves an owner and a head administrator, an owner has no limits, what it turns on was
\* seen as turned off, who joins is not a member yet, and the membership of who invited
\* still gives the right to.  (That the sites of a scope exist is checked too and may be
\* false at the commit, see the run that violates NothingPointsAtRemoved; that accounts are
\* active is not part of it either.)  The invariant the other theorems rest on.
THEOREM MembershipInvariant == Spec => []MembershipInv
<1>1. Init => MembershipInv
  BY InitSafe, AccessAssumption DEF Init
<1>2. MembershipInv
        /\ [Next]_<<screen, scheduleVars, itemVars, rowVars, driveVars, cardVars, queryVars, accessVars>>
        => MembershipInv'
  BY AccessAssumption, MembersSteps, MembersStay
<1> QED
  BY <1>1, <1>2, PTL DEF Spec

\* Every row, request and page is of its type.
THEOREM MembershipsTypeCorrect == Spec => []Access!TypeOK
<1>1. MembershipInv => Access!TypeOK
  BY DEF MembershipInv
<1> QED
  BY <1>1, MembershipInvariant, PTL

\* No step of any number of people takes the last owner or the last head administrator
\* away, whatever they ask for at the same time.
THEOREM SomeoneStaysManager == Spec => SomeoneManages
<1>1. MembershipInv /\ [Access!Next]_accessVars => Access!KeepsManagers
  BY AccessAssumption, OwnersStay, HeadsStay DEF Access!KeepsManagers
<1>2. MembershipInv
        /\ [Next]_<<screen, scheduleVars, itemVars, rowVars, driveVars, cardVars, queryVars, accessVars>>
        => [screen = "members" => Access!KeepsManagers]_accessVars
  BY <1>1, MembersSteps
<1> QED
  BY <1>2, MembershipInvariant, PTL DEF Spec, SomeoneManages

LEMMA RevivedBySeen ==
  ASSUME Access!CastsAssumption, MembershipInv, [Access!Next]_accessVars
  PROVE  Access!RevivesOnSight
<1> SUFFICES ASSUME NEW p \in People, members[p] # Access!NoMember, ~members[p].active, members'[p].active
             PROVE  \E i \in 1 .. MaxWrites :
                       /\ requests[i].step = "checked" /\ requests'[i].step = "done"
                       /\ requests[i].on = p /\ requests[i].off
  BY DEF Access!RevivesOnSight
<1>1. members'[p] # members[p]
  OBVIOUS
<1>2. ~\E i \in 1 .. MaxWrites : \/ Access!CommitAdd(i) \/ Access!CommitAccept(i)
                                 \/ Access!CommitAccount(i) \/ Access!CommitSite(i)
  BY <1>1, JoinRow, SiteChanges DEF Access!CommitAccount
<1>3. PICK i \in 1 .. MaxWrites : Access!CommitUpdate(i)
  BY <1>1, <1>2, OthersKeepRows
<1> DEFINE q == requests[i]
<1>4. /\ q.on \in People /\ UpdateSafe(q)
      /\ \A o \in People \ {q.on} : members'[o] = members[o]
      /\ members'[q.on] = members[q.on] \/ members'[q.on].active = ActiveAfter(q)
  BY <1>3, UpdateRow
<1>5. q.on = p /\ ActiveAfter(q)
  BY <1>1, <1>4
<1>6. "active" \in q.writes /\ q.active
  BY <1>5 DEF ActiveAfter
<1>7. q.off
  BY <1>4, <1>6 DEF UpdateSafe
<1>8. q.step = "checked" /\ requests'[i].step = "done"
  BY <1>3 DEF Access!CommitUpdate, Access!Finish, Access!Done, Access!NoRequest, MembershipInv, Access!TypeOK
<1> QED
  BY <1>5, <1>7, <1>8

\* Access that was turned off comes back only by a request of a page that showed it as
\* turned off.
THEOREM RevivedByASight == Spec => RevivedOnSight
<1>1. MembershipInv
        /\ [Next]_<<screen, scheduleVars, itemVars, rowVars, driveVars, cardVars, queryVars, accessVars>>
        => [screen = "members" => Access!RevivesOnSight]_accessVars
  BY AccessAssumption, MembersSteps, RevivedBySeen
<1> QED
  BY <1>1, MembershipInvariant, PTL DEF Spec, RevivedOnSight

\* An invitation of a member is accepted only while the membership of its author gives the
\* right to invite, and makes an owner only while that is the membership of an owner,
\* whatever is changed in the organization at the same time.  (Not about invitations of the
\* staff, nor about the author's account.)
THEOREM GrantsAreStanding == Spec => GrantedByStanding
<1>1. MembershipInv => Access!GrantsByStanding
  <2> SUFFICES ASSUME MembershipInv, NEW i \in 1 .. MaxWrites, requests[i].kind = "accept",
                      requests[i].step = "checked", ~requests[i].staff
               PROVE  LET by == links[requests[i].nr].by IN
                      Access!Administers(by) /\ (requests[i].role = "owner" => Access!Owner(by))
    BY DEF Access!GrantsByStanding
  <2>1. Invites(links[requests[i].nr].by, requests[i].role)
    BY DEF MembershipInv, CheckedAreSafe, CheckedSafe
  <2> QED
    BY <2>1 DEF Invites, Access!Administers, Access!Owner
<1>2. MembershipInv => [screen = "members" => Access!GrantsByStanding]_accessVars
  BY <1>1
<1> QED
  BY <1>2, MembershipInvariant, PTL DEF GrantedByStanding
=============================================================================
