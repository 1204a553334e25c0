---------------------------- MODULE Memberships ----------------------------
(***************************************************************************)
(* Who may enter one organization: memberships limited to sites,           *)
(* invitations, and the accounts behind them, changed by its owners and    *)
(* administrators in the customer portal and by the head administrators in *)
(* the operations console                                                  *)
(* (backend/app/services/memberships.py, invitations.py, api/v1/staff.py;  *)
(* frontend/src/features/organization-members.tsx, member-access-fields.tsx, *)
(* invitation.tsx, operations/organizations.tsx, operations/people.tsx).   *)
(*                                                                         *)
(* A page sends a request; authentication and the first check of the       *)
(* rights let it pass; it waits for its locks as long as it takes, loads   *)
(* and checks the rows, and commits.  A request that is turned away at      *)
(* first changes nothing and is not modelled; the answer comes with the     *)
(* commit unless the page gave up before.  Left out: the expiry of          *)
(* memberships and links, names and texts, the limit of fifty invitations, *)
(* operator and service roles (which here differ in nothing from viewer).  *)
(***************************************************************************)
EXTENDS Naturals, MembershipRows

CONSTANTS People,       \* a person, by the e-mail address
          Places,       \* the sites of the organization
          MaxWrites,    \* bound: requests that change something
          MaxLinks,     \* bound: invitations
          Casts         \* who is what at first (members, accounts, links), and the
                        \* bound on what is asked for in that behaviour (asks)

VARIABLES
    members,    \* organization_memberships of the organization, by person
    accounts,   \* users
    signedIn,   \* people with a session that is not revoked
    places,     \* the sites that exist
    links,      \* invitations (account_links)
    requests,   \* requests under way and done
    pages,      \* the members page or the operations console of each person
    asks        \* bound: the kinds of requests of this behaviour

memberVars == <<members, accounts, signedIn, places, links, requests, pages, asks>>
rows == <<members, accounts, signedIn, places, links, asks>>

NoDialog == [kind |-> "none", on |-> Nobody, nr |-> 0, rev |-> 0, off |-> FALSE]
\* preview: the invitation the person has opened.
NoPage == [known |-> FALSE, list |-> [p \in People |-> NoMember], dialog |-> NoDialog,
           preview |-> 0, busy |-> {}]

\* on, nr: the person, or the link or site, it is about; staff: of a head administrator
\* (an acceptance, once it is checked: of the invitation of one); off: the page showed
\* the access of that person as turned off; sends: the fields in its body; writes: those
\* that differ from the row it loaded.
NoRequest == [step |-> "none", by |-> Nobody, staff |-> FALSE, kind |-> "none", on |-> Nobody,
              nr |-> 0, rev |-> 0, off |-> FALSE, sends |-> {}, writes |-> {},
              role |-> "none", active |-> FALSE, scope |-> Unlimited, portal |-> "user"]

MemberRows == [role : Roles \cup {"none"}, active : BOOLEAN, scope : SUBSET Places, rev : Nat]
AccountRows == [known : BOOLEAN, active : BOOLEAN, portal : Portals, rev : Nat]
LinkRows == [to : People \cup {Nobody}, by : People \cup {Nobody}, role : Roles \cup {"none"},
             scope : SUBSET Places, state : {"none", "open", "used", "revoked"}]
Kinds == {"update", "add", "invite", "revoke", "accept", "account", "sessions", "site"}
Fields == {"role", "active", "scope"}
Requests == [step : {"none", "arrived", "checked", "done"}, by : People \cup {Nobody}, staff : BOOLEAN,
             kind : Kinds \cup {"none"}, on : People \cup {Nobody}, nr : Nat, rev : Nat, off : BOOLEAN,
             sends : SUBSET Fields, writes : SUBSET Fields, role : Roles \cup {"none"},
             active : BOOLEAN, scope : SUBSET Places, portal : Portals]
Dialogs == [kind : {"none", "member", "account", "site"}, on : People \cup {Nobody}, nr : Nat,
            rev : Nat, off : BOOLEAN]
Pages == [known : BOOLEAN, list : [People -> MemberRows], dialog : Dialogs, preview : {0} \cup 1 .. MaxLinks,
          busy : SUBSET (1 .. MaxWrites)]

TypeOK ==
    /\ members \in [People -> MemberRows] /\ accounts \in [People -> AccountRows]
    /\ links \in [1 .. MaxLinks -> LinkRows]
    /\ signedIn \subseteq People /\ places \subseteq Places /\ asks \subseteq Kinds
    /\ requests \in [1 .. MaxWrites -> Requests]
    /\ pages \in [People -> Pages]

\* What the proofs assume of the casts: whoever owns is not limited to sites, a row or an
\* account that does not exist is not active, and an invitation has an author.
CastsAssumption ==
    /\ MaxWrites \in Nat /\ MaxLinks \in Nat /\ Places \subseteq Nat
    /\ \A cast \in Casts :
          /\ cast.members \in [People -> MemberRows] /\ cast.accounts \in [People -> AccountRows]
          /\ cast.links \in [1 .. MaxLinks -> LinkRows] /\ cast.asks \subseteq Kinds
          /\ \A l \in 1 .. MaxLinks : cast.links[l].state = "open" => cast.links[l].by \in People
          /\ \A p \in People : /\ cast.members[p].role = "owner" => cast.members[p].scope = Unlimited
                               /\ cast.members[p].rev = 0 => cast.members[p] = NoMember
                               /\ cast.accounts[p].active => cast.accounts[p].known

Init ==
    /\ \E cast \in Casts : /\ members = cast.members /\ accounts = cast.accounts
                           /\ links = cast.links /\ asks = cast.asks
    /\ signedIn = {p \in People : accounts[p].active}
    /\ places = Places
    /\ requests = [i \in 1 .. MaxWrites |-> NoRequest]
    /\ pages = [p \in People |-> NoPage]

-----------------------------------------------------------------------------
(* The pages.                                                              *)

Staff(p) == accounts[p].portal = "superadmin"
Member(p) == members[p] # NoMember
Owner(p) == members[p].active /\ members[p].role = "owner"

\* A membership that carries MEMBERSHIP_MANAGE for the whole organization.
Administers(p) ==
    members[p].active /\ members[p].scope = Unlimited /\ members[p].role \in {"owner", "admin"}

\* AccessControl.require_organization, _lock_and_authorize.
Manages(p) == Staff(p) \/ Administers(p)

\* Mutant: the inviter is not looked at again.
InviterUnseen(l) == TRUE

\* validate_inviter
InviterStands(l) ==
    LET by == links[l].by IN
    /\ accounts[by].active
    /\ Staff(by) \/ (Manages(by) /\ (links[l].role = "owner" => Owner(by)))

Permitted(q) ==
    CASE q.kind = "accept" -> q.by \in signedIn \/ ~accounts[q.by].known
      [] q.staff /\ q.kind \notin {"invite", "revoke"} -> q.by \in signedIn /\ Staff(q.by)
      [] OTHER -> q.by \in signedIn /\ Manages(q.by)

\* Bound: nobody does anything when nothing can be changed any more.
Open == \E i \in 1 .. MaxWrites : requests[i] = NoRequest

\* usePanelQuery and useStaffQuery: the list is read at first, after an action of the
\* page, and by hand.
Read(p) ==
    /\ Open /\ p \in signedIn
    /\ pages' = [pages EXCEPT ![p].known = TRUE, ![p].list = members]
    /\ UNCHANGED <<rows, requests>>

\* useAccountAction and ActionDialog let one request of their own run at a time: the
\* buttons of the page share one, the dialog of the console has one, and so has the
\* editor of each member.
Lane(q) ==
    IF q.kind \in {"invite", "revoke", "accept"} \/ (q.kind = "update" /\ ~q.staff /\ q.sends = {"active"})
    THEN "page"
    ELSE IF q.staff THEN "dialog" ELSE q.on

Send(q) ==
    \E i \in 1 .. MaxWrites :
        /\ requests[i] = NoRequest /\ \A j \in 1 .. i - 1 : requests[j] # NoRequest
        /\ \A j \in pages[q.by].busy : Lane(requests[j]) # Lane(q)
        /\ q.kind \in asks /\ Permitted(q)
        /\ requests' = [requests EXCEPT ![i] = q]
        /\ pages' = [pages EXCEPT ![q.by].busy = @ \cup {i}]
        /\ UNCHANGED rows

Request(p, kind) ==
    [NoRequest EXCEPT !.step = "arrived", !.by = p, !.kind = kind, !.staff = Staff(p)]

\* MemberAccessFields and SiteScopePicker: an owner is not limited, and a limit names at
\* least one site - of a list of sites that may be as old as the page.
FormScopes(role) == IF role = "owner" THEN {Unlimited} ELSE SUBSET Places

\* canAssignOwner, as the page has it.
OffersOwner(p) == Staff(p) \/ pages[p].list[p].role = "owner"
FormRoles(p) == IF OffersOwner(p) THEN Roles ELSE Roles \ {"owner"}

Shows(p, person) ==
    pages[p].known /\ pages[p].list[person] # NoMember

\* A row of the customer's page: its buttons are hidden for owners.
MayTouch(p, person) ==
    ~Staff(p) /\ Shows(p, person) /\ (pages[p].list[person].role # "owner" \/ OffersOwner(p))

\* "Turn access off", "Restore access".
Toggle(p, person) ==
    /\ p \in signedIn /\ MayTouch(p, person)
    /\ LET row == pages[p].list[person] IN
       Send([Request(p, "update") EXCEPT !.on = person, !.rev = row.rev, !.off = ~row.active,
                                         !.sends = {"active"}, !.active = ~row.active])

\* MemberAccessEditor sends what was changed in it; a list that is read again with
\* another version of the row starts it anew.
SaveAccess(p, person) ==
    /\ p \in signedIn /\ MayTouch(p, person)
    /\ LET row == pages[p].list[person] IN
       \E role \in FormRoles(p) : \E scope \in FormScopes(role) :
          LET sends == {f \in {"role", "scope"} : IF f = "role" THEN role # row.role ELSE scope # row.scope} IN
          /\ sends # {}
          /\ Send([Request(p, "update") EXCEPT !.on = person, !.rev = row.rev, !.off = ~row.active,
                                               !.sends = sends, !.role = role, !.scope = scope])

\* The console keeps the row its dialog was opened for, whatever the list says later.
OpenMember(p, person) ==
    /\ Open /\ p \in signedIn /\ Staff(p) /\ Shows(p, person)
    /\ pages[p].dialog = NoDialog
    /\ pages' = [pages EXCEPT ![p].dialog =
                    [NoDialog EXCEPT !.kind = "member", !.on = person,
                                     !.rev = pages[p].list[person].rev,
                                     !.off = ~pages[p].list[person].active]]
    /\ UNCHANGED <<rows, requests>>

\* PeoplePanel: the list of accounts is read and one of them chosen.
OpenAccount(p, person) ==
    /\ Open /\ p \in signedIn /\ Staff(p) /\ asks \cap {"account", "sessions"} # {}
    /\ accounts[person].known
    /\ pages[p].dialog = NoDialog
    /\ pages' = [pages EXCEPT ![p].dialog =
                    [NoDialog EXCEPT !.kind = "account", !.on = person, !.rev = accounts[person].rev]]
    /\ UNCHANGED <<rows, requests>>

Dismiss(p) ==
    /\ Open /\ pages[p].dialog # NoDialog
    /\ \A i \in pages[p].busy : Lane(requests[i]) # "dialog"
    /\ pages' = [pages EXCEPT ![p].dialog = NoDialog]
    /\ UNCHANGED <<rows, requests>>

\* The dialog sends every field, changed or not.
SubmitMember(p) ==
    LET dialog == pages[p].dialog IN
    /\ p \in signedIn /\ Staff(p) /\ dialog.kind = "member"
    /\ \E role \in Roles, active \in BOOLEAN : \E scope \in FormScopes(role) :
          Send([Request(p, "update") EXCEPT !.on = dialog.on, !.rev = dialog.rev, !.off = dialog.off,
                                            !.sends = {"role", "active", "scope"},
                                            !.role = role, !.active = active, !.scope = scope])

AddMember(p) ==
    /\ p \in signedIn /\ Staff(p)
    /\ \E person \in People, role \in Roles : \E scope \in FormScopes(role) :
          /\ accounts[person].known
          /\ Send([Request(p, "add") EXCEPT !.on = person, !.role = role, !.scope = scope])

SubmitAccount(p) ==
    LET dialog == pages[p].dialog IN
    /\ p \in signedIn /\ Staff(p) /\ dialog.kind = "account"
    /\ \/ \E portal \in Portals, active \in BOOLEAN :
             Send([Request(p, "account") EXCEPT !.on = dialog.on, !.rev = dialog.rev,
                                                !.portal = portal, !.active = active])
       \/ \* the security is reset, or all sessions are ended
          Send([Request(p, "sessions") EXCEPT !.on = dialog.on])

\* The list of sites may be old, too.
OpenSite(p) ==
    /\ Open /\ p \in signedIn /\ Staff(p) /\ "site" \in asks
    /\ pages[p].dialog = NoDialog
    /\ \E place \in Places :
          pages' = [pages EXCEPT ![p].dialog = [NoDialog EXCEPT !.kind = "site", !.nr = place]]
    /\ UNCHANGED <<rows, requests>>

DeleteSite(p) ==
    /\ p \in signedIn /\ Staff(p) /\ pages[p].dialog.kind = "site"
    /\ Send([Request(p, "site") EXCEPT !.nr = pages[p].dialog.nr])

Invite(p) ==
    /\ p \in signedIn /\ ~Staff(p) /\ pages[p].known
    /\ \E person \in People, role \in FormRoles(p) : \E scope \in FormScopes(role) :
          Send([Request(p, "invite") EXCEPT !.on = person, !.role = role, !.scope = scope])

\* The form of the console does not limit the invitation.
InviteFromConsole(p) ==
    /\ p \in signedIn /\ Staff(p)
    /\ \E person \in People, role \in Roles :
          Send([Request(p, "invite") EXCEPT !.on = person, !.role = role])

\* Of a list of invitations that may be old.
Revoke(p) ==
    /\ p \in signedIn
    /\ \E l \in 1 .. MaxLinks :
          links[l] # NoLink /\ Send([Request(p, "revoke") EXCEPT !.nr = l])
RevokeLink(p) == ~Staff(p) /\ pages[p].known /\ Revoke(p)
RevokeFromConsole(p) == Staff(p) /\ Revoke(p)

\* The page of the invitation, opened from the mail; an installer has to sign in first.
Installer(p) == accounts[p].portal = "service_admin"
Inspect(p) ==
    /\ Open /\ pages[p].preview = 0
    /\ Installer(p) => p \in signedIn
    /\ \E l \in 1 .. MaxLinks :
          /\ links[l].to = p /\ links[l].state = "open" /\ InviterStands(l)
          /\ pages' = [pages EXCEPT ![p].preview = l]
    /\ UNCHANGED <<rows, requests>>

Accepting(p) ==
    /\ pages[p].preview # 0
    /\ Send([Request(p, "accept") EXCEPT !.nr = pages[p].preview])
Accept(p) == ~Installer(p) /\ p \in signedIn /\ Accepting(p)
AcceptAsInstaller(p) == Installer(p) /\ p \in signedIn /\ Accepting(p)
Register(p) == ~accounts[p].known /\ Accepting(p)

SignIn(p) ==
    /\ Open /\ accounts[p].active /\ p \notin signedIn
    /\ signedIn' = signedIn \cup {p}
    /\ UNCHANGED <<members, accounts, places, links, requests, pages, asks>>

\* None in time: the request may still be handled.  (When nothing more can be sent it
\* makes no difference.)
Unanswered(i) ==
    LET by == requests[i].by IN
    /\ Open /\ by # Nobody /\ i \in pages[by].busy
    /\ pages' = [pages EXCEPT ![by].busy = @ \ {i}]
    /\ UNCHANGED <<rows, requests>>

-----------------------------------------------------------------------------
(* The server: the locks, and what is checked under them.                  *)

\* Mutant: the row of the member is locked, not the organization.
LocksOfRow(q) ==
    (IF q.kind = "update" THEN {q.on} ELSE {})
    \cup (IF q.staff /\ q.kind \notin {"invite", "revoke", "accept"} THEN {"administration"} ELSE {})
    \cup (IF q.kind \in {"account", "sessions"} THEN {q.on} ELSE IF q.kind = "accept" THEN {q.by} ELSE {})

\* The row of the organization; the advisory lock of administrative changes; the account.
Locks(q) ==
    (IF q.kind \in {"update", "add", "invite", "revoke", "accept"} THEN {"organization"} ELSE {})
    \cup (IF q.staff /\ q.kind \notin {"invite", "revoke", "accept"} THEN {"administration"} ELSE {})
    \cup (IF q.kind \in {"account", "sessions"} THEN {q.on} ELSE IF q.kind = "accept" THEN {q.by} ELSE {})

Free(q) == \A j \in 1 .. MaxWrites : requests[j].step = "checked" => Locks(requests[j]) \cap Locks(q) = {}

\* _validate_scope
ScopeFits(role, scope) == (role = "owner" => scope = Unlimited) /\ scope \subseteq places

\* Mutant: the version the page had is not compared.
CurrentAlways(q, rev) == TRUE

\* expected_updated_at
Current(q, rev) == q.rev = rev

After(q, f) ==
    CASE f = "role" -> IF f \in q.sends THEN q.role ELSE members[q.on].role
      [] f = "active" -> IF f \in q.sends THEN q.active ELSE members[q.on].active
      [] f = "scope" -> IF f \in q.sends THEN q.scope ELSE members[q.on].scope

\* MembershipService.update
UpdateFits(q) ==
    /\ q.staff \/ Manages(q.by)
    /\ Member(q.on)
    /\ Current(q, members[q.on].rev)
    /\ members[q.on].role = "owner" \/ After(q, "role") = "owner" => q.staff \/ Owner(q.by)
    /\ Owner(q.on) /\ ~(After(q, "role") = "owner" /\ After(q, "active"))
          => \E p \in People \ {q.on} : Owner(p)
    /\ ScopeFits(After(q, "role"), After(q, "scope"))

\* MembershipService.create
AddFits(q) ==
    accounts[q.on].active /\ ~Member(q.on) /\ ScopeFits(q.role, q.scope)

\* create_invitation
InviteFits(q) ==
    /\ Manages(q.by)
    /\ q.role = "owner" => Staff(q.by) \/ Owner(q.by)
    /\ ScopeFits(q.role, q.scope)
    /\ ~Member(q.on)
    /\ \E l \in 1 .. MaxLinks : links[l] = NoLink

\* accept_invitation
AcceptFits(q) ==
    /\ ~accounts[q.by].known \/ accounts[q.by].active
    /\ links[q.nr].state = "open"
    /\ InviterStands(q.nr)
    /\ ScopeFits(links[q.nr].role, links[q.nr].scope)
    /\ ~Member(q.by)

HeadAdministrator(p) == accounts[p].active /\ Staff(p)

\* change_user
AccountFits(q) ==
    LET ends == accounts[q.on].active /\ ~q.active IN
    /\ Current(q, accounts[q.on].rev)
    /\ q.on = q.by => q.active /\ q.portal = "superadmin"
    /\ HeadAdministrator(q.on) /\ ~(q.active /\ q.portal = "superadmin")
          => \E p \in People \ {q.on} : HeadAdministrator(p)
    /\ ends /\ Owner(q.on) => \E p \in People \ {q.on} : Owner(p) /\ accounts[p].active

Fits(q) ==
    /\ q.staff /\ q.kind \notin {"invite", "revoke", "accept"}
          => q.by \in signedIn /\ HeadAdministrator(q.by)       \* prove()
    /\ CASE q.kind = "update" -> UpdateFits(q)
         [] q.kind = "add" -> AddFits(q)
         [] q.kind = "invite" -> InviteFits(q)
         [] q.kind = "revoke" -> Manages(q.by)
         [] q.kind = "accept" -> AcceptFits(q)
         [] q.kind = "account" -> AccountFits(q)
         [] q.kind = "sessions" -> accounts[q.on].known
         [] q.kind = "site" -> q.nr \in places

\* What the request has loaded: the fields that differ from the row, the invitation and
\* who stands behind it.
Loaded(q) ==
    CASE q.kind = "update" ->
             [q EXCEPT !.writes = {f \in q.sends : \/ f = "role" /\ q.role # members[q.on].role
                                                   \/ f = "active" /\ q.active # members[q.on].active
                                                   \/ f = "scope" /\ q.scope # members[q.on].scope}]
      [] q.kind = "accept" -> [q EXCEPT !.role = links[q.nr].role, !.scope = links[q.nr].scope,
                                        !.staff = Staff(links[q.nr].by)]
      [] OTHER -> q

\* What the page does with the answer of request i: after success a dialog closes, and
\* an invitation is no longer offered.
Answered(i, success) ==
    LET q == requests[i]
        shown == success /\ i \in pages[q.by].busy IN
    pages' = [pages EXCEPT ![q.by].busy = @ \ {i},
                           ![q.by].dialog = IF shown /\ Lane(q) = "dialog" THEN NoDialog ELSE @,
                           ![q.by].preview = IF shown /\ q.kind = "accept" THEN 0 ELSE @]
Done == [NoRequest EXCEPT !.step = "done"]

Check(i) ==
    LET q == requests[i] IN
    /\ q.step = "arrived" /\ Free(q)
    /\ IF Fits(q)
       THEN requests' = [requests EXCEPT ![i] = [Loaded(q) EXCEPT !.step = "checked"]] /\ UNCHANGED pages
       ELSE requests' = [requests EXCEPT ![i] = Done] /\ Answered(i, FALSE)
    /\ UNCHANGED rows

-----------------------------------------------------------------------------
(* The server: the commit.                                                 *)

Finish(i) ==
    /\ requests[i].step = "checked"
    /\ requests' = [requests EXCEPT ![i] = Done]
    /\ Answered(i, TRUE)

\* Only what differs from the loaded row is written, with a new updated_at.
CommitUpdate(i) ==
    LET q == requests[i]
        row == members[q.on] IN
    /\ q.kind = "update" /\ Finish(i)
    /\ members' = IF q.writes = {} THEN members
                  ELSE [members EXCEPT ![q.on] =
                           [role |-> IF "role" \in q.writes THEN q.role ELSE row.role,
                            active |-> IF "active" \in q.writes THEN q.active ELSE row.active,
                            scope |-> IF "scope" \in q.writes THEN q.scope ELSE row.scope,
                            rev |-> row.rev + 1]]
    /\ UNCHANGED <<accounts, signedIn, places, links, asks>>

Joined(person, q) ==
    [members EXCEPT ![person] = [role |-> q.role, active |-> TRUE, scope |-> q.scope, rev |-> 1]]

CommitAdd(i) ==
    /\ requests[i].kind = "add" /\ Finish(i)
    /\ members' = Joined(requests[i].on, requests[i])
    /\ UNCHANGED <<accounts, signedIn, places, links, asks>>

\* Earlier open invitations of the person are revoked; the mail leaves before the commit.
CommitInvite(i) ==
    LET q == requests[i] IN
    /\ q.kind = "invite" /\ Finish(i)
    /\ \E l \in 1 .. MaxLinks :
          /\ links[l] = NoLink /\ \A m \in 1 .. l - 1 : links[m] # NoLink
          /\ links' = [m \in 1 .. MaxLinks |->
                          IF m = l THEN [to |-> q.on, by |-> q.by, role |-> q.role, scope |-> q.scope,
                                         state |-> "open"]
                          ELSE IF links[m].to = q.on /\ links[m].state = "open"
                               THEN [links[m] EXCEPT !.state = "revoked"] ELSE links[m]]
    /\ UNCHANGED <<members, accounts, signedIn, places, asks>>

CommitRevoke(i) ==
    LET q == requests[i] IN
    /\ q.kind = "revoke" /\ Finish(i)
    /\ links' = [links EXCEPT ![q.nr].state = IF @ = "open" THEN "revoked" ELSE @]
    /\ UNCHANGED <<members, accounts, signedIn, places, asks>>

CommitAccept(i) ==
    LET q == requests[i] IN
    /\ q.kind = "accept" /\ Finish(i)
    /\ members' = Joined(q.by, q)
    /\ links' = [links EXCEPT ![q.nr].state = "used"]
    /\ accounts' = [accounts EXCEPT ![q.by] =
                       IF @.known THEN @ ELSE [known |-> TRUE, active |-> TRUE, portal |-> "user", rev |-> 1]]
    /\ UNCHANGED <<signedIn, places, asks>>

CommitAccount(i) ==
    LET q == requests[i]
        old == accounts[q.on] IN
    /\ q.kind = "account" /\ Finish(i)
    /\ accounts' = [accounts EXCEPT ![q.on] =
                       [known |-> TRUE, active |-> q.active, portal |-> q.portal,
                        rev |-> IF q.active = old.active /\ q.portal = old.portal
                                THEN old.rev ELSE old.rev + 1]]
    /\ signedIn' = IF q.portal # old.portal \/ ~q.active THEN signedIn \ {q.on} ELSE signedIn
    /\ UNCHANGED <<members, places, links, asks>>

CommitSessions(i) ==
    /\ requests[i].kind = "sessions" /\ Finish(i)
    /\ signedIn' = signedIn \ {requests[i].on}
    /\ UNCHANGED <<members, accounts, places, links, asks>>

\* delete_site takes the site out of every scope; a scope it empties ends the access.
\* It does not wait for the lock of the organization.
CommitSite(i) ==
    LET site == requests[i].nr IN
    /\ requests[i].kind = "site" /\ Finish(i)
    /\ members' = [p \in People |->
                      IF site \notin members[p].scope THEN members[p]
                      ELSE [role |-> members[p].role, scope |-> members[p].scope \ {site},
                            active |-> members[p].active /\ members[p].scope # {site},
                            rev |-> members[p].rev + 1]]
    /\ links' = [l \in 1 .. MaxLinks |->
                    IF site \notin links[l].scope THEN links[l]
                    ELSE [links[l] EXCEPT !.scope = links[l].scope \ {site},
                                          !.state = IF links[l].scope = {site} /\ links[l].state = "open"
                                                    THEN "revoked" ELSE links[l].state]]
    /\ places' = places \ {site}
    /\ UNCHANGED <<accounts, signedIn, asks>>

Commit(i) ==
    \/ CommitUpdate(i) \/ CommitAdd(i) \/ CommitInvite(i) \/ CommitRevoke(i) \/ CommitAccept(i)
    \/ CommitAccount(i) \/ CommitSessions(i) \/ CommitSite(i)

-----------------------------------------------------------------------------
Visitor(p) ==
    \/ Read(p) \/ Dismiss(p) \/ SubmitMember(p) \/ AddMember(p) \/ SubmitAccount(p)
    \/ OpenSite(p) \/ DeleteSite(p)
    \/ Invite(p) \/ InviteFromConsole(p) \/ RevokeLink(p) \/ RevokeFromConsole(p)
    \/ Inspect(p) \/ Accept(p) \/ AcceptAsInstaller(p) \/ Register(p) \/ SignIn(p)
    \/ \E person \in People :
          Toggle(p, person) \/ SaveAccess(p, person) \/ OpenMember(p, person) \/ OpenAccount(p, person)

Server(i) == Unanswered(i) \/ Check(i) \/ Commit(i)

Next == (\E p \in People : Visitor(p)) \/ (\E i \in 1 .. MaxWrites : Server(i))

Spec == Init /\ [][Next]_memberVars

-----------------------------------------------------------------------------
(* Properties.                                                             *)

\* Two owners who remove each other at the same moment, by hand or through the console,
\* leave one of them; and so do two head administrators.
KeepsManagers ==
    /\ (\E p \in People : Owner(p)) => (\E p \in People : Owner(p)')
    /\ (\E p \in People : HeadAdministrator(p)) => (\E p \in People : HeadAdministrator(p)')
SomeoneManages == [][KeepsManagers]_memberVars

\* Access that was turned off comes back only by the hand of someone whose page showed it
\* as turned off, and by an invitation never: an old page that is saved, whatever it
\* sends of the row, a request that is late, or a site that is removed meanwhile do not
\* bring it back.
RevivesOnSight ==
    \A p \in People :
        members[p] # NoMember /\ ~members[p].active /\ members'[p].active =>
           \E i \in 1 .. MaxWrites :
              /\ requests[i].step = "checked" /\ requests'[i].step = "done"
              /\ requests[i].on = p /\ requests[i].off
RevivedOnSight == [][RevivesOnSight]_memberVars

\* An invitation of a member does not outlive the membership that gave the right to
\* invite, though it is accepted days later and while that membership is being changed.
\* This is about the row of the membership: no lock of the acceptance covers the account
\* of the author, which a head administrator may switch off, or take out of the staff,
\* between the check and the commit.
GrantsByStanding ==
    \A i \in 1 .. MaxWrites :
        LET q == requests[i]
            by == links[q.nr].by IN
        q.kind = "accept" /\ q.step = "checked" /\ requests'[i].step = "done" /\ ~q.staff =>
           Administers(by) /\ (q.role = "owner" => Owner(by))
GrantedByStanding == [][GrantsByStanding]_memberVars

\* "Scoped memberships and pending invitations must not point at a removed object"
\* (backend/app/api/v1/staff.py:206).
NothingPointsAtRemoved ==
    /\ \A p \in People : members[p].scope \subseteq places
    /\ \A l \in 1 .. MaxLinks : links[l].state = "open" => links[l].scope \subseteq places
=============================================================================
