------------------------------ MODULE MCPeople ------------------------------
(* Three people, and who is what at first: small instances of Memberships. *)
EXTENDS Naturals, MembershipRows

Row(role, active, scope) == [role |-> role, active |-> active, scope |-> scope, rev |-> 1]
Customer == [known |-> TRUE, active |-> TRUE, portal |-> "user", rev |-> 1]
Disabled == [Customer EXCEPT !.active = FALSE]
Administrator == [Customer EXCEPT !.portal = "superadmin"]
Fitter == [Customer EXCEPT !.portal = "service_admin"]
Everyone(a, b, c) == [p \in {"a", "b", "c"} |-> CASE p = "a" -> a [] p = "b" -> b [] p = "c" -> c]
NoLinks == [l \in 1 .. 2 |-> NoLink]

\* Two owners, and a member whose access to one site is turned off.
Owners == [members |-> Everyone(Row("owner", TRUE, Unlimited), Row("owner", TRUE, Unlimited),
                                Row("viewer", FALSE, {1})),
           accounts |-> Everyone(Customer, Customer, Disabled),
           links |-> NoLinks,
           asks |-> {"update", "invite", "revoke"}]

\* An administrator has invited somebody new.
Family == [members |-> Everyone(Row("owner", TRUE, Unlimited), Row("admin", TRUE, Unlimited), NoMember),
           accounts |-> Everyone(Customer, Customer, NoAccount),
           links |-> [NoLinks EXCEPT ![1] = [to |-> "c", by |-> "b", role |-> "viewer", scope |-> {1},
                                             state |-> "open"]],
           asks |-> {"update", "invite", "revoke", "accept"}]

\* The same, of an installer.
Service == [Family EXCEPT !.accounts = Everyone(Customer, Customer, Fitter),
                          !.asks = {"update", "accept"}]

\* The operations console beside an owner.
Office == [members |-> Everyone(NoMember, Row("owner", TRUE, Unlimited), Row("viewer", TRUE, {1})),
           accounts |-> Everyone(Administrator, Customer, Disabled),
           links |-> NoLinks,
           asks |-> {"update", "site"}]

\* The console gives somebody access while it removes a site.
Counter == [members |-> Everyone(NoMember, NoMember, Row("owner", TRUE, Unlimited)),
            accounts |-> Everyone(Administrator, Customer, Disabled),
            links |-> NoLinks,
            asks |-> {"add", "site"}]

\* Two head administrators.
Heads == [members |-> Everyone(NoMember, NoMember, NoMember),
          accounts |-> Everyone(Administrator, Administrator, NoAccount),
          links |-> NoLinks,
          asks |-> {"account"}]

\* A head administrator, and the accounts behind an organization.
Reception == [members |-> Everyone(NoMember, Row("owner", TRUE, Unlimited), NoMember),
              accounts |-> Everyone(Administrator, Customer, NoAccount),
              links |-> NoLinks,
              asks |-> {"account", "sessions", "update"}]

\* The console has invited somebody on behalf of an organization that nobody owns yet.
Startup == [members |-> Everyone(NoMember, NoMember, NoMember),
            accounts |-> Everyone(Administrator, Disabled, NoAccount),
            links |-> [NoLinks EXCEPT ![1] = [to |-> "c", by |-> "a", role |-> "owner", scope |-> Unlimited,
                                              state |-> "open"]],
            asks |-> {"invite", "revoke", "accept"}]

UsualCasts == {Owners, Family, Service, Office, Counter, Heads, Reception, Startup}
=============================================================================
