--------------------------- MODULE MembershipRows ---------------------------
(* The rows of the database that say who may enter an organization         *)
(* (backend/app/models/organization_membership.py, user.py, account_link.py). *)

Roles == {"owner", "admin", "viewer"}
Portals == {"user", "service_admin", "superadmin"}
Nobody == "nobody"

\* A scope is the set of sites it is limited to, empty without a limit.
Unlimited == {}
NoMember == [role |-> "none", active |-> FALSE, scope |-> Unlimited, rev |-> 0]
NoAccount == [known |-> FALSE, active |-> FALSE, portal |-> "user", rev |-> 0]
NoLink == [to |-> Nobody, by |-> Nobody, role |-> "none", scope |-> Unlimited, state |-> "none"]
=============================================================================
