-------------------------- MODULE MCBrowserSession --------------------------
(* Small instances of BrowserSession: what may happen in one behaviour.    *)
EXTENDS BrowserSession, TLC

CONSTANTS t1, t2

Symmetry == Permutations(Tabs)

Nothing == [b \in Bounded |-> 0]
\* Both tabs rotate the cookie as their tokens run out.
Rotation == [Nothing EXCEPT !["tokens"] = 4, !["opens"] = 2, !["ages"] = 2]
\* A logout against a login and reloads.
Departure == [Nothing EXCEPT !["tokens"] = 4, !["opens"] = 3, !["logins"] = 1, !["logouts"] = 1]
\* A logout against rotations and the server's own end of the session.
Revocation == [Nothing EXCEPT !["tokens"] = 4, !["opens"] = 2, !["logouts"] = 1, !["revokes"] = 1]
\* One tab and a request whose answer is lost.
Loss == [Nothing EXCEPT !["tokens"] = 3, !["opens"] = 1, !["logins"] = 1, !["logouts"] = 2,
                        !["faults"] = 1]
\* One tab whose token runs out while a request does not reach the server.
Expiry == [Nothing EXCEPT !["tokens"] = 1, !["opens"] = 1, !["ages"] = 2, !["faults"] = 1]
\* One tab whose token runs out twice, the second time under a repeated request.
Worn == [Nothing EXCEPT !["tokens"] = 2, !["opens"] = 1, !["ages"] = 4]
\* A rotation whose answer may be lost, beside another tab; the same before a logout.
Replaced == [Nothing EXCEPT !["tokens"] = 3, !["opens"] = 2, !["ages"] = 1, !["faults"] = 1]
LeftReplaced == [Replaced EXCEPT !["opens"] = 1, !["logouts"] = 1]
Usual == {Rotation, Departure, Revocation, Loss, Expiry, Worn, Replaced, LeftReplaced}
\* An access token that runs out and one request that fails.
Failure == {[Nothing EXCEPT !["tokens"] = 3, !["opens"] = 1, !["ages"] = 1, !["faults"] = 1]}
=============================================================================
