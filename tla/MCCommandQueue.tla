---------------------------- MODULE MCCommandQueue ----------------------------
(* Instances of CommandQueue for TLC. *)
EXTENDS CommandQueue

CONSTANTS start, stop, again, alice, bob

\* A Start and the Stop that names it, in whichever order the POSTs arrive.
OneAuthor == [r \in Requests |-> alice]
PairSupersedes == [r \in Requests |-> IF r = stop THEN start ELSE NoRequest]

\* A second Stop, of another user, that names the first.
TwoAuthors == [r \in Requests |-> IF r = again THEN bob ELSE alice]
ChainSupersedes ==
    [r \in Requests |-> CASE r = stop -> start [] r = again -> stop [] OTHER -> NoRequest]
=============================================================================
