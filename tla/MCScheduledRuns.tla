--------------------------- MODULE MCScheduledRuns ---------------------------
(* Small instances of ScheduledRuns for TLC. *)
EXTENDS ScheduledRuns, TLC

\* A rule that starts twice, and one whose only start overlaps with the first of them.
TwiceAndOnce == {{1, 3}, {2}}
Twice == {{1, 3}}
\* Two rules, the second of which starts as soon as the run of the first should end.
OneAfterAnother == {{1}, {3}}
\* Users are alike to every operation, and so are rules.
Symmetry == Permutations(Users) \cup Permutations(Rules)
=============================================================================
