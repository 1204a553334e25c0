\* One rule that is edited, deleted and run while its author may lose access.
CONSTANTS
    Rules = {r1}
    Users = {u1}
    Specs <- TwiceAndOnce
    Length = 2
    Grace = 2
    Day = 1
    MaxRules = 1
    Stops = {k1}
    Revisions = 2
    Attempts = 1
    MaxTime = 4
SPECIFICATION FairSpec
INVARIANTS OneRunPerStart
PROPERTIES StopPrevents DueIsJournaled DueIsSettled
CHECK_DEADLOCK FALSE
