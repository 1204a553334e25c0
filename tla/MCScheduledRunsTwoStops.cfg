\* Two Stops that wait for the lock of the device at the same time.
CONSTANTS
    Rules = {r1}
    Users = {u1}
    Specs <- Twice
    Length = 2
    Grace = 2
    Day = 1
    MaxRules = 1
    Stops = {k1, k2}
    Revisions = 1
    Attempts = 1
    MaxTime = 3
SPECIFICATION Spec
PROPERTIES StopPrevents
CHECK_DEADLOCK FALSE
