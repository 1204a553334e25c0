\* A motor started by hand, then two programs; one failed save and one power failure.
CONSTANTS
    N = 3
    Type <- StartTwoPrograms
    StepsOf <- OneStep
    LedgerSize = 3
    LoadsFail = FALSE
    MaxRefusals = 0
    MaxFaults = 1
    MaxCrashes = 1
SPECIFICATION Spec
INVARIANTS MotionIsKnown
CHECK_DEADLOCK FALSE
