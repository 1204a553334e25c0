\* A program of two steps and the Stop that may cut it; one failed save and one power
\* failure at any place.
CONSTANTS
    N = 2
    Type <- ProgramStop
    StepsOf <- TwoSteps
    LedgerSize = 3
    LoadsFail = FALSE
    MaxRefusals = 1
    MaxFaults = 1
    MaxCrashes = 1
SPECIFICATION FairSpec
INVARIANTS MotionIsRecorded MotionIsKnown OneSavedAnswer
PROPERTIES SuccessIsWhole RecoveryStops StaleIsFinal
\* Every command was answered and the device is switched off for good.
CHECK_DEADLOCK FALSE
