\* Four commands in any order and a ledger of three: the oldest record is evicted and
\* its command delivered again; the journal may be unreadable after the power failure.
CONSTANTS
    N = 4
    Type <- Evicting
    StepsOf <- OneStep
    LedgerSize = 3
    LoadsFail = TRUE
    MaxRefusals = 0
    MaxFaults = 0
    MaxCrashes = 1
SPECIFICATION Spec
INVARIANTS RunsOnce
PROPERTIES StopOutranks
CHECK_DEADLOCK FALSE
