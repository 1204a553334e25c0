SPECIFICATION FairSpec
CONSTANTS
    t1 = t1
    t2 = t2
    Tabs = {t1, t2}
    MaxTokens = 6
    Budgets <- Failure
PROPERTY FailureIsNoLogout
\* A browser in which nobody does anything any more is quiet.
CHECK_DEADLOCK FALSE
