SPECIFICATION Spec
CONSTANTS
    t1 = t1
    t2 = t2
    Tabs = {t1, t2}
    MaxTokens = 6
    Budgets <- Usual
SYMMETRY Symmetry
INVARIANTS PresentsLiveSecret LoggedOutStaysOut LogoutRevokes
PROPERTY EndedByServer
\* A browser in which nobody does anything any more is quiet.
CHECK_DEADLOCK FALSE
