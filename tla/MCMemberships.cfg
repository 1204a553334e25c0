SPECIFICATION Spec
CONSTANTS
    People = {"a", "b", "c"}
    Places = {1, 2}
    MaxWrites = 2
    MaxLinks = 2
    Casts <- UsualCasts
INVARIANT NothingPointsAtRemoved
CHECK_DEADLOCK FALSE
