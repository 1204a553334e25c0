SPECIFICATION MCSpec
CONSTANTS
    Values <- Measured
    Invalid = Invalid
    Configs <- ThreeConfigs
    Commands = 3
    Anna = Anna
    Borys = Borys
    Users <- Operators
    Nobody = Nobody
    Readings = 7
SYMMETRY Symmetry
CHECK_DEADLOCK FALSE
INVARIANTS
    FailureTells
PROPERTIES
    AlarmIsDebounced
