--------------------------- MODULE MCDeviceAlarms ---------------------------
\* Three commands whose outcomes arrive in any order beside a rule that is edited among
\* three configurations, of both kinds, with other thresholds and other debounces.
EXTENDS DeviceAlarms, TLC

CONSTANTS Anna, Borys

Operators == {Anna, Borys}
Symmetry == Permutations(Operators)

High == [kind |-> "high", threshold |-> 3, clear |-> 1, debounce |-> 2]
Slow == [kind |-> "high", threshold |-> 2, clear |-> 1, debounce |-> 3]
Low == [kind |-> "low", threshold |-> 1, clear |-> 2, debounce |-> 1]
Measured == 1..3
ThreeConfigs == {High, Slow, Low}

\* Bound of the model: a behaviour has room for seven readings, enough for an incident, its
\* end and the next one; every outcome of a command takes the room of two.
Room == 7
Within == Len(heard) + 2 * Cardinality({c \in Command : outcome[c] # "open"}) <= Room
MCSpec == Init /\ [][Next /\ Within']_vars
=============================================================================
