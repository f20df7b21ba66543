CONSTANTS
    Session = {s1}
    Rel = {1}
    Many = {1}
    KeyValue = {"k"}
    Null = Null
    MaxId = 3
    MaxCalls = 2
    MaxFaults = 0
    Setups <- Tagged
SPECIFICATION Spec
CHECK_DEADLOCK FALSE
INVARIANT NoDanglingEdge
