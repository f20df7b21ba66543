CONSTANTS
    Session = {s1, s2}
    Rel = {1, 2}
    Many = {}
    KeyValue = {"k"}
    Null = Null
    MaxId = 5
    MaxCalls = 3
    MaxFaults = 1
    Setups <- AllSetups
SPECIFICATION Spec
CHECK_DEADLOCK FALSE
SYMMETRY Threads
INVARIANTS EdgesPaired IndexesExact DanglingExplained CoversCurrent
