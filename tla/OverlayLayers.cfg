SPECIFICATION Spec
CONSTANTS
    Walk <- MCWalk
    MaxClicks = 3
    MaxFaults = 1
    Promised = {}
INVARIANTS FixKept 
CHECK_DEADLOCK FALSE
