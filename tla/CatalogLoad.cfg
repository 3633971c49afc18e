CONSTANTS
    SourceCount = 2
    Plugins = {1}
    Linked = {1, 2}
    MaxVersion = 2
    MaxClicks = 1
    MaxTicks = 1
    Faults = {}
SPECIFICATION Spec
INVARIANTS  ShownIsStored
 
CHECK_DEADLOCK FALSE
