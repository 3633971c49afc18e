CONSTANTS
    MaxConcurrent = 1
    MaxPending = 1
    Count = 3
    Apps = {1}
    KnownApp <- KnownApps
    StoreApp <- StoreApps
    HasFeed = {2}
    Terms = 1
    MetaSlots = 1
    MetaQueue = 1
    MaxClicks = 3
    Faults = {}
SPECIFICATION Spec
INVARIANTS VisibleFirst
 
CHECK_DEADLOCK FALSE
