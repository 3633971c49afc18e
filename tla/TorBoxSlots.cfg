CONSTANTS
    j1 = j1
    j2 = j2
    Jobs = {j1, j2}
    MaxSlots = 2
    MaxObjects = 2
    FileCount = 1
    Size = 1
SPECIFICATION FairSpec
INVARIANTS NoLostWakeup
PROPERTIES ImplementsTransport Settles
