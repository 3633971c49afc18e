CONSTANTS
    j1 = j1
    j2 = j2
    Jobs = {j1}
    MaxSlots = 1
    MaxObjects = 3
    FileCount = 2
    Size = 2
SPECIFICATION Spec
INVARIANTS FilesIntact
