CONSTANTS
    j1 = j1
    j2 = j2
    NoJob = NoJob
    Jobs = {j1, j2}
    AddonCount = 2
    Linked = {1}
    Versions = {1}
    Selections = {{}, {1, 2}}
    MaxWorkers = 2
SYMMETRY Symmetry
SPECIFICATION Spec
INVARIANTS OneInstaller InstallingDriven
