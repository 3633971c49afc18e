CONSTANTS
    m = m
    h = h
    d = d
    p = p
    v = v
    e = e
    Jobs <- DirectJobs
    Entries = {e}
    EntryOf <- DirectEntries
    LinkOf <- DirectLinks
    Labels = {"active"}
    Slots = 1
SPECIFICATION Spec
INVARIANTS DirectDriven
