CONSTANTS
    m = m
    h = h
    d = d
    p = p
    v = v
    e = e
    Jobs <- TransferJobs
    Entries = {e}
    EntryOf <- TransferEntries
    LinkOf <- TransferLinks
    Labels = {"active"}
    Slots = 1
SPECIFICATION Spec
INVARIANTS TypeOK  TransferOwned SingleTransport PauseAgrees Driven 
PROPERTIES UserRevives KeepsLedger
