CONSTANTS
    None = None
    start = start end = end endOther = endOther
    r1 = r1
    RecordingIds = {r1}
    R2Keys = {k1}
    Begins = {b1}
    UploadBegins = {u1}
    Completions = {c1}
    MaxAttempts = 2
    EventIds <- MCEventIds
    DirectCalls <- MCDirectCalls
    Calls <- MCCalls
    Leads = {1}
    AlarmGrace = 1
    AlarmRetryDelay = 1
    MaxTime = 1
    Own = own
    Sockets = {own, other}
    Readers = {own}
    MaxQueued = 2
    OwnEnds <- MCOwnEnds
SPECIFICATION FairBrowserSpec
INVARIANTS
    PageTypeOK
    OneActiveSocket
    ActivePageIsCurrent
    FinalizesOnlyAtTheEnd
PROPERTIES
    PageNeverGoesBack
    EndingIsFinalized
