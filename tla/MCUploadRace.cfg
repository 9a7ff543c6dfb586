CONSTANTS
    None = None
    start = start end = end
    r1 = r1 r2 = r2 b1 = b1 b2 = b2 u1 = u1 u2 = u2 c1 = c1 c2 = c2
    RecordingIds = {r1, r2}
    R2Keys = {k1, k2}
    Begins = {b1, b2}
    UploadBegins = {u1}
    Completions = {c1}
    MaxAttempts = 3
    EventIds <- MCEventIds
    DirectCalls <- MCDirectCalls
    Calls <- MCCalls
    Leads = {1}
    AlarmGrace = 1
    AlarmRetryDelay = 1
    MaxTime = 2
SYMMETRY MCSymmetry
SPECIFICATION WorkerSpec
INVARIANTS
    WorkerTypeOK
    OkMeansDone
    StartedRecordingSurvives
