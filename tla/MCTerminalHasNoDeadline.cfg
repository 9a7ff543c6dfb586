CONSTANTS
    None = None
    start = start connect1 = connect1 capture = capture live = live
    interrupt1 = interrupt1 interrupt1b = interrupt1b
    connect2 = connect2 end = end fatal1 = fatal1
    close1 = close1 close2 = close2 upload = upload upload2 = upload2
    verify = verify artifactLost = artifactLost artifactUnknown = artifactUnknown
    captureOther = captureOther uploadOther = uploadOther
    verifyOther = verifyOther lostOther = lostOther
    r1 = r1 r2 = r2 k1 = k1 k2 = k2
    RecordingIds = {r1, r2}
    R2Keys = {k1, k2}
    EventIds <- MCEventIds
    Calls <- FailureRun
    Leads = {0, 1}
    AlarmGrace = 1
    AlarmRetryDelay = 1
    MaxTime = 2
SPECIFICATION Spec
INVARIANT
    TerminalHasNoDeadline
