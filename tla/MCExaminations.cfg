CONSTANTS
    None = None
    start = start end = end
    u1 = u1 u2 = u2 q1 = q1 q2 = q2
    RecordingIds = {}
    R2Keys = {}
    Users = {u1, u2}
    Requests = {q1, q2}
    QuestionCount = 3
    StartEventId = start
    StartWindow = 1
    EventIds = {start, end}
    Calls <- MCCalls
    Leads = {1}
    AlarmGrace = 1
    AlarmRetryDelay = 1
    MaxTime = 1

SPECIFICATION ExamSpec
SYMMETRY MCSymmetry

INVARIANTS
    ProgressMatchesCompletions
    SessionHasConversation
    AnswersStayTrue
PROPERTY ImplementsLedger

