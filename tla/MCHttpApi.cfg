CONSTANTS
    page = page other = other t1 = t1 t2 = t2 u1 = u1 u2 = u2
    NoToken = NoToken
    Clients = {page, other}
    Tokens = {t1, t2}
    Users = {u1, u2}
    SessionTtl = 1
    LoginWindow = 1
    MaxLoginAttempts = 2
    MaxTime = 1
    Requests <- MCRequests

SPECIFICATION Spec

INVARIANTS
    AuthTypeOK
    OneSessionPerUser
    EndedSessionStaysOut
    HandlersFindWhatTheyRead
