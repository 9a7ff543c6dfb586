----------------------------- MODULE BrowserAuth -----------------------------
(***************************************************************************)
(* Requests to the Worker's API, from their first check to their answer,   *)
(* and the browser sessions and login attempts in D1 that decide them.     *)
(*   src/src/worker/http/browser-auth.ts                                   *)
(*   src/src/worker/http/hono-api.ts (middleware)                          *)
(*   src/src/worker/realtime/realtime-session.ts                           *)
(*                                                                         *)
(* One step per awaited D1 call; any of them may fail, a write with or     *)
(* without its effect.  Tokens are random and never repeat.  Accounts are  *)
(* created outside the Worker and do not change.  All requests come from   *)
(* one client address: rows of login_attempts of other addresses never     *)
(* meet.                                                                   *)
(***************************************************************************)
EXTENDS HttpRoutes

CONSTANTS
    Clients,            \* browsers' requests in flight
    Tokens,             \* the tokens that may be drawn
    Users,
    NoToken,
    SessionTtl,         \* ticks a session lives
    LoginWindow,        \* ticks a window of attempts lasts
    MaxLoginAttempts,
    MaxTime,            \* bound on the clock
    Requests            \* the requests each client may make

ASSUME BrowserAuthAssumption ==
    /\ NoToken \notin Tokens
    /\ {SessionTtl, LoginWindow, MaxLoginAttempts} \subseteq Nat \ {0}
    /\ MaxTime \in Nat
    /\ \A c \in Clients :
        Requests[c] \subseteq [path : Paths, method : Methods, flaws : SUBSET Flaws,
                              token : Tokens \cup {NoToken}]

VARIABLES
    now,            \* Date.now()
    sessions,       \* rows of sessions
    attempts,       \* the row of login_attempts, or NoAttempts
    drawn,          \* tokens that were ever drawn
    requests        \* each client's request

database == <<sessions, attempts, drawn>>
vars     == <<now, database, requests>>

Sessions == [token : Tokens, user : Users, expires : Nat]

NoAttempts == [start |-> 0, count |-> 0]

Idle == [at |-> "idle"]

\* a request's progress: the place in its chain, what it carries, what its
\* checks have stored; late says that its session had ended when it came
Request(q) ==
    [at |-> "chain", path |-> q.path, method |-> q.method, flaws |-> q.flaws, token |-> q.token,
     chain |-> Chain(q.path, q.method), place |-> 1, stored |-> {},
     late |-> \A s \in sessions : s.token = q.token => s.expires <= now]

Answered(code) == [at |-> "answered", code |-> code]

At(c, place) == requests[c].at = place

Check(c) == requests[c].chain[requests[c].place]

Awaits(c, check) == At(c, "chain") /\ Check(c) = check

Reply(c, code) == requests' = [requests EXCEPT ![c] = Answered(code)]

\* request r goes on with the checks from place i on, until it has to wait
Proceed(r, i) ==
    LET j    == Stop(r.chain, r.flaws, i)
        here == r.chain[j]
    IN  IF Waits(here)
        THEN [r EXCEPT !.place = j,
                       !.stored = @ \cup UNION {Stores(r.chain[k]) : k \in 1..(j - 1)}]
        ELSE Answered(Answer(here, r.flaws))

Passes(c) == requests' = [requests EXCEPT ![c] = Proceed(@, @.place + 1)]

-----------------------------------------------------------------------------
(***************************************************************************)
(* A request and its middleware                                            *)
(***************************************************************************)

Receive(c) ==
    /\ At(c, "idle")
    /\ \E q \in Requests[c] :
         /\ q.token \in drawn \cup {NoToken}
         /\ requests' = [requests EXCEPT ![c] = Proceed(Request(q), 1)]
    /\ UNCHANGED <<now, database>>

\* the client has its answer
Delivered(c) ==
    /\ At(c, "answered")
    /\ requests' = [requests EXCEPT ![c] = Idle]
    /\ UNCHANGED <<now, database>>

(* Regression: a session lives through the tick it expires at.             *)
LiveSessionsToTheTick(token) == {s \in sessions : s.token = token /\ s.expires >= now}

\* the rows authenticateBrowserSession selects
LiveSessions(token) == {s \in sessions : s.token = token /\ s.expires > now}

Authenticate(c) ==
    /\ Awaits(c, "session")
    /\ IF LiveSessions(requests[c].token) = {}
       THEN Reply(c, "unauthorized")
       ELSE Passes(c)
    /\ UNCHANGED <<now, database>>

\* what a check or a handler reads is missing: getConversationId,
\* getResourceId and currentUser answer with an internal error
Misses(r, reads) == ~(reads \subseteq r.stored)

AuthorizeOwner(c) ==
    /\ Awaits(c, "owner")
    /\ LET r == requests[c] IN
         IF Misses(r, Reads("owner")) THEN Reply(c, "internal_error")
         ELSE IF "notOwner" \in r.flaws THEN Reply(c, "conversation_not_found")
         ELSE Passes(c)
    /\ UNCHANGED <<now, database>>

\* the select of either check fails
CheckFails(c) ==
    /\ \/ Awaits(c, "session") /\ requests[c].token # NoToken
       \/ Awaits(c, "owner")
    /\ Reply(c, "operation_failed")
    /\ UNCHANGED <<now, database>>

-----------------------------------------------------------------------------
(***************************************************************************)
(* The handlers that keep nothing here: all but login and logout           *)
(***************************************************************************)

HandlerReads(r) == UNION {route.reads : route \in RoutesOf(r.path, r.method)}

\* createRealtimeCall asks the model provider, which may refuse
Outcomes(path) ==
    IF path = "realtime_call"
    THEN {"realtime_call_created", "invalid_sdp", "realtime_connection_failed"}
    ELSE {"handled"}

Handle(c) ==
    /\ Awaits(c, "handler")
    /\ requests[c].path \notin {"login", "logout"}
    /\ IF Misses(requests[c], HandlerReads(requests[c]))
       THEN Reply(c, "internal_error")
       ELSE \E code \in Outcomes(requests[c].path) : Reply(c, code)
    /\ UNCHANGED <<now, database>>

-----------------------------------------------------------------------------
(***************************************************************************)
(* login and logout                                                        *)
(***************************************************************************)

\* readCredentials, and the time login works with
BeginLogin(c) ==
    /\ Awaits(c, "handler")
    /\ requests[c].path = "login"
    /\ IF "badLogin" \in requests[c].flaws
       THEN Reply(c, "invalid_login_request")
       ELSE requests' = [requests EXCEPT ![c] = [at |-> "readAttempts", time |-> now]]
    /\ UNCHANGED <<now, database>>

InWindow(row, time) == row # NoAttempts /\ time - row.start < LoginWindow

(* Regression: the limit is compared off by one.                           *)
RateLimitedAfterOneMore(row, time) == InWindow(row, time) /\ row.count > MaxLoginAttempts

RateLimited(row, time) == InWindow(row, time) /\ row.count >= MaxLoginAttempts

\* the select of the attempts; with it the select of the user and the
\* password's verification, which read what never changes
ReadAttempts(c) ==
    /\ At(c, "readAttempts")
    /\ LET time == requests[c].time IN
         IF RateLimited(attempts, time)
         THEN Reply(c, "login_rate_limited")
         ELSE \/ requests' = [requests EXCEPT ![c] =
                                [at |-> "recordFailure", time |-> time, row |-> attempts]]
              \/ \E u \in Users :
                   requests' = [requests EXCEPT ![c] =
                                  [at |-> "openSession", time |-> time, user |-> u]]
    /\ UNCHANGED <<now, database>>

\* the row recordFailedLogin writes, from the row that was read
FailureRow(row, time) ==
    IF InWindow(row, time)
    THEN [start |-> row.start, count |-> row.count + 1]
    ELSE [start |-> time, count |-> 1]

RecordFailure(c) ==
    /\ At(c, "recordFailure")
    /\ attempts' = FailureRow(requests[c].row, requests[c].time)
    /\ Reply(c, "invalid_credentials")
    /\ UNCHANGED <<now, sessions, drawn>>

(* Regression: a login leaves the user's other sessions.                   *)
KeptBesides(user, time) == {s \in sessions : s.expires > time}

\* the rows a login leaves of those there were
Kept(user, time) == {s \in sessions : s.expires > time /\ s.user # user}

OpenSession(user, time, token) ==
    /\ sessions' = Kept(user, time)
                     \cup {[token |-> token, user |-> user, expires |-> time + SessionTtl]}
    /\ attempts' = NoAttempts
    /\ drawn' = drawn \cup {token}

Login(c) ==
    /\ At(c, "openSession")
    /\ \E token \in Tokens \ drawn : OpenSession(requests[c].user, requests[c].time, token)
    /\ Reply(c, "logged_in")
    /\ UNCHANGED now

Logout(c) ==
    /\ Awaits(c, "handler")
    /\ requests[c].path = "logout"
    /\ sessions' = {s \in sessions : s.token # requests[c].token}
    /\ Reply(c, "logged_out")
    /\ UNCHANGED <<now, attempts, drawn>>

\* a call fails before it has its effect, or its answer is lost
LoginFails(c) ==
    /\ \/ At(c, "readAttempts") /\ UNCHANGED database
       \/ At(c, "recordFailure") /\ UNCHANGED database
       \/ At(c, "openSession") /\ UNCHANGED database
       \/ /\ At(c, "recordFailure")
          /\ attempts' = FailureRow(requests[c].row, requests[c].time)
          /\ UNCHANGED <<sessions, drawn>>
       \/ /\ At(c, "openSession")
          /\ \E token \in Tokens \ drawn :
               OpenSession(requests[c].user, requests[c].time, token)
    /\ Reply(c, "operation_failed")
    /\ UNCHANGED now

LogoutFails(c) ==
    /\ Awaits(c, "handler")
    /\ requests[c].path = "logout"
    /\ sessions' \in {sessions, {s \in sessions : s.token # requests[c].token}}
    /\ Reply(c, "operation_failed")
    /\ UNCHANGED <<now, attempts, drawn>>

Tick ==
    /\ now < MaxTime
    /\ now' = now + 1
    /\ UNCHANGED <<database, requests>>

-----------------------------------------------------------------------------

Init ==
    /\ now = 0
    /\ sessions = {}
    /\ attempts = NoAttempts
    /\ drawn = {}
    /\ requests = [c \in Clients |-> Idle]

Api(c) ==
    \/ Receive(c) \/ Delivered(c)
    \/ Authenticate(c) \/ AuthorizeOwner(c) \/ CheckFails(c)
    \/ Handle(c)
    \/ BeginLogin(c) \/ ReadAttempts(c) \/ RecordFailure(c) \/ Login(c) \/ LoginFails(c)
    \/ Logout(c) \/ LogoutFails(c)

Next ==
    \/ \E c \in Clients : Api(c)
    \/ Tick

Spec == Init /\ [][Next]_vars

-----------------------------------------------------------------------------
(***************************************************************************)
(* Properties                                                              *)
(***************************************************************************)

\* The tables hold what their columns may hold; failed logins that read the
\* same row never count past the limit that refuses the next one.
AuthTypeOK ==
    /\ now \in 0..MaxTime
    /\ sessions \subseteq Sessions
    /\ \A s \in sessions : s.token \in drawn
    /\ drawn \subseteq Tokens
    /\ attempts.start \in 0..MaxTime /\ attempts.count \in 0..MaxLoginAttempts

\* A user has one browser session: however logins of one user interleave, each
\* ends the session of the one before.
OneSessionPerUser ==
    \A s, t \in sessions : s.user = t.user => s = t

\* A request that comes after its session was logged out, replaced by a newer
\* login or expired reaches no handler behind the session check.
EndedSessionStaysOut ==
    \A c \in Clients :
        Awaits(c, "handler") /\ requests[c].path # "login" => ~requests[c].late

\* No route is wired wrongly: what a handler or a check takes from the request's
\* context (user, conversation, resource), a check before it has stored there.
HandlersFindWhatTheyRead ==
    \A c \in Clients : requests[c] # Answered("internal_error")
=============================================================================
