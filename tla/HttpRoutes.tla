------------------------------ MODULE HttpRoutes ------------------------------
(***************************************************************************)
(* The routes of the Worker's API and the checks each puts before its      *)
(* handler, in the order in which they run.                                *)
(*   src/src/worker/http/conversation-api.ts, hono-api.ts                  *)
(*   src/src/worker/http/routes/*.ts                                       *)
(*                                                                         *)
(* A path is the name its route gives it; the header, identifier and body  *)
(* of a request are kept as the set of flaws the checks look for.          *)
(***************************************************************************)
EXTENDS SequencesExt

Route(path, method, checks, reads) ==
    [path |-> path, method |-> method, checks |-> checks, reads |-> reads]

AuthRoutes ==
    { Route("login", "POST", <<"origin">>, {}),
      Route("logout", "POST", <<"origin", "session", "empty">>, {}),
      Route("auth_session", "GET", <<"session", "empty">>, {"user"}) }

ConversationRoutes ==
    { Route("create_conversation", "POST", <<"origin", "session", "empty">>, {}),
      Route("start_conversation", "POST",
            <<"conversationId", "origin", "session", "empty">>, {"conversationId"}),
      Route("get_state", "GET", <<"conversationId", "session", "empty">>, {"conversationId"}),
      Route("connect", "GET",
            <<"conversationId", "origin", "session", "empty">>, {"conversationId"}),
      Route("realtime_call", "POST",
            <<"conversationId", "origin", "session", "owner">>, {"conversationId", "user"}) }

(* Regression: the owner is looked up before there is a user.              *)
OwnerFirstRoute(path, method) ==
    Route(path, method, <<"conversationId", "origin", "owner", "session">>, {"conversationId"})

RecordingRoute(path, method) ==
    Route(path, method, <<"conversationId", "origin", "session", "owner">>, {"conversationId"})

RecordingRoutes ==
    { RecordingRoute("recording", "POST"),
      RecordingRoute("recording", "DELETE"),
      RecordingRoute("recording_upload", "POST"),
      RecordingRoute("recording_part", "PUT"),
      RecordingRoute("recording_complete", "POST") }

RealtimeToolRoutes ==
    { Route("current_question", "POST",
            <<"conversationId", "origin", "session", "empty">>, {"conversationId", "user"}),
      Route("complete_question", "POST",
            <<"conversationId", "origin", "session">>, {"conversationId", "user"}) }

ExaminationRoutes ==
    { Route("examinations", "GET", <<"session", "empty">>, {}),
      Route("create_examination_session", "POST",
            <<"resourceId", "origin", "session", "empty">>, {"resourceId", "user"}),
      Route("examination", "GET", <<"resourceId", "session", "empty">>, {"resourceId"}) }

ExaminationSessionRoutes ==
    { Route("examination_sessions", "GET", <<"session", "empty">>, {"user"}),
      Route("examination_session", "GET",
            <<"resourceId", "session", "empty">>, {"resourceId", "user"}),
      Route("examination_recording", "GET", <<"resourceId", "session">>, {"resourceId", "user"}),
      Route("examination_transcript", "GET",
            <<"resourceId", "session", "empty">>, {"resourceId", "user"}) }

CourseRoutes ==
    { Route("courses", "GET", <<"session", "empty">>, {}),
      Route("courses", "POST", <<"origin", "session">>, {"user"}),
      Route("course_examinations", "POST",
            <<"resourceId", "origin", "session">>, {"resourceId", "user"}),
      Route("course", "GET", <<"resourceId", "session", "empty">>, {"resourceId"}) }

Routes ==
    UNION { AuthRoutes, ConversationRoutes, RecordingRoutes, RealtimeToolRoutes,
            ExaminationRoutes, ExaminationSessionRoutes, CourseRoutes }

Paths   == {r.path : r \in Routes}
Methods == {r.method : r \in Routes} \cup {"OPTIONS"}

RoutesOf(path, method) == {r \in Routes : r.path = path /\ r.method = method}

\* paths without an app.all, on which any other method is an unknown route
OpenPaths == {r.path : r \in RecordingRoutes \cup RealtimeToolRoutes} \ {"recording"}

IdChecks(path) ==
    {"conversationId", "resourceId"}
        \cap UNION {ToSet(r.checks) : r \in {r \in Routes : r.path = path}}

-----------------------------------------------------------------------------
(***************************************************************************)
(* The chain of one request: the checks of the application, those of its   *)
(* route, and what ends it                                                 *)
(***************************************************************************)

\* a handler, and a check, asks for what an earlier check has stored
Reads(check) == IF check = "owner" THEN {"conversationId", "user"} ELSE {}

Stores(check) ==
    CASE check = "session" -> {"user"}
      [] check \in {"conversationId", "resourceId"} -> {check}
      [] OTHER -> {}

Chain(path, method) ==
    LET routes == RoutesOf(path, method) IN
    <<"configuration", "originPolicy", "smallHeaders">> \o
        IF method = "OPTIONS" THEN <<"preflight">>
        ELSE IF routes # {} THEN (CHOOSE r \in routes : TRUE).checks \o <<"handler">>
        ELSE IF path \in OpenPaths THEN <<"notFound">>
        ELSE SetToSeq(IdChecks(path)) \o <<"methodNotAllowed">>

Flaws == {"bindings", "allowedOrigin", "foreignOrigin", "noOrigin", "largeHeader",
          "badId", "body", "notOwner", "badLogin"}

\* what a request's flaws make of each check that needs no storage: the code
\* of the answer, or "passed"
Answer(check, flaws) ==
    LET When(condition, code) == IF condition THEN code ELSE "passed" IN
    CASE check = "configuration" -> When("bindings" \in flaws, "api_not_configured")
      [] check = "originPolicy"  ->
            IF "noOrigin" \in flaws THEN "passed"
            ELSE IF "allowedOrigin" \in flaws THEN "cors_not_configured"
            ELSE When("foreignOrigin" \in flaws, "origin_not_allowed")
      [] check = "smallHeaders"  -> When("largeHeader" \in flaws, "request_header_too_large")
      [] check \in {"conversationId", "resourceId"} -> When("badId" \in flaws, "invalid_id")
      [] check = "origin"        -> When("noOrigin" \in flaws, "origin_required")
      [] check = "empty"         -> When("body" \in flaws, "unexpected_request_body")
      [] check = "preflight"     -> IF "noOrigin" \in flaws THEN "origin_required" ELSE "preflight"
      [] check = "notFound"      -> "route_not_found"
      [] check = "methodNotAllowed" -> "method_not_allowed"
      [] OTHER -> "passed"

\* the place in the chain, from i on, where the request is answered or has to
\* wait for storage or for its handler
Waits(check) == check \in {"session", "owner", "handler"}

Stop(chain, flaws, i) ==
    CHOOSE j \in i..Len(chain) :
        /\ Waits(chain[j]) \/ Answer(chain[j], flaws) # "passed"
        /\ \A k \in i..(j - 1) : ~Waits(chain[k]) /\ Answer(chain[k], flaws) = "passed"
=============================================================================
