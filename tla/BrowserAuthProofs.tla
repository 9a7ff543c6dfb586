-------------------------- MODULE BrowserAuthProofs --------------------------
(***************************************************************************)
(* Proofs about HttpRoutes and BrowserAuth, for any number of clients,     *)
(* users and tokens and any requests: every route's chain of checks is in  *)
(* an order that works, ended sessions stay out, a user has one session,   *)
(* and failed logins do not count past their limit.                        *)
(***************************************************************************)
EXTENDS BrowserAuth, FiniteSetTheorems, SequenceTheorems, TLAPS

-----------------------------------------------------------------------------
(***************************************************************************)
(* Routes                                                                  *)
(***************************************************************************)

Checks == {"configuration", "originPolicy", "smallHeaders", "conversationId",
           "resourceId", "origin", "session", "owner", "empty"}

(* What ends a chain, whatever the request.                                *)
LastChecks == {"preflight", "handler", "notFound", "methodNotAllowed"}

(* What the checks before place i have stored.                             *)
Provided(chain, i) == UNION {Stores(chain[k]) : k \in 1 .. (i - 1)}

(* Every list of checks that some route has.                               *)
SoundChecks(checks, reads) ==
    /\ checks \in Seq(Checks)
    /\ \A x \in reads : \E k \in 1 .. Len(checks) : x \in Stores(checks[k])
    /\ \A i \in 1 .. Len(checks) : checks[i] = "owner" =>
          \A x \in {"conversationId", "user"} :
              \E k \in 1 .. (i - 1) : x \in Stores(checks[k])

HasSession(checks) == \E k \in 1 .. Len(checks) : checks[k] = "session"

SoundRoute(r) ==
    /\ SoundChecks(r.checks, r.reads)
    /\ r.path # "login" => HasSession(r.checks)

LEMMA StoresOf ==
    /\ Stores("session") = {"user"}
    /\ Stores("conversationId") = {"conversationId"}
    /\ Stores("resourceId") = {"resourceId"}
BY DEF Stores

StoredNames == {"user", "conversationId", "resourceId"}

LEMMA StoresNames ==
    ASSUME NEW check
    PROVE  Stores(check) \subseteq StoredNames
<1>1. CASE check = "session"
  BY <1>1, StoresOf DEF StoredNames
<1>2. CASE check = "conversationId" \/ check = "resourceId"
  BY <1>2, StoresOf DEF StoredNames
<1>3. CASE check \notin {"session", "conversationId", "resourceId"}
  BY <1>3 DEF Stores
<1>. QED  BY <1>1, <1>2, <1>3

LEMMA RouteFields ==
    ASSUME NEW path, NEW method, NEW checks, NEW reads
    PROVE  /\ Route(path, method, checks, reads).path = path
           /\ Route(path, method, checks, reads).method = method
           /\ Route(path, method, checks, reads).checks = checks
           /\ Route(path, method, checks, reads).reads = reads
BY DEF Route

(* The lists of checks there are.                                          *)
LEMMA CheckLists ==
    /\ SoundChecks(<<"origin">>, {})
    /\ SoundChecks(<<"session", "empty">>, {})
    /\ SoundChecks(<<"session", "empty">>, {"user"})
    /\ SoundChecks(<<"origin", "session">>, {"user"})
    /\ SoundChecks(<<"origin", "session", "empty">>, {})
    /\ SoundChecks(<<"conversationId", "session", "empty">>, {"conversationId"})
    /\ SoundChecks(<<"conversationId", "origin", "session", "empty">>, {"conversationId"})
    /\ SoundChecks(<<"conversationId", "origin", "session", "empty">>,
                   {"conversationId", "user"})
    /\ SoundChecks(<<"conversationId", "origin", "session">>, {"conversationId", "user"})
    /\ SoundChecks(<<"conversationId", "origin", "session", "owner">>, {"conversationId"})
    /\ SoundChecks(<<"conversationId", "origin", "session", "owner">>,
                   {"conversationId", "user"})
    /\ SoundChecks(<<"resourceId", "session">>, {"resourceId", "user"})
    /\ SoundChecks(<<"resourceId", "session", "empty">>, {"resourceId"})
    /\ SoundChecks(<<"resourceId", "session", "empty">>, {"resourceId", "user"})
    /\ SoundChecks(<<"resourceId", "origin", "session">>, {"resourceId", "user"})
    /\ SoundChecks(<<"resourceId", "origin", "session", "empty">>, {"resourceId", "user"})
BY StoresOf DEF SoundChecks, Checks

LEMMA CheckListsHaveSession ==
    /\ HasSession(<<"session", "empty">>)
    /\ HasSession(<<"origin", "session">>)
    /\ HasSession(<<"origin", "session", "empty">>)
    /\ HasSession(<<"conversationId", "session", "empty">>)
    /\ HasSession(<<"conversationId", "origin", "session", "empty">>)
    /\ HasSession(<<"conversationId", "origin", "session">>)
    /\ HasSession(<<"conversationId", "origin", "session", "owner">>)
    /\ HasSession(<<"resourceId", "session">>)
    /\ HasSession(<<"resourceId", "session", "empty">>)
    /\ HasSession(<<"resourceId", "origin", "session">>)
    /\ HasSession(<<"resourceId", "origin", "session", "empty">>)
BY DEF HasSession

LEMMA RoutesAreSound ==
    ASSUME NEW r \in Routes
    PROVE  SoundRoute(r)
<1>1. CASE r \in AuthRoutes
  BY <1>1, CheckLists, CheckListsHaveSession, RouteFields DEF AuthRoutes, SoundRoute
<1>2. CASE r \in ConversationRoutes
  BY <1>2, CheckLists, CheckListsHaveSession, RouteFields DEF ConversationRoutes, SoundRoute
<1>3. CASE r \in RecordingRoutes
  BY <1>3, CheckLists, CheckListsHaveSession, RouteFields
  DEF RecordingRoutes, RecordingRoute, SoundRoute
<1>4. CASE r \in RealtimeToolRoutes
  BY <1>4, CheckLists, CheckListsHaveSession, RouteFields DEF RealtimeToolRoutes, SoundRoute
<1>5. CASE r \in ExaminationRoutes
  BY <1>5, CheckLists, CheckListsHaveSession, RouteFields DEF ExaminationRoutes, SoundRoute
<1>6. CASE r \in ExaminationSessionRoutes
  BY <1>6, CheckLists, CheckListsHaveSession, RouteFields
  DEF ExaminationSessionRoutes, SoundRoute
<1>7. CASE r \in CourseRoutes
  BY <1>7, CheckLists, CheckListsHaveSession, RouteFields DEF CourseRoutes, SoundRoute
<1> QED
  BY <1>1, <1>2, <1>3, <1>4, <1>5, <1>6, <1>7 DEF Routes

(* A path has one route for a method.                                      *)
LEMMA RoutesAreUnique ==
    ASSUME NEW r \in Routes, NEW s \in Routes, r.path = s.path, r.method = s.method
    PROVE  r = s
<1>. DEFINE A == AuthRoutes  V == ConversationRoutes  D == RecordingRoutes
            T == RealtimeToolRoutes  E == ExaminationRoutes
            S == ExaminationSessionRoutes  C == CourseRoutes
            Found(R, paths) == \A x \in R : x.path \in paths
<1>1. /\ Found(A, {"login", "logout", "auth_session"})
      /\ Found(V, {"create_conversation", "start_conversation", "get_state", "connect",
                   "realtime_call"})
      /\ Found(D, {"recording", "recording_upload", "recording_part", "recording_complete"})
      /\ Found(T, {"current_question", "complete_question"})
      /\ Found(E, {"examinations", "create_examination_session", "examination"})
      /\ Found(S, {"examination_sessions", "examination_session", "examination_recording",
                   "examination_transcript"})
      /\ Found(C, {"courses", "course_examinations", "course"})
  BY RouteFields DEF AuthRoutes, ConversationRoutes, RecordingRoutes, RecordingRoute,
         RealtimeToolRoutes, ExaminationRoutes, ExaminationSessionRoutes, CourseRoutes
<1>. DEFINE Groups == {A, V, D, T, E, S, C}
            One(R) == \A x, y \in R : x.path = y.path /\ x.method = y.method => x = y
<1>2. One(A)
  BY RouteFields DEF AuthRoutes
<1>3. One(V)
  BY RouteFields DEF ConversationRoutes
<1>4. One(D)
  BY RouteFields DEF RecordingRoutes, RecordingRoute
<1>5. One(T)
  BY RouteFields DEF RealtimeToolRoutes
<1>6. One(E)
  BY RouteFields DEF ExaminationRoutes
<1>7. One(S)
  BY RouteFields DEF ExaminationSessionRoutes
<1>8. One(C)
  BY RouteFields DEF CourseRoutes
<1>9. PICK R \in Groups : r \in R
  BY DEF Routes
<1>10. s \in R
  <2>1. PICK Q \in Groups : s \in Q
    BY DEF Routes
  <2>2. r.path = s.path
    OBVIOUS
  <2>. QED
    BY <1>1, <1>9, <2>1, <2>2
<1>. QED
  BY <1>2, <1>3, <1>4, <1>5, <1>6, <1>7, <1>8, <1>9, <1>10

-----------------------------------------------------------------------------
(***************************************************************************)
(* Chains                                                                  *)
(***************************************************************************)

SoundChain(path, method, chain) ==
    /\ chain \in Seq(Checks \cup LastChecks)
    /\ Len(chain) \in Nat \ {0}
    /\ chain[Len(chain)] \in LastChecks
    /\ \A i \in 1 .. Len(chain) - 1 : chain[i] \in Checks
    /\ \A i \in 1 .. Len(chain) : chain[i] = "owner" =>
          {"conversationId", "user"} \subseteq Provided(chain, i)
    /\ chain[Len(chain)] = "handler" =>
          /\ path # "login" => \E k \in 1 .. Len(chain) - 1 : chain[k] = "session"
          /\ \A r \in RoutesOf(path, method) : r.reads \subseteq Provided(chain, Len(chain))

Common == <<"configuration", "originPolicy", "smallHeaders">>

Joined(c, s, t) ==
    /\ Len(c) = Len(s) + Len(t)
    /\ \A i \in 1 .. Len(s) : c[i] = s[i]
    /\ \A i \in 1 .. Len(t) : c[Len(s) + i] = t[i]

LEMMA Concatenation ==
    ASSUME NEW S, NEW s \in Seq(S), NEW t \in Seq(S), NEW c, c = s \o t
    PROVE  c \in Seq(S) /\ Joined(c, s, t)
BY DEF Joined

LEMMA ThreeElements ==
    ASSUME NEW S, NEW x \in S, NEW y \in S, NEW z \in S, NEW c, c = <<x, y, z>>
    PROVE  c \in Seq(S) /\ Len(c) = 3 /\ c[1] = x /\ c[2] = y /\ c[3] = z
OBVIOUS

LEMMA WiderSequence ==
    ASSUME NEW S, NEW T, S \subseteq T, NEW s \in Seq(S)
    PROVE  s \in Seq(T) /\ Len(s) \in Nat /\ \A i \in 1 .. Len(s) : s[i] \in S
OBVIOUS

LEMMA CommonType == Common \in Seq(Checks)
<1>1. /\ "configuration" \in Checks /\ "originPolicy" \in Checks
      /\ "smallHeaders" \in Checks
  BY DEF Checks
<1>. QED  BY <1>1, ThreeElements DEF Common

LEMMA CommonIs ==
    /\ Len(Common) = 3
    /\ Common[1] = "configuration" /\ Common[2] = "originPolicy"
    /\ Common[3] = "smallHeaders"
<1>1. /\ "configuration" \in Checks /\ "originPolicy" \in Checks
      /\ "smallHeaders" \in Checks
  BY DEF Checks
<1>. QED  BY <1>1, ThreeElements DEF Common

(* A chain: the common checks, those of the route, and what ends it.       *)
LaidOut(chain, middle, last, n) ==
    /\ Len(chain) = n + 4
    /\ chain[1] = "configuration" /\ chain[2] = "originPolicy"
    /\ chain[3] = "smallHeaders"
    /\ \A i \in 1 .. n : chain[i + 3] = middle[i]
    /\ \A i \in 1 .. n : middle[i] \in Checks
    /\ chain[n + 4] = last
    /\ \A i \in 1 .. n + 3 : chain[i] \in Checks

LEMMA ChainParts ==
    ASSUME NEW middle \in Seq(Checks), NEW last \in LastChecks,
           NEW n, n = Len(middle),
           NEW chain, chain = Common \o (middle \o <<last>>)
    PROVE  /\ n \in Nat
           /\ chain \in Seq(Checks \cup LastChecks)
           /\ LaidOut(chain, middle, last, n)
<1>. DEFINE All == Checks \cup LastChecks
<1>0. Checks \subseteq All /\ last \in All
  OBVIOUS
<1>. HIDE DEF All
<1>1. PICK end : end = <<last>>
  OBVIOUS
<1>2. PICK rest : rest = middle \o end
  OBVIOUS
<1>3. end \in Seq(All)
  BY <1>0, <1>1
<1>3a. Len(end) = 1 /\ end[1] = last
  BY <1>0, <1>1
<1>4. middle \in Seq(All)
  BY <1>0
<1>4a. n \in Nat /\ \A i \in 1 .. n : middle[i] \in Checks
  OBVIOUS
<1>5. PICK common : common = Common
  OBVIOUS
<1>5a. common \in Seq(All)
  BY <1>0, <1>5, CommonType
<1>6. rest \in Seq(All)
  BY <1>2, <1>3, <1>4
<1>6a. /\ Len(rest) = n + 1
       /\ \A i \in 1 .. n : rest[i] = middle[i]
       /\ rest[n + 1] = last
  <2>1. /\ Len(rest) = Len(middle) + Len(end)
        /\ \A i \in 1 .. Len(middle) : rest[i] = middle[i]
        /\ \A i \in 1 .. Len(end) : rest[Len(middle) + i] = end[i]
    BY <1>2, <1>3, <1>4
  <2>. QED  BY <1>3a, <2>1
<1>7. chain = common \o rest
  BY <1>1, <1>2, <1>5
<1>8. chain \in Seq(All)
  BY <1>5a, <1>6, <1>7, Concatenation, Zenon
<1>8a. /\ Len(chain) = Len(common) + Len(rest)
       /\ \A i \in 1 .. Len(common) : chain[i] = common[i]
       /\ \A i \in 1 .. Len(rest) : chain[Len(common) + i] = rest[i]
  <2>1. Joined(chain, common, rest)
    BY <1>5a, <1>6, <1>7, Concatenation, Zenon
  <2>. QED  BY <2>1 DEF Joined
<1>8b. /\ Len(common) = 3
       /\ common[1] = "configuration" /\ common[2] = "originPolicy"
       /\ common[3] = "smallHeaders"
  BY <1>5, CommonIs
<1>9. Len(chain) = n + 4
  BY <1>4a, <1>6a, <1>8a, <1>8b
<1>10. /\ chain[1] = "configuration" /\ chain[2] = "originPolicy"
       /\ chain[3] = "smallHeaders"
  BY <1>8a, <1>8b
<1>11. \A i \in 1 .. n + 1 : chain[i + 3] = rest[i]
  <2>. SUFFICES ASSUME NEW i \in 1 .. n + 1 PROVE chain[i + 3] = rest[i]
    OBVIOUS
  <2>1. 3 + i = i + 3
    BY <1>4a
  <2>. QED  BY <1>6a, <1>8a, <2>1, <1>8b
<1>12. /\ \A i \in 1 .. n : chain[i + 3] = middle[i]
       /\ chain[n + 4] = last
  <2>1. \A i \in 1 .. n : i \in 1 .. n + 1
    BY <1>4a
  <2>2. n + 1 \in 1 .. n + 1 /\ (n + 1) + 3 = n + 4
    BY <1>4a
  <2>. QED  BY <1>6a, <1>11, <2>1, <2>2
<1>13. ASSUME NEW i \in 1 .. n + 3 PROVE chain[i] \in Checks
  <2>1. CASE i \in 1 .. 3
    <3>1. i = 1 \/ i = 2 \/ i = 3
      BY <2>1
    <3>. QED  BY <1>10, <3>1 DEF Checks
  <2>2. CASE i \notin 1 .. 3
    <3>1. i - 3 \in 1 .. n /\ (i - 3) + 3 = i
      BY <1>4a, <2>2
    <3>. QED  BY <1>4a, <1>12, <3>1
  <2>. QED  BY <2>1, <2>2
<1>. QED
  BY <1>4a, <1>8, <1>9, <1>10, <1>12, <1>13 DEF All, LaidOut

(* A chain that no route ends is sound if no check of it asks for more.    *)
LEMMA UnroutedChain ==
    ASSUME NEW path, NEW method, NEW middle \in Seq(Checks),
           \A i \in 1 .. Len(middle) : middle[i] # "owner",
           NEW last \in LastChecks \ {"handler"},
           NEW chain, chain = Common \o (middle \o <<last>>)
    PROVE  SoundChain(path, method, chain)
<1>1. PICK n : n = Len(middle)
  OBVIOUS
<1>1a. last \in LastChecks /\ last # "owner"
  BY DEF LastChecks
<1>1b. n \in Nat
  BY <1>1
<1>1c. chain \in Seq(Checks \cup LastChecks)
  BY <1>1, <1>1a, ChainParts, Zenon
<1>2. /\ Len(chain) = n + 4
      /\ chain[1] = "configuration" /\ chain[2] = "originPolicy"
      /\ chain[3] = "smallHeaders"
      /\ \A i \in 1 .. n : chain[i + 3] = middle[i]
      /\ chain[n + 4] = last
      /\ \A i \in 1 .. n + 3 : chain[i] \in Checks
  <2>1. LaidOut(chain, middle, last, n)
    BY <1>1, <1>1a, ChainParts, Zenon
  <2>. QED  BY <2>1 DEF LaidOut
<1>3. ASSUME NEW i \in 1 .. n + 4 PROVE chain[i] # "owner"
  <2>1. CASE i \in 1 .. 3
    BY <1>2, <2>1
  <2>2. CASE i = n + 4
    BY <1>1a, <1>2, <2>2
  <2>3. CASE i \notin 1 .. 3 /\ i # n + 4
    <3>1. i - 3 \in 1 .. n /\ (i - 3) + 3 = i
      BY <1>1b, <2>3
    <3>. QED  BY <1>1, <1>2, <3>1
  <2>. QED  BY <2>1, <2>2, <2>3
<1>4. Len(chain) - 1 = n + 3 /\ Len(chain) \in Nat \ {0}
  BY <1>1b, <1>2
<1>. QED  BY <1>1a, <1>1c, <1>2, <1>3, <1>4 DEF SoundChain

LEMMA RouteChain ==
    ASSUME NEW path, NEW method, NEW r \in RoutesOf(path, method),
           NEW chain, chain = Common \o (r.checks \o <<"handler">>)
    PROVE  SoundChain(path, method, chain)
<1>1. r \in Routes /\ r.path = path /\ r.method = method
  BY DEF RoutesOf
<1>2. PICK checks, n : checks = r.checks /\ n = Len(checks)
  OBVIOUS
<1>3. SoundChecks(checks, r.reads) /\ (path # "login" => HasSession(checks))
  BY <1>1, <1>2, RoutesAreSound DEF SoundRoute
<1>3a. checks \in Seq(Checks)
  BY <1>3 DEF SoundChecks
<1>3b. "handler" \in LastChecks /\ chain = Common \o (checks \o <<"handler">>)
  BY <1>2 DEF LastChecks
<1>3c. n \in Nat
  BY <1>2, <1>3a
<1>3d. chain \in Seq(Checks \cup LastChecks)
  BY <1>2, <1>3a, <1>3b, ChainParts, Zenon
<1>4. /\ Len(chain) = n + 4
      /\ chain[1] = "configuration" /\ chain[2] = "originPolicy"
      /\ chain[3] = "smallHeaders"
      /\ \A i \in 1 .. n : chain[i + 3] = checks[i]
      /\ chain[n + 4] = "handler"
      /\ \A i \in 1 .. n + 3 : chain[i] \in Checks
  <2>1. LaidOut(chain, checks, "handler", n)
    BY <1>2, <1>3a, <1>3b, ChainParts, Zenon
  <2>. QED  BY <2>1 DEF LaidOut
<1>5. ASSUME NEW i \in 1 .. n + 1, NEW x, \E k \in 1 .. i - 1 : x \in Stores(checks[k])
      PROVE  x \in Provided(chain, i + 3)
  <2>1. PICK k \in 1 .. i - 1 : x \in Stores(checks[k])
    BY <1>5
  <2>2. k \in 1 .. n /\ k + 3 \in 1 .. (i + 3) - 1
    BY <1>3c
  <2>3. chain[k + 3] = checks[k]
    BY <1>4, <2>2
  <2>. QED  BY <2>1, <2>2, <2>3 DEF Provided
<1>6. ASSUME NEW i \in 1 .. n + 4, chain[i] = "owner"
      PROVE  {"conversationId", "user"} \subseteq Provided(chain, i)
  <2>1. i # n + 4
    BY <1>4, <1>6
  <2>1a. i \notin 1 .. 3
    <3>1. i # 1 /\ i # 2 /\ i # 3
      BY <1>4, <1>6
    <3>. QED  BY <3>1
  <2>2. i - 3 \in 1 .. n /\ i - 3 \in 1 .. n + 1 /\ (i - 3) + 3 = i
    BY <1>3c, <2>1, <2>1a
  <2>3. checks[i - 3] = "owner"
    BY <1>4, <1>6, <2>2
  <2>4. \A x \in {"conversationId", "user"} :
           \E k \in 1 .. (i - 3) - 1 : x \in Stores(checks[k])
    BY <1>2, <1>3, <2>2, <2>3 DEF SoundChecks
  <2>. QED  BY <1>5, <2>2, <2>4
<1>7. r.reads \subseteq Provided(chain, n + 4)
  <2>1. n + 1 \in 1 .. n + 1 /\ (n + 1) + 3 = n + 4 /\ (n + 1) - 1 = n
    BY <1>3c
  <2>2. \A x \in r.reads : \E k \in 1 .. n : x \in Stores(checks[k])
    BY <1>2, <1>3 DEF SoundChecks
  <2>. QED  BY <1>5, <2>1, <2>2
<1>8. \A q \in RoutesOf(path, method) : q = r
  BY RoutesAreUnique DEF RoutesOf
<1>9. path # "login" => \E k \in 1 .. n + 3 : chain[k] = "session"
  <2>. SUFFICES ASSUME path # "login" PROVE \E k \in 1 .. n + 3 : chain[k] = "session"
    OBVIOUS
  <2>1. PICK k \in 1 .. n : checks[k] = "session"
    BY <1>2, <1>3 DEF HasSession
  <2>2. k + 3 \in 1 .. n + 3
    BY <1>3c
  <2>3. chain[k + 3] = "session"
    BY <1>4, <2>1
  <2>. QED  BY <2>2, <2>3
<1>10. Len(chain) - 1 = n + 3 /\ Len(chain) \in Nat \ {0} /\ "handler" \in LastChecks
  BY <1>3c, <1>4 DEF LastChecks
<1>. QED
  BY <1>3d, <1>4, <1>6, <1>7, <1>8, <1>9, <1>10 DEF SoundChain

LEMMA IdChecksInOrder ==
    ASSUME NEW path, NEW ids, ids = SetToSeq(IdChecks(path))
    PROVE  ids \in Seq(Checks) /\ \A i \in 1 .. Len(ids) : ids[i] # "owner"
<1>. DEFINE S == IdChecks(path)
<1>1. S \subseteq {"conversationId", "resourceId"}
  BY DEF IdChecks
<1>2. IsFiniteSet({"conversationId", "resourceId"})
  <2>1. IsFiniteSet({})
    BY FS_EmptySet
  <2>2. IsFiniteSet({} \cup {"conversationId"})
    BY <2>1, FS_AddElement
  <2>3. IsFiniteSet(({} \cup {"conversationId"}) \cup {"resourceId"})
    BY <2>2, FS_AddElement
  <2>4. {"conversationId", "resourceId"} = ({} \cup {"conversationId"}) \cup {"resourceId"}
    OBVIOUS
  <2>. QED  BY <2>3, <2>4
<1>3. IsFiniteSet(S)
  BY <1>1, <1>2, FS_Subset
<1>. HIDE DEF S
<1>4. Cardinality(S) \in Nat /\ ExistsBijection(1 .. Cardinality(S), S)
  BY <1>3, FS_CardinalityType
<1>5. \E f \in [1 .. Cardinality(S) -> S] : IsInjective(f)
  BY <1>4 DEF ExistsBijection, Bijection, Injection
<1>6. ids = CHOOSE f \in [1 .. Cardinality(S) -> S] : IsInjective(f)
  BY DEF S, SetToSeq
<1>7. ids \in [1 .. Cardinality(S) -> S]
  BY <1>5, <1>6
<1>8. ids \in Seq(S) /\ Len(ids) = Cardinality(S)
  BY <1>4, <1>7
<1>9. S \subseteq Checks /\ "owner" \notin S
  BY <1>1 DEF Checks
<1>. QED
  BY <1>7, <1>8, <1>9, WiderSequence

LEMMA NothingBefore == \A x : <<>> \o <<x>> = <<x>>
<1>. TAKE x
<1>1. PICK s : s = <<x>>
  OBVIOUS
<1>2. s \in Seq({x})
  BY <1>1
<1>. QED  BY <1>1, <1>2, ConcatEmptySeq

LEMMA ChainsAreSound ==
    ASSUME NEW path, NEW method
    PROVE  SoundChain(path, method, Chain(path, method))
<1>. DEFINE routes == RoutesOf(path, method)
<1>1. CASE method = "OPTIONS"
  <2>1. Chain(path, method) = Common \o <<"preflight">>
    BY <1>1 DEF Chain, Common
  <2>2. PICK middle : middle = <<>>
    OBVIOUS
  <2>2a. middle \in Seq(Checks) /\ \A i \in 1 .. Len(middle) : middle[i] # "owner"
    BY <2>2
  <2>2b. Common \o <<"preflight">> = Common \o (middle \o <<"preflight">>)
    BY <2>2, NothingBefore
  <2>3. "preflight" \in LastChecks \ {"handler"}
    BY DEF LastChecks
  <2>. QED  BY <2>1, <2>2a, <2>2b, <2>3, UnroutedChain
<1>2. CASE method # "OPTIONS" /\ routes # {}
  <2>1. PICK r \in routes : r = CHOOSE x \in routes : TRUE
    BY <1>2
  <2>2. Chain(path, method) = Common \o (r.checks \o <<"handler">>)
    BY <1>2, <2>1 DEF Chain, Common
  <2>. QED  BY <2>2, RouteChain
<1>3. CASE method # "OPTIONS" /\ routes = {} /\ path \in OpenPaths
  <2>1. Chain(path, method) = Common \o <<"notFound">>
    BY <1>3 DEF Chain, Common
  <2>2. PICK middle : middle = <<>>
    OBVIOUS
  <2>2a. middle \in Seq(Checks) /\ \A i \in 1 .. Len(middle) : middle[i] # "owner"
    BY <2>2
  <2>2b. Common \o <<"notFound">> = Common \o (middle \o <<"notFound">>)
    BY <2>2, NothingBefore
  <2>3. "notFound" \in LastChecks \ {"handler"}
    BY DEF LastChecks
  <2>. QED  BY <2>1, <2>2a, <2>2b, <2>3, UnroutedChain
<1>4. CASE method # "OPTIONS" /\ routes = {} /\ path \notin OpenPaths
  <2>1. Chain(path, method) =
            Common \o (SetToSeq(IdChecks(path)) \o <<"methodNotAllowed">>)
    BY <1>4 DEF Chain, Common
  <2>2. "methodNotAllowed" \in LastChecks \ {"handler"}
    BY DEF LastChecks
  <2>. QED  BY <2>1, <2>2, IdChecksInOrder, UnroutedChain
<1>. QED  BY <1>1, <1>2, <1>3, <1>4

-----------------------------------------------------------------------------
(***************************************************************************)
(* The place in its chain where a request stops                            *)
(***************************************************************************)

Halts(check, flaws) == Waits(check) \/ Answer(check, flaws) # "passed"

LEMMA LastHalts ==
    ASSUME NEW check \in LastChecks, NEW flaws
    PROVE  Halts(check, flaws)
BY DEF LastChecks, Halts, Waits, Answer

(* What a check that needs no storage answers, "passed" included, and what *)
(* the others and the handlers do: all but an internal error.              *)
Codes ==
    {"passed", "api_not_configured", "cors_not_configured", "origin_not_allowed",
     "request_header_too_large", "invalid_id", "origin_required",
     "unexpected_request_body", "preflight", "route_not_found", "method_not_allowed",
     "unauthorized", "conversation_not_found", "operation_failed", "handled",
     "realtime_call_created", "invalid_sdp", "realtime_connection_failed",
     "invalid_login_request", "login_rate_limited", "invalid_credentials",
     "logged_in", "logged_out"}

LEMMA AnswersAreCodes ==
    ASSUME NEW check, NEW flaws
    PROVE  Answer(check, flaws) \in Codes
<1>1. CASE check = "configuration"
  BY <1>1 DEF Answer, Codes
<1>2. CASE check = "originPolicy"
  BY <1>2 DEF Answer, Codes
<1>3. CASE check = "smallHeaders"
  BY <1>3 DEF Answer, Codes
<1>4. CASE check \in {"conversationId", "resourceId"}
  BY <1>4 DEF Answer, Codes
<1>5. CASE check = "origin"
  BY <1>5 DEF Answer, Codes
<1>6. CASE check = "empty"
  BY <1>6 DEF Answer, Codes
<1>7. CASE check = "preflight"
  BY <1>7 DEF Answer, Codes
<1>8. CASE check = "notFound"
  BY <1>8 DEF Answer, Codes
<1>9. CASE check = "methodNotAllowed"
  BY <1>9 DEF Answer, Codes
<1>10. CASE check \notin {"configuration", "originPolicy", "smallHeaders", "conversationId",
                         "resourceId", "origin", "empty", "preflight", "notFound",
                         "methodNotAllowed"}
  BY <1>10 DEF Answer, Codes
<1>. QED
  BY <1>1, <1>2, <1>3, <1>4, <1>5, <1>6, <1>7, <1>8, <1>9, <1>10

LEMMA StopIsThere ==
    ASSUME NEW chain, NEW flaws, NEW n, Len(chain) = n, n \in Nat,
           NEW i \in 1 .. n, Halts(chain[n], flaws)
    PROVE  /\ Stop(chain, flaws, i) \in i .. n
           /\ Halts(chain[Stop(chain, flaws, i)], flaws)
           /\ \A k \in i .. (Stop(chain, flaws, i) - 1) : ~Halts(chain[k], flaws)
<1>. DEFINE Stops == {j \in i .. n : Halts(chain[j], flaws)}
<1>1. n \in Stops /\ Stops \subseteq Nat
  OBVIOUS
<1>2. PICK m \in Stops : \A y \in Stops : ~ (<<y, m>> \in OpToRel(<, Nat))
  BY <1>1, NatLessThanWellFounded, WFMin
<1>3. \A y \in Stops : ~ (y < m)
  BY <1>1, <1>2 DEF OpToRel
<1>4. \A k \in i .. (m - 1) : ~Halts(chain[k], flaws)
  BY <1>1, <1>3
<1>5. \E j \in i .. n :
        /\ Halts(chain[j], flaws)
        /\ \A k \in i .. (j - 1) : ~Halts(chain[k], flaws)
  BY <1>4
<1>6. Stop(chain, flaws, i) =
        CHOOSE j \in i .. n :
            /\ Halts(chain[j], flaws)
            /\ \A k \in i .. (j - 1) : ~Halts(chain[k], flaws)
  BY DEF Stop, Halts
<1>. HIDE DEF Stops
<1>. QED  BY <1>5, <1>6

-----------------------------------------------------------------------------
(***************************************************************************)
(* The inductive invariant behind the properties                           *)
(***************************************************************************)

Times == 0 .. MaxTime

Attempts == [start : Times, count : 0 .. MaxLoginAttempts]

ChainRequests ==
    [at     : {"chain"},
     path   : Paths,
     method : Methods,
     flaws  : SUBSET Flaws,
     token  : Tokens \cup {NoToken},
     chain  : Seq(Checks \cup LastChecks),
     place  : Nat,
     stored : SUBSET StoredNames,
     late   : BOOLEAN]

(* A request at place i of its chain.  One whose session had ended when it *)
(* came finds no session now either, and has passed no session check.      *)
Underway(q, i) ==
    /\ q \in ChainRequests
    /\ q.chain = Chain(q.path, q.method)
    /\ q.token \in drawn \cup {NoToken}
    /\ i \in 1 .. Len(q.chain)
    /\ q.late => /\ \A s \in sessions : s.token = q.token => s.expires <= now
                 /\ \A k \in 1 .. (i - 1) : q.chain[k] # "session"

Waiting(q) ==
    /\ Underway(q, q.place)
    /\ Provided(q.chain, q.place) \subseteq q.stored

Replied(q) == \E code \in Codes : q = Answered(code)

(* A login that will count a failure read a row below the limit.           *)
LoggingIn(q) ==
    \E time \in Times :
        \/ q = [at |-> "readAttempts", time |-> time]
        \/ \E row \in Attempts :
              /\ q = [at |-> "recordFailure", time |-> time, row |-> row]
              /\ ~RateLimited(row, time)
        \/ \E u \in Users : q = [at |-> "openSession", time |-> time, user |-> u]

Sound(q) == q = Idle \/ Waiting(q) \/ Replied(q) \/ LoggingIn(q)

Tables ==
    /\ now \in Times
    /\ sessions \subseteq Sessions
    /\ \A s \in sessions : s.token \in drawn
    /\ drawn \subseteq Tokens
    /\ attempts \in Attempts
    /\ OneSessionPerUser

AuthIInv ==
    /\ Tables
    /\ requests = [c \in Clients |-> requests[c]]
    /\ \A c \in Clients : Sound(requests[c])

(* What any step does to the tables: a session that is new has a new token.*)
WorldMoves ==
    /\ Tables'
    /\ now <= now'
    /\ drawn \subseteq drawn'
    /\ \A s \in sessions' : s \in sessions \/ s.token \notin drawn

LEMMA WorldStays ==
    ASSUME AuthIInv, UNCHANGED <<now, database>>
    PROVE  WorldMoves
<1>1. UNCHANGED <<now, sessions, attempts, drawn>>
  BY DEF database
<1>2. now \in Nat
  BY DEF AuthIInv, Tables, Times
<1>. QED
  BY <1>1, <1>2 DEF AuthIInv, Tables, WorldMoves, OneSessionPerUser

LEMMA SoundnessKept ==
    ASSUME Tables, WorldMoves, NEW q, Sound(q)
    PROVE  Sound(q)'
<1>1. CASE q = Idle \/ Replied(q) \/ LoggingIn(q)
  BY <1>1 DEF Sound, Replied, LoggingIn
<1>2. CASE Waiting(q)
  <2>1. q.token \in drawn' \cup {NoToken}
    BY <1>2 DEF Waiting, Underway, WorldMoves
  <2>2. ASSUME q.late, NEW s \in sessions', s.token = q.token
        PROVE  s.expires <= now'
    <3>1. s \in Sessions
      BY DEF WorldMoves, Tables
    <3>2. s.token \in Tokens /\ s.expires \in Nat
      BY <3>1 DEF Sessions
    <3>3. s.token \in drawn
      BY <1>2, <2>2, <3>2, BrowserAuthAssumption DEF Waiting, Underway
    <3>4. s \in sessions
      BY <3>3 DEF WorldMoves
    <3>5. s.expires <= now
      BY <1>2, <2>2, <3>4 DEF Waiting, Underway
    <3>6. now \in Nat /\ now' \in Nat /\ now <= now'
      BY BrowserAuthAssumption DEF WorldMoves, Tables, Times
    <3>. QED  BY <3>2, <3>5, <3>6
  <2>3. Waiting(q)'
    BY <1>2, <2>1, <2>2 DEF Waiting, Underway
  <2>. QED  BY <2>3 DEF Sound
<1>. QED  BY <1>1, <1>2 DEF Sound

(* One request moves on, to what is sound.                                 *)
LEMMA RequestMoves ==
    ASSUME AuthIInv, WorldMoves, NEW c \in Clients, NEW q, Sound(q),
           requests' = [requests EXCEPT ![c] = q]
    PROVE  AuthIInv'
<1>1. Tables'
  BY DEF WorldMoves
<1>2. requests' = [d \in Clients |-> requests'[d]]
  BY DEF AuthIInv
<1>3. ASSUME NEW d \in Clients PROVE Sound(requests[d])'
  <2>1. PICK old : old = requests'[d]
    OBVIOUS
  <2>2. old = q \/ old = requests[d]
    BY <2>1 DEF AuthIInv
  <2>3. Sound(old)
    BY <2>2 DEF AuthIInv, Sound, Waiting, Underway, Replied, LoggingIn
  <2>4. Sound(old)'
    BY <2>3, SoundnessKept DEF AuthIInv
  <2>. QED
    BY <2>1, <2>4 DEF Sound, Waiting, Underway, Replied, LoggingIn
<1>. QED  BY <1>1, <1>2, <1>3 DEF AuthIInv

LEMMA ReplyMoves ==
    ASSUME AuthIInv, WorldMoves, NEW c \in Clients,
           NEW code \in Codes, Reply(c, code)
    PROVE  AuthIInv'
<1>1. PICK q : q = Answered(code)
  OBVIOUS
<1>2. Sound(q)
  BY <1>1 DEF Sound, Replied
<1>. QED  BY <1>1, <1>2, RequestMoves DEF Reply

(* Going on from place i, a request waits further on or is answered.       *)
LEMMA ProceedIsSound ==
    ASSUME NEW q, NEW i, Underway(q, i)
    PROVE  Sound(Proceed(q, i))
<1>1. PICK n : n = Len(q.chain)
  OBVIOUS
<1>2. SoundChain(q.path, q.method, q.chain)
  BY ChainsAreSound DEF Underway
<1>3. n \in Nat /\ i \in 1 .. n /\ Halts(q.chain[n], q.flaws)
  BY <1>1, <1>2, LastHalts DEF SoundChain, Underway
<1>4. PICK j : j = Stop(q.chain, q.flaws, i)
  OBVIOUS
<1>5. /\ j \in i .. n
      /\ Halts(q.chain[j], q.flaws)
      /\ \A k \in i .. (j - 1) : ~Halts(q.chain[k], q.flaws)
  BY <1>1, <1>3, <1>4, StopIsThere
<1>6. CASE ~Waits(q.chain[j])
  <2>1. Proceed(q, i) = Answered(Answer(q.chain[j], q.flaws))
    BY <1>4, <1>6 DEF Proceed
  <2>. QED
    BY <2>1, AnswersAreCodes DEF Sound, Replied
<1>7. CASE Waits(q.chain[j])
  <2>1. PICK p : p = Proceed(q, i)
    OBVIOUS
  <2>2. p = [q EXCEPT !.place = j, !.stored = @ \cup Provided(q.chain, j)]
    BY <1>4, <1>7, <2>1 DEF Proceed, Provided
  <2>3. j \in Nat /\ j \in 1 .. n
    BY <1>3, <1>5
  <2>4. Provided(q.chain, j) \subseteq StoredNames
    BY StoresNames DEF Provided
  <2>5. /\ p \in ChainRequests
        /\ p.path = q.path /\ p.method = q.method /\ p.token = q.token
        /\ p.chain = q.chain /\ p.late = q.late /\ p.place = j
        /\ Provided(q.chain, j) \subseteq p.stored
    BY <2>2, <2>3, <2>4 DEF Underway, ChainRequests
  <2>6. q.late => \A k \in 1 .. (j - 1) : q.chain[k] # "session"
    <3>. SUFFICES ASSUME q.late, NEW k \in 1 .. (j - 1) PROVE q.chain[k] # "session"
      OBVIOUS
    <3>1. CASE k < i
      BY <1>3, <2>3, <3>1 DEF Underway
    <3>2. CASE k >= i
      <4>1. k \in i .. (j - 1)
        BY <1>3, <2>3, <3>2
      <4>. QED  BY <1>5, <4>1 DEF Halts, Waits
    <3>. QED  BY <1>3, <2>3, <3>1, <3>2
  <2>7. Waiting(p)
    BY <1>1, <2>3, <2>5, <2>6 DEF Waiting, Underway
  <2>. QED  BY <2>1, <2>7 DEF Sound
<1>. QED  BY <1>6, <1>7

-----------------------------------------------------------------------------
(***************************************************************************)
(* One lemma per action                                                    *)
(***************************************************************************)

LEMMA InitIsSound == Init => AuthIInv
<1>. SUFFICES ASSUME Init PROVE AuthIInv
  OBVIOUS
<1>1. 0 \in Times /\ attempts \in Attempts
  BY BrowserAuthAssumption DEF Init, NoAttempts, Times, Attempts
<1>2. Tables
  BY <1>1 DEF Init, Tables, OneSessionPerUser
<1>3. \A c \in Clients : Sound(requests[c])
  BY DEF Init, Sound
<1>. QED  BY <1>2, <1>3 DEF AuthIInv, Init

LEMMA ReceiveKeeps ==
    ASSUME AuthIInv, NEW c \in Clients, Receive(c)
    PROVE  AuthIInv'
<1>1. PICK q \in Requests[c] :
        /\ q.token \in drawn \cup {NoToken}
        /\ requests' = [requests EXCEPT ![c] = Proceed(Request(q), 1)]
  BY DEF Receive
<1>2. q \in [path : Paths, method : Methods, flaws : SUBSET Flaws,
             token : Tokens \cup {NoToken}]
  BY BrowserAuthAssumption
<1>3. PICK r : r = Request(q)
  OBVIOUS
<1>4. PICK chain : chain = Chain(q.path, q.method)
  OBVIOUS
<1>5. SoundChain(q.path, q.method, chain)
  BY <1>4, ChainsAreSound
<1>6. chain \in Seq(Checks \cup LastChecks) /\ 1 \in 1 .. Len(chain)
  BY <1>5 DEF SoundChain
<1>7. /\ r.at = "chain" /\ r.path = q.path /\ r.method = q.method /\ r.token = q.token
      /\ r.chain = chain
      /\ r.late = (\A s \in sessions : s.token = q.token => s.expires <= now)
  BY <1>3, <1>4 DEF Request
<1>8. r \in ChainRequests
  <2>1. PICK late : late = (\A s \in sessions : s.token = q.token => s.expires <= now)
    OBVIOUS
  <2>2. late \in BOOLEAN
    BY <2>1
  <2>3. r = [at |-> "chain", path |-> q.path, method |-> q.method, flaws |-> q.flaws,
             token |-> q.token, chain |-> chain, place |-> 1, stored |-> {}, late |-> late]
    BY <1>3, <1>4, <2>1 DEF Request
  <2>. QED  BY <1>2, <1>6, <2>2, <2>3 DEF ChainRequests
<1>9. Underway(r, 1)
  BY <1>1, <1>4, <1>6, <1>7, <1>8 DEF Underway
<1>10. PICK p : p = Proceed(r, 1)
  OBVIOUS
<1>11. Sound(p)
  BY <1>9, <1>10, ProceedIsSound
<1>12. requests' = [requests EXCEPT ![c] = p]
  BY <1>1, <1>3, <1>10
<1>13. WorldMoves
  BY WorldStays DEF Receive
<1>. QED  BY <1>11, <1>12, <1>13, RequestMoves

LEMMA DeliveredKeeps ==
    ASSUME AuthIInv, NEW c \in Clients, Delivered(c)
    PROVE  AuthIInv'
<1>1. PICK q : q = Idle
  OBVIOUS
<1>2. Sound(q) /\ requests' = [requests EXCEPT ![c] = q]
  BY <1>1 DEF Delivered, Sound
<1>3. WorldMoves
  BY WorldStays DEF Delivered
<1>. QED  BY <1>2, <1>3, RequestMoves

(* Who waits at a check has a sound record and a next place in its chain.  *)
LEMMA WhoWaits ==
    ASSUME AuthIInv, NEW c \in Clients, At(c, "chain")
    PROVE  Waiting(requests[c])
BY DEF AuthIInv, At, Sound, Idle, Replied, Answered, LoggingIn

LEMMA NextPlace ==
    ASSUME AuthIInv, NEW c \in Clients, NEW check \in {"session", "owner"},
           Awaits(c, check), check = "session" => ~requests[c].late,
           UNCHANGED <<now, database>>, Passes(c)
    PROVE  AuthIInv'
<1>1. PICK q : q = requests[c]
  OBVIOUS
<1>2. Waiting(q) /\ q.chain[q.place] = check
  BY <1>1, WhoWaits DEF Awaits, Check, At
<1>3. PICK n : n = Len(q.chain)
  OBVIOUS
<1>4. SoundChain(q.path, q.method, q.chain)
  BY <1>2, ChainsAreSound DEF Waiting, Underway
<1>5. n \in Nat /\ q.place \in 1 .. n /\ q.place # n
  <2>1. check \notin LastChecks
    BY DEF LastChecks
  <2>. QED  BY <1>2, <1>3, <1>4, <2>1 DEF SoundChain, Waiting, Underway
<1>6. q.place + 1 \in 1 .. n /\ (q.place + 1) - 1 = q.place
  BY <1>5
<1>7. q.late => \A k \in 1 .. q.place : q.chain[k] # "session"
  <2>. SUFFICES ASSUME q.late, NEW k \in 1 .. q.place PROVE q.chain[k] # "session"
    OBVIOUS
  <2>1. CASE k = q.place
    BY <1>1, <1>2, <2>1
  <2>2. CASE k # q.place
    <3>1. k \in 1 .. (q.place - 1)
      BY <1>5, <2>2
    <3>. QED  BY <1>2, <3>1 DEF Waiting, Underway
  <2>. QED  BY <2>1, <2>2
<1>8. Underway(q, q.place + 1)
  BY <1>2, <1>3, <1>6, <1>7 DEF Waiting, Underway
<1>9. PICK p : p = Proceed(q, q.place + 1)
  OBVIOUS
<1>10. Sound(p)
  BY <1>8, <1>9, ProceedIsSound
<1>11. requests' = [requests EXCEPT ![c] = p]
  BY <1>1, <1>9 DEF Passes
<1>. QED  BY <1>10, <1>11, WorldStays, RequestMoves

LEMMA AuthenticateKeeps ==
    ASSUME AuthIInv, NEW c \in Clients, Authenticate(c)
    PROVE  AuthIInv'
<1>1. CASE LiveSessions(requests[c].token) = {}
  <2>1. Reply(c, "unauthorized") /\ "unauthorized" \in Codes
    BY <1>1 DEF Authenticate, Codes
  <2>. QED  BY <2>1, WorldStays, ReplyMoves DEF Authenticate
<1>2. CASE LiveSessions(requests[c].token) # {}
  <2>1. PICK s \in sessions : s.token = requests[c].token /\ s.expires > now
    BY <1>2 DEF LiveSessions
  <2>2. s.expires \in Nat /\ now \in Nat
    BY BrowserAuthAssumption DEF AuthIInv, Tables, Sessions, Times
  <2>3. Waiting(requests[c])
    BY WhoWaits DEF Authenticate, Awaits
  <2>4. ~requests[c].late
    BY <2>1, <2>2, <2>3 DEF Waiting, Underway
  <2>5. Awaits(c, "session") /\ Passes(c)
    BY <1>2 DEF Authenticate
  <2>. QED  BY <2>4, <2>5, NextPlace DEF Authenticate
<1>. QED  BY <1>1, <1>2

LEMMA NothingMissed ==
    ASSUME AuthIInv, NEW c \in Clients
    PROVE  /\ Awaits(c, "owner") => ~Misses(requests[c], Reads("owner"))
           /\ Awaits(c, "handler") => ~Misses(requests[c], HandlerReads(requests[c]))
<1>1. PICK q : q = requests[c]
  OBVIOUS
<1>2. ASSUME At(c, "chain")
      PROVE  /\ Waiting(q) /\ SoundChain(q.path, q.method, q.chain)
             /\ Check(c) = q.chain[q.place]
             /\ q.place \in 1 .. Len(q.chain)
  <2>1. Waiting(q)
    BY <1>1, <1>2, WhoWaits
  <2>. QED  BY <1>1, <2>1, ChainsAreSound DEF Waiting, Underway, Check
<1>3. ASSUME Awaits(c, "owner") PROVE ~Misses(q, Reads("owner"))
  <2>1. {"conversationId", "user"} \subseteq Provided(q.chain, q.place)
    BY <1>2, <1>3 DEF Awaits, SoundChain
  <2>. QED  BY <1>2, <1>3, <2>1 DEF Awaits, Waiting, Misses, Reads
<1>4. ASSUME Awaits(c, "handler") PROVE ~Misses(q, HandlerReads(q))
  <2>1. q.place = Len(q.chain) /\ q.chain[Len(q.chain)] = "handler"
    <3>1. "handler" \notin Checks
      BY DEF Checks
    <3>2. Len(q.chain) \in Nat /\ q.chain[q.place] = "handler"
      BY <1>2, <1>4 DEF Awaits, SoundChain
    <3>. QED  BY <1>2, <1>4, <3>1, <3>2 DEF Awaits, SoundChain
  <2>2. \A r \in RoutesOf(q.path, q.method) : r.reads \subseteq Provided(q.chain, q.place)
    BY <1>2, <1>4, <2>1 DEF Awaits, SoundChain
  <2>3. HandlerReads(q) \subseteq Provided(q.chain, q.place)
    BY <2>2 DEF HandlerReads
  <2>. QED  BY <1>2, <1>4, <2>3 DEF Awaits, Waiting, Misses
<1>. QED  BY <1>1, <1>3, <1>4

LEMMA AuthorizeOwnerKeeps ==
    ASSUME AuthIInv, NEW c \in Clients, AuthorizeOwner(c)
    PROVE  AuthIInv'
<1>1. Awaits(c, "owner") /\ ~Misses(requests[c], Reads("owner"))
  BY NothingMissed DEF AuthorizeOwner
<1>2. Reply(c, "conversation_not_found") \/ Passes(c)
  BY <1>1 DEF AuthorizeOwner
<1>3. "conversation_not_found" \in Codes
  BY DEF Codes
<1>4. CASE Passes(c)
  BY <1>1, <1>4, NextPlace DEF AuthorizeOwner
<1>5. CASE Reply(c, "conversation_not_found")
  BY <1>3, <1>5, WorldStays, ReplyMoves DEF AuthorizeOwner
<1>. QED  BY <1>2, <1>4, <1>5

LEMMA CheckFailsKeeps ==
    ASSUME AuthIInv, NEW c \in Clients, CheckFails(c)
    PROVE  AuthIInv'
<1>1. "operation_failed" \in Codes
  BY DEF Codes
<1>. QED  BY <1>1, WorldStays, ReplyMoves DEF CheckFails

LEMMA HandleKeeps ==
    ASSUME AuthIInv, NEW c \in Clients, Handle(c)
    PROVE  AuthIInv'
<1>1. ~Misses(requests[c], HandlerReads(requests[c]))
  BY NothingMissed DEF Handle
<1>2. PICK code \in Outcomes(requests[c].path) : Reply(c, code)
  BY <1>1 DEF Handle
<1>3. code \in Codes
  BY DEF Outcomes, Codes
<1>. QED  BY <1>2, <1>3, WorldStays, ReplyMoves DEF Handle

LEMMA WhoLogsIn ==
    ASSUME AuthIInv, NEW c \in Clients,
           requests[c].at \in {"readAttempts", "recordFailure", "openSession"}
    PROVE  LoggingIn(requests[c])
BY DEF AuthIInv, Sound, Idle, Replied, Answered, Waiting, Underway, ChainRequests

(* Where a login stands says what it holds.                                *)
LEMMA LoginShapes ==
    ASSUME NEW q, LoggingIn(q)
    PROVE  \E time \in Times :
             /\ q.at = "readAttempts" => q = [at |-> "readAttempts", time |-> time]
             /\ q.at = "recordFailure" =>
                  \E row \in Attempts :
                     /\ q = [at |-> "recordFailure", time |-> time, row |-> row]
                     /\ ~RateLimited(row, time)
             /\ q.at = "openSession" =>
                  \E u \in Users : q = [at |-> "openSession", time |-> time, user |-> u]
<1>1. PICK time \in Times :
        \/ q = [at |-> "readAttempts", time |-> time]
        \/ \E row \in Attempts :
              /\ q = [at |-> "recordFailure", time |-> time, row |-> row]
              /\ ~RateLimited(row, time)
        \/ \E u \in Users : q = [at |-> "openSession", time |-> time, user |-> u]
  BY Zenon DEF LoggingIn
<1>2. CASE q = [at |-> "readAttempts", time |-> time]
  <2>1. q.at = "readAttempts"
    BY <1>2
  <2>. QED  BY <1>2, <2>1
<1>3. ASSUME NEW row \in Attempts, ~RateLimited(row, time),
             q = [at |-> "recordFailure", time |-> time, row |-> row]
      PROVE  q.at = "recordFailure"
  BY <1>3
<1>4. ASSUME NEW u \in Users, q = [at |-> "openSession", time |-> time, user |-> u]
      PROVE  q.at = "openSession"
  BY <1>4
<1>5. CASE \E row \in Attempts :
              /\ q = [at |-> "recordFailure", time |-> time, row |-> row]
              /\ ~RateLimited(row, time)
  <2>1. q.at = "recordFailure"
    BY <1>3, <1>5
  <2>. QED  BY <1>5, <2>1
<1>6. CASE \E u \in Users : q = [at |-> "openSession", time |-> time, user |-> u]
  <2>1. q.at = "openSession"
    BY <1>4, <1>6
  <2>. QED  BY <1>6, <2>1
<1>. QED  BY <1>1, <1>2, <1>5, <1>6

LEMMA LoginCodes ==
    /\ "operation_failed" \in Codes /\ "logged_in" \in Codes /\ "logged_out" \in Codes
    /\ "invalid_credentials" \in Codes /\ "login_rate_limited" \in Codes
    /\ "invalid_login_request" \in Codes
BY DEF Codes

LEMMA BeginLoginKeeps ==
    ASSUME AuthIInv, NEW c \in Clients, BeginLogin(c)
    PROVE  AuthIInv'
<1>1. CASE Reply(c, "invalid_login_request")
  BY <1>1, LoginCodes, WorldStays, ReplyMoves DEF BeginLogin
<1>2. CASE ~Reply(c, "invalid_login_request")
  <2>1. PICK q : q = [at |-> "readAttempts", time |-> now]
    OBVIOUS
  <2>2. requests' = [requests EXCEPT ![c] = q]
    BY <1>2, <2>1 DEF BeginLogin
  <2>3. Sound(q)
    BY <2>1 DEF Sound, LoggingIn, AuthIInv, Tables
  <2>. QED  BY <2>2, <2>3, WorldStays, RequestMoves DEF BeginLogin
<1>. QED  BY <1>1, <1>2

LEMMA ReadAttemptsKeeps ==
    ASSUME AuthIInv, NEW c \in Clients, ReadAttempts(c)
    PROVE  AuthIInv'
<1>1. PICK time \in Times : requests[c] = [at |-> "readAttempts", time |-> time]
  <2>1. LoggingIn(requests[c]) /\ requests[c].at = "readAttempts"
    BY WhoLogsIn DEF ReadAttempts, At
  <2>. QED  BY <2>1, LoginShapes
<1>2. requests[c].time = time
  BY <1>1
<1>3. CASE RateLimited(attempts, time)
  <2>1. Reply(c, "login_rate_limited")
    BY <1>2, <1>3 DEF ReadAttempts
  <2>. QED  BY <2>1, LoginCodes, WorldStays, ReplyMoves DEF ReadAttempts
<1>4. CASE ~RateLimited(attempts, time)
  <2>1. PICK q :
          /\ requests' = [requests EXCEPT ![c] = q]
          /\ \/ q = [at |-> "recordFailure", time |-> time, row |-> attempts]
             \/ \E u \in Users : q = [at |-> "openSession", time |-> time, user |-> u]
    BY <1>2, <1>4 DEF ReadAttempts
  <2>2. attempts \in Attempts
    BY DEF AuthIInv, Tables
  <2>3. Sound(q)
    BY <1>4, <2>1, <2>2 DEF Sound, LoggingIn
  <2>. QED  BY <2>1, <2>3, WorldStays, RequestMoves DEF ReadAttempts
<1>. QED  BY <1>3, <1>4

(* The row that is written counts one failure more than the one that was   *)
(* read, which was below the limit.                                        *)
LEMMA FailureRowStaysBelow ==
    ASSUME NEW row \in Attempts, NEW time \in Times, ~RateLimited(row, time)
    PROVE  FailureRow(row, time) \in Attempts
<1>1. row.count \in Nat /\ row.start \in Times /\ MaxLoginAttempts \in Nat \ {0}
  BY BrowserAuthAssumption DEF Attempts
<1>2. CASE InWindow(row, time)
  <2>1. row.count < MaxLoginAttempts
    BY <1>1, <1>2 DEF RateLimited
  <2>2. row.count + 1 \in 0 .. MaxLoginAttempts
    BY <1>1, <2>1
  <2>. QED  BY <1>1, <1>2, <2>2 DEF FailureRow, Attempts
<1>3. CASE ~InWindow(row, time)
  <2>1. 1 \in 0 .. MaxLoginAttempts
    BY <1>1
  <2>. QED  BY <1>3, <2>1 DEF FailureRow, Attempts
<1>. QED  BY <1>2, <1>3

LEMMA FailureIsCounted ==
    ASSUME AuthIInv, NEW c \in Clients, At(c, "recordFailure"),
           attempts' = FailureRow(requests[c].row, requests[c].time),
           UNCHANGED <<now, sessions, drawn>>
    PROVE  WorldMoves
<1>1. PICK time \in Times, row \in Attempts :
        /\ requests[c] = [at |-> "recordFailure", time |-> time, row |-> row]
        /\ ~RateLimited(row, time)
  <2>1. LoggingIn(requests[c]) /\ requests[c].at = "recordFailure"
    BY WhoLogsIn DEF At
  <2>. QED  BY <2>1, LoginShapes
<1>2. attempts' \in Attempts
  BY <1>1, FailureRowStaysBelow
<1>3. now \in Nat
  BY DEF AuthIInv, Tables, Times
<1>. QED
  BY <1>2, <1>3 DEF AuthIInv, Tables, WorldMoves, OneSessionPerUser

LEMMA RecordFailureKeeps ==
    ASSUME AuthIInv, NEW c \in Clients, RecordFailure(c)
    PROVE  AuthIInv'
BY LoginCodes, FailureIsCounted, ReplyMoves DEF RecordFailure

(* A login's new session replaces all of its user.                         *)
LEMMA SessionIsOpened ==
    ASSUME AuthIInv, NEW c \in Clients, At(c, "openSession"),
           NEW token \in Tokens \ drawn,
           OpenSession(requests[c].user, requests[c].time, token), now' = now
    PROVE  WorldMoves
<1>1. PICK time \in Times, user \in Users :
        requests[c] = [at |-> "openSession", time |-> time, user |-> user]
  <2>1. LoggingIn(requests[c]) /\ requests[c].at = "openSession"
    BY WhoLogsIn DEF At
  <2>. QED  BY <2>1, LoginShapes
<1>2. PICK new : new = [token |-> token, user |-> user, expires |-> time + SessionTtl]
  OBVIOUS
<1>3. /\ sessions' = Kept(user, time) \cup {new}
      /\ attempts' = NoAttempts /\ drawn' = drawn \cup {token}
  BY <1>1, <1>2 DEF OpenSession
<1>4. new \in Sessions /\ new.user = user /\ new.token = token
  <2>1. time + SessionTtl \in Nat
    BY BrowserAuthAssumption DEF Times
  <2>. QED  BY <1>2, <2>1 DEF Sessions
<1>5. /\ Kept(user, time) \subseteq sessions
      /\ \A s \in Kept(user, time) : s.user # user
  BY DEF Kept
<1>6. \A s, t \in sessions' : s.user = t.user => s = t
  BY <1>3, <1>4, <1>5 DEF AuthIInv, Tables, OneSessionPerUser
<1>7. attempts' \in Attempts
  BY <1>3, BrowserAuthAssumption DEF NoAttempts, Attempts, Times
<1>8. sessions' \subseteq Sessions /\ (\A s \in sessions' : s.token \in drawn')
      /\ drawn' \subseteq Tokens
  BY <1>3, <1>4, <1>5 DEF AuthIInv, Tables
<1>9. now' \in Times /\ now <= now'
  BY DEF AuthIInv, Tables, Times
<1>10. /\ drawn \subseteq drawn'
       /\ \A s \in sessions' : s \in sessions \/ s.token \notin drawn
  BY <1>3, <1>4, <1>5
<1>. QED
  BY <1>6, <1>7, <1>8, <1>9, <1>10 DEF WorldMoves, Tables, OneSessionPerUser

LEMMA LoginKeeps ==
    ASSUME AuthIInv, NEW c \in Clients, Login(c)
    PROVE  AuthIInv'
<1>1. WorldMoves
  BY SessionIsOpened DEF Login
<1>. QED  BY <1>1, LoginCodes, ReplyMoves DEF Login

LEMMA LoginFailsKeeps ==
    ASSUME AuthIInv, NEW c \in Clients, LoginFails(c)
    PROVE  AuthIInv'
<1>1. CASE UNCHANGED database
  BY <1>1, WorldStays, LoginCodes, ReplyMoves DEF LoginFails
<1>2. CASE /\ At(c, "recordFailure")
           /\ attempts' = FailureRow(requests[c].row, requests[c].time)
           /\ UNCHANGED <<sessions, drawn>>
  <2>1. WorldMoves
    BY <1>2, FailureIsCounted DEF LoginFails
  <2>. QED  BY <2>1, LoginCodes, ReplyMoves DEF LoginFails
<1>3. CASE /\ At(c, "openSession")
           /\ \E token \in Tokens \ drawn :
                OpenSession(requests[c].user, requests[c].time, token)
  <2>1. WorldMoves
    BY <1>3, SessionIsOpened DEF LoginFails
  <2>. QED  BY <2>1, LoginCodes, ReplyMoves DEF LoginFails
<1>. QED  BY <1>1, <1>2, <1>3 DEF LoginFails

LEMMA FewerSessions ==
    ASSUME AuthIInv, sessions' \subseteq sessions, UNCHANGED <<now, attempts, drawn>>
    PROVE  WorldMoves
<1>1. now \in Nat
  BY DEF AuthIInv, Tables, Times
<1>. QED
  BY <1>1 DEF AuthIInv, Tables, WorldMoves, OneSessionPerUser

LEMMA LogoutKeeps ==
    ASSUME AuthIInv, NEW c \in Clients, Logout(c) \/ LogoutFails(c)
    PROVE  AuthIInv'
<1>1. WorldMoves
  BY FewerSessions DEF Logout, LogoutFails
<1>2. Reply(c, "logged_out") \/ Reply(c, "operation_failed")
  BY DEF Logout, LogoutFails
<1>. QED  BY <1>1, <1>2, LoginCodes, ReplyMoves

LEMMA TickKeeps ==
    ASSUME AuthIInv, Tick
    PROVE  AuthIInv'
<1>1. UNCHANGED <<sessions, attempts, drawn, requests>> /\ now' = now + 1
  BY DEF Tick, database
<1>2. now' \in Times /\ now <= now'
  BY BrowserAuthAssumption DEF Tick, AuthIInv, Tables, Times
<1>3. WorldMoves
  BY <1>1, <1>2 DEF AuthIInv, Tables, WorldMoves, OneSessionPerUser
<1>4. ASSUME NEW c \in Clients PROVE Sound(requests[c])'
  <2>1. PICK old : old = requests[c]
    OBVIOUS
  <2>2. Sound(old)
    BY <2>1 DEF AuthIInv, Sound, Waiting, Underway, Replied, LoggingIn
  <2>3. Sound(old)'
    BY <1>3, <2>2, SoundnessKept DEF AuthIInv
  <2>. QED
    BY <1>1, <2>1, <2>3 DEF Sound, Waiting, Underway, Replied, LoggingIn
<1>. QED  BY <1>1, <1>3, <1>4 DEF AuthIInv, WorldMoves

LEMMA StutterKeeps ==
    ASSUME AuthIInv, UNCHANGED vars
    PROVE  AuthIInv'
BY DEF vars, database, AuthIInv, Tables, OneSessionPerUser, Sound, Waiting, Underway,
       Replied, LoggingIn

-----------------------------------------------------------------------------
(***************************************************************************)
(* Theorems                                                                *)
(***************************************************************************)

(* The invariant behind the properties: whatever requests interleave, and  *)
(* whichever of their calls fail.                                          *)
THEOREM AuthInvariance == Spec => []AuthIInv
<1>1. Init => AuthIInv
  BY InitIsSound
<1>2. AuthIInv /\ [Next]_vars => AuthIInv'
  <2>. SUFFICES ASSUME AuthIInv, [Next]_vars PROVE AuthIInv'
    OBVIOUS
  <2>1. ASSUME NEW c \in Clients, Api(c) PROVE AuthIInv'
    BY <2>1, ReceiveKeeps, DeliveredKeeps, AuthenticateKeeps, AuthorizeOwnerKeeps,
       CheckFailsKeeps, HandleKeeps, BeginLoginKeeps, ReadAttemptsKeeps,
       RecordFailureKeeps, LoginKeeps, LoginFailsKeeps, LogoutKeeps
    DEF Api
  <2>2. CASE Tick
    BY <2>2, TickKeeps
  <2>3. CASE UNCHANGED vars
    BY <2>3, StutterKeeps
  <2>. QED  BY <2>1, <2>2, <2>3 DEF Next
<1>. QED  BY <1>1, <1>2, PTL DEF Spec

(* The tables hold what their columns may hold, and failed logins do not   *)
(* count past the limit, however many of them read the same row.           *)
THEOREM AuthTypeCorrect == Spec => []AuthTypeOK
<1>1. AuthIInv => AuthTypeOK
  BY DEF AuthIInv, Tables, AuthTypeOK, Times, Attempts
<1>. QED  BY <1>1, AuthInvariance, PTL

(* However logins interleave, each ends the user's session before it.      *)
THEOREM UsersHaveOneSession == Spec => []OneSessionPerUser
<1>1. AuthIInv => OneSessionPerUser
  BY DEF AuthIInv, Tables
<1>. QED  BY <1>1, AuthInvariance, PTL

(* No session that was over when a request came lets it through to a       *)
(* handler, on any route.                                                  *)
THEOREM EndedSessionsStayOut == Spec => []EndedSessionStaysOut
<1>1. AuthIInv => EndedSessionStaysOut
  <2>. SUFFICES ASSUME AuthIInv, NEW c \in Clients, Awaits(c, "handler"),
                       requests[c].path # "login"
                PROVE  ~requests[c].late
    BY DEF EndedSessionStaysOut
  <2>1. PICK q : q = requests[c]
    OBVIOUS
  <2>2. Waiting(q) /\ q.chain[q.place] = "handler"
    BY <2>1, WhoWaits DEF Awaits, Check
  <2>3. SoundChain(q.path, q.method, q.chain) /\ q.place \in 1 .. Len(q.chain)
    BY <2>2, ChainsAreSound DEF Waiting, Underway
  <2>4. "handler" \notin Checks /\ Len(q.chain) \in Nat
    BY <2>3 DEF Checks, SoundChain
  <2>5. q.place = Len(q.chain)
    BY <2>2, <2>3, <2>4 DEF SoundChain
  <2>6. \E k \in 1 .. (q.place - 1) : q.chain[k] = "session"
    BY <2>1, <2>2, <2>3, <2>5 DEF SoundChain
  <2>. QED  BY <2>1, <2>2, <2>6 DEF Waiting, Underway
<1>. QED  BY <1>1, AuthInvariance, PTL

(* On every path and with every method, what a handler takes from its      *)
(* request was stored there by a check before it.                          *)
THEOREM HandlersAlwaysFind == Spec => []HandlersFindWhatTheyRead
<1>1. AuthIInv => HandlersFindWhatTheyRead
  <2>. SUFFICES ASSUME AuthIInv, NEW c \in Clients
                PROVE  requests[c] # Answered("internal_error")
    BY DEF HandlersFindWhatTheyRead
  <2>1. "internal_error" \notin Codes
    BY DEF Codes
  <2>2. \A code : Answered(code).code = code /\ Answered(code).at = "answered"
    BY DEF Answered
  <2>. QED
    BY <2>1, <2>2
    DEF AuthIInv, Sound, Replied, Idle, LoggingIn, Waiting, Underway, ChainRequests
<1>. QED  BY <1>1, AuthInvariance, PTL
=============================================================================
