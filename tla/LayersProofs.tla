------------------------------ MODULE LayersProofs -----------------------------
(***************************************************************************)
(* Proofs about the layers that stand around an endpoint, for any number   *)
(* of them: what Cors grants, what leaves through Compress, and the gates  *)
(* of nested routers.  As in RequestProofs, every part has a section and   *)
(* an inductive invariant of its own.                                      *)
(***************************************************************************)
EXTENDS RequestProofs

(* A behaviour stays with its part, and its steps are those of the part.   *)
LEMMA LayersApart ==
  ASSUME [Next]_vars
  PROVE  /\ UNCHANGED part
         /\ part = "router" => [Routing!Next]_(Routing!vars)
         /\ part = "cors" => [CrossOrigin!Next]_(CrossOrigin!vars)
         /\ part = "compress" => [Compression!Next]_(Compression!vars)
  BY DEF Next, vars, entry, middlewares, handlers, router, cross, compress,
         Routing!vars, CrossOrigin!vars, Compression!vars

-----------------------------------------------------------------------------
(* Cors.                                                                   *)

Builders == [credentials : BOOLEAN, allowed_headers : SUBSET Headers,
             exposed_headers : SUBSET Headers, max_age : BOOLEAN,
             methods : SUBSET HttpMethods, origins : SUBSET Origins]

(* What the code does with several origins, and the properties with it.    *)
LastOrigin ==
    {given[i].value : i \in {j \in DOMAIN given :
        /\ given[j].setting = "origin"
        /\ \A k \in DOMAIN given : given[k].setting = "origin" => k <= j}}

LastGranted ==
    (/\ CrossOrigin!Answered /\ CrossOrigin!IsCrossOrigin(request)
     /\ request.method # "OPTIONS" \/ CrossOrigin!IsPreflight(request))
        => /\ resp.vary
           /\ resp.origin \in {CrossOrigin!OrElse(LastOrigin, request.origin),
                              CrossOrigin!Some("own")}
           /\ resp.origin = CrossOrigin!Some("own") => calls = 1

Granting ==
    /\ LastGranted /\ CrossOrigin!SameOriginUntouched
    /\ CrossOrigin!PreflightGrantsConfigured /\ CrossOrigin!OthersReachEndpoint

(* The strengthening: the builder has what was set, the lists in full and  *)
(* of the origins the last, and so has the Cors it built; what a response  *)
(* has on the way to the endpoint depends on Cors and the request only.    *)
BuilderSays ==
    /\ builder \in Builders
    /\ given \in Seq(CrossOrigin!Settings)
    /\ builder.methods = CrossOrigin!Given("method")
    /\ builder.allowed_headers = CrossOrigin!Given("header")
    /\ builder.origins = LastOrigin
    /\ LastOrigin \subseteq CrossOrigin!Given("origin")
    /\ LastOrigin = {} => CrossOrigin!Given("origin") = {}

CorsSays ==
    at # "building" =>
        /\ cors.credentials \in BOOLEAN /\ cors.expose_headers \in SUBSET SUBSET Headers
        /\ cors.allow_origin = LastOrigin
        /\ cors.allow_methods = CrossOrigin!Listed(CrossOrigin!Given("method"))
        /\ cors.allow_headers = CrossOrigin!Listed(CrossOrigin!Given("header"))

IsSimple(q) == CrossOrigin!IsCrossOrigin(q) /\ q.method # "OPTIONS"

Responses == [vary : {TRUE}, origin : SUBSET (Origins \cup {"bad", "own"}), credentials : BOOLEAN,
              exposed : SUBSET SUBSET Headers, methods : {CrossOrigin!None},
              headers : {CrossOrigin!None}, max_age : {FALSE}, status : Nat]

Ungranted == [vary : {TRUE}, origin : {CrossOrigin!None, CrossOrigin!Some("own")},
              credentials : {FALSE}, exposed : {CrossOrigin!None}, methods : {CrossOrigin!None},
              headers : {CrossOrigin!None}, max_age : {FALSE}, status : Nat]

OnTheWay ==
    /\ resp \in Responses /\ error \in Nat
    /\ IsSimple(request) => resp.origin = CrossOrigin!OrElse(LastOrigin, request.origin)
    /\ ~CrossOrigin!IsCrossOrigin(request) => resp \in Ungranted

Phases ==
    /\ at \in {"building", "built", "next", "thrown", "done"}
    /\ at \in {"building", "built"} => resp = CrossOrigin!Unset /\ calls = 0
    /\ at \in {"next", "thrown"} =>
          /\ request \in CrossOrigin!Requests /\ ~CrossOrigin!IsPreflight(request)
          /\ OnTheWay
    /\ at = "next" => calls = 0 /\ request.origin # CrossOrigin!Some("bad")
    /\ at = "thrown" => calls = (IF request.origin = CrossOrigin!Some("bad") THEN 0 ELSE 1)

CorsInv == BuilderSays /\ CorsSays /\ Phases /\ Granting

(* What a setting adds to what was given.                                  *)
LEMMA SettingGiven ==
  ASSUME BuilderSays, NEW s \in CrossOrigin!Settings, given' = Append(given, s)
  PROVE  /\ given' \in Seq(CrossOrigin!Settings)
         /\ \A setting : CrossOrigin!Given(setting)' =
               CrossOrigin!Given(setting) \cup IF s.setting = setting THEN {s.value} ELSE {}
         /\ LastOrigin' = IF s.setting = "origin" THEN {s.value} ELSE LastOrigin
<1> DEFINE n == Len(given)
<1>1. /\ n \in Nat /\ Len(given') = n + 1 /\ given'[n + 1] = s
      /\ \A i \in 1 .. n : given'[i] = given[i]
      /\ given' \in Seq(CrossOrigin!Settings)
      /\ DOMAIN given = 1 .. n /\ DOMAIN given' = 1 .. n + 1
  BY DEF BuilderSays
<1> HIDE DEF n
<1>2. \A i \in 1 .. n + 1 : i \in 1 .. n \/ i = n + 1
  BY <1>1
<1>3. ASSUME NEW setting
      PROVE  CrossOrigin!Given(setting)' =
               CrossOrigin!Given(setting) \cup IF s.setting = setting THEN {s.value} ELSE {}
  BY <1>1, <1>2 DEF CrossOrigin!Given
<1>4. CASE s.setting = "origin"
  <2> DEFINE last(j) == /\ given'[j].setting = "origin"
                        /\ \A k \in 1 .. n + 1 : given'[k].setting = "origin" => k <= j
  <2>1. \A j \in 1 .. n + 1 : last(j) <=> j = n + 1
    BY <1>1, <1>2, <1>4
  <2>2. LastOrigin' = {given'[i].value : i \in {j \in 1 .. n + 1 : last(j)}}
    BY <1>1 DEF LastOrigin
  <2> QED
    BY <1>1, <1>3, <1>4, <2>1, <2>2
<1>5. CASE s.setting # "origin"
  <2> DEFINE last(j) == /\ given[j].setting = "origin"
                        /\ \A k \in 1 .. n : given[k].setting = "origin" => k <= j
             next(j) == /\ given'[j].setting = "origin"
                        /\ \A k \in 1 .. n + 1 : given'[k].setting = "origin" => k <= j
  <2>1. {j \in 1 .. n + 1 : next(j)} = {j \in 1 .. n : last(j)}
    BY <1>1, <1>2, <1>5
  <2>2. /\ LastOrigin' = {given'[i].value : i \in {j \in 1 .. n + 1 : next(j)}}
        /\ LastOrigin = {given[i].value : i \in {j \in 1 .. n : last(j)}}
    BY <1>1 DEF LastOrigin
  <2> HIDE DEF last, next
  <2>3. LastOrigin' = LastOrigin
    BY <1>1, <2>1, <2>2
  <2> QED
    BY <1>1, <1>3, <1>5, <2>3
<1> QED
  BY <1>4, <1>5

(* The builder keeps what it is given, setting by setting.                 *)
LEMMA BuilderSteps ==
  ASSUME BuilderSays, NEW s \in CrossOrigin!Settings,
         builder' = CrossOrigin!With(builder, s), given' = Append(given, s)
  PROVE  BuilderSays'
<1>1. builder \in Builders /\ s \in CrossOrigin!Settings
  BY DEF BuilderSays
<1>2. /\ builder' \in Builders
      /\ builder'.methods = builder.methods \cup IF s.setting = "method" THEN {s.value} ELSE {}
      /\ builder'.allowed_headers =
            builder.allowed_headers \cup IF s.setting = "header" THEN {s.value} ELSE {}
      /\ builder'.origins = IF s.setting = "origin" THEN {s.value} ELSE builder.origins
  <2>1. CASE s.setting = "origin"
    <3>1. s.value \in Origins /\ builder' = [builder EXCEPT !.origins = {s.value}]
      BY <1>1, <2>1 DEF CrossOrigin!Settings, CrossOrigin!With, CrossOrigin!Some
    <3> QED
      BY <1>1, <2>1, <3>1 DEF Builders
  <2>2. CASE s.setting = "method"
    <3>1. s.value \in HttpMethods /\ builder' = [builder EXCEPT !.methods = @ \cup {s.value}]
      BY <1>1, <2>2 DEF CrossOrigin!Settings, CrossOrigin!With
    <3> QED
      BY <1>1, <2>2, <3>1 DEF Builders
  <2>3. CASE s.setting = "header"
    <3>1. s.value \in Headers /\ builder' = [builder EXCEPT !.allowed_headers = @ \cup {s.value}]
      BY <1>1, <2>3 DEF CrossOrigin!Settings, CrossOrigin!With
    <3> QED
      BY <1>1, <2>3, <3>1 DEF Builders
  <2>4. CASE s.setting = "expose"
    <3>1. s.value \in Headers /\ builder' = [builder EXCEPT !.exposed_headers = @ \cup {s.value}]
      BY <1>1, <2>4 DEF CrossOrigin!Settings, CrossOrigin!With
    <3> QED
      BY <1>1, <2>4, <3>1, SMTT(20) DEF Builders
  <2>5. CASE s.setting = "credentials"
    <3>1. builder' = [builder EXCEPT !.credentials = TRUE]
      BY <2>5 DEF CrossOrigin!With
    <3> QED
      BY <1>1, <2>5, <3>1 DEF Builders
  <2>6. CASE s.setting = "max_age"
    <3>1. builder' = [builder EXCEPT !.max_age = TRUE]
      BY <2>6 DEF CrossOrigin!With
    <3> QED
      BY <1>1, <2>6, <3>1 DEF Builders
  <2> QED
    BY <1>1, <2>1, <2>2, <2>3, <2>4, <2>5, <2>6 DEF CrossOrigin!Settings
<1> QED
  BY <1>2, SettingGiven DEF BuilderSays

(* What Cors::handle does with a request, before the endpoint or instead.  *)
LEMMA Handled ==
  ASSUME CrossOrigin!OriginsAssumption, CorsInv, at = "built", NEW q \in CrossOrigin!Requests,
         \/ CrossOrigin!Skip(q) \/ CrossOrigin!BadOrigin(q)
         \/ CrossOrigin!SimpleRequest(q) \/ CrossOrigin!PreflightRequest(q)
  PROVE  Phases' /\ Granting'
<1> USE DEF CorsInv, Phases, CrossOrigin!Handle
<1>0. /\ resp = CrossOrigin!Unset /\ calls = 0 /\ UNCHANGED <<cors, given, calls>> /\ request' = q
      /\ CorsSays
      /\ q.origin = CrossOrigin!None => ~CrossOrigin!IsCrossOrigin(q)
  BY DEF CrossOrigin!Skip, CrossOrigin!BadOrigin, CrossOrigin!SimpleRequest,
         CrossOrigin!PreflightRequest, CrossOrigin!IsCrossOrigin
<1>5. ASSUME resp' = [CrossOrigin!Unset EXCEPT !.vary = TRUE]
      PROVE  resp' \in Responses /\ resp' \in Ungranted
  BY <1>5, ZenonT(40) DEF Responses, Ungranted, CrossOrigin!Unset, CrossOrigin!None
<1>1. CASE CrossOrigin!Skip(q)
  BY <1>0, <1>1, <1>5 DEF CrossOrigin!Skip, OnTheWay, IsSimple, Granting,
     LastGranted, CrossOrigin!SameOriginUntouched,
     CrossOrigin!PreflightGrantsConfigured, CrossOrigin!OthersReachEndpoint, CrossOrigin!Answered,
     CrossOrigin!Unset, CrossOrigin!IsCrossOrigin, CrossOrigin!IsPreflight, CrossOrigin!Some, CrossOrigin!None
<1>2. CASE CrossOrigin!BadOrigin(q)
  BY <1>0, <1>2, <1>5 DEF CrossOrigin!BadOrigin, OnTheWay, IsSimple, Granting,
     LastGranted, CrossOrigin!SameOriginUntouched,
     CrossOrigin!PreflightGrantsConfigured, CrossOrigin!OthersReachEndpoint, CrossOrigin!Answered,
     CrossOrigin!Unset, CrossOrigin!IsCrossOrigin, CrossOrigin!IsPreflight
<1>3. CASE CrossOrigin!SimpleRequest(q)
  <2> DEFINE origin == CrossOrigin!OrElse(LastOrigin, q.origin)
  <2>3. origin \in SUBSET (Origins \cup {"bad", "own"})
    BY DEF BuilderSays, Builders, CrossOrigin!Requests, CrossOrigin!Some, CrossOrigin!None,
           CrossOrigin!OrElse
  <2>4. /\ cors.credentials \in BOOLEAN /\ cors.expose_headers \in SUBSET SUBSET Headers
        /\ cors.allow_origin = LastOrigin
    BY <1>0 DEF CorsSays
  <2>5. resp' = [[[CrossOrigin!Unset EXCEPT !.origin = origin, !.credentials = cors.credentials]
                     EXCEPT !.exposed = cors.expose_headers] EXCEPT !.vary = TRUE]
    BY <1>0, <1>3, <2>4 DEF CrossOrigin!SimpleRequest, CrossOrigin!Simple, CrossOrigin!Granted
  <2> HIDE DEF origin
  <2>6. resp' \in Responses
    BY <2>3, <2>4, <2>5, ZenonT(40) DEF CrossOrigin!Unset, CrossOrigin!None, Responses
  <2>1. resp'.origin = origin
    BY <2>5 DEF CrossOrigin!Unset
  <2>2. UNCHANGED LastOrigin
    BY <1>0 DEF LastOrigin
  <2> QED
    BY <1>0, <1>3, <2>1, <2>2, <2>6 DEF origin, CrossOrigin!SimpleRequest, OnTheWay, IsSimple,
       Granting, LastGranted, CrossOrigin!SameOriginUntouched,
       CrossOrigin!PreflightGrantsConfigured, CrossOrigin!OthersReachEndpoint, CrossOrigin!Answered,
       CrossOrigin!IsCrossOrigin, CrossOrigin!IsPreflight
<1>4. CASE CrossOrigin!PreflightRequest(q)
  <2>1. /\ resp'.vary /\ resp'.status = 204
        /\ resp'.origin = CrossOrigin!OrElse(LastOrigin, q.origin)
        /\ resp'.methods = CrossOrigin!OrElse(CrossOrigin!Listed(CrossOrigin!Given("method")),
                                              CrossOrigin!Some(q.request_method))
        /\ resp'.headers = CrossOrigin!OrElse(CrossOrigin!Listed(CrossOrigin!Given("header")),
                                              q.request_headers)
    BY <1>0, <1>4 DEF CrossOrigin!PreflightRequest, CrossOrigin!Preflight, CrossOrigin!Granted,
       CorsSays, CrossOrigin!Unset
  <2>2. UNCHANGED LastOrigin /\ \A x : UNCHANGED CrossOrigin!Given(x)
    BY <1>0 DEF LastOrigin, CrossOrigin!Given
  <2>3. /\ CrossOrigin!IsCrossOrigin(q) /\ CrossOrigin!IsPreflight(q)
        /\ at' = "done" /\ calls' = 0
    BY <1>0, <1>4 DEF CrossOrigin!PreflightRequest, CrossOrigin!IsPreflight
  <2>4. resp'.origin # CrossOrigin!Some("own")
    <3>1. /\ LastOrigin \subseteq Origins
          /\ q.origin \subseteq Origins \cup {"bad"} /\ "own" \notin Origins
      BY DEF BuilderSays, Builders, CrossOrigin!Requests, CrossOrigin!Some, CrossOrigin!None,
             CrossOrigin!OriginsAssumption
    <3> QED
      BY <2>1, <3>1 DEF CrossOrigin!OrElse, CrossOrigin!Some
  <2>5. /\ resp'.methods = CrossOrigin!Some(IF CrossOrigin!Given("method") = {} THEN q.request_method
                                            ELSE CrossOrigin!Given("method"))
        /\ resp'.headers = IF CrossOrigin!Given("header") = {} THEN q.request_headers
                           ELSE CrossOrigin!Some(CrossOrigin!Given("header"))
    BY <2>1 DEF CrossOrigin!OrElse, CrossOrigin!Listed, CrossOrigin!Some, CrossOrigin!None
  <2>6. Phases'
    BY <2>3
  <2>7. LastGranted' /\ CrossOrigin!SameOriginUntouched'
    BY <1>0, <2>1, <2>2, <2>3, <2>4 DEF LastGranted, CrossOrigin!SameOriginUntouched
  <2>8. CrossOrigin!PreflightGrantsConfigured' /\ CrossOrigin!OthersReachEndpoint'
    BY <1>0, <2>1, <2>2, <2>3, <2>5 DEF CrossOrigin!PreflightGrantsConfigured, CrossOrigin!OthersReachEndpoint
  <2> QED
    BY <2>6, <2>7, <2>8 DEF Granting
<1> QED
  BY <1>1, <1>2, <1>3, <1>4

(* Every step keeps what was set and grants no more.                       *)
LEMMA CorsSteps ==
  ASSUME CrossOrigin!OriginsAssumption, CorsInv, [CrossOrigin!Next]_(CrossOrigin!vars)
  PROVE  CorsInv'
<1> USE DEF CorsInv
<1>1. ASSUME NEW s \in CrossOrigin!Settings, CrossOrigin!Set(s) PROVE CorsInv'
  <2>1. BuilderSays'
    BY <1>1, BuilderSteps DEF CrossOrigin!Set
  <2> QED
    BY <1>1, <2>1 DEF CrossOrigin!Set, CorsSays, Phases, Granting,
       LastGranted, CrossOrigin!SameOriginUntouched,
       CrossOrigin!PreflightGrantsConfigured, CrossOrigin!OthersReachEndpoint, CrossOrigin!Answered
<1>2. ASSUME UNCHANGED <<builder, given>>
      PROVE  /\ BuilderSays'
             /\ \A x : UNCHANGED CrossOrigin!Given(x)
             /\ UNCHANGED LastOrigin
  <2>1. \A x : UNCHANGED CrossOrigin!Given(x)
    BY <1>2 DEF CrossOrigin!Given
  <2>2. UNCHANGED LastOrigin
    BY <1>2 DEF LastOrigin
  <2> QED
    BY <1>2, <2>1, <2>2 DEF BuilderSays
<1>3. CASE CrossOrigin!build
  <2>1. CorsSays'
    BY <1>2, <1>3 DEF CrossOrigin!build, CorsSays, BuilderSays, Builders, CrossOrigin!Listed,
       CrossOrigin!Some, CrossOrigin!None
  <2> QED
    BY <1>2, <1>3, <2>1 DEF CrossOrigin!build, Phases, Granting,
       LastGranted, CrossOrigin!SameOriginUntouched,
       CrossOrigin!PreflightGrantsConfigured, CrossOrigin!OthersReachEndpoint, CrossOrigin!Answered
<1>4. ASSUME NEW q \in CrossOrigin!Requests,
             \/ CrossOrigin!Skip(q) \/ CrossOrigin!BadOrigin(q)
             \/ CrossOrigin!SimpleRequest(q) \/ CrossOrigin!PreflightRequest(q)
      PROVE  CorsInv'
  <2>1. at = "built" /\ UNCHANGED <<builder, cors, given>>
    BY <1>4 DEF CrossOrigin!Skip, CrossOrigin!BadOrigin, CrossOrigin!SimpleRequest,
       CrossOrigin!PreflightRequest, CrossOrigin!Handle
  <2>2. Phases' /\ Granting'
    BY <1>4, <2>1, Handled
  <2> QED
    BY <1>2, <2>1, <2>2 DEF CorsSays
<1>5. ASSUME at' = "done", at \in {"next", "thrown"}, UNCHANGED <<builder, cors, request, given>>,
             resp' \in Responses, resp \in Ungranted => resp' \in Ungranted,
             resp'.origin = resp.origin \/ (resp'.origin = CrossOrigin!Some("own") /\ calls' = 1),
             calls' = (IF request.origin = CrossOrigin!Some("bad") THEN 0 ELSE 1)
      PROVE  CorsInv'
  <2>1. /\ request \in CrossOrigin!Requests /\ ~CrossOrigin!IsPreflight(request) /\ OnTheWay
    BY <1>5 DEF Phases
  <2>2. BuilderSays' /\ CorsSays' /\ Phases' /\ UNCHANGED LastOrigin
    BY <1>2, <1>5 DEF CorsSays, Phases
  <2>3. IsSimple(request) => resp.origin # CrossOrigin!Some("own")
    <3>1. /\ LastOrigin \subseteq Origins
          /\ request.origin \subseteq Origins \cup {"bad"} /\ "own" \notin Origins
      BY <2>1 DEF BuilderSays, Builders, CrossOrigin!Requests, CrossOrigin!Some, CrossOrigin!None,
             CrossOrigin!OriginsAssumption
    <3> QED
      BY <2>1, <3>1 DEF OnTheWay, CrossOrigin!OrElse, CrossOrigin!Some
  <2>4. LastGranted'
    BY <1>5, <2>1, <2>2, <2>3 DEF LastGranted, OnTheWay, IsSimple, Responses,
       CrossOrigin!IsCrossOrigin, CrossOrigin!IsPreflight
  <2>5. CrossOrigin!SameOriginUntouched'
    <3>1. ASSUME resp' \in Ungranted
          PROVE  /\ resp'.vary /\ resp'.origin \in {CrossOrigin!None, CrossOrigin!Some("own")}
                 /\ [resp' EXCEPT !.vary = FALSE, !.origin = CrossOrigin!None, !.status = 200]
                       = CrossOrigin!Unset
      <4> DEFINE r == [resp' EXCEPT !.vary = FALSE, !.origin = CrossOrigin!None, !.status = 200]
      <4>1. r \in
               [vary : {FALSE}, origin : {CrossOrigin!None}, credentials : {FALSE},
                exposed : {CrossOrigin!None}, methods : {CrossOrigin!None},
                headers : {CrossOrigin!None}, max_age : {FALSE}, status : {200}]
        BY <3>1 DEF Ungranted
      <4> HIDE DEF r
      <4>2. r = CrossOrigin!Unset
        BY <4>1 DEF CrossOrigin!Unset
      <4>3. resp'.vary /\ resp'.origin \in {CrossOrigin!None, CrossOrigin!Some("own")}
        BY <3>1 DEF Ungranted
      <4> QED
        BY <4>2, <4>3 DEF r
    <3> QED
      BY <1>5, <2>1, <3>1 DEF CrossOrigin!SameOriginUntouched, OnTheWay, CrossOrigin!IsCrossOrigin
  <2>6. CrossOrigin!PreflightGrantsConfigured' /\ CrossOrigin!OthersReachEndpoint'
    BY <1>5, <2>1 DEF CrossOrigin!PreflightGrantsConfigured, CrossOrigin!OthersReachEndpoint,
       CrossOrigin!IsCrossOrigin, CrossOrigin!IsPreflight
  <2> QED
    BY <2>2, <2>4, <2>5, <2>6 DEF Granting
<1>7. CASE CrossOrigin!Endpoint
  <2>1. /\ at = "next" /\ calls' = 1 /\ UNCHANGED <<builder, cors, request, given>>
        /\ request.origin # CrossOrigin!Some("bad")
        /\ OnTheWay /\ resp \in Responses
    BY <1>7 DEF CrossOrigin!Endpoint, Phases, OnTheWay
  <2>2. CASE at' = "done" /\ UNCHANGED resp
    BY <1>5, <2>1, <2>2
  <2>3. CASE at' = "done" /\ resp' = [resp EXCEPT !.origin = CrossOrigin!Some("own")]
    <3>1. resp' \in Responses /\ resp'.origin = CrossOrigin!Some("own")
      BY <2>1, <2>3 DEF Responses, CrossOrigin!Some
    <3>2. resp \in Ungranted => resp' \in Ungranted
      BY <2>3 DEF Ungranted
    <3> QED
      BY <1>5, <2>1, <2>3, <3>1, <3>2
  <2>4. CASE at' = "thrown" /\ UNCHANGED resp
    <3>1. Phases'
      <4>1. error' \in Nat /\ UNCHANGED <<request, resp, LastOrigin>>
        BY <1>2, <1>7, <2>1, <2>4 DEF CrossOrigin!Endpoint, OnTheWay
      <4>2. OnTheWay'
        BY <2>1, <4>1 DEF OnTheWay, IsSimple, CrossOrigin!IsCrossOrigin
      <4> QED
        BY <2>1, <2>4, <4>1, <4>2 DEF Phases, CrossOrigin!IsCrossOrigin, CrossOrigin!IsPreflight
    <3> QED
      BY <1>2, <2>1, <2>4, <3>1 DEF CorsSays, Granting,
         LastGranted, CrossOrigin!SameOriginUntouched,
         CrossOrigin!PreflightGrantsConfigured, CrossOrigin!OthersReachEndpoint, CrossOrigin!Answered
  <2> QED
    BY <1>7, <2>2, <2>3, <2>4 DEF CrossOrigin!Endpoint
<1>8. CASE CrossOrigin!Thrown
  <2>1. /\ at = "thrown" /\ at' = "done" /\ resp' = [resp EXCEPT !.status = error]
        /\ UNCHANGED <<builder, cors, request, given, calls>>
        /\ calls = (IF request.origin = CrossOrigin!Some("bad") THEN 0 ELSE 1)
        /\ OnTheWay /\ resp \in Responses /\ error \in Nat
    BY <1>8 DEF CrossOrigin!Thrown, CrossOrigin!Kept, Phases, OnTheWay
  <2>2. resp' \in Responses /\ resp'.origin = resp.origin
    BY <2>1 DEF Responses
  <2>3. resp \in Ungranted => resp' \in Ungranted
    BY <2>1 DEF Ungranted
  <2> QED
    BY <1>5, <2>1, <2>2, <2>3
<1>9. CASE UNCHANGED CrossOrigin!vars
  BY <1>2, <1>9 DEF CrossOrigin!vars, CorsSays, Phases, OnTheWay, IsSimple,
     Granting, LastGranted, CrossOrigin!SameOriginUntouched,
     CrossOrigin!PreflightGrantsConfigured, CrossOrigin!OthersReachEndpoint, CrossOrigin!Answered,
     CrossOrigin!IsCrossOrigin, CrossOrigin!IsPreflight
<1> QED
  BY <1>1, <1>3, <1>4, <1>7, <1>8, <1>9 DEF CrossOrigin!Next

(* The last of at most one origin is the one that was given.               *)
LEMMA OneOriginGranted ==
  ASSUME BuilderSays, LastGranted
  PROVE  CrossOrigin!ThrownKeepsGrant
<1>1. CrossOrigin!OneOrigin => LastOrigin = CrossOrigin!Given("origin")
  BY DEF BuilderSays, CrossOrigin!OneOrigin
<1> QED
  BY <1>1 DEF LastGranted, CrossOrigin!ThrownKeepsGrant

(* For any origins, methods, headers and any number of settings, Cors      *)
(* grants the lists that were configured and no more, and of an origin the *)
(* one that was configured, if it was at most one, also on responses that  *)
(* are thrown; and every request but a preflight reaches the endpoint once.*)
THEOREM CorsGrants == Spec => []GrantsAsConfigured
<1> DEFINE Inv == part = "cors" => CorsInv
<1>1. Init => Inv
  <2> SUFFICES ASSUME CrossOrigin!Init PROVE CorsInv
    BY DEF Init
  <2>1. given \in Seq(CrossOrigin!Settings) /\ DOMAIN given = {}
    BY DEF CrossOrigin!Init
  <2>2. LastOrigin = {} /\ \A x : CrossOrigin!Given(x) = {}
    BY <2>1 DEF LastOrigin, CrossOrigin!Given
  <2> QED
    BY <2>1, <2>2 DEF CrossOrigin!Init, CorsInv, BuilderSays, Builders, CorsSays, Phases, CrossOrigin!None,
       Granting, LastGranted, CrossOrigin!SameOriginUntouched,
       CrossOrigin!PreflightGrantsConfigured, CrossOrigin!OthersReachEndpoint, CrossOrigin!Answered
<1>2. Inv /\ [Next]_vars => Inv'
  BY LayersApart, CorsSteps, Assumptions
<1>3. Inv => GrantsAsConfigured
  BY OneOriginGranted DEF CorsInv, GrantsAsConfigured, CrossOrigin!GrantsAsConfigured, Granting
<1> QED
  BY <1>1, <1>2, <1>3, PTL DEF Spec

-----------------------------------------------------------------------------
(* Compress.                                                               *)

(* For any stack of layers and any Accept-Encoding, an error that leaves   *)
(* through Compress, or one that Compress throws over a header it cannot   *)
(* read, leaves the body and Content-Encoding alone.                       *)
THEOREM ErrorsAreNotEncoded == Spec => ErrorsNotEncoded
<1>1. ASSUME part = "compress", Compression!Next PROVE Compression!ErrorPasses
  <2> USE DEF Compression!IsLayer, Compression!Failed
  <2> SUFFICES ASSUME way = "out", layers[running] = "compress",
                      result # "ok" \/ ~Compression!Readable(accept)
               PROVE  UNCHANGED <<body, content>> /\ result' # "ok"
    BY DEF Compression!ErrorPasses
  <2>1. Compression!PassError \/ Compression!BadAccept
    BY <1>1 DEF Compression!Next, Compression!Enter, Compression!Endpoint, Compression!Compressed,
       Compression!OtherReturns, Compression!Expose
  <2>2. CASE Compression!PassError
    BY <2>2 DEF Compression!PassError
  <2>3. CASE Compression!BadAccept
    BY <2>3 DEF Compression!BadAccept
  <2> QED
    BY <2>1, <2>2, <2>3
<1>2. ASSUME [Next]_vars PROVE [part = "compress" => Compression!ErrorPasses]_vars
  BY <1>1, <1>2 DEF Next
<1> QED
  BY <1>2, PTL DEF Spec, ErrorsNotEncoded

(* What the encoders did.  A chunk remembers how many layers had encoded   *)
(* when it was written, so EncodedByLaterLayers says what every chunk has  *)
(* met since; it is inductive with the types, and HeaderDecodesBody follows *)
(* from it for the first chunks, because Content-Encoding lists every      *)
(* encoding ever applied.                                                  *)
Selectable == Compression!Supported \cup {Compression!None}

ChunkShapes == [after : Nat, encs : Seq(Compression!Encoders)]
Turns == [layer : DOMAIN layers, selected : Selectable]

Since(after) == [j \in 1 .. Len(done) - after |-> Compression!Applied(done[after + j].selected)]

CompressTypes ==
    /\ accept \in Seq(Compression!Entries)
    /\ done \in Seq(Turns)
    /\ body \in Seq(ChunkShapes)
    /\ content = Since(0)
    /\ \A i \in DOMAIN body : body[i].after <= Len(done)

(* What select_encoding selects: the first of the best that it knows, or   *)
(* None when nothing that it knows is accepted.                            *)
Preferred(s) ==
    \/ s = Compression!None
       /\ \A i \in DOMAIN accept : Compression!Known(accept[i]) => accept[i].q <= 0
    \/ \E i \in DOMAIN accept :
          /\ Compression!Known(accept[i]) /\ accept[i].q > 0
          /\ s = (IF accept[i].name = "*" THEN Compression!None ELSE accept[i].name)
          /\ \A k \in DOMAIN accept : Compression!Known(accept[k]) =>
                /\ accept[k].q <= accept[i].q
                /\ k < i => accept[k].q < accept[i].q

AllPreferred == \A d \in DOMAIN done : Preferred(done[d].selected)

CompressInv ==
    CompressTypes /\ Compression!EncodedByLaterLayers /\ AllPreferred

(* Compress filters with the Only that the lemmas of SequenceFacts are     *)
(* about.                                                                  *)
LEMMA SameInCompress == \A s, set : Compression!Only(s, set) = Only(s, set)
BY DEF Compression!Only, Compression!FoldLeft, Compression!MapThenFoldSet, Compression!Max,
       Only, FoldLeft, MapThenFoldSet, Max

(* The preferred entry of the readable ones: none with a q-value above 0,  *)
(* or the first of those with the greatest.                                *)
NoPreference == [name |-> "*", q |-> 0]

Best(v, entries, k) ==
    \/ v = NoPreference /\ \A i \in 1 .. k : entries[i].q <= 0
    \/ \E i \in 1 .. k : /\ v = entries[i] /\ v.q > 0
                         /\ \A j \in 1 .. k : /\ entries[j].q <= v.q
                                              /\ j < i => entries[j].q < v.q

(* Replacing by strictly greater q-values only leads to it.                *)
LEMMA BestIsFolded ==
  ASSUME NEW a \in Seq(Compression!Entries)
  PROVE  Best(Compression!FoldLeft(Compression!Better, NoPreference, a), a, Len(a))
<1> DEFINE Pick(v, e) == IF e.q > v.q THEN e ELSE v
           IsIt(it) == it = [t \in SUBSET DOMAIN a |->
                               IF t = {} THEN NoPreference ELSE Pick(it[t \ {Max(t)}], a[Max(t)])]
           chosen == CHOOSE it : IsIt(it)
<1>1. PICK n : n = Len(a)
  OBVIOUS
<1>2. PICK V : V = Compression!Entries \cup {NoPreference}
  OBVIOUS
<1>3. PICK step : step = [x \in V \X (1 .. n) |-> Pick(x[1], a[x[2]])]
  OBVIOUS
<1>4. n \in Nat /\ DOMAIN a = 1 .. n /\ \A k \in 1 .. n : a[k] \in Compression!Entries
  BY <1>1
<1>5. step \in [V \X (1 .. n) -> V] /\ NoPreference \in V
  BY <1>2, <1>3, <1>4
<1>6. \A v \in V, k \in 1 .. n : step[<<v, k>>] = Pick(v, a[k])
  BY <1>3
<1>7. Compression!FoldLeft(Compression!Better, NoPreference, a) = chosen[DOMAIN a]
  BY DEF Compression!FoldLeft, Compression!MapThenFoldSet, Compression!Better, Compression!Max, Max
<1> HIDE DEF Pick
<1>8. PICK it : IsFold(it, n, V, NoPreference, step)
  BY ONLY <1>4, <1>5, FoldExists
<1>9. IsIt(it)
  <2>1. ASSUME NEW t \in SUBSET (1 .. n), t # {}
        PROVE  it[t] = Pick(it[t \ {Max(t)}], a[Max(t)])
    BY <1>6, <1>8, <2>1 DEF IsFold
  <2> QED
    BY <1>4, <1>8, <2>1 DEF IsFold
<1>10. IsIt(chosen)
  BY <1>9
<1>11. PICK g : g = chosen
  OBVIOUS
<1>12. /\ g[{}] = NoPreference
       /\ \A t \in SUBSET (1 .. n) : t # {} => g[t] = Pick(g[t \ {Max(t)}], a[Max(t)])
  BY <1>4, <1>10, <1>11
<1>13. Follows(g, n, V, NoPreference, step)
  BY <1>6, <1>12 DEF Follows
<1>14. PICK tr : IsTrace(tr, g, n, V, NoPreference, step)
  BY ONLY <1>4, <1>5, <1>13, FoldSteps
<1>15. PICK T : T = {k \in 0 .. n : Best(tr[k], a, k)}
  OBVIOUS
<1>16. 0 \in T
  BY <1>4, <1>14, <1>15 DEF IsTrace, Best
<1>17. ASSUME NEW k \in 0 .. n - 1, k \in T
       PROVE  k + 1 \in T
  <2>1. k + 1 \in 1 .. n /\ k + 1 \in 0 .. n /\ (k + 1) - 1 = k /\ k \in 0 .. n
    BY <1>4
  <2>2. PICK v : v = tr[k]
    OBVIOUS
  <2>3. PICK e : e = a[k + 1]
    OBVIOUS
  <2>4. tr[k + 1] = IF e.q > v.q THEN e ELSE v
    <3>1. tr[k + 1] = step[<<v, k + 1>>] /\ v \in V
      BY <1>14, <2>1, <2>2 DEF IsTrace
    <3>2. step[<<v, k + 1>>] = Pick(v, e)
      BY <1>6, <2>1, <2>3, <3>1
    <3> QED
      BY <3>1, <3>2 DEF Pick
  <2>5. Best(v, a, k)
    BY <1>15, <1>17, <2>2
  <2>6. /\ e.q \in Int
        /\ \A j \in 1 .. k : a[j].q \in Int
        /\ v.q \in Int
    <3>1. \A x \in Compression!Entries : x.q \in Int
      BY Assumptions DEF Compression!LayersAssumption, Compression!Entries
    <3> QED
      BY <1>4, <2>1, <2>3, <2>5, <3>1 DEF Best, NoPreference
  <2>7. v = NoPreference => v.q = 0
    BY DEF NoPreference
  <2>8. \A j \in 1 .. k + 1 : j \in 1 .. k \/ j = k + 1
    BY <2>1
  <2>9. k + 1 \in 1 .. k + 1 /\ \A j \in 1 .. k : j \in 1 .. k + 1 /\ j < k + 1
    BY <2>1
  <2>10. Best(tr[k + 1], a, k + 1)
    <3>1. CASE e.q > v.q
      <4>1. tr[k + 1] = a[k + 1] /\ a[k + 1].q > 0
        BY <2>3, <2>4, <2>5, <2>6, <2>7, <3>1 DEF Best
      <4>2. \A j \in 1 .. k : a[j].q < a[k + 1].q
        BY <2>3, <2>5, <2>6, <2>7, <3>1, SMTT(30) DEF Best
      <4>3. \A j \in 1 .. k + 1 : /\ a[j].q <= a[k + 1].q
                                  /\ j < k + 1 => a[j].q < a[k + 1].q
        BY <2>1, <2>3, <2>6, <2>8, <4>2
      <4> QED
        BY <2>9, <4>1, <4>3 DEF Best
    <3>2. CASE ~(e.q > v.q)
      <4>1. tr[k + 1] = v /\ e.q <= v.q
        BY <2>4, <2>6, <3>2
      <4>2. CASE v = NoPreference /\ \A i \in 1 .. k : a[i].q <= 0
        BY <2>3, <2>7, <2>8, <4>1, <4>2 DEF Best
      <4>3. CASE \E i \in 1 .. k : /\ v = a[i] /\ v.q > 0
                                   /\ \A j \in 1 .. k : /\ a[j].q <= v.q
                                                        /\ j < i => a[j].q < v.q
        <5>1. PICK i \in 1 .. k : /\ v = a[i] /\ v.q > 0
                                  /\ \A j \in 1 .. k : /\ a[j].q <= v.q
                                                       /\ j < i => a[j].q < v.q
          BY <4>3
        <5>2. \A j \in 1 .. k + 1 : /\ a[j].q <= v.q
                                    /\ j < i => a[j].q < v.q
          BY <2>1, <2>3, <2>8, <2>9, <4>1, <5>1
        <5> QED
          BY <2>9, <4>1, <5>1, <5>2 DEF Best
      <4> QED
        BY <2>5, <4>2, <4>3 DEF Best
    <3> QED
      BY <3>1, <3>2
  <2> QED
    BY <1>15, <2>1, <2>10
<1>18. 0 .. n \subseteq T
  BY <1>4, <1>16, <1>17, Induction
<1>19. Best(tr[n], a, n)
  BY <1>4, <1>15, <1>18
<1> QED
  BY <1>1, <1>4, <1>7, <1>11, <1>14, <1>19 DEF IsTrace

(* select_encoding returns it.                                             *)
LEMMA SelectedIsPreferred ==
  ASSUME accept \in Seq(Compression!Entries)
  PROVE  /\ Preferred(Compression!select_encoding(accept))
         /\ Compression!select_encoding(accept) \in Selectable
<1>1. PICK a : a = Compression!accept_encodings(accept)
  OBVIOUS
<1>2. PICK known : known = {e \in Compression!Entries : Compression!Known(e)}
  OBVIOUS
<1>3. a = Only(accept, known)
  BY <1>1, <1>2, SameInCompress DEF Compression!accept_encodings
<1>4. a \in Seq(Compression!Entries)
  BY <1>3, OnlyTyped
<1>5. PICK f : Picks(f, a, accept, known)
  BY <1>3, OnlyIs
<1>6. PICK v : v = Compression!FoldLeft(Compression!Better, NoPreference, a)
  OBVIOUS
<1>7. Best(v, a, Len(a))
  BY <1>4, <1>6, BestIsFolded
<1>8. PICK s : s = Compression!select_encoding(accept)
  OBVIOUS
<1>9. s = IF v.name = "*" THEN Compression!None ELSE v.name
  BY <1>1, <1>6, <1>8 DEF Compression!select_encoding, Compression!Encoding, NoPreference
<1>10. /\ DOMAIN f = 1 .. Len(a) /\ DOMAIN accept = 1 .. Len(accept)
       /\ Len(a) \in Nat /\ Len(accept) \in Nat
  BY <1>3, <1>4, <1>5 DEF Picks
<1>11. \A i \in 1 .. Len(a) : a[i] = accept[f[i]] /\ f[i] \in DOMAIN accept
  BY <1>3, <1>5, <1>10 DEF Picks
<1>12. \A j \in DOMAIN accept : Compression!Known(accept[j]) => \E i \in 1 .. Len(a) : f[i] = j
  <2>1. \A j \in DOMAIN accept : accept[j] \in Compression!Entries
    OBVIOUS
  <2> QED
    BY <1>2, <1>5, <1>10, <2>1 DEF Picks
<1>13. \A i \in 1 .. Len(a) : Compression!Known(accept[f[i]])
  BY <1>2, <1>5, <1>10, <1>11 DEF Picks
<1>14. CASE v = NoPreference /\ \A i \in 1 .. Len(a) : a[i].q <= 0
  <2>1. s = Compression!None
    BY <1>9, <1>14 DEF NoPreference
  <2>2. \A j \in DOMAIN accept : Compression!Known(accept[j]) => accept[j].q <= 0
    BY <1>11, <1>12, <1>14
  <2> QED
    BY <1>8, <2>1, <2>2 DEF Preferred, Selectable
<1>15. CASE \E i \in 1 .. Len(a) : /\ v = a[i] /\ v.q > 0
                                   /\ \A j \in 1 .. Len(a) : /\ a[j].q <= v.q
                                                             /\ j < i => a[j].q < v.q
  <2>1. PICK i \in 1 .. Len(a) : /\ v = a[i] /\ v.q > 0
                                 /\ \A j \in 1 .. Len(a) : /\ a[j].q <= v.q
                                                           /\ j < i => a[j].q < v.q
    BY <1>15
  <2>2. PICK h : h = f[i]
    OBVIOUS
  <2>3. h \in DOMAIN accept /\ v = accept[h] /\ Compression!Known(accept[h])
    BY <1>11, <1>13, <2>1, <2>2
  <2>4. ASSUME NEW k \in DOMAIN accept, Compression!Known(accept[k])
        PROVE  /\ accept[k].q <= accept[h].q
               /\ k < h => accept[k].q < accept[h].q
    <3>1. PICK j \in 1 .. Len(a) : f[j] = k
      BY <1>12, <2>4
    <3>2. accept[k] = a[j]
      BY <1>11, <3>1
    <3>3. k < h => j < i
      <4>1. j = i => k = h
        BY <2>2, <3>1
      <4>2. i < j => h < k
        BY <1>5, <1>10, <2>2, <3>1 DEF Picks
      <4>3. j \in Nat /\ i \in Nat /\ h \in Nat /\ k \in Nat
        BY <1>10, <2>3
      <4> QED
        BY <4>1, <4>2, <4>3
    <3> QED
      BY <2>1, <2>3, <3>2, <3>3
  <2>5. s = IF accept[h].name = "*" THEN Compression!None ELSE accept[h].name
    BY <1>9, <2>3
  <2>6. s \in Selectable
    BY <2>3, <2>5 DEF Compression!Known, Selectable
  <2> QED
    BY <1>8, <2>1, <2>3, <2>4, <2>5, <2>6 DEF Preferred
<1> QED
  BY <1>7, <1>14, <1>15 DEF Best

(* A chunk that is written now has met nothing yet.                        *)
LEMMA WritingKeeps ==
  ASSUME CompressInv, body' \in {body, Append(body, Compression!Chunk)},
         UNCHANGED <<layers, accept, content, done>>
  PROVE  CompressInv'
<1>1. PICK n : n = Len(done)
  OBVIOUS
<1>2. n \in Nat
  BY <1>1 DEF CompressInv, CompressTypes
<1>3. PICK c : c = [after |-> n, encs |-> <<>>]
  OBVIOUS
<1>4. c = Compression!Chunk /\ c \in ChunkShapes
  <2>1. <<>> \in Seq(Compression!Encoders)
    OBVIOUS
  <2> QED
    BY <1>1, <1>2, <1>3, <2>1 DEF Compression!Chunk, ChunkShapes
<1>5. body \in Seq(ChunkShapes)
  BY DEF CompressInv, CompressTypes
<1>6. body' \in Seq(ChunkShapes)
  <2>1. body' = body \/ body' = Append(body, c)
    BY <1>4
  <2> QED
    BY <1>4, <1>5, <2>1
<1>7. \A i \in DOMAIN body' : (i \in DOMAIN body /\ body'[i] = body[i]) \/ body'[i] = c
  <2>1. body' = body \/ body' = Append(body, c)
    BY <1>4
  <2> QED
    BY <1>4, <1>5, <2>1
<1>8. CompressTypes'
  <2>1. Since(0)' = Since(0)
    BY DEF Since
  <2>2. \A i \in DOMAIN body' : body'[i].after <= Len(done)
    BY <1>1, <1>2, <1>3, <1>7 DEF CompressInv, CompressTypes
  <2>3. Turns' = Turns
    BY DEF Turns, Selectable
  <2> QED
    BY <1>6, <2>1, <2>2, <2>3 DEF CompressInv, CompressTypes
<1>9. Compression!EncodedByLaterLayers'
  <2> SUFFICES ASSUME NEW i \in DOMAIN body'
               PROVE  body'[i].encs = Compression!Only(Since(body'[i].after), Compression!Encoders)
    BY DEF Compression!EncodedByLaterLayers, Since
  <2>1. CASE i \in DOMAIN body /\ body'[i] = body[i]
    BY <2>1 DEF CompressInv, Compression!EncodedByLaterLayers, Since
  <2>2. CASE body'[i] = c
    <3>1. Since(n) = <<>>
      BY <1>1, <1>2 DEF Since
    <3>2. body'[i].after = n /\ body'[i].encs = <<>>
      BY <1>3, <2>2
    <3> QED
      BY <3>1, <3>2, SameInCompress, OnlyOfNone
  <2> QED
    BY <1>7, <2>1, <2>2
<1>10. AllPreferred'
  BY DEF CompressInv, AllPreferred, Preferred, Compression!Known
<1> QED
  BY <1>8, <1>9, <1>10 DEF CompressInv

(* One more layer encodes: every chunk and the header get its encoding.    *)
LEMMA EncodingKeeps ==
  ASSUME CompressInv, Compression!Compressed
  PROVE  CompressInv'
<1>1. PICK s : s = Compression!select_encoding(accept)
  OBVIOUS
<1>2. PICK e : e = Compression!Applied(s)
  OBVIOUS
<1>3. PICK d : d = [layer |-> running, selected |-> s]
  OBVIOUS
<1>4. PICK n : n = Len(done)
  OBVIOUS
<1>5. /\ body' = Compression!Encode(body, e) /\ content' = Append(content, e)
      /\ done' = Append(done, d) /\ UNCHANGED <<layers, accept>> /\ running \in DOMAIN layers
  BY <1>1, <1>2, <1>3 DEF Compression!Compressed, Compression!Listed, Compression!IsLayer
<1>6. accept \in Seq(Compression!Entries)
  BY DEF CompressInv, CompressTypes
<1>7. s \in Selectable /\ Preferred(s)
  BY <1>1, <1>6, SelectedIsPreferred
<1>8. e \in Compression!Supported
  BY <1>2, <1>7 DEF Compression!Applied, Compression!Supported, Selectable
<1>9. done \in Seq(Turns) /\ n \in Nat
  BY <1>4 DEF CompressInv, CompressTypes
<1>10. /\ done' \in Seq(Turns)
       /\ Len(done') = n + 1 /\ DOMAIN done' = 1 .. n + 1 /\ done'[n + 1] = d
       /\ \A i \in 1 .. n : done'[i] = done[i]
  <2>1. d \in Turns
    BY <1>3, <1>5, <1>7 DEF Turns
  <2> QED
    BY <1>4, <1>5, <1>9, <2>1
<1>11. ASSUME NEW after \in 0 .. n
       PROVE  /\ Since(after) \in Seq(Compression!Supported)
              /\ Since(after)' = Append(Since(after), e)
  <2>1. \A i \in 1 .. n : Compression!Applied(done[i].selected) \in Compression!Supported
    <3>1. \A i \in 1 .. n : done[i] \in Turns
      BY <1>4, <1>9
    <3>2. \A x \in Turns : x.selected \in Selectable
      BY DEF Turns
    <3> QED
      BY <3>1, <3>2 DEF Compression!Applied, Compression!Supported, Selectable
  <2>2. \A j \in 1 .. n - after : after + j \in 1 .. n
    BY <1>9
  <2>3. Since(after) = [j \in 1 .. n - after |-> Compression!Applied(done[after + j].selected)]
    BY <1>4 DEF Since
  <2>4. n - after \in Nat
    BY <1>9
  <2>5. Since(after) \in Seq(Compression!Supported) /\ Len(Since(after)) = n - after
    BY <2>1, <2>2, <2>3, <2>4
  <2>6. Since(after)' = [j \in 1 .. (n + 1) - after |->
                           Compression!Applied(done'[after + j].selected)]
    BY <1>10 DEF Since, Compression!Applied
  <2>7. (n + 1) - after = (n - after) + 1 /\ after + ((n - after) + 1) = n + 1
    BY <1>9
  <2>8. PICK old : old = Since(after)
    OBVIOUS
  <2>9. PICK new : new = Since(after)'
    OBVIOUS
  <2>10. PICK m : m = n - after
    OBVIOUS
  <2>11. new = [j \in 1 .. m + 1 |-> Compression!Applied(done'[after + j].selected)]
    BY <2>6, <2>7, <2>9, <2>10
  <2>12. \A j \in 1 .. m : new[j] = old[j]
    <3>1. \A j \in 1 .. m : j \in 1 .. m + 1
      BY <2>4, <2>10
    <3> QED
      BY <1>10, <2>2, <2>3, <2>8, <2>10, <2>11, <3>1
  <2>13. new[m + 1] = e
    <3>1. m + 1 \in 1 .. m + 1
      BY <2>4, <2>10
    <3>2. done'[after + (m + 1)] = d
      BY <1>10, <2>7, <2>10
    <3> QED
      BY <1>2, <1>3, <2>11, <3>1, <3>2
  <2>14. Append(old, e) = [j \in 1 .. m + 1 |-> IF j = m + 1 THEN e ELSE old[j]]
    <3>1. old \in Seq(Compression!Supported) /\ Len(old) = m /\ m \in Nat
      BY <2>4, <2>5, <2>8, <2>10
    <3>2. Append(old, e) \in Seq(Compression!Supported) /\ Len(Append(old, e)) = m + 1
      BY <1>8, <3>1
    <3>3. \A j \in 1 .. m + 1 : Append(old, e)[j] = IF j = m + 1 THEN e ELSE old[j]
      BY <1>8, <3>1
    <3>4. PICK w : w = Append(old, e)
      OBVIOUS
    <3>5. w \in [1 .. m + 1 -> Compression!Supported]
      <4>1. w \in Seq(Compression!Supported) /\ Len(w) = m + 1
        BY <3>2, <3>4
      <4> QED
        BY <4>1, LenProperties
    <3>6. w = [j \in 1 .. m + 1 |-> w[j]]
      BY <3>5
    <3> QED
      BY <3>3, <3>4, <3>6
  <2>15. new = Append(old, e)
    <3>1. \A j \in 1 .. m + 1 : new[j] = IF j = m + 1 THEN e ELSE old[j]
      <4> SUFFICES ASSUME NEW j \in 1 .. m + 1 PROVE new[j] = IF j = m + 1 THEN e ELSE old[j]
        OBVIOUS
      <4>1. j = m + 1 \/ j \in 1 .. m
        BY <2>4, <2>10
      <4> QED
        BY <2>12, <2>13, <4>1
    <3> QED
      BY <2>11, <2>14, <3>1
  <2> QED
    BY <2>5, <2>8, <2>9, <2>15
<1>12. /\ DOMAIN body' = DOMAIN body
       /\ \A i \in DOMAIN body :
            /\ body'[i].after = body[i].after
            /\ body'[i].encs = IF e \in Compression!Encoders THEN Append(body[i].encs, e)
                               ELSE body[i].encs
       /\ body' \in Seq(ChunkShapes)
  <2>1. body \in Seq(ChunkShapes)
    BY DEF CompressInv, CompressTypes
  <2>2. e \in Compression!Encoders <=> e # "identity"
    BY <1>8 DEF Compression!Encoders
  <2>3. CASE e = "identity"
    <3>1. body' = body
      BY <1>5, <2>1, <2>3 DEF Compression!Encode
    <3> QED
      BY <2>1, <2>2, <2>3, <3>1
  <2>4. CASE e # "identity"
    <3>1. body' = [i \in DOMAIN body |-> [body[i] EXCEPT !.encs = Append(@, e)]]
      BY <1>5, <2>4 DEF Compression!Encode
    <3>2. ASSUME NEW i \in DOMAIN body
          PROVE  /\ body'[i].after = body[i].after
                 /\ body'[i].encs = Append(body[i].encs, e)
                 /\ body'[i] \in ChunkShapes
      <4>1. body[i] \in ChunkShapes /\ body[i].encs \in Seq(Compression!Encoders)
        <5>1. body[i] \in ChunkShapes
          BY <2>1
        <5> QED
          BY <5>1 DEF ChunkShapes
      <4>2. body'[i] = [body[i] EXCEPT !.encs = Append(@, e)]
        BY <3>1
      <4>3. Append(body[i].encs, e) \in Seq(Compression!Encoders)
        BY <2>2, <2>4, <4>1
      <4> QED
        BY <4>1, <4>2, <4>3 DEF ChunkShapes
    <3>3. body' \in Seq(ChunkShapes)
      <4>1. DOMAIN body = 1 .. Len(body) /\ Len(body) \in Nat
        BY <2>1
      <4>2. body' \in [1 .. Len(body) -> ChunkShapes]
        BY <3>1, <3>2, <4>1
      <4> QED
        BY <4>1, <4>2
    <3> QED
      BY <2>2, <2>4, <3>1, <3>2, <3>3
  <2> QED
    BY <2>3, <2>4
<1>13. \A i \in DOMAIN body : body[i].after \in 0 .. n
  <2> SUFFICES ASSUME NEW i \in DOMAIN body PROVE body[i].after \in 0 .. n
    OBVIOUS
  <2>1. body[i] \in ChunkShapes /\ body[i].after <= n
    BY <1>4 DEF CompressInv, CompressTypes
  <2> QED
    BY <1>9, <2>1 DEF ChunkShapes
<1>14. CompressTypes'
  <2>1. content' = Since(0)'
    BY <1>5, <1>9, <1>11 DEF CompressInv, CompressTypes
  <2>2. \A i \in DOMAIN body' : body'[i].after <= Len(done')
    <3>1. \A i \in DOMAIN body : body[i].after <= n + 1
      BY <1>9, <1>13
    <3> QED
      BY <1>10, <1>12, <3>1
  <2>3. Turns' = Turns
    BY <1>5 DEF Turns, Selectable
  <2> QED
    BY <2>3, <1>5, <1>6, <1>10, <1>12, <2>1, <2>2 DEF CompressTypes
<1>15. Compression!EncodedByLaterLayers'
  <2> SUFFICES ASSUME NEW i \in DOMAIN body'
               PROVE  body'[i].encs = Compression!Only(Since(body[i].after)', Compression!Encoders)
    BY DEF Compression!EncodedByLaterLayers, Since, Compression!Applied
  <2>1. PICK after : after = body[i].after
    OBVIOUS
  <2>2. PICK old : old = Since(after)
    OBVIOUS
  <2>3. i \in DOMAIN body /\ after \in 0 .. n
    BY <1>12, <1>13, <2>1
  <2>4. body[i].encs = Only(old, Compression!Encoders)
    BY <2>1, <2>2, <2>3, SameInCompress DEF CompressInv, Compression!EncodedByLaterLayers, Since
  <2>5. old \in Seq(Compression!Supported) /\ Since(after)' = Append(old, e)
    BY <1>11, <2>2, <2>3
  <2>6. Only(Append(old, e), Compression!Encoders)
            = IF e \in Compression!Encoders THEN Append(Only(old, Compression!Encoders), e)
              ELSE Only(old, Compression!Encoders)
    BY <1>8, <2>5, OnlyAppend
  <2>7. body'[i].encs = Only(Since(after)', Compression!Encoders)
    BY <1>12, <2>3, <2>4, <2>5, <2>6
  <2>8. Since(body[i].after)' = Since(after)'
    BY <1>12, <2>1, <2>3 DEF Since
  <2> QED
    BY <2>7, <2>8, SameInCompress
<1>16. AllPreferred'
  <2> SUFFICES ASSUME NEW j \in DOMAIN done'
               PROVE  Preferred(done'[j].selected)
    BY <1>5 DEF AllPreferred, Preferred, Compression!Known
  <2>1. j \in 1 .. n \/ j = n + 1
    BY <1>9, <1>10
  <2>2. CASE j \in 1 .. n
    BY <1>4, <1>9, <1>10, <2>2 DEF CompressInv, AllPreferred, Preferred
  <2>3. CASE j = n + 1
    BY <1>3, <1>7, <1>10, <2>3
  <2> QED
    BY <2>1, <2>2, <2>3
<1> QED
  BY <1>14, <1>15, <1>16 DEF CompressInv

(* What is preferred is the first of the best of what is accepted.         *)
LEMMA PreferredIsFirst ==
  ASSUME CompressTypes, AllPreferred
  PROVE  Compression!FirstOfTheBest
<1> SUFFICES ASSUME NEW a \in Compression!Accepted, NEW d \in DOMAIN done
             PROVE  \E i \in Compression!Accepted :
                      /\ done[d].selected = (IF accept[i].name = "*" THEN Compression!None
                                             ELSE accept[i].name)
                      /\ \A k \in Compression!Accepted :
                            /\ accept[k].q <= accept[i].q
                            /\ k < i => accept[k].q < accept[i].q
  BY DEF Compression!FirstOfTheBest
<1>1. Preferred(done[d].selected)
  BY DEF AllPreferred
<1>2. /\ a \in DOMAIN accept /\ Compression!Known(accept[a]) /\ accept[a].q > 0
      /\ accept[a].q \in Int
  <2>1. accept[a] \in Compression!Entries
    BY DEF CompressTypes, Compression!Accepted
  <2> QED
    BY <2>1, Assumptions DEF Compression!Accepted, Compression!Entries, Compression!LayersAssumption
<1>3. PICK i \in DOMAIN accept :
          /\ Compression!Known(accept[i]) /\ accept[i].q > 0
          /\ done[d].selected = (IF accept[i].name = "*" THEN Compression!None
                                 ELSE accept[i].name)
          /\ \A k \in DOMAIN accept : Compression!Known(accept[k]) =>
                /\ accept[k].q <= accept[i].q
                /\ k < i => accept[k].q < accept[i].q
  BY <1>1, <1>2 DEF Preferred
<1>4. i \in Compression!Accepted /\ \A k \in Compression!Accepted :
          k \in DOMAIN accept /\ Compression!Known(accept[k])
  BY <1>3 DEF Compression!Accepted
<1> QED
  BY <1>3, <1>4

(* For any stack of layers that compress, write, throw and recover, any    *)
(* Accept-Encoding and any number of entries in it: every byte is encoded  *)
(* once by each layer that returns after it was written, Content-Encoding  *)
(* tells which, and if the client accepts any encoding that is supported,  *)
(* or any at all, with a q-value above 0, each layer selects the first of  *)
(* those it likes best.                                                    *)
THEOREM EncodedAsTold == Spec => []EncodedAsNegotiated
<1> DEFINE Inv == part = "compress" => CompressInv
<1>1. Init => Inv
  <2> SUFFICES ASSUME Compression!Init PROVE CompressInv
    BY DEF Init
  <2>1. accept \in Seq(Compression!Entries)
    BY Assumptions DEF Compression!Init, Compression!LayersAssumption
  <2>2. Since(0) = <<>>
    BY DEF Compression!Init, Since
  <2> QED
    BY <2>1, <2>2 DEF Compression!Init, CompressInv, CompressTypes, Compression!EncodedByLaterLayers,
       AllPreferred
<1>2. ASSUME Inv, [Next]_vars PROVE Inv'
  <2> SUFFICES ASSUME part = "compress", CompressInv, [Compression!Next]_(Compression!vars)
               PROVE  CompressInv'
    BY <1>2, LayersApart
  <2>1. CASE Compression!Enter
    BY <2>1, WritingKeeps DEF Compression!Enter
  <2>2. CASE Compression!Endpoint
    BY <2>2, WritingKeeps DEF Compression!Endpoint
  <2>3. CASE Compression!PassError
    BY <2>3, WritingKeeps DEF Compression!PassError
  <2>4. CASE Compression!BadAccept
    BY <2>4, WritingKeeps DEF Compression!BadAccept
  <2>5. CASE Compression!Compressed
    BY <2>5, EncodingKeeps
  <2>6. CASE Compression!OtherReturns
    BY <2>6, WritingKeeps DEF Compression!OtherReturns
  <2>7. CASE Compression!Expose
    BY <2>7, WritingKeeps DEF Compression!Expose
  <2>8. CASE UNCHANGED Compression!vars
    BY <2>8, WritingKeeps DEF Compression!vars
  <2> QED
    BY <2>1, <2>2, <2>3, <2>4, <2>5, <2>6, <2>7, <2>8 DEF Compression!Next
<1>3. Inv => EncodedAsNegotiated
  <2> SUFFICES ASSUME CompressInv PROVE Compression!HeaderDecodesBody
    BY PreferredIsFirst DEF CompressInv, EncodedAsNegotiated, Compression!EncodedAsNegotiated
  <2> SUFFICES ASSUME NEW i \in DOMAIN body, body[i].after = 0
               PROVE  body[i].encs = Compression!Only(Since(0), Compression!Encoders)
    BY DEF CompressInv, CompressTypes, Compression!HeaderDecodesBody
  <2> QED
    BY DEF CompressInv, Compression!EncodedByLaterLayers, Since
<1> QED
  BY <1>1, <1>2, <1>3, PTL DEF Spec

-----------------------------------------------------------------------------
(* The gates of routers.  GatesWrapRegistered is inductive together with   *)
(* what the history of a gate and of an entry says: the gates a router has *)
(* are its own, in the order they were added, and none is missing while the*)
(* router is there; an entry came from the router it is in and before that *)
(* from routers that are gone, no two of them the same.                    *)
RouteGates == [gate : Gates, router : Routers, time : Nat]
Stations == [router : Routers, time : Nat, prefix : RoutePaths \cup RouteScopes]

StandsBefore(g, m) == m.router = g.router /\ g.time < m.time

\* The gates are those of all that a station passes, in the order of the stations.
Around(gates, moves, all) ==
  /\ \A i \in DOMAIN gates : gates[i] \in all /\ \E k \in DOMAIN moves : StandsBefore(gates[i], moves[k])
  /\ \A g \in all, k \in DOMAIN moves : StandsBefore(g, moves[k]) => \E i \in DOMAIN gates : gates[i] = g
  /\ \A i, j \in DOMAIN gates, a, b \in DOMAIN moves :
       i < j /\ moves[a].router = gates[i].router /\ moves[b].router = gates[j].router =>
         a < b \/ (gates[i].router = gates[j].router /\ gates[i].time < gates[j].time)

Apart(moves) == \A j, k \in DOMAIN moves : moves[j].router = moves[k].router => j = k

Shapes == \A r \in Routers :
  routers[r] \in [gates : Seq(RouteGates), entries : Seq(Routing!ToSet(routers[r].entries)),
                  moved : BOOLEAN]

EntryGood(e, r) ==
  /\ e.gates \in Seq(RouteGates) /\ e.moves \in Seq(Stations) /\ e.moves # <<>>
  /\ e.moves[1].router = r
  /\ \A k \in DOMAIN e.moves : e.moves[k].time < ops
  /\ \A k \in DOMAIN e.moves : k # 1 => routers[e.moves[k].router].moved
  /\ Apart(e.moves)
  /\ Around(e.gates, e.moves, Routing!AllGates)

OwnGates(gates, r, n) ==
  /\ \A i \in DOMAIN gates : gates[i].router = r /\ gates[i].time < n
  /\ \A i, j \in DOMAIN gates : i < j => gates[i].time < gates[j].time

Kept == \A g \in Routing!AllGates :
  ~routers[g.router].moved => \E i \in DOMAIN routers[g.router].gates : routers[g.router].gates[i] = g

RouterInv ==
  /\ ops \in Nat /\ DOMAIN routers = Routers /\ routers = [r \in Routers |-> routers[r]]
  /\ Shapes
  /\ \A r \in Routers : \A e \in Routing!ToSet(routers[r].entries) : EntryGood(e, r)
  /\ \A r \in Routers : OwnGates(routers[r].gates, r, ops)
  /\ Kept


\* A sequence of anything is a sequence of its elements.
LEMMA OwnElements ==
  ASSUME NEW S, NEW s \in Seq(S)
  PROVE  s \in Seq(Routing!ToSet(s))
<1>1. s \in [1 .. Len(s) -> Routing!ToSet(s)] /\ Len(s) \in Nat
  BY DEF Routing!ToSet
<1> QED
  BY <1>1, SeqDef

(* The gates of an entry that comes to a router: those the router has stand*)
(* before the ones the entry brought along.                                *)
LEMMA GatesAround ==
  ASSUME NEW own \in Seq(RouteGates), NEW inner \in Seq(RouteGates),
         NEW moves \in Seq(Stations), NEW move \in Stations, NEW all, NEW fewer \in SUBSET all,
         OwnGates(own, move.router, move.time),
         \A i \in DOMAIN own : own[i] \in fewer, \A i \in DOMAIN inner : inner[i] \in fewer,
         \A g \in all : g.router = move.router => \E i \in DOMAIN own : own[i] = g,
         \A k \in DOMAIN moves : moves[k].router # move.router,
         Around(inner, moves, all)
  PROVE  Around(own \o inner, <<move>> \o moves, fewer)
<1> DEFINE gates == own \o inner
           trail == <<move>> \o moves
<1>1. /\ DOMAIN own = 1 .. Len(own) /\ Len(own) \in Nat
      /\ DOMAIN inner = 1 .. Len(inner) /\ Len(inner) \in Nat
      /\ DOMAIN moves = 1 .. Len(moves) /\ Len(moves) \in Nat
  OBVIOUS
<1>2. /\ DOMAIN gates = 1 .. (Len(own) + Len(inner))
      /\ \A i \in DOMAIN own : gates[i] = own[i]
      /\ \A i \in DOMAIN inner : gates[Len(own) + i] = inner[i]
  OBVIOUS
<1>3. /\ DOMAIN trail = 1 .. (1 + Len(moves)) /\ trail[1] = move
      /\ \A k \in DOMAIN moves : trail[1 + k] = moves[k]
  OBVIOUS
<1> HIDE DEF gates, trail
<1>4. \A i \in DOMAIN gates : i \in DOMAIN own \/ \E j \in DOMAIN inner : i = Len(own) + j
  <2> SUFFICES ASSUME NEW i \in DOMAIN gates, i \notin DOMAIN own
               PROVE  \E j \in DOMAIN inner : i = Len(own) + j
    OBVIOUS
  <2>1. i - Len(own) \in DOMAIN inner /\ i = Len(own) + (i - Len(own))
    BY <1>1, <1>2
  <2> QED
    BY <2>1
<1>5. \A k \in DOMAIN trail : k = 1 \/ \E j \in DOMAIN moves : k = 1 + j
  <2> SUFFICES ASSUME NEW k \in DOMAIN trail, k # 1
               PROVE  \E j \in DOMAIN moves : k = 1 + j
    OBVIOUS
  <2>1. k - 1 \in DOMAIN moves /\ k = 1 + (k - 1)
    BY <1>1, <1>3
  <2> QED
    BY <2>1
<1>6. ASSUME NEW i \in DOMAIN gates
      PROVE  gates[i] \in fewer /\ \E k \in DOMAIN trail : StandsBefore(gates[i], trail[k])
  <2>1. CASE i \in DOMAIN own
    <3>1. 1 \in DOMAIN trail
      BY <1>1, <1>3
    <3>2. StandsBefore(gates[i], trail[1])
      BY <1>2, <1>3, <2>1 DEF StandsBefore, OwnGates
    <3> QED
      BY <1>2, <2>1, <3>1, <3>2
  <2>2. ASSUME NEW j \in DOMAIN inner, i = Len(own) + j
        PROVE  gates[i] \in fewer /\ \E k \in DOMAIN trail : StandsBefore(gates[i], trail[k])
    <3>1. PICK k \in DOMAIN moves : StandsBefore(inner[j], moves[k])
      BY DEF Around
    <3>2. 1 + k \in DOMAIN trail /\ trail[1 + k] = moves[k]
      BY <1>1, <1>3
    <3> QED
      BY <1>2, <2>2, <3>1, <3>2
  <2> QED
    BY <1>4, <2>1, <2>2
<1>7. ASSUME NEW g \in fewer, NEW k \in DOMAIN trail, StandsBefore(g, trail[k])
      PROVE  \E i \in DOMAIN gates : gates[i] = g
  <2>1. CASE k = 1
    <3>1. PICK i \in DOMAIN own : own[i] = g
      BY <1>3, <1>7, <2>1 DEF StandsBefore
    <3>2. i \in DOMAIN gates
      BY <1>1, <1>2
    <3> QED
      BY <1>2, <3>1, <3>2
  <2>2. ASSUME NEW j \in DOMAIN moves, k = 1 + j PROVE \E i \in DOMAIN gates : gates[i] = g
    <3>1. StandsBefore(g, moves[j])
      BY <1>3, <1>7, <2>2
    <3>2. PICK i \in DOMAIN inner : inner[i] = g
      BY <3>1 DEF Around
    <3>3. Len(own) + i \in DOMAIN gates
      BY <1>1, <1>2
    <3> QED
      BY <1>2, <3>2, <3>3
  <2> QED
    BY <1>5, <2>1, <2>2
<1>8. ASSUME NEW i \in DOMAIN gates, NEW j \in DOMAIN gates,
             NEW a \in DOMAIN trail, NEW b \in DOMAIN trail,
             i < j, trail[a].router = gates[i].router, trail[b].router = gates[j].router
      PROVE  a < b \/ (gates[i].router = gates[j].router /\ gates[i].time < gates[j].time)
  <2>1. CASE i \in DOMAIN own /\ j \in DOMAIN own
    BY <1>2, <1>8, <2>1 DEF OwnGates
  <2>2. ASSUME NEW q \in DOMAIN inner, j = Len(own) + q, i \in DOMAIN own PROVE a < b
    <3>1. gates[i].router = move.router
      BY <1>2, <2>2 DEF OwnGates
    <3>2. a = 1
      <4> SUFFICES ASSUME NEW x \in DOMAIN moves, a = 1 + x PROVE FALSE
        BY <1>5
      <4> QED
        BY <1>3, <1>8, <3>1
    <3>3. PICK y \in DOMAIN moves : StandsBefore(inner[q], moves[y])
      BY DEF Around
    <3>4. b # 1
      BY <1>2, <1>3, <1>8, <2>2, <3>3 DEF StandsBefore
    <3> QED
      BY <1>3, <1>1, <3>2, <3>4
  <2>3. ASSUME NEW p \in DOMAIN inner, NEW q \in DOMAIN inner,
               i = Len(own) + p, j = Len(own) + q
        PROVE  a < b \/ (gates[i].router = gates[j].router /\ gates[i].time < gates[j].time)
    <3>1. gates[i] = inner[p] /\ gates[j] = inner[q] /\ p < q
      BY <1>1, <1>2, <1>8, <2>3
    <3>2. \A g \in {inner[p], inner[q]} : g.router # move.router
      <4>1. \A x \in DOMAIN inner : \E k \in DOMAIN moves : StandsBefore(inner[x], moves[k])
        BY DEF Around
      <4> QED
        BY <4>1 DEF StandsBefore
    <3>3. a # 1 /\ b # 1
      BY <1>3, <1>8, <3>1, <3>2
    <3>4. PICK x \in DOMAIN moves : a = 1 + x
      BY <1>5, <3>3
    <3>5. PICK y \in DOMAIN moves : b = 1 + y
      BY <1>5, <3>3
    <3>6. moves[x].router = inner[p].router /\ moves[y].router = inner[q].router
      BY <1>3, <1>8, <3>1, <3>4, <3>5
    <3>7. x < y \/ (inner[p].router = inner[q].router /\ inner[p].time < inner[q].time)
      BY <3>1, <3>6 DEF Around
    <3> QED
      BY <1>1, <3>1, <3>4, <3>5, <3>7
  <2>4. ASSUME NEW p \in DOMAIN inner, i = Len(own) + p, j \in DOMAIN own PROVE FALSE
    BY <1>1, <1>8, <2>4
  <2> QED
    BY <1>4, <2>1, <2>2, <2>3, <2>4
<1>9. Around(gates, trail, fewer)
  BY <1>6, <1>7, <1>8 DEF Around
<1> QED
  BY <1>9 DEF gates, trail

(* Gates that come later or leave do not concern an entry.                 *)
LEMMA StillAround ==
  ASSUME NEW gates, NEW moves, NEW all, NEW others,
         Around(gates, moves, all), \A i \in DOMAIN gates : gates[i] \in others,
         \A g \in others : g \in all \/ \A k \in DOMAIN moves : ~StandsBefore(g, moves[k])
  PROVE  Around(gates, moves, others)
<1>1. \A g \in others, k \in DOMAIN moves :
        StandsBefore(g, moves[k]) => \E i \in DOMAIN gates : gates[i] = g
  BY DEF Around
<1> QED
  BY <1>1 DEF Around


(* An entry that was in its router stays good while routers only go and    *)
(* gates only come, later than it did.                                     *)
LEMMA EntryStays ==
  ASSUME NEW r \in Routers, NEW e, EntryGood(e, r), ops \in Nat, ops' \in {ops, ops + 1},
         \A s \in Routers : routers[s].moved => routers'[s].moved,
         \A i \in DOMAIN e.gates : e.gates[i] \in Routing!AllGates',
         \A g \in Routing!AllGates' : g \in Routing!AllGates \/ g.time = ops
  PROVE  EntryGood(e, r)'
<1>1. \A k \in DOMAIN e.moves : e.moves[k] \in Stations
  BY DEF EntryGood
<1>2. \A k \in DOMAIN e.moves : e.moves[k].time < ops' /\ e.moves[k].time \in Nat
  BY <1>1 DEF EntryGood, Stations
<1>3. \A k \in DOMAIN e.moves : k # 1 => routers'[e.moves[k].router].moved
  BY <1>1 DEF EntryGood, Stations
<1>4. \A g \in Routing!AllGates' :
        g \in Routing!AllGates \/ \A k \in DOMAIN e.moves : ~StandsBefore(g, e.moves[k])
  BY <1>2 DEF EntryGood, StandsBefore
<1>5. Around(e.gates, e.moves, Routing!AllGates)'
  BY <1>4, StillAround DEF EntryGood
<1> QED
  BY <1>2, <1>3, <1>5 DEF EntryGood

(* All gates are gates of routers or around their entries.                 *)
InPlace(g) ==
  \/ \E r \in Routers : \E i \in DOMAIN routers[r].gates : g = routers[r].gates[i]
  \/ \E r \in Routers : \E e \in Routing!ToSet(routers[r].entries) :
       \E i \in DOMAIN e.gates : g = e.gates[i]

AllInPlace == \A g : g \in Routing!AllGates <=> InPlace(g)

(* AllGates collects exactly those.                                        *)
LEMMA WhereGatesAre == AllInPlace
<1> SUFFICES ASSUME NEW g PROVE g \in Routing!AllGates <=> InPlace(g)
  BY DEF AllInPlace
<1> DEFINE In(s) == \E i \in DOMAIN s : g = s[i]
<1>1. ASSUME NEW s PROVE g \in Routing!ToSet(s) <=> In(s)
  BY DEF Routing!ToSet
<1> DEFINE All(r) == {Routing!ToSet(e.gates) : e \in Routing!ToSet(routers[r].entries)}
<1>2. \A r : g \in UNION All(r) <=>
        \E e \in Routing!ToSet(routers[r].entries) : g \in Routing!ToSet(e.gates)
  OBVIOUS
<1>3. g \in UNION {UNION All(r) : r \in Routers} <=> \E r \in Routers : g \in UNION All(r)
  OBVIOUS
<1>4. g \in UNION {Routing!ToSet(routers[r].gates) : r \in Routers} <=>
        \E r \in Routers : g \in Routing!ToSet(routers[r].gates)
  OBVIOUS
<1>5. g \in Routing!AllGates <=>
        \/ g \in UNION {Routing!ToSet(routers[r].gates) : r \in Routers}
        \/ g \in UNION {UNION All(r) : r \in Routers}
  <2> DEFINE own == UNION {Routing!ToSet(routers[r].gates) : r \in Routers}
             around == UNION {UNION All(r) : r \in Routers}
  <2>1. Routing!AllGates = own \cup around
    BY Zenon DEF Routing!AllGates
  <2> HIDE DEF own, around
  <2>2. g \in Routing!AllGates <=> g \in own \/ g \in around
    BY <2>1
  <2> QED
    BY <2>2 DEF own, around
<1> QED
  BY <1>1, <1>2, <1>3, <1>4, <1>5 DEF InPlace

(* So they are after a step.                                               *)
LEMMA WhereGatesWillBe == AllInPlace'
  BY WhereGatesAre, PTL

(* What the shape of a router says of its parts.                           *)
LEMMA PartsOfRouter ==
  ASSUME RouterInv, NEW r \in Routers
  PROVE  /\ routers[r].gates \in Seq(RouteGates)
         /\ routers[r].entries \in Seq(Routing!ToSet(routers[r].entries))
         /\ routers[r].moved \in BOOLEAN
         /\ \A i \in DOMAIN routers[r].gates : routers[r].gates[i] \in Routing!AllGates
         /\ \A e \in Routing!ToSet(routers[r].entries) : \A j \in DOMAIN e.gates :
              e.gates[j] \in Routing!AllGates
<1>1. routers[r] \in [gates : Seq(RouteGates),
                      entries : Seq(Routing!ToSet(routers[r].entries)), moved : BOOLEAN]
  BY DEF RouterInv, Shapes
<1>2. \A i \in DOMAIN routers[r].gates : routers[r].gates[i] \in Routing!AllGates
  BY WhereGatesAre DEF AllInPlace, InPlace
<1>3. \A e \in Routing!ToSet(routers[r].entries) : \A j \in DOMAIN e.gates :
        e.gates[j] \in Routing!AllGates
  BY WhereGatesAre DEF AllInPlace, InPlace
<1> QED
  BY <1>1, <1>2, <1>3

(* Every gate there is is a gate of one of the routers a program builds.   *)
LEMMA GatesTyped == RouterInv => Routing!AllGates \subseteq RouteGates
<1> SUFFICES ASSUME RouterInv, NEW g \in Routing!AllGates PROVE g \in RouteGates
  OBVIOUS
<1>1. ASSUME NEW r \in Routers, NEW i \in DOMAIN routers[r].gates
      PROVE  routers[r].gates[i] \in RouteGates
  BY PartsOfRouter
<1>2. ASSUME NEW r \in Routers, NEW e \in Routing!ToSet(routers[r].entries),
             NEW i \in DOMAIN e.gates
      PROVE  e.gates[i] \in RouteGates
  <2>1. e.gates \in Seq(RouteGates)
    BY DEF RouterInv, EntryGood
  <2> QED
    BY <2>1
<1> QED
  BY <1>1, <1>2, WhereGatesAre DEF AllInPlace, InPlace

(* What RouterInv says follows once the routers, the entries and the gates *)
(* are known after a step.                                                 *)
LEMMA RouterInvAfter ==
  ASSUME RouterInv, ops' \in Nat,
         routers' = [r \in Routers |-> routers'[r]],
         \A r \in Routers :
           /\ routers'[r] \in [gates : Seq(RouteGates), entries : {routers'[r].entries},
                               moved : BOOLEAN]
           /\ \E S : routers'[r].entries \in Seq(S)
           /\ OwnGates(routers'[r].gates, r, ops'),
         \A r \in Routers : \A e \in Routing!ToSet(routers'[r].entries) : EntryGood(e, r)',
         Kept'
  PROVE  RouterInv'
<1>1. \A r \in Routers :
        routers'[r] \in [gates : Seq(RouteGates),
                         entries : Seq(Routing!ToSet(routers'[r].entries)), moved : BOOLEAN]
  <2> SUFFICES ASSUME NEW r \in Routers
               PROVE  routers'[r].entries \in Seq(Routing!ToSet(routers'[r].entries))
    OBVIOUS
  <2>1. PICK S : routers'[r].entries \in Seq(S)
    OBVIOUS
  <2> QED
    BY <2>1, OwnElements
<1> QED
  BY <1>1 DEF RouterInv, Shapes


(* The elements of a sequence that grows.                                  *)
LEMMA GrownElements ==
  ASSUME NEW S, NEW s \in Seq(S), NEW T, NEW t \in Seq(T)
  PROVE  /\ s \o t \in Seq(S \cup T)
         /\ \A e \in Routing!ToSet(s \o t) : e \in Routing!ToSet(s) \/ e \in Routing!ToSet(t)
<1>1. s \in Seq(S \cup T) /\ t \in Seq(S \cup T)
  OBVIOUS
<1>2. s \o t \in Seq(S \cup T)
  BY <1>1
<1>3. ASSUME NEW i \in DOMAIN (s \o t)
      PROVE  (s \o t)[i] \in Routing!ToSet(s) \/ (s \o t)[i] \in Routing!ToSet(t)
  <2>1. i \in 1 .. (Len(s) + Len(t)) /\ Len(s) \in Nat /\ Len(t) \in Nat
    BY <1>1
  <2>2. CASE i <= Len(s)
    BY <1>1, <2>1, <2>2 DEF Routing!ToSet
  <2>3. CASE i > Len(s)
    <3>1. i - Len(s) \in DOMAIN t /\ (s \o t)[i] = t[i - Len(s)]
      BY <1>1, <2>1, <2>3
    <3> QED
      BY <3>1 DEF Routing!ToSet
  <2> QED
    BY <2>1, <2>2, <2>3
<1> QED
  BY <1>2, <1>3 DEF Routing!ToSet

(* on appends an entry with the gates the router has.                      *)
LEMMA OnKeeps ==
  ASSUME RouterInv, NEW r \in Routers, NEW p \in RoutePaths, NEW end,
         Routing!on(r, p, end)
  PROVE  RouterInv'
<1> DEFINE move == [router |-> r, time |-> ops, prefix |-> p]
           own == routers[r].gates
           old == routers[r].entries
<1>0. PICK new : new = Routing!Entry(p, own \o <<>>, end, <<move>>)
  OBVIOUS
<1>1. /\ ~routers[r].moved /\ ops' = ops + 1 /\ ops \in Nat
      /\ routers' = [routers EXCEPT ![r].entries = Append(@, new)]
  BY <1>0 DEF Routing!on, Routing!Building, Routing!Registered, RouterInv
<1>2. /\ own \in Seq(RouteGates) /\ old \in Seq(Routing!ToSet(old))
      /\ routers[r].moved = FALSE
  BY <1>1, PartsOfRouter
<1>3. /\ own \o <<>> = own /\ Append(old, new) = old \o <<new>>
      /\ move \in Stations /\ <<move>> \in Seq(Stations) /\ <<>> \in Seq(RouteGates)
      /\ <<>> \in Seq(Stations) /\ <<move>> = <<move>> \o <<>>
  <2>1. old \in Seq(Routing!ToSet(old) \cup {new}) /\ new \in Routing!ToSet(old) \cup {new}
    BY <1>2
  <2>2. Append(old, new) = old \o <<new>>
    BY <2>1, AppendIsConcat
  <2>3. move \in Stations /\ <<move>> \in Seq(Stations)
    BY <1>1 DEF Stations
  <2>4. own \o <<>> = own /\ <<move>> = <<move>> \o <<>>
    BY <1>2, <2>3
  <2> QED
    BY <2>2, <2>3, <2>4
<1>4. new.gates = own /\ new.moves = <<move>>
  BY <1>0, <1>3 DEF Routing!Entry
<1>5. routers = [q \in Routers |-> routers[q]]
      /\ \A q \in Routers : routers[q] \in [gates : Seq(RouteGates),
             entries : Seq(Routing!ToSet(routers[q].entries)), moved : BOOLEAN]
  BY DEF RouterInv, Shapes
<1>6. /\ routers'[r].gates = own /\ routers'[r].entries = old \o <<new>>
      /\ routers'[r].moved = FALSE
      /\ routers'[r] \in [gates : Seq(RouteGates), entries : {old \o <<new>>}, moved : BOOLEAN]
      /\ \A q \in Routers : q # r => routers'[q] = routers[q]
      /\ routers' = [q \in Routers |-> routers'[q]]
  BY <1>1, <1>2, <1>3, <1>5
<1>7. \A q \in Routers : routers'[q].gates = routers[q].gates /\ routers'[q].moved = routers[q].moved
  BY <1>2, <1>6
<1>8. \A q \in Routers : \A e \in Routing!ToSet(routers'[q].entries) :
        e \in Routing!ToSet(routers[q].entries) \/ (q = r /\ e = new)
  <2> SUFFICES ASSUME NEW q \in Routers, NEW e \in Routing!ToSet(routers'[q].entries)
               PROVE  e \in Routing!ToSet(routers[q].entries) \/ (q = r /\ e = new)
    OBVIOUS
  <2>1. CASE q # r
    BY <1>6, <2>1
  <2>2. CASE q = r
    <3>1. <<new>> \in Seq({new}) /\ \A x \in Routing!ToSet(<<new>>) : x = new
      BY DEF Routing!ToSet
    <3>2. e \in Routing!ToSet(old \o <<new>>)
      BY <1>6, <2>2
    <3> QED
      BY <1>2, <2>2, <3>1, <3>2, GrownElements
  <2> QED
    BY <2>1, <2>2
<1>9. /\ \A i \in DOMAIN own : own[i] \in Routing!AllGates'
      /\ \A q \in Routers : \A e \in Routing!ToSet(routers'[q].entries) :
           \A i \in DOMAIN e.gates : e.gates[i] \in Routing!AllGates'
  BY <1>6, WhereGatesWillBe DEF AllInPlace, InPlace
<1>10. \A g \in Routing!AllGates' : g \in Routing!AllGates
  <2> SUFFICES ASSUME NEW g \in Routing!AllGates' PROVE InPlace(g)
    BY WhereGatesAre DEF AllInPlace
  <2>1. InPlace(g)'
    BY WhereGatesWillBe DEF AllInPlace
  <2>2. ASSUME NEW q \in Routers, NEW e \in Routing!ToSet(routers'[q].entries),
               NEW i \in DOMAIN e.gates, g = e.gates[i]
        PROVE  InPlace(g)
    BY <1>4, <1>8, <2>2 DEF InPlace
  <2> QED
    BY <1>7, <2>1, <2>2 DEF InPlace
<1>11. EntryGood(new, r)'
  <2>1. \A k \in DOMAIN <<move>> : k = 1 /\ <<move>>[k] = move
    OBVIOUS
  <2>2. Around(<<>>, <<>>, Routing!AllGates)
    BY DEF Around
  <2>3. \A g \in Routing!AllGates : g.router = move.router => \E i \in DOMAIN own : own[i] = g
    BY <1>1 DEF RouterInv, Kept
  <2>4. OwnGates(own, move.router, move.time)
    BY DEF RouterInv
  <2>5. Routing!AllGates' \in SUBSET Routing!AllGates
    BY <1>10
  <2>6. Around(own \o <<>>, <<move>> \o <<>>, Routing!AllGates')
    <3>1. \A i \in DOMAIN <<>> : FALSE
      OBVIOUS
    <3> HIDE DEF move, own
    <3> QED
      BY <1>2, <1>3, <1>9, <2>2, <2>3, <2>4, <2>5, <3>1, GatesAround
  <2>7. Around(new.gates, new.moves, Routing!AllGates')
    BY <1>3, <1>4, <2>6
  <2> QED
    BY <1>1, <1>2, <1>3, <1>4, <2>1, <2>7 DEF EntryGood, Apart
<1>12. \A q \in Routers : \A e \in Routing!ToSet(routers'[q].entries) : EntryGood(e, q)'
  <2> SUFFICES ASSUME NEW q \in Routers, NEW e \in Routing!ToSet(routers'[q].entries), e # new \/ q # r
               PROVE  EntryGood(e, q)'
    BY <1>11
  <2>1. EntryGood(e, q)
    BY <1>8 DEF RouterInv
  <2> QED
    BY <1>1, <1>7, <1>9, <1>10, <2>1, EntryStays
<1>13. Kept'
  BY <1>7, <1>10, GatesTyped, ZenonT(40) DEF RouterInv, Kept, RouteGates
<1>14. \A q \in Routers : /\ \E S : routers'[q].entries \in Seq(S)
                          /\ OwnGates(routers'[q].gates, q, ops')
                          /\ routers'[q] \in [gates : Seq(RouteGates),
                                 entries : {routers'[q].entries}, moved : BOOLEAN]
  <2> SUFFICES ASSUME NEW q \in Routers
               PROVE  /\ \E S : routers'[q].entries \in Seq(S)
                      /\ OwnGates(routers'[q].gates, q, ops')
                      /\ routers'[q] \in [gates : Seq(RouteGates),
                             entries : {routers'[q].entries}, moved : BOOLEAN]
    OBVIOUS
  <2>1. OwnGates(routers'[q].gates, q, ops')
    <3>1. OwnGates(routers[q].gates, q, ops) /\ routers[q].gates \in Seq(RouteGates)
      BY PartsOfRouter DEF RouterInv
    <3>2. \A i \in DOMAIN routers[q].gates : routers[q].gates[i] \in RouteGates
      BY <3>1
    <3>3. \A i \in DOMAIN routers[q].gates : routers[q].gates[i].time \in Nat
      BY <3>2 DEF RouteGates
    <3> QED
      BY <1>1, <1>7, <3>1, <3>3 DEF OwnGates
  <2>2. CASE q # r
    BY <1>5, <1>6, <2>1, <2>2
  <2>3. CASE q = r
    <3>1. old \o <<new>> \in Seq(Routing!ToSet(old) \cup {new})
      <4>1. <<new>> \in Seq({new})
        OBVIOUS
      <4> QED
        BY <1>2, <4>1, GrownElements
    <3> QED
      BY <1>6, <2>1, <2>3, <3>1
  <2> QED
    BY <2>2, <2>3
<1>15. ops' \in Nat
  BY <1>1
<1> QED
  BY <1>6, <1>12, <1>13, <1>14, <1>15, RouterInvAfter, Zenon


(* gate adds a gate that no entry has passed.                              *)
LEMMA GateKeeps ==
  ASSUME RouterInv, NEW r \in Routers, NEW g \in Gates, Routing!gate(r, g)
  PROVE  RouterInv'
<1> DEFINE own == routers[r].gates
           old == routers[r].entries
<1>0. PICK new : new = [gate |-> g, router |-> r, time |-> ops]
  OBVIOUS
<1>1. /\ ~routers[r].moved /\ ops' = ops + 1 /\ ops \in Nat
      /\ routers' = [routers EXCEPT ![r].gates = Append(@, new)]
  BY <1>0 DEF Routing!gate, Routing!Building, RouterInv
<1>2. /\ own \in Seq(RouteGates) /\ routers[r].moved = FALSE
      /\ new \in RouteGates /\ new.router = r /\ new.time = ops
  BY <1>0, <1>1, PartsOfRouter DEF RouteGates
<1>3. /\ Append(own, new) \in Seq(RouteGates)
      /\ DOMAIN own = 1 .. Len(own) /\ Len(own) \in Nat
      /\ DOMAIN Append(own, new) = 1 .. (Len(own) + 1)
      /\ \A i \in DOMAIN own : Append(own, new)[i] = own[i]
      /\ Append(own, new)[Len(own) + 1] = new
  BY <1>2, AppendProperties
<1>4. \A i \in DOMAIN Append(own, new) : i \in DOMAIN own \/ i = Len(own) + 1
  BY <1>3
<1>5. routers = [q \in Routers |-> routers[q]]
      /\ \A q \in Routers : routers[q] \in [gates : Seq(RouteGates),
             entries : Seq(Routing!ToSet(routers[q].entries)), moved : BOOLEAN]
  BY DEF RouterInv, Shapes
<1>6. /\ routers'[r].gates = Append(own, new) /\ routers'[r].entries = old
      /\ routers'[r].moved = FALSE
      /\ routers'[r] \in [gates : Seq(RouteGates), entries : {old}, moved : BOOLEAN]
      /\ \A q \in Routers : q # r => routers'[q] = routers[q]
      /\ routers' = [q \in Routers |-> routers'[q]]
  BY <1>1, <1>2, <1>3, <1>5
<1>7. \A q \in Routers : routers'[q].entries = routers[q].entries
                         /\ routers'[q].moved = routers[q].moved
  BY <1>2, <1>6
<1>8. \A q \in Routers : \A e \in Routing!ToSet(routers'[q].entries) :
        \A i \in DOMAIN e.gates : e.gates[i] \in Routing!AllGates'
  BY WhereGatesWillBe DEF AllInPlace, InPlace
<1>9. \A h \in Routing!AllGates' : h \in Routing!AllGates \/ h = new
  <2> SUFFICES ASSUME NEW h \in Routing!AllGates' PROVE InPlace(h) \/ h = new
    BY WhereGatesAre DEF AllInPlace
  <2>1. InPlace(h)'
    BY WhereGatesWillBe DEF AllInPlace
  <2>2. ASSUME NEW q \in Routers, NEW i \in DOMAIN routers'[q].gates, h = routers'[q].gates[i]
        PROVE  InPlace(h) \/ h = new
    <3>1. CASE q = r
      BY <1>3, <1>4, <1>6, <2>2, <3>1 DEF InPlace
    <3>2. CASE q # r
      BY <1>6, <2>2, <3>2 DEF InPlace
    <3> QED
      BY <3>1, <3>2
  <2> QED
    BY <1>7, <2>1, <2>2 DEF InPlace
<1>10. \A q \in Routers : \A e \in Routing!ToSet(routers'[q].entries) : EntryGood(e, q)'
  <2> SUFFICES ASSUME NEW q \in Routers, NEW e \in Routing!ToSet(routers'[q].entries)
               PROVE  EntryGood(e, q)'
    OBVIOUS
  <2>1. EntryGood(e, q)
    BY <1>7 DEF RouterInv
  <2>2. \A h \in Routing!AllGates' : h \in Routing!AllGates \/ h.time = ops
    BY <1>2, <1>9
  <2> QED
    BY <1>1, <1>7, <1>8, <2>1, <2>2, EntryStays
<1>11. Kept'
  <2> SUFFICES ASSUME NEW h \in Routing!AllGates', ~routers'[h.router].moved
               PROVE  \E i \in DOMAIN routers'[h.router].gates : routers'[h.router].gates[i] = h
    BY DEF Kept
  <2>1. CASE h = new
    <3>1. Len(own) + 1 \in DOMAIN Append(own, new)
      BY <1>3
    <3> QED
      BY <1>2, <1>3, <1>6, <2>1, <3>1
  <2>2. CASE h \in Routing!AllGates
    <3>1. h.router \in Routers
      BY <2>2, GatesTyped DEF RouteGates
    <3>2. PICK i \in DOMAIN routers[h.router].gates : routers[h.router].gates[i] = h
      BY <1>7, <2>2, <3>1 DEF RouterInv, Kept
    <3>3. CASE h.router = r
      <4>1. i \in DOMAIN Append(own, new)
        BY <1>3, <3>2, <3>3
      <4> QED
        BY <1>3, <1>6, <3>2, <3>3, <4>1
    <3>4. CASE h.router # r
      BY <1>6, <3>1, <3>2, <3>4
    <3> QED
      BY <3>3, <3>4
  <2> QED
    BY <1>9, <2>1, <2>2
<1>12. \A q \in Routers : OwnGates(routers'[q].gates, q, ops')
  <2> SUFFICES ASSUME NEW q \in Routers PROVE OwnGates(routers'[q].gates, q, ops')
    OBVIOUS
  <2>1. OwnGates(routers[q].gates, q, ops) /\ routers[q].gates \in Seq(RouteGates)
    BY PartsOfRouter DEF RouterInv
  <2>2. \A i \in DOMAIN routers[q].gates : routers[q].gates[i] \in RouteGates
    BY <2>1
  <2>3. \A i \in DOMAIN routers[q].gates : routers[q].gates[i].time \in Nat
    BY <2>2 DEF RouteGates
  <2>4. CASE q # r
    BY <1>1, <1>6, <2>1, <2>3, <2>4 DEF OwnGates
  <2>5. CASE q = r
    <3>1. ASSUME NEW i \in DOMAIN Append(own, new)
          PROVE  Append(own, new)[i].router = r /\ Append(own, new)[i].time < ops + 1
      BY <1>1, <1>2, <1>3, <1>4, <2>1, <2>3, <2>5 DEF OwnGates
    <3>2. ASSUME NEW i \in DOMAIN Append(own, new), NEW j \in DOMAIN Append(own, new), i < j
          PROVE  Append(own, new)[i].time < Append(own, new)[j].time
      <4>1. i \in DOMAIN own /\ Append(own, new)[i] = own[i] /\ own[i].time < ops
        BY <1>3, <1>4, <2>1, <2>5, <3>2 DEF OwnGates
      <4>2. CASE j \in DOMAIN own
        BY <1>3, <2>1, <2>5, <3>2, <4>1, <4>2 DEF OwnGates
      <4>3. CASE j = Len(own) + 1
        BY <1>2, <1>3, <4>1, <4>3
      <4> QED
        BY <1>4, <4>2, <4>3
    <3> QED
      BY <1>1, <1>6, <2>5, <3>1, <3>2 DEF OwnGates
  <2> QED
    BY <2>4, <2>5
<1>13. \A q \in Routers : /\ \E S : routers'[q].entries \in Seq(S)
                          /\ routers'[q] \in [gates : Seq(RouteGates),
                                 entries : {routers'[q].entries}, moved : BOOLEAN]
  BY <1>5, <1>6, <1>7
<1>14. ops' \in Nat
  BY <1>1
<1> QED
  BY <1>6, <1>10, <1>11, <1>12, <1>13, <1>14, RouterInvAfter, Zenon


(* An entry that another router takes in gets that router's gates and a    *)
(* station more.                                                           *)
Taken(e, r, prefix, t) ==
  Routing!Entry(Routing!Joined(prefix, e.path), routers[r].gates \o e.gates, e.end,
                <<[router |-> r, time |-> t, prefix |-> prefix]>> \o e.moves)

(* What include does to an entry of the router it takes in.                *)
LEMMA TakenGood ==
  ASSUME RouterInv, NEW r \in Routers, NEW s \in Routers, NEW prefix \in RouteScopes, r # s,
         ~routers[r].moved, ops' = ops + 1,
         \A q \in Routers : routers'[q].moved <=> routers[q].moved \/ q = s,
         NEW e \in Routing!ToSet(routers[s].entries),
         NEW new, new = Taken(e, r, prefix, ops),
         \A i \in DOMAIN routers[r].gates : routers[r].gates[i] \in Routing!AllGates',
         \A i \in DOMAIN e.gates : e.gates[i] \in Routing!AllGates',
         \A g \in Routing!AllGates' : g \in Routing!AllGates
  PROVE  EntryGood(new, r)'
<1> DEFINE own == routers[r].gates
           move == [router |-> r, time |-> ops, prefix |-> prefix]
<1>1. EntryGood(e, s) /\ ops \in Nat /\ own \in Seq(RouteGates)
  BY PartsOfRouter DEF RouterInv
<1>2. /\ e.gates \in Seq(RouteGates) /\ e.moves \in Seq(Stations) /\ e.moves # <<>>
      /\ e.moves[1].router = s
      /\ Around(e.gates, e.moves, Routing!AllGates)
  BY <1>1 DEF EntryGood
<1>3. move \in Stations /\ move.router = r /\ move.time = ops
  BY <1>1 DEF Stations
<1>4. new.gates = own \o e.gates /\ new.moves = <<move>> \o e.moves
  BY DEF Taken, Routing!Entry
<1> HIDE DEF own, move
<1>5. /\ new.gates \in Seq(RouteGates) /\ new.moves \in Seq(Stations)
      /\ DOMAIN new.moves = 1 .. (1 + Len(e.moves)) /\ new.moves[1] = move
      /\ \A k \in DOMAIN e.moves : new.moves[1 + k] = e.moves[k]
      /\ DOMAIN e.moves = 1 .. Len(e.moves) /\ Len(e.moves) \in Nat
  <2>1. /\ <<move>> \in Seq(Stations) /\ Len(<<move>>) = 1 /\ <<move>>[1] = move
        /\ DOMAIN e.moves = 1 .. Len(e.moves) /\ Len(e.moves) \in Nat
    BY <1>2, <1>3
  <2>2. /\ new.moves \in Seq(Stations) /\ Len(new.moves) = 1 + Len(e.moves)
        /\ \A i \in 1 .. (1 + Len(e.moves)) :
             new.moves[i] = IF i <= 1 THEN <<move>>[i] ELSE e.moves[i - 1]
    BY <1>2, <1>4, <2>1, ConcatProperties
  <2>3. DOMAIN new.moves = 1 .. (1 + Len(e.moves)) /\ new.moves[1] = move
    BY <2>1, <2>2
  <2>4. ASSUME NEW k \in DOMAIN e.moves PROVE new.moves[1 + k] = e.moves[k]
    <3>1. 1 + k \in 1 .. (1 + Len(e.moves)) /\ ~(1 + k <= 1) /\ (1 + k) - 1 = k
      BY <2>1
    <3>2. new.moves[1 + k] = e.moves[(1 + k) - 1]
      BY <2>2, <3>1
    <3> QED
      BY <3>1, <3>2
  <2>5. new.gates \in Seq(RouteGates)
    BY <1>1, <1>2, <1>4
  <2> QED
    BY <2>1, <2>2, <2>3, <2>4, <2>5
<1>6. \A k \in DOMAIN new.moves : k = 1 \/ \E j \in DOMAIN e.moves : k = 1 + j
  <2> SUFFICES ASSUME NEW k \in DOMAIN new.moves, k # 1
               PROVE  \E j \in DOMAIN e.moves : k = 1 + j
    OBVIOUS
  <2>1. k - 1 \in DOMAIN e.moves /\ k = 1 + (k - 1)
    BY <1>5
  <2> QED
    BY <2>1
<1>7. \A j \in DOMAIN e.moves : e.moves[j].router # r /\ routers'[e.moves[j].router].moved
                                /\ e.moves[j].time < ops + 1
  <2> SUFFICES ASSUME NEW j \in DOMAIN e.moves
               PROVE  /\ e.moves[j].router # r /\ routers'[e.moves[j].router].moved
                      /\ e.moves[j].time < ops + 1
    OBVIOUS
  <2>1. e.moves[j] \in Stations
    BY <1>2
  <2>2. e.moves[j].router \in Routers /\ e.moves[j].time \in Nat /\ e.moves[j].time < ops
    BY <1>1, <2>1 DEF Stations, EntryGood
  <2>3. j # 1 => routers[e.moves[j].router].moved
    BY <1>1 DEF EntryGood
  <2> QED
    BY <1>1, <1>2, <2>2, <2>3
<1>8. \A k \in DOMAIN new.moves : new.moves[k].time < ops'
  <2> SUFFICES ASSUME NEW k \in DOMAIN new.moves PROVE new.moves[k].time < ops'
    OBVIOUS
  <2>1. ops < ops'
    BY <1>1
  <2>2. CASE k = 1
    BY <1>3, <1>5, <2>1, <2>2
  <2>3. ASSUME NEW j \in DOMAIN e.moves, k = 1 + j PROVE new.moves[k].time < ops'
    BY <1>5, <1>7, <2>3
  <2> QED
    BY <1>6, <2>2, <2>3
<1>9. \A k \in DOMAIN new.moves : k # 1 => /\ new.moves[k].router # r
                                          /\ routers'[new.moves[k].router].moved
  <2> SUFFICES ASSUME NEW k \in DOMAIN new.moves, NEW j \in DOMAIN e.moves, k = 1 + j
               PROVE  new.moves[k].router # r /\ routers'[new.moves[k].router].moved
    BY <1>6
  <2>1. new.moves[k] = e.moves[j]
    BY <1>5
  <2> QED
    BY <1>7, <2>1
<1>10. Apart(new.moves)
  <2> SUFFICES ASSUME NEW j \in DOMAIN new.moves, NEW k \in DOMAIN new.moves,
                      new.moves[j].router = new.moves[k].router
               PROVE  j = k
    BY DEF Apart
  <2>1. CASE j = 1 \/ k = 1
    BY <1>3, <1>5, <1>9, <2>1
  <2>2. ASSUME NEW a \in DOMAIN e.moves, NEW b \in DOMAIN e.moves, j = 1 + a, k = 1 + b
        PROVE  j = k
    <3>1. new.moves[j] = e.moves[a] /\ new.moves[k] = e.moves[b]
      BY <1>5, <2>2
    <3>2. a = b
      BY <1>1, <3>1 DEF EntryGood, Apart
    <3> QED
      BY <2>2, <3>2
  <2> QED
    BY <1>6, <2>1, <2>2
<1>11. Around(new.gates, new.moves, Routing!AllGates')
  <2>1. \A g \in Routing!AllGates : g.router = move.router => \E i \in DOMAIN own : own[i] = g
    BY <1>3 DEF RouterInv, Kept, own
  <2>2. OwnGates(own, move.router, move.time)
    BY <1>3 DEF RouterInv, own
  <2>3. Routing!AllGates' \in SUBSET Routing!AllGates
    OBVIOUS
  <2>4. \A i \in DOMAIN own : own[i] \in Routing!AllGates'
    BY DEF own
  <2>5. \A k \in DOMAIN e.moves : e.moves[k].router # move.router
    BY <1>3, <1>7
  <2>6. Around(own \o e.gates, <<move>> \o e.moves, Routing!AllGates')
    BY <1>1, <1>2, <1>3, <2>1, <2>2, <2>3, <2>4, <2>5, GatesAround
  <2> QED
    BY <1>4, <2>6
<1>12. new.moves # <<>> /\ new.moves[1].router = r
  <2>1. 1 \in DOMAIN new.moves
    BY <1>5
  <2> QED
    BY <1>3, <1>5, <2>1
<1> QED
  BY <1>5, <1>8, <1>9, <1>10, <1>11, <1>12 DEF EntryGood

(* include moves the entries of one router into another.                   *)
LEMMA IncludeKeeps ==
  ASSUME RouterInv, NEW r \in Routers, NEW s \in Routers, NEW prefix \in RouteScopes,
         Routing!include(r, prefix, s)
  PROVE  RouterInv'
<1> DEFINE old == routers[r].entries
           came == routers[s].entries
<1>0. PICK new : new = [i \in DOMAIN came |-> Taken(came[i], r, prefix, ops)]
  OBVIOUS
<1>1. /\ ~routers[r].moved /\ ~routers[s].moved /\ r # s /\ ops' = ops + 1 /\ ops \in Nat
      /\ routers' = [routers EXCEPT ![r].entries = @ \o new, ![s] = Routing!Moved]
  BY <1>0 DEF Routing!include, Routing!Building, Routing!Registered, Taken, RouterInv
<1>2. /\ routers[r].gates \in Seq(RouteGates) /\ old \in Seq(Routing!ToSet(old))
      /\ came \in Seq(Routing!ToSet(came)) /\ routers[r].moved = FALSE
  BY <1>1, PartsOfRouter
<1>3. /\ new \in Seq(Routing!ToSet(new))
      /\ \A x \in Routing!ToSet(new) : \E e \in Routing!ToSet(came) : x = Taken(e, r, prefix, ops)
  <2>1. \A x \in Routing!ToSet(new) : \E e \in Routing!ToSet(came) : x = Taken(e, r, prefix, ops)
    BY <1>0 DEF Routing!ToSet
  <2>2. DOMAIN came = 1 .. Len(came) /\ Len(came) \in Nat
    BY <1>2
  <2>3. new \in [1 .. Len(came) -> Routing!ToSet(new)]
    BY <1>0, <2>2 DEF Routing!ToSet
  <2> QED
    BY <2>1, <2>2, <2>3, SeqDef
<1>4. routers = [q \in Routers |-> routers[q]]
      /\ \A q \in Routers : routers[q] \in [gates : Seq(RouteGates),
             entries : Seq(Routing!ToSet(routers[q].entries)), moved : BOOLEAN]
  BY DEF RouterInv, Shapes
<1>5. /\ routers'[r].gates = routers[r].gates /\ routers'[r].entries = old \o new
      /\ routers'[r].moved = FALSE
      /\ routers'[r] \in [gates : Seq(RouteGates), entries : {old \o new}, moved : BOOLEAN]
      /\ routers'[s] = Routing!Moved
      /\ \A q \in Routers : q # r /\ q # s => routers'[q] = routers[q]
      /\ routers' = [q \in Routers |-> routers'[q]]
  <2>1. /\ routers'[r] = [routers[r] EXCEPT !.entries = @ \o new]
        /\ routers'[s] = Routing!Moved
        /\ \A q \in Routers : q # r /\ q # s => routers'[q] = routers[q]
        /\ routers' = [q \in Routers |-> routers'[q]]
    BY <1>1, <1>4
  <2> QED
    BY <1>2, <1>4, <2>1
<1>6. /\ routers'[s].gates = <<>> /\ routers'[s].entries = <<>> /\ routers'[s].moved = TRUE
      /\ routers'[s] \in [gates : Seq(RouteGates), entries : {<<>>}, moved : BOOLEAN]
  BY <1>5 DEF Routing!Moved
<1>7. \A q \in Routers : routers'[q].moved <=> routers[q].moved \/ q = s
  BY <1>1, <1>5, <1>6
<1>8. \A q \in Routers : \A e \in Routing!ToSet(routers'[q].entries) :
        \/ e \in Routing!ToSet(routers[q].entries) /\ q # s
        \/ q = r /\ e \in Routing!ToSet(new)
  <2> SUFFICES ASSUME NEW q \in Routers, NEW e \in Routing!ToSet(routers'[q].entries)
               PROVE  \/ e \in Routing!ToSet(routers[q].entries) /\ q # s
                      \/ q = r /\ e \in Routing!ToSet(new)
    OBVIOUS
  <2>1. CASE q # r /\ q # s
    BY <1>5, <2>1
  <2>2. CASE q = s
    BY <1>6, <2>2 DEF Routing!ToSet
  <2>3. CASE q = r
    <3>1. e \in Routing!ToSet(old \o new)
      BY <1>5, <2>3
    <3> QED
      BY <1>1, <1>2, <1>3, <2>3, <3>1, GrownElements
  <2> QED
    BY <2>1, <2>2, <2>3
<1>9. /\ \A i \in DOMAIN routers[r].gates : routers[r].gates[i] \in Routing!AllGates'
      /\ \A q \in Routers : \A e \in Routing!ToSet(routers'[q].entries) :
           \A i \in DOMAIN e.gates : e.gates[i] \in Routing!AllGates'
  BY <1>5, WhereGatesWillBe DEF AllInPlace, InPlace
<1>10. \A e \in Routing!ToSet(came), x \in Routing!ToSet(new) : x = Taken(e, r, prefix, ops) =>
         /\ x.gates = routers[r].gates \o e.gates /\ e.gates \in Seq(RouteGates)
         /\ \A i \in DOMAIN e.gates : \E j \in DOMAIN x.gates : x.gates[j] = e.gates[i]
         /\ \A j \in DOMAIN x.gates : \/ \E i \in DOMAIN e.gates : x.gates[j] = e.gates[i]
                                      \/ \E i \in DOMAIN routers[r].gates :
                                           x.gates[j] = routers[r].gates[i]
  <2> SUFFICES ASSUME NEW e \in Routing!ToSet(came), NEW x \in Routing!ToSet(new),
                      x = Taken(e, r, prefix, ops)
               PROVE  /\ x.gates = routers[r].gates \o e.gates /\ e.gates \in Seq(RouteGates)
                      /\ \A i \in DOMAIN e.gates : \E j \in DOMAIN x.gates : x.gates[j] = e.gates[i]
                      /\ \A j \in DOMAIN x.gates :
                           \/ \E i \in DOMAIN e.gates : x.gates[j] = e.gates[i]
                           \/ \E i \in DOMAIN routers[r].gates : x.gates[j] = routers[r].gates[i]
    OBVIOUS
  <2> DEFINE own == routers[r].gates
  <2>1. x.gates = own \o e.gates /\ own \in Seq(RouteGates) /\ e.gates \in Seq(RouteGates)
    BY <1>2 DEF Taken, Routing!Entry, RouterInv, EntryGood
  <2> HIDE DEF own
  <2>2. \A j \in DOMAIN x.gates : \/ \E i \in DOMAIN e.gates : x.gates[j] = e.gates[i]
                                  \/ \E i \in DOMAIN own : x.gates[j] = own[i]
    BY <2>1, GrownElements DEF Routing!ToSet
  <2>3. ASSUME NEW i \in DOMAIN e.gates
        PROVE  \E j \in DOMAIN x.gates : x.gates[j] = e.gates[i]
    <3>1. Len(own) + i \in DOMAIN x.gates /\ x.gates[Len(own) + i] = e.gates[i]
      BY <2>1
    <3> QED
      BY <3>1
  <2> QED
    BY <2>1, <2>2, <2>3 DEF own
<1>11. \A g \in Routing!AllGates' : g \in Routing!AllGates
  <2> SUFFICES ASSUME NEW g \in Routing!AllGates' PROVE InPlace(g)
    BY WhereGatesAre DEF AllInPlace
  <2>1. InPlace(g)'
    BY WhereGatesWillBe DEF AllInPlace
  <2>2. ASSUME NEW q \in Routers, NEW i \in DOMAIN routers'[q].gates, g = routers'[q].gates[i]
        PROVE  InPlace(g)
    <3>1. CASE q = s
      BY <1>6, <2>2, <3>1
    <3>2. CASE q # s
      BY <1>5, <2>2, <3>2 DEF InPlace
    <3> QED
      BY <3>1, <3>2
  <2>3. ASSUME NEW q \in Routers, NEW e \in Routing!ToSet(routers'[q].entries),
               NEW i \in DOMAIN e.gates, g = e.gates[i]
        PROVE  InPlace(g)
    <3>1. CASE e \in Routing!ToSet(routers[q].entries)
      BY <2>3, <3>1 DEF InPlace
    <3>2. CASE e \in Routing!ToSet(new)
      <4>1. PICK y \in Routing!ToSet(came) : e = Taken(y, r, prefix, ops)
        BY <1>3, <3>2
      <4>2. \/ \E k \in DOMAIN y.gates : e.gates[i] = y.gates[k]
            \/ \E k \in DOMAIN routers[r].gates : e.gates[i] = routers[r].gates[k]
        BY <1>10, <3>2, <4>1
      <4> QED
        BY <2>3, <4>2 DEF InPlace
    <3> QED
      BY <1>8, <3>1, <3>2
  <2> QED
    BY <2>1, <2>2, <2>3 DEF InPlace
<1>12. \A q \in Routers : \A e \in Routing!ToSet(routers'[q].entries) : EntryGood(e, q)'
  <2> SUFFICES ASSUME NEW q \in Routers, NEW x \in Routing!ToSet(routers'[q].entries)
               PROVE  EntryGood(x, q)'
    OBVIOUS
  <2>1. CASE x \in Routing!ToSet(routers[q].entries)
    <3>1. EntryGood(x, q)
      BY <2>1 DEF RouterInv
    <3> QED
      BY <1>1, <1>7, <1>9, <1>11, <3>1, EntryStays
  <2>2. CASE q = r /\ x \in Routing!ToSet(new)
    <3>1. PICK e \in Routing!ToSet(came) : x = Taken(e, r, prefix, ops)
      BY <1>3, <2>2
    <3>2. \A i \in DOMAIN e.gates : \E j \in DOMAIN x.gates : x.gates[j] = e.gates[i]
      BY <1>10, <2>2, <3>1
    <3>3. \A i \in DOMAIN e.gates : e.gates[i] \in Routing!AllGates'
      BY <1>9, <3>2
    <3> QED
      BY <1>1, <1>7, <1>9, <1>11, <2>2, <3>1, <3>3, TakenGood
  <2> QED
    BY <1>8, <2>1, <2>2
<1>13. Kept'
  <2> SUFFICES ASSUME NEW g \in Routing!AllGates', ~routers'[g.router].moved
               PROVE  \E i \in DOMAIN routers'[g.router].gates : routers'[g.router].gates[i] = g
    BY DEF Kept
  <2>1. g \in Routing!AllGates /\ g.router \in Routers
    BY <1>11, GatesTyped DEF RouteGates
  <2>2. g.router # s /\ ~routers[g.router].moved
    BY <1>7, <2>1
  <2>3. routers'[g.router].gates = routers[g.router].gates
    BY <1>5, <2>1, <2>2
  <2> QED
    BY <2>1, <2>2, <2>3 DEF RouterInv, Kept
<1>14. \A q \in Routers : OwnGates(routers'[q].gates, q, ops')
  <2> SUFFICES ASSUME NEW q \in Routers PROVE OwnGates(routers'[q].gates, q, ops')
    OBVIOUS
  <2>1. CASE q = s
    BY <1>6, <2>1 DEF OwnGates
  <2>2. CASE q # s
    <3>1. OwnGates(routers[q].gates, q, ops) /\ routers[q].gates \in Seq(RouteGates)
      BY PartsOfRouter DEF RouterInv
    <3>2. \A i \in DOMAIN routers[q].gates : routers[q].gates[i] \in RouteGates
      BY <3>1
    <3>3. \A i \in DOMAIN routers[q].gates : routers[q].gates[i].time \in Nat
      BY <3>2 DEF RouteGates
    <3>4. routers'[q].gates = routers[q].gates
      BY <1>5, <2>2
    <3>5. ops' = ops + 1 /\ ops \in Nat
      BY <1>1
    <3> QED
      BY <3>1, <3>3, <3>4, <3>5 DEF OwnGates
  <2> QED
    BY <2>1, <2>2
<1>15. \A q \in Routers : /\ \E S : routers'[q].entries \in Seq(S)
                          /\ routers'[q] \in [gates : Seq(RouteGates),
                                 entries : {routers'[q].entries}, moved : BOOLEAN]
  <2>1. old \o new \in Seq(Routing!ToSet(old) \cup Routing!ToSet(new))
    BY <1>2, <1>3, GrownElements
  <2>2. <<>> \in Seq({})
    OBVIOUS
  <2> QED
    BY <1>4, <1>5, <1>6, <2>1, <2>2
<1>16. ops' \in Nat
  BY <1>1
<1> QED
  BY <1>5, <1>12, <1>13, <1>14, <1>15, <1>16, RouterInvAfter, Zenon


(* Every operation of the routers keeps RouterInv.                         *)
LEMMA RouterSteps ==
  ASSUME RouterInv, [Routing!Next]_(Routing!vars)
  PROVE  RouterInv'
<1>1. ASSUME UNCHANGED <<routers, ops>> PROVE RouterInv'
  <2>1. Routing!AllGates' = Routing!AllGates
    BY <1>1 DEF Routing!AllGates
  <2>2. ASSUME NEW e, NEW r, EntryGood(e, r) PROVE EntryGood(e, r)'
    BY <1>1, <2>1, <2>2 DEF EntryGood
  <2>3. Kept'
    BY <1>1, <2>1 DEF RouterInv, Kept
  <2>4. Shapes'
    BY <1>1 DEF RouterInv, Shapes
  <2> QED
    BY <1>1, <2>2, <2>3, <2>4 DEF RouterInv
<1>2. ASSUME NEW r \in Routers, NEW prefix \in RouteScopes, Routing!routes(r, prefix) PROVE RouterInv'
  <2>1. routers' = [s \in Routers |-> Routing!Moved] /\ ops' = ops /\ ops \in Nat
    BY <1>2 DEF Routing!routes, RouterInv
  <2>2. \A q \in Routers :
          /\ routers'[q].gates = <<>> /\ routers'[q].entries = <<>>
          /\ routers'[q] \in [gates : Seq(RouteGates), entries : {<<>>}, moved : BOOLEAN]
    BY <2>1 DEF Routing!Moved
  <2>3. Routing!ToSet(<<>>) = {} /\ <<>> \in Seq({}) /\ \A i \in DOMAIN <<>> : FALSE
    BY DEF Routing!ToSet
  <2>4. routers' = [q \in Routers |-> routers'[q]]
    BY <2>1
  <2>5. \A g : g \notin Routing!AllGates'
    <3> SUFFICES ASSUME NEW g PROVE ~InPlace(g)'
      BY WhereGatesWillBe DEF AllInPlace
    <3> QED
      BY <2>2, <2>3 DEF InPlace
  <2>6. Kept'
    BY <2>5 DEF Kept
  <2>7. \A q \in Routers : \A e \in Routing!ToSet(routers'[q].entries) : EntryGood(e, q)'
    BY <2>2, <2>3
  <2>8. \A q \in Routers : /\ OwnGates(routers'[q].gates, q, ops')
                           /\ \E S : routers'[q].entries \in Seq(S)
                           /\ routers'[q] \in [gates : Seq(RouteGates),
                                  entries : {routers'[q].entries}, moved : BOOLEAN]
    BY <2>2, <2>3 DEF OwnGates
  <2>9. ops' \in Nat
    BY <2>1
  <2> QED
    BY <2>4, <2>6, <2>7, <2>8, <2>9, RouterInvAfter, Zenon
<1>3. ASSUME NEW q \in Asked, Routing!call(q) PROVE RouterInv'
  BY <1>1, <1>3 DEF Routing!call
<1>4. CASE UNCHANGED Routing!vars
  BY <1>1, <1>4 DEF Routing!vars
<1> QED
  BY <1>2, <1>3, <1>4, OnKeeps, IncludeKeeps, GateKeeps DEF Routing!Next

(* The routers a program begins with are empty.                            *)
LEMMA RouterStarts == Routing!Init => RouterInv
<1> SUFFICES ASSUME Routing!Init PROVE RouterInv
  OBVIOUS
<1>1. routers = [q \in Routers |-> Routing!New] /\ ops = 0
  BY DEF Routing!Init
<1>2. \A q \in Routers :
        /\ routers[q].gates = <<>> /\ routers[q].entries = <<>>
        /\ routers[q] \in [gates : Seq(RouteGates), entries : {<<>>}, moved : BOOLEAN]
  BY <1>1 DEF Routing!New
<1>3. Routing!ToSet(<<>>) = {} /\ <<>> \in Seq({}) /\ \A i \in DOMAIN <<>> : FALSE
  BY DEF Routing!ToSet
<1>4. \A g : g \notin Routing!AllGates
  <2> SUFFICES ASSUME NEW g PROVE ~InPlace(g)
    BY WhereGatesAre DEF AllInPlace
  <2> QED
    BY <1>2, <1>3 DEF InPlace
<1>5. Shapes
  BY <1>2, <1>3 DEF Shapes
<1> QED
  BY <1>1, <1>2, <1>3, <1>4, <1>5 DEF RouterInv, OwnGates, Kept

(* RouterInv says what GatesWrapRegistered does.                           *)
LEMMA WrapsRegistered == RouterInv => Routing!GatesWrapRegistered
<1> SUFFICES ASSUME RouterInv, NEW r \in Routers, NEW e \in Routing!ToSet(routers[r].entries)
             PROVE  /\ Routing!ToSet(e.gates) = {g \in Routing!AllGates : \E k \in DOMAIN e.moves :
                           /\ e.moves[k].router = g.router
                           /\ g.time < e.moves[k].time}
                    /\ \A i, j \in DOMAIN e.gates : i < j =>
                         \/ Routing!Hop(e, e.gates[i]) < Routing!Hop(e, e.gates[j])
                         \/ /\ e.gates[i].router = e.gates[j].router
                            /\ e.gates[i].time < e.gates[j].time
  BY DEF Routing!GatesWrapRegistered
<1>1. EntryGood(e, r)
  BY DEF RouterInv
<1>2. Around(e.gates, e.moves, Routing!AllGates) /\ Apart(e.moves)
  BY <1>1 DEF EntryGood
<1>3. Routing!ToSet(e.gates) = {g \in Routing!AllGates : \E k \in DOMAIN e.moves :
        e.moves[k].router = g.router /\ g.time < e.moves[k].time}
  BY <1>2 DEF Around, StandsBefore, Routing!ToSet
<1>4. ASSUME NEW g, NEW k \in DOMAIN e.moves, StandsBefore(g, e.moves[k])
      PROVE  Routing!Hop(e, g) = k
  <2>1. e.moves[k].router = g.router
    BY <1>4 DEF StandsBefore
  <2>2. \A m \in DOMAIN e.moves : e.moves[m].router = g.router => m = k
    BY <1>2, <2>1 DEF Apart
  <2> QED
    BY <2>1, <2>2 DEF Routing!Hop
<1>5. ASSUME NEW i \in DOMAIN e.gates, NEW j \in DOMAIN e.gates, i < j
      PROVE  \/ Routing!Hop(e, e.gates[i]) < Routing!Hop(e, e.gates[j])
             \/ /\ e.gates[i].router = e.gates[j].router
                /\ e.gates[i].time < e.gates[j].time
  <2>1. PICK a \in DOMAIN e.moves : StandsBefore(e.gates[i], e.moves[a])
    BY <1>2 DEF Around
  <2>2. PICK b \in DOMAIN e.moves : StandsBefore(e.gates[j], e.moves[b])
    BY <1>2 DEF Around
  <2>3. Routing!Hop(e, e.gates[i]) = a /\ Routing!Hop(e, e.gates[j]) = b
    BY <1>4, <2>1, <2>2
  <2>4. e.moves[a].router = e.gates[i].router /\ e.moves[b].router = e.gates[j].router
    BY <2>1, <2>2 DEF StandsBefore
  <2> QED
    BY <1>2, <1>5, <2>3, <2>4 DEF Around
<1> QED
  BY <1>3, <1>5

(* The invariant holds in every state in which a router is built.          *)
LEMMA RouterInvHolds == Spec => [](part = "router" => RouterInv)
<1> DEFINE Inv == part = "router" => RouterInv
<1>1. Init => Inv
  BY RouterStarts DEF Init
<1>2. Inv /\ [Next]_vars => Inv'
  BY LayersApart, RouterSteps
<1> QED
  BY <1>1, <1>2, PTL DEF Spec

(* The gates around an endpoint are those its routers had when it came to  *)
(* them, and no gate added later, outer routers first, for any number of   *)
(* routers nested in any order.                                            *)
THEOREM GatesWrapEndpoints == Spec => []GatesWrapRegistered
<1>1. (part = "router" => RouterInv) => GatesWrapRegistered
  BY WrapsRegistered, Zenon DEF GatesWrapRegistered
<1> QED
  BY <1>1, RouterInvHolds, PTL

-----------------------------------------------------------------------------
(* Building a table. It has the first n entries of its router, each once,  *)
(* among its static paths or its dynamic routes.                           *)
Holds(t, n) ==
  /\ \A i \in DOMAIN t.dynamic : t.dynamic[i].entry \in 1 .. n
  /\ \A p \in DOMAIN t.static : t.static[p] \in 1 .. n
  /\ \A i, j \in DOMAIN t.dynamic : t.dynamic[i].entry = t.dynamic[j].entry => i = j
  /\ \A p, q \in DOMAIN t.static : t.static[p] = t.static[q] => p = q
  /\ \A i \in DOMAIN t.dynamic, p \in DOMAIN t.static : t.dynamic[i].entry # t.static[p]
  /\ \A k \in 1 .. n : \/ \E i \in DOMAIN t.dynamic : t.dynamic[i].entry = k
                       \/ \E p \in DOMAIN t.static : t.static[p] = k

(* What it has is what R says of these entries, in their order, whether or *)
(* not the table came to be.                                               *)
Faithful(t, R, n) ==
  /\ \E m \in Nat : DOMAIN t.dynamic = 1 .. m
  /\ \A i \in DOMAIN t.dynamic : /\ t.dynamic[i].entry \in 1 .. n
                                 /\ t.dynamic[i].route = R[t.dynamic[i].entry]
                                 /\ t.dynamic[i].route.kind = "dynamic"
  /\ \A i, j \in DOMAIN t.dynamic : i < j => t.dynamic[i].entry < t.dynamic[j].entry
  /\ \A p \in DOMAIN t.static : /\ t.static[p] \in 1 .. n
                                /\ R[t.static[p]].kind = "static"
                                /\ Routing!Text(R[t.static[p]].path) = p

Kinds == {"static", "dynamic", "missing", "conflict", "panic"}

(* Every path is parsed into one of five kinds.                            *)
LEMMA ParsedKinds == \A raw : Routing!FromStr(raw).kind \in Kinds
<1> SUFFICES ASSUME NEW raw PROVE Routing!FromStr(raw).kind \in Kinds
  OBVIOUS
<1>1. \A names : Routing!NameError(names) \in {"none", "missing", "conflict"}
  BY DEF Routing!NameError
<1>2. \A kind, path1, pattern, names : Routing!Parsed(kind, path1, pattern, names).kind = kind
  BY DEF Routing!Parsed
<1> QED
  BY <1>1, <1>2 DEF Routing!FromStr, Kinds

(* Tables over n entries that are parsed into F and spelled as in X.       *)
Tables(n, F, X, entries) ==
  [state : {"ok", "missing", "conflict", "panic"},
   static : UNION {[D -> 1 .. n] : D \in SUBSET X},
   dynamic : Seq([route : F, entry : 1 .. n]),
   entries : {entries}]

(* Inserting an entry adds it once, or ends in an error.                   *)
LEMMA InsertedOnce ==
  ASSUME NEW n \in Nat, NEW F, NEW X, NEW entries, NEW t \in Tables(n, F, X, entries),
         NEW k \in 1 .. n, NEW f \in F, f.kind \in Kinds, Routing!Text(f.path) \in X
  PROVE  /\ Routing!Inserted(t, f, k) \in Tables(n, F, X, entries)
         /\ t.state = "ok" /\ Holds(t, k - 1) /\ Routing!Inserted(t, f, k).state = "ok"
              => Holds(Routing!Inserted(t, f, k), k)
         /\ t.state # "ok" => Routing!Inserted(t, f, k) = t
<1>1. PICK u : u = Routing!Inserted(t, f, k)
  OBVIOUS
<1>2. PICK spelled : spelled = Routing!Text(f.path)
  OBVIOUS
<1>3. PICK D \in SUBSET X : t.static \in [D -> 1 .. n]
  BY DEF Tables
<1>4. PICK static : static = [p \in D \cup {spelled} |-> IF p = spelled THEN k ELSE t.static[p]]
  OBVIOUS
<1>5. /\ static \in [D \cup {spelled} -> 1 .. n] /\ D \cup {spelled} \in SUBSET X
      /\ static = Routing!WithStatic(t.static, spelled, k) /\ DOMAIN t.static = D
  BY <1>2, <1>3, <1>4 DEF Routing!WithStatic
<1>6. PICK route : route = [route |-> f, entry |-> k]
  OBVIOUS
<1>7. /\ route \in [route : F, entry : 1 .. n] /\ route.entry = k
      /\ t.dynamic \in Seq([route : F, entry : 1 .. n])
  BY <1>6 DEF Tables
<1>8. PICK dynamic : dynamic = Append(t.dynamic, route)
  OBVIOUS
<1>9. PICK m : m = Len(t.dynamic)
  OBVIOUS
<1>10. /\ m \in Nat /\ DOMAIN t.dynamic = 1 .. m
       /\ dynamic \in Seq([route : F, entry : 1 .. n])
       /\ DOMAIN dynamic = 1 .. m + 1 /\ dynamic[m + 1] = route
       /\ \A i \in 1 .. m : dynamic[i] = t.dynamic[i]
  BY <1>7, <1>8, <1>9
<1>11. t = [state |-> t.state, static |-> t.static, dynamic |-> t.dynamic, entries |-> entries]
  BY DEF Tables
<1>12. CASE t.state # "ok"
  <2>1. u = t
    BY <1>1, <1>12 DEF Routing!Inserted
  <2> QED
    BY <1>1, <1>12, <2>1
<1>13. CASE t.state = "ok" /\ u.state # "ok"
  <2>1. \/ u = [t EXCEPT !.state = f.kind] /\ f.kind \in {"missing", "conflict", "panic"}
        \/ u = [t EXCEPT !.state = "conflict"]
        \/ u = [t EXCEPT !.static = static]
        \/ u = [t EXCEPT !.dynamic = dynamic]
    BY <1>1, <1>2, <1>5, <1>6, <1>8, <1>13 DEF Routing!Inserted, Kinds
  <2>2. u \in Tables(n, F, X, entries)
    BY <1>11, <1>13, <2>1 DEF Tables
  <2> QED
    BY <1>1, <1>13, <2>2
<1>14. CASE t.state = "ok" /\ u.state = "ok"
  <2>1. \/ u = [t EXCEPT !.static = static] /\ spelled \notin D
        \/ u = [t EXCEPT !.dynamic = dynamic]
    BY <1>1, <1>2, <1>5, <1>6, <1>8, <1>11, <1>14 DEF Routing!Inserted, Routing!Conflicts, Kinds
  <2>2. CASE u = [t EXCEPT !.static = static] /\ spelled \notin D
    <3>1. u.static = static /\ u.dynamic = t.dynamic /\ u.state = "ok" /\ u.entries = entries
      BY <1>11, <1>14, <2>2
    <3>2. u \in Tables(n, F, X, entries)
      BY <1>5, <1>11, <2>2 DEF Tables
    <3>3. ASSUME Holds(t, k - 1) PROVE Holds(u, k)
      <4>1. \A p \in D : static[p] = t.static[p] /\ t.static[p] \in 1 .. k - 1
        BY <1>4, <1>5, <2>2, <3>3 DEF Holds
      <4>2. static[spelled] = k /\ \A i \in 1 .. k - 1 : i # k /\ i \in 1 .. k
        BY <1>4
      <4>3. \A i \in 1 .. k : i \in 1 .. k - 1 \/ i = k
        OBVIOUS
      <4> QED
        BY <1>5, <3>1, <3>3, <4>1, <4>2, <4>3 DEF Holds
    <3> QED
      BY <1>1, <1>14, <3>2, <3>3
  <2>3. CASE u = [t EXCEPT !.dynamic = dynamic]
    <3>1. u.static = t.static /\ u.dynamic = dynamic /\ u.state = "ok" /\ u.entries = entries
      BY <1>11, <1>14, <2>3
    <3>2. u \in Tables(n, F, X, entries)
      BY <1>10, <1>11, <2>3 DEF Tables
    <3>3. ASSUME Holds(t, k - 1) PROVE Holds(u, k)
      <4>1. \A i \in 1 .. m : dynamic[i].entry = t.dynamic[i].entry /\ t.dynamic[i].entry \in 1 .. k - 1
        BY <1>10, <3>3 DEF Holds
      <4>2. dynamic[m + 1].entry = k /\ \A i \in 1 .. k - 1 : i # k /\ i \in 1 .. k
        BY <1>7, <1>10
      <4>3. /\ \A i \in 1 .. k : i \in 1 .. k - 1 \/ i = k
            /\ \A i \in 1 .. m + 1 : i \in 1 .. m \/ i = m + 1
            /\ \A i \in 1 .. m : i \in 1 .. m + 1
            /\ m + 1 \in 1 .. m + 1
        BY <1>10
      <4>4. k \in 1 .. k
        OBVIOUS
      <4>5. \A i \in 1 .. m + 1 : dynamic[i].entry \in 1 .. k
        BY <4>1, <4>2, <4>3, <4>4
      <4>6. \A i, j \in 1 .. m + 1 : dynamic[i].entry = dynamic[j].entry => i = j
        BY <1>10, <3>3, <4>1, <4>2, <4>3, ZenonT(40) DEF Holds
      <4>7. /\ \A p \in D : t.static[p] \in 1 .. k - 1
            /\ \A p, q \in D : t.static[p] = t.static[q] => p = q
            /\ \A i \in 1 .. m, p \in D : t.dynamic[i].entry # t.static[p]
            /\ \A i \in 1 .. k - 1 : \/ \E j \in 1 .. m : t.dynamic[j].entry = i
                                     \/ \E p \in D : t.static[p] = i
        BY <1>5, <1>10, <3>3 DEF Holds
      <4>8. \A i \in 1 .. m + 1, p \in D : dynamic[i].entry # t.static[p]
        BY <4>1, <4>2, <4>3, <4>7
      <4>9. ASSUME NEW i \in 1 .. k
            PROVE  \/ \E j \in 1 .. m + 1 : dynamic[j].entry = i
                   \/ \E p \in D : t.static[p] = i
        <5>1. CASE i = k
          BY <4>2, <4>3, <5>1
        <5>2. CASE i \in 1 .. k - 1 /\ \E j \in 1 .. m : t.dynamic[j].entry = i
          BY <4>1, <4>3, <5>2
        <5> QED
          BY <4>3, <4>7, <5>1, <5>2
      <4>10. \A p \in D : t.static[p] \in 1 .. k
        BY <4>2, <4>7
      <4>11. \A i \in 1 .. k : \/ \E j \in 1 .. m + 1 : dynamic[j].entry = i
                               \/ \E p \in D : t.static[p] = i
        BY <4>9
      <4>12. /\ DOMAIN u.dynamic = 1 .. m + 1 /\ DOMAIN u.static = D
             /\ u.dynamic = dynamic /\ u.static = t.static
        BY <1>5, <1>10, <3>1
      <4> QED
        BY ONLY <4>5, <4>6, <4>7, <4>8, <4>10, <4>11, <4>12, SMT DEF Holds
    <3> QED
      BY <1>1, <1>14, <3>2, <3>3
  <2> QED
    BY <2>1, <2>2, <2>3
<1> QED
  BY <1>1, <1>12, <1>13, <1>14


(* Inserting an entry adds what it is parsed into, or nothing.             *)
LEMMA InsertedFaithful ==
  ASSUME NEW n \in Nat, NEW F, NEW X, NEW entries, NEW t \in Tables(n, F, X, entries),
         NEW k \in 1 .. n, NEW f \in F, f.kind \in Kinds, NEW R, R[k] = f, Faithful(t, R, k - 1)
  PROVE  Faithful(Routing!Inserted(t, f, k), R, k)
<1>1. PICK u : u = Routing!Inserted(t, f, k)
  OBVIOUS
<1>2. PICK spelled : spelled = Routing!Text(f.path)
  OBVIOUS
<1>3. PICK D \in SUBSET X : t.static \in [D -> 1 .. n]
  BY DEF Tables
<1>4. PICK static : static = [p \in D \cup {spelled} |-> IF p = spelled THEN k ELSE t.static[p]]
  OBVIOUS
<1>5. static = Routing!WithStatic(t.static, spelled, k) /\ DOMAIN t.static = D
  BY <1>2, <1>3, <1>4 DEF Routing!WithStatic
<1>6. PICK route : route = [route |-> f, entry |-> k]
  OBVIOUS
<1>7. PICK dynamic : dynamic = Append(t.dynamic, route)
  OBVIOUS
<1>8. PICK m : m = Len(t.dynamic)
  OBVIOUS
<1>9. /\ m \in Nat /\ DOMAIN t.dynamic = 1 .. m
      /\ DOMAIN dynamic = 1 .. m + 1 /\ dynamic[m + 1] = route
      /\ \A i \in 1 .. m : dynamic[i] = t.dynamic[i]
  <2>1. route \in [route : F, entry : 1 .. n] /\ t.dynamic \in Seq([route : F, entry : 1 .. n])
    BY <1>6 DEF Tables
  <2> QED
    BY ONLY <1>7, <1>8, <2>1
<1>10. \A i \in 1 .. k - 1 : i < k /\ i \in 1 .. k
  OBVIOUS
<1>11. /\ \A i \in 1 .. m : /\ t.dynamic[i].entry \in 1 .. k - 1
                            /\ t.dynamic[i].route = R[t.dynamic[i].entry]
                            /\ t.dynamic[i].route.kind = "dynamic"
       /\ \A i, j \in 1 .. m : i < j => t.dynamic[i].entry < t.dynamic[j].entry
       /\ \A p \in D : /\ t.static[p] \in 1 .. k - 1
                       /\ R[t.static[p]].kind = "static"
                       /\ Routing!Text(R[t.static[p]].path) = p
  BY ONLY Faithful(t, R, k - 1), <1>5, <1>9 DEF Faithful
<1>12. t = [state |-> t.state, static |-> t.static, dynamic |-> t.dynamic, entries |-> entries]
  BY DEF Tables
<1>13. \/ u.static = t.static /\ u.dynamic = t.dynamic
       \/ u.static = static /\ u.dynamic = t.dynamic /\ f.kind = "static"
       \/ u.static = t.static /\ u.dynamic = dynamic /\ f.kind = "dynamic"
  <2>1. \/ u = t
        \/ u = [t EXCEPT !.state = f.kind]
        \/ u = [t EXCEPT !.state = "conflict"]
        \/ u = [t EXCEPT !.static = static] /\ f.kind = "static"
        \/ u = [t EXCEPT !.dynamic = dynamic] /\ f.kind = "dynamic"
    BY <1>1, <1>2, <1>5, <1>6, <1>7 DEF Routing!Inserted, Kinds
  <2> QED
    BY ONLY <1>12, <2>1
<1> DEFINE Dynamic(d) == \A i \in DOMAIN d : /\ d[i].entry \in 1 .. k
                                               /\ d[i].route = R[d[i].entry]
                                               /\ d[i].route.kind = "dynamic"
           Rising(d) == \A i, j \in DOMAIN d : i < j => d[i].entry < d[j].entry
           Static(s) == \A p \in DOMAIN s : /\ s[p] \in 1 .. k
                                            /\ R[s[p]].kind = "static"
                                            /\ Routing!Text(R[s[p]].path) = p
<1>14. ASSUME NEW b \in Nat, DOMAIN u.dynamic = 1 .. b,
              Dynamic(u.dynamic), Rising(u.dynamic), Static(u.static)
       PROVE  Faithful(u, R, k)
  BY ONLY <1>14, Zenon DEF Faithful
<1>15. Dynamic(t.dynamic) /\ Rising(t.dynamic) /\ Static(t.static)
  BY ONLY <1>5, <1>9, <1>10, <1>11
<1> HIDE DEF Dynamic, Rising, Static
<1>16. CASE u.static = t.static /\ u.dynamic = t.dynamic
  <2>1. /\ DOMAIN u.dynamic = 1 .. m /\ m \in Nat
        /\ Dynamic(u.dynamic) /\ Rising(u.dynamic) /\ Static(u.static)
    BY ONLY <1>9, <1>16, <1>15
  <2> QED
    BY ONLY <1>1, <1>14, <2>1
<1>17. CASE u.static = static /\ u.dynamic = t.dynamic /\ f.kind = "static"
  <2>1. \A p \in D \cup {spelled} : /\ static[p] \in 1 .. k
                                    /\ R[static[p]].kind = "static"
                                    /\ Routing!Text(R[static[p]].path) = p
    <3> SUFFICES ASSUME NEW p \in D \cup {spelled}
                 PROVE  /\ static[p] \in 1 .. k
                        /\ R[static[p]].kind = "static"
                        /\ Routing!Text(R[static[p]].path) = p
      OBVIOUS
    <3>1. CASE p = spelled
      BY <1>2, <1>4, <1>17, <3>1
    <3>2. CASE p # spelled
      BY <1>4, <1>10, <1>11, <3>2
    <3> QED
      BY <3>1, <3>2
  <2>2. DOMAIN static = D \cup {spelled}
    BY ONLY <1>4
  <2>3. Static(static)
    BY ONLY <2>1, <2>2 DEF Static
  <2>4. /\ DOMAIN u.dynamic = 1 .. m /\ m \in Nat
        /\ Dynamic(u.dynamic) /\ Rising(u.dynamic) /\ Static(u.static)
    BY ONLY <1>9, <1>17, <1>15, <2>3
  <2> QED
    BY ONLY <1>1, <1>14, <2>4
<1>18. CASE u.static = t.static /\ u.dynamic = dynamic /\ f.kind = "dynamic"
  <2>1. \A i \in 1 .. m + 1 : i \in 1 .. m \/ i = m + 1
    BY ONLY <1>9
  <2>2. route.entry = k /\ route.route = R[k] /\ route.route.kind = "dynamic" /\ k \in 1 .. k
    BY <1>6, <1>18
  <2>3. \A i \in 1 .. m + 1 : /\ dynamic[i].entry \in 1 .. k
                              /\ dynamic[i].route = R[dynamic[i].entry]
                              /\ dynamic[i].route.kind = "dynamic"
    BY ONLY <1>9, <1>10, <1>11, <2>1, <2>2
  <2>4. ASSUME NEW i \in 1 .. m + 1, NEW j \in 1 .. m + 1, i < j
        PROVE  dynamic[i].entry < dynamic[j].entry
    <3>1. i \in 1 .. m /\ (j \in 1 .. m \/ j = m + 1)
      BY ONLY <1>9, <2>4
    <3>2. t.dynamic[i].entry < k
      BY ONLY <1>10, <1>11, <3>1
    <3> QED
      BY ONLY <1>9, <1>11, <2>2, <2>4, <3>1, <3>2
  <2>5. m + 1 \in Nat /\ Dynamic(dynamic) /\ Rising(dynamic)
    BY ONLY <1>9, <2>3, <2>4 DEF Dynamic, Rising
  <2>6. /\ DOMAIN u.dynamic = 1 .. m + 1
        /\ Dynamic(u.dynamic) /\ Rising(u.dynamic) /\ Static(u.static)
    BY ONLY <1>9, <1>18, <1>15, <2>5
  <2> QED
    BY ONLY <1>1, <1>14, <2>5, <2>6
<1> QED
  BY ONLY <1>1, <1>13, <1>16, <1>17, <1>18

(* So all of them are in a table that is built.                            *)
LEMMA TableHoldsAll ==
  ASSUME NEW S, NEW entries \in Seq(S), NEW prefix
  PROVE  /\ Routing!Table(prefix, entries).entries = entries
         /\ DOMAIN entries = 1 .. Len(entries)
         /\ Routing!Table(prefix, entries).state = "ok" =>
              Holds(Routing!Table(prefix, entries), Len(entries))
         /\ Faithful(Routing!Table(prefix, entries),
                     [i \in DOMAIN entries |-> Routing!Parse(prefix, entries[i])], Len(entries))
<1> DEFINE F == {Routing!Parse(prefix, entries[i]) : i \in DOMAIN entries}
           X == {Routing!Text(f.path) : f \in F}
           base == [Routing!NoTable EXCEPT !.state = "ok", !.entries = entries]
           Grown(t, i) == Routing!Inserted(t, Routing!Parse(prefix, entries[i]), i)
           IsIt(it) == it = [t \in SUBSET DOMAIN [i \in DOMAIN entries |-> i] |->
                               IF t = {} THEN base
                               ELSE Grown(it[t \ {Max(t)}], [i \in DOMAIN entries |-> i][Max(t)])]
           chosen == CHOOSE it : IsIt(it)
<1>0. PICK R : R = [i \in DOMAIN entries |-> Routing!Parse(prefix, entries[i])]
  OBVIOUS
<1>1. PICK n : n = Len(entries)
  OBVIOUS
<1>2. PICK V : V = Tables(n, F, X, entries)
  OBVIOUS
<1>3. PICK step : step = [x \in V \X (1 .. n) |-> Grown(x[1], x[2])]
  OBVIOUS
<1>4. n \in Nat /\ DOMAIN entries = 1 .. n
  BY <1>1
<1>5. ASSUME NEW t \in V, NEW k \in 1 .. n
      PROVE  /\ Grown(t, k) \in V
             /\ Faithful(t, R, k - 1) => Faithful(Grown(t, k), R, k)
             /\ t.state = "ok" /\ Holds(t, k - 1) /\ Grown(t, k).state = "ok" => Holds(Grown(t, k), k)
             /\ t.state # "ok" => Grown(t, k) = t
  <2>1. PICK f : f = Routing!Parse(prefix, entries[k])
    OBVIOUS
  <2>2. f \in F /\ Routing!Text(f.path) \in X
    BY <1>4, <2>1
  <2>3. f.kind \in Kinds
    BY <2>1, ParsedKinds DEF Routing!Parse
  <2> HIDE DEF F, X
  <2>4. /\ Routing!Inserted(t, f, k) \in V
        /\ t.state = "ok" /\ Holds(t, k - 1) /\ Routing!Inserted(t, f, k).state = "ok"
             => Holds(Routing!Inserted(t, f, k), k)
        /\ t.state # "ok" => Routing!Inserted(t, f, k) = t
    BY <1>2, <1>4, <2>2, <2>3, InsertedOnce
  <2>5. R[k] = f
    BY <1>0, <1>4, <2>1
  <2>6. Faithful(t, R, k - 1) => Faithful(Routing!Inserted(t, f, k), R, k)
    BY ONLY <1>2, <1>4, <2>2, <2>3, <2>5, t \in V, k \in 1 .. n, InsertedFaithful, Zenon
  <2> QED
    BY <2>1, <2>4, <2>6
<1>6. Routing!Table(prefix, entries) = chosen[DOMAIN [i \in DOMAIN entries |-> i]]
  BY DEF Routing!Table, Routing!FoldLeft, Routing!MapThenFoldSet, Routing!Max, Max
<1> HIDE DEF F, X, Grown
<1>7. base = [state |-> "ok", static |-> <<>>, dynamic |-> <<>>, entries |-> entries]
  <2>1. Routing!NoTable = [state |-> "none", static |-> <<>>, dynamic |-> <<>>, entries |-> <<>>]
    BY DEF Routing!NoTable
  <2>2. PICK ok : ok = [Routing!NoTable EXCEPT !.state = "ok"]
    OBVIOUS
  <2>3. ok = [state |-> "ok", static |-> <<>>, dynamic |-> <<>>, entries |-> <<>>]
    BY <2>1, <2>2
  <2>4. base = [ok EXCEPT !.entries = entries]
    BY <2>2
  <2> HIDE DEF base
  <2> QED
    BY <2>3, <2>4
<1> HIDE DEF base
<1>8. base \in V
  <2>1. <<>> \in [{} -> 1 .. n] /\ {} \in SUBSET X
    OBVIOUS
  <2>2. <<>> \in UNION {[D -> 1 .. n] : D \in SUBSET X}
    BY <2>1
  <2>3. <<>> \in Seq([route : F, entry : 1 .. n])
    OBVIOUS
  <2> QED
    BY <1>2, <1>7, <2>2, <2>3 DEF Tables
<1>9. Holds(base, 0) /\ base.state = "ok" /\ Faithful(base, R, 0)
  <2>1. base.static = <<>> /\ base.dynamic = <<>> /\ base.state = "ok"
    BY <1>7
  <2>2. (\A x : x \notin DOMAIN <<>>) /\ \A x : x \notin 1 .. 0
    OBVIOUS
  <2>3. DOMAIN <<>> = 1 .. 0 /\ 0 \in Nat
    OBVIOUS
  <2> QED
    BY <2>1, <2>2, <2>3 DEF Holds, Faithful
<1>10. step \in [V \X (1 .. n) -> V] /\ \A t \in V, k \in 1 .. n : step[<<t, k>>] = Grown(t, k)
  BY <1>3, <1>5
<1>11. PICK it : IsFold(it, n, V, base, step)
  BY ONLY <1>4, <1>8, <1>10, FoldExists
<1>12. DOMAIN [i \in DOMAIN entries |-> i] = 1 .. n /\ \A k \in 1 .. n : [i \in DOMAIN entries |-> i][k] = k
  BY <1>4
<1>13. IsIt(it)
  <2>1. ASSUME NEW t \in SUBSET (1 .. n), t # {}
        PROVE  it[t] = Grown(it[t \ {Max(t)}], [i \in DOMAIN entries |-> i][Max(t)])
    BY <1>10, <1>11, <1>12, <2>1 DEF IsFold
  <2> QED
    BY <1>11, <1>12, <2>1 DEF IsFold
<1>14. IsIt(chosen)
  BY <1>13
<1>15. PICK g : g = chosen
  OBVIOUS
<1>16. /\ g[{}] = base
       /\ \A t \in SUBSET (1 .. n) : t # {} /\ Max(t) \in 1 .. n => g[t] = Grown(g[t \ {Max(t)}], Max(t))
  BY <1>12, <1>14, <1>15
<1>17. Follows(g, n, V, base, step)
  BY <1>10, <1>16 DEF Follows
<1>18. PICK tr : IsTrace(tr, g, n, V, base, step)
  BY ONLY <1>4, <1>8, <1>10, <1>17, FoldSteps
<1>19. PICK T : T = {k \in 0 .. n : (tr[k].state = "ok" => Holds(tr[k], k)) /\ Faithful(tr[k], R, k)}
  OBVIOUS
<1>20. 0 \in T
  BY <1>4, <1>9, <1>18, <1>19 DEF IsTrace
<1>21. ASSUME NEW k \in 0 .. n - 1, k \in T
       PROVE  k + 1 \in T
  <2>1. k + 1 \in 1 .. n /\ k + 1 \in 0 .. n /\ (k + 1) - 1 = k /\ k \in 0 .. n
    BY <1>4
  <2>2. PICK t : t = tr[k]
    OBVIOUS
  <2>3. /\ t \in V /\ tr[k + 1] = Grown(t, k + 1)
        /\ (t.state = "ok" => Holds(t, k)) /\ Faithful(t, R, k)
    BY <1>10, <1>18, <1>19, <1>21, <2>1, <2>2 DEF IsTrace
  <2>4. /\ t.state = "ok" /\ Holds(t, k) /\ Grown(t, k + 1).state = "ok"
             => Holds(Grown(t, k + 1), k + 1)
        /\ t.state # "ok" => Grown(t, k + 1) = t
        /\ Faithful(Grown(t, k + 1), R, k + 1)
    BY <1>5, <2>1, <2>3
  <2>5. (tr[k + 1].state = "ok" => Holds(tr[k + 1], k + 1)) /\ Faithful(tr[k + 1], R, k + 1)
    BY <2>3, <2>4
  <2> QED
    BY <1>19, <2>1, <2>5
<1>22. 0 .. n \subseteq T
  BY <1>4, <1>20, <1>21, Induction
<1>23. n \in 0 .. n /\ tr[n] \in V /\ tr[n] = Routing!Table(prefix, entries)
  BY <1>4, <1>6, <1>12, <1>15, <1>18 DEF IsTrace
<1>24. (tr[n].state = "ok" => Holds(tr[n], n)) /\ Faithful(tr[n], R, n)
  BY <1>19, <1>22, <1>23
<1> QED
  BY <1>0, <1>1, <1>2, <1>4, <1>23, <1>24 DEF Tables

(* What the induction gives of a table that is built.                      *)
BuiltWhole ==
  table.state = "ok" => \E n \in Nat : DOMAIN table.entries = 1 .. n /\ Holds(table, n)

(* That is what NoEndpointReplaced says of a table that is built.          *)
LEMMA HoldsAll == BuiltWhole => Routing!NoEndpointReplaced
<1> SUFFICES ASSUME BuiltWhole PROVE Routing!NoEndpointReplaced
  OBVIOUS
<1> SUFFICES ASSUME table.state = "ok"
             PROVE  LET placed == [i \in DOMAIN table.dynamic |-> table.dynamic[i].entry]
                        statics == [p \in DOMAIN table.static |-> table.static[p]]
                    IN  /\ Routing!IsInjective(placed) /\ Routing!IsInjective(statics)
                        /\ Routing!ToSet(placed) \cap Routing!Range(statics) = {}
                        /\ Routing!ToSet(placed) \cup Routing!Range(statics) = DOMAIN table.entries
  BY DEF Routing!NoEndpointReplaced
<1>1. PICK n \in Nat : DOMAIN table.entries = 1 .. n /\ Holds(table, n)
  BY DEF BuiltWhole
<1>2. PICK placed : placed = [i \in DOMAIN table.dynamic |-> table.dynamic[i].entry]
  OBVIOUS
<1>3. PICK statics : statics = [p \in DOMAIN table.static |-> table.static[p]]
  OBVIOUS
<1>4. /\ DOMAIN placed = DOMAIN table.dynamic
      /\ \A i \in DOMAIN table.dynamic : placed[i] = table.dynamic[i].entry
  BY <1>2
<1>5. /\ DOMAIN statics = DOMAIN table.static
      /\ \A p \in DOMAIN table.static : statics[p] = table.static[p]
  BY <1>3
<1>6. Routing!IsInjective(placed) /\ Routing!IsInjective(statics)
  BY <1>1, <1>4, <1>5 DEF Holds, Routing!IsInjective
<1>7. \A k : k \in Routing!ToSet(placed) <=> \E i \in DOMAIN table.dynamic : k = table.dynamic[i].entry
  BY <1>4 DEF Routing!ToSet
<1>8. \A k : k \in Routing!Range(statics) <=> \E p \in DOMAIN table.static : k = table.static[p]
  BY <1>5 DEF Routing!Range
<1>9. Routing!ToSet(placed) \cap Routing!Range(statics) = {}
  BY <1>1, <1>7, <1>8 DEF Holds
<1>10. \A k : k \in Routing!ToSet(placed) \cup Routing!Range(statics) <=> k \in 1 .. n
  BY <1>1, <1>7, <1>8 DEF Holds
<1> QED
  BY <1>1, <1>2, <1>3, <1>6, <1>9, <1>10

-----------------------------------------------------------------------------
(* The paths of routes. Routers parse them as matching does.               *)
LEMMA SameTrimmed ==
  /\ Routing!Slash = Matcher!Slash
  /\ \A s, slash : Routing!Trimmed(s, slash) = Matcher!Trimmed(s, slash)
  /\ \A s, slash : Routing!Standardized(s, slash) = Matcher!Standardized(s, slash)
<1>1. Routing!Slash = Matcher!Slash
  BY DEF Routing!Slash, Matcher!Slash, Routing!Char, Matcher!Char, Routing!Piece, Matcher!Piece
<1>2. \A s, slash : Routing!Trimmed(s, slash) = Matcher!Trimmed(s, slash)
  BY DEF Routing!Trimmed, Matcher!Trimmed, Routing!Min, Matcher!Min, Routing!Max, Matcher!Max
<1>3. \A s, slash : Routing!Standardized(s, slash) = Matcher!Standardized(s, slash)
  BY <1>2 DEF Routing!Standardized, Matcher!Standardized
<1> QED
  BY <1>1, <1>2, <1>3

(* The helpers are the same,                                               *)
LEMMA SameHelpers ==
  /\ \A s, places : Routing!NamesAt(s, places) = Matcher!NamesAt(s, places)
  /\ \A p, i : Routing!IsVariable(p, i) <=> Matcher!IsVariable(p, i)
  /\ \A x : Routing!Spelled(x) = Matcher!Spelled(x)
  /\ \A g, x, y : Routing!Part(g, x, y) = Matcher!Part(g, x, y)
  /\ \A s, t : Routing!IsPrefix(s, t) <=> Matcher!IsPrefix(s, t)
  /\ \A s : Routing!IsInjective(s) <=> Matcher!IsInjective(s)
  /\ \A s : Routing!ToSet(s) = Matcher!ToSet(s)
  /\ \A s : Routing!Min(s) = Matcher!Min(s)
<1>1. \A s, set : Routing!Only(s, set) = Matcher!Only(s, set)
  BY DEF Routing!Only, Matcher!Only, Routing!FoldLeft, Matcher!FoldLeft,
         Routing!MapThenFoldSet, Matcher!MapThenFoldSet, Routing!Max, Matcher!Max
<1>2. \A s, places : Routing!NamesAt(s, places) = Matcher!NamesAt(s, places)
  BY <1>1 DEF Routing!NamesAt, Matcher!NamesAt
<1>3. \A p, i : Routing!IsVariable(p, i) <=> Matcher!IsVariable(p, i)
  BY SameTrimmed DEF Routing!IsVariable, Matcher!IsVariable
<1>4. \A x : Routing!Spelled(x) = Matcher!Spelled(x)
  BY DEF Routing!Spelled, Matcher!Spelled
<1>5. \A g, x, y : Routing!Part(g, x, y) = Matcher!Part(g, x, y)
  BY DEF Routing!Part, Matcher!Part
<1>6. \A s, t : Routing!IsPrefix(s, t) <=> Matcher!IsPrefix(s, t)
  BY DEF Routing!IsPrefix, Matcher!IsPrefix
<1>7. \A s : Routing!IsInjective(s) <=> Matcher!IsInjective(s)
  BY DEF Routing!IsInjective, Matcher!IsInjective
<1>8. \A s : Routing!ToSet(s) = Matcher!ToSet(s)
  BY DEF Routing!ToSet, Matcher!ToSet
<1>9. \A s : Routing!Min(s) = Matcher!Min(s)
  BY DEF Routing!Min, Matcher!Min
<1> QED
  BY <1>2, <1>3, <1>4, <1>5, <1>6, <1>7, <1>8, <1>9

(* and so is what is made with them.                                       *)
LEMMA SamePatterns ==
  /\ \A p : Routing!Wildcards(p) = Matcher!Wildcards(p)
  /\ \A p : Routing!Variables(p) = Matcher!Variables(p)
  /\ \A p : Routing!Pattern(p) = Matcher!Pattern(p)
  /\ \A q : Routing!Groups(q) = Matcher!Groups(q)
  /\ \A q : Routing!Builds(q) <=> Matcher!Builds(q)
  /\ \A names : Routing!NameError(names) = Matcher!NameError(names)
  /\ \A p : Routing!Holes(p) = Matcher!Holes(p)
  /\ \A p : Routing!Declared(p) = Matcher!Declared(p)
<1>1. \A p : Routing!Wildcards(p) = Matcher!Wildcards(p)
  BY SameHelpers DEF Routing!Wildcards, Matcher!Wildcards
<1>2. \A p : Routing!Variables(p) = Matcher!Variables(p)
  BY SameHelpers DEF Routing!Variables, Matcher!Variables
<1>3. \A x, vs : Routing!Rewritten(x, vs) = Matcher!Rewritten(x, vs)
  BY SameHelpers DEF Routing!Rewritten, Matcher!Rewritten
<1>4. \A p : Routing!Pattern(p) = Matcher!Pattern(p)
  BY <1>2, <1>3 DEF Routing!Pattern, Matcher!Pattern
<1>5. \A q : Routing!Groups(q) = Matcher!Groups(q)
  BY SameHelpers DEF Routing!Groups, Matcher!Groups
<1>6. \A q : Routing!Builds(q) <=> Matcher!Builds(q)
  BY <1>5, SameHelpers DEF Routing!Builds, Matcher!Builds
<1>7. \A names : Routing!NameError(names) = Matcher!NameError(names)
  BY SameHelpers DEF Routing!NameError, Matcher!NameError
<1>8. \A p : Routing!Holes(p) = Matcher!Holes(p)
  BY SameTrimmed DEF Routing!Holes, Matcher!Holes
<1>9. \A p : Routing!Declared(p) = Matcher!Declared(p)
  BY <1>8 DEF Routing!Declared, Matcher!Declared
<1> QED
  BY <1>1, <1>2, <1>4, <1>5, <1>6, <1>7, <1>8, <1>9

(* So is what from_str makes of a path.                                    *)
LEMMA SameFromStr == \A raw : Routing!FromStr(raw) = Matcher!FromStr(raw)
<1> SUFFICES ASSUME NEW raw PROVE Routing!FromStr(raw) = Matcher!FromStr(raw)
  OBVIOUS
<1>1. \A k, x, y, z : Routing!Parsed(k, x, y, z) = Matcher!Parsed(k, x, y, z)
  BY DEF Routing!Parsed, Matcher!Parsed
<1>2. \A q : Routing!Anchored(q) = Matcher!Anchored(q)
  BY SameHelpers DEF Routing!Anchored, Matcher!Anchored, Routing!End, Matcher!End
<1>3. PICK p : p = Matcher!Standardized(raw, Matcher!Slash) /\ p = Routing!Standardized(raw, Routing!Slash)
  BY SameTrimmed
<1>4. PICK names : /\ names = Matcher!Wildcards(p) \o Matcher!Variables(p)
                   /\ names = Routing!Wildcards(p) \o Routing!Variables(p)
  BY SamePatterns
<1>5. PICK q : q = Matcher!Pattern(p) /\ q = Routing!Pattern(p)
  BY SamePatterns
<1> QED
  BY <1>1, <1>2, <1>3, <1>4, <1>5, SamePatterns, SameHelpers, Zenon
  DEF Routing!FromStr, Matcher!FromStr

(* What is trimmed to, from a to b.                                        *)
Trims(s, slash, a, b) ==
  /\ a \in DOMAIN s /\ b \in DOMAIN s /\ a <= b /\ s[a] # slash /\ s[b] # slash
  /\ \A i \in DOMAIN s : i < a \/ i > b => s[i] = slash
  /\ Matcher!Trimmed(s, slash) = SubSeq(s, a, b)

AllSlashes(s, slash) == Matcher!Trimmed(s, slash) = <<>> /\ \A i \in DOMAIN s : s[i] = slash

(* Every sequence is one of these.                                         *)
LEMMA TrimmedFrom ==
  ASSUME NEW E, NEW s, s \in Seq(E), NEW slash
  PROVE  AllSlashes(s, slash) \/ \E a, b : Trims(s, slash, a, b)
<1>1. ASSUME NEW a \in DOMAIN s, NEW b \in DOMAIN s,
             /\ a <= b /\ s[a] # slash /\ s[b] # slash
             /\ \A i \in DOMAIN s : i < a \/ i > b => s[i] = slash
             /\ Matcher!Trimmed(s, slash) = SubSeq(s, a, b)
      PROVE  Trims(s, slash, a, b)
  BY <1>1 DEF Trims
<1> QED
  BY <1>1, TrimmedIs DEF AllSlashes

(* Nothing to trim is left of what was trimmed.                            *)
Bare(u, slash) == u = <<>> \/ (u[1] # slash /\ u[Len(u)] # slash)

(* That is so of what is trimmed.                                          *)
LEMMA TrimmedIsBare ==
  ASSUME NEW E, NEW s, s \in Seq(E), NEW slash
  PROVE  Bare(Matcher!Trimmed(s, slash), slash)
<1>1. ASSUME NEW a, a \in DOMAIN s, NEW b, b \in DOMAIN s, a <= b, s[a] # slash, s[b] # slash
      PROVE  Bare(SubSeq(s, a, b), slash)
  <2>1. PICK u : u = SubSeq(s, a, b)
    OBVIOUS
  <2>2. a \in Nat /\ b \in Nat /\ a \in 1 .. Len(s) /\ b \in 1 .. Len(s) /\ a <= b
    BY ONLY <1>1, s \in Seq(E)
  <2>3. u[1] = s[a] /\ u[Len(u)] = s[b]
    BY ONLY <2>1, <2>2, s \in Seq(E)
  <2> QED
    BY ONLY <1>1, <2>1, <2>3 DEF Bare
<1>2. CASE Matcher!Trimmed(s, slash) = <<>>
  BY ONLY <1>2 DEF Bare
<1>3. CASE Matcher!Trimmed(s, slash) # <<>>
  <2>1. PICK a, b : Trims(s, slash, a, b)
    BY ONLY <1>3, s \in Seq(E), TrimmedFrom, Zenon DEF AllSlashes
  <2> QED
    BY <1>1, <2>1 DEF Trims
<1> QED
  BY <1>2, <1>3

(* Trimming takes off whatever slashes are put around such a path.         *)
With(u, slash) == {u, <<slash>> \o u, <<slash>> \o u \o <<slash>>}

(* They are taken off again.                                               *)
LEMMA TrimmedAgain ==
  ASSUME NEW E, NEW slash, slash \in E, NEW u, u \in Seq(E), Bare(u, slash),
         NEW v, v \in With(u, slash)
  PROVE  Matcher!Trimmed(v, slash) = u
<1>1. v \in Seq(E)
  <2>1. <<slash>> \o u \in Seq(E) /\ <<slash>> \o u \o <<slash>> \in Seq(E)
    BY ONLY slash \in E, u \in Seq(E)
  <2> QED
    BY ONLY <2>1, u \in Seq(E), v \in With(u, slash) DEF With
<1>2. PICK l, n : l = (IF v = u THEN 0 ELSE 1) /\ n = Len(u)
  OBVIOUS
<1>3. n \in Nat /\ l \in {0, 1} /\ DOMAIN u = 1 .. n
  BY ONLY <1>2, u \in Seq(E)
<1>4. /\ \A i \in 1 .. n : l + i \in DOMAIN v /\ v[l + i] = u[i]
      /\ \A i \in DOMAIN v : i <= l \/ i > l + n => v[i] = slash
      /\ \A i \in DOMAIN v : i \in Nat
      /\ SubSeq(v, l + 1, l + n) = u
  <2>1. CASE v = u
    <3>1. l = 0 /\ v \in Seq(E) /\ Len(v) = n
      BY ONLY <1>2, <2>1, u \in Seq(E)
    <3> QED
      BY ONLY <1>3, <2>1, <3>1
  <2>2. CASE v # u
    <3>1. l = 1
      BY ONLY <1>2, <2>2
    <3>2. v = <<slash>> \o u \/ v = <<slash>> \o u \o <<slash>>
      BY ONLY <2>2, v \in With(u, slash) DEF With
    <3> QED
      BY ONLY <1>2, <1>3, <3>1, <3>2, u \in Seq(E), slash \in E
  <2> QED
    BY ONLY <2>1, <2>2
<1>5. CASE u = <<>>
  <2>1. \A i \in DOMAIN v : v[i] = slash
    BY ONLY <1>2, <1>3, <1>4, <1>5
  <2>2. Matcher!Trimmed(v, slash) = <<>>
    BY ONLY <2>1, <1>1, TrimmedFrom DEF AllSlashes, Trims
  <2> QED
    BY ONLY <1>5, <2>2
<1>6. CASE u # <<>>
  <2>1. n >= 1
    BY ONLY <1>2, <1>6, u \in Seq(E)
  <2>2. u[1] # slash /\ u[n] # slash
    BY ONLY <1>2, <1>6, Bare(u, slash) DEF Bare
  <2>3. l + 1 \in DOMAIN v /\ l + n \in DOMAIN v /\ v[l + 1] # slash /\ v[l + n] # slash
    BY ONLY <1>3, <1>4, <2>1, <2>2
  <2>4. ~\A i \in DOMAIN v : v[i] = slash
    BY ONLY <2>3
  <2>5. PICK a, b : Trims(v, slash, a, b)
    BY ONLY <1>1, <2>4, TrimmedFrom, Zenon DEF AllSlashes
  <2>6. /\ a \in DOMAIN v /\ b \in DOMAIN v /\ a <= b /\ v[a] # slash /\ v[b] # slash
        /\ \A i \in DOMAIN v : i < a \/ i > b => v[i] = slash
        /\ Matcher!Trimmed(v, slash) = SubSeq(v, a, b)
    BY ONLY <2>5 DEF Trims
  <2>7. a = l + 1 /\ b = l + n
    <3>1. a \in Nat /\ b \in Nat /\ l + 1 \in Nat /\ l + n \in Nat
      BY ONLY <1>3, <1>4, <2>6
    <3>2. ~(l + 1 < a) /\ ~(l + n > b)
      BY ONLY <2>3, <2>6
    <3>3. ~(a <= l) /\ ~(b > l + n)
      BY ONLY <1>4, <2>6
    <3> QED
      BY ONLY <1>3, <3>1, <3>2, <3>3
  <2> QED
    BY ONLY <1>4, <2>6, <2>7
<1> QED
  BY <1>5, <1>6

(* A slash and the path after it, unless there is none.                    *)
Placed(u, slash) == IF u = <<>> THEN <<>> ELSE <<slash>> \o u

Paired(u, v, slash) == IF u = <<>> \/ v = <<>> THEN u \o v ELSE u \o <<slash>> \o v

(* Two paths with one slash between them have no slash around them.        *)
LEMMA PairedIs ==
  ASSUME NEW E, NEW slash, slash \in E, NEW u, u \in Seq(E), Bare(u, slash),
         NEW v, v \in Seq(E), Bare(v, slash)
  PROVE  /\ Paired(u, v, slash) \in Seq(E) /\ Bare(Paired(u, v, slash), slash)
         /\ Placed(Paired(u, v, slash), slash) = Placed(u, slash) \o Placed(v, slash)
<1>1. PICK w : w = Paired(u, v, slash)
  OBVIOUS
<1>2. <<slash>> \in Seq(E)
  BY ONLY slash \in E
<1>3. CASE u = <<>>
  <2>1. \A x \in Seq(E) : <<>> \o x = x
    OBVIOUS
  <2>2. w = v
    BY <1>1, <1>3, <2>1 DEF Paired
  <2>3. Placed(v, slash) \in Seq(E)
    <3>1. <<slash>> \o v \in Seq(E) /\ <<>> \in Seq(E)
      BY ONLY <1>2, v \in Seq(E)
    <3> QED
      BY ONLY <3>1 DEF Placed
  <2>4. Placed(u, slash) = <<>>
    BY ONLY <1>3 DEF Placed
  <2> QED
    BY <1>1, <2>1, <2>2, <2>3, <2>4
<1>4. CASE v = <<>>
  <2>1. \A x \in Seq(E) : x \o <<>> = x
    OBVIOUS
  <2>2. w = u
    BY <1>1, <1>4, <2>1 DEF Paired
  <2>3. Placed(u, slash) \in Seq(E)
    <3>1. <<slash>> \o u \in Seq(E) /\ <<>> \in Seq(E)
      BY ONLY <1>2, u \in Seq(E)
    <3> QED
      BY ONLY <3>1 DEF Placed
  <2>4. Placed(v, slash) = <<>>
    BY ONLY <1>4 DEF Placed
  <2> QED
    BY <1>1, <2>1, <2>2, <2>3, <2>4
<1>5. CASE u # <<>> /\ v # <<>>
  <2>1. PICK a, b : a = <<slash>> \o u /\ b = <<slash>> \o v
    OBVIOUS
  <2>2. a \in Seq(E) /\ b \in Seq(E)
    BY ONLY <1>2, <2>1, u \in Seq(E), v \in Seq(E)
  <2>3. \A x \in Seq(E), y \in Seq(E), z \in Seq(E) : (x \o y) \o z = x \o (y \o z)
    BY ONLY Associative
  <2>4. w = u \o b
    <3>1. w = (u \o <<slash>>) \o v
      BY ONLY <1>1, <1>5 DEF Paired
    <3> QED
      BY ONLY <1>2, <2>1, <2>3, <3>1, u \in Seq(E), v \in Seq(E)
  <2>5. /\ w \in Seq(E) /\ Len(w) = Len(u) + (Len(v) + 1) /\ Len(u) >= 1 /\ Len(v) >= 1
        /\ w[1] = u[1] /\ w[Len(w)] = v[Len(v)] /\ w # <<>>
    <3>1. Len(u) \in Nat /\ Len(v) \in Nat /\ Len(u) # 0 /\ Len(v) # 0
      BY ONLY <1>5, u \in Seq(E), v \in Seq(E)
    <3>2. Len(b) = Len(v) + 1 /\ b[Len(v) + 1] = v[Len(v)]
      BY ONLY <2>1, <3>1, slash \in E, v \in Seq(E)
    <3>3. PICK m, n : m = Len(u) /\ n = Len(b)
      OBVIOUS
    <3>4. m \in Nat /\ n \in Nat /\ m >= 1 /\ n >= 1 /\ n = Len(v) + 1
      BY ONLY <3>1, <3>2, <3>3
    <3>5. w \in Seq(E) /\ Len(w) = m + n
      BY ONLY <2>2, <2>4, <3>3, u \in Seq(E)
    <3>6. w[1] = u[1]
      BY ONLY <2>2, <2>4, <3>3, <3>4, u \in Seq(E)
    <3>7. w[m + n] = b[n]
      <4>1. m + n \in m + 1 .. m + n /\ (m + n) - m = n
        BY ONLY <3>4
      <4>2. \A i \in m + 1 .. m + n : w[i] = b[i - m]
        BY ONLY <2>2, <2>4, <3>3, u \in Seq(E)
      <4> QED
        BY ONLY <4>1, <4>2
    <3>8. w # <<>>
      BY ONLY <3>4, <3>5
    <3>9. b[n] = v[Len(v)] /\ Len(w) = Len(u) + (Len(v) + 1)
      BY ONLY <3>2, <3>3, <3>4, <3>5
    <3> QED
      BY ONLY <3>3, <3>4, <3>5, <3>6, <3>7, <3>8, <3>9, <3>1
  <2>6. Bare(w, slash)
    BY ONLY <1>5, <2>5, Bare(u, slash), Bare(v, slash) DEF Bare
  <2>7. Placed(w, slash) = a \o b
    <3>1. Placed(w, slash) = <<slash>> \o (u \o b)
      BY ONLY <2>4, <2>5 DEF Placed
    <3>2. a \o b = <<slash>> \o (u \o b)
      BY ONLY <1>2, <2>1, <2>2, <2>3, u \in Seq(E)
    <3> QED
      BY ONLY <3>1, <3>2
  <2>8. Placed(u, slash) = a /\ Placed(v, slash) = b
    BY ONLY <1>5, <2>1 DEF Placed
  <2> QED
    BY ONLY <1>1, <2>5, <2>6, <2>7, <2>8
<1> QED
  BY <1>3, <1>4, <1>5

(* So the segments of paths add up as the paths that are joined do.        *)
LEMMA SegmentsJoin ==
  ASSUME NEW x, x \in Seq(PathPieces), NEW y, y \in Seq(PathPieces)
  PROVE  /\ Routing!Joined(x, y) \in Seq(PathPieces)
         /\ Routing!Segment(Routing!Joined(x, y)) = Routing!Segment(x) \o Routing!Segment(y)
<1>1. PICK slash : slash = Matcher!Slash /\ slash \in PathPieces
  BY PiecesTyped
<1>2. PICK u, v : u = Matcher!Trimmed(x, slash) /\ v = Matcher!Trimmed(y, slash)
  OBVIOUS
<1>3. u \in Seq(PathPieces) /\ v \in Seq(PathPieces) /\ Bare(u, slash) /\ Bare(v, slash)
  BY ONLY <1>2, x \in Seq(PathPieces), y \in Seq(PathPieces), TrimmedTyped, TrimmedIsBare
<1>4. PICK w : w = Paired(u, v, slash)
  OBVIOUS
<1>5. /\ w \in Seq(PathPieces) /\ Bare(w, slash)
      /\ Placed(w, slash) = Placed(u, slash) \o Placed(v, slash)
  BY ONLY <1>1, <1>3, <1>4, PairedIs, Zenon
<1>6. Routing!Joined(x, y) = w
  BY <1>1, <1>2, <1>4, SameTrimmed DEF Routing!Joined, Paired
<1>7. Matcher!Trimmed(w, slash) = w
  <2>1. w \in With(w, slash)
    BY DEF With
  <2> QED
    BY ONLY <1>1, <1>5, <2>1, TrimmedAgain, Zenon
<1>8. /\ Routing!Segment(x) = Placed(u, slash) /\ Routing!Segment(y) = Placed(v, slash)
      /\ Routing!Segment(w) = Placed(w, slash)
  BY <1>1, <1>2, <1>7, SameTrimmed DEF Routing!Segment, Placed
<1> QED
  BY ONLY <1>5, <1>6, <1>8

(* A path is parsed as what is left of it without the slashes around it;   *)
(* they may be taken off and a slash put before it again.                  *)
LEMMA TrimmedParses ==
  ASSUME NEW x, x \in Seq(PathPieces)
  PROVE  /\ Routing!Trimmed(Routing!Segment(x), Routing!Slash) = Routing!Trimmed(x, Routing!Slash)
         /\ Routing!Trimmed(x, Routing!Slash) \in Seq(PathPieces)
         /\ Routing!FromStr(Routing!Trimmed(x, Routing!Slash)) = Routing!FromStr(x)
         /\ Routing!Trimmed(Routing!Standardized(x, Routing!Slash), Routing!Slash)
              = Routing!Trimmed(x, Routing!Slash)
<1>1. PICK slash : slash = Routing!Slash /\ slash \in PathPieces
  BY PiecesTyped, SameTrimmed
<1>2. PICK u : u = Routing!Trimmed(x, slash)
  OBVIOUS
<1>3. u \in Seq(PathPieces) /\ Bare(u, slash)
  <2>1. Matcher!Trimmed(x, slash) \in Seq(PathPieces) /\ Bare(Matcher!Trimmed(x, slash), slash)
    BY ONLY x \in Seq(PathPieces), TrimmedTyped, TrimmedIsBare
  <2> QED
    BY ONLY <1>2, <2>1, SameTrimmed
<1>4. /\ Matcher!Trimmed(u, slash) = u /\ Matcher!Trimmed(<<slash>> \o u, slash) = u
      /\ Matcher!Trimmed(<<slash>> \o u \o <<slash>>, slash) = u
  <2>1. PICK a, b : a = <<slash>> \o u /\ b = <<slash>> \o u \o <<slash>>
    OBVIOUS
  <2>2. \A v : v \in With(u, slash) => Matcher!Trimmed(v, slash) = u
    BY ONLY <1>1, <1>3, TrimmedAgain, Zenon
  <2>3. u \in With(u, slash) /\ a \in With(u, slash) /\ b \in With(u, slash)
    BY ONLY <2>1 DEF With
  <2> QED
    BY ONLY <2>1, <2>2, <2>3, Zenon
<1>5. /\ Routing!Trimmed(u, slash) = u /\ Routing!Trimmed(<<slash>> \o u, slash) = u
      /\ Routing!Trimmed(<<slash>> \o u \o <<slash>>, slash) = u
  BY ONLY <1>4, SameTrimmed
<1>6. Routing!Segment(x) \in {u, <<slash>> \o u}
  BY <1>1, <1>2 DEF Routing!Segment
<1>7. /\ Routing!Standardized(u, slash) = Routing!Standardized(x, slash)
      /\ Routing!Standardized(x, slash) = <<slash>> \o u \o <<slash>>
  BY <1>2, <1>5 DEF Routing!Standardized
<1>8. Routing!FromStr(u) = Routing!FromStr(x)
  BY <1>1, <1>7 DEF Routing!FromStr
<1> QED
  BY <1>1, <1>2, <1>3, <1>5, <1>6, <1>7, <1>8

(* What a route says of the path that it was made from: it has this path   *)
(* with one slash at each end, and its captures are the declared variables.*)
RouteOf(route, p) ==
  /\ route.path = p /\ route.kind \in Kinds
  /\ route.kind = "static" => Routing!Declared(p) = {}
  /\ route.kind = "dynamic" =>
       \A x : x \in Routing!ToSet(Routing!Groups(route.pattern)) <=> x \in Routing!Declared(p)

(* That is so for what from_str makes of any path.                         *)
LEMMA RouteIs ==
  ASSUME NEW raw, raw \in Seq(PathPieces)
  PROVE  RouteOf(Routing!FromStr(raw), Routing!Standardized(raw, Routing!Slash))
<1>1. PICK route : route = Routing!FromStr(raw) /\ route = Matcher!FromStr(raw)
  BY SameFromStr
<1>2. PICK p : /\ p = Matcher!Standardized(raw, Matcher!Slash) /\ Framed(p)
               /\ route.path = p /\ route.kind \in {"static", "dynamic", "missing", "conflict", "panic"}
               /\ route.kind = "static" => Matcher!Holes(p) = {}
               /\ route.kind = "dynamic" =>
                    IsPatternOf(route.pattern, p) /\ NoNameTwice(p, Matcher!Holes(p))
  BY ONLY <1>1, raw \in Seq(PathPieces), FromStrIs
<1>3. ASSUME route.kind = "static" PROVE Routing!Declared(p) = {}
  BY <1>2, <1>3, SamePatterns DEF Matcher!Declared
<1>4. ASSUME route.kind = "dynamic", NEW x
      PROVE  x \in Routing!ToSet(Routing!Groups(route.pattern)) <=> x \in Routing!Declared(p)
  <2>1. PICK q : q = route.pattern /\ IsPatternOf(q, p) /\ NoNameTwice(p, Matcher!Holes(p))
    BY ONLY <1>2, <1>4
  <2>2. PICK order, names : GroupsAt(names, order, p, q)
    BY ONLY <1>2, <2>1, GroupsAreHoles, Zenon
  <2>3. names = Matcher!Groups(q) /\ (x \in Matcher!ToSet(names) <=> x \in Matcher!Declared(p))
    BY <2>2 DEF GroupsAt
  <2>4. Routing!Groups(q) = names /\ Routing!ToSet(names) = Matcher!ToSet(names)
        /\ Routing!Declared(p) = Matcher!Declared(p)
    BY ONLY <2>3, SamePatterns, SameHelpers
  <2> QED
    BY ONLY <2>1, <2>3, <2>4
<1>5. p = Routing!Standardized(raw, Routing!Slash)
  BY <1>2, SameTrimmed
<1> QED
  BY ONLY <1>1, <1>2, <1>3, <1>4, <1>5 DEF RouteOf, Kinds

(* The paths and the prefixes a program gives are sequences of pieces.     *)
LEMMA PathsGiven == RoutePaths \cup RouteScopes \subseteq Seq(PathPieces)
<1>1. \A n : n \in Seq(STRING) => n \in Seq(Letters)
  BY DEF Letters
<1>2. Routing!Pieces \subseteq PathPieces
  BY <1>1 DEF Routing!Pieces, PathPieces
<1>3. RoutePaths \cup RouteScopes \subseteq Seq(Routing!Pieces)
  BY Assumptions DEF Routing!PathsAssumption
<1> QED
  BY ONLY <1>2, <1>3

(* The segments of the prefixes an entry got are that of its path.         *)
Segments(moves) == Flattened([k \in DOMAIN moves |-> Routing!Segment(moves[k].prefix)])

PathGood(e) ==
  /\ e = Routing!Entry(e.path, e.gates, e.end, e.moves)
  /\ e.path \in Seq(PathPieces) /\ Segments(e.moves) = Routing!Segment(e.path)

EntryPaths == \A r \in Routers : \A e \in Routing!ToSet(routers[r].entries) : PathGood(e)

(* A segment is a sequence of pieces.                                      *)
LEMMA SegmentTyped ==
  ASSUME NEW x, x \in Seq(PathPieces)
  PROVE  Routing!Segment(x) \in Seq(PathPieces)
<1>1. PICK slash, u : slash = Routing!Slash /\ u = Routing!Trimmed(x, slash) /\ slash \in PathPieces
  BY PiecesTyped, SameTrimmed
<1>2. u \in Seq(PathPieces)
  BY ONLY <1>1, x \in Seq(PathPieces), TrimmedParses
<1>3. <<slash>> \o u \in Seq(PathPieces) /\ <<>> \in Seq(PathPieces)
  BY ONLY <1>1, <1>2
<1> QED
  BY ONLY <1>1, <1>3 DEF Routing!Segment

(* One more prefix puts its segment before the others.                     *)
HavePrefixes(S) == \A m \in S : m.prefix \in Seq(PathPieces)

ConsOf(move, moves) ==
  Segments(<<move>> \o moves) = Routing!Segment(move.prefix) \o Segments(moves)

(* It does.                                                                *)
LEMMA SegmentsCons ==
  ASSUME NEW S, HavePrefixes(S), NEW move, HavePrefixes({move}), NEW moves, moves \in Seq(S)
  PROVE  ConsOf(move, moves)
<1>1. PICK n : n = Len(moves)
  OBVIOUS
<1>2. n \in Nat /\ DOMAIN moves = 1 .. n /\ \A k \in 1 .. n : moves[k].prefix \in Seq(PathPieces)
  BY <1>1 DEF HavePrefixes
<1>3. PICK ss : ss = [k \in DOMAIN moves |-> Routing!Segment(moves[k].prefix)]
  OBVIOUS
<1>4. \A k \in 1 .. n : ss[k] \in Seq(PathPieces)
  BY ONLY <1>2, <1>3, SegmentTyped
<1>5. ss \in Seq(Seq(PathPieces)) /\ Len(ss) = n /\ DOMAIN ss = 1 .. n
  <2>1. ss \in [1 .. n -> Seq(PathPieces)]
    BY ONLY <1>2, <1>3, <1>4
  <2> QED
    BY ONLY <1>2, <2>1, SeqDef
<1>6. PICK x : x = Routing!Segment(move.prefix) /\ x \in Seq(PathPieces)
  BY SegmentTyped DEF HavePrefixes
<1>7. PICK all : all = <<move>> \o moves
  OBVIOUS
<1>8. /\ DOMAIN all = 1 .. n + 1 /\ all[1] = move
      /\ \A k \in 1 .. n : all[k + 1] = moves[k]
  <2>1. move \in S \cup {move} /\ moves \in Seq(S \cup {move})
    BY ONLY moves \in Seq(S)
  <2> QED
    BY ONLY <1>1, <1>7, <2>1
<1>9. [k \in DOMAIN all |-> Routing!Segment(all[k].prefix)] = <<x>> \o ss
  <2>1. PICK zs : zs = [k \in DOMAIN all |-> Routing!Segment(all[k].prefix)]
    OBVIOUS
  <2>2. DOMAIN zs = 1 .. n + 1 /\ zs[1] = x /\ \A k \in 1 .. n : zs[k + 1] = ss[k]
    <3>1. 1 \in 1 .. n + 1 /\ \A k \in 1 .. n : k + 1 \in 1 .. n + 1
      BY ONLY <1>2
    <3> QED
      BY ONLY <1>2, <1>3, <1>6, <1>8, <2>1, <3>1
  <2>3. PICK ws : ws = <<x>> \o ss
    OBVIOUS
  <2>4. /\ ws \in Seq(Seq(PathPieces)) /\ DOMAIN ws = 1 .. n + 1 /\ ws[1] = x
        /\ \A k \in 1 .. n : ws[k + 1] = ss[k]
    BY ONLY <1>2, <1>5, <1>6, <2>3
  <2>5. \A k \in 1 .. n + 1 : zs[k] = ws[k]
    <3>1. \A k \in 1 .. n + 1 : k = 1 \/ (k - 1 \in 1 .. n /\ (k - 1) + 1 = k)
      BY ONLY <1>2
    <3> QED
      BY ONLY <2>2, <2>4, <3>1
  <2>6. zs = [k \in 1 .. n + 1 |-> zs[k]] /\ ws = [k \in 1 .. n + 1 |-> ws[k]]
    BY ONLY <1>8, <2>1, <2>4
  <2>7. zs = ws
    BY ONLY <2>5, <2>6
  <2> QED
    BY ONLY <2>1, <2>3, <2>7
<1>10. Flattened(<<x>> \o ss) = x \o Flattened(ss)
  BY ONLY <1>5, <1>6, FlattenedCons
<1> QED
  BY ONLY <1>3, <1>6, <1>7, <1>9, <1>10 DEF Segments, ConsOf

(* What on registers has the path it was given.                            *)
LEMMA FirstPath ==
  ASSUME NEW p, p \in RoutePaths, NEW gates, NEW end, NEW move, move.prefix = p
  PROVE  PathGood(Routing!Entry(p, gates, end, <<move>>))
<1>1. PICK x : x = Routing!Segment(p) /\ p \in Seq(PathPieces) /\ x \in Seq(PathPieces)
  BY PathsGiven, SegmentTyped
<1>2. Segments(<<move>> \o <<>>) = x \o Segments(<<>>)
  <2>1. HavePrefixes({})
    BY DEF HavePrefixes
  <2>2. <<>> \in Seq({})
    OBVIOUS
  <2>3. HavePrefixes({move})
    BY ONLY <1>1, move.prefix = p DEF HavePrefixes
  <2>4. ConsOf(move, <<>>)
    BY ONLY <2>1, <2>2, <2>3, SegmentsCons, Zenon
  <2> QED
    BY ONLY <1>1, <2>4, move.prefix = p DEF ConsOf
<1>3. Segments(<<>>) = <<>>
  <2>1. PICK ss : ss = [k \in DOMAIN <<>> |-> Routing!Segment(<<>>[k].prefix)]
    OBVIOUS
  <2>2. ss = <<>> /\ ss \in Seq(Seq(PathPieces))
    BY ONLY <2>1
  <2> QED
    BY ONLY <2>1, <2>2, FlattenedTyped DEF Segments
<1>4. x \o <<>> = x
  BY ONLY <1>1
<1>5. <<move>> \o <<>> = <<move>>
  BY ONLY TRUE
<1>6. Segments(<<move>>) = x
  BY ONLY <1>2, <1>3, <1>4, <1>5
<1>7. PICK e : e = Routing!Entry(p, gates, end, <<move>>)
  OBVIOUS
<1>8. e.path = p /\ e.moves = <<move>> /\ e = Routing!Entry(e.path, e.gates, e.end, e.moves)
  BY <1>7 DEF Routing!Entry
<1> QED
  BY ONLY <1>1, <1>6, <1>7, <1>8 DEF PathGood

(* What include takes in has the path with the prefix.                     *)
LEMMA TakenPath ==
  ASSUME NEW prefix, prefix \in RouteScopes, NEW r, NEW t, NEW e, PathGood(e),
         e.moves \in Seq(Stations)
  PROVE  PathGood(Taken(e, r, prefix, t))
<1>1. PICK move : move = [router |-> r, time |-> t, prefix |-> prefix]
  OBVIOUS
<1>2. PICK moves, x, y : moves = e.moves /\ x = Routing!Segment(prefix) /\ y = Routing!Segment(e.path)
  OBVIOUS
<1>3. /\ prefix \in Seq(PathPieces) /\ e.path \in Seq(PathPieces) /\ Segments(moves) = y
      /\ move.prefix = prefix
  BY <1>1, <1>2, PathsGiven DEF PathGood
<1>4. HavePrefixes(Stations)
  BY PathsGiven DEF Stations, HavePrefixes
<1>5. Segments(<<move>> \o moves) = x \o y
  <2>1. moves \in Seq(Stations) /\ HavePrefixes({move})
    BY ONLY <1>2, <1>3, e.moves \in Seq(Stations) DEF HavePrefixes
  <2>2. ConsOf(move, moves)
    BY ONLY <1>4, <2>1, SegmentsCons, Zenon
  <2> QED
    BY ONLY <1>2, <1>3, <2>2 DEF ConsOf
<1>6. PICK z : /\ z = Routing!Joined(prefix, e.path) /\ z \in Seq(PathPieces)
               /\ Routing!Segment(z) = x \o y
  BY ONLY <1>2, <1>3, SegmentsJoin
<1>7. PICK new : new = Taken(e, r, prefix, t)
  OBVIOUS
<1>8. /\ new.path = z /\ new.moves = <<move>> \o moves
      /\ new = Routing!Entry(new.path, new.gates, new.end, new.moves)
  BY <1>1, <1>2, <1>6, <1>7 DEF Taken, Routing!Entry
<1> QED
  BY ONLY <1>5, <1>6, <1>7, <1>8 DEF PathGood

(* So the paths stay good.                                                 *)
LEMMA PathSteps ==
  ASSUME RouterInv, EntryPaths, [Routing!Next]_(Routing!vars)
  PROVE  EntryPaths'
<1>1. ASSUME \A q \in Routers : \A e \in Routing!ToSet(routers'[q].entries) :
               e \in Routing!ToSet(routers[q].entries) \/ PathGood(e)
      PROVE  EntryPaths'
  BY <1>1 DEF EntryPaths, PathGood
<1>2. ASSUME NEW r \in Routers, NEW p \in RoutePaths, NEW end, Routing!on(r, p, end)
      PROVE  EntryPaths'
  <2>1. PICK old, own, move : /\ old = routers[r].entries /\ own = routers[r].gates
                              /\ move = [router |-> r, time |-> ops, prefix |-> p]
    OBVIOUS
  <2>2. PICK new : new = Routing!Entry(p, own \o <<>>, end, <<move>>) /\ PathGood(new)
    <3>1. move.prefix = p
      BY ONLY <2>1
    <3> QED
      BY ONLY <3>1, p \in RoutePaths, FirstPath
  <2>3. routers' = [routers EXCEPT ![r].entries = Append(@, new)]
    BY <1>2, <2>1, <2>2 DEF Routing!on, Routing!Registered
  <2>4. /\ old \in Seq(Routing!ToSet(old)) /\ DOMAIN routers = Routers
        /\ routers[r] \in [gates : Seq(RouteGates), entries : Seq(Routing!ToSet(old)),
                           moved : BOOLEAN]
    BY <2>1 DEF RouterInv, Shapes
  <2>5. Append(old, new) = old \o <<new>> /\ <<new>> \in Seq({new})
    BY <2>4, AppendIsConcat
  <2>6. /\ routers'[r].entries = old \o <<new>>
        /\ \A q \in Routers : q # r => routers'[q] = routers[q]
    BY ONLY <2>1, <2>3, <2>4, <2>5
  <2>7. \A x \in Routing!ToSet(<<new>>) : x = new
    BY DEF Routing!ToSet
  <2>8. \A e \in Routing!ToSet(old \o <<new>>) : e \in Routing!ToSet(old) \/ e = new
    BY ONLY <2>4, <2>5, <2>7, GrownElements
  <2>9. \A q \in Routers : \A e \in Routing!ToSet(routers'[q].entries) :
          e \in Routing!ToSet(routers[q].entries) \/ PathGood(e)
    BY ONLY <2>1, <2>2, <2>6, <2>8
  <2> QED
    BY <1>1, <2>9
<1>3. ASSUME NEW r \in Routers, NEW s \in Routers, NEW prefix \in RouteScopes,
             Routing!include(r, prefix, s)
      PROVE  EntryPaths'
  <2>1. PICK old, came : old = routers[r].entries /\ came = routers[s].entries
    OBVIOUS
  <2>2. PICK new : new = [i \in DOMAIN came |-> Taken(came[i], r, prefix, ops)]
    OBVIOUS
  <2>3. r # s /\ routers' = [routers EXCEPT ![r].entries = @ \o new, ![s] = Routing!Moved]
    BY <1>3, <2>1, <2>2 DEF Routing!include, Routing!Registered, Taken
  <2>4. /\ old \in Seq(Routing!ToSet(old)) /\ came \in Seq(Routing!ToSet(came))
        /\ DOMAIN routers = Routers
        /\ routers[r] \in [gates : Seq(RouteGates), entries : Seq(Routing!ToSet(old)),
                           moved : BOOLEAN]
    BY <2>1 DEF RouterInv, Shapes
  <2>5. \A i \in DOMAIN came : PathGood(new[i])
    <3> SUFFICES ASSUME NEW i \in DOMAIN came PROVE PathGood(new[i])
      OBVIOUS
    <3>1. PICK e : e = came[i] /\ e \in Routing!ToSet(came)
      BY DEF Routing!ToSet
    <3>2. PathGood(e) /\ e.moves \in Seq(Stations)
      BY <2>1, <3>1 DEF EntryPaths, RouterInv, EntryGood
    <3>3. PathGood(Taken(e, r, prefix, ops))
      BY ONLY <3>2, prefix \in RouteScopes, TakenPath
    <3> QED
      BY ONLY <2>2, <3>1, <3>3, i \in DOMAIN came
  <2>6. new \in Seq(Routing!ToSet(new)) /\ \A x \in Routing!ToSet(new) : PathGood(x)
    <3>1. DOMAIN came = 1 .. Len(came) /\ Len(came) \in Nat
      BY ONLY <2>4
    <3>2. new \in [1 .. Len(came) -> Routing!ToSet(new)]
      BY ONLY <2>2, <3>1 DEF Routing!ToSet
    <3>3. \A x \in Routing!ToSet(new) : \E i \in DOMAIN came : x = new[i]
      BY <2>2 DEF Routing!ToSet
    <3> QED
      BY ONLY <2>5, <3>1, <3>2, <3>3, SeqDef
  <2>7. /\ routers'[r].entries = old \o new
        /\ routers'[s].entries = <<>>
        /\ \A q \in Routers : q # r /\ q # s => routers'[q] = routers[q]
    <3>1. Routing!Moved.entries = <<>>
      BY DEF Routing!Moved
    <3> QED
      BY ONLY <2>1, <2>3, <2>4, <3>1
  <2>8. \A e \in Routing!ToSet(old \o new) : e \in Routing!ToSet(old) \/ PathGood(e)
    BY ONLY <2>4, <2>6, GrownElements
  <2>9. \A e : e \notin Routing!ToSet(<<>>)
    BY DEF Routing!ToSet
  <2>10. \A q \in Routers : \A e \in Routing!ToSet(routers'[q].entries) :
           e \in Routing!ToSet(routers[q].entries) \/ PathGood(e)
    BY ONLY <2>1, <2>7, <2>8, <2>9
  <2> QED
    BY <1>1, <2>10
<1>4. ASSUME NEW r \in Routers, NEW g, Routing!gate(r, g) PROVE EntryPaths'
  <2>1. PICK more : routers' = [routers EXCEPT ![r].gates = more]
    BY <1>4 DEF Routing!gate
  <2>2. \A q \in Routers : routers'[q].entries = routers[q].entries
    <3>1. /\ DOMAIN routers = Routers
          /\ \A q \in Routers : routers[q] \in [gates : Seq(RouteGates),
                 entries : Seq(Routing!ToSet(routers[q].entries)), moved : BOOLEAN]
      BY DEF RouterInv, Shapes
    <3> QED
      BY ONLY <2>1, <3>1
  <2> QED
    BY <1>1, <2>2
<1>5. ASSUME NEW r \in Routers, NEW prefix \in RouteScopes, Routing!routes(r, prefix)
      PROVE  EntryPaths'
  <2>1. \A q \in Routers : routers'[q].entries = <<>>
    BY <1>5 DEF Routing!routes, Routing!Moved
  <2>2. \A e : e \notin Routing!ToSet(<<>>)
    BY DEF Routing!ToSet
  <2> QED
    BY <1>1, <2>1, <2>2
<1>6. ASSUME UNCHANGED routers PROVE EntryPaths'
  BY <1>6 DEF EntryPaths, PathGood
<1> QED
  BY <1>2, <1>3, <1>4, <1>5, <1>6 DEF Routing!Next, Routing!call, Routing!vars

(* routes gives an entry the last prefix. What its path is parsed into is  *)
(* what the path it was registered with on the way is parsed into.         *)
Flat(e) ==
  /\ Routing!FullPath(e) \in Seq(PathPieces)
  /\ Routing!Trimmed(Routing!FullPath(e), Routing!Slash) = Routing!FullPath(e)

(* That is so of what routes makes of an entry.                            *)
LEMMA BuiltPath ==
  ASSUME NEW prefix, prefix \in RouteScopes, NEW e, PathGood(e), e.moves \in Seq(Stations),
         NEW move, move.prefix = prefix,
         NEW new, new = [e EXCEPT !.moves = <<move>> \o @]
  PROVE  Flat(new) /\ Routing!Parse(prefix, new) = Routing!FromStr(Routing!FullPath(new))
<1>1. PICK moves, x, y : moves = e.moves /\ x = Routing!Segment(prefix) /\ y = Routing!Segment(e.path)
  OBVIOUS
<1>2. /\ prefix \in Seq(PathPieces) /\ e.path \in Seq(PathPieces) /\ Segments(moves) = y
      /\ HavePrefixes({move})
  BY <1>1, PathsGiven DEF PathGood, HavePrefixes
<1>3. new.path = e.path /\ new.moves = <<move>> \o moves
  <2>1. e = [path |-> e.path, gates |-> e.gates, end |-> e.end, moves |-> moves]
    BY <1>1 DEF PathGood, Routing!Entry
  <2> QED
    BY ONLY <1>1, <2>1, new = [e EXCEPT !.moves = <<move>> \o @]
<1>4. HavePrefixes(Stations)
  BY PathsGiven DEF Stations, HavePrefixes
<1>5. Segments(new.moves) = x \o y
  <2>1. moves \in Seq(Stations)
    BY ONLY <1>1, e.moves \in Seq(Stations)
  <2>2. ConsOf(move, moves)
    BY ONLY <1>2, <1>4, <2>1, SegmentsCons, Zenon
  <2> QED
    BY ONLY <1>1, <1>2, <1>3, <2>2, move.prefix = prefix DEF ConsOf
<1>6. PICK z : /\ z = Routing!Joined(prefix, e.path) /\ z \in Seq(PathPieces)
               /\ Routing!Segment(z) = x \o y
  BY ONLY <1>1, <1>2, SegmentsJoin
<1>7. PICK u : u = Routing!Trimmed(z, Routing!Slash)
  OBVIOUS
<1>8. Routing!FullPath(new) = u
  <2>1. \A ss : Routing!Flattened(ss) = Flattened(ss)
    BY DEF Routing!Flattened, Flattened, Routing!FoldLeft, Routing!MapThenFoldSet, FoldLeft,
           MapThenFoldSet, Routing!Max, Max
  <2>2. Routing!FullPath(new) = Routing!Trimmed(Segments(new.moves), Routing!Slash)
    BY <2>1 DEF Routing!FullPath, Segments
  <2>3. Routing!Trimmed(Routing!Segment(z), Routing!Slash) = u
    BY ONLY <1>6, <1>7, TrimmedParses
  <2> QED
    BY ONLY <1>5, <1>6, <2>2, <2>3
<1>9. u \in Seq(PathPieces) /\ Routing!FromStr(u) = Routing!FromStr(z)
  BY ONLY <1>6, <1>7, TrimmedParses
<1>10. Routing!Trimmed(u, Routing!Slash) = u
  <2>1. PICK slash : slash = Routing!Slash /\ slash = Matcher!Slash /\ slash \in PathPieces
    BY PiecesTyped, SameTrimmed
  <2>2. u = Matcher!Trimmed(z, slash) /\ Routing!Trimmed(u, slash) = Matcher!Trimmed(u, slash)
    BY ONLY <1>7, <2>1, SameTrimmed
  <2>3. Bare(u, slash) /\ u \in With(u, slash)
    BY <1>6, <2>2, TrimmedIsBare DEF With
  <2>4. Matcher!Trimmed(u, slash) = u
    BY ONLY <1>9, <2>1, <2>3, TrimmedAgain, Zenon
  <2> QED
    BY ONLY <2>1, <2>2, <2>4
<1>11. Routing!Parse(prefix, new) = Routing!FromStr(z)
  BY <1>3, <1>6 DEF Routing!Parse
<1> QED
  BY ONLY <1>8, <1>9, <1>10, <1>11 DEF Flat

(* The routes of a table are those of the whole paths of its entries.      *)
RoutesOf(entries) == [k \in DOMAIN entries |-> Routing!FromStr(Routing!FullPath(entries[k]))]

TableGood ==
  \E n \in Nat : /\ DOMAIN table.entries = 1 .. n
                 /\ \A k \in 1 .. n : Flat(table.entries[k])
                 /\ Faithful(table, RoutesOf(table.entries), n)
                 /\ table.state = "ok" => Holds(table, n)

(* A step that builds the table builds such a one.                         *)
LEMMA TableBuilt ==
  ASSUME RouterInv, EntryPaths, NEW r \in Routers, NEW prefix \in RouteScopes,
         Routing!routes(r, prefix)
  PROVE  TableGood'
<1>1. PICK move : move = [router |-> "table", time |-> ops, prefix |-> prefix]
  OBVIOUS
<1>2. PICK all : all = routers[r].entries
  OBVIOUS
<1>3. PICK moved : moved = [i \in DOMAIN all |-> [all[i] EXCEPT !.moves = <<move>> \o @]]
  OBVIOUS
<1>4. table' = Routing!Table(prefix, moved)
  BY <1>1, <1>2, <1>3 DEF Routing!routes
<1>5. all \in Seq(Routing!ToSet(all))
  BY <1>2 DEF RouterInv, Shapes
<1>6. PICK S : S = {moved[i] : i \in DOMAIN all}
  OBVIOUS
<1>7. moved \in Seq(S) /\ DOMAIN moved = DOMAIN all
  BY <1>3, <1>5, <1>6
<1>8. PICK n : n = Len(moved)
  OBVIOUS
<1>9. /\ n \in Nat /\ DOMAIN moved = 1 .. n /\ table'.entries = moved
      /\ table'.state = "ok" => Holds(table', n)
      /\ Faithful(table', [i \in DOMAIN moved |-> Routing!Parse(prefix, moved[i])], n)
  <2>1. n \in Nat
    BY ONLY <1>7, <1>8
  <2> QED
    BY ONLY <1>4, <1>7, <1>8, <2>1, TableHoldsAll
<1>10. ASSUME NEW k \in 1 .. n
       PROVE  /\ Flat(moved[k])
              /\ Routing!Parse(prefix, moved[k]) = Routing!FromStr(Routing!FullPath(moved[k]))
  <2>1. PICK e, new : e = all[k] /\ new = moved[k]
    OBVIOUS
  <2>2. k \in DOMAIN all
    BY ONLY <1>7, <1>9, k \in 1 .. n
  <2>3. e \in Routing!ToSet(all)
    BY ONLY <2>1, <2>2 DEF Routing!ToSet
  <2>4. PathGood(e) /\ e.moves \in Seq(Stations)
    BY <1>2, <2>3 DEF EntryPaths, RouterInv, EntryGood
  <2>5. new = [e EXCEPT !.moves = <<move>> \o @] /\ move.prefix = prefix
    BY ONLY <1>1, <1>3, <2>1, <2>2
  <2>6. Flat(new) /\ Routing!Parse(prefix, new) = Routing!FromStr(Routing!FullPath(new))
    BY ONLY <2>4, <2>5, prefix \in RouteScopes, BuiltPath, Zenon
  <2> QED
    BY ONLY <2>1, <2>6
<1>11. [i \in DOMAIN moved |-> Routing!Parse(prefix, moved[i])] = RoutesOf(moved)
  BY ONLY <1>9, <1>10 DEF RoutesOf
<1>12. \A k \in 1 .. n : Flat(moved[k])
  BY ONLY <1>10
<1>13. (\A k \in 1 .. n : Flat(table'.entries[k])) /\ Faithful(table', RoutesOf(table'.entries), n)
  BY ONLY <1>9, <1>11, <1>12
<1> QED
  BY ONLY <1>9, <1>13, Zenon DEF TableGood, Flat, RoutesOf, Faithful, Holds

(* What such a table says of its k-th entry.                               *)
LEMMA EntryRoute ==
  ASSUME NEW entries, NEW k, k \in DOMAIN entries, Flat(entries[k]),
         NEW p, p = <<Routing!Slash>> \o Routing!FullPath(entries[k]) \o <<Routing!Slash>>
  PROVE  /\ RoutesOf(entries)[k] = Routing!FromStr(Routing!FullPath(entries[k]))
         /\ RouteOf(RoutesOf(entries)[k], p)
         /\ Routing!Trimmed(p, Routing!Slash) = Routing!FullPath(entries[k])
<1>1. PICK x, slash : /\ x = Routing!FullPath(entries[k]) /\ slash = Routing!Slash
                      /\ x \in Seq(PathPieces) /\ Routing!Trimmed(x, slash) = x
  BY ONLY Flat(entries[k]) DEF Flat
<1>2. RoutesOf(entries)[k] = Routing!FromStr(x)
  BY ONLY <1>1, k \in DOMAIN entries DEF RoutesOf
<1>3. Routing!Standardized(x, slash) = p
  BY ONLY <1>1, p = <<Routing!Slash>> \o Routing!FullPath(entries[k]) \o <<Routing!Slash>>
  DEF Routing!Standardized
<1>4. RouteOf(Routing!FromStr(x), Routing!Standardized(x, slash))
  BY ONLY <1>1, RouteIs
<1>5. Routing!Trimmed(Routing!Standardized(x, slash), slash) = x
  BY ONLY <1>1, TrimmedParses
<1> QED
  BY ONLY <1>1, <1>2, <1>3, <1>4, <1>5

(* Nested paths are flat in it.                                            *)
LEMMA FlatIsFlat == TableGood => Routing!NestedPathsFlat
<1> SUFFICES ASSUME TableGood, NEW i, i \in DOMAIN table.dynamic
             PROVE  Routing!Trimmed(table.dynamic[i].route.path, Routing!Slash)
                      = Routing!FullPath(table.entries[table.dynamic[i].entry])
  BY DEF Routing!NestedPathsFlat
<1>1. PICK n \in Nat : /\ DOMAIN table.entries = 1 .. n
                       /\ \A k \in 1 .. n : Flat(table.entries[k])
                       /\ Faithful(table, RoutesOf(table.entries), n)
  BY DEF TableGood
<1>2. PICK k, route : k = table.dynamic[i].entry /\ route = table.dynamic[i].route
  OBVIOUS
<1>3. k \in 1 .. n /\ route = RoutesOf(table.entries)[k]
  BY <1>1, <1>2 DEF Faithful
<1>4. PICK p : p = <<Routing!Slash>> \o Routing!FullPath(table.entries[k]) \o <<Routing!Slash>>
  OBVIOUS
<1>5. k \in DOMAIN table.entries /\ Flat(table.entries[k])
  BY ONLY <1>1, <1>3
<1>6. /\ RouteOf(route, p)
      /\ Routing!Trimmed(p, Routing!Slash) = Routing!FullPath(table.entries[k])
  BY ONLY <1>3, <1>4, <1>5, EntryRoute
<1> QED
  BY ONLY <1>2, <1>6 DEF RouteOf

(* What a request is answered with.                                        *)
Serves(i, params) ==
  /\ reply.entry = <<i>> /\ reply.status \in {200, 405, 500}
  /\ \/ reply.handler = <<>>
     \/ \E h : reply.handler = <<h>> /\ reply.status = Routing!Handled(h, params)

ServesNone == reply.entry = <<>> /\ reply.handler = <<>>

(* An endpoint that is called serves,                                     *)
LEMMA CalledIs ==
  ASSUME NEW i, NEW q, NEW params, reply = Routing!Called(i, q, params)
  PROVE  reply.request = q /\ Serves(i, params)
<1>1. PICK end : end = table.entries[i].end
  OBVIOUS
<1>2. PICK answered : answered = [Routing!Failed(405, q) EXCEPT !.entry = <<i>>, !.params = params]
  OBVIOUS
<1>3. answered = [status |-> 405, request |-> q, entry |-> <<i>>, params |-> params, handler |-> <<>>]
  BY <1>2 DEF Routing!Failed, Routing!NoReply
<1>4. \/ reply = answered
      \/ reply = [answered EXCEPT !.status = Routing!Handled(end[q.method], params),
                                  !.handler = <<end[q.method]>>]
  BY <1>1, <1>2 DEF Routing!Called
<1>5. CASE reply = answered
  BY ONLY <1>3, <1>5 DEF Serves
<1>6. CASE reply = [answered EXCEPT !.status = Routing!Handled(end[q.method], params),
                                    !.handler = <<end[q.method]>>]
  <2>1. PICK h, status1 : h = end[q.method] /\ status1 = Routing!Handled(h, params)
    OBVIOUS
  <2>2. status1 \in {200, 500}
    BY <2>1 DEF Routing!Handled
  <2>3. reply = [status |-> status1, request |-> q, entry |-> <<i>>, params |-> params,
                 handler |-> <<h>>]
    BY ONLY <1>3, <1>6, <2>1
  <2> QED
    BY ONLY <2>1, <2>2, <2>3 DEF Serves
<1> QED
  BY ONLY <1>4, <1>5, <1>6

(* and it is that of the table, unless the request is refused or not found.*)
Outcome(dynamic, static, M, t) ==
  \/ reply.status = 400 /\ ServesNone
  \/ t \in DOMAIN static /\ Serves(static[t], <<>>)
  \/ /\ t \notin DOMAIN static /\ M # {}
     /\ Serves(dynamic[Routing!Min(M)].entry,
               Routing!Captures(dynamic[Routing!Min(M)].route.pattern, t))
  \/ t \notin DOMAIN static /\ M = {} /\ reply.status = 404 /\ ServesNone

(* The table does that.                                                    *)
LEMMA RoutedIs ==
  ASSUME NEW q, reply = Routing!Routed(q),
         NEW t, t = Routing!Standardized(Routing!Decoded(q.path), "/"),
         NEW M, M = {i \in DOMAIN table.dynamic : Routing!IsMatch(table.dynamic[i].route.pattern, t)}
  PROVE  reply.request = q /\ Outcome(table.dynamic, table.static, M, t)
<1>1. \A status1 : Routing!Failed(status1, q) = [status |-> status1, request |-> q, entry |-> <<>>,
                                                params |-> <<>>, handler |-> <<>>]
  <2>1. Routing!NoReply = [status |-> 0, request |-> <<>>, entry |-> <<>>, params |-> <<>>,
                           handler |-> <<>>]
    BY DEF Routing!NoReply
  <2> SUFFICES ASSUME NEW status1
               PROVE  Routing!Failed(status1, q) = [status |-> status1, request |-> q,
                                                    entry |-> <<>>, params |-> <<>>, handler |-> <<>>]
    OBVIOUS
  <2>2. PICK a : a = [Routing!NoReply EXCEPT !.status = status1]
    OBVIOUS
  <2>3. a = [status |-> status1, request |-> <<>>, entry |-> <<>>, params |-> <<>>,
             handler |-> <<>>]
    BY ONLY <2>1, <2>2
  <2>4. Routing!Failed(status1, q) = [a EXCEPT !.request = q]
    BY ONLY <2>2 DEF Routing!Failed
  <2> QED
    BY ONLY <2>3, <2>4
<1>2. PICK d : d = table.dynamic[Routing!Min(M)]
  OBVIOUS
<1>3. \/ reply = Routing!Failed(400, q)
      \/ t \in DOMAIN table.static /\ reply = Routing!Called(table.static[t], q, <<>>)
      \/ /\ t \notin DOMAIN table.static /\ M # {}
         /\ reply = Routing!Called(d.entry, q, Routing!Captures(d.route.pattern, t))
      \/ t \notin DOMAIN table.static /\ M = {} /\ reply = Routing!Failed(404, q)
  <2>1. PICK v : v <=> Routing!ValidUtf8(q.path)
    OBVIOUS
  <2>2. reply = CASE ~v -> Routing!Failed(400, q)
                  [] v /\ t \in DOMAIN table.static -> Routing!Called(table.static[t], q, <<>>)
                  [] v /\ t \notin DOMAIN table.static /\ M # {} ->
                       Routing!Called(d.entry, q, Routing!Captures(d.route.pattern, t))
                  [] OTHER -> Routing!Failed(404, q)
    BY <1>2, <2>1, Zenon DEF Routing!Routed, Routing!Taking
  <2> QED
    BY ONLY <2>2
<1>4. \A status1 : reply = Routing!Failed(status1, q) =>
                     reply.request = q /\ reply.status = status1 /\ ServesNone
  BY ONLY <1>1 DEF ServesNone
<1>5. \A i, params : reply = Routing!Called(i, q, params) =>
                       reply.request = q /\ Serves(i, params)
  BY ONLY CalledIs, Zenon
<1> QED
  BY ONLY <1>2, <1>3, <1>4, <1>5 DEF Outcome

(* The least element.                                                      *)
LEMMA FirstIs ==
  ASSUME NEW S, S \subseteq Nat, NEW b \in S, \A y \in S : b <= y
  PROVE  Routing!Min(S) = b
<1>1. \A x \in S : (\A y \in S : x <= y) => x = b
  OBVIOUS
<1>2. PICK c : c = Routing!Min(S)
  OBVIOUS
<1>3. c \in S /\ \A y \in S : c <= y
  BY <1>2 DEF Routing!Min
<1> QED
  BY ONLY <1>1, <1>2, <1>3

(* There is one.                                                           *)
LEMMA FirstExists ==
  ASSUME NEW S, S \subseteq Nat, S # {}
  PROVE  Routing!Min(S) \in S /\ \A y \in S : Routing!Min(S) <= y
  BY LeastElement DEF Routing!Min

(* The endpoints whose paths match, static ones and dynamic ones.          *)
Sorts(n, R, dynamic, static, M, t) ==
  \A k \in 1 .. n :
    /\ R[k].kind \in {"static", "dynamic"}
    /\ Routing!IsStatic(table.entries[k]) <=> R[k].kind = "static"
    /\ R[k].kind = "static" =>
         (Routing!Matches(table.entries[k], t) <=> t \in DOMAIN static /\ k = static[t])
    /\ R[k].kind = "dynamic" =>
         (Routing!Matches(table.entries[k], t) <=> \E i \in M : k = dynamic[i].entry)

(* The table sorts them so.                                                *)
LEMMA WhatMatches ==
  ASSUME NEW n \in Nat, DOMAIN table.entries = 1 .. n, Holds(table, n),
         NEW R, R = RoutesOf(table.entries), Faithful(table, R, n), NEW t,
         NEW M, M = {i \in DOMAIN table.dynamic : Routing!IsMatch(table.dynamic[i].route.pattern, t)}
  PROVE  Sorts(n, R, table.dynamic, table.static, M, t)
<1> SUFFICES ASSUME NEW k \in 1 .. n
             PROVE  /\ R[k].kind \in {"static", "dynamic"}
                    /\ Routing!IsStatic(table.entries[k]) <=> R[k].kind = "static"
                    /\ R[k].kind = "static" =>
                         (Routing!Matches(table.entries[k], t)
                            <=> t \in DOMAIN table.static /\ k = table.static[t])
                    /\ R[k].kind = "dynamic" =>
                         (Routing!Matches(table.entries[k], t)
                            <=> \E i \in M : k = table.dynamic[i].entry)
  BY DEF Sorts
<1>1. PICK dynamic, static : dynamic = table.dynamic /\ static = table.static
  OBVIOUS
<1>2. PICK route : route = R[k]
  OBVIOUS
<1>3. route = Routing!FromStr(Routing!FullPath(table.entries[k]))
  BY <1>2 DEF RoutesOf
<1>4. /\ Routing!IsStatic(table.entries[k]) <=> route.kind = "static"
      /\ route.kind = "dynamic" => (Routing!Matches(table.entries[k], t)
                                      <=> Routing!IsMatch(route.pattern, t))
      /\ route.kind = "static" => (Routing!Matches(table.entries[k], t)
                                     <=> Routing!Text(route.path) = t)
  <2>1. Routing!IsStatic(table.entries[k]) <=> route.kind = "static"
    BY ONLY <1>3 DEF Routing!IsStatic
  <2>2. Routing!Matches(table.entries[k], t) <=>
          (IF route.kind = "dynamic" THEN Routing!IsMatch(route.pattern, t)
           ELSE Routing!Text(route.path) = t)
    BY ONLY <1>3, Zenon DEF Routing!Matches
  <2> QED
    BY ONLY <2>1, <2>2
<1>5. /\ \A i \in DOMAIN dynamic : dynamic[i].route = R[dynamic[i].entry]
                                   /\ dynamic[i].route.kind = "dynamic"
      /\ \A p \in DOMAIN static : /\ R[static[p]].kind = "static"
                                  /\ Routing!Text(R[static[p]].path) = p
  BY <1>1 DEF Faithful
<1>6. \/ \E i \in DOMAIN dynamic : dynamic[i].entry = k
      \/ \E p \in DOMAIN static : static[p] = k
  BY <1>1 DEF Holds
<1>7. CASE \E i \in DOMAIN dynamic : dynamic[i].entry = k
  <2>1. PICK i \in DOMAIN dynamic : dynamic[i].entry = k
    BY <1>7
  <2>2. dynamic[i].route = route /\ route.kind = "dynamic"
    BY ONLY <1>2, <1>5, <2>1
  <2>3. \A j \in DOMAIN dynamic : dynamic[j].entry = k => dynamic[j].route = route
    BY ONLY <1>2, <1>5
  <2>4. \A j : j \in M <=> j \in DOMAIN dynamic /\ Routing!IsMatch(dynamic[j].route.pattern, t)
    BY <1>1
  <2>5. Routing!IsMatch(route.pattern, t) <=> \E j \in M : k = dynamic[j].entry
    BY ONLY <2>1, <2>2, <2>3, <2>4
  <2> QED
    BY ONLY <1>1, <1>2, <1>4, <2>2, <2>5
<1>8. CASE \E p \in DOMAIN static : static[p] = k
  <2>1. PICK p \in DOMAIN static : static[p] = k
    BY <1>8
  <2>2. route.kind = "static" /\ Routing!Text(route.path) = p
    BY ONLY <1>2, <1>5, <2>1
  <2>3. \A p1 \in DOMAIN static : static[p1] = k => p1 = p
    BY ONLY <1>2, <1>5, <2>2
  <2>4. Routing!Text(route.path) = t <=> t \in DOMAIN static /\ k = static[t]
    BY ONLY <2>1, <2>2, <2>3
  <2> QED
    BY ONLY <1>1, <1>2, <1>4, <2>2, <2>4
<1> QED
  BY <1>6, <1>7, <1>8

(* So the first one serves.                                                *)
LEMMA ServesFirst ==
  ASSUME TableGood, table.state = "ok", NEW q, reply = Routing!Routed(q)
  PROVE  Routing!FirstRouteServes
<1>1. PICK n \in Nat : /\ DOMAIN table.entries = 1 .. n /\ Holds(table, n)
                       /\ Faithful(table, RoutesOf(table.entries), n)
  BY DEF TableGood
<1>2. PICK R : R = RoutesOf(table.entries)
  OBVIOUS
<1>3. reply.request = q
  BY RoutedIs
<1> DEFINE t == Routing!Standardized(Routing!Decoded(reply.request.path), "/")
           all == {i \in DOMAIN table.entries : Routing!Matches(table.entries[i], t)}
           fixed == {i \in all : Routing!IsStatic(table.entries[i])}
<1>4. t = Routing!Standardized(Routing!Decoded(q.path), "/")
  BY ONLY <1>3
<1> HIDE DEF t
<1>5. \A k : k \in all <=> k \in DOMAIN table.entries /\ Routing!Matches(table.entries[k], t)
  OBVIOUS
<1> HIDE DEF all
<1>6. \A k : k \in fixed <=> k \in all /\ Routing!IsStatic(table.entries[k])
  OBVIOUS
<1> HIDE DEF fixed
<1>0. PICK M : M = {i \in DOMAIN table.dynamic : Routing!IsMatch(table.dynamic[i].route.pattern, t)}
  OBVIOUS
<1>7. PICK dynamic, static : dynamic = table.dynamic /\ static = table.static
  OBVIOUS
<1>8. \A k \in 1 .. n :
        /\ R[k].kind \in {"static", "dynamic"}
        /\ Routing!IsStatic(table.entries[k]) <=> R[k].kind = "static"
        /\ R[k].kind = "static" =>
             (Routing!Matches(table.entries[k], t) <=> t \in DOMAIN static /\ k = static[t])
        /\ R[k].kind = "dynamic" =>
             (Routing!Matches(table.entries[k], t) <=> \E i \in M : k = dynamic[i].entry)
  <2>1. Sorts(n, R, table.dynamic, table.static, M, t)
    BY ONLY <1>0, <1>1, <1>2, n \in Nat, WhatMatches, Zenon
  <2> QED
    BY ONLY <1>7, <2>1 DEF Sorts
<1>9. /\ \A i \in DOMAIN dynamic : /\ dynamic[i].entry \in 1 .. n
                                   /\ R[dynamic[i].entry].kind = "dynamic"
      /\ \A i, j \in DOMAIN dynamic : i < j => dynamic[i].entry < dynamic[j].entry
      /\ \A p \in DOMAIN static : static[p] \in 1 .. n /\ R[static[p]].kind = "static"
      /\ \E m \in Nat : DOMAIN dynamic = 1 .. m
  BY <1>1, <1>2, <1>7 DEF Faithful
<1>10. \A k : k \in all <=> k \in 1 .. n /\ Routing!Matches(table.entries[k], t)
  BY ONLY <1>1, <1>5
<1>11. \A k : k \in fixed <=> t \in DOMAIN static /\ k = static[t]
  BY ONLY <1>6, <1>8, <1>9, <1>10
<1>12. M \subseteq DOMAIN dynamic /\ M \subseteq Nat
  BY ONLY <1>0, <1>7, <1>9
<1>13. \A k : k \in all /\ k \notin fixed <=> \E i \in M : k = dynamic[i].entry
  <2>1. \A k \in 1 .. n : k \in all /\ k \notin fixed <=> \E i \in M : k = dynamic[i].entry
    BY ONLY <1>6, <1>8, <1>9, <1>10, <1>12
  <2> QED
    BY ONLY <1>9, <1>10, <1>12, <2>1
<1>14. \/ reply.status = 400 /\ ServesNone
       \/ t \in DOMAIN static /\ Serves(static[t], <<>>)
       \/ /\ t \notin DOMAIN static /\ M # {}
          /\ Serves(dynamic[Routing!Min(M)].entry,
                    Routing!Captures(dynamic[Routing!Min(M)].route.pattern, t))
       \/ t \notin DOMAIN static /\ M = {} /\ reply.status = 404 /\ ServesNone
  <2>1. Outcome(table.dynamic, table.static, M, t)
    BY ONLY <1>0, <1>4, reply = Routing!Routed(q), RoutedIs, Zenon
  <2> QED
    BY ONLY <1>7, <2>1 DEF Outcome
<1>15. ASSUME reply.status # 400, fixed # {} PROVE Routing!ToSet(reply.entry) = fixed
  <2>1. reply.entry = <<static[t]>>
    BY ONLY <1>11, <1>14, <1>15 DEF Serves
  <2>2. \A x : x \in Routing!ToSet(reply.entry) <=> x = static[t]
    BY ONLY <2>1 DEF Routing!ToSet
  <2> QED
    BY ONLY <1>11, <1>15, <2>2
<1>16. ASSUME reply.status # 400, fixed = {}, all # {} PROVE reply.entry = <<Routing!Min(all)>>
  <2>1. t \notin DOMAIN static /\ M # {} /\ \A k : k \in all <=> \E i \in M : k = dynamic[i].entry
    BY ONLY <1>11, <1>13, <1>16
  <2>2. PICK first : first = Routing!Min(M)
    OBVIOUS
  <2>3. first \in M /\ \A i \in M : first <= i
    BY ONLY <1>12, <2>1, <2>2, FirstExists
  <2>4. \A i \in M : i \in Nat /\ dynamic[i].entry \in Nat
    BY ONLY <1>1, <1>9, <1>12
  <2>5. \A i \in M : dynamic[first].entry <= dynamic[i].entry
    BY ONLY <1>9, <1>12, <2>3, <2>4
  <2>6. /\ all \subseteq Nat /\ dynamic[first].entry \in all
        /\ \A k \in all : dynamic[first].entry <= k
    BY ONLY <2>1, <2>3, <2>4, <2>5
  <2>7. Routing!Min(all) = dynamic[first].entry
    BY ONLY <2>6, FirstIs, Zenon
  <2>8. reply.entry = <<dynamic[first].entry>>
    BY ONLY <1>14, <1>16, <2>1, <2>2 DEF Serves
  <2> QED
    BY ONLY <2>7, <2>8
<1>17. ASSUME reply.status # 400, all = {} PROVE reply.status = 404
  <2>1. t \notin DOMAIN static /\ M = {}
    BY ONLY <1>6, <1>11, <1>13, <1>17
  <2> QED
    BY ONLY <1>14, <1>17, <2>1
<1>18. reply.status \in {200, 404, 405, 500} =>
         CASE fixed # {} -> Routing!ToSet(reply.entry) = fixed
           [] fixed = {} /\ all # {} -> reply.entry = <<Routing!Min(all)>>
           [] OTHER -> reply.status = 404
  <2>1. reply.status \in {200, 404, 405, 500} => reply.status # 400
    OBVIOUS
  <2> QED
    BY ONLY <1>6, <1>15, <1>16, <1>17, <2>1
<1> QED
  BY ONLY <1>18 DEF Routing!FirstRouteServes, t, all, fixed

(* And it misses what it needs only when its path does not declare it.     *)
LEMMA MissesUndeclared ==
  ASSUME TableGood, NEW q, reply = Routing!Routed(q)
  PROVE  Routing!MissingParamNotDeclared
<1> SUFFICES ASSUME NEW k \in Routing!ToSet(reply.entry), NEW h \in Routing!ToSet(reply.handler)
             PROVE  reply.status = 500 <=>
                      ~(Routing!ToSet(Needs[h]) \subseteq Routing!Declared(
                          <<Routing!Slash>> \o Routing!FullPath(table.entries[k])
                            \o <<Routing!Slash>>))
  BY Zenon DEF Routing!MissingParamNotDeclared
<1>0. PICK p : p = <<Routing!Slash>> \o Routing!FullPath(table.entries[k]) \o <<Routing!Slash>>
  OBVIOUS
<1> SUFFICES reply.status = 500 <=> ~(Routing!ToSet(Needs[h]) \subseteq Routing!Declared(p))
  BY <1>0
<1>1. PICK n \in Nat : /\ DOMAIN table.entries = 1 .. n
                       /\ \A i \in 1 .. n : Flat(table.entries[i])
                       /\ Faithful(table, RoutesOf(table.entries), n)
  BY DEF TableGood
<1>2. PICK R : R = RoutesOf(table.entries)
  OBVIOUS
<1>3. PICK t : t = Routing!Standardized(Routing!Decoded(q.path), "/")
  OBVIOUS
<1>4. PICK M : M = {i \in DOMAIN table.dynamic : Routing!IsMatch(table.dynamic[i].route.pattern, t)}
  OBVIOUS
<1>5. PICK dynamic, static : dynamic = table.dynamic /\ static = table.static
  OBVIOUS
<1>6. /\ \A i \in DOMAIN dynamic : /\ dynamic[i].entry \in 1 .. n
                                   /\ dynamic[i].route = R[dynamic[i].entry]
                                   /\ R[dynamic[i].entry].kind = "dynamic"
      /\ \A s \in DOMAIN static : static[s] \in 1 .. n /\ R[static[s]].kind = "static"
      /\ \E m \in Nat : DOMAIN dynamic = 1 .. m
  BY <1>1, <1>2, <1>5 DEF Faithful
<1>7. \A x : x \notin Routing!ToSet(<<>>)
  BY DEF Routing!ToSet
<1>8. \A i : i \in 1 .. n => i \in DOMAIN table.entries /\ Flat(table.entries[i])
  BY ONLY <1>1
<1>9. ASSUME NEW i \in 1 .. n, NEW params, Serves(i, params),
             R[i].kind = "static" => DOMAIN params = {},
             R[i].kind = "dynamic" => DOMAIN params = Routing!ToSet(Routing!Groups(R[i].pattern)),
             R[i].kind \in {"static", "dynamic"}
      PROVE  reply.status = 500 <=> ~(Routing!ToSet(Needs[h]) \subseteq Routing!Declared(p))
  <2>1. \A x : /\ x \in Routing!ToSet(<<i>>) <=> x = i
               /\ \A y : x \in Routing!ToSet(<<y>>) <=> x = y
    BY DEF Routing!ToSet
  <2>2. k = i /\ reply.handler # <<>>
    BY ONLY <1>7, <1>9, <2>1, k \in Routing!ToSet(reply.entry), h \in Routing!ToSet(reply.handler)
    DEF Serves
  <2>3. reply.status = Routing!Handled(h, params)
    BY ONLY <1>9, <2>1, <2>2, h \in Routing!ToSet(reply.handler) DEF Serves
  <2>4. RouteOf(R[i], p)
    <3>1. i \in DOMAIN table.entries /\ Flat(table.entries[i])
      BY ONLY <1>8, i \in 1 .. n
    <3>2. p = <<Routing!Slash>> \o Routing!FullPath(table.entries[i]) \o <<Routing!Slash>>
      BY ONLY <1>0, <2>2
    <3>3. RouteOf(RoutesOf(table.entries)[i], p)
      BY ONLY <3>1, <3>2, EntryRoute, Zenon
    <3> QED
      BY ONLY <1>2, <3>3
  <2>5. \A x : x \in DOMAIN params <=> x \in Routing!Declared(p)
    BY ONLY <1>9, <2>4 DEF RouteOf
  <2>6. reply.status = (IF Routing!ToSet(Needs[h]) \subseteq DOMAIN params THEN 200 ELSE 500)
    BY ONLY <2>3 DEF Routing!Handled
  <2> QED
    BY ONLY <2>5, <2>6
<1>10. \A pattern : DOMAIN Routing!Captures(pattern, t) = Routing!ToSet(Routing!Groups(pattern))
  BY DEF Routing!Captures
<1>11. \/ ServesNone
       \/ t \in DOMAIN static /\ Serves(static[t], <<>>)
       \/ /\ M # {}
          /\ Serves(dynamic[Routing!Min(M)].entry,
                    Routing!Captures(dynamic[Routing!Min(M)].route.pattern, t))
  <2>1. Outcome(table.dynamic, table.static, M, t)
    BY ONLY <1>3, <1>4, reply = Routing!Routed(q), RoutedIs, Zenon
  <2> QED
    BY ONLY <1>5, <2>1 DEF Outcome
<1>12. CASE ServesNone
  BY ONLY <1>7, <1>12, k \in Routing!ToSet(reply.entry) DEF ServesNone
<1>13. CASE t \in DOMAIN static /\ Serves(static[t], <<>>)
  <2>1. PICK i : i = static[t] /\ i \in 1 .. n /\ R[i].kind = "static" /\ Serves(i, <<>>)
    BY ONLY <1>6, <1>13
  <2>2. DOMAIN <<>> = {}
    OBVIOUS
  <2> QED
    BY ONLY <1>9, <2>1, <2>2
<1>14. CASE /\ M # {}
            /\ Serves(dynamic[Routing!Min(M)].entry,
                      Routing!Captures(dynamic[Routing!Min(M)].route.pattern, t))
  <2>1. M \subseteq Nat /\ M \subseteq DOMAIN dynamic
    BY ONLY <1>4, <1>5, <1>6
  <2>2. PICK first : first = Routing!Min(M) /\ first \in DOMAIN dynamic
    BY ONLY <1>14, <2>1, FirstExists
  <2>3. PICK i, params : /\ i = dynamic[first].entry
                         /\ params = Routing!Captures(dynamic[first].route.pattern, t)
    OBVIOUS
  <2>4. i \in 1 .. n /\ R[i].kind = "dynamic" /\ dynamic[first].route = R[i]
    BY ONLY <1>6, <2>2, <2>3
  <2>5. Serves(i, params) /\ DOMAIN params = Routing!ToSet(Routing!Groups(R[i].pattern))
    BY ONLY <1>10, <1>14, <2>2, <2>3, <2>4
  <2> QED
    BY ONLY <1>9, <2>4, <2>5
<1> QED
  BY ONLY <1>11, <1>12, <1>13, <1>14

(* Only the request that was routed last is answered, by a table that was  *)
(* built.                                                                  *)
Answered ==
  reply = Routing!NoReply \/ (table.state = "ok" /\ \E q \in Asked : reply = Routing!Routed(q))

RouteInv == RouterInv /\ EntryPaths /\ TableGood /\ Answered

(* RouteInv is inductive.                                                  *)
LEMMA RouteSteps ==
  ASSUME RouteInv, [Routing!Next]_(Routing!vars)
  PROVE  RouteInv'
<1>1. RouterInv' /\ EntryPaths'
  BY RouterSteps, PathSteps DEF RouteInv
<1>2. ASSUME UNCHANGED table PROVE TableGood'
  <2>1. PICK n \in Nat : /\ DOMAIN table.entries = 1 .. n
                         /\ \A k \in 1 .. n : Flat(table.entries[k])
                         /\ Faithful(table, RoutesOf(table.entries), n)
                         /\ table.state = "ok" => Holds(table, n)
    BY DEF RouteInv, TableGood
  <2>2. /\ DOMAIN table'.entries = 1 .. n
        /\ \A k \in 1 .. n : Flat(table'.entries[k])
        /\ Faithful(table', RoutesOf(table'.entries), n)
        /\ table'.state = "ok" => Holds(table', n)
    BY ONLY <1>2, <2>1
  <2> QED
    BY ONLY <2>2, n \in Nat, Zenon DEF TableGood, Flat, RoutesOf, Faithful, Holds
<1>3. ASSUME UNCHANGED table PROVE \A q \in Asked : Routing!Routed(q)' = Routing!Routed(q)
  BY <1>3 DEF Routing!Routed, Routing!Called
<1>4. ASSUME UNCHANGED <<table, reply>> PROVE Answered'
  BY <1>4, <1>3 DEF RouteInv, Answered
<1>5. ASSUME NEW q \in Asked, Routing!call(q) PROVE TableGood' /\ Answered'
  <2>1. UNCHANGED table /\ table.state = "ok" /\ reply' = Routing!Routed(q)
    BY <1>5 DEF Routing!call
  <2>2. Routing!Routed(q)' = Routing!Routed(q)
    BY <1>3, <2>1
  <2> QED
    BY <1>2, <2>1, <2>2 DEF Answered
<1>6. ASSUME NEW r \in Routers, NEW prefix \in RouteScopes, Routing!routes(r, prefix)
      PROVE  TableGood' /\ Answered'
  <2>1. TableGood'
    BY <1>6, TableBuilt DEF RouteInv
  <2>2. table = Routing!NoTable /\ UNCHANGED reply
    BY <1>6 DEF Routing!routes
  <2>3. table.state # "ok"
    BY <2>2 DEF Routing!NoTable
  <2> QED
    BY <2>1, <2>2, <2>3 DEF RouteInv, Answered
<1>7. CASE UNCHANGED <<table, reply>>
  BY <1>1, <1>2, <1>4, <1>7 DEF RouteInv
<1> QED
  BY <1>1, <1>5, <1>6, <1>7
  DEF RouteInv, Routing!Next, Routing!on, Routing!include, Routing!gate, Routing!vars

(* It holds of the routers a program begins with.                          *)
LEMMA RouteStarts == Routing!Init => RouteInv
<1> SUFFICES ASSUME Routing!Init PROVE RouteInv
  OBVIOUS
<1>1. RouterInv
  BY RouterStarts
<1>2. \A q \in Routers : routers[q].entries = <<>>
  BY DEF Routing!Init, Routing!New
<1>3. EntryPaths
  <2>1. \A e : e \notin Routing!ToSet(<<>>)
    BY DEF Routing!ToSet
  <2> QED
    BY <1>2, <2>1 DEF EntryPaths
<1>4. TableGood
  <2>1. /\ table.state # "ok" /\ table.static = <<>> /\ table.dynamic = <<>>
        /\ table.entries = <<>>
    BY DEF Routing!Init, Routing!NoTable
  <2>2. DOMAIN <<>> = 1 .. 0 /\ 0 \in Nat /\ (\A x : x \notin DOMAIN <<>>) /\ \A x : x \notin 1 .. 0
    OBVIOUS
  <2> QED
    BY <2>1, <2>2 DEF TableGood, Faithful
<1>5. Answered
  BY DEF Routing!Init, Answered
<1> QED
  BY <1>1, <1>3, <1>4, <1>5 DEF RouteInv

(* RouteInv says what RoutedAsRegistered does.                             *)
LEMMA RouteSays == RouteInv => Routing!RoutedAsRegistered
<1> SUFFICES ASSUME RouteInv PROVE Routing!RoutedAsRegistered
  OBVIOUS
<1>1. TableGood
  BY DEF RouteInv
<1>2. Routing!NoEndpointReplaced
  BY <1>1, HoldsAll DEF TableGood, BuiltWhole
<1>3. Routing!NestedPathsFlat
  BY <1>1, FlatIsFlat
<1>4. CASE reply = Routing!NoReply
  <2>1. reply.status = 0 /\ reply.entry = <<>>
    BY <1>4 DEF Routing!NoReply
  <2>2. \A x : x \notin Routing!ToSet(<<>>)
    BY DEF Routing!ToSet
  <2>3. Routing!FirstRouteServes
    BY ONLY <2>1 DEF Routing!FirstRouteServes
  <2>4. Routing!MissingParamNotDeclared
    BY ONLY <2>1, <2>2 DEF Routing!MissingParamNotDeclared
  <2> QED
    BY <1>2, <1>3, <2>3, <2>4 DEF Routing!RoutedAsRegistered
<1>5. CASE table.state = "ok" /\ \E q \in Asked : reply = Routing!Routed(q)
  <2>1. Routing!FirstRouteServes
    BY <1>1, <1>5, ServesFirst
  <2>2. Routing!MissingParamNotDeclared
    BY <1>1, <1>5, MissesUndeclared
  <2> QED
    BY <1>2, <1>3, <2>1, <2>2 DEF Routing!RoutedAsRegistered
<1> QED
  BY <1>4, <1>5 DEF RouteInv, Answered

(* Requests are routed as the paths were registered: no endpoint of a      *)
(* router is lost or replaced, nested routers give their endpoints the     *)
(* paths they would have had if they had been registered at once, a        *)
(* request is served by the endpoint of exactly its path, else by the first*)
(* that matches, and it is not found only when none does, and a handler    *)
(* misses a parameter exactly when its path does not declare it. This holds*)
(* for any number of routers, however they are nested, and any paths.      *)
THEOREM RoutesAsRegistered == Spec => []RoutedAsRegistered
<1> DEFINE Inv == part = "router" => RouteInv
<1>1. Init => Inv
  BY RouteStarts DEF Init
<1>2. Inv /\ [Next]_vars => Inv'
  BY LayersApart, RouteSteps
<1>3. Inv => RoutedAsRegistered
  BY RouteSays, Zenon DEF RoutedAsRegistered
<1> QED
  BY <1>1, <1>2, <1>3, PTL DEF Spec

(* A table that is built has every endpoint of its router once, and none   *)
(* replaces another, for any number of entries and whatever their paths.   *)
THEOREM EndpointsAreKept == Spec => [](part = "router" => Routing!NoEndpointReplaced)
<1>1. RoutedAsRegistered => (part = "router" => Routing!NoEndpointReplaced)
  BY DEF RoutedAsRegistered, Routing!RoutedAsRegistered
<1> QED
  BY <1>1, RoutesAsRegistered, PTL

=============================================================================
