-------------------------- MODULE RequestPipeline ---------------------------
(***************************************************************************)
(* One HTTP request on its way through the API, together with the sessions *)
(* its guard looks up:                                                     *)
(*   apps/api/src/infrastructure/http/configure-app.ts,                    *)
(*   request-middleware.ts, api-exception.filter.ts, ../write/             *)
(*   request-parsing.ts, write-executor.ts, auth/auth.guard.ts, and the    *)
(*   tables of Contract, Handlers and ApiClient.                           *)
(*                                                                         *)
(* The request comes from the web application or from somebody who departs *)
(* from the contract in one thing.  The guard's lookup is SignIn's         *)
(* request r: it interleaves with the recovery commands.  A failure of the *)
(* database (500) is left out, so 500 stands for an error of the wiring.   *)
(***************************************************************************)
EXTENDS SignIn, Handlers, ApiClient, FiniteSets

VARIABLE call           \* the HTTP request in flight, or its answer

NoCall == [stage |-> "none"]
pipelineVars == <<vars, call>>

-----------------------------------------------------------------------------
(* The requests that arrive.                                               *)

Safe(method) == method \in {"get", "head", "options"}
IfAny(needed, value) == IF needed THEN value ELSE None

(* What the contract asks of a request for the operation.                  *)
Asked(op) ==
    LET spec == Operations[op] IN
    [op |-> op, web |-> FALSE,
     origin |-> IfAny(~Safe(spec.method), "allowed"),
     type |-> IfAny(spec.body, "json"), body |-> IfAny(spec.body, "valid"),
     app |-> TRUE, cookie |-> spec.session,
     csrf |-> spec.session /\ ~Safe(spec.method),
     path |-> "possible", query |-> "declared",
     key |-> IfAny(spec.keyed, "fresh"), ifMatch |-> spec.target]

(* One thing is otherwise.                                                 *)
Departures(q) ==
    {[q EXCEPT !.origin = o] : o \in {None, "foreign"}}
    \cup {[q EXCEPT !.type = "other", !.body = "valid"]}
    \cup {[q EXCEPT !.type = "json", !.body = b] :
            b \in {"valid", "invalid", "malformed", "oversized"}}
    \cup {[q EXCEPT !.body = None, !.type = None]}
    \cup {[q EXCEPT !.app = FALSE], [q EXCEPT !.cookie = FALSE], [q EXCEPT !.csrf = FALSE]}
    \cup {[q EXCEPT !.path = "impossible"], [q EXCEPT !.query = "undeclared"]}
    \cup {[q EXCEPT !.key = k] : k \in {None, "malformed", "answered"}}
    \cup {[q EXCEPT !.ifMatch = m] : m \in {None, "stale"}}

(* createApiClient().send(), its fetch, and the browser's headers.         *)
FromWeb(op) ==
    LET sent == WebCalls[op] IN
    [op |-> op, web |-> TRUE,
     origin |-> IfAny(~Safe(Operations[op].method), "allowed"),
     type |-> IfAny(sent.body, "json"), body |-> IfAny(sent.body, "valid"),
     app |-> TRUE, cookie |-> TRUE, csrf |-> sent.csrf,
     path |-> "possible", query |-> "declared",
     key |-> IfAny(sent.key, "fresh"), ifMatch |-> sent.ifMatch]

(* A retry carries the key of a request that may have been answered; the   *)
(* record may have changed since it was read.                              *)
FromTheWeb(op) ==
    LET q == FromWeb(op) IN
    {sent \in {q, [q EXCEPT !.key = "answered"], [q EXCEPT !.ifMatch = "stale"]} :
        /\ sent.key = None <=> q.key = None
        /\ sent.ifMatch = None <=> q.ifMatch = None}

Requested ==
    (UNION {{Asked(op)} \cup Departures(Asked(op)) : op \in DOMAIN Operations})
    \cup (UNION {FromTheWeb(op) : op \in DOMAIN WebCalls})

(* Bound of the model: one session, open or logged out, and at most one    *)
(* recovery command under way, which revokes the sessions.                 *)
Quiet ==
    /\ clock = 0 /\ changes = 0
    /\ Cardinality(Opened) = 1
    /\ \A l \in Logins : l \notin Opened => login[l] = Idle
    /\ \A c \in Commands : command[c].stage /= "idle" =>
          command[c].stage = "run" /\ command[c].kind = "revoke"
    /\ Cardinality({c \in Commands : command[c] /= Idle}) <= 1

Arrive(r) ==
    /\ call = NoCall
    /\ Quiet
    /\ request[r] = Idle
    /\ \E q \in Requested : call' = [stage |-> "received", request |-> q, by |-> r]
    /\ UNCHANGED vars

-----------------------------------------------------------------------------
(* The middleware, the body parser and the routes: the status of the first *)
(* refusal, or Pass.                                                       *)

Pass == 0

OriginRefused(q) ==
    \/ q.origin = "foreign"
    \/ ~Safe(Operations[q.op].method) /\ q.origin = None

(* createRequestPolicyMiddleware().                                        *)
PolicyStatus(q) ==
    IF OriginRefused(q) THEN 403
    ELSE IF ~Safe(Operations[q.op].method) /\ q.body /= None /\ q.type /= "json" THEN 400
    ELSE Pass

\* Fault: an oversized body is 413, whatever the operation declares.
OversizedIs413(op) == 413

(* toApiError(): 413 is 400 for an operation that does not declare it.     *)
OversizedStatus(op) == IF 413 \in Operations[op].errors THEN 413 ELSE 400

(* The JSON body parser, before any route.                                 *)
ParserStatus(q) ==
    IF q.type /= "json" THEN Pass
    ELSE IF q.body = "oversized" THEN OversizedStatus(q.op)
    ELSE IF q.body = "malformed" THEN 400 ELSE Pass

(* No route: 404.  A public route: its own header.                         *)
RouteStatus(q) ==
    IF q.op \notin DOMAIN Routes THEN 404
    ELSE IF Routes[q.op].appOnly /\ ~q.app THEN 403 ELSE Pass

FirstRefusal(statuses) ==
    LET refused == {i \in DOMAIN statuses : statuses[i] /= Pass} IN
    IF refused = {} THEN Pass ELSE statuses[CHOOSE i \in refused : \A j \in refused : i <= j]

Answered(status, etag) ==
    [stage |-> "answered", request |-> call.request, status |-> status, etag |-> etag]

Receive ==
    LET q == call.request
        status == FirstRefusal(<<PolicyStatus(q), ParserStatus(q), RouteStatus(q)>>)
    IN
    /\ call.stage = "received"
    /\ call' = IF status /= Pass THEN Answered(status, FALSE)
               ELSE [call EXCEPT !.stage = IF Routes[q.op].public THEN "handle" ELSE "guard"]
    /\ UNCHANGED vars

-----------------------------------------------------------------------------
(* AuthGuard.                                                              *)

NoCookie ==
    /\ call.stage = "guard" /\ ~call.request.cookie
    /\ call' = Answered(401, FALSE)
    /\ UNCHANGED vars

LookUpSession ==
    /\ call.stage = "guard" /\ call.request.cookie
    /\ \E s \in Opened : ReadSession(call.by, s)
    /\ call' = [call EXCEPT !.stage = "lookup"]

LookUpUser ==
    /\ call.stage = "lookup"
    /\ ReadUser(call.by)
    /\ UNCHANGED call

PurposeOf(q) ==
    IF q.op = "logout" THEN "logout"
    ELSE IF q.app \/ ~Safe(Operations[q.op].method) THEN "app" ELSE "plain"

CsrfHolds(q) == q.csrf \/ Safe(Operations[q.op].method)

Admit ==
    /\ call.stage = "lookup" /\ CsrfHolds(call.request)
    /\ Accept(call.by, PurposeOf(call.request))
    /\ call' = [call EXCEPT !.stage = "handle"]

(* The session or its CSRF token is not accepted.                          *)
TurnAway ==
    LET seen == request[call.by]
        usable == Usable(seen.row, seen.enabled, seen.epoch)
    IN
    /\ call.stage = "lookup" /\ seen.stage = "check"
    /\ ~usable \/ ~CsrfHolds(call.request)
    /\ Refuse(call.by)
    /\ call' = Answered(IF usable THEN 403 ELSE 401, FALSE)

(* recordActivity() and the service of logout.                             *)
Attend ==
    /\ call.stage = "handle"
    /\ RecordActivity(call.by) \/ Logout(call.by)
    /\ UNCHANGED call

-----------------------------------------------------------------------------
(* The handler, the executor and the service.                              *)

Declared(q) == Operations[q.op]
Handler(q) == Routes[q.op]

(* parsePathParam(), parseQuery(), parseBody(), in this order.             *)
PathStatus(q) ==
    IF ~Handler(q).path THEN Pass
    ELSE IF ~Declared(q).path THEN 500
    ELSE IF q.path = "impossible" THEN 404 ELSE Pass
QueryStatus(q) == IF Handler(q).query /\ q.query = "undeclared" THEN 400 ELSE Pass
BodyStatus(q) ==
    IF ~Handler(q).body THEN Pass
    ELSE IF q.body = IfAny(Declared(q).body, "valid") THEN Pass ELSE 422

(* execute(): its own checks, the claim's replay, checkPrecondition().     *)
WriteStatus(q) ==
    IF ~Handler(q).write THEN Pass
    ELSE IF ~Declared(q).keyed THEN 500
    ELSE IF q.key \in {None, "malformed"} THEN 400
    ELSE IF Declared(q).target /= None /\ q.ifMatch = None THEN 428
    ELSE Pass
PreconditionStatus(q) ==
    IF ~Handler(q).write \/ q.key = "answered" THEN Pass
    ELSE IF Handler(q).target /= Declared(q).target THEN 500
    ELSE IF Declared(q).target \notin {None, q.ifMatch} THEN 412
    ELSE Pass

HandlerStatus(q) ==
    FirstRefusal(<<PathStatus(q), QueryStatus(q), BodyStatus(q), WriteStatus(q),
                   PreconditionStatus(q)>>)

Handled == call.stage = "handle" /\ request[call.by] = Idle

RefuseInHandler ==
    /\ Handled /\ HandlerStatus(call.request) /= Pass
    /\ call' = Answered(HandlerStatus(call.request), FALSE)
    /\ UNCHANGED vars

(* The service refuses; a key may be in use (409).                         *)
RefuseInService ==
    LET q == call.request IN
    /\ Handled /\ HandlerStatus(q) = Pass
    /\ \E status \in Handler(q).refusals \cup (IF Handler(q).write THEN {409} ELSE {}) :
          call' = Answered(status, FALSE)
    /\ UNCHANGED vars

Succeed ==
    LET q == call.request IN
    /\ Handled /\ HandlerStatus(q) = Pass
    /\ q.op = "login" => q.body = "valid"
    /\ call' = Answered(Handler(q).code, Handler(q).etag)
    /\ UNCHANGED vars

PipelineInit == Init /\ call = NoCall

PipelineNext ==
    \/ call = NoCall /\ Next /\ UNCHANGED call
    \/ \E r \in Requests : Arrive(r)
    \/ Receive \/ NoCookie \/ LookUpSession \/ LookUpUser \/ Admit \/ TurnAway \/ Attend
    \/ RefuseInHandler \/ RefuseInService \/ Succeed
    \/ call.stage = "lookup" /\ (\E c \in Commands : RunCommand(c)) /\ UNCHANGED call

PipelineSpec == PipelineInit /\ [][PipelineNext]_pipelineVars

-----------------------------------------------------------------------------
(* Every answer -- of the middleware, the body parser, the routes, the     *)
(* guard, the executor or the service -- has the status of success or one  *)
(* of the error statuses the operation declares, however the request       *)
(* departs from the contract.                                              *)
AnswersAreDeclared ==
    call.stage = "answered" =>
        call.status \in {Declared(call.request).success} \cup Declared(call.request).errors

(* A call of the web application is never turned down for how it was made: *)
(* contract, handler and client agree on body, key, precondition and its   *)
(* record.  Only an ended session, a record that has changed, or the       *)
(* service's own reasons refuse it, and its answer has the ETag it awaits. *)
CallsAreUnderstood ==
    call.stage = "answered" /\ call.request.web =>
        LET q == call.request IN
        \/ call.status = Declared(q).success /\ (WebCalls[q.op].awaits => call.etag)
        \/ call.status = 401 /\ \A s \in Opened : ~Good(s)
        \/ call.status = 412 /\ q.ifMatch = "stale"
        \/ call.status \in Handler(q).refusals \cup (IF Handler(q).write THEN {409} ELSE {})
=============================================================================
