---------------------------- MODULE HttpExchange ----------------------------
(***************************************************************************)
(* The HTTP edge of a service: a request between its arrival and its       *)
(* response.  The order of the stages is NestJS's, which is external, as   *)
(* bootstrapService sets it up:                                            *)
(*                                                                         *)
(*   body parser -> CorrelationIdMiddleware -> TenantContextMiddleware     *)
(*   -> guards -> ResultInterceptor( pipes -> handler ) -> response        *)
(*                                                                         *)
(* An exception before the interceptor, or one that comes out of it, goes  *)
(* to GlobalExceptionFilter.  Pipes and handler run inside next.handle(),  *)
(* so theirs go to the interceptor.  An EMPTY stream is an exception in    *)
(* its turn: Nest awaits a last value that never comes.                    *)
(***************************************************************************)
EXTENDS Naturals

CONSTANTS
    Request,    \* requests to one process
    Header,     \* the X-Correlation-ID each carries, NoId if none
    OrgHeader,  \* the X-Tenant-ID each carries, NoTenant if none
    TokenOrg,   \* the organization in each one's token
    NoId, NoTenant,
    Public,     \* requests of @Public() routes
    Guarded,    \* requests of routes with @Roles(...)
    Direct,     \* requests whose handler writes the response itself (@Res)
    ErrorType   \* what failed Results carry

StatusOf == [NOT_FOUND |-> 404, FORBIDDEN |-> 403, UNAUTHORIZED |-> 401,
             CONFLICT |-> 409, VALIDATION_ERROR |-> 400,
             UNPROCESSABLE_ENTITY |-> 422, INTERNAL_ERROR |-> 500,
             undefined |-> 500]

(* The HttpExceptions of the framework, by who throws them.                *)
StatusOfRefusal == [body |-> 400, route |-> 404, throttler |-> 429,
                    token |-> 401, role |-> 403, pipe |-> 400]

Refusal == DOMAIN StatusOfRefusal

(* A request without an id is given a uuid: here, the request itself.      *)
IdOf(q) == IF Header[q] # NoId THEN Header[q] ELSE q

Id == {IdOf(q) : q \in Request} \cup {NoId}

Org == {OrgHeader[q] : q \in Request} \cup {TokenOrg[q] : q \in Request}

ASSUME EdgeAssumption ==
    /\ NoId \notin Request
    /\ ErrorType \subseteq DOMAIN StatusOf

VARIABLES
    pc,         \* the stage a request is in
    scope,      \* correlationStore.getStore() in the async scope of q
    tenant,     \* tenantStore.getStore() in the async scope of q
    user,       \* req.user: none, one with a required role, one without
    raised,     \* the exception or failed Result that is on its way
    response,   \* the status sent (0: headers not sent), X-Correlation-ID;
                \* history: whether it is the handler's own
    outcome,    \* history: what the handler came to
    refusedBy,  \* history: the stage of the framework that refused q
    logged      \* history: the ids that log lines of q carry

edge == <<pc, scope, tenant, user, raised, response, outcome, refusedBy, logged>>

Stages == {"idle", "parse", "authenticate", "authorize", "pipes", "handler",
           "failed", "caught", "send", "filter", "done"}

TypeOK ==
    /\ pc \in [Request -> Stages]
    /\ scope \in [Request -> Id]
    /\ tenant \in [Request -> Org \cup {NoTenant}]
    /\ user \in [Request -> {"none", "entitled", "other"}]
    /\ raised \in [Request -> Refusal \cup ErrorType \cup {"none", "error"}]
    /\ response \in [Request -> [status : Nat, id : Id, own : BOOLEAN]]
    /\ outcome \in [Request -> ErrorType \cup {"none", "success", "error"}]
    /\ refusedBy \in [Request -> Refusal \cup {"none"}]
    /\ logged \in [Request -> SUBSET Id]

Init ==
    /\ pc = [q \in Request |-> "idle"]
    /\ scope = [q \in Request |-> NoId]
    /\ tenant = [q \in Request |-> NoTenant]
    /\ user = [q \in Request |-> "none"]
    /\ raised = [q \in Request |-> "none"]
    /\ response = [q \in Request |-> [status |-> 0, id |-> NoId, own |-> FALSE]]
    /\ outcome = [q \in Request |-> "none"]
    /\ refusedBy = [q \in Request |-> "none"]
    /\ logged = [q \in Request |-> {}]

Goto(q, stage) == pc' = [pc EXCEPT ![q] = stage]
Raise(q, e) == raised' = [raised EXCEPT ![q] = e]
HeadersSent(q) == response[q].status # 0

Arrive(q) ==
    /\ pc[q] = "idle"
    /\ Goto(q, "parse")
    /\ UNCHANGED <<scope, tenant, user, raised, response, outcome, refusedBy, logged>>

-----------------------------------------------------------------------------
(* A stage of the framework throws an HttpException.                       *)
Refuse(q, who, stage) ==
    /\ Raise(q, who)
    /\ refusedBy' = [refusedBy EXCEPT ![q] = who]
    /\ Goto(q, stage)
    /\ UNCHANGED <<scope, tenant, user, response, outcome, logged>>

ParseFails(q) == pc[q] = "parse" /\ Refuse(q, "body", "filter")

(* Faulty variant: the id is kept in a variable of the module.             *)
CorrelateShared(q) ==
    /\ scope' = [r \in Request |-> IdOf(q)]
    /\ response' = [response EXCEPT ![q].id = IdOf(q)]

(* CorrelationIdMiddleware: the header, the response, the async store.     *)
Correlate(q) ==
    /\ scope' = [scope EXCEPT ![q] = IdOf(q)]
    /\ response' = [response EXCEPT ![q].id = IdOf(q)]

(* Faulty variant: the tenant is kept in a variable of the module.         *)
EnterTenantShared(q) == tenant' = [r \in Request |-> OrgHeader[q]]

(* TenantContextMiddleware: the organization of req.user, or the header's. *)
(* The guards have not run: there is no req.user yet.                      *)
EnterTenant(q) ==
    tenant' = [tenant EXCEPT ![q] = IF user[q] # "none" THEN TokenOrg[q] ELSE OrgHeader[q]]

(* Both middlewares call next() in the same turn of the event loop.        *)
Middleware(q) ==
    /\ pc[q] = "parse"
    /\ Correlate(q)
    /\ EnterTenant(q)
    /\ Goto(q, "authenticate")
    /\ UNCHANGED <<user, raised, outcome, refusedBy, logged>>

(* No such route, too many requests, or a token that does not verify.      *)
AuthenticateFails(q) ==
    /\ pc[q] = "authenticate"
    /\ \/ Refuse(q, "route", "filter")
       \/ Refuse(q, "throttler", "filter")
       \/ q \notin Public /\ Refuse(q, "token", "filter")

(* JwtAuthGuard: a public route needs no token, and gets no user.          *)
Authenticate(q) ==
    /\ pc[q] = "authenticate"
    /\ \/ q \in Public /\ UNCHANGED user
       \/ /\ q \notin Public
          /\ \E u \in {"entitled", "other"} : user' = [user EXCEPT ![q] = u]
    /\ Goto(q, "authorize")
    /\ UNCHANGED <<scope, tenant, raised, response, outcome, refusedBy, logged>>

(* RolesGuard.                                                             *)
Authorize(q) ==
    /\ pc[q] = "authorize"
    /\ \/ /\ q \notin Guarded \/ user[q] = "entitled"
          /\ Goto(q, "pipes")
          /\ UNCHANGED <<scope, tenant, user, raised, response, outcome, refusedBy, logged>>
       \/ /\ q \in Guarded /\ user[q] # "entitled"
          /\ Refuse(q, "role", "filter")

(* The global ValidationPipe.                                              *)
PipeFails(q) == pc[q] = "pipes" /\ Refuse(q, "pipe", "caught")

(* It transforms the arguments; LogBehavior reads the store in the handler.*)
Pipe(q) ==
    /\ pc[q] = "pipes"
    /\ Goto(q, "handler")
    /\ logged' = [logged EXCEPT ![q] = @ \cup {scope[q]}]
    /\ UNCHANGED <<scope, tenant, user, raised, response, outcome, refusedBy>>

-----------------------------------------------------------------------------
(* A handler with @Res() answers by itself, as MetricsController does.     *)
HandlerWrites(q) ==
    /\ pc[q] = "handler"
    /\ q \in Direct
    /\ ~HeadersSent(q)
    /\ response' = [response EXCEPT ![q] = [status |-> 200, id |-> @.id, own |-> TRUE]]
    /\ UNCHANGED <<pc, scope, tenant, user, raised, outcome, refusedBy, logged>>

Conclude(q, result) ==
    /\ outcome' = [outcome EXCEPT ![q] = result]
    /\ UNCHANGED <<scope, tenant, user, response, refusedBy, logged>>

(* Faulty variant: failed Results are passed on like any other value.      *)
HandlerReturnsUnseen(q, result) ==
    /\ pc[q] = "handler"
    /\ Goto(q, "send")
    /\ UNCHANGED raised
    /\ Conclude(q, result)

(* The handler settles: switchMap looks for a failed Result.  One that is  *)
(* to write the response has written it when it returns something else.    *)
HandlerReturns(q, result) ==
    /\ pc[q] = "handler"
    /\ \/ /\ result = "success"
          /\ q \in Direct => HeadersSent(q)
          /\ Goto(q, "send")
          /\ UNCHANGED raised
       \/ result \in ErrorType /\ Goto(q, "failed") /\ Raise(q, result)
    /\ Conclude(q, result)

(* It throws, an Error or a Result.                                        *)
HandlerThrows(q, result) ==
    /\ pc[q] = "handler"
    /\ Goto(q, "caught")
    /\ Raise(q, result)
    /\ Conclude(q, result)

Log(q) == logged' = [logged EXCEPT ![q] = @ \cup {scope[q]}]

(* The headers can be set and the body sent if that has not happened yet.  *)
Write(q, status) ==
    response' = [response EXCEPT ![q] =
                   [status |-> status, id |-> IF scope[q] # NoId THEN scope[q] ELSE @.id,
                    own |-> @.own]]

(* What sendResultError makes of what catchError has caught: an exception  *)
(* of whatever kind is an InternalError.                                   *)
StatusOfResult(e) == IF e \in ErrorType THEN StatusOf[e] ELSE 500

(* sendResultError in switchMap and in catchError; then EMPTY.  It throws  *)
(* if the response is written: first into catchError, then out of it.      *)
SendResultError(q) ==
    /\ pc[q] \in {"failed", "caught"}
    /\ \/ /\ ~HeadersSent(q)
          /\ Write(q, StatusOfResult(raised[q]))
          /\ Log(q)
          /\ Goto(q, "filter")
       \/ /\ HeadersSent(q)
          /\ Goto(q, IF pc[q] = "failed" THEN "caught" ELSE "filter")
          /\ UNCHANGED <<response, logged>>
    /\ Raise(q, "error")
    /\ UNCHANGED <<scope, tenant, user, outcome, refusedBy>>

(* Nest sends the value, unless the handler did.                           *)
Send(q) ==
    /\ pc[q] = "send"
    /\ response' = [response EXCEPT ![q].status = IF HeadersSent(q) THEN @ ELSE 200]
    /\ Goto(q, "done")
    /\ UNCHANGED <<scope, tenant, user, raised, outcome, refusedBy, logged>>

(* The value cannot be serialized.                                         *)
SendFails(q) ==
    /\ pc[q] = "send"
    /\ ~HeadersSent(q)
    /\ Raise(q, "error")
    /\ Goto(q, "filter")
    /\ UNCHANGED <<scope, tenant, user, response, outcome, refusedBy, logged>>

(* Faulty variant: the filter leaves every exception that is not an        *)
(* HttpException to the interceptor.                                       *)
FilterHttpOnly(q) ==
    /\ pc[q] = "filter"
    /\ \/ /\ HeadersSent(q) \/ raised[q] \notin Refusal
          /\ UNCHANGED <<response, logged>>
       \/ /\ ~HeadersSent(q) /\ raised[q] \in Refusal
          /\ Write(q, StatusOfRefusal[raised[q]])
          /\ Log(q)
    /\ Goto(q, "done")
    /\ UNCHANGED <<scope, tenant, user, raised, outcome, refusedBy>>

(* GlobalExceptionFilter.                                                  *)
Filter(q) ==
    /\ pc[q] = "filter"
    /\ \/ HeadersSent(q) /\ UNCHANGED <<response, logged>>
       \/ /\ ~HeadersSent(q)
          /\ Write(q, IF raised[q] \in Refusal THEN StatusOfRefusal[raised[q]] ELSE 500)
          /\ Log(q)
    /\ Goto(q, "done")
    /\ UNCHANGED <<scope, tenant, user, raised, outcome, refusedBy>>

-----------------------------------------------------------------------------
(* The stages before and after the handler, ...                            *)
Inbound(q) ==
    \/ ParseFails(q) \/ Middleware(q)
    \/ AuthenticateFails(q) \/ Authenticate(q) \/ Authorize(q)
    \/ PipeFails(q) \/ Pipe(q)

Outbound(q) == SendResultError(q) \/ Send(q) \/ SendFails(q) \/ Filter(q)

(* ... and the handler coming to its end.                                  *)
HandlerEnds(q) ==
    \/ \E result \in ErrorType \cup {"success"} : HandlerReturns(q, result)
    \/ \E result \in ErrorType \cup {"error"} : HandlerThrows(q, result)

Proceed(q) == Inbound(q) \/ HandlerWrites(q) \/ HandlerEnds(q) \/ Outbound(q)

Next == \E q \in Request : Arrive(q) \/ Proceed(q)

Spec == Init /\ [][Next]_edge

-----------------------------------------------------------------------------
(* The status goes with the refusal or with what the handler came to.      *)
Honest(q) ==
    LET status == response[q].status
    IN  /\ refusedBy[q] \notin {"none", "pipe"} => status = StatusOfRefusal[refusedBy[q]]
        /\ refusedBy[q] # "none" => outcome[q] = "none" /\ status \in 400 .. 599
        /\ outcome[q] = "success" => status \in {200, 500}
        /\ outcome[q] = "error" => status = 500
        /\ outcome[q] \in ErrorType => status = StatusOf[outcome[q]]

(* The status of a response tells what happened.  A refusal before the     *)
(* handler has the refusal's status, and the handler has not run; a failed *)
(* Result has the status of its type; 200 means success, and so does, for  *)
(* a reply that could not be serialized, the one 500 that does not mean    *)
(* failure.  A response the handler has written itself stays as it is,     *)
(* whatever the handler comes to after it and the interceptor makes of it. *)
(* (ResultInterceptor L13-21, L63-92, filter L39, L64-124)                 *)
StatusTellsOutcome ==
    \A q \in Request :
        /\ response[q].own => response[q].status = 200
        /\ pc[q] = "done" /\ ~response[q].own => Honest(q)

(* A response and the log lines of a request carry the request's own id,   *)
(* however requests interleave; without one go only those of a request     *)
(* that never reached the middleware.  (CorrelationIdMiddleware L10-25)    *)
OwnCorrelation ==
    \A q \in Request :
        refusedBy[q] # "body"
          => /\ response[q].status # 0 => response[q].id = IdOf(q)
             /\ logged[q] \subseteq {IdOf(q)}

(* "Global exception filter for framework-level exceptions (guards, pipes, *)
(* throttler)" (GlobalExceptionFilter L25): a request the ValidationPipe   *)
(* refuses is answered with its 400.  The interceptor gets it first (L46). *)
PipeRefusalIsBadRequest ==
    \A q \in Request :
        pc[q] = "done" /\ refusedBy[q] = "pipe" => response[q].status = StatusOfRefusal.pipe

(* Every request that arrives comes to its end, and with a response: the   *)
(* EMPTY stream after a failed Result, the error that sendResultError      *)
(* throws over a response already sent and a value that is not serialized  *)
(* all end in the filter.  (ResultInterceptor L39-59, filter L33-62)       *)
EveryRequestAnswered ==
    \A q \in Request : pc[q] = "parse" ~> (pc[q] = "done" /\ HeadersSent(q))
=============================================================================
