----------------------------- MODULE Edge_proofs -----------------------------
(***************************************************************************)
(* Theorems about Edge and the HttpExchange in it: for any number of       *)
(* requests, saves and connections, with any headers, routes and types of  *)
(* errors.                                                                 *)
(***************************************************************************)
EXTENDS Edge, TLAPS

-----------------------------------------------------------------------------
(* Every step of Edge is one of HttpExchange, or leaves it alone.          *)
THEOREM EdgeIsExchange == EdgeSpec => Spec
<1>1. EdgeInit => Init
  BY DEF EdgeInit
<1>2. [EdgeNext]_vars => [Next]_edge
  <2> SUFFICES ASSUME [EdgeNext]_vars PROVE [Next]_edge
    OBVIOUS
  <2>1. ASSUME NEW q \in Request, AtTheEdge(q) PROVE Next
    BY <2>1 DEF AtTheEdge, Next, Proceed
  <2>2. ASSUME NEW q \in Request, InHandler(q) PROVE Next \/ UNCHANGED edge
    BY <2>2 DEF InHandler, Next, Proceed
  <2>3. CASE UNCHANGED vars
    BY <2>3 DEF vars
  <2> QED
    BY <2>1, <2>2, <2>3 DEF EdgeNext, Served
<1> QED
  BY <1>1, <1>2, PTL DEF EdgeSpec, Spec

-----------------------------------------------------------------------------
(* Statuses are statuses of errors, and no failed Result passes for a      *)
(* refusal, a throw or a success.                                          *)
LEMMA Statuses ==
    /\ \A e \in ErrorType : StatusOf[e] \in 400 .. 599
    /\ \A who \in Refusal : StatusOfRefusal[who] \in 400 .. 599
    /\ \A e \in ErrorType : e \notin Refusal \cup {"none", "error", "success", "pipe"}
<1>1. \A e \in DOMAIN StatusOf : StatusOf[e] \in 400 .. 599
  BY DEF StatusOf
<1>2. \A e \in DOMAIN StatusOf : e \notin Refusal \cup {"none", "error", "success", "pipe"}
  BY DEF StatusOf, Refusal, StatusOfRefusal
<1>3. \A who \in Refusal : StatusOfRefusal[who] \in 400 .. 599
  BY DEF Refusal, StatusOfRefusal
<1> QED
  BY <1>1, <1>2, <1>3, EdgeAssumption

LEMMA Ids == \A q \in Request : IdOf(q) \in Id /\ IdOf(q) # NoId
  BY EdgeAssumption DEF IdOf, Id

LEMMA Types == TypeOK /\ [Next]_edge => TypeOK'
<1> SUFFICES ASSUME TypeOK, [Next]_edge PROVE TypeOK'
  OBVIOUS
<1> USE DEF TypeOK, Stages
<1>1. ASSUME NEW q \in Request, NEW who \in Refusal, NEW stage \in Stages, Refuse(q, who, stage)
      PROVE  TypeOK'
  BY <1>1 DEF Refuse, Goto, Raise
<1>2. Refusal = {"body", "route", "throttler", "token", "role", "pipe"}
  BY DEF Refusal, StatusOfRefusal
<1>16. ASSUME NEW q \in Request, NEW status \in Nat, Write(q, status), Log(q)
       PROVE  /\ response' \in [Request -> [status : Nat, id : Id, own : BOOLEAN]]
              /\ logged' \in [Request -> SUBSET Id]
  BY <1>16 DEF Write, Log
<1>3. ASSUME NEW q \in Request, Arrive(q) PROVE TypeOK'
  BY <1>3 DEF Arrive, Goto
<1>4. ASSUME NEW q \in Request, ParseFails(q) \/ AuthenticateFails(q) \/ PipeFails(q) PROVE TypeOK'
  BY <1>1, <1>2, <1>4 DEF ParseFails, AuthenticateFails, PipeFails
<1>5. ASSUME NEW q \in Request, Middleware(q) PROVE TypeOK'
  <2>1. tenant' \in [Request -> Org \cup {NoTenant}]
    BY <1>5 DEF Middleware, EnterTenant, Org
  <2> QED
    BY <1>5, <2>1, Ids DEF Middleware, Correlate, Goto
<1>6. ASSUME NEW q \in Request, Authenticate(q) PROVE TypeOK'
  BY <1>6 DEF Authenticate, Goto
<1>7. ASSUME NEW q \in Request, Authorize(q) PROVE TypeOK'
  BY <1>1, <1>2, <1>7 DEF Authorize, Goto
<1>8. ASSUME NEW q \in Request, Pipe(q) PROVE TypeOK'
  BY <1>8 DEF Pipe, Goto
<1>9. ASSUME NEW q \in Request, HandlerWrites(q) PROVE TypeOK'
  BY <1>9 DEF HandlerWrites
<1>10. ASSUME NEW q \in Request, HandlerEnds(q) PROVE TypeOK'
  <2>1. ASSUME NEW result \in ErrorType \cup {"success"}, HandlerReturns(q, result) PROVE TypeOK'
    BY <2>1 DEF HandlerReturns, Conclude, Goto, Raise
  <2>2. ASSUME NEW result \in ErrorType \cup {"error"}, HandlerThrows(q, result) PROVE TypeOK'
    BY <2>2 DEF HandlerThrows, Conclude, Goto, Raise
  <2> QED
    BY <1>10, <2>1, <2>2 DEF HandlerEnds
<1>11. ASSUME NEW q \in Request, SendResultError(q) PROVE TypeOK'
  <2>1. CASE UNCHANGED <<response, logged>>
    BY <1>11, <2>1 DEF SendResultError, Goto, Raise
  <2>2. CASE Write(q, StatusOfResult(raised[q])) /\ Log(q)
    <3>1. StatusOfResult(raised[q]) \in Nat
      <4>1. raised[q] \in ErrorType => StatusOf[raised[q]] \in 400 .. 599
        BY Statuses
      <4> QED
        BY <4>1 DEF StatusOfResult
    <3> QED
      BY <1>11, <1>16, <2>2, <3>1 DEF SendResultError, Goto, Raise
  <2> QED
    BY <1>11, <2>1, <2>2 DEF SendResultError
<1>12. ASSUME NEW q \in Request, Send(q) PROVE TypeOK'
  BY <1>12 DEF Send, Goto
<1>13. ASSUME NEW q \in Request, SendFails(q) PROVE TypeOK'
  BY <1>13 DEF SendFails, Goto, Raise
<1>14. ASSUME NEW q \in Request, Filter(q) PROVE TypeOK'
  <2> DEFINE status == IF raised[q] \in Refusal THEN StatusOfRefusal[raised[q]] ELSE 500
  <2>1. CASE UNCHANGED <<response, logged>>
    BY <1>14, <2>1 DEF Filter, Goto
  <2>2. CASE Write(q, status) /\ Log(q)
    <3>1. status \in Nat
      <4>1. raised[q] \in Refusal => StatusOfRefusal[raised[q]] \in 400 .. 599
        BY Statuses
      <4> QED
        BY <4>1
    <3> HIDE DEF status
    <3> QED
      BY <1>14, <1>16, <2>2, <3>1 DEF Filter, Goto
  <2> QED
    BY <1>14, <2>1, <2>2 DEF Filter
<1>15. CASE UNCHANGED edge
  BY <1>15 DEF edge
<1> QED
  BY <1>3, <1>4, <1>5, <1>6, <1>7, <1>8, <1>9, <1>10, <1>11, <1>12, <1>13, <1>14, <1>15
     DEF Next, Proceed, Inbound, Outbound

(* Every variable of the exchange keeps its type.                          *)
THEOREM TypeCorrect == EdgeSpec => []TypeOK
<1>1. Init => TypeOK
  BY DEF Init, TypeOK, Stages, Id
<1> QED
  BY <1>1, Types, EdgeIsExchange, PTL DEF Spec

-----------------------------------------------------------------------------
(* The response of q has been sent, and says what it should.               *)
Told(q) == response[q].status # 0 /\ Honest(q)

Unmet(q) == outcome[q] = "none" /\ refusedBy[q] = "none"

(* What is on its way to the interceptor, ...                              *)
Caught(q) ==
    \/ refusedBy[q] = "pipe" /\ raised[q] = "pipe" /\ outcome[q] = "none"
    \/ /\ refusedBy[q] = "none"
       /\ outcome[q] = raised[q] /\ raised[q] \in ErrorType \cup {"error"}

(* ... and to the filter: a refusal, a value that was not serialized, or,  *)
(* of a request that has been answered, whatever EMPTY comes to.           *)
Filtered(q) ==
    \/ /\ ~HeadersSent(q)
       /\ \/ /\ refusedBy[q] \in Refusal \ {"pipe"}
             /\ raised[q] = refusedBy[q] /\ outcome[q] = "none"
          \/ refusedBy[q] = "none" /\ raised[q] = "error" /\ outcome[q] = "success"
    \/ Told(q)

StageOK(q) ==
    /\ response[q].own => response[q].status = 200
    /\ pc[q] \in {"idle", "parse", "authenticate", "authorize", "pipes"}
          => ~HeadersSent(q) /\ Unmet(q)
    /\ pc[q] = "handler" => Unmet(q)
    /\ pc[q] = "failed" => refusedBy[q] = "none" /\ outcome[q] = raised[q] /\ raised[q] \in ErrorType
    /\ pc[q] = "send" => refusedBy[q] = "none" /\ outcome[q] = "success"
    /\ ~response[q].own =>
          /\ pc[q] \in {"handler", "failed", "caught", "send"} => ~HeadersSent(q)
          /\ pc[q] = "caught" => Caught(q)
          /\ pc[q] = "filter" => Filtered(q)
          /\ pc[q] = "done" => Told(q)

StageInv == \A q \in Request : StageOK(q)

(* A request none of whose variables is written keeps its part.            *)
LEMMA StageFrame ==
    ASSUME NEW q \in Request, StageOK(q),
           pc'[q] = pc[q], raised'[q] = raised[q],
           response'[q].status = response[q].status, response'[q].own = response[q].own,
           outcome'[q] = outcome[q], refusedBy'[q] = refusedBy[q]
    PROVE  StageOK(q)'
BY DEF StageOK, HeadersSent, Unmet, Caught, Filtered, Told, Honest

LEMMA StageRefused ==
    ASSUME TypeOK, StageInv, NEW q \in Request, NEW who \in Refusal, NEW stage,
           pc[q] \in {"parse", "authenticate", "authorize", "pipes"}, Refuse(q, who, stage),
           stage = IF who = "pipe" THEN "caught" ELSE "filter"
    PROVE  StageOK(q)'
<1>1. /\ pc'[q] = stage /\ raised'[q] = who /\ refusedBy'[q] = who
      /\ response'[q] = response[q] /\ outcome'[q] = outcome[q]
  BY DEF TypeOK, Refuse, Goto, Raise
<1>2. ~HeadersSent(q) /\ Unmet(q) /\ ~response[q].own
  BY DEF StageInv, StageOK, HeadersSent
<1> QED
  BY <1>1, <1>2 DEF StageOK, HeadersSent, Unmet, Caught, Filtered

LEMMA Stage == TypeOK /\ StageInv /\ [Next]_edge => StageInv'
<1> SUFFICES ASSUME TypeOK, StageInv, [Next]_edge PROVE StageInv'
  OBVIOUS
<1> DEFINE Others(q) ==
      \A r \in Request \ {q} :
          /\ pc'[r] = pc[r] /\ raised'[r] = raised[r] /\ outcome'[r] = outcome[r]
          /\ response'[r].status = response[r].status /\ response'[r].own = response[r].own
          /\ refusedBy'[r] = refusedBy[r]
<1>1. ASSUME NEW q \in Request, Others(q), StageOK(q)' PROVE StageInv'
  BY <1>1, StageFrame DEF StageInv
<1>2. Refusal = {"body", "route", "throttler", "token", "role", "pipe"}
  BY DEF Refusal, StatusOfRefusal
<1>3. ASSUME NEW q \in Request, NEW who \in Refusal,
             pc[q] \in {"parse", "authenticate", "authorize", "pipes"},
             Refuse(q, who, IF who = "pipe" THEN "caught" ELSE "filter")
      PROVE  StageInv'
  <2>1. Others(q)
    BY <1>3 DEF TypeOK, Refuse, Goto, Raise
  <2> QED
    BY <1>1, <1>3, <2>1, StageRefused
<1>4. ASSUME NEW q \in Request, Arrive(q) \/ Authenticate(q) \/ Pipe(q) PROVE StageInv'
  <2>1. Others(q)
    BY <1>4 DEF TypeOK, Arrive, Authenticate, Pipe, Goto
  <2>2. StageOK(q)'
    BY <1>4 DEF TypeOK, StageInv, StageOK, Arrive, Authenticate, Pipe, Goto, HeadersSent, Unmet
  <2> QED
    BY <1>1, <2>1, <2>2
<1>5. ASSUME NEW q \in Request, ParseFails(q) \/ AuthenticateFails(q) \/ PipeFails(q) PROVE StageInv'
  BY <1>2, <1>3, <1>5 DEF ParseFails, AuthenticateFails, PipeFails
<1>6. ASSUME NEW q \in Request, Middleware(q) PROVE StageInv'
  <2>1. /\ pc'[q] = "authenticate" /\ pc[q] = "parse"
        /\ response'[q].status = response[q].status /\ response'[q].own = response[q].own
        /\ outcome'[q] = outcome[q] /\ refusedBy'[q] = refusedBy[q]
    BY <1>6 DEF TypeOK, Middleware, Correlate, Goto
  <2>2. Others(q)
    BY <1>6 DEF TypeOK, Middleware, Correlate, Goto
  <2>3. StageOK(q)'
    BY <2>1 DEF StageInv, StageOK, HeadersSent, Unmet
  <2> QED
    BY <1>1, <2>2, <2>3
<1>7. ASSUME NEW q \in Request, Authorize(q) PROVE StageInv'
  <2>1. CASE Refuse(q, "role", "filter")
    BY <1>2, <1>3, <1>7, <2>1 DEF Authorize
  <2>2. CASE Goto(q, "pipes") /\ UNCHANGED <<raised, response, outcome, refusedBy>>
    <3>1. Others(q)
      BY <2>2 DEF TypeOK, Goto
    <3>2. StageOK(q)'
      BY <1>7, <2>2 DEF Authorize, TypeOK, StageInv, StageOK, Goto, HeadersSent, Unmet
    <3> QED
      BY <1>1, <3>1, <3>2
  <2> QED
    BY <1>7, <2>1, <2>2 DEF Authorize
<1>8. ASSUME NEW q \in Request, HandlerWrites(q) PROVE StageInv'
  <2>1. Others(q)
    BY <1>8 DEF TypeOK, HandlerWrites
  <2>2. StageOK(q)'
    BY <1>8 DEF TypeOK, StageInv, StageOK, HandlerWrites, HeadersSent, Unmet
  <2> QED
    BY <1>1, <2>1, <2>2
<1>9. ASSUME NEW q \in Request, NEW result \in ErrorType \cup {"success"}, HandlerReturns(q, result)
      PROVE  StageInv'
  <2>1. Others(q)
    BY <1>9 DEF TypeOK, HandlerReturns, Conclude, Goto, Raise
  <2>2. /\ outcome'[q] = result /\ refusedBy'[q] = refusedBy[q]
        /\ response'[q] = response[q] /\ pc[q] = "handler"
        /\ \/ result = "success" /\ pc'[q] = "send"
           \/ result \in ErrorType /\ pc'[q] = "failed" /\ raised'[q] = result
    BY <1>9 DEF TypeOK, HandlerReturns, Conclude, Goto, Raise
  <2>3. StageOK(q)'
    BY <2>2 DEF StageInv, StageOK, HeadersSent, Unmet
  <2> QED
    BY <1>1, <2>1, <2>3
<1>10. ASSUME NEW q \in Request, NEW result \in ErrorType \cup {"error"}, HandlerThrows(q, result)
       PROVE  StageInv'
  <2>1. Others(q)
    BY <1>10 DEF TypeOK, HandlerThrows, Conclude, Goto, Raise
  <2>2. /\ outcome'[q] = result /\ refusedBy'[q] = refusedBy[q] /\ raised'[q] = result
        /\ response'[q] = response[q] /\ pc[q] = "handler" /\ pc'[q] = "caught"
    BY <1>10 DEF TypeOK, HandlerThrows, Conclude, Goto, Raise
  <2>3. StageOK(q)'
    BY <2>2 DEF StageInv, StageOK, HeadersSent, Unmet, Caught
  <2> QED
    BY <1>1, <2>1, <2>3
<1>11. ASSUME NEW q \in Request, NEW status \in 200 .. 599, Write(q, status)
       PROVE  /\ response'[q].status = status /\ response'[q].own = response[q].own
              /\ \A r \in Request \ {q} : response'[r] = response[r]
  BY <1>11 DEF TypeOK, Write
<1>12. ASSUME NEW q \in Request, SendResultError(q) PROVE StageInv'
  <2>1. /\ pc[q] \in {"failed", "caught"} /\ raised'[q] = "error"
        /\ outcome'[q] = outcome[q] /\ refusedBy'[q] = refusedBy[q]
        /\ \A r \in Request \ {q} :
              raised'[r] = raised[r] /\ outcome'[r] = outcome[r] /\ refusedBy'[r] = refusedBy[r]
    BY <1>12 DEF TypeOK, SendResultError, Raise
  <2>2. CASE HeadersSent(q)
    <3>1. /\ pc'[q] = IF pc[q] = "failed" THEN "caught" ELSE "filter"
          /\ response' = response
          /\ \A r \in Request \ {q} : pc'[r] = pc[r]
      BY <1>12, <2>2 DEF TypeOK, SendResultError, Goto
    <3>2. response[q].own
      BY <2>1, <2>2 DEF StageInv, StageOK
    <3>3. StageOK(q)'
      BY <2>1, <3>1, <3>2 DEF StageInv, StageOK
    <3> QED
      BY <1>1, <2>1, <3>1, <3>3
  <2>3. CASE ~HeadersSent(q)
    <3> DEFINE status == StatusOfResult(raised[q])
    <3>1. /\ raised[q] \in ErrorType => status = StatusOf[raised[q]]
          /\ raised[q] \notin ErrorType => status = 500
          /\ status \in 400 .. 599
      <4>1. raised[q] \in ErrorType => StatusOf[raised[q]] \in 400 .. 599
        BY Statuses
      <4> QED
        BY <4>1 DEF StatusOfResult
    <3>2. /\ Write(q, status)
          /\ pc'[q] = "filter" /\ \A r \in Request \ {q} : pc'[r] = pc[r]
      BY <1>12, <2>3 DEF TypeOK, SendResultError, Goto
    <3> HIDE DEF status
    <3>3. /\ response'[q].status = status /\ response'[q].own = response[q].own
          /\ \A r \in Request \ {q} : response'[r] = response[r]
      BY <1>11, <3>1, <3>2
    <3>4. Caught(q) /\ ~response[q].own
      BY <2>1, <2>3 DEF StageInv, StageOK, Caught, HeadersSent
    <3>5. Told(q)'
      <4>1. /\ "pipe" \notin ErrorType /\ "none" \notin ErrorType
            /\ "error" \notin ErrorType /\ "success" \notin ErrorType
        BY Statuses
      <4> QED
        BY <2>1, <3>1, <3>3, <3>4, <4>1 DEF Told, Honest, Caught
    <3>6. StageOK(q)'
      BY <3>2, <3>3, <3>4, <3>5 DEF StageOK, Filtered
    <3> QED
      BY <1>1, <2>1, <3>2, <3>3, <3>6
  <2> QED
    BY <2>2, <2>3
<1>13. ASSUME NEW q \in Request, Send(q) PROVE StageInv'
  <2>1. /\ pc[q] = "send" /\ pc'[q] = "done"
        /\ response'[q].status = IF HeadersSent(q) THEN response[q].status ELSE 200
        /\ response'[q].own = response[q].own
        /\ outcome'[q] = outcome[q] /\ refusedBy'[q] = refusedBy[q]
    BY <1>13 DEF TypeOK, Send, Goto
  <2>2. Others(q)
    BY <1>13 DEF TypeOK, Send, Goto
  <2>3. "success" \notin ErrorType
    BY Statuses
  <2>4. StageOK(q)'
    BY <2>1, <2>3 DEF StageInv, StageOK, Told, Honest, HeadersSent
  <2> QED
    BY <1>1, <2>2, <2>4
<1>14. ASSUME NEW q \in Request, SendFails(q) PROVE StageInv'
  <2>1. Others(q)
    BY <1>14 DEF TypeOK, SendFails, Goto, Raise
  <2>2. StageOK(q)'
    BY <1>14 DEF TypeOK, StageInv, StageOK, SendFails, Goto, Raise, HeadersSent, Filtered
  <2> QED
    BY <1>1, <2>1, <2>2
<1>15. ASSUME NEW q \in Request, Filter(q) PROVE StageInv'
  <2>1. /\ pc[q] = "filter" /\ pc'[q] = "done"
        /\ raised' = raised /\ outcome' = outcome /\ refusedBy' = refusedBy
        /\ \A r \in Request \ {q} : pc'[r] = pc[r]
    BY <1>15 DEF TypeOK, Filter, Goto
  <2>2. CASE HeadersSent(q)
    <3>1. response' = response
      BY <1>15, <2>2 DEF Filter
    <3>2. StageOK(q)'
      BY <2>1, <2>2, <3>1 DEF StageInv, StageOK, Filtered, Told, Honest
    <3> QED
      BY <1>1, <2>1, <3>1, <3>2
  <2>3. CASE ~HeadersSent(q)
    <3> DEFINE status == IF raised[q] \in Refusal THEN StatusOfRefusal[raised[q]] ELSE 500
    <3>1. /\ raised[q] \in Refusal => status = StatusOfRefusal[raised[q]]
          /\ raised[q] \notin Refusal => status = 500
          /\ status \in 400 .. 599
      <4>1. raised[q] \in Refusal => StatusOfRefusal[raised[q]] \in 400 .. 599
        BY Statuses
      <4> QED
        BY <4>1
    <3>2. Write(q, status)
      BY <1>15, <2>3 DEF Filter
    <3> HIDE DEF status
    <3>3. /\ response'[q].status = status /\ response'[q].own = response[q].own
          /\ \A r \in Request \ {q} : response'[r] = response[r]
      BY <1>11, <3>1, <3>2
    <3>4. Filtered(q) /\ ~Told(q) /\ ~response[q].own
      BY <2>1, <2>3 DEF StageInv, StageOK, Told, Honest, HeadersSent
    <3>5. Told(q)'
      <4>1. /\ "none" \notin ErrorType /\ "success" \notin ErrorType
            /\ "none" \notin Refusal /\ "error" \notin Refusal
        BY Statuses, <1>2
      <4> QED
        BY <2>1, <3>1, <3>3, <3>4, <4>1 DEF Told, Honest, Filtered
    <3>6. StageOK(q)'
      BY <2>1, <3>3, <3>4, <3>5 DEF StageOK
    <3> QED
      BY <1>1, <2>1, <3>3, <3>6
  <2> QED
    BY <2>2, <2>3
<1>16. CASE UNCHANGED edge
  BY <1>16, StageFrame DEF edge, StageInv
<1> QED
  BY <1>4, <1>5, <1>6, <1>7, <1>8, <1>9, <1>10, <1>12, <1>13, <1>14, <1>15, <1>16
     DEF Next, Proceed, Inbound, Outbound, HandlerEnds

LEMMA StageHolds == Spec => [](TypeOK /\ StageInv)
<1>1. Init => TypeOK
  BY DEF Init, TypeOK, Stages, Id
<1>2. Init => StageInv
  <2> SUFFICES ASSUME Init, NEW q \in Request PROVE StageOK(q)
    BY DEF StageInv
  <2>1. /\ pc[q] = "idle" /\ response[q].status = 0 /\ ~response[q].own
        /\ outcome[q] = "none" /\ refusedBy[q] = "none"
    BY DEF Init
  <2> QED
    BY <2>1 DEF StageOK, HeadersSent, Unmet
<1> QED
  BY <1>1, <1>2, Types, Stage, PTL DEF Spec

(* The status of a response tells what happened to the request.            *)
THEOREM HonestStatus == EdgeSpec => []StatusTellsOutcome
<1>1. StageInv => StatusTellsOutcome
  BY DEF StageInv, StageOK, Told, StatusTellsOutcome
<1> QED
  BY <1>1, StageHolds, EdgeIsExchange, PTL

-----------------------------------------------------------------------------
(* Nothing is written over a response that has been sent, and a request is *)
(* not done without one.                                                   *)
AnsweredOnce(q) ==
    /\ HeadersSent(q) => response'[q] = response[q]
    /\ pc[q] # "done" /\ pc'[q] = "done" => HeadersSent(q)'

AnsweredWhenDone == \A q \in Request : pc[q] = "done" => HeadersSent(q)

SentOnce == [][\A q \in Request : AnsweredOnce(q)]_edge

LEMMA Sent == TypeOK /\ StageInv /\ [Next]_edge => \A q \in Request : AnsweredOnce(q)
<1> SUFFICES ASSUME TypeOK, StageInv, [Next]_edge PROVE \A q \in Request : AnsweredOnce(q)
  OBVIOUS
<1>1. ASSUME response' = response,
             \A q \in Request : pc'[q] # "done" \/ pc[q] = "done" \/ HeadersSent(q)
      PROVE  \A q \in Request : AnsweredOnce(q)
  BY <1>1 DEF AnsweredOnce, HeadersSent
<1>2. Refusal = {"body", "route", "throttler", "token", "role", "pipe"}
  BY DEF Refusal, StatusOfRefusal
<1>3. ASSUME NEW q \in Request, NEW who, NEW stage, stage # "done", Refuse(q, who, stage)
      PROVE  \A r \in Request : AnsweredOnce(r)
  <2>1. response' = response /\ \A r \in Request : pc'[r] # "done" \/ pc[r] = "done"
    BY <1>3 DEF TypeOK, Refuse, Goto
  <2> QED
    BY <1>1, <2>1
<1>4. ASSUME NEW q \in Request, Arrive(q) \/ Authenticate(q) \/ Pipe(q)
      PROVE  \A r \in Request : AnsweredOnce(r)
  <2>1. response' = response /\ \A r \in Request : pc'[r] # "done" \/ pc[r] = "done"
    BY <1>4 DEF TypeOK, Arrive, Authenticate, Pipe, Goto
  <2> QED
    BY <1>1, <2>1
<1>5. ASSUME NEW q \in Request,
             ParseFails(q) \/ AuthenticateFails(q) \/ PipeFails(q)
      PROVE  \A r \in Request : AnsweredOnce(r)
  BY <1>3, <1>5 DEF ParseFails, AuthenticateFails, PipeFails
<1>6. ASSUME NEW q \in Request, Authorize(q) PROVE \A r \in Request : AnsweredOnce(r)
  <2>1. CASE Refuse(q, "role", "filter")
    BY <1>3, <2>1
  <2>2. CASE Goto(q, "pipes") /\ response' = response
    BY <1>1, <2>2 DEF TypeOK, Goto
  <2> QED
    BY <1>6, <2>1, <2>2 DEF Authorize
<1>7. ASSUME NEW q \in Request, Middleware(q) \/ HandlerWrites(q)
      PROVE  \A r \in Request : AnsweredOnce(r)
  <2>1. /\ ~HeadersSent(q)
        /\ \A r \in Request \ {q} : response'[r] = response[r]
        /\ \A r \in Request : pc'[r] # "done" \/ pc[r] = "done"
        /\ \A r \in Request \ {q} : pc'[r] = pc[r]
    BY <1>7 DEF TypeOK, StageInv, StageOK, Middleware, Correlate, HandlerWrites, Goto
  <2>2. pc[q] # "done"
    BY <1>7 DEF Middleware, HandlerWrites
  <2> QED
    BY <2>1, <2>2 DEF AnsweredOnce
<1>8. ASSUME NEW q \in Request, HandlerEnds(q) PROVE \A r \in Request : AnsweredOnce(r)
  <2>1. response' = response /\ \A r \in Request : pc'[r] # "done" \/ pc[r] = "done"
    BY <1>8 DEF TypeOK, HandlerEnds, HandlerReturns, HandlerThrows, Conclude, Goto
  <2> QED
    BY <1>1, <2>1
<1>9. ASSUME NEW q \in Request, NEW status \in 200 .. 599, Write(q, status), ~HeadersSent(q)
      PROVE  /\ HeadersSent(q)'
             /\ \A r \in Request \ {q} : response'[r] = response[r]
  BY <1>9 DEF TypeOK, Write, HeadersSent
<1>10. ASSUME NEW q \in Request, SendResultError(q) PROVE \A r \in Request : AnsweredOnce(r)
  <2>1. \A r \in Request : pc'[r] # "done" \/ pc[r] = "done"
    BY <1>10 DEF TypeOK, SendResultError, Goto
  <2>2. CASE HeadersSent(q)
    BY <1>1, <1>10, <2>1, <2>2 DEF SendResultError
  <2>3. CASE ~HeadersSent(q)
    <3>1. StatusOfResult(raised[q]) \in 200 .. 599
      <4>1. raised[q] \in ErrorType => StatusOf[raised[q]] \in 400 .. 599
        BY Statuses
      <4> QED
        BY <4>1 DEF StatusOfResult
    <3>2. \A r \in Request \ {q} : response'[r] = response[r]
      BY <1>9, <1>10, <2>3, <3>1 DEF SendResultError
    <3> QED
      BY <2>1, <2>3, <3>2 DEF AnsweredOnce
  <2> QED
    BY <2>2, <2>3
<1>11. ASSUME NEW q \in Request, Send(q) PROVE \A r \in Request : AnsweredOnce(r)
  <2>1. /\ HeadersSent(q)' /\ (HeadersSent(q) => response'[q] = response[q])
        /\ \A r \in Request \ {q} : response'[r] = response[r] /\ pc'[r] = pc[r]
    BY <1>11 DEF TypeOK, Send, Goto, HeadersSent
  <2> QED
    BY <2>1 DEF AnsweredOnce
<1>12. ASSUME NEW q \in Request, SendFails(q) PROVE \A r \in Request : AnsweredOnce(r)
  <2>1. response' = response /\ \A r \in Request : pc'[r] # "done" \/ pc[r] = "done"
    BY <1>12 DEF TypeOK, SendFails, Goto
  <2> QED
    BY <1>1, <2>1
<1>13. ASSUME NEW q \in Request, Filter(q) PROVE \A r \in Request : AnsweredOnce(r)
  <2>1. \A r \in Request \ {q} : pc'[r] = pc[r]
    BY <1>13 DEF TypeOK, Filter, Goto
  <2>2. CASE HeadersSent(q)
    <3>1. response' = response
      BY <1>13, <2>2 DEF Filter
    <3> QED
      BY <1>1, <2>1, <2>2, <3>1
  <2>3. CASE ~HeadersSent(q)
    <3> DEFINE status == IF raised[q] \in Refusal THEN StatusOfRefusal[raised[q]] ELSE 500
    <3>1. status \in 200 .. 599
      <4>1. raised[q] \in Refusal => StatusOfRefusal[raised[q]] \in 400 .. 599
        BY Statuses
      <4> QED
        BY <4>1
    <3>2. Write(q, status)
      BY <1>13, <2>3 DEF Filter
    <3> HIDE DEF status
    <3>3. HeadersSent(q)' /\ \A r \in Request \ {q} : response'[r] = response[r]
      BY <1>9, <2>3, <3>1, <3>2
    <3> QED
      BY <2>1, <2>3, <3>3 DEF AnsweredOnce
  <2> QED
    BY <2>2, <2>3
<1>14. CASE UNCHANGED edge
  BY <1>14, <1>1 DEF edge
<1> QED
  BY <1>4, <1>5, <1>6, <1>7, <1>8, <1>10, <1>11, <1>12, <1>13, <1>14
     DEF Next, Proceed, Inbound, Outbound

(* Every request gets one response: interceptor, filter, framework and     *)
(* handlers with @Res() all may write it, but none writes over what        *)
(* another has sent, and no request ends unanswered.                       *)
(* (ResultInterceptor L39-59, GlobalExceptionFilter L39)                   *)
THEOREM OneResponse == EdgeSpec => SentOnce /\ []AnsweredWhenDone
<1>1. TypeOK /\ StageInv /\ [Next]_edge
        => [\A q \in Request : AnsweredOnce(q)]_edge
  BY Sent
<1>2. TypeOK /\ StageInv /\ AnsweredWhenDone /\ [Next]_edge => AnsweredWhenDone'
  <2> SUFFICES ASSUME TypeOK, StageInv, AnsweredWhenDone, [Next]_edge,
                      NEW q \in Request, pc'[q] = "done"
               PROVE  HeadersSent(q)'
    BY DEF AnsweredWhenDone
  <2> QED
    BY Sent DEF AnsweredOnce, AnsweredWhenDone, HeadersSent
<1>3. Init => AnsweredWhenDone
  BY DEF Init, AnsweredWhenDone
<1> QED
  BY <1>1, <1>2, <1>3, StageHolds, EdgeIsExchange, PTL DEF Spec, SentOnce

-----------------------------------------------------------------------------
(* Once the middleware has run, the stores of q hold what q brought.       *)
Entered(q) ==
    scope[q] = IdOf(q) /\ response[q].id = IdOf(q) /\ tenant[q] = OrgHeader[q]

OwnOK(q) ==
    /\ refusedBy[q] = "body" => pc[q] \in {"filter", "done"}
    /\ pc[q] \in {"idle", "parse"} => ~HeadersSent(q) /\ user[q] = "none"
    /\ refusedBy[q] # "body" =>
          /\ pc[q] \notin {"idle", "parse"} => Entered(q)
          /\ logged[q] \subseteq {IdOf(q)}

OwnInv == \A q \in Request : OwnOK(q)

LEMMA OwnFrame ==
    ASSUME NEW q \in Request, OwnOK(q),
           \/ pc'[q] = pc[q]
           \/ /\ pc[q] \notin {"idle", "parse"} /\ pc'[q] \notin {"idle", "parse"}
              /\ refusedBy[q] = "body" => pc'[q] \in {"filter", "done"},
           user'[q] = user[q] \/ pc'[q] \notin {"idle", "parse"},
           scope'[q] = scope[q], tenant'[q] = tenant[q], response'[q] = response[q],
           logged'[q] = logged[q],
           \/ refusedBy'[q] = refusedBy[q]
           \/ refusedBy[q] # "body" /\ refusedBy'[q] # "body"
    PROVE  OwnOK(q)'
BY DEF OwnOK, HeadersSent, Entered

LEMMA Own == TypeOK /\ OwnInv /\ [Next]_edge => OwnInv'
<1> SUFFICES ASSUME TypeOK, OwnInv, [Next]_edge PROVE OwnInv'
  OBVIOUS
<1> DEFINE Others(q) ==
      \A r \in Request \ {q} :
          /\ pc'[r] = pc[r] /\ scope'[r] = scope[r] /\ tenant'[r] = tenant[r] /\ user'[r] = user[r]
          /\ response'[r] = response[r] /\ refusedBy'[r] = refusedBy[r] /\ logged'[r] = logged[r]
<1>1. ASSUME NEW q \in Request, Others(q), OwnOK(q)' PROVE OwnInv'
  BY <1>1, OwnFrame DEF OwnInv
<1>2. ASSUME NEW q \in Request, NEW who, NEW stage \in {"filter", "caught"},
             pc[q] \in {"parse", "authenticate", "authorize", "pipes"}, Refuse(q, who, stage),
             who = "body" => stage = "filter",
             pc[q] = "parse" => who = "body"
      PROVE  OwnInv'
  <2>1. Others(q)
    BY <1>2 DEF TypeOK, Refuse, Goto, Raise
  <2>2. /\ pc'[q] = stage /\ refusedBy'[q] = who /\ scope'[q] = scope[q] /\ tenant'[q] = tenant[q]
        /\ response'[q] = response[q] /\ logged'[q] = logged[q]
    BY <1>2 DEF TypeOK, Refuse, Goto, Raise
  <2>3. OwnOK(q)'
    BY <1>2, <2>2 DEF OwnInv, OwnOK, Entered
  <2> QED
    BY <1>1, <2>1, <2>3
<1>3. ASSUME NEW q \in Request, ParseFails(q) \/ AuthenticateFails(q) \/ PipeFails(q) PROVE OwnInv'
  BY <1>2, <1>3 DEF ParseFails, AuthenticateFails, PipeFails
<1>4. ASSUME NEW q \in Request, Arrive(q) PROVE OwnInv'
  <2>1. Others(q)
    BY <1>4 DEF TypeOK, Arrive, Goto
  <2>2. OwnOK(q)'
    BY <1>4 DEF TypeOK, OwnInv, OwnOK, Arrive, Goto, HeadersSent
  <2> QED
    BY <1>1, <2>1, <2>2
<1>5. ASSUME NEW q \in Request, Middleware(q) PROVE OwnInv'
  <2>1. Others(q)
    BY <1>5 DEF TypeOK, Middleware, Correlate, EnterTenant, Goto
  <2>4. user[q] = "none"
    BY <1>5 DEF OwnInv, OwnOK, Middleware
  <2>2. /\ pc[q] = "parse" /\ pc'[q] = "authenticate" /\ refusedBy'[q] = refusedBy[q]
        /\ scope'[q] = IdOf(q) /\ tenant'[q] = OrgHeader[q] /\ response'[q].id = IdOf(q)
        /\ logged'[q] = logged[q]
    BY <1>5, <2>4 DEF TypeOK, Middleware, Correlate, EnterTenant, Goto
  <2>3. OwnOK(q)'
    BY <2>2 DEF OwnInv, OwnOK, Entered
  <2> QED
    BY <1>1, <2>1, <2>3
<1>6. ASSUME NEW q \in Request, Authorize(q) PROVE OwnInv'
  <2>1. CASE Refuse(q, "role", "filter")
    BY <1>2, <1>6, <2>1 DEF Authorize
  <2>2. CASE Goto(q, "pipes") /\ UNCHANGED <<scope, tenant, user, response, refusedBy, logged>>
    <3>1. Others(q)
      BY <2>2 DEF TypeOK, Goto
    <3>2. OwnOK(q)'
      BY <1>6, <2>2, OwnFrame DEF Authorize, TypeOK, OwnInv, OwnOK, Goto
    <3> QED
      BY <1>1, <3>1, <3>2
  <2> QED
    BY <1>6, <2>1, <2>2 DEF Authorize
<1>7. ASSUME NEW q \in Request,
             pc[q] \in {"authenticate", "authorize", "pipes", "handler", "failed", "caught", "send", "filter"},
             pc'[q] \notin {"idle", "parse"},
             pc[q] = "filter" => pc'[q] = "done",
             \A r \in Request \ {q} : pc'[r] = pc[r] /\ user'[r] = user[r],
             UNCHANGED <<scope, tenant, refusedBy>>,
             \A r \in Request \ {q} : response'[r] = response[r] /\ logged'[r] = logged[r],
             \/ response'[q].id = response[q].id
             \/ response'[q].id = IF scope[q] # NoId THEN scope[q] ELSE response[q].id,
             \/ logged'[q] = logged[q] 
             \/ logged'[q] = logged[q] \cup {scope[q]}
      PROVE  OwnInv'
  <2>1. OwnOK(q)'
    BY <1>7 DEF OwnInv, OwnOK, Entered
  <2> QED
    BY <1>1, <1>7, <2>1
<1>8. ASSUME NEW q \in Request, Authenticate(q) \/ Pipe(q) \/ Send(q) \/ SendFails(q) PROVE OwnInv'
  <2>1. UNCHANGED <<scope, tenant, refusedBy>>
    BY <1>8 DEF Authenticate, Pipe, Send, SendFails
  <2>2. CASE Authenticate(q)
    BY <1>7, <2>1, <2>2 DEF TypeOK, Authenticate, Goto
  <2>3. CASE Pipe(q)
    BY <1>7, <2>1, <2>3 DEF TypeOK, Pipe, Goto
  <2>4. CASE Send(q)
    <3>1. response'[q].id = response[q].id /\ logged' = logged
      BY <2>4 DEF TypeOK, Send
    <3>2. \A r \in Request \ {q} :
             response'[r] = response[r] /\ pc'[r] = pc[r] /\ user'[r] = user[r]
      BY <2>4 DEF TypeOK, Send, Goto
    <3>3. pc[q] = "send" /\ pc'[q] = "done"
      BY <2>4 DEF TypeOK, Send, Goto
    <3> QED
      BY <1>7, <2>1, <3>1, <3>2, <3>3
  <2>5. CASE SendFails(q)
    BY <1>7, <2>1, <2>5 DEF TypeOK, SendFails, Goto
  <2> QED
    BY <1>8, <2>2, <2>3, <2>4, <2>5
<1>9. ASSUME NEW q \in Request, HandlerWrites(q) PROVE OwnInv'
  <2>1. /\ pc[q] = "handler" /\ UNCHANGED <<pc, scope, tenant, user, refusedBy, logged>>
        /\ response'[q].id = response[q].id
        /\ \A r \in Request \ {q} : response'[r] = response[r]
    BY <1>9 DEF TypeOK, HandlerWrites
  <2> QED
    BY <1>7, <2>1
<1>10. ASSUME NEW q \in Request, HandlerEnds(q) PROVE OwnInv'
  <2>1. /\ pc[q] = "handler" /\ pc'[q] \in {"send", "failed", "caught"}
        /\ \A r \in Request \ {q} : pc'[r] = pc[r]
        /\ UNCHANGED <<scope, tenant, user, refusedBy, logged, response>>
    BY <1>10 DEF TypeOK, HandlerEnds, HandlerReturns, HandlerThrows, Conclude, Goto
  <2> QED
    BY <1>7, <2>1
<1>11. ASSUME NEW q \in Request, NEW status, Write(q, status), Log(q)
       PROVE  /\ \A r \in Request \ {q} : response'[r] = response[r] /\ logged'[r] = logged[r]
              /\ response'[q].id = IF scope[q] # NoId THEN scope[q] ELSE response[q].id
              /\ logged'[q] = logged[q] \cup {scope[q]}
  BY <1>11 DEF TypeOK, Write, Log
<1>12. ASSUME NEW q \in Request, SendResultError(q) PROVE OwnInv'
  <2>1. /\ pc[q] \in {"failed", "caught"} /\ pc'[q] \in {"caught", "filter"}
        /\ \A r \in Request \ {q} : pc'[r] = pc[r]
        /\ UNCHANGED <<scope, tenant, user, refusedBy>>
    BY <1>12 DEF TypeOK, SendResultError, Goto
  <2>2. CASE UNCHANGED <<response, logged>>
    BY <1>7, <2>1, <2>2
  <2>3. CASE \E status : Write(q, status) /\ Log(q)
    BY <1>7, <1>11, <2>1, <2>3
  <2> QED
    BY <1>12, <2>2, <2>3 DEF SendResultError
<1>13. ASSUME NEW q \in Request, Filter(q) PROVE OwnInv'
  <2>1. /\ pc[q] = "filter" /\ pc'[q] = "done"
        /\ \A r \in Request \ {q} : pc'[r] = pc[r]
        /\ UNCHANGED <<scope, tenant, user, refusedBy>>
    BY <1>13 DEF TypeOK, Filter, Goto
  <2>2. CASE UNCHANGED <<response, logged>>
    BY <1>7, <2>1, <2>2
  <2>3. CASE \E status : Write(q, status) /\ Log(q)
    BY <1>7, <1>11, <2>1, <2>3
  <2> QED
    BY <1>13, <2>2, <2>3 DEF Filter
<1>14. CASE UNCHANGED edge
  BY <1>14, OwnFrame DEF edge, OwnInv
<1> QED
  BY <1>3, <1>4, <1>5, <1>6, <1>8, <1>9, <1>10, <1>12, <1>13, <1>14
     DEF Next, Proceed, Inbound, Outbound

LEMMA OwnHolds == Spec => [](TypeOK /\ OwnInv)
<1>1. Init => TypeOK
  BY DEF Init, TypeOK, Stages, Id
<1>2. Init => OwnInv
  <2> SUFFICES ASSUME Init, NEW q \in Request PROVE OwnOK(q)
    BY DEF OwnInv
  <2>1. /\ pc[q] = "idle" /\ response[q].status = 0 /\ user[q] = "none"
        /\ refusedBy[q] = "none" /\ logged[q] = {}
    BY DEF Init
  <2> QED
    BY <2>1 DEF OwnOK, HeadersSent
<1> QED
  BY <1>1, <1>2, Types, Own, PTL DEF Spec

(* Responses and log lines carry the id of their request.                  *)
THEOREM Correlated == EdgeSpec => []OwnCorrelation
<1>1. OwnInv => OwnCorrelation
  BY DEF OwnInv, OwnOK, HeadersSent, Entered, OwnCorrelation
<1> QED
  BY <1>1, OwnHolds, EdgeIsExchange, PTL

(* "Extract org_id from JWT payload (set by JwtAuthGuard)": the guard runs  *)
(* after the middleware, so that whatever organization the token of a      *)
(* request names, the one in the store is the header's.                    *)
(* (TenantContextMiddleware L11-19)                                        *)
HeaderDecides ==
    \A q \in Request :
        pc[q] \notin {"idle", "parse"} /\ refusedBy[q] # "body" => tenant[q] = OrgHeader[q]

THEOREM TokenComesTooLate == EdgeSpec => []HeaderDecides
<1>1. OwnInv => HeaderDecides
  BY DEF OwnInv, OwnOK, Entered, HeaderDecides
<1> QED
  BY <1>1, OwnHolds, EdgeIsExchange, PTL

-----------------------------------------------------------------------------
(* Units of work, connections and settings.                                *)
RowTypes ==
    /\ unit \in [Request -> {"none", "open", "over", "released"}]
    /\ conn \in [Request -> Connection \cup {NoConnection}]
    /\ setting \in [Connection -> {NoTenant} \cup {Due(s) : s \in Save}]
    /\ save \in [Save -> {"none", "set", "done"}]
    /\ under \in [Save -> {NoTenant} \cup {Due(s) : s \in Save}]

(* A unit of work has a connection, its own, while its handler runs.       *)
UnitInv ==
    /\ \A q \in Request :
          /\ conn[q] # NoConnection <=> unit[q] \in {"open", "over"}
          /\ unit[q] \in {"open", "over"} => pc[q] = "handler"
    /\ \A q, r \in Request : conn[q] = conn[r] /\ conn[q] # NoConnection => q = r

(* What is set on a connection was set by a save of the unit that has it.  *)
SetBy(k) ==
    \/ setting[k] = NoTenant
    \/ \E q \in Request :
          /\ unit[q] = "open" /\ conn[q] = k
          /\ \E t \in Save : Saver[t] = q /\ setting[k] = Due(t)

SettingInv == \A k \in Connection : SetBy(k)

(* Between the SET LOCAL of a save and its statement nothing else of its   *)
(* unit happens, if its handler awaits its saves.                          *)
SaveOK(s) ==
    /\ save[s] # "none" => Saver[s] \in Request
    /\ save[s] = "set" /\ Saver[s] \notin Overlapping =>
          /\ unit[Saver[s]] = "open"
          /\ \A t \in Save : Saver[t] = Saver[s] /\ save[t] = "set" => t = s
          /\ Due(s) \in Uuid => setting[conn[Saver[s]]] = Due(s)
    /\ save[s] = "done" /\ Saver[s] \notin Overlapping /\ Due(s) \in Uuid => under[s] = Due(s)
    /\ under[s] \in {NoTenant} \cup {Due(t) : t \in Scope!SavesOf(Saver[s])}

SaveInv == \A s \in Save : SaveOK(s)

TenantInv == RowTypes /\ UnitInv /\ SettingInv /\ SaveInv

(* The handler of q: its tenant store holds what q brought.                *)
LEMMA OrgIsDue ==
    ASSUME OwnInv, NEW s \in Save, Saver[s] \in Request, pc[Saver[s]] = "handler"
    PROVE  Scope!OrgOf(s) = Due(s)
BY DEF OwnInv, OwnOK, Entered, Scope!OrgOf, Due

(* A step that leaves the units alone.                                     *)
LEMMA TenantFrame ==
    ASSUME TenantInv, UNCHANGED rows,
           \A q \in Request : pc[q] = "handler" => pc'[q] = "handler" \/ conn[q] = NoConnection
    PROVE  TenantInv'
<1>1. RowTypes' /\ SettingInv' /\ SaveInv'
  BY DEF TenantInv, rows, RowTypes, SettingInv, SetBy, SaveInv, SaveOK, Scope!SavesOf
<1>2. UnitInv'
  BY DEF TenantInv, rows, UnitInv
<1> QED
  BY <1>1, <1>2 DEF TenantInv

LEMMA EdgeStep ==
    ASSUME TypeOK, TenantInv, NEW q \in Request,
           AtTheEdge(q) \/ (conn[q] = NoConnection /\ (HandlerWrites(q) \/ HandlerEnds(q)) /\ UNCHANGED rows)
    PROVE  TenantInv'
<1>1. ASSUME AtTheEdge(q) PROVE pc[q] # "handler" /\ \A r \in Request \ {q} : pc'[r] = pc[r]
  <2>1. CASE Arrive(q) \/ Inbound(q)
    BY <2>1 DEF TypeOK, Arrive, Inbound, ParseFails, Middleware, AuthenticateFails, Authenticate, Authorize, PipeFails,
          Pipe, Refuse, Goto
  <2>2. CASE Outbound(q)
    BY <2>2 DEF TypeOK, Outbound, SendResultError, Send, SendFails, Filter, Goto
  <2> QED
    BY <1>1, <2>1, <2>2 DEF AtTheEdge
<1>2. ASSUME HandlerWrites(q) \/ HandlerEnds(q) PROVE \A r \in Request \ {q} : pc'[r] = pc[r]
  BY <1>2 DEF TypeOK, HandlerWrites, HandlerEnds, HandlerReturns, HandlerThrows, Goto
<1> QED
  BY <1>1, <1>2, TenantFrame DEF AtTheEdge

LEMMA BeginStep ==
    ASSUME TenantInv, UNCHANGED edge, NEW q \in Request, pc[q] = "handler", Scope!Begin(q)
    PROVE  TenantInv'
<1>1. PICK k \in Connection : /\ \A r \in Request : conn[r] # k
                              /\ conn' = [conn EXCEPT ![q] = k]
  BY DEF Scope!Begin
<1>2. unit[q] = "none" /\ unit' = [unit EXCEPT ![q] = "open"] /\ UNCHANGED <<setting, save, under>>
  BY DEF Scope!Begin
<1>3. RowTypes'
  BY <1>1, <1>2 DEF TenantInv, RowTypes, Due
<1>4. UnitInv'
  BY <1>1, <1>2, ScopeAssumption DEF TenantInv, RowTypes, UnitInv, edge
<1>5. SettingInv'
  BY <1>1, <1>2 DEF TenantInv, RowTypes, SettingInv, SetBy, Due
<1>6. SaveInv'
  <2> SUFFICES ASSUME NEW s \in Save PROVE SaveOK(s)'
    BY DEF SaveInv
  <2>1. SaveOK(s)
    BY DEF TenantInv, SaveInv
  <2>2. CASE Saver[s] = q
    BY <1>1, <1>2, <2>1, <2>2 DEF TenantInv, RowTypes, SaveOK, Due, Scope!SavesOf
  <2>3. CASE Saver[s] # q
    BY <1>1, <1>2, <2>1, <2>3 DEF TenantInv, RowTypes, SaveOK, Due, Scope!SavesOf
  <2> QED
    BY <2>2, <2>3
<1> QED
  BY <1>3, <1>4, <1>5, <1>6 DEF TenantInv

LEMMA SetStep ==
    ASSUME TenantInv, OwnInv, UNCHANGED edge, NEW q \in Request, pc[q] = "handler",
           NEW s \in Save, Saver[s] = q, Scope!SetTenantId(s)
    PROVE  TenantInv'
<1>1. /\ unit[q] \in {"open", "over"} /\ save[s] = "none"
      /\ q \in Overlapping \/ (unit[q] = "open" /\ \A t \in Save : Saver[t] = q => save[t] # "set")
      /\ save' = [save EXCEPT ![s] = "set"]
      /\ setting' = IF Due(s) \in Uuid /\ unit[q] = "open"
                    THEN [setting EXCEPT ![conn[q]] = Due(s)] ELSE setting
      /\ UNCHANGED <<unit, conn, under>>
  BY OrgIsDue DEF Scope!SetTenantId, Scope!InFlight, Scope!SavesOf
<1>2. conn[q] \in Connection
  BY <1>1 DEF TenantInv, RowTypes, UnitInv
<1>3. RowTypes'
  BY <1>1, <1>2 DEF TenantInv, RowTypes, Due
<1>4. UnitInv'
  BY <1>1 DEF TenantInv, UnitInv, edge
<1>5. SettingInv'
  <2> SUFFICES ASSUME NEW k \in Connection PROVE SetBy(k)'
    BY DEF SettingInv
  <2>1. SetBy(k)
    BY DEF TenantInv, SettingInv
  <2>2. CASE setting'[k] = setting[k]
    BY <1>1, <2>1, <2>2 DEF SetBy, Due
  <2>3. CASE setting'[k] # setting[k]
    <3>1. unit[q] = "open" /\ k = conn[q] /\ setting'[k] = Due(s)
      BY <1>1, <1>2, <2>3 DEF TenantInv, RowTypes
    <3> QED
      BY <1>1, <3>1 DEF SetBy, Due
  <2> QED
    BY <2>2, <2>3
<1>6. SaveInv'
  <2> SUFFICES ASSUME NEW t \in Save PROVE SaveOK(t)'
    BY DEF SaveInv
  <2>1. SaveOK(t)
    BY DEF TenantInv, SaveInv
  <2>2. CASE t = s
    <3>1. save'[s] = "set" /\ \A x \in Save \ {s} : save'[x] = save[x]
      BY <1>1 DEF TenantInv, RowTypes
    <3>2. under'[s] \in {NoTenant} \cup {Due(x) : x \in Scope!SavesOf(Saver[s])}
      BY <1>1, <2>1, <2>2 DEF SaveOK
    <3>3. Due(s) \in Uuid /\ unit[q] = "open" => setting'[conn[q]] = Due(s)
      BY <1>1, <1>2 DEF TenantInv, RowTypes
    <3> QED
      BY <1>1, <2>2, <3>1, <3>2, <3>3 DEF SaveOK, Due, Scope!SavesOf
  <2>3. CASE t # s /\ Saver[t] = q
    BY <1>1, <2>1, <2>3 DEF TenantInv, RowTypes, SaveOK, Due, Scope!SavesOf
  <2>4. CASE t # s /\ Saver[t] # q
    <3>1. save'[t] = save[t] /\ \A x \in Save : Saver[x] # q => save'[x] = save[x]
      BY <1>1, <2>4 DEF TenantInv, RowTypes
    <3>2. save[t] = "set" /\ Saver[t] \notin Overlapping => conn[Saver[t]] # conn[q]
      BY <1>2, <2>1, <2>4, ScopeAssumption DEF TenantInv, UnitInv, SaveOK
    <3>3. save[t] = "set" /\ Saver[t] \notin Overlapping => setting'[conn[Saver[t]]] = setting[conn[Saver[t]]]
      BY <1>1, <1>2, <3>2 DEF TenantInv, RowTypes
    <3> QED
      BY <1>1, <2>1, <2>4, <3>1, <3>3 DEF SaveOK, Due, Scope!SavesOf
  <2> QED
    BY <2>2, <2>3, <2>4
<1> QED
  BY <1>3, <1>4, <1>5, <1>6 DEF TenantInv

LEMMA StatementStep ==
    ASSUME TenantInv, UNCHANGED edge, NEW q \in Request, NEW s \in Save, Saver[s] = q,
           Scope!Statement(s)
    PROVE  TenantInv'
<1>1. /\ unit[q] \in {"open", "over"} /\ save[s] = "set"
      /\ save' = [save EXCEPT ![s] = "done"]
      /\ under' = [under EXCEPT ![s] = setting[conn[q]]]
      /\ UNCHANGED <<unit, conn, setting>>
  BY DEF Scope!Statement
<1>2. conn[q] \in Connection
  BY <1>1 DEF TenantInv, RowTypes, UnitInv
<1>3. RowTypes'
  BY <1>1, <1>2 DEF TenantInv, RowTypes, Due
<1>4. UnitInv' /\ SettingInv'
  BY <1>1 DEF TenantInv, UnitInv, SettingInv, SetBy, Due, edge
<1>5. SaveInv'
  <2> SUFFICES ASSUME NEW t \in Save PROVE SaveOK(t)'
    BY DEF SaveInv
  <2>1. SaveOK(t)
    BY DEF TenantInv, SaveInv
  <2>2. CASE t # s
    BY <1>1, <2>1, <2>2 DEF TenantInv, RowTypes, SaveOK, Due, Scope!SavesOf
  <2>3. CASE t = s
    <3>1. save'[s] = "done" /\ under'[s] = setting[conn[q]]
      BY <1>1 DEF TenantInv, RowTypes
    <3>2. setting[conn[q]] \in {NoTenant} \cup {Due(x) : x \in Scope!SavesOf(q)}
      <4>1. SetBy(conn[q])
        BY <1>2 DEF TenantInv, SettingInv
      <4>2. \A r \in Request : conn[r] = conn[q] => r = q
        BY <1>2, ScopeAssumption DEF TenantInv, UnitInv
      <4> QED
        BY <4>1, <4>2 DEF SetBy, Scope!SavesOf
    <3>3. q \notin Overlapping /\ Due(s) \in Uuid => setting[conn[q]] = Due(s)
      BY <1>1, <2>1, <2>3 DEF SaveOK
    <3>4. under'[s] \in {NoTenant} \cup {Due(x) : x \in Scope!SavesOf(q)}'
      BY <3>1, <3>2 DEF Due, Scope!SavesOf
    <3> QED
      BY <2>3, <3>1, <3>3, <3>4 DEF SaveOK, Due, Scope!SavesOf
  <2> QED
    BY <2>2, <2>3
<1> QED
  BY <1>3, <1>4, <1>5 DEF TenantInv

LEMMA EndStep ==
    ASSUME TenantInv, UNCHANGED edge, NEW q \in Request, Scope!End(q) \/ Scope!Release(q)
    PROVE  TenantInv'
<1>1. /\ UNCHANGED <<save, under>>
      /\ \/ /\ unit[q] = "open" /\ unit' = [unit EXCEPT ![q] = "over"]
            /\ q \in Overlapping \/ \A t \in Save : Saver[t] = q => save[t] # "set"
            /\ setting' = [setting EXCEPT ![conn[q]] = NoTenant]
            /\ conn' = conn
         \/ /\ unit[q] = "over" /\ unit' = [unit EXCEPT ![q] = "released"]
            /\ conn' = [conn EXCEPT ![q] = NoConnection]
            /\ setting' = setting
  BY DEF Scope!End, Scope!Release, Scope!InFlight, Scope!SavesOf
<1>2. conn[q] \in Connection /\ \A r \in Request \ {q} : conn[r] # conn[q]
  BY <1>1, ScopeAssumption DEF TenantInv, RowTypes, UnitInv
<1>3. RowTypes'
  BY <1>1, <1>2 DEF TenantInv, RowTypes, Due
<1>4. UnitInv'
  BY <1>1, <1>2 DEF TenantInv, RowTypes, UnitInv, edge
<1>5. SettingInv'
  <2> SUFFICES ASSUME NEW k \in Connection PROVE SetBy(k)'
    BY DEF SettingInv
  <2>1. SetBy(k)
    BY DEF TenantInv, SettingInv
  <2>2. CASE k = conn[q] /\ unit[q] = "open"
    BY <1>1, <2>2 DEF TenantInv, RowTypes, SetBy
  <2>3. CASE k # conn[q] \/ unit[q] = "over"
    <3>1. setting'[k] = setting[k]
      BY <1>1, <1>2, <2>3 DEF TenantInv, RowTypes
    <3>2. \A r \in Request : unit[r] = "open" /\ conn[r] = k => unit'[r] = "open" /\ conn'[r] = k
      BY <1>1, <1>2, <2>3 DEF TenantInv, RowTypes
    <3> QED
      BY <2>1, <3>1, <3>2 DEF SetBy, Due
  <2> QED
    BY <1>1, <2>2, <2>3
<1>6. SaveInv'
  <2> SUFFICES ASSUME NEW s \in Save PROVE SaveOK(s)'
    BY DEF SaveInv
  <2>1. SaveOK(s)
    BY DEF TenantInv, SaveInv
  <2>2. CASE Saver[s] = q
    <3>1. save[s] = "set" => q \in Overlapping
      BY <1>1, <2>1, <2>2 DEF SaveOK
    <3> QED
      BY <1>1, <2>1, <2>2, <3>1 DEF SaveOK, Due, Scope!SavesOf
  <2>3. CASE Saver[s] # q
    <3>1. save[s] = "set" /\ Saver[s] \notin Overlapping =>
            /\ unit'[Saver[s]] = unit[Saver[s]] /\ conn'[Saver[s]] = conn[Saver[s]]
            /\ setting'[conn[Saver[s]]] = setting[conn[Saver[s]]]
      <4> SUFFICES ASSUME save[s] = "set", Saver[s] \notin Overlapping
                   PROVE  /\ unit'[Saver[s]] = unit[Saver[s]] /\ conn'[Saver[s]] = conn[Saver[s]]
                          /\ setting'[conn[Saver[s]]] = setting[conn[Saver[s]]]
        OBVIOUS
      <4>1. Saver[s] \in Request /\ conn[Saver[s]] \in Connection
        BY <2>1 DEF TenantInv, RowTypes, UnitInv, SaveOK
      <4> QED
        BY <1>1, <1>2, <2>3, <4>1 DEF TenantInv, RowTypes
    <3> QED
      BY <1>1, <2>1, <3>1 DEF SaveOK, Due, Scope!SavesOf
  <2> QED
    BY <2>2, <2>3
<1> QED
  BY <1>3, <1>4, <1>5, <1>6 DEF TenantInv

LEMMA TenantHolds == EdgeSpec => []TenantInv
<1>1. EdgeInit => TenantInv
  <2> SUFFICES ASSUME EdgeInit PROVE TenantInv
    OBVIOUS
  <2>1. RowTypes /\ UnitInv /\ SettingInv
    BY DEF EdgeInit, Scope!Init, RowTypes, UnitInv, SettingInv, SetBy
  <2>2. SaveInv
    BY DEF EdgeInit, Scope!Init, SaveInv, SaveOK
  <2> QED
    BY <2>1, <2>2 DEF TenantInv
<1>2. TypeOK /\ OwnInv /\ TenantInv /\ [EdgeNext]_vars => TenantInv'
  <2> SUFFICES ASSUME TypeOK, OwnInv, TenantInv, [EdgeNext]_vars PROVE TenantInv'
    OBVIOUS
  <2>1. ASSUME NEW q \in Request, AtTheEdge(q) PROVE TenantInv'
    BY <2>1, EdgeStep
  <2>2. ASSUME NEW q \in Request, InHandler(q) PROVE TenantInv'
    <3>1. CASE pc[q] = "handler" /\ Scope!Work(q) /\ UNCHANGED edge
      BY <3>1, BeginStep, SetStep, StatementStep, EndStep DEF Scope!Work, Scope!SavesOf
    <3> QED
      BY <2>2, <3>1, EdgeStep DEF InHandler
  <2>3. CASE UNCHANGED vars
    BY <2>3, TenantFrame DEF vars, edge
  <2> QED
    BY <2>1, <2>2, <2>3 DEF EdgeNext, Served
<1> QED
  BY <1>1, <1>2, OwnHolds, EdgeIsExchange, PTL DEF EdgeSpec

(* A statement runs under the organization it belongs to.                  *)
THEOREM OwnTenant == EdgeSpec => []UnderOwnTenant
<1>1. TenantInv => UnderOwnTenant
  BY DEF TenantInv, SaveInv, SaveOK, UnderOwnTenant
<1> QED
  BY <1>1, TenantHolds, PTL

(* No statement runs under an organization that came with the connection.  *)
THEOREM NoInheritance == EdgeSpec => []NothingInherited
<1>1. TenantInv => NothingInherited
  BY DEF TenantInv, SaveInv, SaveOK, NothingInherited
<1> QED
  BY <1>1, TenantHolds, PTL
=============================================================================
