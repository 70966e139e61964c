-------------------------------- MODULE Edge --------------------------------
(***************************************************************************)
(* Requests through the HTTP edge whose handlers save entities of tenants: *)
(* HttpExchange and TenantScope share the tenant store, and a handler      *)
(* comes to its end when its unit of work has.                             *)
(***************************************************************************)
EXTENDS HttpExchange

CONSTANTS Save, Saver, EntityOrg, Uuid, Overlapping, Connection, NoConnection

ASSUME ScopeAssumption ==
    /\ NoTenant \notin Uuid
    /\ NoConnection \notin Connection

VARIABLES unit, conn, setting, save, under

Scope == INSTANCE TenantScope

rows == <<unit, conn, setting, save, under>>
vars == <<edge, rows>>

EdgeInit == Init /\ Scope!Init

AtTheEdge(q) ==
    /\ Arrive(q) \/ Inbound(q) \/ Outbound(q)
    /\ UNCHANGED rows

InHandler(q) ==
    \/ /\ pc[q] = "handler"
       /\ Scope!Work(q)
       /\ UNCHANGED edge
    \/ /\ conn[q] = NoConnection
       /\ HandlerWrites(q) \/ HandlerEnds(q)
       /\ UNCHANGED rows

(* Every request that was made has been served.                            *)
Served ==
    /\ \A q \in Request : pc[q] = "done"
    /\ UNCHANGED vars

EdgeNext ==
    \/ \E q \in Request : AtTheEdge(q) \/ InHandler(q)
    \/ Served

(* Bodies arrive, guards, pipes and handlers settle, and the pool serves   *)
(* its waiters in order.                                                   *)
EdgeSpec ==
    /\ EdgeInit
    /\ [][EdgeNext]_vars
    /\ \A q \in Request :
          /\ WF_vars(AtTheEdge(q) /\ pc[q] # "idle")
          /\ SF_vars(InHandler(q))

-----------------------------------------------------------------------------
(* The organization a statement has to run under: its entity's, or the one *)
(* the request came with.                                                  *)
Due(s) == IF EntityOrg[s] # NoTenant THEN EntityOrg[s] ELSE OrgHeader[Saver[s]]

(* A statement runs under the organization of its entity, or of its        *)
(* request, while other requests and other entities of the same request    *)
(* are saved, unless the handler lets its saves overlap.                   *)
(* (TenantSubscriber L23-46, TenantContextMiddleware L12-19)               *)
UnderOwnTenant ==
    \A s \in Save :
        save[s] = "done" /\ Saver[s] \notin Overlapping /\ Due(s) \in Uuid
            => under[s] = Due(s)

(* Whatever overlaps, and with or without a valid organization of its own, *)
(* a statement never runs under an organization that no save of its own    *)
(* transaction asked for: nothing is inherited with the connection.        *)
(* (SET LOCAL, TenantSubscriber L43-45)                                    *)
NothingInherited ==
    \A s \in Save : under[s] \in {NoTenant} \cup {Due(t) : t \in Scope!SavesOf(Saver[s])}
=============================================================================
