----------------------------- MODULE TenantScope -----------------------------
(***************************************************************************)
(* TenantSubscriber: before a tenant's entity is inserted, updated or      *)
(* removed it sets the session variable app.current_org_id, on which the   *)
(* row-level policies of the database depend, with SET LOCAL on the        *)
(* connection of the unit of work.  The statement itself follows.          *)
(*                                                                         *)
(* A save is one entity of one of these three kinds.  The saves of a       *)
(* request share its unit of work; a request whose saves overlap (entities *)
(* saved in one call, or promises awaited together) is in Overlapping.     *)
(* Connections, and what PostgreSQL does with a variable, are external.    *)
(***************************************************************************)
CONSTANTS
    Request,
    Save,           \* the entities that are saved
    Saver,          \* the request whose handler saves each
    EntityOrg,      \* the entity's organizationId, NoTenant if not loaded
    NoTenant,
    Uuid,           \* the values that UUID_REGEX accepts
    Overlapping,    \* requests that do not await one save before the next
    Connection,     \* the pool
    NoConnection

VARIABLES
    tenant,     \* tenantStore.getStore() in the async scope of a request
    unit,       \* the transaction of a request
    conn,       \* its connection
    setting,    \* app.current_org_id on a connection
    save,       \* where a save stands
    under       \* history: the setting a save's statement ran under

units == <<unit, conn, setting, save, under>>

Init ==
    /\ unit = [q \in Request |-> "none"]
    /\ conn = [q \in Request |-> NoConnection]
    /\ setting = [k \in Connection |-> NoTenant]
    /\ save = [s \in Save |-> "none"]
    /\ under = [s \in Save |-> NoTenant]

SavesOf(q) == {s \in Save : Saver[s] = q}
InFlight(q) == {s \in SavesOf(q) : save[s] = "set"}

(* The unit of work takes a connection that nobody uses.                   *)
Begin(q) ==
    /\ unit[q] = "none"
    /\ \E k \in Connection :
          /\ \A r \in Request : conn[r] # k
          /\ conn' = [conn EXCEPT ![q] = k]
    /\ unit' = [unit EXCEPT ![q] = "open"]
    /\ UNCHANGED <<setting, save, under>>

(* event.entity?.organizationId ?? getOrgIdFromStore()                     *)
OrgOf(s) == IF EntityOrg[s] # NoTenant THEN EntityOrg[s] ELSE tenant[Saver[s]]

(* The subscriber: SET LOCAL, if there is a valid organization.  Outside a *)
(* transaction, when the unit is over already, it has no effect.           *)
SetTenantId(s) ==
    LET q == Saver[s]
    IN  /\ unit[q] \in {"open", "over"}
        /\ save[s] = "none"
        /\ q \in Overlapping \/ (unit[q] = "open" /\ InFlight(q) = {})
        /\ save' = [save EXCEPT ![s] = "set"]
        /\ setting' = IF OrgOf(s) \in Uuid /\ unit[q] = "open"
                      THEN [setting EXCEPT ![conn[q]] = OrgOf(s)]
                      ELSE setting
        /\ UNCHANGED <<unit, conn, under>>

(* The INSERT, UPDATE or DELETE of the same save.                          *)
Statement(s) ==
    LET q == Saver[s]
    IN  /\ unit[q] \in {"open", "over"}
        /\ save[s] = "set"
        /\ save' = [save EXCEPT ![s] = "done"]
        /\ under' = [under EXCEPT ![s] = setting[conn[q]]]
        /\ UNCHANGED <<unit, conn, setting>>

(* Faulty variant: SET instead of SET LOCAL outlives the transaction.      *)
EndKeepsSetting(q) ==
    /\ unit[q] = "open"
    /\ q \in Overlapping \/ InFlight(q) = {}
    /\ unit' = [unit EXCEPT ![q] = "over"]
    /\ UNCHANGED <<conn, setting, save, under>>

(* COMMIT or ROLLBACK undoes SET LOCAL.  A save that nobody awaits may     *)
(* still be on its way.                                                    *)
End(q) ==
    /\ unit[q] = "open"
    /\ q \in Overlapping \/ InFlight(q) = {}
    /\ unit' = [unit EXCEPT ![q] = "over"]
    /\ setting' = [setting EXCEPT ![conn[q]] = NoTenant]
    /\ UNCHANGED <<conn, save, under>>

(* The connection goes back to the pool; later statements are rejected.    *)
Release(q) ==
    /\ unit[q] = "over"
    /\ unit' = [unit EXCEPT ![q] = "released"]
    /\ conn' = [conn EXCEPT ![q] = NoConnection]
    /\ UNCHANGED <<setting, save, under>>

Work(q) ==
    \/ Begin(q)
    \/ \E s \in SavesOf(q) : SetTenantId(s) \/ Statement(s)
    \/ End(q)
    \/ Release(q)
=============================================================================
