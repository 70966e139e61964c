------------------------------- MODULE MCEdge -------------------------------
(* Two requests of different tenants over one pooled connection.  The first *)
(* sends a correlation id and an organization and saves an entity of        *)
(* another one before one whose organization is not loaded; the second      *)
(* sends neither id nor a valid organization and lets its saves overlap.    *)
EXTENDS Edge

MCHeader == [q \in Request |-> IF q = "first" THEN "traced" ELSE NoId]
MCOrgHeader == [q \in Request |-> IF q = "first" THEN "org1" ELSE "mistyped"]
MCTokenOrg == [q \in Request |-> IF q = "first" THEN "org2" ELSE "org3"]

MCSaver == [s \in Save |-> IF s \in {"a", "b"} THEN "first" ELSE "second"]
MCEntityOrg == [a |-> "org2", b |-> NoTenant, c |-> NoTenant, d |-> "org3"]
=============================================================================
