---------------------------- MODULE UnitPromise ----------------------------
(***************************************************************************)
(* What a unit of work promises about the rows written in it, whoever      *)
(* wrote them: they are stored together, once, when it ends, or never; and *)
(* what its caller is told, once, agrees with that.  There are two         *)
(* excuses.  A unit spoiled by a failed statement stores nothing though    *)
(* its caller may be told success; and when the answer of a COMMIT is      *)
(* lost, the caller may be told failure though everything is stored.       *)
(*                                                                         *)
(* A unit that somebody joined without being awaited is not bound by the   *)
(* promise.  The others move independently of each other: any of them may  *)
(* take a step at once.                                                    *)
(***************************************************************************)
CONSTANTS Unit, Row

VARIABLES
    bound,      \* the units the promise is about
    rows,       \* what was written in a unit
    stored,     \* what of it is in the database
    over,       \* the units that have ended
    told,       \* what the caller of a unit has been told
    excuse      \* what befell a unit

vars == <<bound, rows, stored, over, told, excuse>>

Init ==
    /\ bound = Unit
    /\ rows = [u \in Unit |-> {}]
    /\ stored = [u \in Unit |-> {}]
    /\ over = {}
    /\ told = [u \in Unit |-> "none"]
    /\ excuse = [u \in Unit |-> {}]

Honest(u) ==
    \/ told[u] = "success" /\ (stored[u] = rows[u] \/ "spoiled" \in excuse[u])
    \/ told[u] \in {"failure", "throw"} /\ (stored[u] = {} \/ "inDoubt" \in excuse[u])

Tells(u) == told[u] = "none" /\ Honest(u)'

Still(u) ==
    /\ u \in over' <=> u \in over
    /\ rows'[u] = rows[u] /\ stored'[u] = stored[u]
    /\ told'[u] = told[u] /\ excuse'[u] = excuse[u]

Write(u) ==
    /\ u \notin over /\ u \notin over'
    /\ \E r \in Row \ rows[u] : rows'[u] = rows[u] \cup {r}
    /\ stored'[u] = stored[u] /\ told'[u] = told[u] /\ excuse'[u] = excuse[u]

Spoil(u) ==
    /\ u \notin over /\ u \notin over'
    /\ excuse'[u] = excuse[u] \cup {"spoiled"}
    /\ rows'[u] = rows[u] /\ stored'[u] = stored[u] /\ told'[u] = told[u]

(* The end of a unit; its caller may learn of it at once.                  *)
Finish(u) ==
    /\ u \notin over /\ u \in over'
    /\ rows'[u] = rows[u]
    /\ \/ stored'[u] = stored[u]
       \/ stored'[u] = rows[u] /\ "spoiled" \notin excuse[u]
    /\ \/ excuse'[u] = excuse[u] /\ (told'[u] = told[u] \/ Tells(u))
       \/ excuse'[u] = excuse[u] \cup {"inDoubt"} /\ told'[u] = told[u]

Tell(u) ==
    /\ u \in over /\ u \in over'
    /\ Tells(u)
    /\ rows'[u] = rows[u] /\ stored'[u] = stored[u] /\ excuse'[u] = excuse[u]

Next ==
    /\ bound' \subseteq bound
    /\ \A u \in bound' : Still(u) \/ Write(u) \/ Spoil(u) \/ Finish(u) \/ Tell(u)

Spec == Init /\ [][Next]_vars
=============================================================================
