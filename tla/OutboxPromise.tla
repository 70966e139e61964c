--------------------------- MODULE OutboxPromise ---------------------------
(***************************************************************************)
(* What a transactional outbox promises about an event once the            *)
(* transaction that stored it has committed: it is owed to the stream      *)
(* until it is settled, and it is settled for good, after it was delivered *)
(* at least once or after MaxAttempts errors.                              *)
(***************************************************************************)
EXTENDS Naturals

CONSTANTS Event, MaxAttempts

VARIABLES state, delivered, failures

vars == <<state, delivered, failures>>

Init ==
    /\ state = [e \in Event |-> "none"]
    /\ delivered = {}
    /\ failures = [e \in Event |-> 0]

Store(e) ==
    /\ state[e] = "none"
    /\ state' = [state EXCEPT ![e] = "owed"]
    /\ UNCHANGED <<delivered, failures>>

GroundsToSettle(e) == e \in delivered \/ failures[e] = MaxAttempts

(* Work on an event that is owed may deliver it, meet an error, or both,   *)
(* and may settle it once there are grounds.                               *)
Work(e) ==
    /\ state[e] = "owed"
    /\ delivered' \in {delivered, delivered \cup {e}}
    /\ \/ UNCHANGED failures
       \/ failures[e] < MaxAttempts /\ failures' = [failures EXCEPT ![e] = @ + 1]
    /\ \/ UNCHANGED state
       \/ GroundsToSettle(e)' /\ state' = [state EXCEPT ![e] = "settled"]

(* An event whose outcome is known may still meet an error.                *)
LateError(e) ==
    /\ state[e] = "settled"
    /\ failures[e] < MaxAttempts
    /\ failures' = [failures EXCEPT ![e] = @ + 1]
    /\ UNCHANGED <<state, delivered>>

Next == \E e \in Event : Store(e) \/ Work(e) \/ LateError(e)

Spec == Init /\ [][Next]_vars

Settles == \A e \in Event : state[e] = "owed" ~> state[e] = "settled"
=============================================================================
