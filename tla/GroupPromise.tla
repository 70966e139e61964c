---------------------------- MODULE GroupPromise ----------------------------
(***************************************************************************)
(* What a consumer group promises about each entry of its stream: it is    *)
(* given to one member and stays with that member, through every failure   *)
(* and restart, until it is settled; it is settled once it was handled,    *)
(* and nobody sees it again.  A member refuses what is not meant for it.   *)
(*                                                                         *)
(* There are two excuses.  An entry that the stream lost before anybody    *)
(* was given it is passed over; and one whose handling is in doubt may be  *)
(* handled again, by the member that has it.                               *)
(*                                                                         *)
(* Entries move independently: any of them may take a step at once.        *)
(***************************************************************************)
CONSTANTS Entry, Member, Refused

VARIABLES
    holders,    \* the members an entry has been given to and is pending for
    settled,    \* entries nobody will be given any more
    lost,       \* entries the stream has lost
    handled,    \* entries that were handled
    twice,      \* entries that were handled more than once
    inDoubt     \* entries whose handling the group may not know of

vars == <<holders, settled, lost, handled, twice, inDoubt>>

Init ==
    /\ holders = [m \in Entry |-> {}]
    /\ settled = {}
    /\ lost = {}
    /\ handled = {}
    /\ twice = {}
    /\ inDoubt = {}

Stays(m) == holders'[m] = holders[m] /\ (m \in settled' <=> m \in settled)

Unhandled(m) == (m \in handled' <=> m \in handled) /\ (m \in twice' <=> m \in twice)

NoNewDoubt(m) == m \in inDoubt' <=> m \in inDoubt

Still(m) == Stays(m) /\ Unhandled(m) /\ NoNewDoubt(m)

Give(m) ==
    /\ holders[m] = {} /\ m \notin settled
    /\ \E i \in Member : holders'[m] = {i}
    /\ m \notin settled'
    /\ Unhandled(m) /\ NoNewDoubt(m)

PassOver(m) ==
    /\ holders[m] = {} /\ m \notin settled
    /\ m \in lost
    /\ holders'[m] = {} /\ m \in settled'
    /\ Unhandled(m) /\ NoNewDoubt(m)

Handle(m) ==
    /\ holders[m] # {} /\ m \notin Refused
    /\ m \in handled => m \in inDoubt
    /\ m \in handled'
    /\ m \in twice' <=> m \in handled
    /\ Stays(m) /\ NoNewDoubt(m)

Doubt(m) ==
    /\ holders[m] # {} /\ m \in handled
    /\ m \in inDoubt'
    /\ Stays(m) /\ Unhandled(m)

(* The doubt may concern the settlement itself.                            *)
Settle(m) ==
    /\ holders[m] # {}
    /\ m \in handled \cup Refused
    /\ holders'[m] = {} /\ m \in settled'
    /\ m \in inDoubt => m \in inDoubt'
    /\ m \in inDoubt' => m \in inDoubt \cup handled
    /\ Unhandled(m)

Next ==
    /\ lost \subseteq lost'
    /\ \A m \in Entry :
          Still(m) \/ Give(m) \/ PassOver(m) \/ Handle(m) \/ Doubt(m) \/ Settle(m)

Spec == Init /\ [][Next]_vars
=============================================================================
