----------------------- MODULE DistributedLock_proofs -----------------------
(***************************************************************************)
(* Theorems about DistributedLock, for any number of commands and keys,    *)
(* any TTL, timeouts and faults.                                           *)
(***************************************************************************)
EXTENDS DistributedLock, TLAPS

(* Every variable has its type.                                            *)
THEOREM TypeCorrect == Spec => []TypeOK
<1>1. Init => TypeOK
  BY LockAssumption DEF Init, TypeOK, Absent, PCs, Replies
<1>2. TypeOK /\ [Next]_vars => TypeOK'
  <2> SUFFICES ASSUME TypeOK, [Next]_vars PROVE TypeOK'
    OBVIOUS
  <2>0. /\ Ttl \in 0..Ttl /\ 0 \in 0..Ttl
        /\ AcquireTimeout \in 0..AcquireTimeout
        /\ RetryDelay \in 0..RetryDelay
        /\ Absent \in [owner : Cmd \cup {NoCmd}, left : 0..Ttl]
    BY LockAssumption DEF Absent
  <2>m. ASSUME NEW c \in Cmd, NEW f \in {"resend", "set", "release"}, Suffer(c, f)
        PROVE mishap' \in [Cmd -> SUBSET (AllFaults \ {"crash"})]
    <3>1. mishap[c] \cup {f} \in SUBSET (AllFaults \ {"crash"})
      <4>1. mishap[c] \in SUBSET (AllFaults \ {"crash"})
        BY DEF TypeOK
      <4>2. f \in AllFaults \ {"crash"}
        BY DEF AllFaults
      <4> QED
        BY <4>1, <4>2
    <3> QED
      BY <2>m, <3>1 DEF Suffer, TypeOK
  <2>1. ASSUME NEW c \in Cmd, Call(c) PROVE TypeOK'
    <3>1. pc' \in [Cmd -> PCs] /\ reply' \in [Cmd -> Replies]
      BY <2>1 DEF Call, TryOrGiveUp, Goto, Settle, TypeOK, PCs, Replies
    <3>2. deadline' \in [Cmd -> 0..AcquireTimeout]
      BY <2>0, <2>1 DEF Call, TypeOK
    <3> QED
      BY <2>1, <3>1, <3>2 DEF Call, TypeOK
  <2>2. ASSUME NEW c \in Cmd, SetNX(c) PROVE TypeOK'
    <3>1. key[c] \in Key
      BY DEF TypeOK
    <3>2. store' \in [Key -> [owner : Cmd \cup {NoCmd}, left : 0..Ttl]]
      <4>1. [owner |-> c, left |-> Ttl] \in [owner : Cmd \cup {NoCmd}, left : 0..Ttl]
        BY <2>0
      <4> QED
        BY <2>2, <3>1, <4>1 DEF SetNX, TypeOK
    <3>3. refusedBy' \in [Cmd -> Cmd \cup {NoCmd}]
      BY <2>2, <3>1 DEF SetNX, TypeOK
    <3>4. pc' \in [Cmd -> PCs] /\ answer' \in [Cmd -> {"none", "OK", "nil"}]
      BY <2>2 DEF SetNX, TypeOK, Goto, PCs
    <3>5. lease' \in [Cmd -> 0..Ttl]
      BY <2>0, <2>2 DEF SetNX, TypeOK
    <3> QED
      BY <2>2, <3>2, <3>3, <3>4, <3>5 DEF SetNX, TypeOK
  <2>3. ASSUME NEW c \in Cmd, Answer(c) PROVE TypeOK'
    <3>1. wake' \in [Cmd -> 0..RetryDelay]
      BY <2>0, <2>3 DEF Answer, TypeOK
    <3>2. pc' \in [Cmd -> PCs] /\ answer' \in [Cmd -> {"none", "OK", "nil"}]
      BY <2>3 DEF Answer, TypeOK, Goto, PCs
    <3> QED
      BY <2>3, <3>1, <3>2 DEF Answer, TypeOK
  <2>4. ASSUME NEW c \in Cmd, WakeUp(c) PROVE TypeOK'
    BY <2>4 DEF WakeUp, TryOrGiveUp, TypeOK, Goto, Settle, PCs, Replies
  <2>5. ASSUME NEW c \in Cmd, NEW o \in {"success", "failure", "throw"}, NextReturns(c, o)
        PROVE TypeOK'
    BY <2>5 DEF NextReturns, TypeOK, Goto, Settle, PCs, Replies
  <2>6. ASSUME NEW c \in Cmd, Release(c) \/ ReleaseFails(c) PROVE TypeOK'
    <3>1. store' \in [Key -> [owner : Cmd \cup {NoCmd}, left : 0..Ttl]]
      BY <2>0, <2>6 DEF Release, ReleaseFails, Delete, TypeOK
    <3>2. pc' \in [Cmd -> PCs]
      BY <2>6 DEF Release, ReleaseFails, TypeOK, Goto, PCs
    <3>3. mishap' \in [Cmd -> SUBSET (AllFaults \ {"crash"})]
      BY <2>6, <2>m DEF Release, ReleaseFails, TypeOK
    <3> QED
      BY <2>6, <3>1, <3>2, <3>3 DEF Release, ReleaseFails, TypeOK
  <2>7. ASSUME NEW c \in Cmd, Resend(c) \/ SetFails(c) \/ Crash(c) PROVE TypeOK'
    <3>1. /\ pc' \in [Cmd -> PCs]
          /\ answer' \in [Cmd -> {"none", "OK", "nil"}] /\ reply' \in [Cmd -> Replies]
      BY <2>7 DEF Resend, SetFails, Crash, TypeOK, Goto, Settle, PCs, Replies
    <3>2. mishap' \in [Cmd -> SUBSET (AllFaults \ {"crash"})]
      BY <2>7, <2>m DEF Resend, SetFails, Crash, TypeOK
    <3> QED
      BY <2>7, <3>1, <3>2 DEF Resend, SetFails, Crash, TypeOK
  <2>9. CASE Tick
    <3>1. \A n \in Nat : \A m \in 0..n : Dec(m) \in 0..n
      BY DEF Dec
    <3>2. store' \in [Key -> [owner : Cmd \cup {NoCmd}, left : 0..Ttl]]
      <4>1. ASSUME NEW k \in Key, ~(store[k].left <= 1)
            PROVE [store[k] EXCEPT !.left = @ - 1] \in [owner : Cmd \cup {NoCmd}, left : 0..Ttl]
        BY <4>1, LockAssumption DEF TypeOK
      <4> QED
        BY <2>0, <2>9, <4>1 DEF Tick
    <3>3. deadline' \in [Cmd -> 0..AcquireTimeout] /\ wake' \in [Cmd -> 0..RetryDelay]
      BY <2>9, <3>1, LockAssumption DEF Tick, TypeOK
    <3>4. lease' \in [Cmd -> 0..Ttl]
      BY <2>9, <3>1, LockAssumption DEF Tick, TypeOK
    <3> QED
      BY <2>9, <3>2, <3>3, <3>4 DEF Tick, TypeOK
  <2>10. CASE UNCHANGED vars
    BY <2>10 DEF vars, TypeOK
  <2> QED
    BY <2>1, <2>2, <2>3, <2>4, <2>5, <2>6, <2>7, <2>9, <2>10 DEF Next, Proceed, Fail
<1> QED
  BY <1>1, <1>2, PTL DEF Spec

-----------------------------------------------------------------------------
(* A key is present exactly while it has TTL left.                         *)
StoreInv ==
    \A k \in Key : store[k].owner = NoCmd <=> store[k].left = 0

(* A lease starts with a successful SET.                                   *)
IdleInv == \A c \in Cmd : pc[c] = "idle" => lease[c] = 0

(* A command whose SET succeeded, from the moment the server executed it:  *)
(* a lease that still runs is the TTL left on the command's own key.       *)
Obtained(c) == pc[c] = "next" \/ (pc[c] = "answered" /\ answer[c] = "OK")

LeaseInv ==
    \A c \in Cmd :
        Obtained(c) /\ lease[c] > 0
            => store[key[c]] = [owner |-> c, left |-> lease[c]]

IInv == TypeOK /\ StoreInv /\ IdleInv /\ LeaseInv

(* The initial states satisfy the invariant.                               *)
LEMMA InitIInv == Init => IInv
<1> SUFFICES ASSUME Init PROVE IInv
  OBVIOUS
<1>1. TypeOK
  BY LockAssumption DEF Init, TypeOK, Absent, PCs, Replies
<1>2. StoreInv /\ IdleInv /\ LeaseInv
  BY DEF Init, StoreInv, IdleInv, LeaseInv, Obtained, Absent
<1> QED
  BY <1>1, <1>2 DEF IInv

(* The invariant that LeaseIsHeld and MutexWithinLease rest on.            *)
LEMMA Inductive == IInv /\ TypeOK' /\ [Next]_vars => IInv'
<1> SUFFICES ASSUME IInv, TypeOK', [Next]_vars PROVE IInv'
  OBVIOUS
<1> USE DEF IInv
<1>1. ASSUME NEW c \in Cmd, Call(c) PROVE IInv'
  <2>1. StoreInv' /\ IdleInv'
    BY <1>1 DEF Call, TryOrGiveUp, Goto, TypeOK, StoreInv, IdleInv
  <2>2. LeaseInv'
    BY <1>1 DEF Call, TryOrGiveUp, Goto, TypeOK, IdleInv, LeaseInv, Obtained
  <2> QED
    BY <2>1, <2>2
<1>2. ASSUME NEW c \in Cmd, SetNX(c) PROVE IInv'
  <2>1. StoreInv'
    BY <1>2, LockAssumption DEF SetNX, TypeOK, StoreInv
  <2>2. IdleInv'
    BY <1>2 DEF SetNX, Goto, TypeOK, IdleInv
  <2>3. LeaseInv'
    BY <1>2, LockAssumption DEF SetNX, Goto, TypeOK, LeaseInv, Obtained
  <2> QED
    BY <2>1, <2>2, <2>3
<1>3. ASSUME NEW c \in Cmd, Answer(c) PROVE IInv'
  BY <1>3 DEF Answer, Goto, TypeOK, StoreInv, IdleInv, LeaseInv, Obtained
<1>4. ASSUME NEW c \in Cmd, WakeUp(c) PROVE IInv'
  BY <1>4 DEF WakeUp, TryOrGiveUp, Goto, TypeOK, StoreInv, IdleInv, LeaseInv, Obtained
<1>5. ASSUME NEW c \in Cmd, NEW o \in {"success", "failure", "throw"}, NextReturns(c, o)
      PROVE IInv'
  BY <1>5 DEF NextReturns, Goto, TypeOK, StoreInv, IdleInv, LeaseInv, Obtained
<1>6. ASSUME NEW c \in Cmd, Release(c) \/ ReleaseFails(c) PROVE IInv'
  <2>1. /\ pc[c] = "release" /\ pc' = [pc EXCEPT ![c] = "done"]
        /\ Delete(c) \/ UNCHANGED store
        /\ UNCHANGED <<key, answer, lease>>
    BY <1>6 DEF Release, ReleaseFails, Goto
  <2>2. StoreInv'
    BY <2>1 DEF Delete, TypeOK, StoreInv, Absent
  <2>3. IdleInv'
    BY <2>1 DEF TypeOK, IdleInv
  <2>4. LeaseInv'
    BY <2>1 DEF Delete, TypeOK, LeaseInv, Obtained
  <2> QED
    BY <2>2, <2>3, <2>4
<1>7. ASSUME NEW c \in Cmd, Resend(c) \/ SetFails(c) \/ Crash(c) PROVE IInv'
  BY <1>7 DEF Resend, SetFails, Crash, Goto, TypeOK, StoreInv, IdleInv, LeaseInv, Obtained
<1>8. CASE Tick
  <2>1. StoreInv'
    BY <1>8 DEF Tick, TypeOK, StoreInv, Absent
  <2>2. IdleInv'
    BY <1>8 DEF Tick, Dec, TypeOK, IdleInv
  <2>3. LeaseInv'
    <3> SUFFICES ASSUME NEW c \in Cmd, Obtained(c)', lease'[c] > 0
                 PROVE store'[key'[c]] = [owner |-> c, left |-> lease'[c]]
      BY DEF LeaseInv
    <3>1. key[c] \in Key /\ lease[c] \in Nat
      BY LockAssumption DEF TypeOK
    <3>2. Obtained(c) /\ lease[c] > 1 /\ lease'[c] = lease[c] - 1
      BY <1>8, <3>1 DEF Tick, Dec, Obtained
    <3>3. store[key[c]] = [owner |-> c, left |-> lease[c]]
      BY <3>1, <3>2 DEF LeaseInv
    <3> QED
      BY <1>8, <3>1, <3>2, <3>3 DEF Tick
  <2> QED
    BY <2>1, <2>2, <2>3
<1>9. CASE UNCHANGED vars
  BY <1>9 DEF vars, TypeOK, StoreInv, IdleInv, LeaseInv, Obtained
<1> QED
  BY <1>1, <1>2, <1>3, <1>4, <1>5, <1>6, <1>7, <1>8, <1>9 DEF Next, Proceed, Fail

(* The strengthened invariant holds in every reachable state.              *)
THEOREM InductiveInvariant == Spec => []IInv
<1>1. Init => IInv
  BY InitIInv
<1>2. IInv /\ TypeOK' /\ [Next]_vars => IInv'
  BY Inductive
<1> QED
  BY <1>1, <1>2, TypeCorrect, PTL DEF Spec

(* While a command runs next() under its lease, Redis holds the key for    *)
(* it, for any number of commands and whatever is lost, resent or crashes. *)
THEOREM LeaseHeld == Spec => []LeaseIsHeld
<1>1. IInv => LeaseIsHeld
  <2> SUFFICES ASSUME IInv, NEW c \in Cmd, Guarded(c) PROVE store[key[c]].owner = c
    BY DEF LeaseIsHeld
  <2>1. store[key[c]] = [owner |-> c, left |-> lease[c]]
    BY DEF IInv, LeaseInv, Guarded, Obtained
  <2> QED
    BY <2>1
<1> QED
  BY <1>1, InductiveInvariant, PTL

(* Mutual exclusion inside next(), for as long as the leases run.          *)
THEOREM MutualExclusion == Spec => []MutexWithinLease
<1>1. LeaseIsHeld => MutexWithinLease
  BY DEF LeaseIsHeld, MutexWithinLease
<1> QED
  BY <1>1, LeaseHeld, PTL

(* A key changes hands only by its owner's release or at the end of its    *)
(* TTL: a late release of a command whose lease is over deletes nothing of *)
(* anybody else's.                                                         *)
THEOREM ReleasedByOwner == Spec => OnlyOwnerReleases
<1> DEFINE Step ==
      \A k \in Key : \A c \in Cmd :
          store[k].owner = c /\ store'[k].owner # c
              => \/ pc[c] = "release" /\ pc'[c] = "done"
                 \/ store[k].left = 1 /\ store'[k] = Absent
<1>1. IInv /\ [Next]_vars => [Step]_vars
  <2> SUFFICES ASSUME IInv, Next, NEW k \in Key, NEW c \in Cmd,
                      store[k].owner = c, store'[k].owner # c
               PROVE \/ pc[c] = "release" /\ pc'[c] = "done"
                     \/ store[k].left = 1 /\ store'[k] = Absent
    OBVIOUS
  <2> USE DEF IInv
  <2>1. c # NoCmd /\ store[k].left # 0 /\ store[k].left \in Nat
    BY LockAssumption DEF TypeOK, StoreInv
  <2>2. ASSUME NEW d \in Cmd, SetNX(d) PROVE FALSE
    BY <2>1, <2>2 DEF SetNX, TypeOK
  <2>3. ASSUME NEW d \in Cmd, Release(d) \/ ReleaseFails(d)
        PROVE pc[c] = "release" /\ pc'[c] = "done"
    <3>1. pc[d] = "release" /\ pc' = [pc EXCEPT ![d] = "done"] /\ Delete(d)
      BY <2>3 DEF Release, ReleaseFails, Goto
    <3>2. store[key[d]].owner = d /\ store' = [store EXCEPT ![key[d]] = Absent]
      BY <3>1 DEF Delete
    <3>3. key[d] = k
      BY <3>2 DEF TypeOK
    <3>4. c = d
      BY <3>2, <3>3
    <3> QED
      BY <3>1, <3>4 DEF TypeOK
  <2>4. CASE Tick
    <3>1. store[k] \in [owner : Cmd \cup {NoCmd}, left : 0..Ttl]
      BY DEF TypeOK
    <3>2. store'[k] = IF store[k].left <= 1 THEN Absent ELSE [store[k] EXCEPT !.left = @ - 1]
      BY <2>4 DEF Tick
    <3>3. store[k].left <= 1
      BY <3>1, <3>2
    <3> QED
      BY <2>1, <3>2, <3>3
  <2>5. ASSUME UNCHANGED store PROVE FALSE
    BY <2>5
  <2> QED
    BY <2>2, <2>3, <2>4, <2>5
       DEF Next, Proceed, Fail, Call, Answer, WakeUp, NextReturns, Resend, SetFails, Crash
<1> QED
  BY <1>1, InductiveInvariant, PTL DEF Spec, OnlyOwnerReleases

-----------------------------------------------------------------------------
(* A key in the hands of a command is the command's own.  A command that   *)
(* is still asking for it has asked more than once, and one that has       *)
(* returned has met with a mishap.                                         *)
Asking(c) == pc[c] \in {"set", "sleep"} \/ (pc[c] = "answered" /\ answer[c] = "nil")

OwnedInv ==
    \A c \in Cmd : \A k \in Key :
        store[k].owner = c
            => /\ k = key[c] /\ c \in Locked /\ pc[c] # "idle"
               /\ Asking(c) => "resend" \in mishap[c]
               /\ pc[c] = "done" => mishap[c] # {}

LockedInv == \A c \in Cmd : pc[c] \in {"set", "answered", "sleep", "release"} => c \in Locked

(* A command that sleeps was turned down, by its own key only after its    *)
(* SET was resent; one that gave up did so at its deadline.                *)
RefusedInv ==
    \A c \in Cmd :
        /\ pc[c] = "sleep" \/ (pc[c] = "answered" /\ answer[c] = "nil") => refusedBy[c] # NoCmd
        /\ refusedBy[c] = c => "resend" \in mishap[c]
        /\ reply[c] = "conflict"
              => /\ pc[c] = "done"
                 /\ AcquireTimeout > 0 => deadline[c] = 0 /\ refusedBy[c] # NoCmd

AskInv == OwnedInv /\ LockedInv /\ RefusedInv

(* The invariant that NoOrphanLock and ConflictOnlyAfterContention rest on.*)
LEMMA AskInductive == TypeOK /\ TypeOK' /\ AskInv /\ [Next]_vars => AskInv'
<1> SUFFICES ASSUME TypeOK, TypeOK', AskInv, [Next]_vars PROVE AskInv'
  OBVIOUS
<1> USE DEF AskInv
<1>0. NoCmd \notin Cmd /\ AcquireTimeout \in Nat
  BY LockAssumption
<1>1. ASSUME NEW c \in Cmd, Call(c) PROVE AskInv'
  <2>1. OwnedInv'
    BY <1>1 DEF Call, TryOrGiveUp, Goto, TypeOK, OwnedInv, Asking
  <2>2. LockedInv'
    BY <1>1 DEF Call, TryOrGiveUp, Goto, TypeOK, LockedInv
  <2>3. RefusedInv'
    BY <1>0, <1>1 DEF Call, TryOrGiveUp, Goto, Settle, TypeOK, RefusedInv
  <2> QED
    BY <2>1, <2>2, <2>3
<1>2. ASSUME NEW c \in Cmd, SetNX(c) PROVE AskInv'
  <2>0. c \in Locked /\ key[c] \in Key
    BY <1>2 DEF SetNX, TypeOK, LockedInv
  <2>1. OwnedInv'
    BY <1>0, <1>2, <2>0 DEF SetNX, Goto, TypeOK, OwnedInv, Asking
  <2>2. LockedInv'
    BY <1>2, <2>0 DEF SetNX, Goto, TypeOK, LockedInv
  <2>3. RefusedInv'
    BY <1>0, <1>2, <2>0 DEF SetNX, Goto, TypeOK, OwnedInv, Asking, RefusedInv
  <2> QED
    BY <2>1, <2>2, <2>3
<1>3. ASSUME NEW c \in Cmd, Answer(c) PROVE AskInv'
  <2>1. OwnedInv' /\ LockedInv'
    BY <1>3 DEF Answer, Goto, TypeOK, OwnedInv, LockedInv, Asking
  <2>2. RefusedInv'
    BY <1>3 DEF Answer, Goto, TypeOK, RefusedInv
  <2> QED
    BY <2>1, <2>2
<1>4. ASSUME NEW c \in Cmd, WakeUp(c) PROVE AskInv'
  <2>1. OwnedInv' /\ LockedInv'
    BY <1>4 DEF WakeUp, TryOrGiveUp, Goto, TypeOK, OwnedInv, LockedInv, Asking
  <2>2. RefusedInv'
    BY <1>4 DEF WakeUp, TryOrGiveUp, Goto, Settle, TypeOK, RefusedInv
  <2> QED
    BY <2>1, <2>2
<1>5. ASSUME NEW c \in Cmd, NEW o \in {"success", "failure", "throw"}, NextReturns(c, o)
      PROVE AskInv'
  <2>1. OwnedInv' /\ LockedInv'
    BY <1>5 DEF NextReturns, Goto, TypeOK, OwnedInv, LockedInv, Asking
  <2>2. RefusedInv'
    BY <1>5 DEF NextReturns, Goto, Settle, TypeOK, RefusedInv
  <2> QED
    BY <2>1, <2>2
<1>6. ASSUME NEW c \in Cmd, Release(c) PROVE AskInv'
  <2>1. OwnedInv'
    BY <1>0, <1>6 DEF Release, Delete, Goto, TypeOK, Absent, OwnedInv, Asking
  <2>2. LockedInv' /\ RefusedInv'
    BY <1>6 DEF Release, Goto, TypeOK, LockedInv, RefusedInv
  <2> QED
    BY <2>1, <2>2
<1>7. ASSUME NEW c \in Cmd, ReleaseFails(c) PROVE AskInv'
  <2>1. OwnedInv'
    BY <1>0, <1>7 DEF ReleaseFails, Delete, Goto, Suffer, TypeOK, Absent, OwnedInv, Asking
  <2>2. LockedInv' /\ RefusedInv'
    BY <1>7 DEF ReleaseFails, Goto, Suffer, TypeOK, LockedInv, RefusedInv
  <2> QED
    BY <2>1, <2>2
<1>8. ASSUME NEW c \in Cmd, Resend(c) PROVE AskInv'
  <2>1. OwnedInv' /\ LockedInv'
    BY <1>8 DEF Resend, Goto, Suffer, TypeOK, OwnedInv, LockedInv, Asking
  <2>2. RefusedInv'
    BY <1>8 DEF Resend, Goto, Suffer, TypeOK, RefusedInv
  <2> QED
    BY <2>1, <2>2
<1>9. ASSUME NEW c \in Cmd, SetFails(c) \/ Crash(c) PROVE AskInv'
  <2>1. LockedInv'
    BY <1>9 DEF SetFails, Crash, Goto, TypeOK, LockedInv
  <2>2. ASSUME SetFails(c) PROVE OwnedInv'
    <3>1. mishap'[c] # {} /\ \A d \in Cmd : mishap[d] \subseteq mishap'[d]
      BY <2>2 DEF SetFails, Suffer, TypeOK
    <3> QED
      BY <2>2, <3>1 DEF SetFails, Goto, TypeOK, OwnedInv, Asking
  <2>3. ASSUME Crash(c) PROVE OwnedInv'
    BY <2>3 DEF Crash, Goto, TypeOK, OwnedInv, Asking
  <2>4. RefusedInv'
    BY <1>9 DEF SetFails, Crash, Goto, Settle, Suffer, TypeOK, RefusedInv
  <2>5. OwnedInv'
    BY <1>9, <2>2, <2>3
  <2> QED
    BY <2>1, <2>4, <2>5
<1>10. CASE Tick
  <2>1. \A k \in Key : \A c \in Cmd : store'[k].owner = c => store[k].owner = c
    BY <1>0, <1>10 DEF Tick, Absent, TypeOK
  <2>2. OwnedInv' /\ LockedInv'
    BY <1>10, <2>1 DEF Tick, TypeOK, OwnedInv, LockedInv, Asking
  <2>3. RefusedInv'
    BY <1>10 DEF Tick, Dec, TypeOK, RefusedInv
  <2> QED
    BY <2>2, <2>3
<1>11. CASE UNCHANGED vars
  BY <1>11 DEF vars, TypeOK, OwnedInv, LockedInv, RefusedInv, Asking
<1> QED
  BY <1>1, <1>2, <1>3, <1>4, <1>5, <1>6, <1>7, <1>8, <1>9, <1>10, <1>11
     DEF Next, Proceed, Fail

(* A command that has returned leaves a key behind only after a mishap,    *)
(* and Conflict is reported only at the deadline, by a command that was    *)
(* turned down: for any number of commands and keys.                       *)
LEMMA AskHolds == Spec => []AskInv
<1>1. Init => AskInv
  BY LockAssumption
     DEF Init, AskInv, OwnedInv, LockedInv, RefusedInv, Asking, Absent
<1>2. TypeOK /\ TypeOK' /\ AskInv /\ [Next]_vars => AskInv'
  BY AskInductive
<1> QED
  BY <1>1, <1>2, TypeCorrect, PTL DEF Spec

(* No command that returned without a mishap leaves its key behind.        *)
THEOREM NoOrphans == Spec => []NoOrphanLock
<1>1. AskInv => NoOrphanLock
  BY DEF AskInv, OwnedInv, NoOrphanLock
<1> QED
  BY <1>1, AskHolds, PTL

(* Conflict means that the time to acquire is over and that the key was    *)
(* seen in somebody's hands, the command's own only after a resent SET.    *)
THEOREM HonestConflict == Spec => []ConflictOnlyAfterContention
<1>1. AskInv => ConflictOnlyAfterContention
  BY DEF AskInv, RefusedInv, ConflictOnlyAfterContention
<1> QED
  BY <1>1, AskHolds, PTL
=============================================================================
