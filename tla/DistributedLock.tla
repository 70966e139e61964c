-------------------------- MODULE DistributedLock --------------------------
(***************************************************************************)
(* DistributedLockBehavior: a command acquires a Redis key with SET .. EX  *)
(* .. NX, retries until a deadline, runs next() and releases the key with  *)
(* a script that deletes it only while it still carries the command's      *)
(* uuid.  The uuid of an execution is the command itself.                  *)
(*                                                                         *)
(* Redis is external.  Its answer travels: the lease already runs while    *)
(* the answer to SET is under way, and the answer may be lost, upon which  *)
(* the client resends the SET or rejects.  Time is kept as what is left    *)
(* until a deadline, so nothing bounds how long the system runs.           *)
(***************************************************************************)
EXTENDS Naturals

CONSTANTS
    Cmd,            \* executions of commands
    NoCmd,          \* no command: the value of an absent key
    Key,            \* what the key templates interpolate to
    Locked,         \* commands with @DistributedLock metadata, Redis present
    Ttl,            \* lockTtlSeconds
    AcquireTimeout, \* acquireTimeoutSeconds
    RetryDelay,     \* the sleep between two attempts
    Faults          \* what may go wrong on the way to Redis and back

AllFaults == {"resend", "set", "release", "crash"}

ASSUME LockAssumption ==
    /\ NoCmd \notin Cmd
    /\ Locked \subseteq Cmd
    /\ Ttl \in Nat \ {0}
    /\ AcquireTimeout \in Nat
    /\ RetryDelay \in Nat \ {0}
    /\ Faults \subseteq AllFaults

VARIABLES
    store,      \* Redis: for each key the uuid it holds and the TTL left
    pc,         \* where execute(c) stands
    key,        \* lockKey of c
    deadline,   \* time left until c's deadline
    wake,       \* time left of c's sleep
    answer,     \* the answer of Redis to c's last SET, until c reads it
    reply,      \* what the promise of execute(c) settles to
    lease,      \* history: time left of the TTL c's successful SET obtained
    refusedBy,  \* history: whose key turned c's last SET down
    mishap      \* history: what went wrong for c

vars == <<store, pc, key, deadline, wake, answer, reply, lease, refusedBy, mishap>>

PCs == {"idle", "set", "answered", "sleep", "next", "release", "done", "crashed"}
Replies == {"none", "success", "failure", "throw", "conflict"}
Absent == [owner |-> NoCmd, left |-> 0]

TypeOK ==
    /\ store \in [Key -> [owner : Cmd \cup {NoCmd}, left : 0..Ttl]]
    /\ pc \in [Cmd -> PCs]
    /\ key \in [Cmd -> Key]
    /\ deadline \in [Cmd -> 0..AcquireTimeout]
    /\ wake \in [Cmd -> 0..RetryDelay]
    /\ answer \in [Cmd -> {"none", "OK", "nil"}]
    /\ reply \in [Cmd -> Replies]
    /\ lease \in [Cmd -> 0..Ttl]
    /\ refusedBy \in [Cmd -> Cmd \cup {NoCmd}]
    /\ mishap \in [Cmd -> SUBSET (AllFaults \ {"crash"})]

Init ==
    /\ store = [k \in Key |-> Absent]
    /\ pc = [c \in Cmd |-> "idle"]
    /\ key \in [Cmd -> Key]
    /\ deadline = [c \in Cmd |-> 0]
    /\ wake = [c \in Cmd |-> 0]
    /\ answer = [c \in Cmd |-> "none"]
    /\ reply = [c \in Cmd |-> "none"]
    /\ lease = [c \in Cmd |-> 0]
    /\ refusedBy = [c \in Cmd |-> NoCmd]
    /\ mishap = [c \in Cmd |-> {}]

Goto(c, label) == pc' = [pc EXCEPT ![c] = label]
Settle(c, outcome) == reply' = [reply EXCEPT ![c] = outcome]
Suffer(c, fault) == mishap' = [mishap EXCEPT ![c] = @ \cup {fault}]

Dec(n) == IF n = 0 THEN 0 ELSE n - 1

-----------------------------------------------------------------------------
(* Faulty variant: the last stretch before the deadline is not used.       *)
GivesUpEarly(c, left) ==
    \/ left > 1 /\ Goto(c, "set") /\ UNCHANGED reply
    \/ left <= 1 /\ Goto(c, "done") /\ Settle(c, "conflict")

(* The condition of the while loop: try again, or give up with Conflict.   *)
TryOrGiveUp(c, left) ==
    \/ left > 0 /\ Goto(c, "set") /\ UNCHANGED reply
    \/ left = 0 /\ Goto(c, "done") /\ Settle(c, "conflict")

(* execute(c) is called; without metadata or Redis it is next().           *)
Call(c) ==
    /\ pc[c] = "idle"
    /\ \/ /\ c \notin Locked
          /\ Goto(c, "next")
          /\ UNCHANGED <<deadline, reply>>
       \/ /\ c \in Locked
          /\ deadline' = [deadline EXCEPT ![c] = AcquireTimeout]
          /\ TryOrGiveUp(c, AcquireTimeout)
    /\ UNCHANGED <<store, key, wake, answer, lease, refusedBy, mishap>>

(* Faulty variant: SET without NX.                                         *)
SetAlways(c) ==
    /\ pc[c] = "set"
    /\ store' = [store EXCEPT ![key[c]] = [owner |-> c, left |-> Ttl]]
    /\ answer' = [answer EXCEPT ![c] = "OK"]
    /\ lease' = [lease EXCEPT ![c] = Ttl]
    /\ Goto(c, "answered")
    /\ UNCHANGED <<key, deadline, wake, reply, refusedBy, mishap>>

(* SET key uuid EX Ttl NX, at the server.                                  *)
SetNX(c) ==
    /\ pc[c] = "set"
    /\ LET k == key[c]
       IN  \/ /\ store[k].owner = NoCmd
              /\ store' = [store EXCEPT ![k] = [owner |-> c, left |-> Ttl]]
              /\ answer' = [answer EXCEPT ![c] = "OK"]
              /\ lease' = [lease EXCEPT ![c] = Ttl]
              /\ UNCHANGED refusedBy
           \/ /\ store[k].owner # NoCmd
              /\ answer' = [answer EXCEPT ![c] = "nil"]
              /\ refusedBy' = [refusedBy EXCEPT ![c] = store[k].owner]
              /\ UNCHANGED <<store, lease>>
    /\ Goto(c, "answered")
    /\ UNCHANGED <<key, deadline, wake, reply, mishap>>

(* The answer reaches the command: it enters next(), or sleeps.            *)
Answer(c) ==
    /\ pc[c] = "answered"
    /\ answer' = [answer EXCEPT ![c] = "none"]
    /\ \/ answer[c] = "OK" /\ Goto(c, "next") /\ UNCHANGED wake
       \/ /\ answer[c] = "nil"
          /\ Goto(c, "sleep")
          /\ wake' = [wake EXCEPT ![c] = RetryDelay]
    /\ UNCHANGED <<store, key, deadline, reply, lease, refusedBy, mishap>>

(* The connection drops before the answer arrives; the client reconnects   *)
(* and sends the same SET again.                                           *)
Resend(c) ==
    /\ "resend" \in Faults
    /\ pc[c] = "answered"
    /\ answer' = [answer EXCEPT ![c] = "none"]
    /\ Goto(c, "set")
    /\ Suffer(c, "resend")
    /\ UNCHANGED <<store, key, deadline, wake, reply, lease, refusedBy>>

(* redis.set rejects, executed or not; tryAcquire does not catch it.       *)
SetFails(c) ==
    /\ "set" \in Faults
    /\ pc[c] \in {"set", "answered"}
    /\ answer' = [answer EXCEPT ![c] = "none"]
    /\ Goto(c, "done")
    /\ Settle(c, "throw")
    /\ Suffer(c, "set")
    /\ UNCHANGED <<store, key, deadline, wake, lease, refusedBy>>

WakeUp(c) ==
    /\ pc[c] = "sleep"
    /\ wake[c] = 0
    /\ TryOrGiveUp(c, deadline[c])
    /\ UNCHANGED <<store, key, deadline, wake, answer, lease, refusedBy, mishap>>

(* Faulty variant: no finally, a throwing next() skips the release.        *)
NextThrowsPastRelease(c, outcome) ==
    /\ pc[c] = "next"
    /\ Goto(c, IF c \in Locked /\ outcome # "throw" THEN "release" ELSE "done")
    /\ Settle(c, outcome)
    /\ UNCHANGED <<store, key, deadline, wake, answer, lease, refusedBy, mishap>>

(* next() settles; whatever it settles to, the finally block comes next.   *)
NextReturns(c, outcome) ==
    /\ pc[c] = "next"
    /\ Goto(c, IF c \in Locked THEN "release" ELSE "done")
    /\ Settle(c, outcome)
    /\ UNCHANGED <<store, key, deadline, wake, answer, lease, refusedBy, mishap>>

(* Faulty variant: a plain DEL.                                            *)
DeleteAnyway(c) == store' = [store EXCEPT ![key[c]] = Absent]

(* The script: delete the key if it holds the uuid of c.                   *)
Delete(c) ==
    store' = IF store[key[c]].owner = c
             THEN [store EXCEPT ![key[c]] = Absent]
             ELSE store

Release(c) ==
    /\ pc[c] = "release"
    /\ Delete(c)
    /\ Goto(c, "done")
    /\ UNCHANGED <<key, deadline, wake, answer, reply, lease, refusedBy, mishap>>

(* redis.eval rejects, executed or not; release swallows the error.        *)
ReleaseFails(c) ==
    /\ "release" \in Faults
    /\ pc[c] = "release"
    /\ Delete(c) \/ UNCHANGED store
    /\ Goto(c, "done")
    /\ Suffer(c, "release")
    /\ UNCHANGED <<key, deadline, wake, answer, reply, lease, refusedBy>>

(* The process that executes c dies.                                       *)
Crash(c) ==
    /\ "crash" \in Faults
    /\ pc[c] \notin {"idle", "done", "crashed"}
    /\ Goto(c, "crashed")
    /\ answer' = [answer EXCEPT ![c] = "none"]
    /\ UNCHANGED <<store, key, deadline, wake, reply, lease, refusedBy, mishap>>

(* Faulty variant: the timeout of sleep is never armed.                    *)
TickWithoutTimers ==
    /\ store' = [k \in Key |-> IF store[k].left <= 1
                               THEN Absent
                               ELSE [store[k] EXCEPT !.left = @ - 1]]
    /\ deadline' = [c \in Cmd |-> Dec(deadline[c])]
    /\ lease' = [c \in Cmd |-> Dec(lease[c])]
    /\ UNCHANGED <<pc, key, wake, answer, reply, refusedBy, mishap>>

(* Time passes; Redis drops a key whose TTL has run out.                   *)
Tick ==
    /\ store' = [k \in Key |-> IF store[k].left <= 1
                               THEN Absent
                               ELSE [store[k] EXCEPT !.left = @ - 1]]
    /\ deadline' = [c \in Cmd |-> Dec(deadline[c])]
    /\ wake' = [c \in Cmd |-> Dec(wake[c])]
    /\ lease' = [c \in Cmd |-> Dec(lease[c])]
    /\ UNCHANGED <<pc, key, answer, reply, refusedBy, mishap>>

-----------------------------------------------------------------------------
Proceed(c) ==
    \/ SetNX(c) \/ Answer(c) \/ WakeUp(c)
    \/ \E outcome \in {"success", "failure", "throw"} : NextReturns(c, outcome)
    \/ Release(c)

Fail(c) == Resend(c) \/ SetFails(c) \/ ReleaseFails(c) \/ Crash(c)

Next ==
    \/ \E c \in Cmd : Call(c) \/ Proceed(c) \/ Fail(c)
    \/ Tick

Spec == Init /\ [][Next]_vars

(* Time passes, handlers return, and of the answers to SETs that are sent  *)
(* again and again one arrives; nothing is bound to fail.                  *)
FairSpec ==
    /\ Spec
    /\ WF_vars(Tick)
    /\ \A c \in Cmd : WF_vars(Proceed(c))
    /\ SF_vars(\E c \in Locked : Answer(c))

-----------------------------------------------------------------------------
(* Inside next() under a lease that has not run out.                       *)
Guarded(c) == pc[c] = "next" /\ lease[c] > 0

(* Two commands are never both inside next() under running leases of the   *)
(* same key: mutual exclusion holds for as long as the TTL does, whatever  *)
(* is lost, resent or crashes, and no other command's release ends it.     *)
(* (DistributedLockBehavior L54, L64-69)                                   *)
MutexWithinLease ==
    \A c, d \in Cmd : Guarded(c) /\ Guarded(d) /\ key[c] = key[d] => c = d

(* While a command runs next() under its lease Redis holds the key for it: *)
(* a third party can still be turned away.                                 *)
LeaseIsHeld == \A c \in Cmd : Guarded(c) => store[key[c]].owner = c

(* A key changes hands only by its owner's release, or by running out of   *)
(* TTL: "Lua script ensures only the owner releases the lock" (L63).       *)
OnlyOwnerReleases ==
    [][\A k \in Key : \A c \in Cmd :
          store[k].owner = c /\ store'[k].owner # c
              => \/ pc[c] = "release" /\ pc'[c] = "done"
                 \/ store[k].left = 1 /\ store'[k] = Absent]_vars

(* A command that has returned leaves no key behind to block the others,   *)
(* unless Redis rejected its SET or its release, or its SET was sent twice *)
(* (the second turned down by the key of the first).                       *)
(* (L37-41: the finally block)                                             *)
NoOrphanLock ==
    \A c \in Cmd :
        pc[c] = "done" /\ (\E k \in Key : store[k].owner = c)
            => mishap[c] # {}

(* Conflict is reported only after the whole time to acquire has passed    *)
(* and the key was seen in the hands of another command, or in its own     *)
(* hands when its SET had been sent twice.  (L50-59, L31-34)               *)
ConflictOnlyAfterContention ==
    \A c \in Cmd :
        reply[c] = "conflict" /\ AcquireTimeout > 0
            => /\ deadline[c] = 0
               /\ refusedBy[c] # NoCmd
               /\ refusedBy[c] = c => "resend" \in mishap[c]

(* A command that waits for a lock is answered: it enters, gives up or     *)
(* rejects, even if the owner died with the key, and its next() and its    *)
(* release come to their end.  (Commands are executed once, so that all of *)
(* them come to rest.)                                                     *)
EveryCommandSettles == <>[](\A c \in Cmd : pc[c] \in {"idle", "done", "crashed"})
=============================================================================
