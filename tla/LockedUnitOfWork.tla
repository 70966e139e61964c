-------------------------- MODULE LockedUnitOfWork --------------------------
(***************************************************************************)
(* The inner end of the command chain, DistributedLock -> Transactional -> *)
(* Handler, for commands that call each other: DistributedLock and         *)
(* UnitOfWork composed as runPipeline nests them (the next() of the lock   *)
(* is execute(c) of the transaction).                                      *)
(*                                                                         *)
(* Every handler reads the state its key protects, then writes a row that  *)
(* depends on what it read: a read-modify-write under the lock.            *)
(***************************************************************************)
EXTENDS UnitOfWork

CONSTANTS
    Key, Locked, Ttl, AcquireTimeout, RetryDelay,   \* see DistributedLock
    LockFaults      \* what may go wrong between a command and Redis

VARIABLES
    store, lockPc, key, deadline, wake, answer, lockReply, lease, refusedBy, lockMishap,
    caller,     \* the command whose handler executes c
    seen,       \* the rows c's handler read
    overran     \* history: commands whose lease ran out inside next()

Lock == INSTANCE DistributedLock
          WITH pc <- lockPc, reply <- lockReply, mishap <- lockMishap, Faults <- LockFaults

ASSUME LockedAssumption ==
    /\ Locked \subseteq Cmd
    /\ Ttl \in Nat \ {0}
    /\ AcquireTimeout \in Nat
    /\ RetryDelay \in Nat \ {0}
    /\ LockFaults \subseteq Lock!AllFaults

lockVars == <<store, lockPc, key, deadline, wake, answer, lockReply, lease, refusedBy, lockMishap>>
lockedVars == <<lockVars, vars, caller, seen, overran>>

LockedInit ==
    /\ Lock!Init
    /\ Init
    /\ caller = [c \in Cmd |-> NoCmd]
    /\ seen = [c \in Cmd |-> {}]
    /\ overran = {}

-----------------------------------------------------------------------------
(* A controller or the handler of p executes c: the lock comes first.      *)
Call(c, p) ==
    /\ p # NoCmd => p # c /\ pc[p] = "handler"
    /\ Lock!Call(c)
    /\ caller' = [caller EXCEPT ![c] = p]
    /\ UNCHANGED <<vars, seen, overran>>

LockStep(c) ==
    /\ Lock!SetNX(c) \/ Lock!Answer(c) \/ Lock!WakeUp(c) \/ Lock!Release(c)
       \/ Lock!Resend(c) \/ Lock!SetFails(c) \/ Lock!ReleaseFails(c)
    /\ UNCHANGED <<vars, caller, seen, overran>>

(* next() of the lock behavior is execute(c) of the transactional one, in  *)
(* the async scope of the caller, whose handler may have returned while a  *)
(* command it does not await was waiting for the lock, ...                 *)
Enter(c) ==
    /\ lockPc[c] = "next"
    /\ Inherit(c, caller[c])
    /\ UNCHANGED <<lockVars, caller, seen, overran>>

(* Faulty variant: `return next()` in the try block, without await.        *)
LeaveWithoutAwait(c) ==
    /\ pc[c] # "idle"
    /\ Lock!NextReturns(c, "success")
    /\ UNCHANGED <<vars, caller, seen, overran>>

(* ... and the lock behavior's finally block runs when that settles.       *)
Leave(c) ==
    /\ pc[c] = "done"
    /\ Lock!NextReturns(c, reply[c])
    /\ UNCHANGED <<vars, caller, seen, overran>>

(* The handler reads through its ambient QueryRunner: what is committed,   *)
(* and what its own transaction has written.  It then knows its own row,   *)
(* the one it is about to write.                                           *)
Visible(c) == durable \cup (IF ambient[c] = NoCmd THEN {} ELSE pending[ambient[c]])

Read(c) ==
    /\ pc[c] = "handler"
    /\ c \notin seen[c]
    /\ seen' = [seen EXCEPT ![c] = Visible(c) \cup {c}]
    /\ UNCHANGED <<lockVars, vars, caller, overran>>

(* A handler that awaits c does not return while c is anywhere in the      *)
(* chain, be it still at the lock.                                         *)
Busy(p) == {c \in Cmd \ Detached : caller[c] = p /\ lockPc[c] \notin {"idle", "done", "crashed"}}

TxStep(c) ==
    /\ Proceed(c) \/ Fail(c)
    /\ pc[c] = "handler" /\ pc'[c] # "handler" => Busy(c) = {}
    /\ c \in wrote' => c \in seen[c]
    /\ UNCHANGED <<lockVars, caller, seen, overran>>

(* Time passes; a lease may run out under a command.                       *)
Tick ==
    /\ Lock!Tick
    /\ overran' = overran \cup {c \in Locked : lockPc[c] \in {"answered", "next"} /\ lease[c] = 1}
    /\ UNCHANGED <<vars, caller, seen>>

LockedNext ==
    \/ \E c \in Cmd, p \in Cmd \cup {NoCmd} : Call(c, p)
    \/ \E c \in Cmd : LockStep(c) \/ Enter(c) \/ Leave(c) \/ Read(c) \/ TxStep(c)
    \/ Tick

LockedSpec == LockedInit /\ [][LockedNext]_lockedVars

-----------------------------------------------------------------------------
(* Of two locked commands on one key that both changed the database, one   *)
(* read what the other wrote: no update is computed from a stale state.    *)
SawEachOther(c, d) == c \in seen[d] \/ d \in seen[c]

Contenders == {c \in Locked \cap durable : c \notin overran}

(* The order of the chain makes it so for commands that open their own     *)
(* transaction: the lock is released after the commit, and while the lease *)
(* lasts.  (PipelineExecutor L66-67, DistributedLockBehavior L37-41)       *)
NoLostUpdate ==
    \A c, d \in Contenders :
        c # d /\ key[c] = key[d] /\ unit[c] = c /\ unit[d] = d => SawEachOther(c, d)

(* The documented order, "DistributedLock -> Transactional -> Handler"     *)
(* (PipelineExecutor L23), for every locked command.  A nested one that    *)
(* joins its caller's transaction gives its lock back before the commit.   *)
NoLostUpdateWhenNested ==
    \A c, d \in Contenders : c # d /\ key[c] = key[d] => SawEachOther(c, d)
=============================================================================
