----------------------------- MODULE UnitOfWork -----------------------------
(***************************************************************************)
(* The unit of work of the command pipeline: TransactionalBehavior, the    *)
(* ambient QueryRunner of TransactionContext (an AsyncLocalStorage) and    *)
(* the repository a handler obtains with getTransactionalRepo.             *)
(*                                                                         *)
(* A QueryRunner is named by the command that created it.  A command       *)
(* writes one row, named after the command.  The connection pool and the   *)
(* Postgres session behind a QueryRunner are external: a failed statement  *)
(* aborts the transaction, and a COMMIT of an aborted transaction rolls    *)
(* back without an error.                                                  *)
(***************************************************************************)
EXTENDS Naturals, FiniteSets

CONSTANTS
    Cmd,            \* the commands that may be executed, each at most once
    NoCmd,          \* no command: the dispatcher of a root, the empty store
    Isolated,       \* commands whose class is @IsolatedTransaction()
    Detached,       \* commands whose dispatcher does not await the promise
    PoolSize,       \* connections of the DataSource's pool
    HasDataSource,  \* the @Optional() DataSource is injected
    Faults          \* the calls to the database that may fail

AllFaults == {"connect", "begin", "statement", "commit", "commitReply", "rollback"}

ASSUME CmdAssumption ==
    /\ NoCmd \notin Cmd
    /\ Isolated \subseteq Cmd
    /\ Detached \subseteq Cmd
    /\ PoolSize \in Nat \ {0}
    /\ HasDataSource \in BOOLEAN
    /\ Faults \subseteq AllFaults

VARIABLES
    pc,         \* where execute(c) stands
    parent,     \* the command whose handler dispatched c
    ambient,    \* the QueryRunner TransactionContext.get() returns to c
    tx,         \* the transaction of the QueryRunner c created
    held,       \* commands whose QueryRunner holds a pooled connection
    pending,    \* rows written in the open transaction of a QueryRunner
    durable,    \* rows the database has committed
    reply,      \* what the promise of execute(c) settles to
    wrote,      \* history: the rows some handler saw written
    unit,       \* history: the command that opens c's unit of work
    depth,      \* history: how deep c is nested
    mishap      \* history: what befell the transaction c created

(* Who called whom.                                                       *)
tree == <<parent, unit, depth>>

vars == <<pc, parent, ambient, tx, held, pending, durable, reply, wrote, unit, depth, mishap>>

PCs == {"idle", "called", "connect", "begin", "handler",
        "commit", "rollback", "catch", "release", "done"}

TypeOK ==
    /\ pc \in [Cmd -> PCs]
    /\ parent \in [Cmd -> Cmd \cup {NoCmd}]
    /\ ambient \in [Cmd -> Cmd \cup {NoCmd}]
    /\ tx \in [Cmd -> {"none", "active", "aborted", "ended"}]
    /\ held \subseteq Cmd
    /\ pending \in [Cmd -> SUBSET Cmd]
    /\ durable \subseteq Cmd
    /\ reply \in [Cmd -> {"none", "success", "failure", "throw"}]
    /\ wrote \subseteq Cmd
    /\ unit \in [Cmd -> Cmd]
    /\ depth \in [Cmd -> Nat]
    /\ mishap \in [Cmd -> SUBSET {"spoiled", "inDoubt"}]

Init ==
    /\ pc = [c \in Cmd |-> "idle"]
    /\ parent = [c \in Cmd |-> NoCmd]
    /\ ambient = [c \in Cmd |-> NoCmd]
    /\ tx = [c \in Cmd |-> "none"]
    /\ held = {}
    /\ pending = [c \in Cmd |-> {}]
    /\ durable = {}
    /\ reply = [c \in Cmd |-> "none"]
    /\ wrote = {}
    /\ unit = [c \in Cmd |-> c]
    /\ depth = [c \in Cmd |-> 0]
    /\ mishap = [c \in Cmd |-> {}]

Running(c) == pc[c] \notin {"idle", "done"}

Awaited(p) == {c \in Cmd \ Detached : parent[c] = p /\ Running(c)}

Goto(c, label) == pc' = [pc EXCEPT ![c] = label]

Settle(c, outcome) == reply' = [reply EXCEPT ![c] = outcome]

-----------------------------------------------------------------------------
(* execute(c) starts in the async scope of p's handler, or in none: what   *)
(* the AsyncLocalStorage holds there is what c sees.                       *)
Inherit(c, p) ==
    /\ pc[c] = "idle"
    /\ Goto(c, "called")
    /\ parent' = [parent EXCEPT ![c] = p]
    /\ ambient' = [ambient EXCEPT ![c] = IF p = NoCmd THEN NoCmd ELSE ambient[p]]
    /\ unit' = [unit EXCEPT ![c] = IF p = NoCmd \/ c \in Isolated THEN c ELSE unit[p]]
    /\ depth' = [depth EXCEPT ![c] = IF p = NoCmd THEN 0 ELSE depth[p] + 1]
    /\ UNCHANGED <<tx, held, pending, durable, reply, wrote, mishap>>

(* A controller (p = NoCmd) or the handler of p executes command c.        *)
Dispatch(c, p) ==
    /\ p # NoCmd => p # c /\ pc[p] = "handler"
    /\ Inherit(c, p)

(* Faulty variants, which the properties tell from the code: the store is  *)
(* not looked at, ...                                                      *)
NeverJoins(c) == ~HasDataSource

(* ... @IsolatedTransaction is not looked at.                              *)
JoinsThoughIsolated(c) == ~HasDataSource \/ ambient[c] # NoCmd

Joins(c) == ~HasDataSource \/ (ambient[c] # NoCmd /\ c \notin Isolated)

(* No DataSource, or an ambient transaction and no demand for isolation:   *)
(* the handler runs in whatever scope it was called.                       *)
Join(c) ==
    /\ pc[c] = "called"
    /\ Joins(c)
    /\ Goto(c, "handler")
    /\ UNCHANGED <<tree, ambient, tx, held, pending, durable, reply, wrote, mishap>>

Create(c) ==
    /\ pc[c] = "called"
    /\ ~Joins(c)
    /\ Goto(c, "connect")
    /\ UNCHANGED <<tree, ambient, tx, held, pending, durable, reply, wrote, mishap>>

(* queryRunner.connect() waits until the pool has a free connection.       *)
Connect(c) ==
    /\ pc[c] = "connect"
    /\ Cardinality(held) < PoolSize
    /\ held' = held \cup {c}
    /\ Goto(c, "begin")
    /\ UNCHANGED <<tree, ambient, tx, pending, durable, reply, wrote, mishap>>

ConnectFails(c) ==
    /\ pc[c] = "connect"
    /\ "connect" \in Faults
    /\ Settle(c, "throw")
    /\ Goto(c, "done")
    /\ UNCHANGED <<tree, ambient, tx, held, pending, durable, wrote, mishap>>

(* startTransaction() succeeds and TransactionContext.run calls next().    *)
Begin(c) ==
    /\ pc[c] = "begin"
    /\ tx' = [tx EXCEPT ![c] = "active"]
    /\ ambient' = [ambient EXCEPT ![c] = c]
    /\ Goto(c, "handler")
    /\ UNCHANGED <<tree, held, pending, durable, reply, wrote, mishap>>

(* startTransaction() rejects before the try block: no finally, no release.*)
BeginFails(c) ==
    /\ pc[c] = "begin"
    /\ "begin" \in Faults
    /\ Settle(c, "throw")
    /\ Goto(c, "done")
    /\ UNCHANGED <<tree, ambient, tx, held, pending, durable, wrote, mishap>>

-----------------------------------------------------------------------------
(* Faulty variant: the repository is the DataSource's, not the runner's.   *)
WriteOutside(c) ==
    /\ pc[c] = "handler"
    /\ c \notin wrote
    /\ wrote' = wrote \cup {c}
    /\ durable' = durable \cup {c}
    /\ UNCHANGED <<pc, tree, ambient, tx, held, pending, reply, mishap>>

(* The handler saves its row through getTransactionalRepo.  Without an     *)
(* ambient QueryRunner, or on one whose transaction is over and which is   *)
(* not released, the statement commits by itself; on an aborted or a       *)
(* released one it is rejected and nothing changes.                        *)
Write(c) ==
    /\ pc[c] = "handler"
    /\ c \notin wrote
    /\ wrote' = wrote \cup {c}
    /\ LET r == ambient[c]
       IN  \/ /\ r = NoCmd \/ (tx[r] = "ended" /\ r \in held)
              /\ durable' = durable \cup {c}
              /\ UNCHANGED pending
           \/ /\ r # NoCmd
              /\ tx[r] = "active"
              /\ pending' = [pending EXCEPT ![r] = @ \cup {c}]
              /\ UNCHANGED durable
    /\ UNCHANGED <<pc, tree, ambient, tx, held, reply, mishap>>

(* A statement of the handler fails (a constraint, a serialization error): *)
(* Postgres aborts the transaction.  The handler may throw or go on.       *)
StatementFails(c) ==
    /\ "statement" \in Faults
    /\ pc[c] = "handler"
    /\ ambient[c] # NoCmd
    /\ tx[ambient[c]] = "active"
    /\ tx' = [tx EXCEPT ![ambient[c]] = "aborted"]
    /\ mishap' = [mishap EXCEPT ![ambient[c]] = @ \cup {"spoiled"}]
    /\ UNCHANGED <<pc, tree, ambient, held, pending, durable, reply, wrote>>

Owns(c) == ambient[c] = c

(* The handler settles once what it awaits has.  A command that joined     *)
(* passes the outcome on; the creator decides on commit or rollback.       *)
HandlerReturns(c, outcome) ==
    /\ pc[c] = "handler"
    /\ Awaited(c) = {}
    /\ \/ /\ ~Owns(c)
          /\ Settle(c, outcome)
          /\ Goto(c, "done")
       \/ /\ Owns(c)
          /\ Goto(c, CASE outcome = "success" -> "commit"
                       [] outcome = "failure" -> "rollback"
                       [] outcome = "throw"   -> "catch")
          /\ UNCHANGED reply
    /\ UNCHANGED <<tree, ambient, tx, held, pending, durable, wrote, mishap>>

-----------------------------------------------------------------------------
(* The transaction of c is over: its rows are durable or gone.             *)
End(c, rows) ==
    /\ tx' = [tx EXCEPT ![c] = "ended"]
    /\ durable' = durable \cup rows
    /\ pending' = [pending EXCEPT ![c] = {}]

(* Faulty variant: success is returned, the COMMIT never sent.             *)
NothingCommitted(c) == {}

Committed(c) == IF tx[c] = "active" THEN pending[c] ELSE {}

Commit(c) ==
    /\ pc[c] = "commit"
    /\ End(c, Committed(c))
    /\ Settle(c, "success")
    /\ Goto(c, "release")
    /\ UNCHANGED <<tree, ambient, held, wrote, mishap>>

(* Faulty variant: an error of the COMMIT is logged and swallowed.         *)
CommitErrorSwallowed(c) ==
    /\ pc[c] = "commit"
    /\ "commit" \in Faults
    /\ End(c, {})
    /\ Settle(c, "success")
    /\ Goto(c, "release")
    /\ UNCHANGED <<tree, ambient, held, wrote, mishap>>

(* commitTransaction() rejects, the COMMIT without effect.                 *)
CommitFails(c) ==
    /\ pc[c] = "commit"
    /\ "commit" \in Faults
    /\ End(c, {})
    /\ Goto(c, "catch")
    /\ UNCHANGED <<tree, ambient, held, reply, wrote, mishap>>

(* commitTransaction() rejects, the COMMIT with effect.                    *)
CommitReplyLost(c) ==
    /\ pc[c] = "commit"
    /\ "commitReply" \in Faults
    /\ End(c, Committed(c))
    /\ mishap' = [mishap EXCEPT ![c] = @ \cup {"inDoubt"}]
    /\ Goto(c, "catch")
    /\ UNCHANGED <<tree, ambient, held, reply, wrote>>

(* Faulty variant: a failed result is committed like a successful one.     *)
RollbackKeepsRows(c) ==
    /\ pc[c] \in {"rollback", "catch"}
    /\ End(c, Committed(c))
    /\ Settle(c, "failure")
    /\ Goto(c, "release")
    /\ UNCHANGED <<tree, ambient, held, wrote, mishap>>

(* rollbackTransaction() of the try block, and that of the catch block.    *)
Rollback(c) ==
    /\ pc[c] \in {"rollback", "catch"}
    /\ End(c, {})
    /\ Settle(c, "failure")
    /\ Goto(c, "release")
    /\ UNCHANGED <<tree, ambient, held, wrote, mishap>>

(* The session is lost; the server rolls back.  In the try block the catch *)
(* block takes over, in the catch block the promise rejects.               *)
RollbackFails(c) ==
    /\ pc[c] \in {"rollback", "catch"}
    /\ "rollback" \in Faults
    /\ End(c, {})
    /\ \/ pc[c] = "rollback" /\ Goto(c, "catch") /\ UNCHANGED reply
       \/ pc[c] = "catch" /\ Goto(c, "release") /\ Settle(c, "throw")
    /\ UNCHANGED <<tree, ambient, held, wrote, mishap>>

(* Faulty variant: there is no finally block.                              *)
ReleaseForgotten(c) ==
    /\ pc[c] = "release"
    /\ Goto(c, "done")
    /\ UNCHANGED <<tree, ambient, tx, held, pending, durable, reply, wrote, mishap>>

Release(c) ==
    /\ pc[c] = "release"
    /\ held' = held \ {c}
    /\ Goto(c, "done")
    /\ UNCHANGED <<tree, ambient, tx, pending, durable, reply, wrote, mishap>>

-----------------------------------------------------------------------------
(* What execute(c) and its handler do by themselves, ...                   *)
Proceed(c) ==
    \/ Join(c) \/ Create(c) \/ Connect(c) \/ Begin(c)
    \/ Write(c)
    \/ \E outcome \in {"success", "failure", "throw"} : HandlerReturns(c, outcome)
    \/ Commit(c) \/ Rollback(c) \/ Release(c)

(* ... and what the database may do to them.                               *)
Fail(c) ==
    \/ ConnectFails(c) \/ BeginFails(c) \/ StatementFails(c)
    \/ CommitFails(c) \/ CommitReplyLost(c) \/ RollbackFails(c)

(* Every command has run, or nobody will call the rest.                    *)
Quiescent == /\ \A c \in Cmd : ~Running(c)
             /\ UNCHANGED vars

Next ==
    \/ \E c \in Cmd, p \in Cmd \cup {NoCmd} : Dispatch(c, p)
    \/ \E c \in Cmd : Proceed(c) \/ Fail(c)
    \/ Quiescent

Spec == Init /\ [][Next]_vars

(* A promise that can settle does: the event loop runs every ready         *)
(* continuation, the pool serves its waiters in order, and a handler       *)
(* returns.  No call is bound to fail.                                     *)
FairSpec == Spec /\ \A c \in Cmd : WF_vars(Proceed(c)) /\ SF_vars(Connect(c))

-----------------------------------------------------------------------------
(* The rows written in the unit of work that u opens.                      *)
RowsOf(u) == {c \in wrote : unit[c] = u}

(* Nobody joined u's unit without being awaited.                           *)
Supervised(u) == \A c \in Detached : unit[c] = u => c = u

Created(u) == Owns(u) /\ reply[u] # "none"

(* A creator that reports success has every row of its unit durable, its   *)
(* own and those of the nested commands that joined, unless a failed       *)
(* statement was swallowed and the COMMIT rolled back without an error.    *)
(* (TransactionalBehavior L42-47, JOIN L32)                                *)
SuccessIsDurable ==
    \A u \in Cmd :
        Created(u) /\ reply[u] = "success" /\ "spoiled" \notin mishap[u] /\ Supervised(u)
            => RowsOf(u) \subseteq durable

(* A creator that reports failure, or rejects, leaves no row of its unit   *)
(* in the database, whatever the nested commands were told, unless the     *)
(* COMMIT took effect and its answer was lost.  (L47, L54-59)              *)
FailureLeavesNothing ==
    \A u \in Cmd :
        Created(u) /\ reply[u] # "success" /\ "inDoubt" \notin mishap[u] /\ Supervised(u)
            => RowsOf(u) \cap durable = {}

(* At every moment, through every fault, the rows of a unit of work are in *)
(* the database all together or not at all.                                *)
AtomicUnit ==
    \A u \in Cmd :
        HasDataSource /\ Supervised(u) /\ RowsOf(u) \cap durable # {}
            => RowsOf(u) \subseteq durable

(* The unit that u opens, as UnitPromise sees it: it is over once its      *)
(* transaction is, or once its creator has failed to open one.  A command  *)
(* that joined opens none.                                                 *)
Over == {u \in Cmd : unit[u] = u /\ (tx[u] = "ended" \/ pc[u] = "done")}

Promise == INSTANCE UnitPromise WITH
    Unit <- Cmd,
    Row <- Cmd,
    bound <- {u \in Cmd : Supervised(u)},
    rows <- [u \in Cmd |-> RowsOf(u)],
    stored <- [u \in Cmd |-> RowsOf(u) \cap durable],
    over <- Over,
    told <- [u \in Cmd |-> IF unit[u] = u THEN reply[u] ELSE "none"],
    excuse <- mishap

(* Given a DataSource, and through every interleaving, nesting and fault,  *)
(* each unit whose commands are awaited keeps the promise of a unit of     *)
(* work: its rows are stored all at once or never, when it ends and not    *)
(* later, and what its creator reports then agrees with what was stored.   *)
(* (L32-63)                                                                *)
KeepsPromise == Promise!Spec

(* A handler works on the QueryRunner of the unit it was dispatched into:  *)
(* concurrent requests never share one, an isolated command never uses     *)
(* its caller's, a joined one never leaves it.  (TransactionContext L7-12) *)
RunnerOfUnit ==
    \A c \in Cmd : HasDataSource /\ pc[c] = "handler" => ambient[c] = unit[c]

(* A connection goes back to the pool only with its transaction over, and  *)
(* a command that has returned keeps none, except where startTransaction   *)
(* rejected before the try block.  (L37-41, L60-62)                        *)
ConnectionLifecycle ==
    \A c \in Cmd :
        /\ tx[c] \in {"active", "aborted"} => c \in held
        /\ c \in held /\ pc[c] = "done" => tx[c] = "none" /\ reply[c] = "throw"

(* A command that has returned holds no connection: "we own the            *)
(* lifecycle" (TransactionalBehavior L36).  The code breaks it when        *)
(* startTransaction rejects (L39, outside the try).                        *)
NoConnectionLeak == \A c \in Cmd : pc[c] = "done" => c \notin held

(* Where execute(c) can go on: everywhere but in the two waits of the      *)
(* code, for a connection of the pool and for an awaited nested command.   *)
Movable(c) ==
    \/ pc[c] \in {"called", "begin", "commit", "rollback", "catch", "release"}
    \/ pc[c] = "connect" /\ Cardinality(held) < PoolSize
    \/ pc[c] = "handler" /\ Awaited(c) = {}

(* The commands that may want a connection while their caller waits for    *)
(* them, and the connections that nobody will give back.                   *)
NestedIsolated == {c \in Isolated \ Detached : Running(c) /\ parent[c] # NoCmd}

Leaked == {c \in held : pc[c] = "done"}

(* Commands do not wait for each other and for the pool in a circle: while *)
(* the pool is larger than the number of awaited isolated commands inside  *)
(* others and of leaked connections, some running command can go on.       *)
(* (connect L38, the @IsolatedTransaction branch L32)                      *)
NeverStuck ==
    /\ \E c \in Cmd : Running(c)
    /\ Cardinality(NestedIsolated) + Cardinality(Leaked) < PoolSize
    => \E c \in Cmd : Movable(c)

(* Every command that is executed settles, whatever fails and however deep *)
(* isolated commands nest, when the pool is larger than the number of      *)
(* commands that may wait for a connection while their caller holds one    *)
(* and no connection has leaked.  (Commands are executed once, so that all *)
(* of them come to rest.)                                                  *)
EveryCommandSettles == <>[](NoConnectionLeak => \A c \in Cmd : ~Running(c))
=============================================================================
