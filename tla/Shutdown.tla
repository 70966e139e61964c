------------------------------ MODULE Shutdown ------------------------------
(***************************************************************************)
(* GracefulShutdownService.onModuleDestroy against the units of work that  *)
(* are under way: it drains, closes the database, quits Redis, and the     *)
(* process ends.  NestJS calls it on SIGTERM (enableShutdownHooks) and     *)
(* closes the HTTP server only afterwards: commands keep arriving.         *)
(*                                                                         *)
(* drainWork is a hook.  The base class resolves it at once; a service may *)
(* override it to wait for commands, never settle, or reject.  What        *)
(* DataSource.destroy does to the pool and to its sessions is external.    *)
(***************************************************************************)
EXTENDS UnitOfWork

CONSTANTS
    Drained,        \* the commands that drainWork waits for, {} in the base
    ShutdownFaults  \* what may fail in onModuleDestroy

AllShutdownFaults == {"drain", "destroy"}

ASSUME ShutdownAssumption ==
    /\ Drained \subseteq Cmd
    /\ ShutdownFaults \subseteq AllShutdownFaults

VARIABLES
    phase,      \* where onModuleDestroy stands
    closed,     \* the pool has been destroyed
    drainEnd,   \* how withTimeout settled
    atSignal,   \* history: the commands under way when the signal came
    cut         \* history: commands the shutdown took the connection from

shutdown == <<phase, closed, drainEnd, atSignal, cut>>

(* On a destroyed pool every call of a QueryRunner is rejected.            *)
OnClosedPool == INSTANCE UnitOfWork WITH Faults <- AllFaults \ {"statement", "commitReply"}

ShutdownTypeOK ==
    /\ phase \in {"up", "drain", "database", "redis", "complete", "exited"}
    /\ closed \in BOOLEAN
    /\ drainEnd \in {"none", "drained", "failed", "timeout"}
    /\ atSignal \subseteq Cmd
    /\ cut \subseteq Cmd

ShutdownInit ==
    /\ Init
    /\ phase = "up"
    /\ closed = FALSE
    /\ drainEnd = "none"
    /\ atSignal = {}
    /\ cut = {}

UnderWay == {c \in Cmd : Running(c)}

(* Those that have asked for a connection and not yet given it up.         *)
OnDatabase == {c \in Cmd : pc[c] \in {"connect", "begin"} \/ tx[c] \in {"active", "aborted"}}

-----------------------------------------------------------------------------
(* A command takes a step of its own while there is a database, ...        *)
CommandStep(c) ==
    /\ ~closed /\ phase # "exited"
    /\ Proceed(c) \/ Fail(c)
    /\ UNCHANGED shutdown

(* ... and afterwards one that needs none, or that fails for want of it.   *)
CommandStepClosed(c) ==
    /\ closed /\ phase # "exited"
    /\ \/ Join(c) \/ Create(c) \/ Release(c)
       \/ \E outcome \in {"success", "failure", "throw"} : HandlerReturns(c, outcome)
       \/ OnClosedPool!Fail(c)
    /\ UNCHANGED shutdown

DispatchStep(c, p) ==
    /\ phase # "exited"
    /\ Dispatch(c, p)
    /\ UNCHANGED shutdown

-----------------------------------------------------------------------------
(* Faulty variant: the drain is started and not awaited.                   *)
SignalWithoutAwait ==
    /\ phase = "up"
    /\ phase' = "database"
    /\ drainEnd' = "drained"
    /\ atSignal' = UnderWay
    /\ UNCHANGED <<vars, closed, cut>>

(* SIGTERM: onModuleDestroy calls drainWork and sets the timer.            *)
Signal ==
    /\ phase = "up"
    /\ phase' = "drain"
    /\ atSignal' = UnderWay
    /\ UNCHANGED <<vars, closed, drainEnd, cut>>

DrainEnds(how) ==
    /\ phase = "drain"
    /\ phase' = "database"
    /\ drainEnd' = how
    /\ UNCHANGED <<vars, closed, atSignal, cut>>

Drain == Drained \cap UnderWay = {} /\ DrainEnds("drained")

DrainFails == "drain" \in ShutdownFaults /\ DrainEnds("failed")

(* Faulty variant: there is no timer.                                      *)
DrainNeverTimesOut == FALSE /\ DrainEnds("timeout")

(* The timer of withTimeout fires first, which it may at any moment.       *)
DrainTimeout == DrainEnds("timeout")

(* Every session ends; PostgreSQL rolls back what was open in it.          *)
EndSessions ==
    /\ cut' = cut \cup OnDatabase
    /\ tx' = [c \in Cmd |-> IF tx[c] \in {"active", "aborted"} THEN "ended" ELSE tx[c]]
    /\ pending' = [c \in Cmd |-> {}]
    /\ held' = {}
    /\ UNCHANGED <<pc, tree, ambient, durable, reply, wrote, mishap>>

CloseDatabase ==
    /\ phase = "database"
    /\ phase' = "redis"
    /\ \/ /\ HasDataSource
          /\ EndSessions
          /\ closed' = TRUE
       \/ ~HasDataSource /\ UNCHANGED <<vars, closed, cut>>
    /\ UNCHANGED <<drainEnd, atSignal>>

(* destroy() rejects before it has closed anything; the error is logged.   *)
CloseDatabaseFails ==
    /\ "destroy" \in ShutdownFaults
    /\ HasDataSource
    /\ phase = "database"
    /\ phase' = "redis"
    /\ UNCHANGED <<vars, closed, drainEnd, atSignal, cut>>

(* quit() resolves or rejects, or there is no client.                      *)
QuitRedis ==
    /\ phase = "redis"
    /\ phase' = "complete"
    /\ UNCHANGED <<vars, closed, drainEnd, atSignal, cut>>

(* The hooks are done: NestJS closes the server and ends the process.      *)
Exit ==
    /\ phase = "complete"
    /\ phase' = "exited"
    /\ EndSessions
    /\ UNCHANGED <<closed, drainEnd, atSignal>>

OnModuleDestroy == Drain \/ DrainTimeout \/ CloseDatabase \/ QuitRedis \/ Exit

(* The process is gone.                                                    *)
Rest ==
    /\ phase = "exited"
    /\ UNCHANGED <<vars, shutdown>>

ShutdownNext ==
    \/ \E c \in Cmd, p \in Cmd \cup {NoCmd} : DispatchStep(c, p)
    \/ \E c \in Cmd : CommandStep(c) \/ CommandStepClosed(c)
    \/ Signal \/ DrainFails \/ CloseDatabaseFails \/ OnModuleDestroy
    \/ Rest

(* The timer fires, destroy() and quit() settle, and the process ends.     *)
(* Nothing is assumed of the commands, which may hang for ever.            *)
ShutdownSpec ==
    /\ ShutdownInit
    /\ [][ShutdownNext]_<<vars, shutdown>>
    /\ WF_<<vars, shutdown>>(OnModuleDestroy)

-----------------------------------------------------------------------------
(* A command that was under way when the signal came and that drainWork    *)
(* waits for keeps its connection to its end, unless the drain timed out   *)
(* or failed.  (GracefulShutdownService L28-38)                            *)
DrainedAreSpared == drainEnd = "drained" => cut \cap Drained \cap atSignal = {}

(* A command that the shutdown cut off from the database never reports     *)
(* success, and nothing of its unit of work is stored: neither of the two  *)
(* catch paths it takes on a closed pool makes more of it.                 *)
(* (GracefulShutdownService L36-43, TransactionalBehavior L44-63)          *)
CutLeavesNothing ==
    \A c \in cut : reply[c] # "success" /\ (Supervised(c) => RowsOf(c) \cap durable = {})

(* A shutdown that has begun comes to its end, whatever drainWork, the     *)
(* commands, destroy() and quit() do.  (withTimeout, L66-75)               *)
ShutdownCompletes == phase = "drain" ~> phase = "exited"
=============================================================================
