------------------------------ MODULE Pipeline ------------------------------
(***************************************************************************)
(* PipelineExecutor and the behaviors around a handler.  A run is one pass *)
(* of a command or query through its chain: down to the handler, or to the *)
(* behavior that answers in its place, and up again with the reply.  A     *)
(* behavior that has no metadata for the command calls next() at once and  *)
(* takes no step here.                                                     *)
(*                                                                         *)
(* A workflow engine that was handed a command calls back to have it       *)
(* executed, with 'workflow-phase' set to 'execute': again if it retries,  *)
(* and for every service task of the process, so a command may have        *)
(* several such runs, at the same time as well.                            *)
(*                                                                         *)
(* The transaction and the lock are those of UnitOfWork and of             *)
(* DistributedLock, each as one step; the database is a version number     *)
(* that every committed command increments, and handlers return it.  What  *)
(* LogBehavior logs of a command is in LogMasking.                         *)
(***************************************************************************)
EXTENDS Naturals, FiniteSets, Sequences, LogMasking

CONSTANTS
    Call,       \* commands and queries
    Query,      \* the queries
    Flagged,    \* those with @FeatureFlag,
    Validated,  \* @Validate,
    Workflow,   \* @Workflow,
    Cached,     \* @Cache (all with the same key),
    Locked,     \* @DistributedLock
    Skips,      \* those with @Workflow(..., { fallback: 'skip' })
    Dispatch,   \* the engine's callbacks for a command
    Ttl,        \* ttlSeconds
    MaxRuns,    \* bound: the runs of a behavior of this specification
    Faults      \* what may fail

AllFaults == {"validator", "engine", "redis", "handler", "statement", "database"}

ASSUME PipelineAssumption ==
    /\ IsFiniteSet(Call)
    /\ Query \subseteq Call
    /\ Flagged \subseteq Call /\ Validated \subseteq Call /\ Cached \subseteq Call
    /\ Workflow \subseteq Call \ Query /\ Locked \subseteq Call \ Query
    /\ Skips \subseteq Workflow
    /\ "client" \notin Dispatch
    /\ Ttl \in Nat \ {0}
    /\ MaxRuns \in Nat
    /\ Faults \subseteq AllFaults

VARIABLES
    invalid,    \* those the validator refuses: how their fields are filled
    passed,     \* history: the checks a run has passed
    at,         \* the position of a run in its chain, 0 outside of it
    reply,      \* what is on its way up
    version,    \* the committed state of the database
    cache,      \* the cached value, its remaining lifetime
    behind,     \* history: for how long it has been there out of date
    processes,  \* commands the workflow engine has accepted
    metric,     \* the label a run was observed with
    committed,  \* history: runs whose transaction committed
    mishap,     \* history: what befell the COMMIT of a run
    lost        \* history: accepted commands whose acceptance was not heard of

checks == <<invalid, passed>>
entry == <<cache, behind>>
engine == <<processes, lost>>
database == <<version, committed, mishap>>
rest == <<entry, engine, database, metric>>
vars == <<checks, at, reply, rest>>

Run == (Call \X {"client"}) \cup (Workflow \X Dispatch)

(* From the handler, with a value and without; from the cache, from a flag *)
(* that is off, and from the engine.                                       *)
Successes == {"success", "undefined", "cached", "default", "started"}

NoReply == [is |-> "none", value |-> 0]
Reply(status) == [is |-> status, value |-> 0]
Success(v) == [is |-> "success", value |-> v]

Absent == [value |-> 0, ttl |-> 0]

TypeOK ==
    /\ invalid \subseteq Validated
    /\ passed \in [Run -> SUBSET {"flag", "validate"}]
    /\ at \in [Run -> 0 .. 9]
    /\ reply \in [Run -> [is : Successes \cup {"none", "failure", "throw"},
                          value : 0 .. version]]
    /\ version = Cardinality(committed)
    /\ cache \in [value : 0 .. version, ttl : 0 .. Ttl]
    /\ behind \in 0 .. Ttl + 1
    /\ processes \subseteq Workflow
    /\ metric \in [Run -> {"none", "success", "failure"}]
    /\ committed \subseteq {r \in Run : r[1] \notin Query}
    /\ mishap \in [Run -> {"none", "inDoubt", "spoiled"}]
    /\ lost \subseteq processes

Init ==
    /\ invalid \in SUBSET Validated
    /\ passed = [r \in Run |-> {}]
    /\ at = [r \in Run |-> 0]
    /\ reply = [r \in Run |-> NoReply]
    /\ version = 0
    /\ cache = Absent
    /\ behind = 0
    /\ processes = {}
    /\ metric = [r \in Run |-> "none"]
    /\ committed = {}
    /\ mishap = [r \in Run |-> "none"]
    /\ lost = {}

-----------------------------------------------------------------------------
(* Faulty variant: the workflow is started, and a cached reply is found,   *)
(* before the command is validated.                                        *)
ChainUnvalidated(r) ==
    IF r[1] \in Query
    THEN <<"log", "perf", "flag", "cache", "validate">>
    ELSE <<"log", "perf", "flag", "workflow", "validate", "cache", "lock", "tx">>

(* onModuleInit.                                                           *)
Chain(r) ==
    IF r[1] \in Query
    THEN <<"log", "perf", "flag", "validate", "cache">>
    ELSE <<"log", "perf", "flag", "validate", "workflow", "cache", "lock", "tx">>

Handler(r) == Len(Chain(r)) + 1

IsAt(r, behavior) == at[r] \in 1 .. Len(Chain(r)) /\ Chain(r)[at[r]] = behavior

(* Faulty variant: the engine's run is handed to the engine again.         *)
DecidesAnyPhase(r) ==
    {b \in {"flag", "validate", "workflow", "cache", "lock"} :
        \/ b = "flag" /\ r[1] \in Flagged
        \/ b = "validate" /\ r[1] \in Validated
        \/ b = "workflow" /\ r[1] \in Workflow
        \/ b = "cache" /\ r[1] \in Cached
        \/ b = "lock" /\ r[1] \in Locked}

(* The behaviors that have something to decide before they call next().    *)
Decides(r) ==
    {b \in {"flag", "validate", "workflow", "cache", "lock"} :
        \/ b = "flag" /\ r[1] \in Flagged
        \/ b = "validate" /\ r[1] \in Validated
        \/ b = "workflow" /\ r[1] \in Workflow /\ r[2] = "client"
        \/ b = "cache" /\ r[1] \in Cached
        \/ b = "lock" /\ r[1] \in Locked}

(* Those that look at what next() returned; LogBehavior goes on at once    *)
(* when PerformanceBehavior returns.                                       *)
Receives(r) == {"perf", "tx"} \cup (IF r[1] \in Cached THEN {"cache"} ELSE {})

(* next(): on to the following behavior that decides, or to the handler.   *)
Descend(r) ==
    LET stops == {j \in 1 .. Len(Chain(r)) : Chain(r)[j] \in Decides(r)}
                     \cup {Handler(r)}
    IN  at' = [at EXCEPT ![r] =
                  CHOOSE j \in stops : j > @ /\ \A k \in stops : k > @ => j <= k]

(* A reply goes up to the following behavior that receives it, or out.     *)
Ascend(r) ==
    LET stops == {j \in 1 .. Len(Chain(r)) : Chain(r)[j] \in Receives(r)} \cup {0}
    IN  at' = [at EXCEPT ![r] =
                  CHOOSE j \in stops : j < @ /\ \A k \in stops : k < @ => k <= j]

Answer(r, what) ==
    /\ reply' = [reply EXCEPT ![r] = what]
    /\ Ascend(r)

Deciding(r, behavior) == IsAt(r, behavior) /\ reply[r] = NoReply
Receiving(r, behavior) == IsAt(r, behavior) /\ reply[r] # NoReply

Answered(r) == at[r] = 0 /\ reply[r] # NoReply

-----------------------------------------------------------------------------
(* executeCommand or executeQuery, by a client or by the engine.           *)
Execute(r) ==
    /\ at[r] = 0
    /\ reply[r] = NoReply
    /\ r[2] \in Dispatch => r[1] \in processes
    /\ Cardinality({s \in Run : at[s] # 0 \/ reply[s] # NoReply}) < MaxRuns
    /\ Descend(r)
    /\ UNCHANGED <<checks, reply, rest>>

(* FeatureFlagBehavior; the flag may change at any time.                   *)
FlagOn(r) ==
    /\ Deciding(r, "flag")
    /\ passed' = [passed EXCEPT ![r] = @ \cup {"flag"}]
    /\ Descend(r)
    /\ UNCHANGED <<invalid, reply, rest>>

(* fallback 'skip' or 'default', or 'throw'.                               *)
FlagOff(r) ==
    /\ Deciding(r, "flag")
    /\ \E what \in {"default", "failure"} : Answer(r, Reply(what))
    /\ UNCHANGED <<checks, rest>>

(* ValidationBehavior.                                                     *)
Validate(r) ==
    /\ Deciding(r, "validate")
    /\ IF r[1] \in invalid
       THEN Answer(r, Reply("failure")) /\ UNCHANGED passed
       ELSE /\ passed' = [passed EXCEPT ![r] = @ \cup {"validate"}]
            /\ Descend(r)
            /\ UNCHANGED reply
    /\ UNCHANGED <<invalid, rest>>

ValidatorThrows(r) ==
    /\ "validator" \in Faults
    /\ Deciding(r, "validate")
    /\ Answer(r, Reply("throw"))
    /\ UNCHANGED <<checks, rest>>

(* Faulty variant: the handler runs although the process was started.      *)
StartProcessAndGoOn(r) ==
    /\ Deciding(r, "workflow")
    /\ processes' = processes \cup {r[1]}
    /\ Descend(r)
    /\ UNCHANGED <<checks, reply, lost, entry, database, metric>>

(* WorkflowBehavior: startProcess.                                         *)
StartProcess(r) ==
    /\ Deciding(r, "workflow")
    /\ processes' = processes \cup {r[1]}
    /\ Answer(r, Reply("started"))
    /\ UNCHANGED <<checks, lost, entry, database, metric>>

(* startProcess rejects, before or after the engine accepted the command;  *)
(* fallback 'skip' runs it here, the others fail.                          *)
StartFails(r) ==
    /\ "engine" \in Faults
    /\ Deciding(r, "workflow")
    /\ \/ UNCHANGED engine
       \/ /\ processes' = processes \cup {r[1]}
          /\ lost' = lost \cup {r[1]}
    /\ IF r[1] \in Skips
       THEN Descend(r) /\ UNCHANGED reply
       ELSE Answer(r, Reply("failure"))
    /\ UNCHANGED <<checks, entry, database, metric>>

-----------------------------------------------------------------------------
(* Faulty variant: a hit renews the lifetime of the entry.                 *)
CacheHitRenews(r) ==
    /\ Deciding(r, "cache")
    /\ cache # Absent
    /\ cache' = [cache EXCEPT !.ttl = Ttl]
    /\ Answer(r, Reply("cached"))
    /\ UNCHANGED <<checks, behind, engine, database, metric>>

(* CacheBehavior: GET finds the key.                                       *)
CacheHit(r) ==
    /\ Deciding(r, "cache")
    /\ cache # Absent
    /\ Answer(r, Reply("cached"))
    /\ UNCHANGED <<checks, rest>>

(* It does not, or it fails.                                               *)
CacheMiss(r) ==
    /\ Deciding(r, "cache")
    /\ cache = Absent \/ "redis" \in Faults
    /\ Descend(r)
    /\ UNCHANGED <<checks, reply, rest>>

(* SET with EX, for a success that has a value, be it still current or not.*)
CacheSet(r) ==
    /\ Receiving(r, "cache")
    /\ IF reply[r].is = "success"
       THEN /\ cache' = [value |-> reply[r].value, ttl |-> Ttl]
            /\ behind' = 0
       ELSE UNCHANGED entry
    /\ Ascend(r)
    /\ UNCHANGED <<checks, reply, engine, database, metric>>

(* Faulty variant: its error is thrown ...                                 *)
CacheSetFailsThrows(r) ==
    /\ "redis" \in Faults
    /\ Receiving(r, "cache")
    /\ reply[r].is = "success"
    /\ Answer(r, Reply("throw"))
    /\ UNCHANGED <<checks, rest>>

(* ... which is swallowed.                                                 *)
CacheSetFails(r) ==
    /\ "redis" \in Faults
    /\ Receiving(r, "cache")
    /\ reply[r].is = "success"
    /\ Ascend(r)
    /\ UNCHANGED <<checks, reply, rest>>

(* DistributedLockBehavior: next() under the lock, ...                     *)
LockGranted(r) ==
    /\ Deciding(r, "lock")
    /\ Descend(r)
    /\ UNCHANGED <<checks, reply, rest>>

(* ... a Conflict, or the error of a SET.                                  *)
LockRefused(r) ==
    /\ Deciding(r, "lock")
    /\ \/ Answer(r, Reply("failure"))
       \/ "redis" \in Faults /\ Answer(r, Reply("throw"))
    /\ UNCHANGED <<checks, rest>>

(* commandBus.execute or queryBus.execute.                                 *)
Handle(r) ==
    /\ at[r] = Handler(r)
    /\ \/ Answer(r, Success(version))
       \/ \E what \in {"undefined", "failure"} : Answer(r, Reply(what))
       \/ "handler" \in Faults /\ Answer(r, Reply("throw"))
    /\ UNCHANGED <<checks, rest>>

(* TransactionalBehavior: COMMIT of a success.                             *)
Commit(r) ==
    /\ Receiving(r, "tx")
    /\ reply[r].is \in Successes
    /\ version' = version + 1
    /\ committed' = committed \cup {r}
    /\ Ascend(r)
    /\ UNCHANGED <<checks, reply, mishap, entry, engine, metric>>

(* Of a transaction that a statement spoiled whose error the handler       *)
(* caught, the COMMIT resolves and stores nothing.                         *)
CommitSpoiled(r) ==
    /\ "statement" \in Faults
    /\ Receiving(r, "tx")
    /\ reply[r].is \in Successes
    /\ mishap' = [mishap EXCEPT ![r] = "spoiled"]
    /\ Ascend(r)
    /\ UNCHANGED <<checks, reply, version, committed, entry, engine, metric>>

(* Its answer is lost: the catch block sends a ROLLBACK, which comes too   *)
(* late or, on the broken connection, rejects in its turn.                 *)
CommitReplyLost(r) ==
    /\ "database" \in Faults
    /\ Receiving(r, "tx")
    /\ reply[r].is \in Successes
    /\ version' = version + 1
    /\ committed' = committed \cup {r}
    /\ mishap' = [mishap EXCEPT ![r] = "inDoubt"]
    /\ \E what \in {"failure", "throw"} : Answer(r, Reply(what))
    /\ UNCHANGED <<checks, entry, engine, metric>>

(* ROLLBACK of a failure, of an error and of a COMMIT that fails; it may   *)
(* reject.  A connect() or startTransaction() that rejects looks from      *)
(* above like a handler that throws and a ROLLBACK that rejects.           *)
Rollback(r) ==
    /\ Receiving(r, "tx")
    /\ reply[r].is \in Successes => "database" \in Faults
    /\ \/ Answer(r, Reply("failure"))
       \/ "database" \in Faults /\ Answer(r, Reply("throw"))
    /\ UNCHANGED <<checks, rest>>

(* Faulty variant: an exception is observed as a success.                  *)
LabelFinally(r) == IF reply[r].is = "failure" THEN "failure" ELSE "success"

(* The label of an observation; none where next() throws.                  *)
Label(r) ==
    CASE reply[r].is = "throw" -> "none"
      [] reply[r].is = "failure" -> "failure"
      [] OTHER -> "success"

(* LogBehavior, the outermost: an error becomes an InternalError.  What a  *)
(* caller does with the value is its own affair.                           *)
Logged(what) == Reply(IF what.is = "throw" THEN "failure" ELSE what.is)

(* PerformanceBehavior observes, and LogBehavior returns at once.          *)
Return(r) ==
    /\ Receiving(r, "perf")
    /\ metric' = [metric EXCEPT ![r] = Label(r)]
    /\ reply' = [reply EXCEPT ![r] = Logged(@)]
    /\ at' = [at EXCEPT ![r] = 0]
    /\ UNCHANGED <<checks, entry, engine, database>>

-----------------------------------------------------------------------------
(* A second passes for the entry.                                          *)
Tick ==
    /\ cache # Absent
    /\ IF cache.ttl = 1
       THEN cache' = Absent /\ behind' = 0
       ELSE /\ cache' = [cache EXCEPT !.ttl = @ - 1]
            /\ behind' = IF cache.value = version \/ behind > Ttl
                         THEN behind ELSE behind + 1
    /\ UNCHANGED <<checks, at, reply, engine, database, metric>>

(* Of a run on its way down, ...                                           *)
Decide(r) ==
    \/ FlagOn(r) \/ FlagOff(r) \/ Validate(r) \/ ValidatorThrows(r)
    \/ StartProcess(r) \/ StartFails(r)
    \/ CacheHit(r) \/ CacheMiss(r) \/ LockGranted(r) \/ LockRefused(r)
    \/ Handle(r)

(* ... and of one on its way up.                                           *)
Receive(r) ==
    \/ Commit(r) \/ CommitSpoiled(r) \/ CommitReplyLost(r) \/ Rollback(r)
    \/ CacheSet(r) \/ CacheSetFails(r) \/ Return(r)

Proceed(r) ==
    /\ at[r] # 0
    /\ \/ reply[r] = NoReply /\ Decide(r)
       \/ reply[r] # NoReply /\ Receive(r)

Next == Tick \/ \E r \in Run : Execute(r) \/ Proceed(r)

Spec == Init /\ [][Next]_vars

(* Every call a behavior makes is answered or fails.                       *)
FairSpec ==
    /\ Spec
    /\ WF_vars(\E r \in Run : Proceed(r))

-----------------------------------------------------------------------------
(* The caller of a command learns from the reply whether it took effect,   *)
(* whatever fails on the way up: a success of the handler that reaches it  *)
(* was committed, and what was committed reaches it as such a success.     *)
(* The two cases in which the reply is wrong are those the database leaves *)
(* undecided: a COMMIT whose answer is lost, and one of a transaction that *)
(* an error the handler caught had spoiled.  (TransactionalBehavior        *)
(* L41-59, CacheBehavior L36-45, PerformanceBehavior L21-41, LogBehavior   *)
(* L28-63)                                                                 *)
ReplyTellsEffect ==
    \A r \in Run : Answered(r) /\ r[1] \notin Query =>
        /\ reply[r].is \in {"success", "undefined"}
              => r \in committed \/ mishap[r] = "spoiled"
        /\ r \in committed
              => reply[r].is \in {"success", "undefined"} \/ mishap[r] = "inDoubt"

(* The checks that stand between a run and its handler.                    *)
Required(r) == Decides(r) \cap {"flag", "validate"}

(* A command or query whose flag is off, which the validator refuses or    *)
(* for which it throws reaches neither the engine nor the database, and    *)
(* gets no value from the handler or the cache: whatever the command's     *)
(* other decorators are, no behavior that acts or answers stands before    *)
(* its checks, in neither chain, and a callback of the engine is checked   *)
(* like a call.  (PipelineExecutor L48-77, FeatureFlagBehavior L24-45,     *)
(* ValidationBehavior L17-27)                                              *)
RefusedGetsNothing ==
    \A r \in Run : r[1] \in invalid \/ ~(Required(r) \subseteq passed[r]) =>
        /\ r \notin committed
        /\ r[2] = "client" => r[1] \notin processes
        /\ reply[r].is \notin {"success", "undefined", "cached", "started"}

(* A workflow command is handed over or executed by the call itself, not   *)
(* both: whom the engine has accepted a command from has been told so, and *)
(* a call that was told so has stored nothing.  Only if the acceptance was *)
(* lost may the caller hear of a failure instead, and only with fallback   *)
(* 'skip' may the command be executed by the call as well.                 *)
(* (WorkflowBehavior L31-65)                                               *)
RunHereOrHandedOver ==
    \A x \in Workflow : LET r == <<x, "client">> IN
        /\ x \in processes => reply[r].is = "started" \/ x \in lost
        /\ reply[r].is = "started" => x \in processes /\ r \notin committed
        /\ r \in committed /\ x \in processes => x \in lost \cap Skips

(* The cache serves a value that a commit has overtaken for less than its  *)
(* ttlSeconds: the value was overtaken before it was stored or after, and  *)
(* hits do not keep it alive.  (CacheBehavior L24-43)                      *)
StaleWithinTtl == behind < Ttl

(* The histogram tells the outcome the caller got; where it has no         *)
(* observation, the caller got the InternalError of an exception.          *)
(* (PerformanceBehavior L21-30, LogBehavior L62)                           *)
MetricsTellReply ==
    \A r \in Run : Answered(r) =>
        /\ reply[r].is \in Successes <=> metric[r] = "success"
        /\ metric[r] = "failure" => reply[r].is = "failure"

(* The entry that LogBehavior writes of a run shows no secret of whatever  *)
(* command it was, at whatever depth and of whatever type, and nothing     *)
(* longer, deeper or wider than the limits; an excluded field shows        *)
(* nothing, and a name within the limits is legible.  (LogBehavior L66-115)*)
PayloadIsMasked == \A r \in Run : Answered(r) => EveryPayloadIsMasked

(* Whatever fails, in the end nobody waits: every call and every callback  *)
(* is answered with a Result, and no callback hands the command to the     *)
(* engine once more, which would never have it executed.  (LogBehavior     *)
(* L51-62, WorkflowBehavior L31-33)                                        *)
Settled(r) ==
    /\ at[r] = 0
    /\ reply[r].is # "throw"
    /\ r[2] \in Dispatch => reply[r].is # "started"

EveryCallIsAnswered == <>[](\A r \in Run : Settled(r))
=============================================================================
