-------------------------- MODULE OutboxPublisher --------------------------
(***************************************************************************)
(* OutboxPublisherService polls the outbox_events table and appends every  *)
(* pending event to a Redis stream through RedisStreamPublisher; an event  *)
(* that fails too often becomes Failed and is routed to a dead-letter      *)
(* stream.  Each replica of the service runs its own timer.                *)
(*                                                                         *)
(* An event is its createdAt: a smaller one was created earlier.  Events   *)
(* become visible when the transaction that inserted them commits, which   *)
(* need not be in that order.  repo.save writes every column in which the  *)
(* entity in memory differs from the row: the row becomes the entity.      *)
(***************************************************************************)
EXTENDS Naturals, FiniteSets

CONSTANTS
    Event,          \* events, ordered by createdAt
    Instance,       \* replicas of the service
    BatchSize,      \* BATCH_SIZE
    MaxAttempts,    \* MAX_PUBLISH_ATTEMPTS
    HasRedis,       \* the @Optional() Redis client is injected
    Faults          \* what may fail

AllFaults == {"xadd", "xaddReply", "save", "saveReply", "crash"}

ASSUME OutboxAssumption ==
    /\ Event \subseteq Nat
    /\ BatchSize \in Nat \ {0}
    /\ MaxAttempts \in Nat \ {0}
    /\ HasRedis \in BOOLEAN
    /\ Faults \subseteq AllFaults

VARIABLES
    row,        \* the table: status and publishAttempts of each event
    stream,     \* events found in the event stream
    again,      \* events found in the event stream more than once
    dlq,        \* events found in the dead-letter stream
    pc,         \* where pollAndPublish of an instance stands
    timer,      \* the instance's timer is set
    batch,      \* the events of the poll cycle not yet dealt with
    entity,     \* the entities of the cycle, as the instance holds them
    errors,     \* history: errors met with an event, up to MaxAttempts
    cut,        \* history: events at hand when a process ended
    known,      \* history: the rows committed when the cycle read the table
    dlqError    \* history: events whose routing to the DLQ met an error

vars == <<row, stream, again, dlq, pc, timer, batch, entity, errors, cut, known, dlqError>>

Row == [status : {"none", "Pending", "Published", "Failed"}, attempts : 0..MaxAttempts]
NoRow == [status |-> "none", attempts |-> 0]

TypeOK ==
    /\ row \in [Event -> Row]
    /\ stream \subseteq Event
    /\ again \subseteq stream
    /\ dlq \subseteq Event
    /\ pc \in [Instance -> {"idle", "publish", "save", "dlq", "saveError", "down"}]
    /\ timer \in [Instance -> BOOLEAN]
    /\ batch \in [Instance -> SUBSET Event]
    /\ entity \in [Instance -> [Event -> Row]]
    /\ errors \in [Event -> 0..MaxAttempts]
    /\ cut \subseteq Event
    /\ known \in [Instance -> SUBSET Event]
    /\ dlqError \subseteq Event

NoEntities == [e \in Event |-> NoRow]

Init ==
    /\ row = [e \in Event |-> NoRow]
    /\ stream = {}
    /\ again = {}
    /\ dlq = {}
    /\ pc = [i \in Instance |-> "idle"]
    /\ timer = [i \in Instance |-> TRUE]
    /\ batch = [i \in Instance |-> {}]
    /\ entity = [i \in Instance |-> NoEntities]
    /\ errors = [e \in Event |-> 0]
    /\ cut = {}
    /\ known = [i \in Instance |-> {}]
    /\ dlqError = {}

Committed == {e \in Event : row[e].status # "none"}
Pending == {e \in Event : row[e].status = "Pending"}

(* where status = Pending, order createdAt ASC, take BatchSize.            *)
FirstPending == {e \in Pending : Cardinality({f \in Pending : f < e}) < BatchSize}

(* Faulty variant: createdAt DESC.                                         *)
IsNewest(i, e) == e \in batch[i] /\ \A f \in batch[i] : e >= f

(* The loop goes through the batch in the order of createdAt.              *)
IsCurrent(i, e) == e \in batch[i] /\ \A f \in batch[i] : e <= f

Goto(i, label) == pc' = [pc EXCEPT ![i] = label]

(* A handler's transaction that stored e commits.                          *)
Insert(e) ==
    /\ row[e].status = "none"
    /\ row' = [row EXCEPT ![e].status = "Pending"]
    /\ UNCHANGED <<stream, again, dlq, pc, timer, batch, entity, errors, cut, known, dlqError>>

-----------------------------------------------------------------------------
(* The timer fires while no cycle runs (`processing`).                     *)
Poll(i) ==
    /\ pc[i] = "idle"
    /\ timer[i]
    /\ FirstPending # {}
    /\ batch' = [batch EXCEPT ![i] = FirstPending]
    /\ entity' = [entity EXCEPT ![i] =
                    [e \in Event |-> IF e \in FirstPending THEN row[e] ELSE NoRow]]
    /\ known' = [known EXCEPT ![i] = Committed]
    /\ Goto(i, "publish")
    /\ UNCHANGED <<row, stream, again, dlq, timer, errors, cut, dlqError>>

(* A cycle that finds nothing, or whose query fails, is over at once.      *)
PollNothing(i) ==
    /\ pc[i] = "idle"
    /\ timer[i]
    /\ UNCHANGED vars

Append(e) ==
    /\ stream' = stream \cup {e}
    /\ again' = again \cup (stream \cap {e})

(* Faulty variant: the status is not assigned.                             *)
PublishUnmarked(i, e) ==
    /\ pc[i] = "publish"
    /\ IsCurrent(i, e)
    /\ HasRedis /\ Append(e)
    /\ Goto(i, "save")
    /\ UNCHANGED <<row, dlq, timer, batch, entity, errors, cut, known, dlqError>>

(* XADD and the two assignments; without a client publishToStream returns  *)
(* null and the event counts as published.                                 *)
Publish(i, e) ==
    /\ pc[i] = "publish"
    /\ IsCurrent(i, e)
    /\ \/ HasRedis /\ Append(e)
       \/ ~HasRedis /\ UNCHANGED <<stream, again>>
    /\ entity' = [entity EXCEPT ![i][e].status = "Published"]
    /\ Goto(i, "save")
    /\ UNCHANGED <<row, dlq, timer, batch, errors, cut, known, dlqError>>

CountError(e) == errors' = [errors EXCEPT ![e] = IF @ < MaxAttempts THEN @ + 1 ELSE @]

(* Faulty variants: one attempt too few, ...                               *)
OneAttemptLess(i, e) ==
    LET n == entity[i][e].attempts + 1
    IN  /\ CountError(e)
        /\ \/ /\ n >= MaxAttempts - 1
              /\ entity' = [entity EXCEPT ![i][e] = [status |-> "Failed", attempts |-> n]]
              /\ Goto(i, "dlq")
           \/ /\ n < MaxAttempts - 1
              /\ entity' = [entity EXCEPT ![i][e].attempts = n]
              /\ Goto(i, "saveError")

(* ... and the dead-letter stream forgotten.                               *)
FailedIsDropped(i, e) ==
    LET n == entity[i][e].attempts + 1
    IN  /\ CountError(e)
        /\ entity' = [entity EXCEPT ![i][e] =
                        [status |-> IF n >= MaxAttempts THEN "Failed" ELSE @.status,
                         attempts |-> n]]
        /\ Goto(i, "saveError")

(* The catch block counts the attempt; the last one makes the event Failed *)
(* and routes it to the DLQ, even if it is in the stream by now.           *)
CatchError(i, e) ==
    LET n == entity[i][e].attempts + 1
    IN  /\ CountError(e)
        /\ \/ /\ n >= MaxAttempts
              /\ entity' = [entity EXCEPT ![i][e] = [status |-> "Failed", attempts |-> n]]
              /\ Goto(i, "dlq")
           \/ /\ n < MaxAttempts
              /\ entity' = [entity EXCEPT ![i][e].attempts = n]
              /\ Goto(i, "saveError")

(* Faulty variant: publishToStream logs the error and does not rethrow.    *)
PublishErrorSwallowed(i, e) ==
    /\ HasRedis
    /\ "xadd" \in Faults
    /\ pc[i] = "publish"
    /\ IsCurrent(i, e)
    /\ entity' = [entity EXCEPT ![i][e].status = "Published"]
    /\ Goto(i, "save")
    /\ UNCHANGED <<row, stream, again, dlq, timer, batch, errors, cut, known, dlqError>>

(* XADD rejects, without effect or with its answer lost.                   *)
PublishFails(i, e) ==
    /\ HasRedis
    /\ pc[i] = "publish"
    /\ IsCurrent(i, e)
    /\ \/ "xadd" \in Faults /\ UNCHANGED <<stream, again>>
       \/ "xaddReply" \in Faults /\ Append(e)
    /\ CatchError(i, e)
    /\ UNCHANGED <<row, dlq, timer, batch, cut, known, dlqError>>

(* e is dealt with; the loop goes on, or the cycle ends.                   *)
NextEvent(i, e) ==
    /\ batch' = [batch EXCEPT ![i] = @ \ {e}]
    /\ entity' = [entity EXCEPT ![i][e] = NoRow]
    /\ known' = [known EXCEPT ![i] = IF batch[i] = {e} THEN {} ELSE @]
    /\ Goto(i, IF batch[i] = {e} THEN "idle" ELSE "publish")

(* Faulty variant: `processing` is not reset when a cycle fails.           *)
EndCycleBusy(i, label) ==
    /\ batch' = [batch EXCEPT ![i] = {}]
    /\ entity' = [entity EXCEPT ![i] = NoEntities]
    /\ known' = [known EXCEPT ![i] = {}]
    /\ Goto(i, IF label = "idle" THEN "saveError" ELSE label)

(* The cycle is given up with the rest of its batch.                       *)
EndCycle(i, label) ==
    /\ batch' = [batch EXCEPT ![i] = {}]
    /\ entity' = [entity EXCEPT ![i] = NoEntities]
    /\ known' = [known EXCEPT ![i] = {}]
    /\ Goto(i, label)

WriteRow(i, e) == row' = [row EXCEPT ![e] = entity[i][e]]

(* repo.save of a published event.                                         *)
Save(i, e) ==
    /\ pc[i] = "save"
    /\ IsCurrent(i, e)
    /\ WriteRow(i, e)
    /\ NextEvent(i, e)
    /\ UNCHANGED <<stream, again, dlq, timer, errors, cut, dlqError>>

(* It rejects: the catch block meets an entity already marked Published.   *)
SaveFails(i, e) ==
    /\ pc[i] = "save"
    /\ IsCurrent(i, e)
    /\ \/ "save" \in Faults /\ UNCHANGED row
       \/ "saveReply" \in Faults /\ WriteRow(i, e)
    /\ CatchError(i, e)
    /\ UNCHANGED <<stream, again, dlq, timer, batch, cut, known, dlqError>>

RouteToDlq(i, e) ==
    /\ pc[i] = "dlq"
    /\ IsCurrent(i, e)
    /\ dlq' = IF HasRedis THEN dlq \cup {e} ELSE dlq
    /\ Goto(i, "saveError")
    /\ UNCHANGED <<row, stream, again, timer, batch, entity, errors, cut, known, dlqError>>

(* The error is logged and swallowed.                                      *)
RouteToDlqFails(i, e) ==
    /\ HasRedis
    /\ pc[i] = "dlq"
    /\ IsCurrent(i, e)
    /\ \/ "xadd" \in Faults /\ UNCHANGED dlq
       \/ "xaddReply" \in Faults /\ dlq' = dlq \cup {e}
    /\ dlqError' = dlqError \cup {e}
    /\ Goto(i, "saveError")
    /\ UNCHANGED <<row, stream, again, timer, batch, entity, errors, cut, known>>

(* repo.save in the catch block.                                           *)
SaveError(i, e) ==
    /\ pc[i] = "saveError"
    /\ IsCurrent(i, e)
    /\ WriteRow(i, e)
    /\ NextEvent(i, e)
    /\ UNCHANGED <<stream, again, dlq, timer, errors, cut, dlqError>>

(* It rejects: the outer catch ends the cycle.                             *)
SaveErrorFails(i, e) ==
    /\ pc[i] = "saveError"
    /\ IsCurrent(i, e)
    /\ \/ "save" \in Faults /\ UNCHANGED row
       \/ "saveReply" \in Faults /\ WriteRow(i, e)
    /\ EndCycle(i, "idle")
    /\ UNCHANGED <<stream, again, dlq, timer, errors, cut, dlqError>>

-----------------------------------------------------------------------------
(* onModuleDestroy clears the timer; a cycle under way is not waited for.  *)
Destroy(i) ==
    /\ "crash" \in Faults
    /\ pc[i] # "down"
    /\ timer[i]
    /\ timer' = [timer EXCEPT ![i] = FALSE]
    /\ UNCHANGED <<row, stream, again, dlq, pc, batch, entity, errors, cut, known, dlqError>>

(* The process ends, in an orderly shutdown or not.                        *)
Crash(i) ==
    /\ "crash" \in Faults
    /\ pc[i] # "down"
    /\ timer' = [timer EXCEPT ![i] = FALSE]
    /\ EndCycle(i, "down")
    /\ cut' = cut \cup {e \in Event : IsCurrent(i, e)}
    /\ UNCHANGED <<row, stream, again, dlq, errors, dlqError>>

(* A new process: onModuleInit sets the timer.                             *)
Restart(i) ==
    /\ pc[i] = "down"
    /\ timer' = [timer EXCEPT ![i] = TRUE]
    /\ Goto(i, "idle")
    /\ UNCHANGED <<row, stream, again, dlq, batch, entity, errors, cut, known, dlqError>>
-----------------------------------------------------------------------------
Proceed(i) ==
    \/ Poll(i)
    \/ \E e \in Event : Publish(i, e) \/ Save(i, e) \/ RouteToDlq(i, e) \/ SaveError(i, e)
    \/ Restart(i)

Fail(i) ==
    \/ \E e \in Event :
          PublishFails(i, e) \/ SaveFails(i, e) \/ RouteToDlqFails(i, e) \/ SaveErrorFails(i, e)
    \/ Destroy(i)
    \/ Crash(i)

Next ==
    \/ \E e \in Event : Insert(e)
    \/ \E i \in Instance : PollNothing(i) \/ Proceed(i) \/ Fail(i)

Spec == Init /\ [][Next]_vars

(* The timer fires, calls are answered, a stopped process ends and its     *)
(* successor starts.  Processes do not end over and over for ever, and of  *)
(* the saves tried over and over in catch blocks one succeeds.             *)
FairSpec ==
    /\ Spec
    /\ \A i \in Instance :
          /\ WF_vars(Proceed(i))
          /\ WF_vars(~timer[i] /\ Crash(i))
          /\ <>[][~Crash(i)]_vars
          /\ SF_vars(\E e \in Event : SaveError(i, e))

-----------------------------------------------------------------------------
(* An event marked Published is in the stream, in every replica's memory   *)
(* and in the table, however its saves and publishes fail.  (L50-61)       *)
PublishedWasDelivered ==
    HasRedis => \A e \in Event : row[e].status = "Published" => e \in stream

(* An event leaves Pending only after it was delivered, or after           *)
(* MAX_PUBLISH_ATTEMPTS errors.  (L63-67)                                  *)
SettledWithCause ==
    HasRedis => \A e \in Event :
        row[e].status \in {"Published", "Failed"} => e \in stream \/ errors[e] = MaxAttempts

(* A Failed event is in the dead-letter stream, unless routing it there    *)
(* met an error itself.  (L66-85)                                          *)
FailedIsDeadLettered ==
    HasRedis => \A e \in Event : row[e].status = "Failed" => e \in dlq \cup dlqError

(* When a replica publishes an event, no earlier event that the cycle      *)
(* could see is still waiting for its first attempt: only a retry, or a    *)
(* commit after the cycle's query, reorders the stream.  (L42-48, L85-88)  *)
NoOvertaking ==
    \A i \in Instance : \A e \in Event :
        pc[i] = "publish" /\ IsCurrent(i, e)
            => \A f \in known[i] : f < e => row[f] # [status |-> "Pending", attempts |-> 0]

(* A single replica never publishes an event twice, unless it met an error *)
(* or a process ended in the middle of it.  (`processing`, L36-37, L59-61) *)
DuplicateOnlyAfterFault == \A e \in again : errors[e] > 0 \/ e \in cut

(* A single replica keeps the promise of an outbox.                        *)
Promise == INSTANCE OutboxPromise WITH
    state <- [e \in Event |-> CASE row[e].status = "none"    -> "none"
                                [] row[e].status = "Pending" -> "owed"
                                [] OTHER                     -> "settled"],
    delivered <- stream,
    failures <- errors

KeepsPromise == Promise!Spec

(* Every committed event is settled in the end, whatever fails on the way. *)
EventuallySettled == Promise!Settles
=============================================================================
