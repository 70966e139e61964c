--------------------------- MODULE StreamConsumer ---------------------------
(***************************************************************************)
(* RedisStreamConsumer: a member of a consumer group first reads what is   *)
(* pending for it from an earlier life (id '0'), then new entries (id      *)
(* '>'), handles them one by one and acknowledges each.  Every instance    *)
(* has a consumerName of its own, which it keeps when it restarts.         *)
(*                                                                         *)
(* An entry is named by its id.  The stream, its consumer group and the    *)
(* pending entries lists (PEL) are Redis'.                                 *)
(***************************************************************************)
EXTENDS Naturals, FiniteSets

CONSTANTS
    Last,           \* entries are added with the ids 1 .. Last
    Instance,       \* processes that run the consumer
    Count,          \* COUNT of XREADGROUP
    Foreign,        \* entries shouldHandle() refuses
    Faults          \* what may fail

AllFaults == {"handler", "ack", "ackReply", "read", "trim", "stop"}

Entry == 1 .. Last

ASSUME ConsumerAssumption ==
    /\ Last \in Nat
    /\ Count \in Nat \ {0}
    /\ Foreign \subseteq Entry
    /\ Faults \subseteq AllFaults

VARIABLES
    top,        \* the youngest entry of the stream
    trimmed,    \* entries MAXLEN has removed from the stream
    group,      \* the consumer group exists
    delivered,  \* its last-delivered-id
    pel,        \* entries delivered to an instance and not acknowledged
    pc,         \* where the read loop of an instance stands
    running,    \* its flag of that name
    batch,      \* the entries of the answer it has not dealt with
    empty,      \* those of them whose fields are nil
    handled,    \* history: entries handleMessage returned for
    twice,      \* history: those it returned for more than once
    tried,      \* history: entries some instance took up
    mishap      \* history: what befell an entry: "left" by an error before it
                \* was handled, or handled and "unacked"

stream == <<top, trimmed>>
history == <<handled, twice, tried, mishap>>
vars == <<stream, group, delivered, pel, pc, running, batch, empty, history>>

PCs == {"down", "recover", "read", "handle", "ack", "backoff", "off"}

TypeOK ==
    /\ top \in 0 .. Last
    /\ trimmed \subseteq 1 .. top
    /\ group \in BOOLEAN
    /\ delivered \in 0 .. top
    /\ pel \in [Instance -> SUBSET (1 .. delivered)]
    /\ pc \in [Instance -> PCs]
    /\ running \in [Instance -> BOOLEAN]
    /\ batch \in [Instance -> SUBSET Entry]
    /\ empty \in [Instance -> SUBSET Entry] /\ \A i \in Instance : empty[i] \subseteq batch[i]
    /\ handled \subseteq tried
    /\ twice \subseteq handled
    /\ tried \subseteq 1 .. delivered
    /\ mishap \in [Entry -> SUBSET {"left", "unacked"}]

Init ==
    /\ top = 0
    /\ trimmed = {}
    /\ group = FALSE
    /\ delivered = 0
    /\ pel = [i \in Instance |-> {}]
    /\ pc = [i \in Instance |-> "down"]
    /\ running = [i \in Instance |-> FALSE]
    /\ batch = [i \in Instance |-> {}]
    /\ empty = [i \in Instance |-> {}]
    /\ handled = {}
    /\ twice = {}
    /\ tried = {}
    /\ mishap = [m \in Entry |-> {}]

Goto(i, label) == pc' = [pc EXCEPT ![i] = label]

(* The first Count entries of S, by id.                                    *)
First(S) == {m \in S : Cardinality({n \in S : n < m}) < Count}

(* Entries of S meet with misfortune.                                      *)
Suffer(S, what) == mishap' = [m \in Entry |-> mishap[m] \cup (IF m \in S THEN {what} ELSE {})]

-----------------------------------------------------------------------------
(* XADD by a publisher, ...                                                *)
Add ==
    /\ top < Last
    /\ top' = top + 1
    /\ UNCHANGED <<trimmed, group, delivered, pel, pc, running, batch, empty, history>>

(* ... and its MAXLEN, which does not ask who has read the entry.          *)
Trim(m) ==
    /\ "trim" \in Faults
    /\ m \in 1 .. top
    /\ trimmed = 1 .. m - 1
    /\ trimmed' = trimmed \cup {m}
    /\ UNCHANGED <<top, group, delivered, pel, pc, running, batch, empty, history>>

(* onModuleInit: XGROUP CREATE from '0', or BUSYGROUP; the loop starts.    *)
Start(i) ==
    /\ pc[i] = "down"
    /\ group' = TRUE
    /\ delivered' = IF group THEN delivered ELSE 0
    /\ running' = [running EXCEPT ![i] = TRUE]
    /\ Goto(i, "recover")
    /\ UNCHANGED <<stream, pel, batch, empty, history>>

(* readMessages is over; the loop reads on as long as it is running.       *)
Loop(i) == Goto(i, IF running[i] THEN "read" ELSE "off")

(* XREADGROUP with id '0': the oldest pending entries.  Of an entry that   *)
(* was trimmed the fields are nil.                                         *)
ReadPending(i) ==
    /\ pc[i] = "recover"
    /\ running[i]
    /\ LET entries == First(pel[i])
       IN  /\ batch' = [batch EXCEPT ![i] = entries]
           /\ empty' = [empty EXCEPT ![i] = entries \cap trimmed]
           /\ IF entries = {} THEN Loop(i) ELSE Goto(i, "handle")
    /\ UNCHANGED <<stream, group, delivered, pel, running, history>>

(* XREADGROUP with id '>'.                                                 *)
New == {m \in 1 .. top : m > delivered /\ m \notin trimmed}

Deliver(i) ==
    /\ New # {}
    /\ delivered' = CHOOSE m \in First(New) : \A n \in First(New) : n <= m
    /\ pel' = [pel EXCEPT ![i] = @ \cup First(New)]

ReadNew(i) ==
    /\ pc[i] = "read"
    /\ running[i]
    /\ Deliver(i)
    /\ batch' = [batch EXCEPT ![i] = First(New)]
    /\ Goto(i, "handle")
    /\ UNCHANGED <<stream, group, running, empty, history>>

(* BLOCK times out.                                                        *)
ReadNothing(i) ==
    /\ pc[i] = "read"
    /\ running[i]
    /\ New = {}
    /\ UNCHANGED vars

(* Faulty variant: a read that rejects ends the loop.                      *)
ReadFailsForGood(i) ==
    /\ "read" \in Faults
    /\ pc[i] \in {"recover", "read"}
    /\ running[i]
    /\ Goto(i, "off")
    /\ UNCHANGED <<stream, group, delivered, pel, running, batch, empty, history>>

(* The read rejects, before it reached the server or with its answer lost. *)
ReadFails(i) ==
    /\ "read" \in Faults
    /\ pc[i] \in {"recover", "read"}
    /\ running[i]
    /\ \/ UNCHANGED <<delivered, pel, mishap>>
       \/ pc[i] = "read" /\ Deliver(i) /\ Suffer(First(New), "left")
    /\ Goto(i, "backoff")
    /\ UNCHANGED <<stream, group, running, batch, empty, handled, twice, tried>>

(* onModuleDestroy has come in between: readMessages returns, or its read  *)
(* rejects because the connection is closed; the loop ends.                *)
ReadNoMore(i) ==
    /\ pc[i] \in {"recover", "read", "backoff"}
    /\ ~running[i]
    /\ Goto(i, "off")
    /\ UNCHANGED <<stream, group, delivered, pel, running, batch, empty, history>>

Resume(i) ==
    /\ pc[i] = "backoff"
    /\ running[i]
    /\ Goto(i, "read")
    /\ UNCHANGED <<stream, group, delivered, pel, running, batch, empty, history>>

-----------------------------------------------------------------------------
(* Faulty variant: an answer is gone through from its end.                 *)
IsYoungest(i, m) == m \in batch[i] /\ \A n \in batch[i] : n <= m

(* Entries are dealt with in the order of the answer.                      *)
IsCurrent(i, m) == m \in batch[i] /\ \A n \in batch[i] : m <= n

(* m is dealt with.                                                        *)
NextEntry(i, m) ==
    /\ batch' = [batch EXCEPT ![i] = @ \ {m}]
    /\ empty' = [empty EXCEPT ![i] = @ \ {m}]
    /\ IF batch[i] = {m} THEN Loop(i) ELSE Goto(i, "handle")

(* The outer catch block: the rest of the answer stays pending.            *)
Abandon(i) ==
    /\ Suffer(batch[i], "left")
    /\ batch' = [batch EXCEPT ![i] = {}]
    /\ empty' = [empty EXCEPT ![i] = {}]
    /\ Goto(i, IF running[i] THEN "backoff" ELSE "off")

TakeUp(m) == tried' = tried \cup {m}

(* Fields that are nil have no length: a TypeError.                        *)
MeetEmpty(i, m) ==
    /\ pc[i] = "handle"
    /\ IsCurrent(i, m)
    /\ m \in empty[i]
    /\ Abandon(i)
    /\ UNCHANGED <<stream, group, delivered, pel, running, handled, twice, tried>>

(* shouldHandle refuses m: it is acknowledged and left.                    *)
Skip(i, m) ==
    /\ pc[i] = "handle"
    /\ IsCurrent(i, m)
    /\ m \in Foreign \ empty[i]
    /\ TakeUp(m)
    /\ pel' = [pel EXCEPT ![i] = @ \ {m}]
    /\ NextEntry(i, m)
    /\ UNCHANGED <<stream, group, delivered, running, handled, twice, mishap>>

(* This XACK stands outside the inner try block.                           *)
SkipFails(i, m) ==
    /\ pc[i] = "handle"
    /\ IsCurrent(i, m)
    /\ m \in Foreign \ empty[i]
    /\ TakeUp(m)
    /\ \/ "ack" \in Faults /\ UNCHANGED pel
       \/ "ackReply" \in Faults /\ pel' = [pel EXCEPT ![i] = @ \ {m}]
    /\ Abandon(i)
    /\ UNCHANGED <<stream, group, delivered, running, handled, twice>>

Handle(i, m) ==
    /\ pc[i] = "handle"
    /\ IsCurrent(i, m)
    /\ m \notin Foreign \cup empty[i]
    /\ TakeUp(m)
    /\ handled' = handled \cup {m}
    /\ twice' = twice \cup (handled \cap {m})
    /\ Goto(i, "ack")
    /\ UNCHANGED <<stream, group, delivered, pel, running, batch, empty, mishap>>

(* Faulty variant: acknowledged in a finally block.                        *)
HandleFailsAcked(i, m) ==
    /\ "handler" \in Faults
    /\ pc[i] = "handle"
    /\ IsCurrent(i, m)
    /\ m \notin Foreign \cup empty[i]
    /\ TakeUp(m)
    /\ Suffer({m}, "left")
    /\ pel' = [pel EXCEPT ![i] = @ \ {m}]
    /\ NextEntry(i, m)
    /\ UNCHANGED <<stream, group, delivered, running, handled, twice>>

(* handleMessage rejects: m stays pending.                                 *)
HandleFails(i, m) ==
    /\ "handler" \in Faults
    /\ pc[i] = "handle"
    /\ IsCurrent(i, m)
    /\ m \notin Foreign \cup empty[i]
    /\ TakeUp(m)
    /\ Suffer({m}, "left")
    /\ NextEntry(i, m)
    /\ UNCHANGED <<stream, group, delivered, pel, running, handled, twice>>

(* Faulty variant: XACK is not sent.                                       *)
AckForgotten(i, m) ==
    /\ pc[i] = "ack"
    /\ IsCurrent(i, m)
    /\ NextEntry(i, m)
    /\ UNCHANGED <<stream, group, delivered, pel, running, history>>

Ack(i, m) ==
    /\ pc[i] = "ack"
    /\ IsCurrent(i, m)
    /\ pel' = [pel EXCEPT ![i] = @ \ {m}]
    /\ NextEntry(i, m)
    /\ UNCHANGED <<stream, group, delivered, running, history>>

(* The inner catch block meets an entry that was handled.                  *)
AckFails(i, m) ==
    /\ pc[i] = "ack"
    /\ IsCurrent(i, m)
    /\ \/ "ack" \in Faults /\ UNCHANGED pel
       \/ "ackReply" \in Faults /\ pel' = [pel EXCEPT ![i] = @ \ {m}]
    /\ Suffer({m}, "unacked")
    /\ NextEntry(i, m)
    /\ UNCHANGED <<stream, group, delivered, running, handled, twice, tried>>

-----------------------------------------------------------------------------
(* onModuleDestroy: the flag, and the connection of the blocking read.     *)
Stop(i) ==
    /\ "stop" \in Faults
    /\ pc[i] # "down"
    /\ running[i]
    /\ running' = [running EXCEPT ![i] = FALSE]
    /\ UNCHANGED <<stream, group, delivered, pel, pc, batch, empty, history>>

(* The process ends; nobody waits for the entry in flight.                 *)
End(i) ==
    /\ "stop" \in Faults
    /\ pc[i] # "down"
    /\ running' = [running EXCEPT ![i] = FALSE]
    /\ mishap' = [m \in Entry |-> mishap[m] \cup
          IF pc[i] = "ack" /\ IsCurrent(i, m) THEN {"unacked"}
          ELSE IF m \in batch[i] THEN {"left"} ELSE {}]
    /\ batch' = [batch EXCEPT ![i] = {}]
    /\ empty' = [empty EXCEPT ![i] = {}]
    /\ Goto(i, "down")
    /\ UNCHANGED <<stream, group, delivered, pel, handled, twice, tried>>

Proceed(i) ==
    \/ Start(i) \/ ReadPending(i) \/ ReadNew(i) \/ ReadNoMore(i) \/ Resume(i)
    \/ \E m \in Entry : MeetEmpty(i, m) \/ Skip(i, m) \/ Handle(i, m) \/ Ack(i, m)

Fail(i) ==
    \/ ReadFails(i)
    \/ \E m \in Entry : SkipFails(i, m) \/ HandleFails(i, m) \/ AckFails(i, m)
    \/ Stop(i)
    \/ End(i)

Next ==
    \/ Add
    \/ \E m \in Entry : Trim(m)
    \/ \E i \in Instance : ReadNothing(i) \/ Proceed(i) \/ Fail(i)

Spec == Init /\ [][Next]_vars

(* Calls are answered and the back-off ends; a stopped process ends and    *)
(* its successor starts.  Processes are not stopped, nor reads failing,    *)
(* over and over for ever.                                                 *)
FairSpec ==
    /\ Spec
    /\ \A i \in Instance :
          /\ WF_vars(Proceed(i))
          /\ WF_vars(~running[i] /\ End(i))
          /\ <>[][~Stop(i) /\ ~End(i)]_vars
          /\ SF_vars(ReadNew(i))

-----------------------------------------------------------------------------
(* An entry leaves the pending lists only if it was handled, or refused by *)
(* shouldHandle, whatever fails and whoever ends in between.  (L147-163)   *)
AckedWasHandled ==
    \A m \in 1 .. delivered :
        (\A i \in Instance : m \notin pel[i]) => m \in handled \cup Foreign \cup trimmed

(* The group as GroupPromise sees it.                                      *)
Holders(m) == {i \in Instance : m \in pel[i]}

Promise == INSTANCE GroupPromise WITH
    Member <- Instance,
    Refused <- Foreign,
    holders <- [m \in Entry |-> Holders(m)],
    settled <- {m \in 1 .. delivered : Holders(m) = {}},
    lost <- trimmed,
    inDoubt <- {m \in Entry : "unacked" \in mishap[m]}

(* Whatever fails and whoever ends and restarts in between, each entry is  *)
(* given to one instance, stays pending for it until it was handled, and   *)
(* is then acknowledged for good; it is handled again only by the same     *)
(* instance, and only if its XACK met an error or the process ended before *)
(* it.  (L97-170)                                                          *)
KeepsPromise == Promise!Spec

(* handleMessage succeeds for an entry more than once only if the XACK met *)
(* an error or the process ended between the two.  (L153-163)              *)
DuplicateOnlyAfterMishap == \A m \in twice : "unacked" \in mishap[m]

(* While an instance reads new entries, whatever is pending for it has met *)
(* with an error at some time.  (L103-105, L156)                           *)
PendingWithCause ==
    \A i \in Instance : pc[i] = "read" => \A m \in pel[i] : mishap[m] # {}

(* No entry is taken up before an earlier one that was delivered to the    *)
(* same instance, unless that one met with an error.  (L140)               *)
OrderKept ==
    \A i \in Instance : \A m \in pel[i] \cap tried : \A n \in pel[i] \ tried :
        n < m => mishap[n] # {}

(* Every entry is taken up in the end, unless it met with an error or was  *)
(* trimmed: no error ends the loop.  (L103-105, L165-170)                  *)
EveryEntryTakenUp ==
    \A m \in Entry :
        m <= top ~> (m \in tried \cup trimmed \/ mishap[m] # {})

(* "Recovers pending (unacked) messages on startup before reading new      *)
(* ones" (L23): the recovery of a running instance takes up whatever is    *)
(* pending for it.  The code reads once, and no more than COUNT.           *)
RecoversPending ==
    [][\A i \in Instance :
          pc[i] = "recover" /\ pc'[i] \in {"handle", "read"} => pel[i] \subseteq batch'[i]]_vars
=============================================================================
