----------------------- MODULE OutboxPublisher_proofs -----------------------
(***************************************************************************)
(* Theorems about OutboxPublisher: for any number of events and replicas,  *)
(* any batch size, number of attempts and faults; the last ones, about     *)
(* duplicates and the promise of an outbox, for one replica.               *)
(***************************************************************************)
EXTENDS OutboxPublisher, FiniteSetTheorems, TLAPS

(* What the catch blocks and the table may hold of an event.               *)
Sound(entry, e) ==
    /\ entry.attempts <= errors[e]
    /\ entry.status = "Pending" => entry.attempts < MaxAttempts
    /\ entry.status = "Failed" => entry.attempts = MaxAttempts
    /\ entry.status = "Published" /\ HasRedis => e \in stream

(* An event of the batch whose turn has not come is as the query read it.  *)
Untouched(i, e) == e \in batch[i] /\ (pc[i] = "publish" \/ ~IsCurrent(i, e))

RowInv ==
    \A e \in Event :
        /\ Sound(row[e], e)
        /\ row[e].status = "none" => row[e].attempts = 0
        /\ row[e].status = "Failed" /\ HasRedis => e \in dlq \cup dlqError

(* What an instance holds of an event.                                     *)
EntryInv(i, e) ==
    /\ Sound(entity[i][e], e)
    /\ Untouched(i, e) => entity[i][e].status = "Pending"
    /\ e \in batch[i] =>
          /\ e \in known[i] /\ entity[i][e].status # "none"
          /\ pc[i] = "save" /\ IsCurrent(i, e)
                => entity[i][e].status = "Published" /\ entity[i][e].attempts < MaxAttempts
          /\ pc[i] = "dlq" /\ IsCurrent(i, e) => entity[i][e].status = "Failed"
          /\ pc[i] \in {"dlq", "saveError"} /\ IsCurrent(i, e) => entity[i][e].attempts > 0
          /\ entity[i][e].status = "Failed" /\ pc[i] # "dlq" /\ HasRedis
                => e \in dlq \cup dlqError

EntityInv == \A i \in Instance : \A e \in Event : EntryInv(i, e)

Fresh(e) == row[e] = [status |-> "Pending", attempts |-> 0]

(* Earlier events of which a cycle knows and which it has not in its batch *)
(* are waiting for more than their first attempt.                          *)
OrderAt(i) ==
    /\ known[i] \subseteq Committed
    /\ \A f \in known[i] \ batch[i] : Fresh(f) => \A e \in batch[i] : e < f

OrderInv == \A i \in Instance : OrderAt(i)

IInv == TypeOK /\ RowInv /\ EntityInv /\ OrderInv

-----------------------------------------------------------------------------
(* The current event of a batch is the only one.                           *)
LEMMA OneCurrent ==
    ASSUME TypeOK, NEW i \in Instance, NEW e \in Event, NEW f \in Event,
           IsCurrent(i, e), f \in batch[i], f # e
    PROVE  e < f /\ ~IsCurrent(i, f)
<1>1. e \in Nat /\ f \in Nat
  BY OutboxAssumption
<1>2. e <= f
  BY DEF IsCurrent
<1> QED
  BY <1>1, <1>2 DEF IsCurrent

(* What the catch block makes of an event whose attempt failed.            *)
LEMMA CatchEffect ==
    ASSUME TypeOK, NEW i \in Instance, NEW e \in Event,
           Sound(entity[i][e], e), entity[i][e].attempts < MaxAttempts, CatchError(i, e)
    PROVE  LET n == entity[i][e].attempts + 1
               x == IF n = MaxAttempts
                    THEN [status |-> "Failed", attempts |-> n]
                    ELSE [status |-> entity[i][e].status, attempts |-> n]
           IN  /\ x \in Row /\ n <= errors'[e]
               /\ entity' = [entity EXCEPT ![i] = [entity[i] EXCEPT ![e] = x]]
               /\ pc' = [pc EXCEPT ![i] = IF n = MaxAttempts THEN "dlq" ELSE "saveError"]
               /\ errors' \in [Event -> 0..MaxAttempts]
               /\ \A f \in Event : errors[f] <= errors'[f]
<1> DEFINE n == entity[i][e].attempts + 1
<1> DEFINE x == IF n = MaxAttempts
                THEN [status |-> "Failed", attempts |-> n]
                ELSE [status |-> entity[i][e].status, attempts |-> n]
<1>1. /\ MaxAttempts \in Nat \ {0} /\ entity[i][e] \in Row
      /\ errors \in [Event -> 0..MaxAttempts]
  BY OutboxAssumption DEF TypeOK
<1>2. entity[i][e].attempts \in 0..MaxAttempts /\ n \in 1..MaxAttempts
  BY <1>1 DEF Row
<1>3. x \in Row
  BY <1>1, <1>2 DEF Row
<1>4. /\ errors' \in [Event -> 0..MaxAttempts]
      /\ n <= errors'[e] /\ \A f \in Event : errors[f] <= errors'[f]
  BY <1>1, <1>2 DEF CatchError, CountError, Sound
<1>5. /\ entity' = [entity EXCEPT ![i] = [entity[i] EXCEPT ![e] = x]]
      /\ pc' = [pc EXCEPT ![i] = IF n = MaxAttempts THEN "dlq" ELSE "saveError"]
  <2>1. CASE n >= MaxAttempts
    <3>1. n = MaxAttempts
      BY <1>1, <1>2, <2>1
    <3> QED
      BY <1>1, <1>2, <2>1, <3>1 DEF CatchError, Goto, TypeOK
  <2>2. CASE n < MaxAttempts
    <3>1. x = [entity[i][e] EXCEPT !.attempts = n]
      BY <1>1, <1>2, <2>2 DEF Row
    <3> QED
      BY <1>1, <1>2, <2>2, <3>1 DEF CatchError, Goto, TypeOK
  <2> QED
    BY <1>1, <1>2, <2>1, <2>2
<1> QED
  BY <1>3, <1>4, <1>5

(* An instance that does not move keeps its events as they are.            *)
LEMMA EntryFrame ==
    ASSUME TypeOK, TypeOK', NEW i \in Instance, NEW e \in Event, EntryInv(i, e),
           pc'[i] = pc[i], batch'[i] = batch[i], entity'[i] = entity[i], known'[i] = known[i],
           errors[e] <= errors'[e], stream \subseteq stream',
           dlq \subseteq dlq', dlqError \subseteq dlqError'
    PROVE  EntryInv(i, e)'
<1>1. IsCurrent(i, e)' <=> IsCurrent(i, e)
  BY DEF IsCurrent
<1>2. Sound(entity[i][e], e)'
  <2>1. /\ entity[i][e].attempts \in Nat /\ errors[e] \in Nat /\ errors'[e] \in Nat
        /\ MaxAttempts \in Nat
    BY OutboxAssumption DEF TypeOK, Row
  <2> QED
    BY <2>1 DEF EntryInv, Sound
<1> QED
  BY <1>1, <1>2 DEF EntryInv, Untouched

(* The order of an instance that does not move is kept by whoever makes no *)
(* row disappear and none fresh.                                           *)
LEMMA OrderFrame ==
    ASSUME NEW i \in Instance, OrderAt(i), batch'[i] = batch[i], known'[i] = known[i],
           Committed \subseteq Committed',
           \A f \in known[i] : Fresh(f)' => Fresh(f)
    PROVE  OrderAt(i)'
<1> QED
  BY DEF OrderAt

(* The table keeps its invariant when only the history of it grows.        *)
LEMMA RowFrame ==
    ASSUME TypeOK, TypeOK', RowInv, row' = row,
           \A e \in Event : errors[e] <= errors'[e], stream \subseteq stream',
           dlq \subseteq dlq', dlqError \subseteq dlqError'
    PROVE  RowInv'
<1> SUFFICES ASSUME NEW e \in Event
             PROVE  /\ Sound(row[e], e)'
                    /\ row'[e].status = "none" => row'[e].attempts = 0
                    /\ row'[e].status = "Failed" /\ HasRedis => e \in dlq' \cup dlqError'
  BY DEF RowInv
<1>1. row[e].attempts \in Nat /\ errors[e] \in Nat /\ errors'[e] \in Nat /\ MaxAttempts \in Nat
  BY OutboxAssumption DEF TypeOK, Row
<1> QED
  BY <1>1 DEF RowInv, Sound

(* The rows become those of the entity in hand.                            *)
LEMMA WriteEffect ==
    ASSUME IInv, TypeOK', NEW i \in Instance, NEW e \in Event, IsCurrent(i, e), WriteRow(i, e),
           pc[i] \in {"save", "saveError"},
           \A f \in Event : errors[f] <= errors'[f], stream \subseteq stream',
           dlq \subseteq dlq', dlqError \subseteq dlqError'
    PROVE  /\ RowInv'
           /\ Committed \subseteq Committed'
           /\ \A f \in Event : Fresh(f)' => Fresh(f)
<1>1. /\ Sound(entity[i][e], e) /\ entity[i][e].status # "none"
      /\ entity[i][e].status = "Failed" /\ HasRedis => e \in dlq \cup dlqError
      /\ entity[i][e].status # "Pending" \/ entity[i][e].attempts > 0
  <2>1. EntryInv(i, e) /\ e \in batch[i]
    BY DEF IInv, EntityInv, IsCurrent
  <2> QED
    BY <2>1 DEF EntryInv
<1>2. row' = [row EXCEPT ![e] = entity[i][e]] /\ row \in [Event -> Row] /\ entity[i][e] \in Row
  BY DEF WriteRow, IInv, TypeOK
<1>3. /\ errors \in [Event -> 0..MaxAttempts] /\ errors' \in [Event -> 0..MaxAttempts]
      /\ MaxAttempts \in Nat
  BY OutboxAssumption DEF IInv, TypeOK
<1>4. RowInv'
  <2> SUFFICES ASSUME NEW f \in Event
               PROVE  /\ Sound(row[f], f)'
                      /\ row'[f].status = "none" => row'[f].attempts = 0
                      /\ row'[f].status = "Failed" /\ HasRedis => f \in dlq' \cup dlqError'
    BY DEF RowInv
  <2>1. errors[f] <= errors'[f] /\ errors[f] \in Nat /\ errors'[f] \in Nat
    BY <1>3
  <2>2. CASE f = e
    <3>1. row'[f] = entity[i][e] /\ entity[i][e].attempts \in Nat
      BY <1>2, <1>3, <2>2 DEF Row
    <3> QED
      BY <1>1, <1>3, <2>1, <2>2, <3>1 DEF Sound
  <2>3. CASE f # e
    <3>1. row'[f] = row[f] /\ row[f].attempts \in Nat
      BY <1>2, <1>3, <2>3 DEF Row
    <3> QED
      BY <1>3, <2>1, <3>1 DEF Sound, IInv, RowInv
  <2> QED
    BY <2>2, <2>3
<1>5. \A f \in Event : Fresh(f)' => Fresh(f)
  BY <1>1, <1>2 DEF Fresh, Row
<1>6. Committed \subseteq Committed'
  BY <1>1, <1>2 DEF Committed, Row
<1> QED
  BY <1>4, <1>5, <1>6

-----------------------------------------------------------------------------
LEMMA InitInvariant == Init => IInv
<1> SUFFICES ASSUME Init PROVE IInv
  OBVIOUS
<1>1. NoRow \in Row /\ 0 \in 0..MaxAttempts /\ MaxAttempts \in Nat \ {0}
  BY OutboxAssumption DEF NoRow, Row
<1>2. TypeOK
  BY <1>1 DEF Init, TypeOK, NoEntities
<1>3. RowInv
  BY <1>1 DEF Init, RowInv, Sound, NoRow
<1>4. EntityInv
  BY <1>1 DEF Init, EntityInv, EntryInv, Sound, Untouched, NoRow, NoEntities
<1>5. OrderInv
  BY DEF Init, OrderInv, OrderAt
<1> QED
  BY <1>2, <1>3, <1>4, <1>5 DEF IInv

LEMMA InsertStep ==
    ASSUME IInv, NEW e \in Event, Insert(e)
    PROVE  IInv'
<1>1. MaxAttempts \in Nat \ {0} /\ 0 \in 0..MaxAttempts /\ row[e] \in Row /\ TypeOK
  BY OutboxAssumption DEF IInv, TypeOK
<1>2. TypeOK'
  BY <1>1 DEF Insert, TypeOK, Row
<1>3. RowInv'
  <2> SUFFICES ASSUME NEW f \in Event
               PROVE  /\ Sound(row[f], f)'
                      /\ row'[f].status = "none" => row'[f].attempts = 0
                      /\ row'[f].status = "Failed" /\ HasRedis => f \in dlq' \cup dlqError'
    BY DEF RowInv
  <2>1. CASE f = e
    <3>1. row[e].attempts = 0 /\ Sound(row[e], e)
      BY <1>1 DEF IInv, RowInv, Insert
    <3>2. row'[e].status = "Pending" /\ row'[e].attempts = 0
      BY <1>1, <3>1 DEF Insert, Row, TypeOK
    <3> QED
      BY <1>1, <2>1, <3>1, <3>2 DEF Sound, Insert
  <2>2. CASE f # e
    <3>1. row'[f] = row[f]
      BY <1>1, <2>2 DEF Insert, TypeOK
    <3> QED
      BY <3>1 DEF Sound, IInv, RowInv, Insert
  <2> QED
    BY <2>1, <2>2
<1>4. EntityInv'
  BY DEF IInv, EntityInv, EntryInv, Sound, Untouched, IsCurrent, Insert
<1>5. OrderInv'
  <2> SUFFICES ASSUME NEW i \in Instance PROVE OrderAt(i)'
    BY DEF OrderInv
  <2>1. OrderAt(i) /\ known[i] \subseteq Committed /\ e \notin Committed
    BY DEF IInv, OrderInv, OrderAt, Insert, Committed
  <2>2. \A f \in Event : f # e => row'[f] = row[f]
    BY <1>1 DEF Insert, TypeOK
  <2>3. Committed \subseteq Committed' /\ \A f \in known[i] : Fresh(f)' => Fresh(f)
    BY <2>1, <2>2 DEF Committed, Fresh, Insert
  <2> QED
    BY <2>1, <2>3, OrderFrame DEF Insert
<1> QED
  BY <1>2, <1>3, <1>4, <1>5 DEF IInv

(* A cycle that does not take a pending event takes every older one that   *)
(* it could.                                                               *)
LEMMA OldestFirst ==
    ASSUME NEW e \in FirstPending, NEW f \in Pending, f \notin FirstPending
    PROVE  e < f
<1> DEFINE Before(g) == {h \in Pending : h < g}
<1>1. e \in Nat /\ f \in Nat /\ Pending \subseteq Nat /\ BatchSize \in Nat
  BY OutboxAssumption DEF FirstPending, Pending
<1>2. \A g \in Nat : IsFiniteSet(Before(g)) /\ Cardinality(Before(g)) \in Nat
  <2> SUFFICES ASSUME NEW g \in Nat
               PROVE  IsFiniteSet(Before(g)) /\ Cardinality(Before(g)) \in Nat
    OBVIOUS
  <2>1. IsFiniteSet(0..g)
    BY FS_Interval
  <2>2. Before(g) \subseteq 0..g
    <3>1. ASSUME NEW h \in Pending, h < g PROVE h \in 0..g
      <4>1. h \in Nat
        BY <1>1
      <4> QED
        BY <4>1, <3>1
    <3> QED
      BY <3>1
  <2> QED
    BY <2>1, <2>2, FS_Subset, FS_CardinalityType
<1>3. SUFFICES ASSUME f <= e PROVE FALSE
  BY <1>1
<1>4. Before(f) \subseteq Before(e)
  <2>1. ASSUME NEW h \in Pending, h < f PROVE h < e
    <3>1. h \in Nat
      BY <1>1
    <3> QED
      BY <1>1, <1>3, <2>1, <3>1
  <2> QED
    BY <2>1
<1>5. Cardinality(Before(f)) <= Cardinality(Before(e))
  BY <1>1, <1>2, <1>4, FS_Subset
<1>6. Cardinality(Before(e)) < BatchSize /\ ~(Cardinality(Before(f)) < BatchSize)
  BY DEF FirstPending
<1> QED
  BY <1>1, <1>2, <1>5, <1>6

LEMMA PollStep ==
    ASSUME IInv, NEW i \in Instance, Poll(i)
    PROVE  IInv'
<1>1. /\ TypeOK /\ FirstPending \subseteq Pending /\ Pending \subseteq Committed
      /\ Committed \subseteq Event /\ NoRow \in Row
  BY OutboxAssumption DEF IInv, FirstPending, Pending, Committed, NoRow, Row
<1>2. TypeOK'
  BY <1>1 DEF Poll, TypeOK, Goto
<1>3. RowInv'
  <2>1. \A e \in Event : errors[e] <= errors'[e]
    BY <1>1, OutboxAssumption DEF TypeOK, Poll
  <2> QED
    BY <1>1, <1>2, <2>1, RowFrame DEF Poll, IInv
<1>4. EntityInv'
  <2> SUFFICES ASSUME NEW j \in Instance, NEW e \in Event PROVE EntryInv(j, e)'
    BY DEF EntityInv
  <2>1. CASE j # i
    <3>1. errors[e] <= errors'[e]
      BY <1>1, OutboxAssumption DEF TypeOK, Poll
    <3>2. /\ pc'[j] = pc[j] /\ batch'[j] = batch[j] /\ entity'[j] = entity[j]
          /\ known'[j] = known[j]
      BY <1>1, <2>1 DEF Poll, TypeOK, Goto
    <3> QED
      BY <1>1, <1>2, <3>1, <3>2, EntryFrame DEF Poll, IInv, EntityInv
  <2>2. CASE j = i
    <3>1. /\ pc'[i] = "publish" /\ batch'[i] = FirstPending /\ known'[i] = Committed
          /\ entity'[i][e] = IF e \in FirstPending THEN row[e] ELSE NoRow
      BY <1>1 DEF Poll, TypeOK, Goto
    <3>2. errors' = errors /\ stream' = stream
      BY DEF Poll
    <3>3. CASE e \in FirstPending
      <4>1. row[e].status = "Pending" /\ Sound(row[e], e) /\ e \in Committed
        BY <1>1, <3>3 DEF Pending, IInv, RowInv
      <4> QED
        BY <2>2, <3>1, <3>2, <3>3, <4>1 DEF EntryInv, Sound, Untouched
    <3>4. CASE e \notin FirstPending
      BY <1>1, <2>2, <3>1, <3>2, <3>4, OutboxAssumption
         DEF EntryInv, Sound, Untouched, NoRow, TypeOK
    <3> QED
      BY <3>3, <3>4
  <2> QED
    BY <2>1, <2>2
<1>5. OrderInv'
  <2> SUFFICES ASSUME NEW j \in Instance PROVE OrderAt(j)'
    BY DEF OrderInv
  <2>1. row' = row
    BY DEF Poll
  <2>2. CASE j # i
    <3>1. batch'[j] = batch[j] /\ known'[j] = known[j]
      BY <1>1, <2>2 DEF Poll, TypeOK
    <3> QED
      BY <2>1, <3>1, OrderFrame DEF IInv, OrderInv, Committed, Fresh
  <2>3. CASE j = i
    <3>1. batch'[i] = FirstPending /\ known'[i] = Committed
      BY <1>1 DEF Poll, TypeOK
    <3>2. \A f \in Committed \ FirstPending : Fresh(f) => \A e \in FirstPending : e < f
      BY OldestFirst DEF Committed, Pending, Fresh
    <3> QED
      BY <2>1, <2>3, <3>1, <3>2 DEF OrderAt, Committed, Fresh
  <2> QED
    BY <2>2, <2>3
<1> QED
  BY <1>2, <1>3, <1>4, <1>5 DEF IInv

(* A step that deals with the current event leaves all other entities as   *)
(* they are.                                                               *)
LEMMA CurrentStep ==
    ASSUME IInv, TypeOK', NEW i \in Instance, NEW e \in Event, IsCurrent(i, e),
           batch' = batch, known' = known,
           \A j \in Instance \ {i} : pc'[j] = pc[j] /\ entity'[j] = entity[j],
           \A f \in Event \ {e} : entity'[i][f] = entity[i][f],
           pc'[i] # "publish",
           \A f \in Event : errors[f] <= errors'[f], stream \subseteq stream',
           dlq \subseteq dlq', dlqError \subseteq dlqError',
           EntryInv(i, e)'
    PROVE  EntityInv'
<1> SUFFICES ASSUME NEW j \in Instance, NEW f \in Event PROVE EntryInv(j, f)'
  BY DEF EntityInv
<1>1. EntryInv(j, f) /\ TypeOK
  BY DEF IInv, EntityInv
<1>2. CASE j # i
  BY <1>1, <1>2, EntryFrame
<1>3. CASE j = i /\ f # e
  <2>1. entity'[i][f] = entity[i][f] /\ entity[i][f].attempts \in Nat
    BY <1>1, <1>3, OutboxAssumption DEF TypeOK, Row
  <2>2. Sound(entity[i][f], f)'
    <3>1. errors[f] \in Nat /\ errors'[f] \in Nat /\ MaxAttempts \in Nat
      BY <1>1, OutboxAssumption DEF TypeOK
    <3> QED
      BY <1>1, <1>3, <2>1, <3>1 DEF EntryInv, Sound
  <2>3. f \in batch[i] => ~IsCurrent(i, f) /\ ~IsCurrent(i, f)' /\ entity[i][f].status = "Pending"
    BY <1>1, <1>3, OneCurrent DEF EntryInv, Untouched, IsCurrent
  <2> QED
    BY <1>1, <1>3, <2>1, <2>2, <2>3 DEF EntryInv, Untouched
<1> QED
  BY <1>2, <1>3

(* The order of a cycle is kept while no row becomes fresh.                *)
LEMMA OrderKept ==
    ASSUME IInv, batch' = batch, known' = known, Committed \subseteq Committed',
           \A f \in Event : Fresh(f)' => Fresh(f)
    PROVE  OrderInv'
<1> SUFFICES ASSUME NEW j \in Instance PROVE OrderAt(j)'
  BY DEF OrderInv
<1>1. OrderAt(j) /\ known[j] \subseteq Event
  BY DEF IInv, OrderInv, TypeOK
<1> QED
  BY <1>1, OrderFrame

LEMMA PublishStep ==
    ASSUME IInv, NEW i \in Instance, NEW e \in Event, Publish(i, e)
    PROVE  IInv'
<1>1. TypeOK /\ EntryInv(i, e) /\ IsCurrent(i, e) /\ pc[i] = "publish" /\ e \in batch[i]
  BY DEF IInv, EntityInv, Publish, IsCurrent
<1>2. /\ entity[i][e] \in Row /\ entity[i][e].status = "Pending" /\ Sound(entity[i][e], e)
      /\ entity[i][e].attempts < MaxAttempts /\ e \in known[i]
  BY <1>1 DEF EntryInv, Untouched, Sound, TypeOK
<1>3. entity'[i][e] = [status |-> "Published", attempts |-> entity[i][e].attempts]
  BY <1>1, <1>2 DEF Publish, TypeOK, Row
<1>4. stream \subseteq stream' /\ (HasRedis => e \in stream')
  BY OutboxAssumption DEF Publish, Append
<1>5. TypeOK'
  <2>1. stream' \subseteq Event /\ again' \subseteq stream'
    BY <1>1 DEF Publish, Append, TypeOK
  <2>2. entity' \in [Instance -> [Event -> Row]]
    <3>1. [entity[i][e] EXCEPT !.status = "Published"] \in Row
      BY <1>2 DEF Row
    <3> QED
      BY <1>1, <3>1 DEF Publish, TypeOK
  <2>3. pc' \in [Instance -> {"idle", "publish", "save", "dlq", "saveError", "down"}]
    BY <1>1 DEF Publish, TypeOK, Goto
  <2> QED
    BY <1>1, <2>1, <2>2, <2>3 DEF Publish, TypeOK
<1>6. \A f \in Event : errors[f] <= errors'[f]
  BY <1>1, OutboxAssumption DEF TypeOK, Publish
<1>7. /\ pc'[i] = "save" /\ \A j \in Instance \ {i} : pc'[j] = pc[j] /\ entity'[j] = entity[j]
      /\ \A f \in Event \ {e} : entity'[i][f] = entity[i][f]
  BY <1>1 DEF Publish, TypeOK, Goto
<1>8. EntryInv(i, e)'
  <2>1. /\ batch' = batch /\ known' = known /\ errors' = errors
        /\ entity[i][e].attempts <= errors[e]
    BY <1>2 DEF Publish, Sound
  <2>2. IsCurrent(i, e)'
    BY <1>1, <2>1 DEF IsCurrent
  <2> QED
    BY <1>2, <1>3, <1>4, <1>7, <2>1, <2>2 DEF EntryInv, Untouched, Sound
<1>9. EntityInv'
  BY <1>1, <1>4, <1>5, <1>6, <1>7, <1>8, CurrentStep DEF Publish
<1>10. RowInv'
  BY <1>1, <1>4, <1>5, <1>6, RowFrame DEF IInv, Publish
<1>11. OrderInv'
  BY OrderKept DEF Publish, Committed, Fresh
<1> QED
  BY <1>5, <1>9, <1>10, <1>11 DEF IInv

(* The catch block, after an XADD or a save that rejected.                 *)
LEMMA CatchStep ==
    ASSUME IInv, NEW i \in Instance, NEW e \in Event, IsCurrent(i, e),
           pc[i] \in {"publish", "save"}, CatchError(i, e),
           UNCHANGED <<dlq, timer, batch, cut, known, dlqError>>,
           stream \subseteq stream', stream' \subseteq Event, again' \subseteq stream',
           row' \in [Event -> Row],
           \/ row' = row
           \/ pc[i] = "save" /\ row' = [row EXCEPT ![e] = entity[i][e]]
    PROVE  IInv'
<1> DEFINE n == entity[i][e].attempts + 1
<1> DEFINE x == IF n = MaxAttempts
                THEN [status |-> "Failed", attempts |-> n]
                ELSE [status |-> entity[i][e].status, attempts |-> n]
<1>1. TypeOK /\ EntryInv(i, e) /\ e \in batch[i] /\ MaxAttempts \in Nat \ {0}
  BY OutboxAssumption DEF IInv, EntityInv, IsCurrent
<1>2. /\ Sound(entity[i][e], e) /\ entity[i][e].attempts < MaxAttempts /\ e \in known[i]
      /\ entity[i][e] \in Row /\ entity[i][e].status \in {"Pending", "Published"}
  BY <1>1 DEF EntryInv, Untouched, Sound, TypeOK
<1>3. entity[i][e].attempts \in Nat /\ n \in Nat /\ n > 0 /\ n <= MaxAttempts
  BY <1>1, <1>2 DEF Row
<1>4. /\ x \in Row /\ n <= errors'[e]
      /\ entity' = [entity EXCEPT ![i] = [entity[i] EXCEPT ![e] = x]]
      /\ pc' = [pc EXCEPT ![i] = IF n = MaxAttempts THEN "dlq" ELSE "saveError"]
      /\ errors' \in [Event -> 0..MaxAttempts]
      /\ \A f \in Event : errors[f] <= errors'[f]
  BY <1>1, <1>2, CatchEffect
<1>5. TypeOK'
  BY <1>1, <1>4 DEF TypeOK
<1>6. /\ entity'[i][e] = x /\ pc'[i] = IF n = MaxAttempts THEN "dlq" ELSE "saveError"
      /\ \A j \in Instance \ {i} : pc'[j] = pc[j] /\ entity'[j] = entity[j]
      /\ \A f \in Event \ {e} : entity'[i][f] = entity[i][f]
  BY <1>1, <1>4 DEF TypeOK
<1>7. EntryInv(i, e)'
  <2>1. IsCurrent(i, e)'
    BY DEF IsCurrent
  <2>2. Sound(entity[i][e], e)'
    BY <1>1, <1>2, <1>3, <1>4, <1>6 DEF Sound
  <2>3. x.status # "none" /\ x.attempts > 0 /\ (n = MaxAttempts <=> x.status = "Failed")
    BY <1>2, <1>3
  <2> HIDE DEF x
  <2> QED
    BY <1>2, <1>6, <2>1, <2>2, <2>3 DEF EntryInv, Untouched
<1>8. EntityInv'
  BY <1>4, <1>5, <1>6, <1>7, CurrentStep
<1>9. RowInv' /\ Committed \subseteq Committed' /\ \A f \in Event : Fresh(f)' => Fresh(f)
  <2>1. CASE row' = row
    BY <1>1, <1>4, <1>5, <2>1, RowFrame DEF IInv, Committed, Fresh
  <2>2. CASE pc[i] = "save" /\ row' = [row EXCEPT ![e] = entity[i][e]]
    BY <1>4, <1>5, <2>2, WriteEffect DEF WriteRow
  <2> QED
    BY <2>1, <2>2
<1>10. OrderInv'
  BY <1>9, OrderKept
<1> QED
  BY <1>5, <1>8, <1>9, <1>10 DEF IInv

LEMMA PublishFailsStep ==
    ASSUME IInv, NEW i \in Instance, NEW e \in Event, PublishFails(i, e)
    PROVE  IInv'
<1>1. row \in [Event -> Row] /\ stream \subseteq Event /\ again \subseteq stream
  BY DEF IInv, TypeOK
<1>2. stream \subseteq stream' /\ stream' \subseteq Event /\ again' \subseteq stream'
  BY <1>1 DEF PublishFails, Append
<1>3. /\ IsCurrent(i, e) /\ pc[i] \in {"publish", "save"} /\ CatchError(i, e)
      /\ UNCHANGED <<dlq, timer, batch, cut, known, dlqError>> /\ row' = row
  BY DEF PublishFails
<1> QED
  BY <1>1, <1>2, <1>3, CatchStep

LEMMA SaveFailsStep ==
    ASSUME IInv, NEW i \in Instance, NEW e \in Event, SaveFails(i, e)
    PROVE  IInv'
<1>1. /\ row \in [Event -> Row] /\ stream \subseteq Event /\ again \subseteq stream
      /\ entity[i][e] \in Row
  BY DEF IInv, TypeOK
<1>2. /\ IsCurrent(i, e) /\ pc[i] = "save" /\ CatchError(i, e)
      /\ UNCHANGED <<dlq, timer, batch, cut, known, dlqError>>
      /\ stream' = stream /\ again' = again
  BY DEF SaveFails
<1>3. row' = row \/ row' = [row EXCEPT ![e] = entity[i][e]]
  BY DEF SaveFails, WriteRow
<1>4. row' \in [Event -> Row]
  BY <1>1, <1>3
<1> QED
  BY <1>1, <1>2, <1>3, <1>4, CatchStep

(* A save that succeeds, after which the loop goes on.                     *)
LEMMA DoneStep ==
    ASSUME IInv, NEW i \in Instance, NEW e \in Event, IsCurrent(i, e),
           pc[i] \in {"save", "saveError"}, WriteRow(i, e), NextEvent(i, e),
           UNCHANGED <<stream, again, dlq, timer, errors, cut, dlqError>>
    PROVE  IInv'
<1>1. TypeOK /\ NoRow \in Row /\ MaxAttempts \in Nat \ {0} /\ e \in batch[i]
  BY OutboxAssumption DEF IInv, NoRow, Row, IsCurrent
<1>2. TypeOK'
  <2>1. row' \in [Event -> Row] /\ batch' \in [Instance -> SUBSET Event]
    BY <1>1 DEF TypeOK, WriteRow, NextEvent
  <2>2. entity' \in [Instance -> [Event -> Row]] /\ known' \in [Instance -> SUBSET Event]
    BY <1>1 DEF TypeOK, NextEvent
  <2>3. pc' \in [Instance -> {"idle", "publish", "save", "dlq", "saveError", "down"}]
    BY <1>1 DEF TypeOK, NextEvent, Goto
  <2> QED
    BY <1>1, <2>1, <2>2, <2>3 DEF TypeOK
<1>3. \A f \in Event : errors[f] <= errors'[f]
  BY <1>1 DEF TypeOK
<1>4. RowInv' /\ Committed \subseteq Committed' /\ \A f \in Event : Fresh(f)' => Fresh(f)
  BY <1>2, <1>3, WriteEffect
<1>5. \A j \in Instance \ {i} :
        /\ pc'[j] = pc[j] /\ entity'[j] = entity[j]
        /\ batch'[j] = batch[j] /\ known'[j] = known[j]
  BY <1>1 DEF TypeOK, NextEvent, Goto
<1>6. /\ batch'[i] = batch[i] \ {e}
      /\ known'[i] = IF batch[i] = {e} THEN {} ELSE known[i]
      /\ pc'[i] = IF batch[i] = {e} THEN "idle" ELSE "publish"
      /\ entity'[i][e] = NoRow /\ \A f \in Event \ {e} : entity'[i][f] = entity[i][f]
  BY <1>1 DEF TypeOK, NextEvent, Goto
<1>7. EntityInv'
  <2> SUFFICES ASSUME NEW j \in Instance, NEW f \in Event PROVE EntryInv(j, f)'
    BY DEF EntityInv
  <2>1. EntryInv(j, f)
    BY DEF IInv, EntityInv
  <2>2. CASE j # i
    BY <1>1, <1>2, <1>3, <1>5, <2>1, <2>2, EntryFrame
  <2>3. CASE j = i /\ f = e
    <3>1. f \notin batch'[j] /\ entity'[j][f] = NoRow /\ errors'[f] \in Nat
      BY <1>1, <1>2, <1>6, <2>3 DEF TypeOK
    <3> QED
      BY <1>1, <3>1 DEF EntryInv, Untouched, Sound, NoRow
  <2>4. CASE j = i /\ f # e
    <3>1. entity'[i][f] = entity[i][f] /\ Sound(entity[i][f], f)'
      BY <1>6, <2>1, <2>4 DEF EntryInv, Sound
    <3>2. f \in batch'[i] => f \in batch[i] /\ known'[i] = known[i]
      BY <1>1, <1>6, <2>4
    <3>3. f \in batch[i] => f \in known[i] /\ entity[i][f].status = "Pending"
      BY <1>1, <2>1, <2>4, OneCurrent DEF EntryInv, Untouched
    <3> QED
      BY <1>6, <2>4, <3>1, <3>2, <3>3 DEF EntryInv, Untouched
  <2> QED
    BY <2>2, <2>3, <2>4
<1>8. OrderInv'
  <2> SUFFICES ASSUME NEW j \in Instance PROVE OrderAt(j)'
    BY DEF OrderInv
  <2>1. OrderAt(j) /\ known[j] \subseteq Event
    BY <1>1 DEF IInv, OrderInv, TypeOK
  <2>2. CASE j # i
    BY <1>4, <1>5, <2>1, <2>2, OrderFrame
  <2>3. CASE j = i
    <3>1. known'[i] \subseteq Committed'
      BY <1>4, <1>6, <2>1, <2>3 DEF OrderAt
    <3>2. ~Fresh(e)'
      <4>1. EntryInv(i, e)
        BY DEF IInv, EntityInv
      <4>2. row'[e] = entity[i][e]
        BY <1>1 DEF WriteRow, TypeOK
      <4> QED
        BY <1>1, <4>1, <4>2 DEF EntryInv, Fresh
    <3>3. \A f \in known'[i] \ batch'[i] : Fresh(f)' => \A g \in batch'[i] : g < f
      BY <1>4, <1>6, <2>1, <2>3, <3>2 DEF OrderAt
    <3> QED
      BY <2>3, <3>1, <3>3 DEF OrderAt
  <2> QED
    BY <2>2, <2>3
<1> QED
  BY <1>2, <1>4, <1>7, <1>8 DEF IInv

(* A cycle that is given up.                                               *)
LEMMA GiveUpStep ==
    ASSUME IInv, NEW i \in Instance, NEW label \in {"idle", "down"}, EndCycle(i, label),
           UNCHANGED <<stream, again, dlq, errors, dlqError>>,
           timer' \in [Instance -> BOOLEAN], cut' \subseteq Event, row' \in [Event -> Row],
           \/ row' = row
           \/ \E e \in Event : pc[i] = "saveError" /\ IsCurrent(i, e) /\ WriteRow(i, e)
    PROVE  IInv'
<1>1. TypeOK /\ NoRow \in Row /\ MaxAttempts \in Nat \ {0}
  BY OutboxAssumption DEF IInv, NoRow, Row
<1>2. TypeOK'
  <2>1. NoEntities \in [Event -> Row]
    BY <1>1 DEF NoEntities
  <2> QED
    BY <1>1, <2>1 DEF TypeOK, EndCycle, Goto
<1>3. \A f \in Event : errors[f] <= errors'[f]
  BY <1>1 DEF TypeOK
<1>4. RowInv' /\ Committed \subseteq Committed' /\ \A f \in Event : Fresh(f)' => Fresh(f)
  <2>1. CASE row' = row
    BY <1>1, <1>2, <1>3, <2>1, RowFrame DEF IInv, Committed, Fresh
  <2>2. CASE \E e \in Event : pc[i] = "saveError" /\ IsCurrent(i, e) /\ WriteRow(i, e)
    BY <1>2, <1>3, <2>2, WriteEffect
  <2> QED
    BY <2>1, <2>2
<1>5. \A j \in Instance \ {i} :
        /\ pc'[j] = pc[j] /\ entity'[j] = entity[j]
        /\ batch'[j] = batch[j] /\ known'[j] = known[j]
  BY <1>1 DEF TypeOK, EndCycle, Goto
<1>6. batch'[i] = {} /\ known'[i] = {} /\ entity'[i] = NoEntities
  BY <1>1 DEF TypeOK, EndCycle
<1>7. EntityInv'
  <2> SUFFICES ASSUME NEW j \in Instance, NEW f \in Event PROVE EntryInv(j, f)'
    BY DEF EntityInv
  <2>1. CASE j # i
    BY <1>1, <1>2, <1>3, <1>5, <2>1, EntryFrame DEF IInv, EntityInv
  <2>2. CASE j = i
    <3>1. f \notin batch'[j] /\ entity'[j][f] = NoRow /\ errors'[f] \in Nat
      BY <1>1, <1>2, <1>6, <2>2 DEF TypeOK, NoEntities
    <3> QED
      BY <1>1, <3>1 DEF EntryInv, Untouched, Sound, NoRow
  <2> QED
    BY <2>1, <2>2
<1>8. OrderInv'
  <2> SUFFICES ASSUME NEW j \in Instance PROVE OrderAt(j)'
    BY DEF OrderInv
  <2>1. CASE j # i
    <3>1. OrderAt(j) /\ known[j] \subseteq Event
      BY <1>1 DEF IInv, OrderInv, TypeOK
    <3> QED
      BY <1>4, <1>5, <2>1, <3>1, OrderFrame
  <2>2. CASE j = i
    BY <1>6, <2>2 DEF OrderAt
  <2> QED
    BY <2>1, <2>2
<1> QED
  BY <1>2, <1>4, <1>7, <1>8 DEF IInv

LEMMA SaveStep ==
    ASSUME IInv, NEW i \in Instance, NEW e \in Event, Save(i, e) \/ SaveError(i, e)
    PROVE  IInv'
<1>1. /\ IsCurrent(i, e) /\ pc[i] \in {"save", "saveError"}
      /\ WriteRow(i, e) /\ NextEvent(i, e)
      /\ UNCHANGED <<stream, again, dlq, timer, errors, cut, dlqError>>
  BY DEF Save, SaveError
<1> QED
  BY <1>1, DoneStep

LEMMA SaveErrorFailsStep ==
    ASSUME IInv, NEW i \in Instance, NEW e \in Event, SaveErrorFails(i, e)
    PROVE  IInv'
<1>1. /\ row \in [Event -> Row] /\ timer \in [Instance -> BOOLEAN] /\ cut \subseteq Event
      /\ entity[i][e] \in Row
  BY DEF IInv, TypeOK
<1>2. /\ EndCycle(i, "idle") /\ pc[i] = "saveError" /\ IsCurrent(i, e)
      /\ UNCHANGED <<stream, again, dlq, timer, errors, cut, dlqError>>
      /\ row' = row \/ WriteRow(i, e)
  BY DEF SaveErrorFails
<1>3. row' \in [Event -> Row]
  BY <1>1, <1>2 DEF WriteRow
<1> QED
  BY <1>1, <1>2, <1>3, GiveUpStep

LEMMA CrashStep ==
    ASSUME IInv, NEW i \in Instance, Crash(i)
    PROVE  IInv'
<1>1. row \in [Event -> Row] /\ timer \in [Instance -> BOOLEAN] /\ cut \subseteq Event
  BY DEF IInv, TypeOK
<1>2. /\ EndCycle(i, "down") /\ row' = row
      /\ UNCHANGED <<stream, again, dlq, errors, dlqError>>
      /\ timer' \in [Instance -> BOOLEAN] /\ cut' \subseteq Event
  BY <1>1 DEF Crash
<1> QED
  BY <1>1, <1>2, GiveUpStep

(* The event goes to the dead-letter stream, or its routing met an error.  *)
LEMMA RouteStep ==
    ASSUME IInv, NEW i \in Instance, NEW e \in Event, RouteToDlq(i, e) \/ RouteToDlqFails(i, e)
    PROVE  IInv'
<1>1. /\ TypeOK /\ EntryInv(i, e) /\ IsCurrent(i, e) /\ pc[i] = "dlq" /\ e \in batch[i]
      /\ MaxAttempts \in Nat \ {0}
  BY OutboxAssumption DEF IInv, EntityInv, RouteToDlq, RouteToDlqFails, IsCurrent
<1>2. /\ dlq \subseteq dlq' /\ dlqError \subseteq dlqError' /\ dlq' \cup dlqError' \subseteq Event
      /\ HasRedis => e \in dlq' \cup dlqError'
  BY <1>1 DEF RouteToDlq, RouteToDlqFails, TypeOK
<1>3. UNCHANGED <<row, stream, again, timer, batch, entity, errors, cut, known>>
  BY DEF RouteToDlq, RouteToDlqFails
<1>4. /\ pc' \in [Instance -> {"idle", "publish", "save", "dlq", "saveError", "down"}]
      /\ pc'[i] = "saveError" /\ \A j \in Instance \ {i} : pc'[j] = pc[j]
  BY <1>1 DEF RouteToDlq, RouteToDlqFails, TypeOK, Goto
<1>5. TypeOK'
  BY <1>1, <1>2, <1>3, <1>4 DEF TypeOK
<1>6. \A f \in Event : errors[f] <= errors'[f]
  BY <1>1, <1>3 DEF TypeOK
<1>7. EntryInv(i, e)'
  <2>1. IsCurrent(i, e)' /\ Sound(entity[i][e], e)'
    BY <1>1, <1>3 DEF IsCurrent, EntryInv, Sound
  <2> QED
    BY <1>1, <1>2, <1>3, <1>4, <2>1 DEF EntryInv, Untouched
<1>8. EntityInv'
  BY <1>1, <1>2, <1>3, <1>4, <1>5, <1>6, <1>7, CurrentStep
<1>9. RowInv'
  BY <1>1, <1>2, <1>3, <1>5, <1>6, RowFrame DEF IInv
<1>10. OrderInv'
  BY <1>3, OrderKept DEF Committed, Fresh
<1> QED
  BY <1>5, <1>8, <1>9, <1>10 DEF IInv

LEMMA TimerStep ==
    ASSUME IInv, NEW i \in Instance, Destroy(i) \/ Restart(i)
    PROVE  IInv'
<1>1. /\ UNCHANGED <<row, stream, again, dlq, batch, entity, errors, cut, known, dlqError>>
      /\ pc' = pc \/ (pc[i] = "down" /\ pc' = [pc EXCEPT ![i] = "idle"])
  BY DEF Destroy, Restart, Goto
<1>2. TypeOK'
  BY DEF IInv, TypeOK, Destroy, Restart, Goto
<1>3. EntityInv'
  <2> SUFFICES ASSUME NEW j \in Instance, NEW f \in Event PROVE EntryInv(j, f)'
    BY DEF EntityInv
  <2>1. EntryInv(j, f) /\ pc \in [Instance -> {"idle", "publish", "save", "dlq", "saveError", "down"}]
    BY DEF IInv, EntityInv, TypeOK
  <2>2. Sound(entity[j][f], f)' /\ (IsCurrent(j, f)' <=> IsCurrent(j, f))
    BY <1>1, <2>1 DEF EntryInv, Sound, IsCurrent
  <2>3. pc'[j] = pc[j] \/ (pc[j] = "down" /\ pc'[j] = "idle")
    BY <1>1, <2>1
  <2> QED
    BY <1>1, <2>1, <2>2, <2>3 DEF EntryInv, Untouched
<1>4. RowInv'
  BY <1>1 DEF IInv, RowInv, Sound
<1>5. OrderInv'
  BY <1>1, OrderKept DEF Committed, Fresh
<1> QED
  BY <1>2, <1>3, <1>4, <1>5 DEF IInv

LEMMA NextInvariant == IInv /\ [Next]_vars => IInv'
<1> SUFFICES ASSUME IInv, [Next]_vars PROVE IInv'
  OBVIOUS
<1>1. ASSUME NEW e \in Event, Insert(e) PROVE IInv'
  BY <1>1, InsertStep
<1>2. ASSUME NEW i \in Instance, Proceed(i) PROVE IInv'
  BY <1>2, PollStep, PublishStep, SaveStep, RouteStep, TimerStep DEF Proceed
<1>3. ASSUME NEW i \in Instance, Fail(i) PROVE IInv'
  BY <1>3, PublishFailsStep, SaveFailsStep, RouteStep, SaveErrorFailsStep, TimerStep, CrashStep
     DEF Fail
<1>4. CASE UNCHANGED vars
  BY <1>4 DEF vars, IInv, TypeOK, RowInv, EntityInv, EntryInv, Sound, Untouched, IsCurrent,
              OrderInv, OrderAt, Committed, Fresh
<1> QED
  BY <1>1, <1>2, <1>3, <1>4 DEF Next, PollNothing

-----------------------------------------------------------------------------
(* The invariant is inductive, whatever fails and however many replicas    *)
(* work on the table.  (OutboxPublisherService L35-96)                     *)
THEOREM InductiveInvariant == Spec => []IInv
<1> QED
  BY InitInvariant, NextInvariant, PTL DEF Spec

(* Every variable keeps its type.                                          *)
THEOREM TypeCorrect == Spec => []TypeOK
<1>1. IInv => TypeOK
  BY DEF IInv
<1> QED
  BY <1>1, InductiveInvariant, PTL

(* A row marked Published is in the stream.  (L50-61)                      *)
THEOREM PublishedIsDelivered == Spec => []PublishedWasDelivered
<1>1. IInv => PublishedWasDelivered
  BY DEF IInv, RowInv, Sound, PublishedWasDelivered
<1> QED
  BY <1>1, InductiveInvariant, PTL

(* No event is settled without a delivery or MAX_PUBLISH_ATTEMPTS errors.  *)
(* (L63-67)                                                                *)
THEOREM SettledByCause == Spec => []SettledWithCause
<1>1. IInv => SettledWithCause
  <2> SUFFICES ASSUME IInv, HasRedis, NEW e \in Event,
                      row[e].status \in {"Published", "Failed"}, e \notin stream
               PROVE  errors[e] = MaxAttempts
    BY DEF SettledWithCause
  <2>1. Sound(row[e], e) /\ errors[e] \in 0..MaxAttempts /\ MaxAttempts \in Nat
    BY OutboxAssumption DEF IInv, RowInv, TypeOK
  <2> QED
    BY <2>1 DEF Sound
<1> QED
  BY <1>1, InductiveInvariant, PTL

(* A Failed event is in the dead-letter stream, or its routing met an      *)
(* error.  (L66-85)                                                        *)
THEOREM DeadLettered == Spec => []FailedIsDeadLettered
<1>1. IInv => FailedIsDeadLettered
  BY DEF IInv, RowInv, FailedIsDeadLettered
<1> QED
  BY <1>1, InductiveInvariant, PTL

(* No replica publishes an event before an earlier one of which its query  *)
(* knew and which waits for its first attempt.  (L42-48, L85-88)           *)
THEOREM OldestGoesFirst == Spec => []NoOvertaking
<1>1. IInv => NoOvertaking
  <2> SUFFICES ASSUME IInv, NEW i \in Instance, NEW e \in Event, pc[i] = "publish",
                      IsCurrent(i, e), NEW f \in known[i], f < e, Fresh(f)
               PROVE  FALSE
    BY DEF NoOvertaking, Fresh
  <2>1. OrderAt(i) /\ e \in batch[i] /\ e \in Nat /\ f \in Nat
    BY OutboxAssumption DEF IInv, OrderInv, IsCurrent, TypeOK
  <2>2. CASE f \in batch[i]
    BY <2>1, <2>2 DEF IsCurrent
  <2>3. CASE f \notin batch[i]
    BY <2>1, <2>3 DEF OrderAt
  <2> QED
    BY <2>2, <2>3
<1> QED
  BY <1>1, InductiveInvariant, PTL

-----------------------------------------------------------------------------
(* What holds of a single replica: no one else writes the rows of its      *)
(* batch, so an event it may still publish or save as Published is Pending *)
(* in the table as well ...                                                *)
SoloInv ==
    \A i \in Instance : \A e \in batch[i] :
        entity[i][e].status = "Pending" \/ (pc[i] = "save" /\ IsCurrent(i, e))
            => row[e].status = "Pending"

(* ... and an event in the stream is in good hands, or something happened. *)
InHand(e) == \E i \in Instance : pc[i] = "save" /\ IsCurrent(i, e)

HadMishap(e) == errors[e] > 0 \/ e \in cut

OnceInv ==
    /\ \A e \in stream : HadMishap(e) \/ row[e].status = "Published" \/ InHand(e)
    /\ \A e \in again : HadMishap(e)

OneReplica == \A i, j \in Instance : i = j

LEMMA SoloStep ==
    ASSUME OneReplica, IInv, IInv', SoloInv, [Next]_vars
    PROVE  SoloInv'
<1> SUFFICES ASSUME NEW i \in Instance, NEW e \in batch'[i],
                    \/ entity'[i][e].status = "Pending"
                    \/ pc'[i] = "save" /\ IsCurrent(i, e)'
             PROVE  row'[e].status = "Pending"
  BY DEF SoloInv
<1>1. /\ TypeOK /\ TypeOK' /\ e \in Event /\ EntryInv(i, e)
      /\ e \in batch[i] /\ (entity[i][e].status = "Pending" \/ (pc[i] = "save" /\ IsCurrent(i, e)))
            => row[e].status = "Pending"
  BY DEF IInv, TypeOK, EntityInv, SoloInv
<1>2. ASSUME NEW f \in Event, Insert(f) PROVE row'[e].status = "Pending"
  <2>1. row[e].status = "Pending"
    BY <1>1, <1>2 DEF Insert, IsCurrent
  <2> QED
    BY <1>1, <1>2, <2>1 DEF Insert, TypeOK
<1>3. ASSUME Poll(i) PROVE row'[e].status = "Pending"
  <2>1. e \in FirstPending
    BY <1>1, <1>3 DEF Poll, TypeOK
  <2> QED
    BY <1>3, <2>1 DEF Poll, FirstPending, Pending
<1>4. ASSUME NEW f \in Event, Publish(i, f) PROVE row'[e].status = "Pending"
  <2>1. batch'[i] = batch[i] /\ row' = row /\ pc[i] = "publish"
    BY <1>4 DEF Publish
  <2>2. entity[i][e].status = "Pending"
    BY <1>1, <2>1 DEF EntryInv, Untouched
  <2> QED
    BY <1>1, <2>1, <2>2
<1>5. ASSUME NEW f \in Event, PublishFails(i, f) PROVE row'[e].status = "Pending"
  <2>1. batch'[i] = batch[i] /\ row' = row /\ pc[i] = "publish"
    BY <1>5 DEF PublishFails
  <2>2. entity[i][e].status = "Pending"
    BY <1>1, <2>1 DEF EntryInv, Untouched
  <2> QED
    BY <1>1, <2>1, <2>2
<1>6. ASSUME NEW f \in Event, SaveFails(i, f) PROVE row'[e].status = "Pending"
  <2>1. /\ batch'[i] = batch[i] /\ pc[i] = "save" /\ IsCurrent(i, f) /\ pc'[i] # "save"
        /\ \A g \in Event \ {f} : row'[g] = row[g] /\ entity'[i][g] = entity[i][g]
    BY <1>1, <1>6 DEF SaveFails, CatchError, Goto, WriteRow, TypeOK
  <2>2. e # f
    <3>1. entity[i][f].status = "Published" /\ entity'[i][f].status \in {"Published", "Failed"}
      <4>1. EntryInv(i, f)
        BY DEF IInv, EntityInv
      <4> QED
        BY <1>1, <1>6, <2>1, <4>1 DEF EntryInv, IsCurrent, SaveFails, CatchError, TypeOK, Row
    <3> QED
      BY <2>1, <3>1
  <2> QED
    BY <1>1, <2>1, <2>2
<1>7. ASSUME NEW f \in Event, Save(i, f) \/ SaveError(i, f) PROVE row'[e].status = "Pending"
  <2>1. /\ batch'[i] = batch[i] \ {f} /\ pc'[i] # "save"
        /\ \A g \in Event \ {f} : row'[g] = row[g] /\ entity'[i][g] = entity[i][g]
    BY <1>1, <1>7 DEF Save, SaveError, NextEvent, Goto, WriteRow, TypeOK
  <2> QED
    BY <1>1, <2>1
<1>8. ASSUME NEW f \in Event, RouteToDlq(i, f) \/ RouteToDlqFails(i, f)
      PROVE  row'[e].status = "Pending"
  <2>1. batch'[i] = batch[i] /\ row' = row /\ entity' = entity /\ pc'[i] = "saveError"
    BY <1>1, <1>8 DEF RouteToDlq, RouteToDlqFails, Goto, TypeOK
  <2> QED
    BY <1>1, <2>1
<1>9. ASSUME (\E f \in Event : SaveErrorFails(i, f)) \/ Crash(i) PROVE row'[e].status = "Pending"
  <2>1. batch'[i] = {}
    BY <1>1, <1>9 DEF SaveErrorFails, Crash, EndCycle, TypeOK
  <2> QED
    BY <2>1
<1>10. ASSUME Destroy(i) \/ Restart(i) PROVE row'[e].status = "Pending"
  <2>1. batch'[i] = batch[i] /\ row' = row /\ entity' = entity /\ (pc'[i] = pc[i] \/ pc'[i] = "idle")
    BY <1>1, <1>10 DEF Destroy, Restart, Goto, TypeOK
  <2>2. IsCurrent(i, e)' <=> IsCurrent(i, e)
    BY <2>1 DEF IsCurrent
  <2> QED
    BY <1>1, <2>1, <2>2
<1>11. ASSUME UNCHANGED vars PROVE row'[e].status = "Pending"
  BY <1>1, <1>11 DEF vars, IsCurrent
<1>12. ASSUME NEW j \in Instance, Proceed(j) PROVE row'[e].status = "Pending"
  <2>1. Proceed(i)
    BY <1>12 DEF OneReplica
  <2> QED
    BY <1>3, <1>4, <1>7, <1>8, <1>10, <2>1 DEF Proceed
<1>13. ASSUME NEW j \in Instance, Fail(j) PROVE row'[e].status = "Pending"
  <2>1. Fail(i)
    BY <1>13 DEF OneReplica
  <2> QED
    BY <1>5, <1>6, <1>8, <1>9, <1>10, <2>1 DEF Fail
<1> QED
  BY <1>2, <1>11, <1>12, <1>13 DEF Next, PollNothing

LEMMA OnceStep ==
    ASSUME OneReplica, IInv, IInv', SoloInv, OnceInv, [Next]_vars
    PROVE  OnceInv'
<1>1. /\ TypeOK /\ TypeOK' /\ MaxAttempts \in Nat \ {0}
      /\ errors \in [Event -> 0..MaxAttempts] /\ errors' \in [Event -> 0..MaxAttempts]
  BY OutboxAssumption DEF IInv, TypeOK
(* What a step has to show: the publications it makes, the events that     *)
(* leave its hands, and the rows that are no longer Published.             *)
<1> DEFINE Kept ==
             /\ \A e \in stream' :
                   e \notin stream \/ InHand(e) \/ row[e].status = "Published"
                      => HadMishap(e)' \/ row'[e].status = "Published" \/ InHand(e)'
             /\ \A e \in again' \ again : HadMishap(e)'
             /\ \A e \in Event : HadMishap(e) => HadMishap(e)'
<1>2. SUFFICES Kept
  BY <1>1 DEF OnceInv, TypeOK
<1>3. ASSUME NEW f \in Event, Insert(f) PROVE Kept
  <2>1. row[f].status = "none" /\ \A e \in Event \ {f} : row'[e] = row[e]
    BY <1>1, <1>3 DEF Insert, TypeOK
  <2> QED
    BY <1>1, <1>3, <2>1 DEF Insert, HadMishap, InHand, IsCurrent, TypeOK
<1>4. ASSUME NEW i \in Instance, NEW f \in Event, Publish(i, f) PROVE Kept
  <2>1. pc[i] = "publish" /\ IsCurrent(i, f) /\ row' = row /\ errors' = errors /\ cut' = cut
        /\ batch' = batch /\ pc'[i] = "save"
    BY <1>1, <1>4 DEF Publish, Goto, TypeOK
  <2>2. \A e \in Event : ~InHand(e)
    BY <2>1 DEF InHand, OneReplica
  <2>3. InHand(f)'
    BY <2>1 DEF InHand, IsCurrent
  <2>4. stream' \subseteq stream \cup {f} /\ again' \subseteq again \cup (stream \cap {f})
    BY <1>4 DEF Publish, Append
  <2>5. f \in stream => HadMishap(f)
    <3>1. row[f].status = "Pending"
      <4>1. EntryInv(i, f) /\ f \in batch[i]
        BY <2>1 DEF IInv, EntityInv, IsCurrent
      <4> QED
        BY <2>1, <4>1 DEF SoloInv, EntryInv, Untouched
    <3> QED
      BY <2>2, <3>1 DEF OnceInv
  <2> QED
    BY <1>1, <2>1, <2>2, <2>3, <2>4, <2>5 DEF HadMishap, TypeOK
<1>5. ASSUME NEW i \in Instance, NEW f \in Event, PublishFails(i, f) PROVE Kept
  <2>1. pc[i] = "publish" /\ row' = row /\ cut' = cut
    BY <1>5 DEF PublishFails
  <2>2. \A e \in Event : ~InHand(e)
    BY <2>1 DEF InHand, OneReplica
  <2>3. errors'[f] > 0 /\ \A e \in Event \ {f} : errors'[e] = errors[e]
    BY <1>1, <1>5 DEF PublishFails, CatchError, CountError
  <2>4. stream' \subseteq stream \cup {f} /\ again' \subseteq again \cup {f}
    BY <1>5 DEF PublishFails, Append
  <2> QED
    BY <1>1, <2>1, <2>2, <2>3, <2>4 DEF HadMishap, TypeOK
<1>6. ASSUME NEW i \in Instance, NEW f \in Event,
             Save(i, f) \/ SaveFails(i, f) \/ SaveError(i, f) \/ SaveErrorFails(i, f)
      PROVE  Kept
  <2>1. /\ stream' = stream /\ again' = again /\ cut' = cut
        /\ \A e \in Event \ {f} : row'[e] = row[e]
        /\ IsCurrent(i, f) /\ pc[i] \in {"save", "saveError"}
    BY <1>1, <1>6 DEF Save, SaveFails, SaveError, SaveErrorFails, WriteRow, TypeOK
  <2>2. \A e \in Event : InHand(e) => e = f
    BY <1>1, <2>1, OneCurrent DEF InHand, OneReplica, IsCurrent
  <2>3. \A e \in Event : errors[e] > 0 => errors'[e] > 0
    BY <1>1, <1>6 DEF Save, SaveFails, SaveError, SaveErrorFails, CatchError, CountError
  <2>4. HadMishap(f)' \/ row'[f].status = "Published"
    <3>1. EntryInv(i, f) /\ f \in batch[i] /\ entity[i][f].attempts \in Nat
      BY <1>1, <2>1 DEF IInv, EntityInv, IsCurrent, TypeOK, Row
    <3>2. CASE Save(i, f)
      <4>1. row'[f] = entity[i][f] /\ pc[i] = "save"
        BY <1>1, <3>2 DEF Save, WriteRow, TypeOK
      <4> QED
        BY <2>1, <3>1, <4>1 DEF EntryInv
    <3>3. CASE SaveFails(i, f)
      BY <1>1, <3>3 DEF SaveFails, CatchError, CountError, HadMishap
    <3>4. CASE SaveError(i, f) \/ SaveErrorFails(i, f)
      <4>1. entity[i][f].attempts > 0 /\ errors' = errors
        BY <2>1, <3>1, <3>4 DEF EntryInv, SaveError, SaveErrorFails
      <4> QED
        BY <1>1, <3>1, <4>1 DEF EntryInv, Sound, HadMishap
    <3> QED
      BY <1>6, <3>2, <3>3, <3>4
  <2> QED
    BY <1>1, <2>1, <2>2, <2>3, <2>4 DEF HadMishap, TypeOK
<1>7. ASSUME NEW i \in Instance, Poll(i) \/ Destroy(i) \/ Crash(i) \/ Restart(i)
                                 \/ \E f \in Event : RouteToDlq(i, f) \/ RouteToDlqFails(i, f)
      PROVE  Kept
  <2>1. /\ stream' = stream /\ again' = again /\ row' = row /\ errors' = errors
        /\ cut \subseteq cut'
    BY <1>7 DEF Poll, Destroy, Crash, Restart, RouteToDlq, RouteToDlqFails
  <2>2. \A e \in Event : InHand(e) => InHand(e)' \/ e \in cut'
    <3>1. CASE pc[i] # "save"
      BY <3>1 DEF InHand, OneReplica
    <3>2. CASE Destroy(i)
      BY <3>2 DEF Destroy, InHand, IsCurrent
    <3>3. CASE Crash(i)
      BY <3>3 DEF Crash, InHand, OneReplica
    <3> QED
      BY <1>7, <3>1, <3>2, <3>3 DEF Poll, Restart, RouteToDlq, RouteToDlqFails
  <2> QED
    BY <1>1, <2>1, <2>2 DEF HadMishap, TypeOK
<1>8. CASE UNCHANGED vars
  BY <1>8 DEF vars, HadMishap, InHand, IsCurrent
<1> QED
  BY <1>3, <1>4, <1>5, <1>6, <1>7, <1>8 DEF Next, PollNothing, Proceed, Fail

(* A single replica publishes an event once, unless it met an error or a   *)
(* process ended in the middle of it.  (L36-37, L59-61)                    *)
THEOREM Duplicates ==
    ASSUME OneReplica
    PROVE  Spec => []DuplicateOnlyAfterFault
<1>1. Init => SoloInv /\ OnceInv
  BY DEF Init, SoloInv, OnceInv
<1>2. IInv /\ IInv' /\ (SoloInv /\ OnceInv) /\ [Next]_vars => (SoloInv /\ OnceInv)'
  BY SoloStep, OnceStep
<1>3. SoloInv /\ OnceInv => DuplicateOnlyAfterFault
  BY DEF OnceInv, HadMishap, DuplicateOnlyAfterFault
<1> QED
  BY <1>1, <1>2, <1>3, InductiveInvariant, PTL DEF Spec

-----------------------------------------------------------------------------
(* The abstract state of an event, as the refinement mapping has it.       *)
Settled(e) == row[e].status \in {"Published", "Failed"}

State(e) == CASE row[e].status = "none"    -> "none"
              [] row[e].status = "Pending" -> "owed"
              [] OTHER                     -> "settled"

(* A step that works on one event the outbox owes does the abstract work.  *)
LEMMA WorkStep ==
    ASSUME TypeOK, TypeOK', NEW e \in Event, row[e].status = "Pending",
           \A f \in Event \ {e} : row'[f] = row[f],
           stream' \in {stream, stream \cup {e}},
           \/ errors' = errors
           \/ errors[e] < MaxAttempts /\ errors' = [errors EXCEPT ![e] = @ + 1],
           \/ row'[e].status = "Pending"
           \/ Settled(e)' /\ (e \in stream' \/ errors'[e] = MaxAttempts)
    PROVE  Promise!Next
<1> DEFINE s == [f \in Event |-> State(f)]
<1>1. s[e] = "owed" /\ \A f \in Event \ {e} : s'[f] = s[f]
  BY DEF State
<1>2. s' = s \/ ((e \in stream' \/ errors'[e] = MaxAttempts) /\ s' = [s EXCEPT ![e] = "settled"])
  <2>1. CASE row'[e].status = "Pending"
    <3>1. s'[e] = "owed"
      BY <2>1 DEF State
    <3> QED
      BY <1>1, <3>1
  <2>2. CASE Settled(e)' /\ (e \in stream' \/ errors'[e] = MaxAttempts)
    <3>1. s'[e] = "settled"
      BY <2>2 DEF State, Settled
    <3> QED
      BY <1>1, <2>2, <3>1
  <2> QED
    BY <2>1, <2>2
<1>3. Promise!Work(e)
  BY <1>1, <1>2 DEF Promise!Work, Promise!GroundsToSettle, State
<1> QED
  BY <1>3 DEF Promise!Next

(* A step that changes neither stream nor errors, and no status, stutters. *)
LEMMA Stutter ==
    ASSUME \A f \in Event : row'[f].status = row[f].status \/ (Settled(f) /\ Settled(f)'),
           stream' = stream, errors' = errors
    PROVE  UNCHANGED Promise!vars
<1>1. \A f \in Event : State(f)' = State(f)
  BY DEF State, Settled
<1> QED
  BY <1>1 DEF Promise!vars, State

LEMMA Simulation ==
    ASSUME OneReplica, HasRedis, IInv, IInv', SoloInv, [Next]_vars
    PROVE  [Promise!Next]_(Promise!vars)
<1>1. /\ TypeOK /\ TypeOK' /\ MaxAttempts \in Nat \ {0}
      /\ row \in [Event -> Row] /\ row' \in [Event -> Row]
      /\ errors \in [Event -> 0..MaxAttempts] /\ errors' \in [Event -> 0..MaxAttempts]
  BY OutboxAssumption DEF IInv, TypeOK
<1> DEFINE Simulated == Promise!Next \/ UNCHANGED Promise!vars
<1>2. ASSUME NEW e \in Event, Insert(e) PROVE Simulated
  <2> DEFINE s == [f \in Event |-> State(f)]
  <2>1. row'[e].status = "Pending" /\ \A f \in Event \ {e} : row'[f] = row[f]
    BY <1>1, <1>2 DEF Insert
  <2>2. s[e] = "none" /\ s' = [s EXCEPT ![e] = "owed"]
    BY <1>2, <2>1 DEF Insert, State
  <2>3. Promise!Store(e)
    BY <1>2, <2>2 DEF Promise!Store, Insert, State
  <2> QED
    BY <2>3 DEF Promise!Next
<1>3. ASSUME NEW i \in Instance, NEW e \in Event, Publish(i, e) \/ PublishFails(i, e)
      PROVE  Simulated
  <2>1. row' = row /\ IsCurrent(i, e) /\ pc[i] = "publish"
    BY <1>3 DEF Publish, PublishFails
  <2>2. row[e].status = "Pending"
    <3>1. EntryInv(i, e) /\ e \in batch[i]
      BY <2>1 DEF IInv, EntityInv, IsCurrent
    <3> QED
      BY <2>1, <3>1 DEF SoloInv, EntryInv, Untouched
  <2>3. stream' \in {stream, stream \cup {e}}
    BY <1>3 DEF Publish, PublishFails, Append
  <2>4. \/ errors' = errors
        \/ errors[e] < MaxAttempts /\ errors' = [errors EXCEPT ![e] = @ + 1]
    BY <1>1, <1>3 DEF Publish, PublishFails, CatchError, CountError
  <2> QED
    BY <1>1, <2>1, <2>2, <2>3, <2>4, WorkStep
<1>4. ASSUME NEW i \in Instance, NEW e \in Event, Save(i, e) \/ SaveFails(i, e)
      PROVE  Simulated
  <2>1. stream' = stream /\ IsCurrent(i, e) /\ pc[i] = "save" /\ (row' = row \/ WriteRow(i, e))
    BY <1>4 DEF Save, SaveFails
  <2>2. row[e].status = "Pending" /\ entity[i][e].status = "Published" /\ e \in stream
    <3>1. EntryInv(i, e) /\ e \in batch[i]
      BY <2>1 DEF IInv, EntityInv, IsCurrent
    <3> QED
      BY <2>1, <3>1 DEF SoloInv, EntryInv, Sound
  <2>3. \/ errors' = errors
        \/ errors[e] < MaxAttempts /\ errors' = [errors EXCEPT ![e] = @ + 1]
    BY <1>1, <1>4 DEF Save, SaveFails, CatchError, CountError
  <2>4. /\ row'[e] = row[e] \/ row'[e] = entity[i][e]
        /\ \A f \in Event \ {e} : row'[f] = row[f]
    BY <1>1, <2>1 DEF WriteRow
  <2> QED
    BY <1>1, <2>1, <2>2, <2>3, <2>4, WorkStep DEF Settled
<1>5. ASSUME NEW i \in Instance, NEW e \in Event, SaveError(i, e) \/ SaveErrorFails(i, e)
      PROVE  Simulated
  <2>1. /\ stream' = stream /\ errors' = errors /\ IsCurrent(i, e)
        /\ row' = row \/ WriteRow(i, e)
    BY <1>5 DEF SaveError, SaveErrorFails
  <2>2. /\ row'[e] = row[e] \/ row'[e] = entity[i][e]
        /\ \A f \in Event \ {e} : row'[f] = row[f]
    BY <1>1, <2>1 DEF WriteRow
  <2>3. EntryInv(i, e) /\ e \in batch[i] /\ entity[i][e] \in Row
    BY <1>1, <2>1 DEF IInv, EntityInv, IsCurrent, TypeOK
  <2>4. entity[i][e].status \in {"Pending", "Published", "Failed"}
    BY <2>3 DEF EntryInv, Row
  <2>5. CASE row'[e] = row[e] \/ row[e].status = entity[i][e].status
    BY <2>1, <2>2, <2>5, Stutter
  <2>6. CASE row'[e] = entity[i][e] /\ row[e].status = "Pending"
    <3>1. \/ entity[i][e].status = "Pending"
          \/ entity[i][e].status \in {"Published", "Failed"}
             /\ (e \in stream \/ errors[e] = MaxAttempts)
      BY <1>1, <2>3, <2>4 DEF EntryInv, Sound
    <3> QED
      BY <1>1, <2>1, <2>2, <2>6, <3>1, WorkStep DEF Settled
  <2>7. CASE row'[e] = entity[i][e] /\ row[e].status # "Pending"
    <3>1. entity[i][e].status # "Pending"
      BY <2>3, <2>7 DEF SoloInv
    <3>2. row[e].status # "none"
      <4>1. e \in Committed
        BY <2>3 DEF IInv, OrderInv, OrderAt, EntryInv
      <4> QED
        BY <4>1 DEF Committed
    <3> QED
      BY <1>1, <2>1, <2>2, <2>4, <2>7, <3>1, <3>2, Stutter DEF Settled, Row
  <2> QED
    BY <2>2, <2>5, <2>6, <2>7
<1>6. ASSUME NEW i \in Instance, Poll(i) \/ Destroy(i) \/ Crash(i) \/ Restart(i)
                                 \/ \E f \in Event : RouteToDlq(i, f) \/ RouteToDlqFails(i, f)
      PROVE  Simulated
  <2>1. stream' = stream /\ row' = row /\ errors' = errors
    BY <1>6 DEF Poll, Destroy, Crash, Restart, RouteToDlq, RouteToDlqFails
  <2> QED
    BY <2>1, Stutter
<1>7. CASE UNCHANGED vars
  BY <1>7, Stutter DEF vars
<1> QED
  BY <1>2, <1>3, <1>4, <1>5, <1>6, <1>7 DEF Next, PollNothing, Proceed, Fail

(* A single replica with a Redis client implements the abstract promise of *)
(* an outbox: what is stored is owed until it is settled, for good, after  *)
(* a delivery or MAX_PUBLISH_ATTEMPTS errors.  (L35-96)                    *)
THEOREM Implements ==
    ASSUME OneReplica, HasRedis
    PROVE  Spec => KeepsPromise
<1>1. Init => Promise!Init
  BY DEF Init, Promise!Init, NoRow
<1>2. Init => SoloInv
  BY DEF Init, SoloInv
<1>3. IInv /\ IInv' /\ SoloInv /\ [Next]_vars => SoloInv' /\ [Promise!Next]_(Promise!vars)
  BY SoloStep, Simulation
<1> QED
  BY <1>1, <1>2, <1>3, InductiveInvariant, PTL DEF Spec, KeepsPromise, Promise!Spec
=============================================================================
