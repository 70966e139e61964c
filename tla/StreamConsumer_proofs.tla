------------------------ MODULE StreamConsumer_proofs ------------------------
(***************************************************************************)
(* Theorems about StreamConsumer: for any number of instances and entries, *)
(* answers of any size and any faults.                                     *)
(***************************************************************************)
EXTENDS StreamConsumer, FiniteSetTheorems, TLAPS

-----------------------------------------------------------------------------
(* Sets of entries have a first and a last element.                        *)
LEMMA Smallest ==
    ASSUME NEW S \in SUBSET Nat, S # {}
    PROVE  \E m \in S : \A n \in S : m <= n
<1> DEFINE R == OpToRel(<, Nat)
<1>1. PICK m \in S : \A n \in S : <<n, m>> \notin R
  <2>1. IsWellFoundedOn(R, Nat)
    BY NatLessThanWellFounded
  <2> HIDE DEF R
  <2> QED
    BY <2>1, WFMin
<1>2. \A n \in S : ~(n < m)
  BY <1>1 DEF OpToRel
<1>3. \A n \in S : m <= n
  BY <1>2
<1> QED
  BY <1>3

LEMMA Largest ==
    ASSUME NEW S \in SUBSET Entry, S # {}
    PROVE  \E m \in S : \A n \in S : n <= m
<1> DEFINE T == {Last - n : n \in S}
<1>1. T \in SUBSET Nat /\ T # {}
  BY ConsumerAssumption DEF Entry
<1>2. PICK t \in T : \A u \in T : t <= u
  <2> HIDE DEF T
  <2> QED
    BY <1>1, Smallest
<1>3. PICK m \in S : t = Last - m
  BY <1>2
<1>4. \A n \in S : Last - m <= Last - n
  BY <1>2, <1>3
<1>5. \A n \in S : n <= m
  BY <1>4, ConsumerAssumption DEF Entry
<1> QED
  BY <1>5

(* An answer holds the first entries of a set, and at least one if there   *)
(* is one.                                                                 *)
LEMMA FirstOnes ==
    ASSUME NEW S \in SUBSET Entry
    PROVE  /\ First(S) \subseteq S
           /\ S # {} => First(S) # {}
           /\ \A m \in First(S) : \A n \in S : n < m => n \in First(S)
<1> DEFINE Below(m) == {n \in S : n < m}
<1>4. \A n \in S : n \in Nat
  BY ConsumerAssumption DEF Entry
<1>1. \A m \in S : IsFiniteSet(Below(m)) /\ Cardinality(Below(m)) \in Nat
  <2>1. IsFiniteSet(Entry)
    BY ConsumerAssumption, FS_Interval DEF Entry
  <2>2. \A m \in S : Below(m) \subseteq Entry
    OBVIOUS
  <2> QED
    BY <2>1, <2>2, FS_Subset, FS_CardinalityType
<1>2. ASSUME S # {} PROVE First(S) # {}
  <2>1. PICK m \in S : \A n \in S : m <= n
    BY <1>2, Smallest, ConsumerAssumption DEF Entry
  <2>2. Below(m) = {}
    BY <1>4, <2>1
  <2>3. Cardinality(Below(m)) = 0
    BY <2>2, FS_EmptySet
  <2> QED
    BY <2>1, <2>3, ConsumerAssumption DEF First
<1>3. ASSUME NEW m \in First(S), NEW n \in S, n < m PROVE n \in First(S)
  <2>1. m \in S /\ Cardinality(Below(m)) < Count
    BY <1>3 DEF First
  <2>2. Below(n) \subseteq Below(m)
    BY <1>3, <1>4, <2>1
  <2>3. Cardinality(Below(n)) <= Cardinality(Below(m))
    <3>1. IsFiniteSet(Below(m))
      BY <1>1, <2>1
    <3> HIDE DEF Below
    <3> QED
      BY <2>2, <3>1, FS_Subset
  <2>4. Cardinality(Below(n)) < Count
    BY <1>1, <1>3, <2>1, <2>3, ConsumerAssumption
  <2> QED
    BY <1>3, <2>4 DEF First
<1> QED
  BY <1>2, <1>3 DEF First

(* What a delivery delivers is all there is, up to the last of it.         *)
LEMMA Delivery ==
    ASSUME TypeOK, NEW i \in Instance, Deliver(i)
    PROVE  /\ delivered' \in delivered + 1 .. top
           /\ First(New) \subseteq delivered + 1 .. delivered'
           /\ delivered + 1 .. delivered' \subseteq First(New) \cup trimmed
           /\ First(New) # {}
           /\ pel' = [pel EXCEPT ![i] = @ \cup First(New)]
<1>1. New \in SUBSET Entry /\ New \subseteq delivered + 1 .. top
  BY ConsumerAssumption DEF TypeOK, New, Entry
<1>2. New # {} /\ pel' = [pel EXCEPT ![i] = @ \cup First(New)]
  BY DEF Deliver
<1>3. First(New) \subseteq New /\ First(New) # {}
  BY <1>1, <1>2, FirstOnes
<1>4. delivered' \in First(New) /\ \A n \in First(New) : n <= delivered'
  <2>1. \E m \in First(New) : \A n \in First(New) : n <= m
    BY <1>1, <1>3, Largest
  <2> QED
    BY <2>1 DEF Deliver
<1>6. delivered' \in delivered + 1 .. top /\ delivered \in Nat /\ top \in Nat
  <2>1. top \in Nat
    BY ConsumerAssumption DEF TypeOK
  <2>2. delivered \in Nat
    BY <2>1 DEF TypeOK
  <2> QED
    BY <1>1, <1>3, <1>4, <2>1, <2>2
<1>5. ASSUME NEW m \in delivered + 1 .. delivered', m \notin trimmed PROVE m \in First(New)
  <2>1. m \in New
    BY <1>1, <1>3, <1>4, <1>5 DEF New, TypeOK
  <2>2. m <= delivered' /\ m \in Nat /\ delivered' \in Nat
    BY <1>5, <1>6
  <2>3. CASE m = delivered'
    BY <1>4, <2>3
  <2>4. CASE m < delivered'
    BY <1>1, <1>4, <2>1, <2>4, FirstOnes
  <2> QED
    BY <2>2, <2>3, <2>4
<1>7. ASSUME NEW m \in First(New) PROVE m \in delivered + 1 .. delivered'
  <2>1. m \in delivered + 1 .. top /\ m <= delivered'
    BY <1>1, <1>3, <1>4
  <2> QED
    BY <1>6, <2>1
<1> QED
  BY <1>2, <1>3, <1>5, <1>6, <1>7

-----------------------------------------------------------------------------
(* Entries that are delivered are entries.                                 *)
LEMMA Bounds ==
    ASSUME TypeOK
    PROVE  /\ top \in Nat /\ delivered \in Nat /\ delivered <= top
           /\ \A x \in 1 .. top : x \in Entry
           /\ \A x \in 1 .. delivered : x \in Entry
           /\ \A x \in Entry : x \in Nat
<1>1. Last \in Nat /\ top \in 0 .. Last /\ delivered \in 0 .. top
  BY ConsumerAssumption DEF TypeOK
<1> QED
  BY <1>1 DEF Entry

-----------------------------------------------------------------------------
(* The inductive invariant, beside the types and the properties.           *)

(* The group exists once an instance has started, and remembers.           *)
GroupInv ==
    /\ \A i \in Instance : pc[i] # "down" => group
    /\ ~group => delivered = 0

(* An answer is dealt with in two places of the loop only, and holds       *)
(* entries that are pending for its instance.                              *)
BatchInv ==
    \A i \in Instance :
        /\ batch[i] \subseteq pel[i]
        /\ pc[i] \notin {"handle", "ack"} => batch[i] = {}

(* An entry is pending for one instance.                                   *)
Apart == \A i, j \in Instance : i # j => pel[i] \cap pel[j] = {}

(* What is about to be acknowledged has been handled.                      *)
AckInv ==
    \A i \in Instance : pc[i] = "ack" => \A m \in Entry : IsCurrent(i, m) => m \in handled

(* What is pending is being dealt with or has met with an error, ...       *)
PendingInv == \A i \in Instance : \A m \in pel[i] : m \in batch[i] \/ mishap[m] # {}

(* ... and what is pending although it was handled is being acknowledged   *)
(* or could not be.                                                        *)
HandledInv ==
    \A i \in Instance : \A m \in pel[i] \cap handled :
        "unacked" \in mishap[m] \/ (pc[i] = "ack" /\ IsCurrent(i, m))

Typed == TypeOK /\ GroupInv /\ BatchInv

IInv ==
    /\ Typed
    /\ Apart
    /\ AckInv
    /\ PendingInv
    /\ HandledInv
    /\ AckedWasHandled
    /\ DuplicateOnlyAfterMishap
    /\ OrderKept

-----------------------------------------------------------------------------
(* What the steps of instance i that deal with an answer, or drop it, have *)
(* in common.                                                              *)

Alone(i) ==
    \A j \in Instance \ {i} :
        pc'[j] = pc[j] /\ batch'[j] = batch[j] /\ empty'[j] = empty[j] /\ pel'[j] = pel[j]

Remembers ==
    /\ handled \subseteq handled'
    /\ tried \subseteq tried'
    /\ \A m \in Entry : mishap[m] \subseteq mishap'[m]

Works(i) ==
    /\ pc[i] # "down"
    /\ UNCHANGED <<stream, group, delivered>>
    /\ TypeOK'
    /\ Alone(i)
    /\ Remembers
    /\ batch'[i] \subseteq batch[i]
    /\ pel'[i] \subseteq pel[i]
    /\ batch'[i] \subseteq pel'[i]
    /\ pel[i] \ pel'[i] \subseteq handled' \cup Foreign
    /\ \A m \in (batch[i] \ batch'[i]) \cap pel'[i] : mishap'[m] # {}
    /\ pc'[i] \notin {"handle", "ack"} => batch'[i] = {}
    /\ pc'[i] = "ack" => \A m \in Entry : IsCurrent(i, m)' => m \in handled'
    /\ handled' \subseteq handled \cup batch[i]
    /\ \A m \in pel'[i] \cap handled' :
          "unacked" \in mishap'[m] \/ (pc'[i] = "ack" /\ IsCurrent(i, m)')
    /\ \A m \in twice' \ twice : "unacked" \in mishap'[m]
    /\ \A m \in tried' \ tried : IsCurrent(i, m)

LEMMA Suffering ==
    ASSUME TypeOK, NEW S, NEW what \in {"left", "unacked"}, Suffer(S, what)
    PROVE  /\ mishap' \in [Entry -> SUBSET {"left", "unacked"}]
           /\ \A m \in Entry : mishap[m] \subseteq mishap'[m]
           /\ \A m \in Entry : m \in S => what \in mishap'[m]
<1>1. \A m \in Entry : mishap'[m] = mishap[m] \cup (IF m \in S THEN {what} ELSE {})
  BY DEF Suffer
<1>2. \A m \in Entry : mishap[m] \in SUBSET {"left", "unacked"}
  BY DEF TypeOK
<1>3. mishap' = [m \in Entry |-> mishap'[m]]
  BY DEF Suffer
<1>4. \A m \in Entry : mishap'[m] \in SUBSET {"left", "unacked"}
  BY <1>1, <1>2
<1> QED
  BY <1>1, <1>3, <1>4

(* The entry at hand is done, ...                                          *)
LEMMA Advancing ==
    ASSUME Typed, NEW i \in Instance, NEW m \in Entry, m \in batch[i], NextEntry(i, m)
    PROVE  /\ pc' \in [Instance -> PCs]
           /\ batch' \in [Instance -> SUBSET Entry]
           /\ empty' \in [Instance -> SUBSET Entry]
           /\ \A j \in Instance : empty'[j] \subseteq batch'[j]
           /\ \A j \in Instance \ {i} :
                 pc'[j] = pc[j] /\ batch'[j] = batch[j] /\ empty'[j] = empty[j]
           /\ pc'[i] # "ack"
           /\ batch'[i] = batch[i] \ {m}
           /\ pc'[i] # "handle" => batch'[i] = {}
           /\ m \in pel[i] /\ pc[i] # "down"
<1>1. PICK label \in PCs :
         /\ Goto(i, label)
         /\ label # "ack"
         /\ label # "handle" => batch[i] = {m}
  <2>1. CASE batch[i] = {m}
    BY <2>1 DEF NextEntry, Loop, PCs
  <2>2. CASE batch[i] # {m}
    BY <2>2 DEF NextEntry, PCs
  <2> QED
    BY <2>1, <2>2
<1>2. /\ batch \in [Instance -> SUBSET Entry] /\ empty \in [Instance -> SUBSET Entry]
      /\ pc \in [Instance -> PCs] /\ \A j \in Instance : empty[j] \subseteq batch[j]
  BY DEF Typed, TypeOK
<1>3. /\ batch' = [batch EXCEPT ![i] = @ \ {m}] /\ empty' = [empty EXCEPT ![i] = @ \ {m}]
  BY DEF NextEntry
<1>4. pc' = [pc EXCEPT ![i] = label]
  BY <1>1 DEF Goto
<1>5. m \in pel[i] /\ pc[i] # "down"
  BY DEF Typed, BatchInv
<1>6. /\ batch' \in [Instance -> SUBSET Entry] /\ batch'[i] = batch[i] \ {m}
      /\ \A j \in Instance \ {i} : batch'[j] = batch[j]
  BY <1>2, <1>3
<1>7. /\ empty' \in [Instance -> SUBSET Entry] /\ empty'[i] = empty[i] \ {m}
      /\ \A j \in Instance \ {i} : empty'[j] = empty[j]
  BY <1>2, <1>3
<1>8. /\ pc' \in [Instance -> PCs] /\ pc'[i] = label
      /\ \A j \in Instance \ {i} : pc'[j] = pc[j]
  BY <1>2, <1>4
<1>9. \A j \in Instance : empty'[j] \subseteq batch'[j]
  BY <1>2, <1>6, <1>7
<1> QED
  BY <1>1, <1>5, <1>6, <1>7, <1>8, <1>9

(* ... or the rest of the answer is left.                                  *)
LEMMA Leaving ==
    ASSUME Typed, NEW i \in Instance, pc[i] # "down",
           NEW label \in PCs \ {"ack"}, Goto(i, label),
           batch' = [batch EXCEPT ![i] = {}], empty' = [empty EXCEPT ![i] = {}]
    PROVE  /\ pc' \in [Instance -> PCs]
           /\ batch' \in [Instance -> SUBSET Entry]
           /\ empty' \in [Instance -> SUBSET Entry]
           /\ \A j \in Instance : empty'[j] \subseteq batch'[j]
           /\ \A j \in Instance \ {i} :
                 pc'[j] = pc[j] /\ batch'[j] = batch[j] /\ empty'[j] = empty[j]
           /\ pc'[i] # "ack"
           /\ batch'[i] = {}
<1>1. /\ batch \in [Instance -> SUBSET Entry] /\ empty \in [Instance -> SUBSET Entry]
      /\ pc \in [Instance -> PCs] /\ \A j \in Instance : empty[j] \subseteq batch[j]
  BY DEF Typed, TypeOK
<1>2. pc' = [pc EXCEPT ![i] = label]
  BY DEF Goto
<1>3. /\ batch' \in [Instance -> SUBSET Entry] /\ batch'[i] = {}
      /\ \A j \in Instance \ {i} : batch'[j] = batch[j]
  BY <1>1
<1>4. /\ empty' \in [Instance -> SUBSET Entry] /\ empty'[i] = {}
      /\ \A j \in Instance \ {i} : empty'[j] = empty[j]
  BY <1>1
<1>5. /\ pc' \in [Instance -> PCs] /\ pc'[i] = label
      /\ \A j \in Instance \ {i} : pc'[j] = pc[j]
  BY <1>1, <1>2
<1>6. \A j \in Instance : empty'[j] \subseteq batch'[j]
  BY <1>1, <1>3, <1>4
<1> QED
  BY <1>3, <1>4, <1>5, <1>6

(* XACK takes the entry at hand from the pending list, or does not.        *)
LEMMA Acknowledging ==
    ASSUME Typed, NEW i \in Instance, NEW P \in SUBSET pel[i], pel' = [pel EXCEPT ![i] = P],
           delivered' = delivered
    PROVE  /\ pel' \in [Instance -> SUBSET (1 .. delivered')]
           /\ pel'[i] = P
           /\ \A j \in Instance \ {i} : pel'[j] = pel[j]
<1>1. pel \in [Instance -> SUBSET (1 .. delivered)]
  BY DEF Typed, TypeOK
<1> QED
  BY <1>1

-----------------------------------------------------------------------------
(* Each of these steps works on the answer of its instance.                *)

(* A step that is done with the entry at hand.                             *)
LEMMA DoneWith ==
    ASSUME IInv, NEW i \in Instance, NEW m \in Entry, IsCurrent(i, m), NextEntry(i, m),
           UNCHANGED <<stream, group, delivered, running, handled, twice>>,
           tried' \in {tried, tried \cup {m}},
           NEW P \in {pel[i], pel[i] \ {m}}, pel' = [pel EXCEPT ![i] = P],
           mishap' \in [Entry -> SUBSET {"left", "unacked"}],
           \A n \in Entry : mishap[n] \subseteq mishap'[n],
           P # pel[i] => m \in handled \cup Foreign,
           m \in P => mishap'[m] # {},
           m \in P \cap handled => "unacked" \in mishap'[m]
    PROVE  Works(i)
<1>1. Typed /\ TypeOK /\ m \in batch[i]
  BY DEF IInv, Typed, IsCurrent
<1>2. /\ pc' \in [Instance -> PCs]
      /\ batch' \in [Instance -> SUBSET Entry]
      /\ empty' \in [Instance -> SUBSET Entry]
      /\ \A j \in Instance : empty'[j] \subseteq batch'[j]
      /\ \A j \in Instance \ {i} :
            pc'[j] = pc[j] /\ batch'[j] = batch[j] /\ empty'[j] = empty[j]
      /\ pc'[i] # "ack"
      /\ batch'[i] = batch[i] \ {m}
      /\ pc'[i] # "handle" => batch'[i] = {}
      /\ m \in pel[i] /\ pc[i] # "down"
  BY <1>1, Advancing
<1>3. /\ pel' \in [Instance -> SUBSET (1 .. delivered')]
      /\ pel'[i] = P
      /\ \A j \in Instance \ {i} : pel'[j] = pel[j]
  BY <1>1, Acknowledging
<1>4. tried' \subseteq 1 .. delivered' /\ handled' \subseteq tried'
  BY <1>1, <1>2 DEF TypeOK
<1>5. TypeOK'
  BY <1>1, <1>2, <1>3, <1>4 DEF TypeOK, stream
<1>6. Alone(i) /\ Remembers
  BY <1>2, <1>3 DEF Alone, Remembers
<1>7. batch[i] \subseteq pel[i]
  BY <1>1 DEF Typed, BatchInv
<1>8. ASSUME NEW n \in pel'[i] \cap handled' PROVE "unacked" \in mishap'[n]
  <2>1. n \in pel[i] \cap handled /\ n \in Entry
    BY <1>1, <1>3, <1>8, Bounds DEF TypeOK
  <2>2. CASE n = m
    BY <1>3, <1>8, <2>2
  <2>3. CASE n # m
    <3>1. ~IsCurrent(i, n)
      <4>1. m \in Nat /\ n \in Nat
        BY <1>1, <2>1, Bounds
      <4> QED
        BY <2>3, <4>1 DEF IsCurrent
    <3> QED
      BY <2>1, <3>1 DEF IInv, HandledInv
  <2> QED
    BY <2>2, <2>3
<1> QED
  BY <1>1, <1>2, <1>3, <1>5, <1>6, <1>7, <1>8 DEF Works

LEMMA SkipWorks == ASSUME IInv, NEW i \in Instance, NEW m \in Entry, Skip(i, m) PROVE Works(i)
<1>1. pel[i] \ {m} \in {pel[i], pel[i] \ {m}} /\ pel' = [pel EXCEPT ![i] = pel[i] \ {m}]
  BY DEF Skip
<1>2. /\ IsCurrent(i, m) /\ NextEntry(i, m) /\ m \in Foreign
      /\ UNCHANGED <<stream, group, delivered, running, handled, twice>>
      /\ tried' \in {tried, tried \cup {m}} /\ mishap' = mishap
  BY DEF Skip, TakeUp
<1>3. mishap' \in [Entry -> SUBSET {"left", "unacked"}]
  BY <1>2 DEF IInv, Typed, TypeOK
<1> QED
  BY <1>1, <1>2, <1>3, DoneWith

LEMMA HandleFailsWorks ==
    ASSUME IInv, NEW i \in Instance, NEW m \in Entry, HandleFails(i, m) PROVE Works(i)
<1>1. /\ IsCurrent(i, m) /\ NextEntry(i, m) /\ pc[i] = "handle"
      /\ UNCHANGED <<stream, group, delivered, running, handled, twice>> /\ pel' = pel
      /\ tried' \in {tried, tried \cup {m}} /\ Suffer({m}, "left")
  BY DEF HandleFails, TakeUp
<1>2. /\ mishap' \in [Entry -> SUBSET {"left", "unacked"}]
      /\ \A n \in Entry : mishap[n] \subseteq mishap'[n]
      /\ "left" \in mishap'[m]
  BY <1>1, Suffering DEF IInv, Typed
<1>3. pel[i] \in {pel[i], pel[i] \ {m}} /\ pel' = [pel EXCEPT ![i] = pel[i]]
  BY <1>1 DEF IInv, Typed, TypeOK
<1>4. m \in pel[i] \cap handled => "unacked" \in mishap'[m]
  BY <1>1, <1>2 DEF IInv, HandledInv
<1> QED
  BY <1>1, <1>2, <1>3, <1>4, DoneWith

LEMMA AckWorks == ASSUME IInv, NEW i \in Instance, NEW m \in Entry, Ack(i, m) PROVE Works(i)
<1>1. pel[i] \ {m} \in {pel[i], pel[i] \ {m}} /\ pel' = [pel EXCEPT ![i] = pel[i] \ {m}]
  BY DEF Ack
<1>2. /\ IsCurrent(i, m) /\ NextEntry(i, m) /\ pc[i] = "ack"
      /\ UNCHANGED <<stream, group, delivered, running, handled, twice>>
      /\ tried' \in {tried, tried \cup {m}} /\ mishap' = mishap
  BY DEF Ack, history
<1>3. mishap' \in [Entry -> SUBSET {"left", "unacked"}]
  BY <1>2 DEF IInv, Typed, TypeOK
<1>4. m \in handled
  BY <1>2 DEF IInv, AckInv
<1> QED
  BY <1>1, <1>2, <1>3, <1>4, DoneWith

LEMMA AckFailsWorks ==
    ASSUME IInv, NEW i \in Instance, NEW m \in Entry, AckFails(i, m) PROVE Works(i)
<1>1. /\ IsCurrent(i, m) /\ NextEntry(i, m) /\ pc[i] = "ack"
      /\ UNCHANGED <<stream, group, delivered, running, handled, twice>>
      /\ tried' \in {tried, tried \cup {m}} /\ Suffer({m}, "unacked")
  BY DEF AckFails
<1>2. /\ mishap' \in [Entry -> SUBSET {"left", "unacked"}]
      /\ \A n \in Entry : mishap[n] \subseteq mishap'[n]
      /\ "unacked" \in mishap'[m]
  BY <1>1, Suffering DEF IInv, Typed
<1>3. PICK P \in {pel[i], pel[i] \ {m}} : pel' = [pel EXCEPT ![i] = P]
  BY DEF AckFails, IInv, Typed, TypeOK
<1>4. m \in handled
  BY <1>1 DEF IInv, AckInv
<1> QED
  BY <1>1, <1>2, <1>3, <1>4, DoneWith

(* A step that leaves the rest of the answer.                              *)
LEMMA GivenUp ==
    ASSUME IInv, NEW i \in Instance, pc[i] # "down",
           NEW label \in PCs \ {"ack", "handle"}, Goto(i, label),
           batch' = [batch EXCEPT ![i] = {}], empty' = [empty EXCEPT ![i] = {}],
           UNCHANGED <<stream, group, delivered, handled, twice>>,
           running' \in [Instance -> BOOLEAN],
           tried \subseteq tried', tried' \subseteq 1 .. delivered,
           \A m \in tried' \ tried : IsCurrent(i, m),
           NEW P \in SUBSET pel[i], pel' = [pel EXCEPT ![i] = P],
           mishap' \in [Entry -> SUBSET {"left", "unacked"}],
           \A n \in Entry : mishap[n] \subseteq mishap'[n],
           pel[i] \ P \subseteq handled \cup Foreign,
           \A m \in batch[i] : mishap'[m] # {},
           \A m \in Entry : pc[i] = "ack" /\ IsCurrent(i, m) => "unacked" \in mishap'[m]
    PROVE  Works(i)
<1>1. Typed /\ TypeOK
  BY DEF IInv, Typed
<1>2. /\ pc' \in [Instance -> PCs]
      /\ batch' \in [Instance -> SUBSET Entry]
      /\ empty' \in [Instance -> SUBSET Entry]
      /\ \A j \in Instance : empty'[j] \subseteq batch'[j]
      /\ \A j \in Instance \ {i} :
            pc'[j] = pc[j] /\ batch'[j] = batch[j] /\ empty'[j] = empty[j]
      /\ pc'[i] # "ack"
      /\ batch'[i] = {}
  BY <1>1, Leaving
<1>3. /\ pel' \in [Instance -> SUBSET (1 .. delivered')]
      /\ pel'[i] = P
      /\ \A j \in Instance \ {i} : pel'[j] = pel[j]
  BY <1>1, Acknowledging
<1>4. handled' \subseteq tried' /\ tried' \subseteq 1 .. delivered'
  BY <1>1 DEF TypeOK
<1>5. TypeOK'
  BY <1>1, <1>2, <1>3, <1>4 DEF TypeOK, stream
<1>6. Alone(i) /\ Remembers
  BY <1>2, <1>3 DEF Alone, Remembers
<1>7. ASSUME NEW n \in pel'[i] \cap handled' PROVE "unacked" \in mishap'[n]
  <2>1. n \in pel[i] \cap handled /\ n \in Entry
    BY <1>1, <1>3, <1>7, Bounds DEF TypeOK
  <2> QED
    BY <2>1 DEF IInv, HandledInv
<1> QED
  BY <1>2, <1>3, <1>5, <1>6, <1>7 DEF Works

LEMMA MeetEmptyWorks ==
    ASSUME IInv, NEW i \in Instance, NEW m \in Entry, MeetEmpty(i, m) PROVE Works(i)
<1>1. /\ pc[i] = "handle" /\ Suffer(batch[i], "left")
      /\ batch' = [batch EXCEPT ![i] = {}] /\ empty' = [empty EXCEPT ![i] = {}]
      /\ UNCHANGED <<stream, group, delivered, pel, running, handled, twice, tried>>
  BY DEF MeetEmpty, Abandon
<1>2. PICK label \in PCs \ {"ack", "handle"} : Goto(i, label)
  BY DEF MeetEmpty, Abandon, PCs
<1>3. TypeOK
  BY DEF IInv, Typed
<1>4. /\ mishap' \in [Entry -> SUBSET {"left", "unacked"}]
      /\ \A n \in Entry : mishap[n] \subseteq mishap'[n]
      /\ \A n \in batch[i] : "left" \in mishap'[n]
  BY <1>1, <1>3, Suffering DEF TypeOK
<1>5. /\ pel[i] \in SUBSET pel[i] /\ pel' = [pel EXCEPT ![i] = pel[i]]
      /\ running' \in [Instance -> BOOLEAN] /\ tried' = tried /\ tried \subseteq 1 .. delivered
  BY <1>1, <1>3 DEF TypeOK
<1> QED
  BY <1>1, <1>2, <1>4, <1>5, GivenUp

LEMMA SkipFailsWorks ==
    ASSUME IInv, NEW i \in Instance, NEW m \in Entry, SkipFails(i, m) PROVE Works(i)
<1>1. /\ pc[i] = "handle" /\ Suffer(batch[i], "left") /\ IsCurrent(i, m) /\ m \in Foreign
      /\ batch' = [batch EXCEPT ![i] = {}] /\ empty' = [empty EXCEPT ![i] = {}]
      /\ UNCHANGED <<stream, group, delivered, running, handled, twice>>
      /\ tried' = tried \cup {m}
  BY DEF SkipFails, Abandon, TakeUp
<1>2. PICK label \in PCs \ {"ack", "handle"} : Goto(i, label)
  BY DEF SkipFails, Abandon, PCs
<1>3. TypeOK
  BY DEF IInv, Typed
<1>4. /\ mishap' \in [Entry -> SUBSET {"left", "unacked"}]
      /\ \A n \in Entry : mishap[n] \subseteq mishap'[n]
      /\ \A n \in batch[i] : "left" \in mishap'[n]
  BY <1>1, <1>3, Suffering DEF TypeOK
<1>5. running' \in [Instance -> BOOLEAN] /\ tried' \subseteq 1 .. delivered
  BY <1>1, <1>3 DEF TypeOK, IInv, Typed, BatchInv, IsCurrent
<1>6. PICK P \in SUBSET pel[i] : pel' = [pel EXCEPT ![i] = P] /\ pel[i] \ P \subseteq {m}
  <2>1. pel' = [pel EXCEPT ![i] = pel[i]] \/ pel' = [pel EXCEPT ![i] = pel[i] \ {m}]
    BY <1>3 DEF SkipFails, TypeOK
  <2> QED
    BY <2>1
<1>7. \A n \in tried' \ tried : IsCurrent(i, n)
  BY <1>1
<1> QED
  BY <1>1, <1>2, <1>4, <1>5, <1>6, <1>7, GivenUp

LEMMA EndWorks == ASSUME IInv, NEW i \in Instance, End(i) PROVE Works(i)
<1> DEFINE befalls(m) == IF pc[i] = "ack" /\ IsCurrent(i, m) THEN {"unacked"}
                         ELSE IF m \in batch[i] THEN {"left"} ELSE {}
<1>1. /\ pc[i] # "down" /\ Goto(i, "down")
      /\ batch' = [batch EXCEPT ![i] = {}] /\ empty' = [empty EXCEPT ![i] = {}]
      /\ UNCHANGED <<stream, group, delivered, pel, handled, twice, tried>>
      /\ running' = [running EXCEPT ![i] = FALSE]
      /\ mishap' = [m \in Entry |-> mishap[m] \cup befalls(m)]
  BY DEF End
<1>2. "down" \in PCs \ {"ack", "handle"}
  BY DEF PCs
<1>3. TypeOK
  BY DEF IInv, Typed
<1>4. /\ mishap' \in [Entry -> SUBSET {"left", "unacked"}]
      /\ \A n \in Entry : mishap[n] \subseteq mishap'[n]
      /\ \A n \in Entry : n \in batch[i] => mishap'[n] # {}
      /\ \A n \in Entry : pc[i] = "ack" /\ IsCurrent(i, n) => "unacked" \in mishap'[n]
  <2>1. \A n \in Entry : befalls(n) \in SUBSET {"left", "unacked"}
    OBVIOUS
  <2>2. \A n \in Entry : mishap[n] \in SUBSET {"left", "unacked"}
    BY <1>3 DEF TypeOK
  <2>3. \A n \in Entry : n \in batch[i] => befalls(n) # {}
    OBVIOUS
  <2>4. \A n \in Entry : pc[i] = "ack" /\ IsCurrent(i, n) => "unacked" \in befalls(n)
    OBVIOUS
  <2> HIDE DEF befalls
  <2>5. \A n \in Entry : mishap'[n] = mishap[n] \cup befalls(n)
    BY <1>1
  <2>6. mishap' \in [Entry -> SUBSET {"left", "unacked"}]
    BY <1>1, <2>1, <2>2
  <2> QED
    BY <2>3, <2>4, <2>5, <2>6
<1>5. /\ pel[i] \in SUBSET pel[i] /\ pel' = [pel EXCEPT ![i] = pel[i]]
      /\ running' \in [Instance -> BOOLEAN] /\ tried' = tried /\ tried \subseteq 1 .. delivered
      /\ batch[i] \subseteq Entry
  BY <1>1, <1>3 DEF TypeOK
<1> QED
  BY <1>1, <1>2, <1>4, <1>5, GivenUp

LEMMA HandleWorks ==
    ASSUME IInv, NEW i \in Instance, NEW m \in Entry, Handle(i, m) PROVE Works(i)
<1>1. /\ pc[i] = "handle" /\ IsCurrent(i, m) /\ pc' = [pc EXCEPT ![i] = "ack"]
      /\ handled' = handled \cup {m} /\ twice' = twice \cup (handled \cap {m})
      /\ tried' = tried \cup {m}
      /\ UNCHANGED <<stream, group, delivered, pel, running, batch, empty, mishap>>
  BY DEF Handle, TakeUp, Goto
<1>2. TypeOK /\ m \in batch[i] /\ batch[i] \subseteq pel[i] /\ i \in Instance
  BY <1>1 DEF IInv, Typed, BatchInv, IsCurrent
<1>3. /\ pc' \in [Instance -> PCs] /\ pc'[i] = "ack"
      /\ \A j \in Instance \ {i} : pc'[j] = pc[j]
  BY <1>1, <1>2 DEF TypeOK, PCs
<1>4. m \in 1 .. delivered
  BY <1>2 DEF TypeOK
<1>5. TypeOK'
  BY <1>1, <1>2, <1>3, <1>4 DEF TypeOK, stream
<1>6. Alone(i) /\ Remembers
  BY <1>1, <1>3 DEF Alone, Remembers
<1>7. \A n \in Entry : IsCurrent(i, n)' <=> IsCurrent(i, n)
  BY <1>1 DEF IsCurrent
<1>8. ASSUME NEW n \in Entry, IsCurrent(i, n) PROVE n = m
  <2>1. m \in Nat /\ n \in Nat /\ m <= n /\ n <= m
    BY <1>1, <1>2, <1>8, Bounds DEF IsCurrent
  <2> QED
    BY <2>1
<1>9. \A n \in pel[i] \cap handled : "unacked" \in mishap[n]
  BY <1>1 DEF IInv, HandledInv
<1>10. \A n \in twice' \ twice : "unacked" \in mishap'[n]
  BY <1>1, <1>2, <1>9
<1>11. \A n \in pel'[i] \cap handled' : "unacked" \in mishap'[n] \/ IsCurrent(i, n)'
  BY <1>1, <1>7, <1>9
<1>12. \A n \in Entry : IsCurrent(i, n)' => n \in handled'
  BY <1>1, <1>7, <1>8
<1> QED
  BY <1>1, <1>2, <1>3, <1>5, <1>6, <1>10, <1>11, <1>12 DEF Works

-----------------------------------------------------------------------------
(* Such a step keeps the invariant.                                        *)
LEMMA WorkKeeps == ASSUME IInv, NEW i \in Instance, Works(i) PROVE IInv'
<1>1. Typed /\ TypeOK /\ TypeOK'
  BY DEF IInv, Typed, Works
<1>2. /\ top' = top /\ trimmed' = trimmed /\ group' = group /\ delivered' = delivered
      /\ pc[i] # "down"
  BY DEF Works, stream
<1>3. \A j \in Instance \ {i} :
          pc'[j] = pc[j] /\ batch'[j] = batch[j] /\ empty'[j] = empty[j] /\ pel'[j] = pel[j]
  BY DEF Works, Alone
<1>4. /\ handled \subseteq handled' /\ tried \subseteq tried'
      /\ \A m \in Entry : mishap[m] \subseteq mishap'[m]
  BY DEF Works, Remembers
<1>5. /\ batch'[i] \subseteq batch[i] /\ pel'[i] \subseteq pel[i]
      /\ batch[i] \subseteq pel[i]
  BY <1>1 DEF Works, Typed, BatchInv
<1>6. \A j \in Instance : pel[j] \subseteq Entry
  BY <1>1, Bounds DEF TypeOK
<1>7. \A j \in Instance \ {i} : pel[j] \cap pel[i] = {}
  BY DEF IInv, Apart
<1>8. GroupInv'
  BY <1>1, <1>2, <1>3 DEF Typed, GroupInv
<1>9. BatchInv'
  BY <1>1, <1>3 DEF Typed, BatchInv, Works
<1>10. Apart'
  BY <1>3, <1>5 DEF IInv, Apart
<1>11. ASSUME NEW j \in Instance \ {i}, NEW m PROVE IsCurrent(j, m)' <=> IsCurrent(j, m)
  BY <1>3 DEF IsCurrent
<1>12. AckInv'
  <2>1. ASSUME NEW j \in Instance \ {i}, pc'[j] = "ack", NEW m \in Entry, IsCurrent(j, m)'
        PROVE  m \in handled'
    BY <1>3, <1>4, <1>11, <2>1 DEF IInv, AckInv
  <2>2. pc'[i] = "ack" => \A m \in Entry : IsCurrent(i, m)' => m \in handled'
    BY DEF Works
  <2> QED
    BY <2>1, <2>2 DEF AckInv
<1>13. PendingInv'
  <2>1. ASSUME NEW j \in Instance \ {i}, NEW m \in pel'[j] PROVE m \in batch'[j] \/ mishap'[m] # {}
    <3>1. m \in pel[j] /\ m \in Entry
      BY <1>3, <1>6, <2>1
    <3> QED
      BY <1>3, <1>4, <3>1 DEF IInv, PendingInv
  <2>2. ASSUME NEW m \in pel'[i] PROVE m \in batch'[i] \/ mishap'[m] # {}
    <3>1. m \in pel[i] /\ m \in Entry
      BY <1>5, <1>6, <2>2
    <3>2. m \in batch[i] \/ mishap'[m] # {}
      BY <1>4, <3>1 DEF IInv, PendingInv
    <3> QED
      BY <2>2, <3>2 DEF Works
  <2> QED
    BY <2>1, <2>2 DEF PendingInv
<1>14. HandledInv'
  <2>1. ASSUME NEW j \in Instance \ {i}, NEW m \in pel'[j] \cap handled'
        PROVE  "unacked" \in mishap'[m] \/ (pc'[j] = "ack" /\ IsCurrent(j, m)')
    <3>1. m \in pel[j] /\ m \in Entry /\ m \notin pel[i]
      BY <1>3, <1>6, <1>7, <2>1
    <3>2. m \in handled
      BY <1>5, <2>1, <3>1 DEF Works
    <3> QED
      BY <1>3, <1>4, <1>11, <3>1, <3>2 DEF IInv, HandledInv
  <2>2. \A m \in pel'[i] \cap handled' :
            "unacked" \in mishap'[m] \/ (pc'[i] = "ack" /\ IsCurrent(i, m)')
    BY DEF Works
  <2> QED
    BY <2>1, <2>2 DEF HandledInv
<1>15. AckedWasHandled'
  <2> SUFFICES ASSUME NEW m \in 1 .. delivered', \A j \in Instance : m \notin pel'[j]
               PROVE  m \in handled' \cup Foreign \cup trimmed'
    BY DEF AckedWasHandled
  <2>1. CASE m \in pel[i]
    BY <2>1 DEF Works
  <2>2. CASE m \notin pel[i]
    BY <1>2, <1>3, <1>4, <2>2 DEF IInv, AckedWasHandled
  <2> QED
    BY <2>1, <2>2
<1>16. DuplicateOnlyAfterMishap'
  <2> SUFFICES ASSUME NEW m \in twice' PROVE "unacked" \in mishap'[m]
    BY DEF DuplicateOnlyAfterMishap
  <2>1. CASE m \in twice
    <3>1. m \in Entry
      BY <1>1, <2>1, Bounds DEF TypeOK
    <3> QED
      BY <1>4, <2>1, <3>1 DEF IInv, DuplicateOnlyAfterMishap
  <2>2. CASE m \notin twice
    BY <2>2 DEF Works
  <2> QED
    BY <2>1, <2>2
<1>17. OrderKept'
  <2> SUFFICES ASSUME NEW j \in Instance, NEW m \in pel'[j] \cap tried',
                      NEW n \in pel'[j] \ tried', n < m
               PROVE  mishap'[n] # {}
    BY DEF OrderKept
  <2>1. m \in pel[j] /\ n \in pel[j] /\ n \notin tried /\ n \in Entry /\ m \in Entry
    BY <1>3, <1>4, <1>5, <1>6
  <2>2. CASE m \in tried
    BY <1>4, <2>1, <2>2 DEF IInv, OrderKept
  <2>3. CASE m \notin tried
    <3>1. IsCurrent(i, m)
      BY <2>3 DEF Works
    <3>2. j = i
      BY <1>5, <1>7, <2>1, <3>1 DEF IsCurrent
    <3>3. n \notin batch[i]
      <4>1. m \in Nat /\ n \in Nat
        BY <1>1, <2>1, Bounds
      <4> QED
        BY <3>1, <4>1 DEF IsCurrent
    <3>4. mishap[n] # {}
      BY <2>1, <3>2, <3>3 DEF IInv, PendingInv
    <3> QED
      BY <1>4, <2>1, <3>4
  <2> QED
    BY <2>2, <2>3
<1> QED
  BY <1>1, <1>8, <1>9, <1>10, <1>12, <1>13, <1>14, <1>15, <1>16, <1>17 DEF IInv, Typed

-----------------------------------------------------------------------------
(* The other steps.                                                        *)

(* No answer comes, goes or is worked on.                                  *)
LEMMA QuietKeeps ==
    ASSUME IInv, TypeOK', GroupInv',
           UNCHANGED <<pel, batch, history>>, delivered' = delivered,
           trimmed \subseteq trimmed',
           \A i \in Instance : pc'[i] # pc[i] => {pc[i], pc'[i]} \cap {"handle", "ack"} = {}
    PROVE  IInv'
<1>1. /\ handled' = handled /\ twice' = twice /\ tried' = tried /\ mishap' = mishap
      /\ pel' = pel /\ batch' = batch
  BY DEF history
<1>2. \A i \in Instance : pc'[i] = "ack" <=> pc[i] = "ack"
  OBVIOUS
<1>3. \A i \in Instance : pc'[i] \notin {"handle", "ack"} => pc[i] \notin {"handle", "ack"}
  OBVIOUS
<1>4. \A i \in Instance : \A m : IsCurrent(i, m)' <=> IsCurrent(i, m)
  BY <1>1 DEF IsCurrent
<1>5. BatchInv'
  BY <1>1, <1>3 DEF IInv, Typed, BatchInv
<1>6. Apart' /\ PendingInv'
  BY <1>1 DEF IInv, Apart, PendingInv
<1>7. AckInv'
  BY <1>1, <1>2, <1>4 DEF IInv, AckInv
<1>8. HandledInv'
  BY <1>1, <1>2, <1>4 DEF IInv, HandledInv
<1>9. AckedWasHandled'
  BY <1>1 DEF IInv, AckedWasHandled
<1>10. DuplicateOnlyAfterMishap' /\ OrderKept'
  BY <1>1 DEF IInv, DuplicateOnlyAfterMishap, OrderKept
<1> QED
  BY <1>5, <1>6, <1>7, <1>8, <1>9, <1>10 DEF IInv, Typed

LEMMA AddKeeps == ASSUME IInv, Add PROVE IInv'
<1>1. TypeOK
  BY DEF IInv, Typed
<1>2. top' \in 0 .. Last /\ top' = top + 1
  BY <1>1, ConsumerAssumption DEF TypeOK, Add
<1>3. TypeOK'
  BY <1>1, <1>2, Bounds DEF Add, history, TypeOK
<1>4. GroupInv'
  BY DEF IInv, Typed, GroupInv, Add
<1> QED
  BY <1>3, <1>4, QuietKeeps DEF Add

LEMMA TrimKeeps == ASSUME IInv, NEW m \in Entry, Trim(m) PROVE IInv'
<1>1. TypeOK' /\ GroupInv'
  BY DEF IInv, Typed, Trim, history, TypeOK, GroupInv
<1> QED
  BY <1>1, QuietKeeps DEF Trim

LEMMA LoopKeeps ==
    ASSUME IInv, NEW i \in Instance,
           Start(i) \/ ReadNoMore(i) \/ Resume(i) \/ Stop(i) \/ ReadNothing(i)
    PROVE  IInv'
<1>1. TypeOK /\ GroupInv
  BY DEF IInv, Typed
<1>2. UNCHANGED <<stream, pel, batch, empty, history>>
  BY DEF Start, ReadNoMore, Resume, ReadNothing, Stop, vars
<1>3. delivered' = delivered
  BY <1>1 DEF Start, ReadNoMore, Resume, ReadNothing, Stop, vars, GroupInv
<1>4. /\ group' \in BOOLEAN /\ pc' \in [Instance -> PCs] /\ running' \in [Instance -> BOOLEAN]
      /\ \A j \in Instance : pc'[j] # "down" => group'
      /\ ~group' => ~group
      /\ \A j \in Instance : pc'[j] # pc[j] => {pc[j], pc'[j]} \cap {"handle", "ack"} = {}
  BY <1>1 DEF Start, ReadNoMore, Resume, ReadNothing, Stop, vars, Goto, GroupInv, TypeOK, PCs
<1>5. TypeOK'
  BY <1>1, <1>2, <1>3, <1>4 DEF stream, history, TypeOK
<1>6. GroupInv'
  BY <1>1, <1>3, <1>4 DEF GroupInv
<1> QED
  BY <1>2, <1>3, <1>4, <1>5, <1>6, QuietKeeps DEF stream

(* An answer comes, or is lost: N is new in the pending list of instance i, *)
(* B is at hand, and E are those of B whose fields are nil.                *)
Answers(i, label, N, B, E) ==
    /\ pc[i] \in {"recover", "read"}
    /\ label \in {"read", "off", "handle", "backoff"}
    /\ N \subseteq Entry /\ B \subseteq pel[i] \cup N /\ E \subseteq B
    /\ label # "handle" => B = {}
    /\ pc' = [pc EXCEPT ![i] = label]
    /\ pel' = [pel EXCEPT ![i] = pel[i] \cup N]
    /\ batch' = [batch EXCEPT ![i] = B]
    /\ empty' = [empty EXCEPT ![i] = E]
    /\ delivered' \in delivered .. top
    /\ N \subseteq delivered + 1 .. delivered'
    /\ delivered + 1 .. delivered' \subseteq N \cup trimmed
    /\ UNCHANGED <<stream, group, running, handled, twice, tried>>
    /\ mishap' \in [Entry -> SUBSET {"left", "unacked"}]
    /\ \A m \in Entry : mishap[m] \subseteq mishap'[m]
    /\ \A m \in N : m \in B \/ mishap'[m] # {}

LEMMA AnswerKeeps ==
    ASSUME IInv, NEW i \in Instance, NEW label, NEW N, NEW B, NEW E, Answers(i, label, N, B, E)
    PROVE  IInv'
<1> USE DEF Answers
<1>1. Typed /\ TypeOK
  BY DEF IInv, Typed
<1>2. /\ top' = top /\ trimmed' = trimmed /\ group' = group /\ group
  BY <1>1 DEF stream, Typed, GroupInv
<1>3. /\ top \in Nat /\ delivered \in Nat /\ delivered' \in 0 .. top'
      /\ 1 .. delivered \subseteq 1 .. delivered' /\ N \subseteq 1 .. delivered'
      /\ \A m \in N : m \notin 1 .. delivered
  BY <1>1, <1>2, Bounds
<1>4. /\ pel \in [Instance -> SUBSET (1 .. delivered)] /\ batch \in [Instance -> SUBSET Entry]
      /\ empty \in [Instance -> SUBSET Entry] /\ pc \in [Instance -> PCs]
      /\ \A j \in Instance : empty[j] \subseteq batch[j]
  BY <1>1 DEF TypeOK
<1>5. \A j \in Instance : pel[j] \subseteq Entry
  BY <1>1, <1>4, Bounds
<1>6. /\ pel'[i] = pel[i] \cup N /\ batch'[i] = B /\ empty'[i] = E /\ pc'[i] = label
      /\ \A j \in Instance \ {i} :
            pel'[j] = pel[j] /\ batch'[j] = batch[j] /\ empty'[j] = empty[j] /\ pc'[j] = pc[j]
  BY <1>4
<1>7. pel' \in [Instance -> SUBSET (1 .. delivered')]
  BY <1>3, <1>4
<1>8. batch' \in [Instance -> SUBSET Entry] /\ empty' \in [Instance -> SUBSET Entry]
  <2>1. B \subseteq Entry
    BY <1>5
  <2> QED
    BY <1>4, <2>1
<1>9. pc' \in [Instance -> PCs]
  BY <1>4 DEF PCs
<1>10. \A j \in Instance : empty'[j] \subseteq batch'[j]
  BY <1>4, <1>6
<1>11. tried' \subseteq 1 .. delivered'
  BY <1>1, <1>3 DEF TypeOK
<1>12. TypeOK'
  BY <1>1, <1>2, <1>3, <1>7, <1>8, <1>9, <1>10, <1>11 DEF TypeOK
<1>13. GroupInv'
  BY <1>2 DEF GroupInv
<1>14. batch[i] = {}
  BY <1>1 DEF Typed, BatchInv
<1>15. BatchInv'
  <2>1. \A j \in Instance : batch[j] \subseteq pel[j]
    BY <1>1 DEF Typed, BatchInv
  <2> QED
    BY <1>1, <1>6, <2>1 DEF Typed, BatchInv
<1>16. Apart'
  BY <1>3, <1>4, <1>6 DEF IInv, Apart
<1>17. ASSUME NEW j \in Instance \ {i}, NEW m PROVE IsCurrent(j, m)' <=> IsCurrent(j, m)
  BY <1>6 DEF IsCurrent
<1>18. AckInv'
  BY <1>6, <1>17 DEF IInv, AckInv
<1>19. PendingInv'
  <2>1. ASSUME NEW j \in Instance, NEW m \in pel[j] PROVE m \in batch'[j] \/ mishap'[m] # {}
    BY <1>5, <1>6, <1>14 DEF IInv, PendingInv
  <2> SUFFICES ASSUME NEW j \in Instance, NEW m \in pel'[j]
               PROVE  m \in batch'[j] \/ mishap'[m] # {}
    BY DEF PendingInv
  <2>2. m \in pel[j] \/ (j = i /\ m \in N)
    BY <1>6
  <2>3. CASE m \in pel[j]
    BY <2>1, <2>3
  <2>4. CASE j = i /\ m \in N
    BY <1>6, <2>4
  <2> QED
    BY <2>2, <2>3, <2>4
<1>20. handled \subseteq 1 .. delivered /\ tried \subseteq 1 .. delivered
  BY <1>1 DEF TypeOK
<1>21. HandledInv'
  <2> SUFFICES ASSUME NEW j \in Instance, NEW m \in pel'[j] \cap handled'
               PROVE  "unacked" \in mishap'[m] \/ (pc'[j] = "ack" /\ IsCurrent(j, m)')
    BY DEF HandledInv
  <2>1. m \in pel[j] \cap handled /\ m \in Entry
    BY <1>3, <1>5, <1>6, <1>20
  <2>2. "unacked" \in mishap[m] \/ (j # i /\ pc[j] = "ack" /\ IsCurrent(j, m))
    BY <2>1 DEF IInv, HandledInv
  <2> QED
    BY <1>6, <1>17, <2>1, <2>2
<1>22. AckedWasHandled'
  <2> SUFFICES ASSUME NEW m \in 1 .. delivered', \A j \in Instance : m \notin pel'[j]
               PROVE  m \in handled' \cup Foreign \cup trimmed'
    BY DEF AckedWasHandled
  <2>1. CASE m \in 1 .. delivered
    BY <1>2, <1>6, <2>1 DEF IInv, AckedWasHandled
  <2>2. CASE m \notin 1 .. delivered
    <3>1. m \in delivered + 1 .. delivered'
      BY <1>3, <2>2
    <3> QED
      BY <1>2, <1>6, <3>1
  <2> QED
    BY <2>1, <2>2
<1>23. DuplicateOnlyAfterMishap'
  <2>1. twice \subseteq Entry
    BY <1>1, Bounds DEF TypeOK
  <2> QED
    BY <2>1 DEF IInv, DuplicateOnlyAfterMishap
<1>24. OrderKept'
  <2> SUFFICES ASSUME NEW j \in Instance, NEW m \in pel'[j] \cap tried',
                      NEW n \in pel'[j] \ tried', n < m
               PROVE  mishap'[n] # {}
    BY DEF OrderKept
  <2>1. m \in 1 .. delivered /\ m \in pel[j] /\ m \in tried
    BY <1>3, <1>6, <1>20
  <2>2. n \in pel[j] /\ n \in Entry
    <3>1. CASE n \in pel[j]
      BY <1>5, <3>1
    <3>2. CASE n \notin pel[j]
      <4>1. n \in delivered + 1 .. delivered'
        BY <1>6, <3>2
      <4> QED
        BY <1>3, <2>1, <4>1
    <3> QED
      BY <3>1, <3>2
  <2> QED
    BY <2>1, <2>2 DEF IInv, OrderKept
<1> QED
  BY <1>12, <1>13, <1>15, <1>16, <1>18, <1>19, <1>21, <1>22, <1>23, <1>24 DEF IInv, Typed

LEMMA ReadPendingKeeps == ASSUME IInv, NEW i \in Instance, ReadPending(i) PROVE IInv'
<1>1. TypeOK /\ pel[i] \in SUBSET Entry /\ pel \in [Instance -> SUBSET (1 .. delivered)]
  BY Bounds DEF IInv, Typed, TypeOK
<1>2. First(pel[i]) \subseteq pel[i] /\ delivered \in Nat /\ delivered <= top /\ top \in Nat
  BY <1>1, Bounds, FirstOnes
<1>3. /\ pc[i] = "recover"
      /\ batch' = [batch EXCEPT ![i] = First(pel[i])]
      /\ empty' = [empty EXCEPT ![i] = First(pel[i]) \cap trimmed]
      /\ UNCHANGED <<stream, group, running, handled, twice, tried>>
      /\ delivered' = delivered /\ pel' = pel /\ mishap' = mishap
  BY DEF ReadPending, history
<1>4. PICK label \in {"read", "off", "handle", "backoff"} :
         pc' = [pc EXCEPT ![i] = label] /\ (label # "handle" => First(pel[i]) = {})
  <2>1. CASE First(pel[i]) = {}
    BY <2>1 DEF ReadPending, Loop, Goto
  <2>2. CASE First(pel[i]) # {}
    BY <2>2 DEF ReadPending, Goto
  <2> QED
    BY <2>1, <2>2
<1>5. pel' = [pel EXCEPT ![i] = pel[i] \cup {}]
  BY <1>1, <1>3
<1>6. /\ delivered' \in delivered .. top /\ {} \subseteq delivered + 1 .. delivered'
      /\ delivered + 1 .. delivered' \subseteq {} \cup trimmed
  BY <1>2, <1>3
<1>7. /\ mishap' \in [Entry -> SUBSET {"left", "unacked"}]
      /\ \A m \in Entry : mishap[m] \subseteq mishap'[m]
  BY <1>1, <1>3 DEF TypeOK
<1>8. First(pel[i]) \subseteq pel[i] \cup {} /\ First(pel[i]) \cap trimmed \subseteq First(pel[i])
  BY <1>2
<1>9. Answers(i, label, {}, First(pel[i]), First(pel[i]) \cap trimmed)
  BY <1>3, <1>4, <1>5, <1>6, <1>7, <1>8 DEF Answers
<1> QED
  BY <1>9, AnswerKeeps

LEMMA ReadNewKeeps == ASSUME IInv, NEW i \in Instance, ReadNew(i) PROVE IInv'
<1>1. TypeOK
  BY DEF IInv, Typed
<1>2. /\ delivered' \in delivered + 1 .. top
      /\ First(New) \subseteq delivered + 1 .. delivered'
      /\ delivered + 1 .. delivered' \subseteq First(New) \cup trimmed
      /\ pel' = [pel EXCEPT ![i] = pel[i] \cup First(New)]
  BY <1>1, Delivery DEF ReadNew
<1>3. First(New) \in SUBSET Entry /\ delivered' \in delivered .. top
  <2>1. New \in SUBSET Entry
    BY <1>1, Bounds DEF New
  <2> QED
    BY <1>1, <1>2, <2>1, Bounds, FirstOnes
<1>4. /\ pc[i] = "read" /\ pc' = [pc EXCEPT ![i] = "handle"]
      /\ batch' = [batch EXCEPT ![i] = First(New)]
      /\ UNCHANGED <<stream, group, running, handled, twice, tried>>
      /\ mishap' = mishap /\ empty' = empty
  BY DEF ReadNew, Goto, history
<1>5. empty' = [empty EXCEPT ![i] = {}]
  BY <1>1, <1>4 DEF IInv, Typed, TypeOK, BatchInv
<1>6. /\ mishap' \in [Entry -> SUBSET {"left", "unacked"}]
      /\ \A m \in Entry : mishap[m] \subseteq mishap'[m]
  BY <1>1, <1>4 DEF TypeOK
<1>7. Answers(i, "handle", First(New), First(New), {})
  BY <1>2, <1>3, <1>4, <1>5, <1>6 DEF Answers
<1> QED
  BY <1>7, AnswerKeeps

LEMMA ReadFailsKeeps == ASSUME IInv, NEW i \in Instance, ReadFails(i) PROVE IInv'
<1>1. TypeOK
  BY DEF IInv, Typed
<1>2. /\ pc[i] \in {"recover", "read"} /\ pc' = [pc EXCEPT ![i] = "backoff"]
      /\ UNCHANGED <<stream, group, running, handled, twice, tried>>
      /\ batch' = batch /\ empty' = empty
  BY DEF ReadFails, Goto
<1>3. batch' = [batch EXCEPT ![i] = {}] /\ empty' = [empty EXCEPT ![i] = {}]
  BY <1>1, <1>2 DEF IInv, Typed, TypeOK, BatchInv
<1>4. CASE UNCHANGED <<delivered, pel, mishap>>
  <2>1. TypeOK'
    BY <1>1, <1>2, <1>4 DEF TypeOK, stream, PCs
  <2>2. GroupInv'
    BY <1>1, <1>2, <1>4 DEF IInv, Typed, GroupInv, TypeOK
  <2>3. \A j \in Instance : pc'[j] # pc[j] => {pc[j], pc'[j]} \cap {"handle", "ack"} = {}
    BY <1>1, <1>2 DEF TypeOK
  <2> QED
    BY <1>2, <1>4, <2>1, <2>2, <2>3, QuietKeeps DEF stream, history
<1>5. CASE pc[i] = "read" /\ Deliver(i) /\ Suffer(First(New), "left")
  <2>1. /\ delivered' \in delivered + 1 .. top
        /\ First(New) \subseteq delivered + 1 .. delivered'
        /\ delivered + 1 .. delivered' \subseteq First(New) \cup trimmed
        /\ pel' = [pel EXCEPT ![i] = pel[i] \cup First(New)]
    BY <1>1, <1>5, Delivery
  <2>2. First(New) \in SUBSET Entry /\ delivered' \in delivered .. top
    <3>1. New \in SUBSET Entry
      BY <1>1, Bounds DEF New
    <3> QED
      BY <1>1, <2>1, <3>1, Bounds, FirstOnes
  <2>3. /\ mishap' \in [Entry -> SUBSET {"left", "unacked"}]
        /\ \A m \in Entry : mishap[m] \subseteq mishap'[m]
        /\ \A m \in First(New) : mishap'[m] # {}
    BY <1>1, <1>5, <2>2, Suffering
  <2>4. Answers(i, "backoff", First(New), {}, {})
    BY <1>2, <1>3, <1>5, <2>1, <2>2, <2>3 DEF Answers
  <2> QED
    BY <2>4, AnswerKeeps
<1> QED
  BY <1>4, <1>5 DEF ReadFails

-----------------------------------------------------------------------------
(* What holds in every state.                                              *)
THEOREM InductiveInvariant == Spec => []IInv
<1>1. Init => IInv
  <2> SUFFICES ASSUME Init PROVE IInv
    OBVIOUS
  <2>1. TypeOK
    <3>1. Last \in Nat /\ 0 \in 0 .. Last /\ 0 \in 0 .. 0
      BY ConsumerAssumption
    <3> QED
      BY <3>1 DEF Init, TypeOK, PCs
  <2>2. GroupInv /\ BatchInv
    BY DEF Init, GroupInv, BatchInv
  <2>3. Apart /\ AckInv /\ PendingInv /\ HandledInv
    BY DEF Init, Apart, AckInv, PendingInv, HandledInv
  <2>4. AckedWasHandled
    <3>1. 1 .. delivered = {}
      BY DEF Init
    <3> QED
      BY <3>1 DEF AckedWasHandled
  <2>5. DuplicateOnlyAfterMishap /\ OrderKept
    BY DEF Init, DuplicateOnlyAfterMishap, OrderKept
  <2> QED
    BY <2>1, <2>2, <2>3, <2>4, <2>5 DEF IInv, Typed
<1>2. IInv /\ [Next]_vars => IInv'
  <2> SUFFICES ASSUME IInv, [Next]_vars PROVE IInv'
    OBVIOUS
  <2>1. CASE Add
    BY <2>1, AddKeeps
  <2>2. ASSUME NEW m \in Entry, Trim(m) PROVE IInv'
    BY <2>2, TrimKeeps
  <2>3. ASSUME NEW i \in Instance, ReadNothing(i) PROVE IInv'
    BY <2>3, LoopKeeps
  <2>4. ASSUME NEW i \in Instance, Proceed(i) PROVE IInv'
    <3>1. CASE Start(i) \/ ReadNoMore(i) \/ Resume(i)
      BY <3>1, LoopKeeps
    <3>2. CASE ReadPending(i)
      BY <3>2, ReadPendingKeeps
    <3>3. CASE ReadNew(i)
      BY <3>3, ReadNewKeeps
    <3>4. ASSUME NEW m \in Entry, MeetEmpty(i, m) \/ Skip(i, m) \/ Handle(i, m) \/ Ack(i, m)
          PROVE  IInv'
      BY <3>4, MeetEmptyWorks, SkipWorks, HandleWorks, AckWorks, WorkKeeps
    <3> QED
      BY <2>4, <3>1, <3>2, <3>3, <3>4 DEF Proceed
  <2>5. ASSUME NEW i \in Instance, Fail(i) PROVE IInv'
    <3>1. CASE ReadFails(i)
      BY <3>1, ReadFailsKeeps
    <3>2. CASE Stop(i)
      BY <3>2, LoopKeeps
    <3>3. CASE End(i)
      BY <3>3, EndWorks, WorkKeeps
    <3>4. ASSUME NEW m \in Entry, SkipFails(i, m) \/ HandleFails(i, m) \/ AckFails(i, m)
          PROVE  IInv'
      BY <3>4, SkipFailsWorks, HandleFailsWorks, AckFailsWorks, WorkKeeps
    <3> QED
      BY <2>5, <3>1, <3>2, <3>3, <3>4 DEF Fail
  <2>6. CASE UNCHANGED vars
    <3>1. UNCHANGED <<stream, group, delivered, pel, pc, running, batch, empty, history>>
      BY <2>6 DEF vars
    <3>2. TypeOK' /\ GroupInv'
      BY <3>1 DEF IInv, Typed, TypeOK, GroupInv, stream, history
    <3> QED
      BY <3>1, <3>2, QuietKeeps DEF stream
  <2> QED
    BY <2>1, <2>2, <2>3, <2>4, <2>5, <2>6 DEF Next
<1> QED
  BY <1>1, <1>2, PTL DEF Spec

(* All variables keep to their types.                                      *)
THEOREM TypeCorrect == Spec => []TypeOK
<1>1. IInv => TypeOK
  BY DEF IInv, Typed
<1> QED
  BY <1>1, InductiveInvariant, PTL

(* The pending lists lose an entry only when it was handled or refused,    *)
(* whatever fails and whenever a process ends.  (L147-163)                 *)
THEOREM NothingAckedUnhandled == Spec => []AckedWasHandled
<1>1. IInv => AckedWasHandled
  BY DEF IInv
<1> QED
  BY <1>1, InductiveInvariant, PTL

(* handleMessage succeeds twice for an entry only if its acknowledgement   *)
(* was lost in between.  (L153-163)                                        *)
THEOREM Duplicates == Spec => []DuplicateOnlyAfterMishap
<1>1. IInv => DuplicateOnlyAfterMishap
  BY DEF IInv
<1> QED
  BY <1>1, InductiveInvariant, PTL

(* What is pending while new entries are read has met with an error: the   *)
(* loop itself leaves nothing behind.  (L103-105, L156)                    *)
THEOREM Pending == Spec => []PendingWithCause
<1>1. IInv => PendingWithCause
  BY DEF IInv, Typed, BatchInv, PendingInv, PendingWithCause
<1> QED
  BY <1>1, InductiveInvariant, PTL

(* Entries delivered to an instance are taken up in their order, unless    *)
(* one met with an error.  (L140)                                          *)
THEOREM Order == Spec => []OrderKept
<1>1. IInv => OrderKept
  BY DEF IInv
<1> QED
  BY <1>1, InductiveInvariant, PTL
-----------------------------------------------------------------------------
(* GroupPromise is kept entry by entry.                                    *)
Keeps(m) ==
    \/ Promise!Still(m) \/ Promise!Give(m) \/ Promise!PassOver(m)
    \/ Promise!Handle(m) \/ Promise!Doubt(m) \/ Promise!Settle(m)

(* Steps that change neither a pending list nor what is known of an entry. *)
LEMMA OthersStill ==
    ASSUME UNCHANGED <<delivered, pel, handled, twice, mishap>>, NEW m \in Entry
    PROVE  Keeps(m)
<1>1. Promise!Still(m)
  BY DEF Promise!Still, Promise!Stays, Promise!Unhandled, Promise!NoNewDoubt, Holders
<1> QED
  BY <1>1 DEF Keeps

(* A delivery gives its entries to the instance and passes over those that *)
(* were trimmed, whether the answer arrives or not.                        *)
LEMMA DeliveryKeeps ==
    ASSUME IInv, NEW i \in Instance, Deliver(i), UNCHANGED <<handled, twice>>,
           \A n \in Entry : "unacked" \in mishap'[n] <=> "unacked" \in mishap[n],
           NEW m \in Entry
    PROVE  Keeps(m)
<1>1. /\ delivered' \in delivered + 1 .. top
      /\ First(New) \subseteq delivered + 1 .. delivered'
      /\ delivered + 1 .. delivered' \subseteq First(New) \cup trimmed
      /\ pel' = [pel EXCEPT ![i] = @ \cup First(New)]
  BY Delivery DEF IInv, Typed
<1>2. TypeOK /\ top \in Nat /\ delivered \in Nat /\ delivered' \in Nat /\ m \in Nat
      /\ delivered < delivered'
  <2>1. TypeOK
    BY DEF IInv, Typed
  <2>2. top \in Nat /\ delivered \in Nat /\ m \in Nat
    BY <2>1, Bounds
  <2> QED
    BY <1>1, <2>1, <2>2
<1>3. \A j \in Instance : pel[j] \subseteq 1 .. delivered
  BY <1>2 DEF TypeOK
<1>4. \A j \in Instance : pel'[j] = IF j = i THEN pel[j] \cup First(New) ELSE pel[j]
  BY <1>1, <1>2 DEF TypeOK
<1>5. Promise!Unhandled(m) /\ Promise!NoNewDoubt(m)
  BY DEF Promise!Unhandled, Promise!NoNewDoubt
<1>6. m > 0
  BY <1>2 DEF Entry
<1>7. CASE m \in First(New)
  <2>1. m > delivered /\ m <= delivered'
    BY <1>1, <1>2, <1>7
  <2>2. \A j \in Instance : m \notin pel[j] /\ (m \in pel'[j] <=> j = i)
    <3>1. m \notin 1 .. delivered
      BY <1>2, <2>1
    <3> QED
      BY <1>3, <1>4, <1>7, <3>1
  <2>3. Holders(m) = {} /\ Holders(m)' = {i}
    BY <2>2 DEF Holders
  <2>4. Promise!Give(m)
    BY <1>2, <1>5, <2>1, <2>3 DEF Promise!Give
  <2> QED
    BY <2>4 DEF Keeps
<1>8. CASE m \notin First(New)
  <2>1. Holders(m)' = Holders(m)
    BY <1>4, <1>8 DEF Holders
  <2>2. CASE m <= delivered \/ m > delivered'
    <3>1. m \in 1 .. delivered <=> m \in 1 .. delivered'
      BY <1>2, <1>6, <2>2
    <3>2. Promise!Stays(m)
      BY <2>1, <3>1 DEF Promise!Stays
    <3> QED
      BY <1>5, <3>2 DEF Keeps, Promise!Still
  <2>3. CASE m > delivered /\ m <= delivered'
    <3>1. m \in trimmed
      BY <1>1, <1>2, <1>8, <2>3
    <3>2. Holders(m) = {} /\ m \in 1 .. delivered' /\ m \notin 1 .. delivered
      BY <1>2, <1>3, <1>6, <2>3 DEF Holders
    <3>3. Promise!PassOver(m)
      BY <1>5, <2>1, <3>1, <3>2 DEF Promise!PassOver
    <3> QED
      BY <3>3 DEF Keeps
  <2> QED
    BY <1>2, <2>2, <2>3
<1> QED
  BY <1>7, <1>8

(* Dealing with an answer without handling anything settles what leaves    *)
(* the pending list, and casts doubt on what was handled only.             *)
LEMMA WorkPromised ==
    ASSUME IInv, NEW i \in Instance, Works(i), UNCHANGED <<handled, twice>>,
           \A n \in Entry : "unacked" \in mishap'[n]
                               => "unacked" \in mishap[n] \/ n \in handled \cap batch[i],
           NEW m \in Entry
    PROVE  Keeps(m)
<1>1. /\ delivered' = delivered
      /\ pel'[i] \subseteq pel[i] /\ pel[i] \ pel'[i] \subseteq handled \cup Foreign
      /\ \A j \in Instance \ {i} : pel'[j] = pel[j]
      /\ "unacked" \in mishap[m] => "unacked" \in mishap'[m]
  BY DEF Works, Alone, Remembers
<1>2. \A j \in Instance \ {i} : pel[j] \cap pel[i] = {}
  BY DEF IInv, Apart
<1>3. batch[i] \subseteq pel[i] /\ \A j \in Instance : pel[j] \subseteq 1 .. delivered
  BY DEF IInv, Typed, BatchInv, TypeOK
<1>4. Promise!Unhandled(m)
  BY DEF Promise!Unhandled
<1>5. CASE m \in pel[i] \ pel'[i]
  <2>1. Holders(m) # {} /\ Holders(m)' = {}
    BY <1>1, <1>2, <1>5 DEF Holders
  <2>2. m \in 1 .. delivered'
    BY <1>1, <1>3, <1>5
  <2>3. Promise!Settle(m)
    BY <1>1, <1>4, <1>5, <2>1, <2>2 DEF Promise!Settle
  <2> QED
    BY <2>3 DEF Keeps
<1>6. CASE m \notin pel[i] \ pel'[i]
  <2>1. Holders(m)' = Holders(m)
    BY <1>1, <1>6 DEF Holders
  <2>2. Promise!Stays(m)
    BY <1>1, <2>1 DEF Promise!Stays
  <2>3. CASE "unacked" \in mishap'[m] /\ "unacked" \notin mishap[m]
    <3>1. m \in handled /\ m \in pel[i]
      BY <1>3, <2>3
    <3>2. Promise!Doubt(m)
      BY <1>4, <2>2, <2>3, <3>1 DEF Promise!Doubt, Holders
    <3> QED
      BY <3>2 DEF Keeps
  <2>4. CASE "unacked" \in mishap'[m] <=> "unacked" \in mishap[m]
    <3>1. Promise!NoNewDoubt(m)
      BY <2>4 DEF Promise!NoNewDoubt
    <3> QED
      BY <1>4, <2>2, <3>1 DEF Keeps, Promise!Still
  <2> QED
    BY <1>1, <2>3, <2>4
<1> QED
  BY <1>5, <1>6

(* An entry is handled by the instance it is pending for, and for a second *)
(* time only when its XACK had failed.                                     *)
LEMMA HandlePromised ==
    ASSUME IInv, NEW i \in Instance, NEW n \in Entry, Handle(i, n), NEW m \in Entry
    PROVE  Keeps(m)
<1>1. /\ pc[i] = "handle" /\ n \in pel[i] /\ n \notin Foreign
      /\ handled' = handled \cup {n} /\ twice' = twice \cup (handled \cap {n})
      /\ UNCHANGED <<delivered, pel, mishap>>
  BY DEF Handle, IsCurrent, IInv, Typed, BatchInv
<1>2. Holders(m)' = Holders(m) /\ Promise!Stays(m) /\ Promise!NoNewDoubt(m)
  BY <1>1 DEF Holders, Promise!Stays, Promise!NoNewDoubt
<1>3. CASE m = n
  <2>1. m \in handled => "unacked" \in mishap[m]
    BY <1>1, <1>3 DEF IInv, HandledInv
  <2>2. twice \subseteq handled
    BY DEF IInv, Typed, TypeOK
  <2>3. Promise!Handle(m)
    BY <1>1, <1>2, <1>3, <2>1, <2>2 DEF Promise!Handle, Holders
  <2> QED
    BY <2>3 DEF Keeps
<1>4. CASE m # n
  BY <1>1, <1>2, <1>4 DEF Keeps, Promise!Still, Promise!Unhandled
<1> QED
  BY <1>3, <1>4

(* No loop casts doubt on an entry unless it was handled.                  *)
LEMMA OnlyLeft ==
    ASSUME NEW S, Suffer(S, "left")
    PROVE  \A n \in Entry : "unacked" \in mishap'[n] <=> "unacked" \in mishap[n]
BY DEF Suffer

LEMMA StepPromised ==
    ASSUME IInv, Next, NEW m \in Entry
    PROVE  Keeps(m)
<1>1. CASE Add \/ \E n \in Entry : Trim(n)
  BY <1>1, OthersStill DEF Add, Trim, history
<1>2. ASSUME NEW i \in Instance,
             ReadNothing(i) \/ ReadPending(i) \/ ReadNoMore(i) \/ Resume(i) \/ Stop(i)
      PROVE  Keeps(m)
  BY <1>2, OthersStill DEF ReadNothing, ReadPending, ReadNoMore, Resume, Stop, history, vars
<1>3. ASSUME NEW i \in Instance, Start(i) PROVE Keeps(m)
  BY <1>3, OthersStill DEF Start, IInv, Typed, GroupInv, history
<1>4. ASSUME NEW i \in Instance, ReadNew(i) PROVE Keeps(m)
  BY <1>4, DeliveryKeeps DEF ReadNew, history
<1>5. ASSUME NEW i \in Instance, ReadFails(i) PROVE Keeps(m)
  <2>1. CASE UNCHANGED <<delivered, pel, mishap>>
    BY <1>5, <2>1, OthersStill DEF ReadFails
  <2>2. CASE Deliver(i) /\ Suffer(First(New), "left")
    BY <1>5, <2>2, OnlyLeft, DeliveryKeeps DEF ReadFails
  <2> QED
    BY <1>5, <2>1, <2>2 DEF ReadFails
<1>6. ASSUME NEW i \in Instance, NEW n \in Entry, Handle(i, n) PROVE Keeps(m)
  BY <1>6, HandlePromised
<1>7. ASSUME NEW i \in Instance, NEW n \in Entry, Skip(i, n) \/ Ack(i, n) PROVE Keeps(m)
  <2>1. Works(i)
    BY <1>7, SkipWorks, AckWorks
  <2>2. UNCHANGED <<handled, twice, mishap>>
    BY <1>7 DEF Skip, Ack, history
  <2> QED
    BY <2>1, <2>2, WorkPromised
<1>8. ASSUME NEW i \in Instance, NEW n \in Entry,
             MeetEmpty(i, n) \/ SkipFails(i, n) \/ HandleFails(i, n)
      PROVE  Keeps(m)
  <2>1. Works(i)
    BY <1>8, MeetEmptyWorks, SkipFailsWorks, HandleFailsWorks
  <2>2. UNCHANGED <<handled, twice>> /\ \E S : Suffer(S, "left")
    BY <1>8 DEF MeetEmpty, SkipFails, HandleFails, Abandon
  <2> QED
    BY <2>1, <2>2, OnlyLeft, WorkPromised
<1>9. ASSUME NEW i \in Instance, NEW n \in Entry, AckFails(i, n) PROVE Keeps(m)
  <2>1. Works(i)
    BY <1>9, AckFailsWorks
  <2>2. n \in handled \cap batch[i]
    BY <1>9 DEF AckFails, IsCurrent, IInv, AckInv
  <2>3. UNCHANGED <<handled, twice>> /\ Suffer({n}, "unacked")
    BY <1>9 DEF AckFails
  <2>4. \A x \in Entry : "unacked" \in mishap'[x] => "unacked" \in mishap[x] \/ x = n
    BY <2>3 DEF Suffer
  <2> QED
    BY <2>1, <2>2, <2>3, <2>4, WorkPromised
<1>10. ASSUME NEW i \in Instance, End(i) PROVE Keeps(m)
  <2>1. Works(i)
    BY <1>10, EndWorks
  <2>2. UNCHANGED <<handled, twice>>
    BY <1>10 DEF End
  <2>3. ASSUME NEW x \in Entry, "unacked" \in mishap'[x]
        PROVE  "unacked" \in mishap[x] \/ x \in handled \cap batch[i]
    <3>1. CASE pc[i] = "ack" /\ IsCurrent(i, x)
      BY <3>1 DEF IsCurrent, IInv, AckInv
    <3>2. CASE ~(pc[i] = "ack" /\ IsCurrent(i, x))
      BY <1>10, <2>3, <3>2 DEF End
    <3> QED
      BY <3>1, <3>2
  <2> QED
    BY <2>1, <2>2, <2>3, WorkPromised
<1> QED
  BY <1>1, <1>2, <1>3, <1>4, <1>5, <1>6, <1>7, <1>8, <1>9, <1>10 DEF Next, Proceed, Fail

(* The consumer group implements its abstract specification: with any      *)
(* number of instances that end and restart, and whatever fails, an entry  *)
(* stays with the instance it was given to until it is handled or refused, *)
(* is then settled for good, and is handled again only when its            *)
(* acknowledgement was in doubt.  (L97-170)                                *)
THEOREM Implements == Spec => KeepsPromise
<1>1. Init => Promise!Init
  <2> SUFFICES ASSUME Init PROVE Promise!Init
    OBVIOUS
  <2>1. 1 .. delivered = {} /\ \A m \in Entry : Holders(m) = {}
    BY DEF Init, Holders
  <2>2. {m \in Entry : "unacked" \in mishap[m]} = {}
    BY DEF Init
  <2> QED
    BY <2>1, <2>2 DEF Init, Promise!Init
<1>2. IInv /\ [Next]_vars => [Promise!Next]_(Promise!vars)
  <2> SUFFICES ASSUME IInv, [Next]_vars PROVE Promise!Next
    OBVIOUS
  <2>1. \A m \in Entry : Keeps(m)
    <3>1. CASE Next
      BY <3>1, StepPromised
    <3>2. CASE UNCHANGED vars
      BY <3>2, OthersStill DEF vars, history
    <3> QED
      BY <3>1, <3>2
  <2>2. trimmed \subseteq trimmed'
    BY DEF Next, Add, Trim, ReadNothing, Proceed, Fail, Start, ReadPending, ReadNew, ReadNoMore,
           Resume, MeetEmpty, Skip, Handle, Ack, ReadFails, SkipFails, HandleFails, AckFails,
           Stop, End, vars, stream
  <2> QED
    BY <2>1, <2>2 DEF Keeps, Promise!Next
<1> QED
  BY <1>1, <1>2, InductiveInvariant, PTL DEF Spec, KeepsPromise, Promise!Spec
=============================================================================
