----------------------- MODULE LockedUnitOfWork_proofs -----------------------
(***************************************************************************)
(* Theorems about LockedUnitOfWork, for any number of commands and keys,   *)
(* any dispatch tree, TTL, time-out and faults.  While leases last, no     *)
(* update is computed from a stale read: the transactions are those of     *)
(* UnitOfWork, whose invariant carries over, and of the lock it takes that *)
(* a command whose lease runs owns its key.  Behind the lock the units of  *)
(* work keep their promise, and in front of the transactions the locks are *)
(* those of DistributedLock, so its theorems hold for the composition.     *)
(***************************************************************************)
EXTENDS LockedUnitOfWork, UnitOfWork_proofs

LockTypes ==
    /\ store \in [Key -> [owner : Cmd \cup {NoCmd}, left : Nat]]
    /\ lockPc \in [Cmd -> Lock!PCs]
    /\ key \in [Cmd -> Key]
    /\ answer \in [Cmd -> {"none", "OK", "nil"}]
    /\ lease \in [Cmd -> Nat]

(* A key is present exactly while it has TTL left.                         *)
StoreInv == \A k \in Key : store[k].owner = NoCmd <=> store[k].left = 0

(* Its SET succeeded: it is in next(), or about to be.                     *)
Obtained(c) == lockPc[c] = "next" \/ (lockPc[c] = "answered" /\ answer[c] = "OK")

(* A lease that runs is the TTL of the command's own key; it runs until    *)
(* the command is counted among those that overran.                        *)
LeaseInv ==
    \A c \in Cmd :
        /\ Obtained(c) /\ lease[c] > 0 => store[key[c]] = [owner |-> c, left |-> lease[c]]
        /\ lockPc[c] = "idle" => lease[c] = 0
        /\ c \in Locked \ overran /\ Obtained(c) => lease[c] > 0

LockInv == LockTypes /\ StoreInv /\ LeaseInv

(* The transaction is that of UnitOfWork.                                  *)
TxPart ==
    /\ TypeOK /\ IdleInv /\ ReplyInv
    /\ HasDataSource => IInv
    /\ ~HasDataSource => Bare

(* A command executes its transaction and its handler inside next().       *)
InsideInv ==
    \A c \in Cmd :
        /\ pc[c] # "idle" => lockPc[c] \in {"next", "release", "done"}
        /\ Running(c) => lockPc[c] = "next"

(* Who calls has come to its handler, and is still in it if it awaits.     *)
CallerInv ==
    /\ caller \in [Cmd -> Cmd \cup {NoCmd}]
    /\ \A c \in Cmd : caller[c] # NoCmd =>
          /\ caller[c] # c
          /\ pc[caller[c]] # "idle"
          /\ c \notin Detached /\ lockPc[c] \notin {"idle", "done", "crashed"}
                => pc[caller[c]] = "handler"
          /\ HasDataSource => \/ pc[caller[c]] = "handler"
                              \/ ambient[caller[c]] = unit[caller[c]]

(* A handler reads before it writes, and does neither before it runs.      *)
ReadInv ==
    /\ seen \in [Cmd -> SUBSET Cmd]
    /\ \A c \in Cmd : /\ c \in wrote => c \in seen[c]
                      /\ c \in seen[c] => pc[c] # "idle"
    /\ durable \subseteq wrote

(* Two commands that compete for a key, each with a transaction of its own *)
(* and within its lease.                                                   *)
Contend(c, d) ==
    /\ c # d /\ key[c] = key[d]
    /\ {c, d} \subseteq Locked \ overran
    /\ unit[c] = c /\ unit[d] = d

(* Whoever is in next() and has read, has read what others left there; of  *)
(* two that changed the database one has read what the other wrote.        *)
OrderInv ==
    \A c, d \in Cmd : Contend(c, d) =>
        /\ d \in durable /\ lockPc[d] # "next" /\ lockPc[c] = "next" /\ c \in seen[c]
              => d \in seen[c]
        /\ {c, d} \subseteq durable => SawEachOther(c, d)

LInv == LockInv /\ TxPart /\ InsideInv /\ CallerInv /\ ReadInv /\ OrderInv

(* OrderInv without its last step: what a command of a pair needs.         *)
LEMMA OneInside ==
  ASSUME LockInv, NEW c \in Cmd, NEW d \in Cmd, Contend(c, d),
         lockPc[c] = "next", lockPc[d] = "next"
  PROVE  FALSE
<1>1. lease[c] > 0 /\ lease[d] > 0
  BY DEF LockInv, LeaseInv, Obtained, Contend
<1>2. store[key[c]] = [owner |-> c, left |-> lease[c]]
      /\ store[key[d]] = [owner |-> d, left |-> lease[d]]
  BY <1>1 DEF LockInv, LeaseInv, Obtained
<1> QED
  BY <1>2 DEF Contend

-----------------------------------------------------------------------------
LEMMA LInit == LockedInit => LInv
<1> SUFFICES ASSUME LockedInit PROVE LInv
  OBVIOUS
<1>1. LockInv
  BY CmdAssumption
     DEF LockedInit, Lock!Init, Lock!Absent, Lock!PCs, LockInv, LockTypes, StoreInv, LeaseInv,
         Obtained
<1>2. TypeOK
  BY CmdAssumption DEF LockedInit, Init, TypeOK, PCs
<1>3. IInv /\ Bare /\ IdleInv /\ ReplyInv
  BY InitIInv DEF LockedInit, Init, Bare, IInv
<1>4. InsideInv /\ CallerInv /\ ReadInv /\ OrderInv
  BY DEF LockedInit, Init, InsideInv, Running, CallerInv, ReadInv, OrderInv
<1> QED
  BY <1>1, <1>2, <1>3, <1>4 DEF LInv, TxPart

-----------------------------------------------------------------------------
(* The steps of the lock.                                                  *)
LockMove(c) ==
    \/ Lock!Call(c) \/ Lock!SetNX(c) \/ Lock!Answer(c) \/ Lock!WakeUp(c) \/ Lock!Release(c)
    \/ Lock!Resend(c) \/ Lock!SetFails(c) \/ Lock!ReleaseFails(c)
    \/ \E outcome \in {"success", "failure", "throw", "none"} : Lock!NextReturns(c, outcome)

(* Of such a step, all that matters to the rest: where it leads.           *)
LEMMA LockFrame ==
  ASSUME LockTypes, NEW c \in Cmd, LockMove(c)
  PROVE  /\ UNCHANGED key
         /\ \A x \in Cmd \ {c} : lockPc'[x] = lockPc[x]
         /\ lockPc[c] \notin {"done", "crashed"} /\ lockPc'[c] \notin {"idle", "crashed"}
         /\ lockPc[c] = "release" => lockPc'[c] = "done"
         /\ lockPc[c] = "next" => lockPc'[c] \in {"release", "done"}
         /\ c \in Locked /\ lockPc'[c] = "next" => lockPc[c] = "answered"
         /\ lockPc'[c] = "next" => lockPc[c] \in {"idle", "answered"}
  BY DEF LockMove, Lock!Call, Lock!SetNX, Lock!Answer, Lock!WakeUp, Lock!Release, Lock!Resend,
         Lock!SetFails, Lock!ReleaseFails, Lock!NextReturns, Lock!TryOrGiveUp, Lock!Goto, LockTypes

(* The lock keeps its part.                                                *)
LEMMA LockKept ==
  ASSUME LockInv, NEW c \in Cmd, LockMove(c), UNCHANGED overran
  PROVE  LockInv'
<1> USE DEF LockInv
<1>0. Ttl \in Nat \ {0} /\ NoCmd \notin Cmd /\ key[c] \in Key
  BY LockedAssumption, CmdAssumption DEF LockTypes
<1>1. CASE Lock!Call(c)
  <2>1. LockTypes' /\ StoreInv'
    BY <1>1 DEF Lock!Call, Lock!TryOrGiveUp, Lock!Goto, Lock!PCs, LockTypes, StoreInv
  <2>2. LeaseInv'
    BY <1>1 DEF Lock!Call, Lock!TryOrGiveUp, Lock!Goto, LockTypes, LeaseInv, Obtained
  <2> QED
    BY <2>1, <2>2
<1>2. CASE Lock!SetNX(c)
  <2>1. LockTypes'
    <3>1. UNCHANGED store \/ store' = [store EXCEPT ![key[c]] = [owner |-> c, left |-> Ttl]]
      BY <1>2 DEF Lock!SetNX
    <3>2. store' \in [Key -> [owner : Cmd \cup {NoCmd}, left : Nat]]
      BY <1>0, <3>1 DEF LockTypes
    <3>3. lockPc' \in [Cmd -> Lock!PCs]
      BY <1>2 DEF Lock!SetNX, Lock!Goto, Lock!PCs, LockTypes
    <3>4. lease' \in [Cmd -> Nat] /\ answer' \in [Cmd -> {"none", "OK", "nil"}] /\ UNCHANGED key
      BY <1>0, <1>2 DEF Lock!SetNX, LockTypes
    <3> QED
      BY <3>2, <3>3, <3>4 DEF LockTypes
  <2>2. StoreInv'
    BY <1>0, <1>2 DEF Lock!SetNX, LockTypes, StoreInv
  <2>3. LeaseInv'
    BY <1>0, <1>2 DEF Lock!SetNX, Lock!Goto, LockTypes, LeaseInv, Obtained
  <2> QED
    BY <2>1, <2>2, <2>3
<1>3. CASE Lock!Answer(c) \/ Lock!WakeUp(c) \/ Lock!Resend(c) \/ Lock!SetFails(c)
  <2>1. LockTypes' /\ StoreInv'
    BY <1>3 DEF Lock!Answer, Lock!WakeUp, Lock!Resend, Lock!SetFails, Lock!TryOrGiveUp, Lock!Goto,
                Lock!PCs, LockTypes, StoreInv
  <2>2. LeaseInv'
    BY <1>3 DEF Lock!Answer, Lock!WakeUp, Lock!Resend, Lock!SetFails, Lock!TryOrGiveUp, Lock!Goto,
                LockTypes, LeaseInv, Obtained
  <2> QED
    BY <2>1, <2>2
<1>4. CASE Lock!Release(c) \/ Lock!ReleaseFails(c)
  <2>1. /\ lockPc[c] = "release" /\ lockPc' = [lockPc EXCEPT ![c] = "done"]
        /\ Lock!Delete(c) \/ UNCHANGED store
        /\ UNCHANGED <<key, answer, lease>>
    BY <1>4 DEF Lock!Release, Lock!ReleaseFails, Lock!Goto
  <2>2. LockTypes'
    <3>1. store' \in [Key -> [owner : Cmd \cup {NoCmd}, left : Nat]]
      BY <1>0, <2>1 DEF Lock!Delete, Lock!Absent, LockTypes
    <3>2. lockPc' \in [Cmd -> Lock!PCs]
      BY <2>1 DEF Lock!PCs, LockTypes
    <3> QED
      BY <2>1, <3>1, <3>2 DEF LockTypes
  <2>3. StoreInv'
    BY <2>1 DEF Lock!Delete, Lock!Absent, LockTypes, StoreInv
  <2>4. LeaseInv'
    BY <2>1 DEF Lock!Delete, LockTypes, LeaseInv, Obtained
  <2> QED
    BY <2>2, <2>3, <2>4
<1>5. CASE \E outcome \in {"success", "failure", "throw", "none"} : Lock!NextReturns(c, outcome)
  BY <1>5 DEF Lock!NextReturns, Lock!Goto, Lock!PCs, LockTypes, StoreInv, LeaseInv, Obtained
<1> QED
  BY <1>1, <1>2, <1>3, <1>4, <1>5 DEF LockMove

(* So does the passage of time: leases that end are counted.               *)
LEMMA TickKept ==
  ASSUME LockInv, Tick
  PROVE  LockInv'
<1> USE DEF LockInv
<1>1. LockTypes'
  <2>1. ASSUME NEW k \in Key
        PROVE store'[k] \in [owner : Cmd \cup {NoCmd}, left : Nat]
    BY DEF Tick, Lock!Tick, Lock!Absent, LockTypes
  <2>2. store' \in [Key -> [owner : Cmd \cup {NoCmd}, left : Nat]]
    BY <2>1 DEF Tick, Lock!Tick
  <2>3. lease' \in [Cmd -> Nat]
    <3>1. \A c \in Cmd : lease[c] \in Nat /\ Lock!Dec(lease[c]) \in Nat
      BY DEF Lock!Dec, LockTypes
    <3>2. lease' = [c \in Cmd |-> Lock!Dec(lease[c])]
      BY DEF Tick, Lock!Tick
    <3> QED
      BY <3>1, <3>2
  <2> QED
    BY <2>2, <2>3 DEF Tick, Lock!Tick, LockTypes
<1>2. StoreInv'
  BY DEF Tick, Lock!Tick, Lock!Absent, LockTypes, StoreInv
<1>3. ASSUME NEW c \in Cmd
      PROVE  /\ Obtained(c)' /\ lease'[c] > 0
                   => store'[key'[c]] = [owner |-> c, left |-> lease'[c]]
             /\ lockPc'[c] = "idle" => lease'[c] = 0
             /\ c \in Locked \ overran' /\ Obtained(c)' => lease'[c] > 0
  <2>1. /\ UNCHANGED <<lockPc, key, answer>>
        /\ key[c] \in Key /\ lease[c] \in Nat
        /\ lease'[c] = IF lease[c] = 0 THEN 0 ELSE lease[c] - 1
        /\ overran \subseteq overran'
    BY DEF Tick, Lock!Tick, Lock!Dec, LockTypes
  <2>2. Obtained(c)' <=> Obtained(c)
    BY <2>1 DEF Obtained
  <2>3. ASSUME Obtained(c), lease'[c] > 0
        PROVE store'[key'[c]] = [owner |-> c, left |-> lease'[c]]
    <3>1. store[key[c]] = [owner |-> c, left |-> lease[c]] /\ lease[c] > 1
      BY <2>1, <2>3 DEF LeaseInv
    <3> QED
      BY <2>1, <3>1 DEF Tick, Lock!Tick
  <2>4. ASSUME c \in Locked \ overran', Obtained(c) PROVE lease'[c] > 0
    <3>1. lease[c] > 0 /\ lease[c] # 1
      BY <2>1, <2>4 DEF LeaseInv, Obtained, Tick
    <3> QED
      BY <2>1, <3>1
  <2> QED
    BY <2>1, <2>2, <2>3, <2>4 DEF LeaseInv
<1> QED
  BY <1>1, <1>2, <1>3 DEF LeaseInv

-----------------------------------------------------------------------------
(* What the transactional part does is a move of UnitOfWork.               *)
LEMMA TxKept ==
  ASSUME TxPart, Moves
  PROVE  TxPart'
  BY TypeStep, IdleStep, ReplyStep, IInvStep, BareStep DEF TxPart

LEMMA TxStill ==
  ASSUME TxPart, UNCHANGED vars
  PROVE  TxPart'
<1>1. Moves
  BY DEF Moves
<1> QED
  BY <1>1, TxKept

(* A step of c's unit of work makes durable what c or its unit wrote: of   *)
(* the commands that open a unit, c at most.                               *)
LEMMA NewRows ==
  ASSUME TxPart, durable \subseteq wrote, NEW c \in Cmd, Step(c)
  PROVE  /\ durable' \subseteq wrote'
         /\ \A d \in durable' \ durable : unit[d] = d => d = c
<1>1. wrote \subseteq wrote'
  BY Frame DEF TxPart, Step, Proceed, Fail, Join, Create, Connect, ConnectFails, Begin, BeginFails,
         Write, StatementFails, HandlerReturns, Commit, CommitFails, CommitReplyLost, Rollback,
         RollbackFails, Release
<1>2. CASE Write(c)
  BY <1>2 DEF Write
<1>3. CASE Commit(c) \/ CommitReplyLost(c)
  <2>1. HasDataSource
    BY <1>3 DEF TxPart, Bare, Commit, CommitReplyLost
  <2>2. durable' = durable \cup Committed(c) /\ Committed(c) \subseteq RowsOf(c)
    BY <1>3, <2>1 DEF TxPart, IInv, RowsInv, Commit, CommitReplyLost, End, Committed
  <2> QED
    BY <1>1, <2>2 DEF RowsOf
<1>4. CASE durable' = durable
  BY <1>1, <1>4
<1>5. durable' = durable \/ Write(c) \/ Commit(c) \/ CommitReplyLost(c)
  BY DEF Step, Proceed, Fail, Join, Create, Connect, ConnectFails, Begin, BeginFails,
         StatementFails, HandlerReturns, CommitFails, Rollback, RollbackFails, Release, End
<1> QED
  BY <1>2, <1>3, <1>4, <1>5

-----------------------------------------------------------------------------
(* A step of the lock; if it ends next(), the transaction is over.         *)
LEMMA LockStepKept ==
  ASSUME LInv, NEW c \in Cmd, LockMove(c), UNCHANGED <<vars, seen, overran>>,
         lockPc[c] = "next" => pc[c] = "done",
         \/ UNCHANGED caller /\ lockPc[c] # "idle"
         \/ \E p \in Cmd \cup {NoCmd} :
               /\ caller' = [caller EXCEPT ![c] = p]
               /\ p # NoCmd => p # c /\ pc[p] = "handler"
  PROVE  LInv'
<1>1. LockInv' /\ TxPart'
  BY LockKept, TxStill DEF LInv
<1>2. UNCHANGED <<pc, ambient, unit, durable, wrote>>
  BY DEF vars
<1>3. /\ UNCHANGED key
      /\ \A x \in Cmd \ {c} : lockPc'[x] = lockPc[x]
      /\ lockPc[c] \notin {"done", "crashed"} /\ lockPc'[c] \notin {"idle", "crashed"}
      /\ lockPc[c] = "release" => lockPc'[c] = "done"
      /\ lockPc[c] = "next" => lockPc'[c] \in {"release", "done"}
      /\ lockPc'[c] = "next" => lockPc[c] \in {"idle", "answered"}
  BY LockFrame DEF LInv, LockInv
<1>4. InsideInv'
  BY <1>2, <1>3 DEF LInv, InsideInv, Running
<1>5. CallerInv'
  BY <1>2, <1>3 DEF LInv, CallerInv
<1>6. ReadInv'
  BY <1>2 DEF LInv, ReadInv
<1>7. ASSUME NEW x \in Cmd, NEW y \in Cmd, Contend(x, y)'
      PROVE  /\ y \in durable /\ lockPc'[y] # "next" /\ lockPc'[x] = "next" /\ x \in seen[x]
                   => y \in seen[x]
             /\ {x, y} \subseteq durable => SawEachOther(x, y)
  <2>1. Contend(x, y)
    BY <1>2, <1>3, <1>7 DEF Contend
  <2>2. ASSUME x \in seen[x], lockPc'[x] = "next" PROVE lockPc[x] = "next"
    <3>1. lockPc[x] \in {"next", "release", "done"}
      BY <2>2 DEF LInv, ReadInv, InsideInv
    <3> QED
      BY <1>3, <2>2, <3>1
  <2>3. ASSUME lockPc[x] = "next", lockPc[y] = "next" PROVE FALSE
    BY <2>1, <2>3, OneInside DEF LInv
  <2> QED
    BY <2>1, <2>2, <2>3 DEF LInv, OrderInv
<1>8. OrderInv'
  BY <1>2, <1>7 DEF OrderInv, SawEachOther
<1> QED
  BY <1>1, <1>4, <1>5, <1>6, <1>8 DEF LInv

(* A command enters its transaction: it has neither read nor written yet.  *)
LEMMA EnterKept ==
  ASSUME LInv, NEW c \in Cmd, Enter(c)
  PROVE  LInv'
<1>1. /\ lockPc[c] = "next" /\ Inherit(c, caller[c])
      /\ UNCHANGED <<lockVars, caller, seen, overran>>
  BY DEF Enter
<1>2. Starts(c, caller[c]) /\ caller[c] \in Cmd \cup {NoCmd}
  BY <1>1 DEF LInv, CallerInv, Starts
<1>3. LockInv'
  BY <1>1 DEF LInv, LockInv, LockTypes, StoreInv, LeaseInv, Obtained, lockVars
<1>4. TxPart'
  BY <1>2, TxKept DEF LInv, Moves
<1>5. /\ pc[c] = "idle" /\ pc'[c] = "called" /\ unit[c] = c /\ c \notin wrote
      /\ UNCHANGED <<durable, wrote>>
      /\ \A x \in Cmd \ {c} : pc'[x] = pc[x] /\ unit'[x] = unit[x] /\ ambient'[x] = ambient[x]
  BY <1>1 DEF LInv, TxPart, IdleInv, TypeOK, Inherit, Goto
<1>6. InsideInv'
  BY <1>1, <1>5 DEF LInv, InsideInv, Running, lockVars
<1>7. CallerInv'
  BY <1>1, <1>5, CmdAssumption DEF LInv, CallerInv, lockVars
<1>8. ReadInv'
  BY <1>1, <1>5 DEF LInv, ReadInv
<1>9. c \notin durable /\ c \notin seen[c]
  BY <1>5 DEF LInv, ReadInv
<1>10. OrderInv'
  BY <1>1, <1>5, <1>9 DEF LInv, OrderInv, Contend, SawEachOther, lockVars
<1> QED
  BY <1>3, <1>4, <1>6, <1>7, <1>8, <1>10 DEF LInv

(* A handler reads what is committed.                                      *)
LEMMA ReadKept ==
  ASSUME LInv, NEW c \in Cmd, Read(c)
  PROVE  LInv'
<1>1. /\ pc[c] = "handler" /\ c \notin seen[c]
      /\ seen' = [seen EXCEPT ![c] = Visible(c) \cup {c}]
      /\ UNCHANGED <<lockVars, vars, caller, overran>>
  BY DEF Read
<1>2. LockInv' /\ TxPart'
  BY <1>1, TxStill DEF LInv, LockInv, LockTypes, StoreInv, LeaseInv, Obtained, lockVars
<1>3. UNCHANGED <<pc, ambient, unit, durable, wrote>> /\ UNCHANGED <<lockPc, key>>
  BY <1>1 DEF vars, lockVars
<1>4. InsideInv' /\ CallerInv'
  BY <1>1, <1>3 DEF LInv, InsideInv, CallerInv, Running
<1>5. Visible(c) \subseteq Cmd /\ durable \subseteq Visible(c)
  BY DEF LInv, TxPart, TypeOK, Visible
<1>6. /\ seen' \in [Cmd -> SUBSET Cmd]
      /\ seen'[c] = Visible(c) \cup {c}
      /\ \A x \in Cmd \ {c} : seen'[x] = seen[x]
  BY <1>1, <1>5 DEF LInv, ReadInv
<1>7. ReadInv'
  BY <1>1, <1>3, <1>6 DEF LInv, ReadInv
<1>8. c \notin durable
  BY <1>1 DEF LInv, ReadInv
<1>9. OrderInv'
  BY <1>1, <1>3, <1>5, <1>6, <1>8 DEF LInv, OrderInv, Contend, SawEachOther
<1> QED
  BY <1>2, <1>4, <1>7, <1>9 DEF LInv

(* A step of the transaction.  What becomes durable is written under the   *)
(* lock, by a handler that has read under it.                              *)
LEMMA TxStepKept ==
  ASSUME LInv, NEW c \in Cmd, TxStep(c)
  PROVE  LInv'
<1>1. /\ Step(c)
      /\ pc[c] = "handler" /\ pc'[c] # "handler" => Busy(c) = {}
      /\ c \in wrote' => c \in seen[c]
      /\ UNCHANGED <<lockVars, caller, seen, overran>>
  BY DEF TxStep, Step
<1>2. Moves
  BY <1>1 DEF Moves, Next, Step
<1>3. LockInv' /\ TxPart'
  BY <1>1, <1>2, TxKept DEF LInv, LockInv, LockTypes, StoreInv, LeaseInv, Obtained, lockVars
<1>4. /\ UNCHANGED unit
      /\ Running(c) /\ pc'[c] # "idle"
      /\ \A x \in Cmd \ {c} : pc'[x] = pc[x] /\ ambient'[x] = ambient[x]
      /\ wrote' \subseteq wrote \cup {c}
  BY <1>1, Frame DEF LInv, TxPart, tree
<1>5. UNCHANGED <<lockPc, key>> /\ UNCHANGED <<caller, seen, overran>>
  BY <1>1 DEF lockVars
<1>6. lockPc[c] = "next"
  BY <1>4 DEF LInv, InsideInv
<1>7. InsideInv'
  BY <1>4, <1>5, <1>6 DEF LInv, InsideInv, Running
<1>8. CallerInv'
  <2>1. pc[c] = "handler" => UNCHANGED ambient
    BY <1>1 DEF Step, Proceed, Fail, Join, Create, Connect, ConnectFails, Begin, BeginFails, Write,
                StatementFails, HandlerReturns, Commit, CommitFails, CommitReplyLost, Rollback,
                RollbackFails, Release
  <2>2. HasDataSource /\ pc[c] = "handler" => ambient[c] = unit[c]
    BY DEF LInv, TxPart, IInv, RunnerInv, RunnerOK
  <2>3. HasDataSource /\ pc[c] # "handler" /\ ambient[c] = unit[c] => ambient'[c] = unit[c]
    BY <1>1 DEF LInv, TxPart, IInv, RunnerInv, RunnerOK, TypeOK, Step, Proceed, Fail, Join, Create,
                Connect, ConnectFails, Begin, BeginFails, Write, StatementFails, HandlerReturns,
                Commit, CommitFails, CommitReplyLost, Rollback, RollbackFails, Release
  <2> SUFFICES ASSUME NEW x \in Cmd, caller[x] # NoCmd
               PROVE  /\ caller[x] # x
                      /\ pc'[caller[x]] # "idle"
                      /\ x \notin Detached /\ lockPc[x] \notin {"idle", "done", "crashed"}
                            => pc'[caller[x]] = "handler"
                      /\ HasDataSource => \/ pc'[caller[x]] = "handler"
                                          \/ ambient'[caller[x]] = unit[caller[x]]
    BY <1>4, <1>5 DEF LInv, CallerInv
  <2>4. caller[x] \in Cmd
    BY DEF LInv, CallerInv
  <2>5. CASE caller[x] = c
    BY <1>1, <1>4, <2>1, <2>2, <2>3, <2>4, <2>5 DEF LInv, CallerInv, Busy
  <2>6. CASE caller[x] # c
    BY <1>4, <2>4, <2>6 DEF LInv, CallerInv
  <2> QED
    BY <2>5, <2>6
<1>9. /\ durable' \subseteq wrote' /\ \A d \in durable' \ durable : unit[d] = d => d = c
  BY <1>1, NewRows DEF LInv, ReadInv
<1>10. ReadInv'
  BY <1>1, <1>4, <1>5, <1>9 DEF LInv, ReadInv
<1>11. ASSUME NEW x \in Cmd, NEW y \in Cmd, Contend(x, y)'
       PROVE  /\ y \in durable' /\ lockPc[y] # "next" /\ lockPc[x] = "next" /\ x \in seen[x]
                    => y \in seen[x]
              /\ {x, y} \subseteq durable' => SawEachOther(x, y)
  <2>1. Contend(x, y) /\ Contend(y, x)
    BY <1>4, <1>5, <1>11 DEF Contend
  <2>2. y \in durable' /\ lockPc[y] # "next" => y \in durable
    BY <1>6, <1>9, <2>1 DEF Contend
  <2>3. ASSUME NEW u \in {x, y}, NEW v \in {x, y} \ {u}, u \in durable' \ durable, v \in durable'
        PROVE SawEachOther(x, y)
    <3>1. u = c /\ u # v /\ v \in durable /\ Contend(u, v)
      BY <1>9, <2>1, <2>3 DEF Contend
    <3>2. u \in seen[u]
      BY <1>1, <1>9, <2>3, <3>1
    <3>3. lockPc[v] # "next"
      BY <1>6, <3>1, OneInside DEF LInv
    <3>4. v \in seen[u]
      BY <1>6, <3>1, <3>2, <3>3 DEF LInv, OrderInv
    <3> QED
      BY <3>1, <3>4 DEF SawEachOther
  <2>4. ASSUME {x, y} \subseteq durable PROVE SawEachOther(x, y)
    BY <2>1, <2>4 DEF LInv, OrderInv
  <2>5. x # y
    BY <2>1 DEF Contend
  <2> QED
    BY <2>1, <2>2, <2>3, <2>4, <2>5 DEF LInv, OrderInv
<1>12. OrderInv'
  BY <1>5, <1>11 DEF OrderInv, SawEachOther
<1> QED
  BY <1>3, <1>7, <1>8, <1>10, <1>12 DEF LInv

(* Time passes: a pair may drop out of the competition.                    *)
LEMMA TimeKept ==
  ASSUME LInv, Tick
  PROVE  LInv'
<1>1. UNCHANGED <<vars, caller, seen>> /\ UNCHANGED <<lockPc, key>> /\ overran \subseteq overran'
  BY DEF Tick, Lock!Tick
<1>2. LockInv' /\ TxPart'
  BY <1>1, TickKept, TxStill DEF LInv
<1>3. UNCHANGED <<pc, ambient, unit, durable, wrote>>
  BY <1>1 DEF vars
<1>4. InsideInv' /\ CallerInv' /\ ReadInv'
  BY <1>1, <1>3 DEF LInv, InsideInv, CallerInv, ReadInv, Running
<1>5. OrderInv'
  BY <1>1, <1>3 DEF LInv, OrderInv, Contend, SawEachOther
<1> QED
  BY <1>2, <1>4, <1>5 DEF LInv

-----------------------------------------------------------------------------
(* What holds in every state.                                              *)
THEOREM LockedInvariant == LockedSpec => []LInv
<1>1. LInv /\ [LockedNext]_lockedVars => LInv'
  <2> SUFFICES ASSUME LInv, [LockedNext]_lockedVars PROVE LInv'
    OBVIOUS
  <2>1. ASSUME NEW c \in Cmd, NEW p \in Cmd \cup {NoCmd}, Call(c, p) PROVE LInv'
    <3>1. lockPc[c] = "idle" /\ LockMove(c)
      BY <2>1 DEF Call, Lock!Call, LockMove
    <3> QED
      BY <2>1, <3>1, LockStepKept DEF Call
  <2>2. ASSUME NEW c \in Cmd, LockStep(c) PROVE LInv'
    <3>1. LockMove(c) /\ lockPc[c] \notin {"idle", "next"}
      BY <2>2 DEF LockStep, LockMove, Lock!SetNX, Lock!Answer, Lock!WakeUp, Lock!Release,
                  Lock!Resend, Lock!SetFails, Lock!ReleaseFails
    <3> QED
      BY <2>2, <3>1, LockStepKept DEF LockStep
  <2>3. ASSUME NEW c \in Cmd, Leave(c) PROVE LInv'
    <3>1. reply[c] \in {"success", "failure", "throw", "none"}
      BY DEF LInv, TxPart, TypeOK
    <3>2. LockMove(c) /\ lockPc[c] = "next" /\ pc[c] = "done"
      BY <2>3, <3>1 DEF Leave, LockMove, Lock!NextReturns
    <3> QED
      BY <2>3, <3>2, LockStepKept DEF Leave
  <2>4. ASSUME NEW c \in Cmd, Enter(c) \/ Read(c) \/ TxStep(c) PROVE LInv'
    BY <2>4, EnterKept, ReadKept, TxStepKept
  <2>5. CASE Tick
    BY <2>5, TimeKept
  <2>6. CASE UNCHANGED lockedVars
    <3>1. UNCHANGED vars /\ UNCHANGED <<lockVars, caller, seen, overran>>
      BY <2>6 DEF lockedVars
    <3>2. TxPart'
      BY <3>1, TxStill DEF LInv
    <3>3. LockInv'
      BY <3>1 DEF LInv, LockInv, LockTypes, StoreInv, LeaseInv, Obtained, lockVars
    <3>4. InsideInv' /\ CallerInv' /\ ReadInv' /\ OrderInv'
      BY <3>1 DEF LInv, InsideInv, CallerInv, ReadInv, OrderInv, Contend, SawEachOther, Running,
                  lockVars, vars
    <3> QED
      BY <3>2, <3>3, <3>4 DEF LInv
  <2> QED
    BY <2>1, <2>2, <2>3, <2>4, <2>5, <2>6 DEF LockedNext
<1> QED
  BY <1>1, LInit, PTL DEF LockedSpec

(* While leases last, of two commands on one key that changed the database *)
(* in transactions of their own, one read what the other wrote.            *)
(* (PipelineExecutor L66-67, DistributedLockBehavior L37-41)               *)
THEOREM Serial == LockedSpec => []NoLostUpdate
<1>1. LInv => NoLostUpdate
  BY DEF LInv, TxPart, TypeOK, OrderInv, Contend, Contenders, NoLostUpdate
<1> QED
  BY <1>1, LockedInvariant, PTL

-----------------------------------------------------------------------------
(* What the composition does to the transactions is a move of UnitOfWork,  *)
(* or nothing.                                                             *)
LEMMA LockedMoves ==
  ASSUME LInv, [LockedNext]_lockedVars
  PROVE  Moves
<1>1. ASSUME UNCHANGED vars PROVE Moves
  BY <1>1 DEF Moves
<1>2. ASSUME NEW c \in Cmd, NEW p \in Cmd \cup {NoCmd}, Call(c, p) PROVE Moves
  BY <1>1, <1>2 DEF Call
<1>3. ASSUME NEW c \in Cmd, LockStep(c) \/ Leave(c) \/ Read(c) PROVE Moves
  BY <1>1, <1>3 DEF LockStep, Leave, Read
<1>4. ASSUME NEW c \in Cmd, Enter(c) PROVE Moves
  <2>1. Starts(c, caller[c]) /\ caller[c] \in Cmd \cup {NoCmd}
    BY <1>4 DEF Enter, LInv, CallerInv, Starts
  <2> QED
    BY <2>1 DEF Moves
<1>5. ASSUME NEW c \in Cmd, TxStep(c) PROVE Moves
  BY <1>5 DEF TxStep, Moves, Next
<1>6. CASE Tick \/ UNCHANGED lockedVars
  BY <1>1, <1>6 DEF Tick, lockedVars
<1> QED
  BY <1>2, <1>3, <1>4, <1>5, <1>6 DEF LockedNext

(* Behind the lock, where a nested command may start long after its caller *)
(* has called it, each unit of work keeps its promise nevertheless.        *)
(* (PipelineExecutor L66-67, TransactionalBehavior L32-63)                 *)
THEOREM LockedImplements ==
  ASSUME HasDataSource
  PROVE  LockedSpec => KeepsPromise
<1>1. LInv /\ [LockedNext]_lockedVars => [Promise!Next]_(Promise!vars)
  BY LockedMoves, PromiseStep DEF LInv, TxPart
<1>2. LockedInit => Promise!Init
  BY PromiseInit DEF LockedInit
<1> QED
  BY <1>1, <1>2, LockedInvariant, PTL DEF LockedSpec, KeepsPromise, Promise!Spec

(* The properties of the transactions hold there as well, with or without  *)
(* a DataSource.                                                           *)
THEOREM UnitsHold ==
    LockedSpec => []( RunnerOfUnit /\ ConnectionLifecycle
                      /\ SuccessIsDurable /\ FailureLeavesNothing )
<1>1. TypeOK /\ IInv => RunnerOfUnit /\ ConnectionLifecycle /\ SuccessIsDurable /\ FailureLeavesNothing
  <2>1. IInv => RunnerOfUnit /\ ConnectionLifecycle
    BY DEF IInv, RunnerInv, RunnerOK, RunnerOfUnit, TxInv, TxOK, ConnectionLifecycle
  <2>2. TypeOK /\ IInv => SuccessIsDurable /\ FailureLeavesNothing
    BY DEF TypeOK, IInv, OutcomeInv, OutcomeOK, SuccessIsDurable, FailureLeavesNothing, Created
  <2> QED
    BY <2>1, <2>2
<1>2. ~HasDataSource /\ Bare
         => RunnerOfUnit /\ ConnectionLifecycle /\ SuccessIsDurable /\ FailureLeavesNothing
  BY CmdAssumption
     DEF Bare, RunnerOfUnit, ConnectionLifecycle, SuccessIsDurable, FailureLeavesNothing, Created,
         Owns
<1>3. LInv => RunnerOfUnit /\ ConnectionLifecycle /\ SuccessIsDurable /\ FailureLeavesNothing
  BY <1>1, <1>2 DEF LInv, TxPart
<1> QED
  BY <1>3, LockedInvariant, PTL

-----------------------------------------------------------------------------
(* The locks are those of DistributedLock, whose theorems carry over.      *)
Locks == INSTANCE DistributedLock_proofs
           WITH pc <- lockPc, reply <- lockReply, mishap <- lockMishap, Faults <- LockFaults

(* Its assumption follows from that of the composition.                    *)
LEMMA LocksAssumption == Locks!LockAssumption
  BY LockedAssumption, CmdAssumption DEF Locks!LockAssumption, Locks!AllFaults, Lock!AllFaults

(* What the composition does to the locks is a step of DistributedLock, or *)
(* nothing: its next() settles to what the transaction has replied.        *)
LEMMA LockMoves ==
  ASSUME LInv, [LockedNext]_lockedVars
  PROVE  [Locks!Next]_(Locks!vars)
<1>1. ASSUME UNCHANGED lockVars PROVE UNCHANGED Locks!vars
  BY <1>1 DEF lockVars, Locks!vars
<1>2. ASSUME NEW c \in Cmd, NEW p \in Cmd \cup {NoCmd}, Call(c, p) PROVE Locks!Next
  BY <1>2 DEF Call, Locks!Next, Lock!Call, Locks!Call, Lock!Goto, Locks!Goto,
              Lock!TryOrGiveUp, Locks!TryOrGiveUp, Lock!Settle, Locks!Settle
<1>3. ASSUME NEW c \in Cmd, LockStep(c) PROVE Locks!Next
  <2>1. CASE Lock!SetNX(c) \/ Lock!Answer(c) \/ Lock!WakeUp(c) \/ Lock!Release(c)
    <3>1. Locks!Proceed(c)
      BY <2>1 DEF Locks!Proceed, Lock!SetNX, Locks!SetNX, Lock!Answer, Locks!Answer,
         Lock!WakeUp, Locks!WakeUp, Lock!TryOrGiveUp, Locks!TryOrGiveUp, Lock!Release,
         Locks!Release, Lock!Delete, Locks!Delete, Lock!Absent, Locks!Absent, Lock!Goto,
         Locks!Goto, Lock!Settle, Locks!Settle
    <3> QED
      BY <3>1 DEF Locks!Next
  <2>2. CASE Lock!Resend(c) \/ Lock!SetFails(c) \/ Lock!ReleaseFails(c)
    <3>1. Locks!Fail(c)
      BY <2>2 DEF Locks!Fail, Lock!Resend, Locks!Resend, Lock!SetFails, Locks!SetFails,
         Lock!ReleaseFails, Locks!ReleaseFails, Lock!Delete, Locks!Delete, Lock!Absent,
         Locks!Absent, Lock!Goto, Locks!Goto, Lock!Settle, Locks!Settle, Lock!Suffer, Locks!Suffer
    <3> QED
      BY <3>1 DEF Locks!Next
  <2> QED
    BY <1>3, <2>1, <2>2 DEF LockStep
<1>4. ASSUME NEW c \in Cmd, Leave(c) PROVE Locks!Next
  <2>1. reply[c] \in {"success", "failure", "throw"}
    BY <1>4 DEF Leave, LInv, TxPart, TypeOK, ReplyInv
  <2>2. Locks!NextReturns(c, reply[c])
    BY <1>4 DEF Leave, Lock!NextReturns, Locks!NextReturns, Lock!Goto, Locks!Goto,
                Lock!Settle, Locks!Settle
  <2>3. Locks!Proceed(c)
    BY <2>1, <2>2 DEF Locks!Proceed
  <2> QED
    BY <2>3 DEF Locks!Next
<1>5. ASSUME NEW c \in Cmd, Enter(c) \/ Read(c) \/ TxStep(c) PROVE UNCHANGED Locks!vars
  BY <1>1, <1>5 DEF Enter, Read, TxStep
<1>6. CASE Tick
  BY <1>6 DEF Tick, Lock!Tick, Locks!Tick, Lock!Absent, Locks!Absent, Lock!Dec, Locks!Dec,
              Locks!Next
<1>7. CASE UNCHANGED lockedVars
  BY <1>1, <1>7 DEF lockedVars
<1> QED
  BY <1>2, <1>3, <1>4, <1>5, <1>6, <1>7 DEF LockedNext

(* In the composition the locks behave as DistributedLock says.            *)
THEOREM LocksImplement == LockedSpec => Locks!Spec
<1>1. LInv /\ [LockedNext]_lockedVars => [Locks!Next]_(Locks!vars)
  BY LockMoves
<1>2. LockedInit => Locks!Init
  BY DEF LockedInit, Lock!Init, Locks!Init, Lock!Absent, Locks!Absent
<1> QED
  BY <1>1, <1>2, LockedInvariant, PTL DEF LockedSpec, Locks!Spec

(* So mutual exclusion holds for commands that call each other, wait for   *)
(* each other's connections and keys, and outlive their leases in a        *)
(* transaction; a key changes hands as it does without all that; and a     *)
(* command whose transaction is over leaves no key behind.                 *)
(* (DistributedLockBehavior L27-41, L50-69)                                *)
THEOREM LocksHold ==
    LockedSpec => /\ []Lock!MutexWithinLease
                  /\ []Lock!NoOrphanLock
                  /\ Lock!OnlyOwnerReleases
<1>1. Locks!Spec => []Locks!MutexWithinLease
  BY Locks!MutualExclusion, LocksAssumption
<1>2. Locks!Spec => []Locks!NoOrphanLock
  BY Locks!NoOrphans, LocksAssumption
<1>3. Locks!Spec => Locks!OnlyOwnerReleases
  BY Locks!ReleasedByOwner, LocksAssumption
<1>4. Locks!MutexWithinLease => Lock!MutexWithinLease
  BY DEF Locks!MutexWithinLease, Lock!MutexWithinLease, Locks!Guarded, Lock!Guarded
<1>5. Locks!NoOrphanLock => Lock!NoOrphanLock
  BY DEF Locks!NoOrphanLock, Lock!NoOrphanLock
<1>6. Locks!OnlyOwnerReleases => Lock!OnlyOwnerReleases
  BY PTL DEF Locks!OnlyOwnerReleases, Lock!OnlyOwnerReleases, Locks!vars, Lock!vars,
             Locks!Absent, Lock!Absent
<1> QED
  BY <1>1, <1>2, <1>3, <1>4, <1>5, <1>6, LocksImplement, PTL
=============================================================================
