-------------------------- MODULE UnitOfWork_proofs --------------------------
(***************************************************************************)
(* Theorems about UnitOfWork, for any set of commands, dispatch tree, pool *)
(* size and faults.                                                        *)
(***************************************************************************)
EXTENDS UnitOfWork, TLAPS, WellFoundedInduction, FiniteSetTheorems

(* execute(c) may start later than p calls it, for what surrounds the      *)
(* transaction takes its time.  A caller that awaits it is still in its    *)
(* handler then; whoever does not has at least come as far as its handler. *)
Starts(c, p) ==
    /\ Inherit(c, p)
    /\ p # NoCmd => /\ p # c
                    /\ pc[p] # "idle"
                    /\ c \notin Detached => pc[p] = "handler"
                    /\ HasDataSource => pc[p] = "handler" \/ ambient[p] = unit[p]

Moves == [Next]_vars \/ \E c \in Cmd, p \in Cmd \cup {NoCmd} : Starts(c, p)

(* A dispatch is a start without delay.                                    *)
LEMMA DispatchStarts ==
  ASSUME NEW c \in Cmd, NEW p \in Cmd \cup {NoCmd}, Dispatch(c, p)
  PROVE  Starts(c, p)
  BY DEF Dispatch, Starts

LEMMA StepsMove == [Next]_vars => Moves
  BY DEF Moves

(* A step keeps the types.                                                 *)
LEMMA TypeStep == TypeOK /\ Moves => TypeOK'
<1> SUFFICES ASSUME TypeOK, Moves PROVE TypeOK'
  OBVIOUS
<1>1. ASSUME NEW c \in Cmd, NEW p \in Cmd \cup {NoCmd}, Starts(c, p) PROVE TypeOK'
  <2>1. pc' \in [Cmd -> PCs]
    BY <1>1 DEF Starts, Inherit, Goto, TypeOK, PCs
  <2>2. ambient' \in [Cmd -> Cmd \cup {NoCmd}] /\ parent' \in [Cmd -> Cmd \cup {NoCmd}]
    BY <1>1 DEF Starts, Inherit, TypeOK
  <2>3. unit' \in [Cmd -> Cmd] /\ depth' \in [Cmd -> Nat]
    BY <1>1 DEF Starts, Inherit, TypeOK
  <2> QED
    BY <1>1, <2>1, <2>2, <2>3 DEF Starts, Inherit, TypeOK
<1>2. ASSUME NEW c \in Cmd, Join(c) \/ Create(c) PROVE TypeOK'
  BY <1>2 DEF Join, Create, Goto, TypeOK, PCs, tree
<1>3. ASSUME NEW c \in Cmd, Connect(c) \/ Release(c) PROVE TypeOK'
  BY <1>3 DEF Connect, Release, Goto, TypeOK, PCs, tree
<1>4. ASSUME NEW c \in Cmd, ConnectFails(c) \/ BeginFails(c) PROVE TypeOK'
  BY <1>4 DEF ConnectFails, BeginFails, Goto, Settle, TypeOK, PCs, tree
<1>5. ASSUME NEW c \in Cmd, Begin(c) PROVE TypeOK'
  BY <1>5 DEF Begin, Goto, TypeOK, PCs, tree
<1>6. ASSUME NEW c \in Cmd, Write(c) PROVE TypeOK'
  <2>1. ASSUME NEW r \in Cmd, pending' = [pending EXCEPT ![r] = @ \cup {c}]
        PROVE pending' \in [Cmd -> SUBSET Cmd]
    <3>1. pending[r] \cup {c} \in SUBSET Cmd
      BY DEF TypeOK
    <3> QED
      BY <2>1, <3>1 DEF TypeOK
  <2>2. pending' \in [Cmd -> SUBSET Cmd] /\ durable' \subseteq Cmd
    BY <1>6, <2>1 DEF Write, TypeOK
  <2> QED
    BY <1>6, <2>2 DEF Write, TypeOK, tree
<1>7. ASSUME NEW c \in Cmd, NEW f \in {"spoiled", "inDoubt"}, NEW r \in Cmd,
             mishap' = [mishap EXCEPT ![r] = @ \cup {f}]
      PROVE mishap' \in [Cmd -> SUBSET {"spoiled", "inDoubt"}]
  <2>1. mishap[r] \cup {f} \in SUBSET {"spoiled", "inDoubt"}
    BY DEF TypeOK
  <2> QED
    BY <1>7, <2>1 DEF TypeOK
<1>8. ASSUME NEW c \in Cmd, StatementFails(c) PROVE TypeOK'
  <2>1. ambient[c] \in Cmd
    BY <1>8 DEF StatementFails, TypeOK
  <2>2. mishap' \in [Cmd -> SUBSET {"spoiled", "inDoubt"}]
    BY <1>7, <1>8, <2>1 DEF StatementFails
  <2> QED
    BY <1>8, <2>2 DEF StatementFails, TypeOK, tree
<1>9. ASSUME NEW c \in Cmd, NEW o \in {"success", "failure", "throw"}, HandlerReturns(c, o)
      PROVE TypeOK'
  <2>1. pc' \in [Cmd -> PCs] /\ reply' \in [Cmd -> {"none", "success", "failure", "throw"}]
    BY <1>9 DEF HandlerReturns, Goto, Settle, TypeOK, PCs
  <2> QED
    BY <1>9, <2>1 DEF HandlerReturns, TypeOK, tree
<1>10. ASSUME NEW c \in Cmd, NEW rows \in SUBSET Cmd, End(c, rows)
       PROVE /\ tx' \in [Cmd -> {"none", "active", "aborted", "ended"}]
             /\ durable' \subseteq Cmd
             /\ pending' \in [Cmd -> SUBSET Cmd]
  BY <1>10 DEF End, TypeOK
<1>11. ASSUME NEW c \in Cmd PROVE Committed(c) \in SUBSET Cmd
  BY DEF Committed, TypeOK
<1>12. ASSUME NEW c \in Cmd, Commit(c) \/ Rollback(c) \/ RollbackFails(c) \/ CommitFails(c)
       PROVE TypeOK'
  <2>1. /\ pc' \in [Cmd -> PCs] /\ reply' \in [Cmd -> {"none", "success", "failure", "throw"}]
        /\ UNCHANGED <<tree, ambient, held, wrote, mishap>>
    BY <1>12 DEF Commit, Rollback, RollbackFails, CommitFails, Goto, Settle, TypeOK, PCs
  <2>2. PICK rows \in SUBSET Cmd : End(c, rows)
    BY <1>11, <1>12 DEF Commit, Rollback, RollbackFails, CommitFails
  <2> QED
    BY <1>10, <2>1, <2>2 DEF TypeOK, tree
<1>13. ASSUME NEW c \in Cmd, CommitReplyLost(c) PROVE TypeOK'
  <2>1. pc' \in [Cmd -> PCs]
    BY <1>13 DEF CommitReplyLost, Goto, TypeOK, PCs
  <2>2. mishap' \in [Cmd -> SUBSET {"spoiled", "inDoubt"}]
    BY <1>7, <1>13 DEF CommitReplyLost
  <2> QED
    BY <1>10, <1>11, <1>13, <2>1, <2>2 DEF CommitReplyLost, TypeOK, tree
<1>14. CASE UNCHANGED vars
  BY <1>14 DEF vars, TypeOK
<1> QED
  BY <1>1, <1>2, <1>3, <1>4, <1>5, <1>6, <1>8, <1>9, <1>12, <1>13, <1>14, DispatchStarts
     DEF Moves, Next, Proceed, Fail, Quiescent

(* Every variable has its type.                                            *)
THEOREM TypeCorrect == Spec => []TypeOK
<1>1. Init => TypeOK
  BY CmdAssumption DEF Init, TypeOK, PCs
<1> QED
  BY <1>1, TypeStep, StepsMove, PTL DEF Spec

-----------------------------------------------------------------------------
(* What a command that has not been executed yet cannot have done.         *)
IdleInv ==
    \A c \in Cmd : pc[c] = "idle" =>
        /\ unit[c] = c
        /\ c \notin wrote

(* The dispatch tree: from a command up to the one that opens its unit,    *)
(* every step leads to a dispatcher of the same unit, one level higher.    *)
TreeInv ==
    \A c \in Cmd :
        /\ unit[unit[c]] = unit[c]
        /\ pc[c] # "idle" => pc[unit[c]] # "idle"
        /\ parent[c] # NoCmd => pc[parent[c]] # "idle"
        /\ unit[c] # c => /\ parent[c] \in Cmd
                          /\ unit[parent[c]] = unit[c]
                          /\ depth[parent[c]] < depth[c]

(* While an awaited command runs, its dispatcher's handler does.           *)
AwaitInv ==
    \A c \in Cmd \ Detached :
        Running(c) /\ parent[c] # NoCmd => pc[parent[c]] = "handler"

(* Which QueryRunner is ambient, by where the command stands.              *)
RunnerOK(c) ==
    /\ pc[c] = "idle" => ambient[c] = NoCmd
    /\ pc[c] = "called" => IF Joins(c) THEN ambient[c] = unit[c] /\ unit[c] # c
                                       ELSE ambient[c] # c /\ unit[c] = c
    /\ pc[c] \in {"connect", "begin"} => ambient[c] # c /\ unit[c] = c
    /\ pc[c] = "handler" => ambient[c] = unit[c]
    /\ pc[c] \in {"commit", "rollback", "catch", "release"} => Owns(c)
    /\ Owns(c) => unit[c] = c

RunnerInv == \A c \in Cmd : RunnerOK(c)

(* The transaction and the connection of the QueryRunner c creates.        *)
TxOK(c) ==
    /\ Owns(c) <=> tx[c] # "none"
    /\ pc[c] = "handler" /\ Owns(c) => tx[c] \in {"active", "aborted"}
    /\ pc[c] \in {"commit", "rollback"} => tx[c] \in {"active", "aborted"}
    /\ pc[c] \in {"release", "done"} => tx[c] \in {"none", "ended"}
    /\ tx[c] \in {"active", "aborted"} => c \in held
    /\ c \in held => unit[c] = c /\ pc[c] \notin {"idle", "called", "connect"}
    /\ pc[c] = "begin" => c \in held
    /\ c \in held /\ pc[c] = "done" => tx[c] = "none" /\ reply[c] = "throw"

TxInv == \A c \in Cmd : TxOK(c)

(* A promise settles at the end.                                           *)
ReplyInv == \A c \in Cmd : reply[c] # "none" <=> pc[c] \in {"release", "done"}

(* Nothing befalls a transaction before it is aborted or over.             *)
MishapInv == \A c \in Cmd : tx[c] \in {"none", "active"} => mishap[c] = {}

(* The rows of a unit nobody joined unawaited, by its transaction.         *)
RowsOK(u) ==
    unit[u] = u /\ Supervised(u) =>
        /\ tx[u] = "none" => RowsOf(u) = {}
        /\ tx[u] = "active" => RowsOf(u) = pending[u]
        /\ tx[u] \in {"active", "aborted"} => RowsOf(u) \cap durable = {}
        /\ tx[u] = "ended" => RowsOf(u) \subseteq durable \/ RowsOf(u) \cap durable = {}

RowsInv ==
    /\ durable \subseteq wrote
    /\ \A c \in Cmd : pending[c] \subseteq RowsOf(c)
    /\ \A u \in Cmd : RowsOK(u)

(* What the creator reports, or is about to, and what became of the rows.  *)
OutcomeOK(u) ==
    Owns(u) =>
        /\ tx[u] = "aborted" => "spoiled" \in mishap[u]
        /\ Supervised(u) =>
              /\ pc[u] = "catch" /\ tx[u] = "ended" /\ "inDoubt" \notin mishap[u]
                    => RowsOf(u) \cap durable = {}
              /\ reply[u] = "success" /\ "spoiled" \notin mishap[u]
                    => RowsOf(u) \subseteq durable
              /\ reply[u] \in {"failure", "throw"} /\ "inDoubt" \notin mishap[u]
                    => RowsOf(u) \cap durable = {}

OutcomeInv == \A u \in Cmd : OutcomeOK(u)

IInv ==
    /\ IdleInv /\ TreeInv /\ AwaitInv /\ RunnerInv
    /\ TxInv /\ ReplyInv /\ MishapInv
    /\ RowsInv /\ OutcomeInv

-----------------------------------------------------------------------------
(* Every set of naturals that is not empty has a least element.            *)
LEMMA Smallest ==
  ASSUME NEW S, S \subseteq Nat, S # {}
  PROVE  \E m \in S : \A n \in S : m <= n
<1> DEFINE R == OpToRel(<, Nat)
<1>1. IsWellFoundedOn(R, Nat)
  BY NatLessThanWellFounded
<1>2. PICK m \in S : \A n \in S : <<n, m>> \notin R
  <2> HIDE DEF R
  <2> QED
    BY <1>1, WFMin
<1>3. \A n \in S : ~(n < m)
  BY <1>2 DEF OpToRel
<1> QED
  BY <1>3

(* As long as a command of a unit runs that nobody joined unawaited, the   *)
(* handler of the command that opened the unit does, however deep the      *)
(* nesting: otherwise take the highest running command below it; its       *)
(* dispatcher runs as well and is higher.                                  *)
LEMMA OpenerWaits ==
  ASSUME TypeOK, TreeInv, AwaitInv, NEW u \in Cmd, Supervised(u),
         NEW c \in Cmd, unit[c] = u, c # u, Running(c)
  PROVE  pc[u] = "handler"
<1> SUFFICES ASSUME pc[u] # "handler" PROVE FALSE
  OBVIOUS
<1> DEFINE Below == {x \in Cmd : unit[x] = u /\ x # u /\ Running(x)}
           Depths == {depth[x] : x \in Below}
<1>1. Depths \subseteq Nat /\ Depths # {}
  BY DEF TypeOK
<1>2. PICK m \in Depths : \A n \in Depths : m <= n
  <2> HIDE DEF Depths
  <2> QED
    BY <1>1, Smallest
<1>3. PICK x \in Below : depth[x] = m
  OBVIOUS
<1>4. x \notin Detached
  BY <1>3 DEF Supervised
<1>5. parent[x] \in Cmd /\ unit[parent[x]] = u /\ depth[parent[x]] < depth[x]
  BY <1>3 DEF TreeInv
<1>6. pc[parent[x]] = "handler"
  BY <1>3, <1>4, <1>5, CmdAssumption DEF AwaitInv
<1>7. parent[x] \in Below
  BY <1>5, <1>6 DEF Running
<1>8. depth[parent[x]] \in Nat /\ depth[x] \in Nat
  BY <1>3, <1>5 DEF TypeOK
<1> QED
  BY <1>2, <1>3, <1>5, <1>7, <1>8

-----------------------------------------------------------------------------
(* The initial states satisfy every part of the invariant.                 *)
LEMMA InitIInv == Init => IInv
  BY CmdAssumption
     DEF Init, IInv, IdleInv, TreeInv, AwaitInv, RunnerInv, RunnerOK, TxInv, TxOK, ReplyInv,
         MishapInv, RowsInv, RowsOK, OutcomeInv, OutcomeOK, Running, Owns, RowsOf, Supervised

Step(c) == Proceed(c) \/ Fail(c)

(* What any step of a command leaves alone.                                *)
LEMMA Frame ==
  ASSUME TypeOK, NEW c \in Cmd, Step(c)
  PROVE  /\ UNCHANGED tree
         /\ Running(c) /\ pc'[c] # "idle"
         /\ \A x \in Cmd \ {c} : /\ pc'[x] = pc[x]
                                 /\ reply'[x] = reply[x]
                                 /\ ambient'[x] = ambient[x]
                                 /\ x \in held' <=> x \in held
         /\ pc[c] # "handler" => wrote' = wrote
         /\ wrote' \subseteq wrote \cup {c}
         /\ pc[c] = "handler" /\ pc'[c] # "handler" => Awaited(c) = {}
<1>1. CASE Join(c) \/ Create(c) \/ Connect(c) \/ ConnectFails(c) \/ Begin(c) \/ BeginFails(c)
  BY <1>1 DEF Join, Create, Connect, ConnectFails, Begin, BeginFails, Goto, Settle, Running, TypeOK
<1>2. CASE Write(c) \/ StatementFails(c)
  BY <1>2 DEF Write, StatementFails, Running, TypeOK
<1>3. CASE \E o \in {"success", "failure", "throw"} : HandlerReturns(c, o)
  BY <1>3 DEF HandlerReturns, Goto, Settle, Running, TypeOK
<1>4. CASE Commit(c) \/ CommitFails(c) \/ CommitReplyLost(c)
  BY <1>4 DEF Commit, CommitFails, CommitReplyLost, Goto, Settle, Running, TypeOK
<1>5. CASE Rollback(c) \/ RollbackFails(c) \/ Release(c)
  BY <1>5 DEF Rollback, RollbackFails, Release, Goto, Settle, Running, TypeOK
<1> QED
  BY <1>1, <1>2, <1>3, <1>4, <1>5 DEF Step, Proceed, Fail

(* A step keeps IdleInv: nothing happens to a command before its dispatch. *)
LEMMA IdleStep == TypeOK /\ IdleInv /\ Moves => IdleInv'
<1> SUFFICES ASSUME TypeOK, IdleInv, Moves PROVE IdleInv'
  OBVIOUS
<1>1. ASSUME NEW c \in Cmd, NEW p \in Cmd \cup {NoCmd}, Starts(c, p) PROVE IdleInv'
  BY <1>1 DEF Starts, Inherit, Goto, TypeOK, IdleInv
<1>2. ASSUME NEW c \in Cmd, Step(c) PROVE IdleInv'
  BY <1>2, Frame DEF IdleInv, Running, tree
<1>3. CASE UNCHANGED vars
  BY <1>3 DEF vars, IdleInv
<1> QED
  BY <1>1, <1>2, <1>3, DispatchStarts DEF Moves, Next, Step, Quiescent

(* A step keeps TreeInv: only a dispatch changes the tree, at a fresh      *)
(* leaf.                                                                   *)
LEMMA TreeStep == TypeOK /\ IdleInv /\ TreeInv /\ Moves => TreeInv'
<1> SUFFICES ASSUME TypeOK, IdleInv, TreeInv, Moves PROVE TreeInv'
  OBVIOUS
<1>1. ASSUME NEW c \in Cmd, NEW p \in Cmd \cup {NoCmd}, Starts(c, p) PROVE TreeInv'
  <2>1. /\ pc[c] = "idle" /\ unit[c] = c
        /\ pc' = [pc EXCEPT ![c] = "called"]
        /\ parent' = [parent EXCEPT ![c] = p]
        /\ p # NoCmd => p \in Cmd /\ p # c /\ pc[p] # "idle"
        /\ unit' = [unit EXCEPT ![c] = IF p = NoCmd \/ c \in Isolated THEN c ELSE unit[p]]
        /\ depth' = [depth EXCEPT ![c] = IF p = NoCmd THEN 0 ELSE depth[p] + 1]
    BY <1>1 DEF Starts, Inherit, Goto, IdleInv
  <2> SUFFICES ASSUME NEW x \in Cmd
               PROVE  /\ unit'[unit'[x]] = unit'[x]
                      /\ pc'[x] # "idle" => pc'[unit'[x]] # "idle"
                      /\ parent'[x] # NoCmd => pc'[parent'[x]] # "idle"
                      /\ unit'[x] # x => /\ parent'[x] \in Cmd
                                         /\ unit'[parent'[x]] = unit'[x]
                                         /\ depth'[parent'[x]] < depth'[x]
    BY DEF TreeInv
  <2>2. CASE x = c
    <3>1. CASE p = NoCmd
      BY <2>1, <2>2, <3>1 DEF TypeOK
    <3>2. CASE p # NoCmd
      <4>1. unit[p] \in Cmd /\ pc[unit[p]] # "idle" /\ unit[unit[p]] = unit[p] /\ depth[p] \in Nat
        BY <2>1, <3>2 DEF TypeOK, TreeInv
      <4> QED
        BY <2>1, <2>2, <3>2, <4>1 DEF TypeOK
    <3> QED
      BY <3>1, <3>2
  <2>3. CASE x # c
    <3>1. unit[x] \in Cmd /\ unit'[x] = unit[x] /\ parent'[x] = parent[x] /\ depth'[x] = depth[x]
      BY <2>1, <2>3 DEF TypeOK
    <3>2. unit[x] # c
      <4>1. CASE pc[x] = "idle"
        BY <2>3, <4>1 DEF IdleInv
      <4>2. CASE pc[x] # "idle"
        BY <2>1, <4>2 DEF TreeInv
      <4> QED
        BY <4>1, <4>2
    <3>3. parent[x] # NoCmd => parent[x] # c /\ parent[x] \in Cmd
      BY <2>1 DEF TreeInv, TypeOK
    <3>4. \A y \in Cmd \ {c} : unit'[y] = unit[y] /\ depth'[y] = depth[y] /\ pc'[y] = pc[y]
      BY <2>1 DEF TypeOK
    <3> QED
      BY <2>3, <3>1, <3>2, <3>3, <3>4, CmdAssumption DEF TreeInv
  <2> QED
    BY <2>2, <2>3
<1>2. ASSUME NEW c \in Cmd, Step(c) PROVE TreeInv'
  <2>1. UNCHANGED <<parent, unit, depth>> /\ \A x \in Cmd : pc[x] # "idle" => pc'[x] # "idle"
    BY <1>2, Frame DEF tree
  <2>2. \A x \in Cmd : pc[x] = "idle" => pc'[x] = "idle"
    BY <1>2, Frame DEF Running
  <2>3. \A x \in Cmd : unit[x] \in Cmd /\ parent[x] \in Cmd \cup {NoCmd}
    BY DEF TypeOK
  <2> QED
    BY <2>1, <2>2, <2>3 DEF TreeInv
<1>3. CASE UNCHANGED vars
  BY <1>3 DEF vars, TreeInv
<1> QED
  BY <1>1, <1>2, <1>3, DispatchStarts DEF Moves, Next, Step, Quiescent

(* A step keeps AwaitInv: a handler does not return before what it awaits. *)
LEMMA AwaitStep == TypeOK /\ TreeInv /\ AwaitInv /\ Moves => AwaitInv'
<1> SUFFICES ASSUME TypeOK, TreeInv, AwaitInv, Moves,
                    NEW x \in Cmd \ Detached, Running(x)', parent'[x] # NoCmd
             PROVE  pc'[parent'[x]] = "handler"
  BY DEF AwaitInv
<1>1. ASSUME NEW c \in Cmd, NEW p \in Cmd \cup {NoCmd}, Starts(c, p)
      PROVE pc'[parent'[x]] = "handler"
  <2>1. CASE x = c
    BY <1>1, <2>1 DEF Starts, Inherit, Goto, TypeOK
  <2>2. CASE x # c
    <3>1. Running(x) /\ parent'[x] = parent[x]
      BY <1>1, <2>2 DEF Starts, Inherit, Goto, TypeOK, Running
    <3>2. pc[parent[x]] = "handler" /\ parent[x] # c
      BY <1>1, <3>1 DEF AwaitInv, Starts, Inherit
    <3> QED
      BY <1>1, <3>1, <3>2 DEF Starts, Inherit, Goto, TypeOK
  <2> QED
    BY <2>1, <2>2
<1>2. ASSUME NEW c \in Cmd, Step(c) PROVE pc'[parent'[x]] = "handler"
  <2>1. Running(x) /\ parent'[x] = parent[x]
    BY <1>2, Frame DEF Running, tree
  <2>2. pc[parent[x]] = "handler" /\ parent[x] \in Cmd
    BY <2>1 DEF AwaitInv, TypeOK
  <2>3. CASE parent[x] = c
    BY <1>2, <2>1, <2>2, <2>3, Frame DEF Awaited
  <2>4. CASE parent[x] # c
    BY <1>2, <2>1, <2>2, <2>4, Frame
  <2> QED
    BY <2>3, <2>4
<1>3. CASE UNCHANGED vars
  BY <1>3 DEF vars, AwaitInv, Running
<1> QED
  BY <1>1, <1>2, <1>3, DispatchStarts DEF Moves, Next, Step, Quiescent

(* A step keeps RunnerInv: TransactionContext hands a handler the          *)
(* QueryRunner of its unit.                                                *)
LEMMA RunnerStep ==
  HasDataSource /\ TypeOK /\ IdleInv /\ TreeInv /\ RunnerInv /\ Moves => RunnerInv'
<1> SUFFICES ASSUME HasDataSource, TypeOK, IdleInv, TreeInv, RunnerInv, Moves,
                    NEW x \in Cmd
             PROVE  RunnerOK(x)'
  BY DEF RunnerInv, RunnerOK
<1>0. RunnerOK(x) /\ ambient[x] \in Cmd \cup {NoCmd}
  BY DEF RunnerInv, RunnerOK, TypeOK
<1>1. ASSUME NEW c \in Cmd, NEW p \in Cmd \cup {NoCmd}, Starts(c, p) PROVE RunnerOK(x)'
  <2>1. CASE x # c
    <3>1. pc'[x] = pc[x] /\ ambient'[x] = ambient[x] /\ unit'[x] = unit[x]
      BY <1>1, <2>1 DEF Starts, Inherit, Goto, TypeOK
    <3> QED
      BY <1>0, <3>1 DEF RunnerOK, Joins, Owns
  <2>2. CASE x = c /\ p = NoCmd
    <3>1. pc'[c] = "called" /\ ambient'[c] = NoCmd /\ unit'[c] = c
      BY <1>1, <2>2 DEF Starts, Inherit, Goto, TypeOK
    <3> QED
      BY <2>2, <3>1, CmdAssumption DEF RunnerOK, Joins, Owns
  <2>3. CASE x = c /\ p # NoCmd
    <3>1. /\ pc'[c] = "called" /\ ambient'[c] = ambient[p] /\ pc[c] = "idle"
          /\ pc[p] # "idle" /\ (pc[p] = "handler" \/ ambient[p] = unit[p])
          /\ unit'[c] = IF c \in Isolated THEN c ELSE unit[p]
      BY <1>1, <2>3 DEF Starts, Inherit, Goto, TypeOK
    <3>2. ambient[p] = unit[p] /\ unit[p] \in Cmd /\ unit[p] # c
      BY <2>3, <3>1 DEF RunnerInv, RunnerOK, TreeInv, TypeOK
    <3> QED
      BY <2>3, <3>1, <3>2, CmdAssumption DEF RunnerOK, Joins, Owns
  <2> QED
    BY <2>1, <2>2, <2>3
<1>2. ASSUME NEW c \in Cmd, Step(c), x # c PROVE RunnerOK(x)'
  BY <1>0, <1>2, Frame DEF RunnerOK, Joins, Owns, tree
<1>3. CASE Join(x) \/ Create(x) \/ Connect(x) \/ ConnectFails(x) \/ Begin(x) \/ BeginFails(x)
  BY <1>0, <1>3
     DEF Join, Create, Connect, ConnectFails, Begin, BeginFails, Goto, TypeOK, tree, RunnerOK,
         Joins, Owns
<1>4. CASE Write(x) \/ StatementFails(x)
  BY <1>0, <1>4 DEF Write, StatementFails, tree, RunnerOK, Joins, Owns
<1>5. CASE \E o \in {"success", "failure", "throw"} : HandlerReturns(x, o)
  BY <1>0, <1>5 DEF HandlerReturns, Goto, TypeOK, tree, RunnerOK, Joins, Owns
<1>6. CASE Commit(x) \/ CommitFails(x) \/ CommitReplyLost(x)
  BY <1>0, <1>6 DEF Commit, CommitFails, CommitReplyLost, Goto, TypeOK, tree, RunnerOK, Joins, Owns
<1>7. CASE Rollback(x) \/ RollbackFails(x) \/ Release(x)
  BY <1>0, <1>7 DEF Rollback, RollbackFails, Release, Goto, TypeOK, tree, RunnerOK, Joins, Owns
<1>8. CASE UNCHANGED vars
  BY <1>0, <1>8 DEF vars, RunnerOK, Joins, Owns
<1> QED
  BY <1>1, <1>2, <1>3, <1>4, <1>5, <1>6, <1>7, <1>8, DispatchStarts
     DEF Moves, Next, Step, Proceed, Fail, Quiescent

(* A step keeps TxInv: transaction and connection follow the try, catch    *)
(* and finally.                                                            *)
LEMMA TransactionStep ==
  HasDataSource /\ TypeOK /\ IdleInv /\ RunnerInv /\ TreeInv /\ TxInv /\ Moves => TxInv'
<1> SUFFICES ASSUME HasDataSource, TypeOK, IdleInv, RunnerInv, TreeInv, TxInv, Moves,
                    NEW x \in Cmd
             PROVE  TxOK(x)'
  BY DEF TxInv, TxOK
<1>0. TxOK(x) /\ RunnerOK(x) /\ tx[x] \in {"none", "active", "aborted", "ended"}
  BY DEF TxInv, TxOK, RunnerInv, RunnerOK, TypeOK
<1>1. ASSUME NEW c \in Cmd, NEW p \in Cmd \cup {NoCmd}, Starts(c, p) PROVE TxOK(x)'
  <2>1. CASE x # c
    <3>1. /\ pc'[x] = pc[x] /\ ambient'[x] = ambient[x] /\ unit'[x] = unit[x]
          /\ UNCHANGED <<tx, held, reply>>
      BY <1>1, <2>1 DEF Starts, Inherit, Goto, TypeOK
    <3> QED
      BY <1>0, <3>1 DEF TxOK, Owns
  <2>2. CASE x = c
    <3>1. ambient'[c] # c
      <4>1. CASE p = NoCmd
        BY <1>1, <4>1, CmdAssumption DEF Starts, Inherit, TypeOK
      <4>2. CASE p # NoCmd
        <5>1. ambient[p] = unit[p] /\ pc[unit[p]] # "idle"
          BY <1>1, <4>2 DEF Starts, Inherit, RunnerInv, RunnerOK, TreeInv
        <5> QED
          BY <1>1, <4>2, <5>1 DEF Starts, Inherit, TypeOK
      <4> QED
        BY <4>1, <4>2
    <3>2. ambient[c] = NoCmd /\ tx[c] = "none" /\ c \notin held
      BY <1>0, <1>1, <2>2, CmdAssumption DEF TxOK, RunnerOK, Owns, Starts, Inherit
    <3>3. pc'[c] = "called" /\ UNCHANGED <<tx, held>>
      BY <1>1 DEF Starts, Inherit, Goto, TypeOK
    <3> QED
      BY <2>2, <3>1, <3>2, <3>3 DEF TxOK, Owns
  <2> QED
    BY <2>1, <2>2
<1>2. ASSUME NEW c \in Cmd, Step(c), x # c PROVE TxOK(x)'
  <2>1. CASE tx'[x] = tx[x]
    BY <1>0, <1>2, <2>1, Frame DEF TxOK, Owns, tree
  <2>2. CASE tx'[x] # tx[x]
    <3>1. StatementFails(c) /\ ambient[c] = x /\ tx[x] = "active" /\ tx'[x] = "aborted"
      BY <1>2, <2>2
         DEF Step, Proceed, Fail, Join, Create, Connect, ConnectFails, Begin, BeginFails, Write,
             StatementFails, HandlerReturns, Commit, CommitFails, CommitReplyLost, Rollback,
             RollbackFails, Release, End, TypeOK
    <3> QED
      BY <1>0, <1>2, <3>1, Frame DEF TxOK, Owns, tree
  <2> QED
    BY <2>1, <2>2
<1>3. CASE Join(x) \/ Create(x) \/ Connect(x) \/ ConnectFails(x)
  BY <1>0, <1>3
     DEF Join, Create, Connect, ConnectFails, Goto, Settle, TypeOK, tree, RunnerOK, TxOK, Joins,
         Owns
<1>4. CASE Begin(x) \/ BeginFails(x)
  <2>1. tx[x] = "none" /\ unit[x] = x /\ pc[x] = "begin"
    BY <1>0, <1>4 DEF Begin, BeginFails, RunnerOK, TxOK, Owns
  <2>2. CASE BeginFails(x)
    BY <1>0, <2>1, <2>2 DEF BeginFails, Goto, Settle, TypeOK, tree, TxOK, Owns
  <2>3. CASE Begin(x)
    <3>1. x \in held
      BY <1>0, <2>1 DEF TxOK
    <3> QED
      BY <1>0, <2>1, <2>3, <3>1 DEF Begin, Goto, TypeOK, tree, TxOK, Owns
  <2> QED
    BY <1>4, <2>2, <2>3
<1>5. CASE Write(x) \/ StatementFails(x)
  BY <1>0, <1>5 DEF Write, StatementFails, tree, TxOK, Owns, TypeOK
<1>6. CASE \E o \in {"success", "failure", "throw"} : HandlerReturns(x, o)
  BY <1>0, <1>6 DEF HandlerReturns, Goto, Settle, TypeOK, tree, RunnerOK, TxOK, Owns
<1>7. CASE Commit(x) \/ CommitFails(x) \/ CommitReplyLost(x)
  BY <1>0, <1>7
     DEF Commit, CommitFails, CommitReplyLost, End, Goto, TypeOK, tree, RunnerOK, TxOK, Owns
<1>8. CASE Rollback(x) \/ RollbackFails(x) \/ Release(x)
  BY <1>0, <1>8 DEF Rollback, RollbackFails, Release, End, Goto, TypeOK, tree, RunnerOK, TxOK, Owns
<1>9. CASE UNCHANGED vars
  BY <1>0, <1>9 DEF vars, TxOK, Owns
<1> QED
  BY <1>1, <1>2, <1>3, <1>4, <1>5, <1>6, <1>7, <1>8, <1>9, DispatchStarts
     DEF Moves, Next, Step, Proceed, Fail, Quiescent

(* A step keeps ReplyInv: nothing settles before the end.                  *)
LEMMA ReplyStep == TypeOK /\ ReplyInv /\ Moves => ReplyInv'
<1> SUFFICES ASSUME TypeOK, ReplyInv, Moves PROVE ReplyInv'
  OBVIOUS
<1>1. ASSUME NEW c \in Cmd, NEW p \in Cmd \cup {NoCmd}, Starts(c, p) PROVE ReplyInv'
  BY <1>1 DEF Starts, Inherit, Goto, TypeOK, ReplyInv
<1>2. ASSUME NEW c \in Cmd, Step(c) PROVE ReplyInv'
  <2>1. reply[c] # "none" <=> pc[c] \in {"release", "done"}
    BY DEF ReplyInv
  <2>2. reply'[c] # "none" <=> pc'[c] \in {"release", "done"}
    BY <1>2, <2>1
       DEF Step, Proceed, Fail, Join, Create, Connect, ConnectFails, Begin, BeginFails, Write,
           StatementFails, HandlerReturns, Commit, CommitFails, CommitReplyLost, Rollback,
           RollbackFails, Release, Goto, Settle, TypeOK
  <2> QED
    BY <1>2, <2>2, Frame DEF ReplyInv
<1>3. CASE UNCHANGED vars
  BY <1>3 DEF vars, ReplyInv
<1> QED
  BY <1>1, <1>2, <1>3, DispatchStarts DEF Moves, Next, Step, Quiescent

(* A step keeps MishapInv: only StatementFails and CommitReplyLost record  *)
(* something, and a transaction is not begun twice.                        *)
LEMMA MishapStep ==
  HasDataSource /\ TypeOK /\ RunnerInv /\ TxInv /\ MishapInv /\ Moves => MishapInv'
<1> SUFFICES ASSUME HasDataSource, TypeOK, RunnerInv, TxInv, MishapInv, Moves PROVE MishapInv'
  OBVIOUS
<1>1. ASSUME NEW c \in Cmd, NEW p \in Cmd \cup {NoCmd}, Starts(c, p) PROVE MishapInv'
  BY <1>1 DEF Starts, Inherit, MishapInv
<1>2. ASSUME NEW c \in Cmd, Step(c) PROVE MishapInv'
  <2>1. CASE Begin(c)
    <3>1. tx[c] = "none"
      BY <2>1 DEF Begin, RunnerInv, RunnerOK, TxInv, TxOK, Owns, TypeOK
    <3> QED
      BY <2>1, <3>1 DEF Begin, MishapInv, TypeOK
  <2>2. CASE ~Begin(c)
    <3>1. ASSUME NEW u \in Cmd, tx'[u] \in {"none", "active"}
          PROVE  tx[u] = tx'[u] /\ mishap'[u] = mishap[u]
      BY <1>2, <2>2, <3>1
         DEF Step, Proceed, Fail, Join, Create, Connect, ConnectFails, BeginFails, Write,
             StatementFails, HandlerReturns, Commit, CommitFails, CommitReplyLost, Rollback,
             RollbackFails, Release, End, TypeOK
    <3> QED
      BY <3>1 DEF MishapInv
  <2> QED
    BY <2>1, <2>2
<1>3. CASE UNCHANGED vars
  BY <1>3 DEF vars, MishapInv
<1> QED
  BY <1>1, <1>2, <1>3, DispatchStarts DEF Moves, Next, Step, Quiescent

-----------------------------------------------------------------------------
Structure == TypeOK /\ IdleInv /\ TreeInv /\ AwaitInv /\ RunnerInv /\ TxInv /\ ReplyInv

(* The start of a command touches no unit's rows.                          *)
LEMMA StartRows ==
  ASSUME HasDataSource, Structure, NEW c \in Cmd, NEW p \in Cmd \cup {NoCmd}, Starts(c, p),
         NEW u \in Cmd
  PROVE  /\ RowsOf(u)' = RowsOf(u)
         /\ unit'[u] = u => unit[u] = u
         /\ Supervised(u)' => Supervised(u)
         /\ Owns(u)' => Owns(u) /\ u # c
         /\ UNCHANGED <<tx, pending, durable, reply, wrote, mishap>>
<1>1. /\ pc[c] = "idle" /\ unit[c] = c /\ c \notin wrote
      /\ \A x \in Cmd \ {c} : unit'[x] = unit[x] /\ ambient'[x] = ambient[x]
      /\ UNCHANGED <<tx, pending, durable, reply, wrote, mishap>>
  BY DEF Starts, Inherit, Structure, IdleInv, TypeOK
<1>2. ambient'[c] # c
  <2>1. CASE p = NoCmd
    BY <2>1, CmdAssumption DEF Starts, Inherit, Structure, TypeOK
  <2>2. CASE p # NoCmd
    <3>1. ambient[p] = unit[p] /\ pc[unit[p]] # "idle"
      BY <2>2 DEF Starts, Inherit, Structure, RunnerInv, RunnerOK, TreeInv
    <3> QED
      BY <1>1, <2>2, <3>1 DEF Starts, Inherit, Structure, TypeOK
  <2> QED
    BY <2>1, <2>2
<1>3. wrote \subseteq Cmd
  BY DEF Structure, TypeOK
<1>4. RowsOf(u)' = RowsOf(u)
  BY <1>1, <1>3 DEF RowsOf
<1>5. Supervised(u)' => Supervised(u)
  BY <1>1, CmdAssumption DEF Supervised
<1> QED
  BY <1>1, <1>2, <1>4, <1>5 DEF Owns

(* A step of a command touches the rows of the unit it belongs to only.    *)
LEMMA Elsewhere ==
  ASSUME HasDataSource, Structure, RowsInv, NEW c \in Cmd, Step(c), NEW u \in Cmd, unit[c] # u
  PROVE  /\ RowsOf(u)' = RowsOf(u)
         /\ RowsOf(u) \cap durable' = RowsOf(u) \cap durable
         /\ tx'[u] = tx[u] /\ pending'[u] = pending[u] /\ mishap'[u] = mishap[u]
         /\ pc'[u] = pc[u] \/ u = c
<1> USE DEF Structure
<1>1. RunnerOK(c) /\ c \in Cmd /\ unit[c] \in Cmd
  BY DEF RunnerInv, RunnerOK, TypeOK
<1>2. pending[c] \subseteq RowsOf(c)
  BY DEF RowsInv
<1>3. UNCHANGED unit /\ wrote' \subseteq wrote \cup {c} /\ wrote \subseteq wrote'
  BY Frame
     DEF tree, Step, Proceed, Fail, Join, Create, Connect, ConnectFails, Begin, BeginFails, Write,
         StatementFails, HandlerReturns, Commit, CommitFails, CommitReplyLost, Rollback,
         RollbackFails, Release
<1>4. RowsOf(u)' = RowsOf(u)
  BY <1>3 DEF RowsOf
<1>5. pc'[u] = pc[u] \/ u = c
  BY Frame
<1>6. CASE Join(c) \/ Create(c) \/ Connect(c) \/ ConnectFails(c) \/ BeginFails(c) \/ Release(c)
           \/ \E o \in {"success", "failure", "throw"} : HandlerReturns(c, o)
  BY <1>4, <1>5, <1>6
     DEF Join, Create, Connect, ConnectFails, BeginFails, Release, HandlerReturns
<1>7. CASE Begin(c)
  BY <1>1, <1>4, <1>5, <1>7 DEF Begin, RunnerOK, TypeOK
<1>8. CASE Write(c) \/ StatementFails(c)
  <2>1. ambient[c] = unit[c] /\ c \notin RowsOf(u)
    BY <1>1, <1>8 DEF RunnerOK, Write, StatementFails, RowsOf
  <2> QED
    BY <1>1, <1>4, <1>5, <1>8, <2>1, CmdAssumption DEF Write, StatementFails, TypeOK
<1>9. CASE Commit(c) \/ CommitFails(c) \/ CommitReplyLost(c) \/ Rollback(c) \/ RollbackFails(c)
  <2>1. unit[c] = c /\ c # u
    BY <1>1, <1>9
       DEF RunnerOK, Commit, CommitFails, CommitReplyLost, Rollback, RollbackFails, Owns
  <2>2. Committed(c) \subseteq RowsOf(c)
    BY <1>2 DEF Committed
  <2>3. PICK rows \in SUBSET RowsOf(c) : End(c, rows)
    BY <1>9, <2>2 DEF Commit, CommitFails, CommitReplyLost, Rollback, RollbackFails
  <2>4. RowsOf(c) \cap RowsOf(u) = {}
    BY <2>1 DEF RowsOf
  <2>5. mishap'[u] = mishap[u]
    BY <1>9, <2>1 DEF Commit, CommitFails, CommitReplyLost, Rollback, RollbackFails, TypeOK
  <2> QED
    BY <1>4, <1>5, <2>1, <2>3, <2>4, <2>5 DEF End, TypeOK
<1> QED
  BY <1>6, <1>7, <1>8, <1>9 DEF Step, Proceed, Fail

(* A command that joined a supervised unit can only write a row of the     *)
(* open transaction or spoil it.                                           *)
LEMMA Inside ==
  ASSUME HasDataSource, Structure, RowsInv, NEW c \in Cmd, Step(c), NEW u \in Cmd, Supervised(u),
         unit[c] = u, c # u
  PROVE  /\ pc[u] = "handler" /\ pc'[u] = "handler" /\ Owns(u) /\ Owns(u)'
         /\ reply'[u] = reply[u]
         /\ UNCHANGED durable
         /\ \/ /\ RowsOf(u)' = RowsOf(u) /\ UNCHANGED <<tx, pending, mishap>>
            \/ /\ RowsOf(u)' = RowsOf(u) \cup {c} /\ c \notin durable
               /\ tx[u] = "active" /\ pending'[u] = pending[u] \cup {c} /\ UNCHANGED <<tx, mishap>>
            \/ /\ RowsOf(u)' = RowsOf(u) /\ UNCHANGED pending
               /\ tx[u] = "active" /\ tx'[u] = "aborted"
               /\ mishap'[u] = mishap[u] \cup {"spoiled"}
<1> USE DEF Structure
<1>1. pc[u] = "handler"
  BY OpenerWaits, Frame
<1>2. Owns(u) /\ tx[u] \in {"active", "aborted"}
  BY <1>1 DEF RunnerInv, RunnerOK, TreeInv, TxInv, TxOK, Owns
<1>3. pc'[u] = "handler" /\ Owns(u)' /\ reply'[u] = reply[u] /\ UNCHANGED unit
  BY <1>1, <1>2, Frame DEF Owns, tree
<1>4. ~Owns(c) /\ ~(pc[c] = "called" /\ ~Joins(c)) /\ pc[c] \notin {"connect", "begin"}
  BY DEF RunnerInv, RunnerOK
<1>5. pc[c] = "handler" => ambient[c] = u
  BY DEF RunnerInv, RunnerOK
<1>6. Join(c) \/ Write(c) \/ StatementFails(c)
      \/ \E o \in {"success", "failure", "throw"} : HandlerReturns(c, o)
  BY <1>4
     DEF Step, Proceed, Fail, Create, Connect, ConnectFails, Begin, BeginFails, Commit,
         CommitFails, CommitReplyLost, Rollback, RollbackFails, Release, RunnerInv, RunnerOK
<1>7. CASE Join(c) \/ \E o \in {"success", "failure", "throw"} : HandlerReturns(c, o)
  BY <1>1, <1>2, <1>3, <1>7 DEF Join, HandlerReturns, RowsOf
<1>8. CASE Write(c)
  <2>1. c \notin wrote /\ wrote' = wrote \cup {c} /\ c \notin durable
    BY <1>8 DEF Write, RowsInv
  <2>2. RowsOf(u)' = RowsOf(u) \cup {c}
    BY <1>3, <2>1 DEF RowsOf, TypeOK
  <2>3. tx[u] = "active" /\ pending'[u] = pending[u] \cup {c} /\ UNCHANGED <<tx, mishap, durable>>
    BY <1>2, <1>5, <1>8, CmdAssumption DEF Write, TypeOK
  <2> QED
    BY <1>1, <1>2, <1>3, <2>1, <2>2, <2>3
<1>9. CASE StatementFails(c)
  BY <1>1, <1>2, <1>3, <1>5, <1>9 DEF StatementFails, RowsOf, TypeOK
<1> QED
  BY <1>6, <1>7, <1>8, <1>9

(* The opener's own step: the rows of its unit before and after.           *)
LEMMA Own ==
  ASSUME HasDataSource, Structure, RowsInv, OutcomeInv, NEW u \in Cmd, Step(u), unit[u] = u
  PROVE  RowsOK(u)' /\ OutcomeOK(u)'
<1> USE DEF Structure
<1>0. RowsOK(u) /\ OutcomeOK(u) /\ RunnerOK(u) /\ TxOK(u) /\ pending[u] \subseteq RowsOf(u)
      /\ (pc[u] \notin {"release", "done"} => reply[u] = "none")
  BY DEF RowsInv, OutcomeInv, RunnerInv, TxInv, ReplyInv, RowsOK, OutcomeOK, RunnerOK, TxOK
<1>1. /\ tx[u] \in {"none", "active", "aborted", "ended"}
      /\ reply[u] \in {"none", "success", "failure", "throw"}
  BY DEF TypeOK
<1>2. UNCHANGED unit /\ (Supervised(u)' <=> Supervised(u))
  BY Frame DEF tree, Supervised
<1>3. CASE Join(u) \/ Create(u) \/ Connect(u) \/ ConnectFails(u) \/ BeginFails(u) \/ Release(u)
           \/ \E o \in {"success", "failure", "throw"} : HandlerReturns(u, o)
  <2>1. RowsOf(u)' = RowsOf(u) /\ UNCHANGED <<tx, pending, durable, mishap, ambient>>
    BY <1>2, <1>3
       DEF Join, Create, Connect, ConnectFails, BeginFails, Release, HandlerReturns, RowsOf
  <2>2. RowsOK(u)'
    BY <1>0, <1>2, <2>1 DEF RowsOK
  <2>3. Owns(u) => /\ reply'[u] = reply[u]
                   /\ pc'[u] = "catch" => tx[u] # "ended"
    BY <1>0, <1>3
       DEF Join, Create, Connect, ConnectFails, BeginFails, Release, HandlerReturns, RunnerOK,
           TxOK, Joins, Owns, Goto, TypeOK
  <2> QED
    BY <1>0, <1>1, <1>2, <2>1, <2>2, <2>3 DEF OutcomeOK, Owns
<1>4. CASE Begin(u)
  <2>1. RowsOf(u)' = RowsOf(u) /\ UNCHANGED <<pending, durable, mishap, reply>>
        /\ tx[u] = "none" /\ tx'[u] = "active" /\ pc'[u] = "handler"
    BY <1>0, <1>2, <1>4 DEF Begin, RunnerOK, TxOK, RowsOf, Goto, TypeOK, Owns
  <2>2. reply[u] = "none"
    BY <1>0, <1>4 DEF Begin
  <2> QED
    BY <1>0, <1>2, <2>1, <2>2 DEF RowsOK, OutcomeOK
<1>5. CASE Write(u)
  <2>1. ambient[u] = u /\ tx[u] \in {"active", "aborted"} /\ reply[u] = "none"
    BY <1>0, <1>5 DEF Write, RunnerOK, TxOK, OutcomeOK, Owns
  <2>2. tx[u] = "active" /\ pending'[u] = pending[u] \cup {u} /\ u \notin durable
        /\ UNCHANGED <<pc, tx, durable, mishap, reply>>
    BY <1>5, <2>1, CmdAssumption DEF Write, TypeOK, RowsInv
  <2>3. RowsOf(u)' = RowsOf(u) \cup {u}
    BY <1>2, <1>5 DEF Write, RowsOf, TypeOK
  <2> QED
    BY <1>0, <1>2, <1>5, <2>1, <2>2, <2>3 DEF Write, RowsOK, OutcomeOK
<1>6. CASE StatementFails(u)
  <2>1. RowsOf(u)' = RowsOf(u) /\ UNCHANGED <<pc, pending, durable, reply>>
        /\ tx[u] = "active" /\ tx'[u] = "aborted" /\ "spoiled" \in mishap'[u]
        /\ pc[u] = "handler" /\ reply[u] = "none"
    BY <1>0, <1>2, <1>6 DEF StatementFails, RunnerOK, OutcomeOK, RowsOf, TypeOK, Owns
  <2> QED
    BY <1>0, <1>2, <2>1 DEF RowsOK, OutcomeOK
<1>7. CASE Commit(u) \/ CommitFails(u) \/ CommitReplyLost(u)
  <2>1. /\ Owns(u) /\ tx[u] \in {"active", "aborted"} /\ reply[u] = "none"
        /\ RowsOf(u)' = RowsOf(u) /\ tx'[u] = "ended"
    BY <1>0, <1>2, <1>7
       DEF Commit, CommitFails, CommitReplyLost, RunnerOK, TxOK, OutcomeOK, RowsOf, End, TypeOK
  <2>2. CASE CommitFails(u)
    <3>1. durable' = durable /\ reply'[u] = "none"
      BY <2>1, <2>2 DEF CommitFails, End
    <3> QED
      BY <1>0, <1>2, <2>1, <3>1 DEF RowsOK, OutcomeOK
  <2>3. CASE Commit(u) \/ CommitReplyLost(u)
    <3>1. durable' = durable \cup Committed(u)
      BY <2>3 DEF Commit, CommitReplyLost, End
    <3>2. CASE tx[u] = "active"
      <4>1. Supervised(u) => RowsOf(u) \subseteq durable'
        BY <1>0, <3>1, <3>2 DEF RowsOK, Committed
      <4>2. /\ pc'[u] = "catch" => "inDoubt" \in mishap'[u]
            /\ reply'[u] \in {"failure", "throw"} => "inDoubt" \in mishap'[u]
        BY <2>1, <2>3 DEF Commit, CommitReplyLost, Goto, Settle, TypeOK
      <4> QED
        BY <1>2, <2>1, <4>1, <4>2 DEF RowsOK, OutcomeOK
    <3>3. CASE tx[u] = "aborted"
      <4>1. durable' = durable /\ "spoiled" \in mishap[u]
        BY <1>0, <2>1, <3>1, <3>3 DEF OutcomeOK, Committed
      <4>2. "spoiled" \in mishap'[u]
        BY <2>3, <4>1 DEF Commit, CommitReplyLost, TypeOK
      <4>3. Supervised(u) => RowsOf(u) \cap durable = {}
        BY <1>0, <3>3 DEF RowsOK
      <4> QED
        BY <1>2, <2>1, <4>1, <4>2, <4>3 DEF RowsOK, OutcomeOK
    <3> QED
      BY <2>1, <3>2, <3>3
  <2> QED
    BY <1>7, <2>2, <2>3
<1>8. CASE Rollback(u) \/ RollbackFails(u)
  <2>1. /\ Owns(u) /\ reply[u] = "none" /\ tx[u] # "none"
        /\ RowsOf(u)' = RowsOf(u) /\ tx'[u] = "ended" /\ UNCHANGED <<durable, mishap>>
    BY <1>0, <1>2, <1>8 DEF Rollback, RollbackFails, RunnerOK, TxOK, OutcomeOK, RowsOf, End, TypeOK
  <2>2. /\ pc[u] \in {"rollback", "catch"}
        /\ pc'[u] \in {"catch", "release"}
        /\ pc'[u] = "catch" => reply'[u] = "none"
        /\ reply'[u] # "success"
    BY <1>8, <2>1 DEF Rollback, RollbackFails, Goto, Settle, TypeOK
  <2>3. Supervised(u) /\ "inDoubt" \notin mishap[u] => RowsOf(u) \cap durable = {}
    BY <1>0, <1>1, <2>1, <2>2 DEF RowsOK, OutcomeOK, TxOK
  <2>4. RowsOK(u)'
    BY <1>0, <1>1, <1>2, <2>1 DEF RowsOK
  <2> QED
    BY <1>2, <2>1, <2>2, <2>3, <2>4 DEF OutcomeOK
<1> QED
  BY <1>3, <1>4, <1>5, <1>6, <1>7, <1>8 DEF Step, Proceed, Fail

(* A step keeps RowsInv and OutcomeInv: the opener decides, its unit       *)
(* follows.                                                                *)
LEMMA RowsStep ==
  HasDataSource /\ Structure /\ RowsInv /\ OutcomeInv /\ Moves => (RowsInv /\ OutcomeInv)'
<1> SUFFICES ASSUME HasDataSource, Structure, RowsInv, OutcomeInv, Moves
             PROVE  (RowsInv /\ OutcomeInv)'
  OBVIOUS
<1> USE DEF Structure
<1>0. \A u \in Cmd : RowsOK(u) /\ OutcomeOK(u) /\ TxOK(u) /\ unit[u] \in Cmd
  BY DEF RowsInv, OutcomeInv, TxInv, RowsOK, OutcomeOK, TxOK, TypeOK
<1>1. ASSUME NEW c \in Cmd, NEW p \in Cmd \cup {NoCmd}, Starts(c, p)
      PROVE (RowsInv /\ OutcomeInv)'
  <2>1. \A u \in Cmd : /\ RowsOf(u)' = RowsOf(u)
                       /\ unit'[u] = u => unit[u] = u
                       /\ Supervised(u)' => Supervised(u)
                       /\ Owns(u)' => Owns(u) /\ u # c
                       /\ UNCHANGED <<tx, pending, durable, reply, wrote, mishap>>
    BY <1>1, StartRows
  <2>2. \A u \in Cmd \ {c} : pc'[u] = pc[u]
    BY <1>1 DEF Starts, Inherit, Goto, TypeOK
  <2>3. UNCHANGED <<durable, wrote>>
    BY <1>1 DEF Starts, Inherit
  <2> QED
    BY <1>0, <2>1, <2>2, <2>3 DEF RowsInv, OutcomeInv, RowsOK, OutcomeOK
<1>2. ASSUME NEW c \in Cmd, Step(c) PROVE (RowsInv /\ OutcomeInv)'
  <2>1. UNCHANGED unit /\ wrote \subseteq wrote'
    BY <1>2, Frame
       DEF tree, Step, Proceed, Fail, Join, Create, Connect, ConnectFails, Begin, BeginFails,
           Write, StatementFails, HandlerReturns, Commit, CommitFails, CommitReplyLost, Rollback,
           RollbackFails, Release
  <2>2. \A u \in Cmd : Supervised(u)' <=> Supervised(u)
    BY <2>1 DEF Supervised
  <2>3. durable' \subseteq wrote'
    <3>1. CASE durable' = durable
      BY <2>1, <3>1 DEF RowsInv
    <3>2. CASE Write(c)
      BY <3>2 DEF Write, RowsInv
    <3>3. CASE Commit(c) \/ CommitReplyLost(c)
      <4>1. durable' = durable \cup Committed(c) /\ Committed(c) \subseteq RowsOf(c)
        BY <3>3 DEF Commit, CommitReplyLost, End, Committed, RowsInv
      <4> QED
        BY <2>1, <4>1 DEF RowsInv, RowsOf
    <3>4. durable' = durable \/ Write(c) \/ Commit(c) \/ CommitReplyLost(c)
      BY <1>2
         DEF Step, Proceed, Fail, Join, Create, Connect, ConnectFails, Begin, BeginFails,
             StatementFails, HandlerReturns, CommitFails, Rollback, RollbackFails, Release, End
    <3> QED
      BY <3>1, <3>2, <3>3, <3>4
  <2>4. ASSUME NEW u \in Cmd PROVE pending'[u] \subseteq RowsOf(u)'
    <3>1. RowsOf(u) \subseteq RowsOf(u)'
      BY <2>1 DEF RowsOf
    <3>2. CASE Write(c)
      <4>1. pending'[u] \subseteq pending[u] \cup {c} /\ wrote' = wrote \cup {c}
        BY <3>2, CmdAssumption DEF Write, TypeOK
      <4>2. pending'[u] # pending[u] => unit[c] = u
        BY <3>2, CmdAssumption DEF Write, TypeOK, RunnerInv, RunnerOK
      <4> QED
        BY <2>1, <3>1, <4>1, <4>2 DEF RowsOf, RowsInv
    <3>3. CASE ~Write(c)
      <4>1. pending'[u] \subseteq pending[u]
        BY <1>2, <3>3
           DEF Step, Proceed, Fail, Join, Create, Connect, ConnectFails, Begin, BeginFails,
               StatementFails, HandlerReturns, Commit, CommitFails, CommitReplyLost, Rollback,
               RollbackFails, Release, End, TypeOK
      <4> QED
        BY <3>1, <4>1 DEF RowsInv
    <3> QED
      BY <3>2, <3>3
  <2>5. ASSUME NEW u \in Cmd PROVE RowsOK(u)' /\ OutcomeOK(u)'
    <3>1. CASE u = c /\ unit[u] = u
      BY <1>2, <3>1, Own
    <3>2. CASE unit[c] # u
      <4>1. /\ RowsOf(u)' = RowsOf(u)
            /\ RowsOf(u) \cap durable' = RowsOf(u) \cap durable
            /\ tx'[u] = tx[u] /\ pending'[u] = pending[u] /\ mishap'[u] = mishap[u]
        BY <1>2, <3>2, Elsewhere
      <4>2. RowsOf(u) \subseteq durable => RowsOf(u) \subseteq durable'
        BY <4>1
      <4>3. RowsOK(u)'
        BY <1>0, <2>1, <2>2, <4>1, <4>2 DEF RowsOK
      <4>4. CASE u # c
        <5>1. pc'[u] = pc[u] /\ reply'[u] = reply[u] /\ ambient'[u] = ambient[u]
          BY <1>2, <4>4, Frame
        <5> QED
          BY <1>0, <2>2, <4>1, <4>2, <4>3, <5>1 DEF OutcomeOK, Owns
      <4>5. CASE u = c
        <5>1. ~Owns(u)'
          <6>1. tx[u] = "none" /\ RunnerInv'
            BY <1>0, <3>2, <4>5, RunnerStep DEF TxOK, RunnerInv, RunnerOK
          <6> QED
            BY <2>1, <3>2, <4>5, <6>1 DEF RunnerInv, RunnerOK
        <5> QED
          BY <4>3, <5>1 DEF OutcomeOK
      <4> QED
        BY <4>4, <4>5
    <3>3. CASE unit[c] = u /\ c # u /\ Supervised(u)
      <4>1. /\ pc[u] = "handler" /\ pc'[u] = "handler" /\ Owns(u) /\ Owns(u)'
            /\ reply'[u] = reply[u] /\ reply[u] = "none"
            /\ UNCHANGED durable
            /\ \/ /\ RowsOf(u)' = RowsOf(u) /\ UNCHANGED <<tx, pending, mishap>>
               \/ /\ RowsOf(u)' = RowsOf(u) \cup {c} /\ c \notin durable
                  /\ tx[u] = "active" /\ pending'[u] = pending[u] \cup {c}
                  /\ UNCHANGED <<tx, mishap>>
               \/ /\ RowsOf(u)' = RowsOf(u) /\ UNCHANGED pending
                  /\ tx[u] = "active" /\ tx'[u] = "aborted" /\ "spoiled" \in mishap'[u]
        BY <1>2, <3>3, Inside DEF ReplyInv
      <4> QED
        BY <1>0, <2>1, <2>2, <4>1 DEF RowsOK, OutcomeOK
    <3>4. CASE unit[c] = u /\ c # u /\ ~Supervised(u)
      <4>1. pc'[u] = pc[u] /\ reply'[u] = reply[u] /\ ambient'[u] = ambient[u]
        BY <1>2, <3>4, Frame
      <4>2. tx'[u] = "aborted" => tx[u] = "aborted" \/ "spoiled" \in mishap'[u]
        BY <1>2
           DEF Step, Proceed, Fail, Join, Create, Connect, ConnectFails, Begin, BeginFails, Write,
               StatementFails, HandlerReturns, Commit, CommitFails, CommitReplyLost, Rollback,
               RollbackFails, Release, End, TypeOK
      <4>3. "spoiled" \in mishap[u] => "spoiled" \in mishap'[u]
        BY <1>2
           DEF Step, Proceed, Fail, Join, Create, Connect, ConnectFails, Begin, BeginFails, Write,
               StatementFails, HandlerReturns, Commit, CommitFails, CommitReplyLost, Rollback,
               RollbackFails, Release, End, TypeOK
      <4> QED
        BY <1>0, <2>2, <3>4, <4>1, <4>2, <4>3 DEF RowsOK, OutcomeOK, Owns
    <3> QED
      BY <3>1, <3>2, <3>3, <3>4
  <2> QED
    BY <2>3, <2>4, <2>5 DEF RowsInv, OutcomeInv, RowsOK, OutcomeOK
<1>3. CASE UNCHANGED vars
  BY <1>0, <1>3 DEF vars, RowsInv, RowsOK, OutcomeInv, OutcomeOK, RowsOf, Supervised, Owns
<1> QED
  BY <1>1, <1>2, <1>3, DispatchStarts DEF Moves, Next, Step, Quiescent

(* A step keeps all of it.                                                 *)
LEMMA IInvStep ==
  ASSUME HasDataSource
  PROVE  TypeOK /\ IInv /\ Moves => IInv'
  BY IdleStep, TreeStep, AwaitStep, RunnerStep, TransactionStep, ReplyStep,
     MishapStep, RowsStep
     DEF IInv, Structure

(* With a DataSource, the named parts together are an inductive invariant. *)
THEOREM InductiveInvariant ==
  ASSUME HasDataSource
  PROVE  Spec => []IInv
<1> QED
  BY IInvStep, InitIInv, StepsMove, TypeCorrect, PTL DEF Spec

(* Without one, nothing of it ever exists.                                 *)
Bare ==
    \A c \in Cmd : /\ ambient[c] = NoCmd
                   /\ tx[c] = "none"
                   /\ c \notin held
                   /\ pc[c] \in {"idle", "called", "handler", "done"}

(* A step keeps it so.                                                     *)
LEMMA BareStep ==
  ASSUME ~HasDataSource
  PROVE  TypeOK /\ Bare /\ Moves => Bare'
<1> SUFFICES ASSUME TypeOK, Bare, Moves PROVE Bare'
  OBVIOUS
<1>1. ASSUME NEW c \in Cmd, NEW p \in Cmd \cup {NoCmd}, Starts(c, p) PROVE Bare'
  BY <1>1 DEF Starts, Inherit, Goto, TypeOK, Bare
<1>2. ASSUME NEW c \in Cmd, Step(c) PROVE Bare'
  <2>1. Join(c) \/ Write(c)
        \/ \E o \in {"success", "failure", "throw"} : HandlerReturns(c, o)
    BY <1>2, CmdAssumption
       DEF Bare, Step, Proceed, Fail, Create, Joins, Connect, ConnectFails, Begin, BeginFails,
           StatementFails, Commit, CommitFails, CommitReplyLost, Rollback, RollbackFails, Release
  <2>2. CASE Join(c) \/ Write(c)
    BY <2>2 DEF Join, Write, Goto, TypeOK, Bare
  <2>3. CASE \E o \in {"success", "failure", "throw"} : HandlerReturns(c, o)
    BY <2>3, CmdAssumption DEF HandlerReturns, Owns, Goto, TypeOK, Bare
  <2> QED
    BY <2>1, <2>2, <2>3
<1>3. CASE UNCHANGED vars
  BY <1>3 DEF vars, Bare
<1> QED
  BY <1>1, <1>2, <1>3, DispatchStarts DEF Moves, Next, Step, Quiescent

(* Without a DataSource no QueryRunner is ever created, set or connected.  *)
LEMMA NothingWithoutDataSource ==
  ASSUME ~HasDataSource
  PROVE  Spec => []Bare
<1>1. Init => Bare
  BY DEF Init, Bare
<1> QED
  BY <1>1, BareStep, StepsMove, TypeCorrect, PTL DEF Spec

(* Every handler works on the QueryRunner of the unit of work it was       *)
(* dispatched into, however requests interleave and commands nest.         *)
THEOREM RunnerIsolation == Spec => []RunnerOfUnit
<1>1. CASE HasDataSource
  <2>1. IInv => RunnerOfUnit
    BY DEF IInv, RunnerInv, RunnerOK, RunnerOfUnit
  <2> QED
    BY <1>1, <2>1, InductiveInvariant, PTL
<1>2. CASE ~HasDataSource
  <2>1. RunnerOfUnit
    BY <1>2 DEF RunnerOfUnit
  <2> QED
    BY <2>1, PTL
<1> QED
  BY <1>1, <1>2

(* Connections of open transactions are held, and only a rejected          *)
(* startTransaction leaves a finished command with one.                    *)
THEOREM Connections == Spec => []ConnectionLifecycle
<1>1. CASE HasDataSource
  <2>1. IInv => ConnectionLifecycle
    BY DEF IInv, TxInv, TxOK, ConnectionLifecycle
  <2> QED
    BY <1>1, <2>1, InductiveInvariant, PTL
<1>2. CASE ~HasDataSource
  <2>1. Bare => ConnectionLifecycle
    BY DEF Bare, ConnectionLifecycle
  <2> QED
    BY <1>2, <2>1, NothingWithoutDataSource, PTL
<1> QED
  BY <1>1, <1>2

(* The rows of a unit of work whose joined commands are all awaited are in *)
(* the database all together or not at all, at every moment.               *)
THEOREM Atomicity == Spec => []AtomicUnit
<1>1. CASE HasDataSource
  <2>1. TypeOK /\ IInv => AtomicUnit
    <3> SUFFICES ASSUME TypeOK, IInv, NEW u \in Cmd, Supervised(u), RowsOf(u) \cap durable # {}
                 PROVE  RowsOf(u) \subseteq durable
      BY DEF AtomicUnit
    <3>1. unit[u] = u
      <4>1. PICK c \in Cmd : unit[c] = u
        BY DEF RowsOf, TypeOK
      <4> QED
        BY <4>1 DEF IInv, TreeInv
    <3>2. RowsOK(u) /\ tx[u] \in {"none", "active", "aborted", "ended"}
      BY DEF IInv, RowsInv, RowsOK, TypeOK
    <3> QED
      BY <3>1, <3>2 DEF RowsOK
  <2> QED
    BY <1>1, <2>1, InductiveInvariant, TypeCorrect, PTL
<1>2. CASE ~HasDataSource
  <2>1. AtomicUnit
    BY <1>2 DEF AtomicUnit
  <2> QED
    BY <2>1, PTL
<1> QED
  BY <1>1, <1>2

(* A creator's success means that every row of its unit is durable, unless *)
(* a failed statement was swallowed.                                       *)
THEOREM Durability == Spec => []SuccessIsDurable
<1>1. CASE HasDataSource
  <2>1. IInv => SuccessIsDurable
    BY DEF IInv, OutcomeInv, OutcomeOK, SuccessIsDurable, Created
  <2> QED
    BY <1>1, <2>1, InductiveInvariant, PTL
<1>2. CASE ~HasDataSource
  <2>1. Bare => SuccessIsDurable
    BY CmdAssumption DEF Bare, SuccessIsDurable, Created, Owns
  <2> QED
    BY <1>2, <2>1, NothingWithoutDataSource, PTL
<1> QED
  BY <1>1, <1>2

(* A creator's failure means that no row of its unit is in the database,   *)
(* unless the answer of an effective COMMIT was lost.                      *)
THEOREM NoResidue == Spec => []FailureLeavesNothing
<1>1. CASE HasDataSource
  <2>1. TypeOK /\ IInv => FailureLeavesNothing
    BY DEF TypeOK, IInv, OutcomeInv, OutcomeOK, FailureLeavesNothing, Created
  <2> QED
    BY <1>1, <2>1, InductiveInvariant, TypeCorrect, PTL
<1>2. CASE ~HasDataSource
  <2>1. Bare => FailureLeavesNothing
    BY CmdAssumption DEF Bare, FailureLeavesNothing, Created, Owns
  <2> QED
    BY <1>2, <2>1, NothingWithoutDataSource, PTL
<1> QED
  BY <1>1, <1>2

-----------------------------------------------------------------------------
(* UnitPromise, unit by unit, in the terms of UnitOfWork.                  *)
Stored(u) == RowsOf(u) \cap durable
Told(u) == IF unit[u] = u THEN reply[u] ELSE "none"

Tells(u) ==
    /\ Told(u) = "none"
    /\ \/ Told(u)' = "success" /\ (Stored(u)' = RowsOf(u)' \/ "spoiled" \in mishap'[u])
       \/ Told(u)' \in {"failure", "throw"} /\ (Stored(u)' = {} \/ "inDoubt" \in mishap'[u])

Stays(u) ==
    /\ u \in Over' <=> u \in Over
    /\ RowsOf(u)' = RowsOf(u) /\ Stored(u)' = Stored(u)
    /\ Told(u)' = Told(u) /\ mishap'[u] = mishap[u]

Writes(u) ==
    /\ u \notin Over /\ u \notin Over'
    /\ \E r \in Cmd \ RowsOf(u) : RowsOf(u)' = RowsOf(u) \cup {r}
    /\ Stored(u)' = Stored(u) /\ Told(u)' = Told(u) /\ mishap'[u] = mishap[u]

Spoils(u) ==
    /\ u \notin Over /\ u \notin Over'
    /\ mishap'[u] = mishap[u] \cup {"spoiled"}
    /\ RowsOf(u)' = RowsOf(u) /\ Stored(u)' = Stored(u) /\ Told(u)' = Told(u)

Finishes(u) ==
    /\ u \notin Over /\ u \in Over'
    /\ RowsOf(u)' = RowsOf(u)
    /\ \/ Stored(u)' = Stored(u)
       \/ Stored(u)' = RowsOf(u) /\ "spoiled" \notin mishap[u]
    /\ \/ mishap'[u] = mishap[u] /\ (Told(u)' = Told(u) \/ Tells(u))
       \/ mishap'[u] = mishap[u] \cup {"inDoubt"} /\ Told(u)' = Told(u)

Reports(u) ==
    /\ u \in Over /\ u \in Over'
    /\ Tells(u)
    /\ RowsOf(u)' = RowsOf(u) /\ Stored(u)' = Stored(u) /\ mishap'[u] = mishap[u]

Keeps(u) == Stays(u) \/ Writes(u) \/ Spoils(u) \/ Finishes(u) \/ Reports(u)

(* A step that keeps the promise for every bound unit is one of the        *)
(* abstract module.                                                        *)
LEMMA KeepsIsNext ==
  ASSUME \A u \in Cmd : Supervised(u)' => Supervised(u) /\ Keeps(u)
  PROVE  Promise!Next
<1>1. ASSUME NEW u \in Cmd
      PROVE  /\ Stays(u) => Promise!Still(u)
             /\ Writes(u) => Promise!Write(u)
             /\ Spoils(u) => Promise!Spoil(u)
             /\ Finishes(u) => Promise!Finish(u)
             /\ Reports(u) => Promise!Tell(u)
  <2>1. Tells(u) => Promise!Tells(u)
    BY DEF Tells, Told, Stored, Promise!Tells, Promise!Honest
  <2>2. Stays(u) => Promise!Still(u)
    BY DEF Stays, Told, Stored, Promise!Still
  <2>3. Writes(u) => Promise!Write(u)
    BY DEF Writes, Told, Stored, Promise!Write
  <2>4. Spoils(u) => Promise!Spoil(u)
    BY DEF Spoils, Told, Stored, Promise!Spoil
  <2>5. Finishes(u) => Promise!Finish(u)
    BY <2>1 DEF Finishes, Told, Stored, Promise!Finish
  <2>6. Reports(u) => Promise!Tell(u)
    BY <2>1 DEF Reports, Told, Stored, Promise!Tell
  <2> QED
    BY <2>2, <2>3, <2>4, <2>5, <2>6
<1>2. {u \in Cmd : Supervised(u)}' \subseteq {u \in Cmd : Supervised(u)}
  OBVIOUS
<1>3. ASSUME NEW u \in {v \in Cmd : Supervised(v)'}
      PROVE  \/ Promise!Still(u) \/ Promise!Write(u) \/ Promise!Spoil(u)
             \/ Promise!Finish(u) \/ Promise!Tell(u)
  BY <1>1 DEF Keeps
<1> QED
  BY <1>2, <1>3 DEF Promise!Next

(* The start of a command changes no unit, and may release one from the    *)
(* promise.                                                                *)
LEMMA StartKeeps ==
  ASSUME HasDataSource, Structure, NEW c \in Cmd, NEW p \in Cmd \cup {NoCmd}, Starts(c, p),
         NEW u \in Cmd
  PROVE  Supervised(u)' => Supervised(u) /\ Stays(u)
<1> USE DEF Structure
<1>1. /\ RowsOf(u)' = RowsOf(u)
      /\ Supervised(u)' => Supervised(u)
      /\ UNCHANGED <<tx, durable, reply, mishap>>
  BY StartRows
<1>2. /\ pc[c] = "idle" /\ pc'[c] = "called" /\ unit[c] = c
      /\ u # c => pc'[u] = pc[u] /\ unit'[u] = unit[u]
  BY DEF Starts, Inherit, Goto, TypeOK, IdleInv
<1>3. reply[c] = "none" /\ tx[c] = "none"
  BY <1>2, CmdAssumption DEF ReplyInv, RunnerInv, RunnerOK, TxInv, TxOK, Owns
<1>4. u \in Over' <=> u \in Over
  BY <1>1, <1>2, <1>3 DEF Over
<1>5. Told(u)' = Told(u)
  BY <1>1, <1>2, <1>3 DEF Told
<1> QED
  BY <1>1, <1>4, <1>5 DEF Stays, Stored

(* The opener's own step.                                                  *)
LEMMA OwnKeeps ==
  ASSUME HasDataSource, TypeOK, IInv, IInv', NEW u \in Cmd, Step(u), unit[u] = u, Supervised(u)
  PROVE  Keeps(u)
<1>1. /\ RowsOK(u) /\ OutcomeOK(u) /\ RunnerOK(u) /\ TxOK(u)
      /\ RowsOK(u)' /\ OutcomeOK(u)'
      /\ reply[u] # "none" <=> pc[u] \in {"release", "done"}
      /\ tx[u] \in {"none", "active"} => mishap[u] = {}
  BY DEF IInv, RowsInv, OutcomeInv, RunnerInv, TxInv, ReplyInv, MishapInv, RowsOK, OutcomeOK,
         RunnerOK, TxOK
<1>2. /\ UNCHANGED <<unit>> /\ (Supervised(u)' <=> Supervised(u)) /\ Running(u)
      /\ tx[u] \in {"none", "active", "aborted", "ended"}
  BY Frame DEF tree, Supervised, IInv, TypeOK
<1>3. Told(u) = reply[u] /\ Told(u)' = reply'[u]
  BY <1>2 DEF Told
<1>4. /\ u \in Over <=> tx[u] = "ended"
      /\ u \in Over' <=> tx'[u] = "ended" \/ pc'[u] = "done"
  BY <1>2 DEF Over, Running
<1>5. CASE Join(u) \/ Create(u) \/ Connect(u) \/ Begin(u) \/ Release(u)
           \/ \E o \in {"success", "failure", "throw"} : HandlerReturns(u, o)
  <2>1. /\ RowsOf(u)' = RowsOf(u) /\ UNCHANGED <<durable, mishap, reply>>
        /\ tx'[u] = "ended" \/ pc'[u] = "done" <=> tx[u] = "ended"
    BY <1>1, <1>2, <1>5
       DEF Join, Create, Connect, Begin, Release, HandlerReturns, Goto, TypeOK, RunnerOK, TxOK,
           Joins, Owns, RowsOf
  <2> QED
    BY <1>3, <1>4, <2>1 DEF Keeps, Stays, Stored
<1>6. CASE ConnectFails(u) \/ BeginFails(u)
  <2>1. /\ RowsOf(u)' = RowsOf(u) /\ UNCHANGED <<durable, mishap, tx>>
        /\ pc'[u] = "done" /\ reply[u] = "none" /\ reply'[u] = "throw"
    BY <1>1, <1>2, <1>6 DEF ConnectFails, BeginFails, Goto, Settle, TypeOK, RowsOf
  <2>2. tx[u] = "none"
    BY <1>1, <1>6 DEF ConnectFails, BeginFails, RunnerOK, TxOK, Owns
  <2>3. RowsOf(u) = {}
    BY <1>1, <2>2 DEF RowsOK
  <2>4. Stored(u) = {} /\ Stored(u)' = {}
    BY <2>1, <2>3 DEF Stored
  <2> QED
    BY <1>3, <1>4, <2>1, <2>2, <2>4 DEF Keeps, Finishes, Tells
<1>7. CASE Write(u) \/ StatementFails(u)
  <2>1. ambient[u] = u /\ tx[u] \in {"active", "aborted"}
    BY <1>1, <1>7 DEF Write, StatementFails, RunnerOK, TxOK, Owns
  <2>2. UNCHANGED <<pc, reply>> /\ tx'[u] \in {"active", "aborted"} /\ UNCHANGED durable
    BY <1>7, <2>1, CmdAssumption DEF Write, StatementFails, TypeOK
  <2>3. u \notin Over /\ u \notin Over' /\ Told(u)' = Told(u)
    BY <1>2, <1>3, <1>4, <2>1, <2>2 DEF Running
  <2>4. CASE Write(u)
    <3>1. RowsOf(u)' = RowsOf(u) \cup {u} /\ u \notin RowsOf(u) /\ u \notin durable
          /\ UNCHANGED mishap
      BY <1>2, <2>4 DEF Write, RowsOf, TypeOK, IInv, RowsInv
    <3>2. Stored(u)' = Stored(u)
      BY <2>2, <3>1 DEF Stored
    <3> QED
      BY <2>3, <3>1, <3>2 DEF Keeps, Writes
  <2>5. CASE StatementFails(u)
    <3>1. RowsOf(u)' = RowsOf(u) /\ mishap'[u] = mishap[u] \cup {"spoiled"}
      BY <1>2, <2>1, <2>5 DEF StatementFails, RowsOf, TypeOK
    <3> QED
      BY <2>2, <2>3, <3>1 DEF Keeps, Spoils, Stored
  <2> QED
    BY <1>7, <2>4, <2>5
<1>8. CASE Commit(u) \/ CommitFails(u) \/ CommitReplyLost(u)
  <2>1. /\ Owns(u) /\ Owns(u)' /\ tx[u] \in {"active", "aborted"} /\ reply[u] = "none"
        /\ RowsOf(u)' = RowsOf(u) /\ tx'[u] = "ended"
    BY <1>1, <1>2, <1>8
       DEF Commit, CommitFails, CommitReplyLost, RunnerOK, TxOK, Owns, RowsOf, End, TypeOK
  <2>2. \/ Stored(u)' = Stored(u)
        \/ Stored(u)' = RowsOf(u) /\ "spoiled" \notin mishap[u]
    <3>1. CASE tx[u] = "active"
      <4>1. durable' = durable \/ durable' = durable \cup RowsOf(u)
        BY <1>1, <1>8, <3>1
           DEF Commit, CommitFails, CommitReplyLost, End, Committed, RowsOK
      <4> QED
        BY <1>1, <2>1, <3>1, <4>1 DEF Stored
    <3>2. CASE tx[u] = "aborted"
      <4>1. durable' = durable
        BY <1>8, <3>2 DEF Commit, CommitFails, CommitReplyLost, End, Committed
      <4> QED
        BY <2>1, <4>1 DEF Stored
    <3> QED
      BY <2>1, <3>1, <3>2
  <2>3. CASE Commit(u)
    <3>1. reply'[u] = "success" /\ UNCHANGED mishap
      BY <2>3 DEF Commit, Settle, TypeOK
    <3>2. "spoiled" \in mishap'[u] \/ Stored(u)' = RowsOf(u)'
      BY <1>1, <1>2, <2>1, <3>1 DEF OutcomeOK, Stored
    <3> QED
      BY <1>3, <1>4, <2>1, <2>2, <3>1, <3>2 DEF Keeps, Finishes, Tells
  <2>4. CASE CommitFails(u)
    <3>1. UNCHANGED <<mishap, reply>>
      BY <2>4 DEF CommitFails
    <3> QED
      BY <1>3, <1>4, <2>1, <2>2, <3>1 DEF Keeps, Finishes
  <2>5. CASE CommitReplyLost(u)
    <3>1. mishap'[u] = mishap[u] \cup {"inDoubt"} /\ UNCHANGED reply
      BY <2>5 DEF CommitReplyLost, TypeOK
    <3> QED
      BY <1>3, <1>4, <2>1, <2>2, <3>1 DEF Keeps, Finishes
  <2> QED
    BY <1>8, <2>3, <2>4, <2>5
<1>9. CASE Rollback(u) \/ RollbackFails(u)
  <2>1. /\ Owns(u) /\ Owns(u)' /\ tx[u] # "none" /\ reply[u] = "none"
        /\ RowsOf(u)' = RowsOf(u) /\ tx'[u] = "ended" /\ UNCHANGED <<durable, mishap>>
    BY <1>1, <1>2, <1>9
       DEF Rollback, RollbackFails, RunnerOK, TxOK, Owns, RowsOf, End, TypeOK
  <2>2. \/ reply'[u] \in {"failure", "throw"}
        \/ reply'[u] = "none" /\ pc[u] = "rollback"
    BY <1>9, <2>1 DEF Rollback, RollbackFails, Settle, TypeOK
  <2>3. pc[u] = "rollback" => tx[u] # "ended"
    BY <1>1 DEF TxOK
  <2>4. Stored(u)' = Stored(u)
    BY <2>1 DEF Stored
  <2>5. reply'[u] \in {"failure", "throw"} => Tells(u)
    BY <1>1, <1>2, <1>3, <2>1 DEF OutcomeOK, Stored, Tells
  <2> QED
    BY <1>3, <1>4, <2>1, <2>2, <2>3, <2>4, <2>5 DEF Keeps, Finishes, Reports
<1> QED
  BY <1>5, <1>6, <1>7, <1>8, <1>9 DEF Step, Proceed, Fail

(* The step of a nested command that joined the unit of u.                 *)
LEMMA JoinedKeeps ==
  ASSUME HasDataSource, TypeOK, IInv, NEW c \in Cmd, Step(c), NEW u \in Cmd, Supervised(u),
         unit[c] = u, c # u
  PROVE  Keeps(u)
<1>1. /\ pc[u] = "handler" /\ pc'[u] = "handler" /\ Owns(u) /\ reply'[u] = reply[u]
      /\ UNCHANGED durable
      /\ \/ /\ RowsOf(u)' = RowsOf(u) /\ UNCHANGED <<tx, pending, mishap>>
         \/ /\ RowsOf(u)' = RowsOf(u) \cup {c} /\ c \notin durable
            /\ tx[u] = "active" /\ UNCHANGED <<tx, mishap>>
         \/ /\ RowsOf(u)' = RowsOf(u)
            /\ tx[u] = "active" /\ tx'[u] = "aborted"
            /\ mishap'[u] = mishap[u] \cup {"spoiled"}
  BY Inside DEF IInv, Structure
<1>2. UNCHANGED unit /\ tx[u] \in {"active", "aborted"}
  BY <1>1, Frame DEF tree, IInv, TxInv, TxOK
<1>3. /\ u \notin Over /\ u \notin Over'
      /\ Told(u)' = Told(u)
  BY <1>1, <1>2 DEF Over, Told
<1>4. CASE RowsOf(u)' = RowsOf(u) /\ UNCHANGED <<tx, pending, mishap>>
  BY <1>1, <1>3, <1>4 DEF Keeps, Stays, Stored
<1>5. CASE RowsOf(u)' = RowsOf(u) \cup {c} /\ c \notin durable /\ UNCHANGED mishap
  <2>1. Stored(u)' = Stored(u)
    BY <1>1, <1>5 DEF Stored
  <2>2. CASE c \in RowsOf(u)
    BY <1>3, <1>5, <2>1, <2>2 DEF Keeps, Stays
  <2>3. CASE c \notin RowsOf(u)
    BY <1>3, <1>5, <2>1, <2>3 DEF Keeps, Writes
  <2> QED
    BY <2>2, <2>3
<1>6. CASE RowsOf(u)' = RowsOf(u) /\ mishap'[u] = mishap[u] \cup {"spoiled"}
  BY <1>1, <1>3, <1>6 DEF Keeps, Spoils, Stored
<1> QED
  BY <1>1, <1>4, <1>5, <1>6

(* The step of a command of another unit.                                  *)
LEMMA OthersKeep ==
  ASSUME HasDataSource, TypeOK, IInv, NEW c \in Cmd, Step(c), NEW u \in Cmd, unit[c] # u
  PROVE  Stays(u)
<1>1. /\ RowsOf(u)' = RowsOf(u)
      /\ RowsOf(u) \cap durable' = RowsOf(u) \cap durable
      /\ tx'[u] = tx[u] /\ mishap'[u] = mishap[u]
      /\ pc'[u] = pc[u] \/ u = c
  BY Elsewhere DEF IInv, Structure
<1>2. UNCHANGED unit /\ (u # c => reply'[u] = reply[u])
  BY Frame DEF tree
<1>3. u \in Over' <=> u \in Over
  BY <1>1, <1>2 DEF Over
<1>4. Told(u)' = Told(u)
  BY <1>2 DEF Told
<1> QED
  BY <1>1, <1>3, <1>4 DEF Stays, Stored

(* Nothing happens.                                                        *)
LEMMA IdleKeeps ==
  ASSUME UNCHANGED vars, NEW u \in Cmd
  PROVE  (Supervised(u)' <=> Supervised(u)) /\ Stays(u)
  BY DEF vars, tree, Stays, Stored, Told, Over, RowsOf, Supervised

(* Every step of every command keeps the promise.                          *)
LEMMA PromiseStep ==
  ASSUME HasDataSource, TypeOK, IInv, Moves
  PROVE  Promise!Next
<1>1. IInv' /\ Structure
  BY IInvStep DEF IInv, Structure
<1>2. ASSUME NEW c \in Cmd, NEW p \in Cmd \cup {NoCmd}, Starts(c, p), NEW u \in Cmd
      PROVE  Supervised(u)' => Supervised(u) /\ Keeps(u)
  BY <1>1, <1>2, StartKeeps DEF Keeps
<1>3. ASSUME NEW c \in Cmd, Step(c), NEW u \in Cmd
      PROVE  Supervised(u)' => Supervised(u) /\ Keeps(u)
  <2>1. Supervised(u)' <=> Supervised(u)
    BY <1>3, Frame DEF tree, Supervised
  <2>2. CASE unit[c] # u
    BY <1>3, <2>1, <2>2, OthersKeep DEF Keeps
  <2>3. CASE unit[c] = u /\ c # u
    BY <1>3, <2>1, <2>3, JoinedKeeps
  <2>4. CASE unit[c] = u /\ c = u
    BY <1>1, <1>3, <2>1, <2>4, OwnKeeps
  <2> QED
    BY <2>2, <2>3, <2>4
<1>4. ASSUME UNCHANGED vars, NEW u \in Cmd
      PROVE  Supervised(u)' => Supervised(u) /\ Keeps(u)
  BY <1>4, IdleKeeps DEF Keeps
<1>5. ASSUME NEW u \in Cmd PROVE Supervised(u)' => Supervised(u) /\ Keeps(u)
  BY <1>2, <1>3, <1>4, <1>5, DispatchStarts DEF Moves, Next, Step, Quiescent
<1> QED
  BY <1>5, KeepsIsNext

(* At first every unit is bound, empty and open.                           *)
LEMMA PromiseInit == Init => Promise!Init
<1> SUFFICES ASSUME Init PROVE Promise!Init
  OBVIOUS
<1>1. \A u \in Cmd : RowsOf(u) = {} /\ Supervised(u) /\ unit[u] = u /\ reply[u] = "none"
  BY CmdAssumption DEF Init, RowsOf, Supervised
<1>2. Over = {}
  BY DEF Init, Over
<1>3. mishap = [u \in Cmd |-> {}]
  BY DEF Init
<1> QED
  BY <1>1, <1>2, <1>3 DEF Promise!Init

(* A unit of work implements its abstract specification: with a DataSource,*)
(* through every interleaving, nesting and fault, the rows of a unit whose *)
(* commands are awaited are stored together when it ends or never, and its *)
(* creator's report agrees.  (TransactionalBehavior L32-63)                *)
THEOREM Implements ==
  ASSUME HasDataSource
  PROVE  Spec => KeepsPromise
<1>1. TypeOK /\ IInv /\ [Next]_vars => [Promise!Next]_(Promise!vars)
  BY StepsMove, PromiseStep
<1> QED
  BY <1>1, PromiseInit, InductiveInvariant, TypeCorrect, PTL DEF Spec, KeepsPromise, Promise!Spec
-----------------------------------------------------------------------------
(* Nesting, as far as it matters to who waits for whom: a dispatched       *)
(* command lies below its dispatcher, in the same unit unless it is        *)
(* isolated; finitely many commands have been executed, and so nothing     *)
(* lies arbitrarily deep.                                                  *)
Called == {c \in Cmd : pc[c] # "idle"}

NestInv ==
    /\ \A c \in Cmd : parent[c] # NoCmd =>
          /\ parent[c] \in Called
          /\ depth[parent[c]] < depth[c]
          /\ c \in Isolated \/ unit[c] = unit[parent[c]]
    /\ IsFiniteSet(Called)
    /\ \E n \in Nat : \A c \in Cmd : depth[c] <= n

(* A step keeps NestInv.                                                   *)
LEMMA NestStep == TypeOK /\ NestInv /\ Moves => NestInv'
<1> SUFFICES ASSUME TypeOK, NestInv, Moves PROVE NestInv'
  OBVIOUS
<1>1. ASSUME NEW c \in Cmd, NEW p \in Cmd \cup {NoCmd}, Starts(c, p) PROVE NestInv'
  <2>1. /\ pc[c] = "idle"
        /\ pc' = [pc EXCEPT ![c] = "called"]
        /\ parent' = [parent EXCEPT ![c] = p]
        /\ p # NoCmd => p \in Cmd /\ p # c /\ pc[p] # "idle"
        /\ unit' = [unit EXCEPT ![c] = IF p = NoCmd \/ c \in Isolated THEN c ELSE unit[p]]
        /\ depth' = [depth EXCEPT ![c] = IF p = NoCmd THEN 0 ELSE depth[p] + 1]
    BY <1>1 DEF Starts, Inherit, Goto
  <2>2. Called' = Called \cup {c}
    BY <2>1 DEF Called, TypeOK
  <2>3. IsFiniteSet(Called')
    BY <2>2, FS_AddElement DEF NestInv
  <2>4. ASSUME NEW x \in Cmd, parent'[x] # NoCmd
        PROVE  /\ parent'[x] \in Called'
               /\ depth'[parent'[x]] < depth'[x]
               /\ x \in Isolated \/ unit'[x] = unit'[parent'[x]]
    <3>1. CASE x = c
      BY <2>1, <2>2, <2>4, <3>1 DEF TypeOK, Called
    <3>2. CASE x # c
      <4>1. parent'[x] = parent[x] /\ parent[x] \in Called /\ parent[x] # c
        BY <2>1, <2>4, <3>2 DEF TypeOK, NestInv, Called
      <4>2. /\ depth'[x] = depth[x] /\ depth'[parent[x]] = depth[parent[x]]
            /\ unit'[x] = unit[x] /\ unit'[parent[x]] = unit[parent[x]]
        BY <2>1, <3>2, <4>1 DEF TypeOK, Called
      <4> QED
        BY <2>2, <2>4, <4>1, <4>2 DEF NestInv
    <3> QED
      BY <3>1, <3>2
  <2>5. \E n \in Nat : \A x \in Cmd : depth'[x] <= n
    <3>1. PICK n \in Nat : \A x \in Cmd : depth[x] <= n
      BY DEF NestInv
    <3>2. \A x \in Cmd : depth'[x] <= n + 1
      BY <2>1, <3>1 DEF TypeOK
    <3> QED
      BY <3>2
  <2> QED
    BY <2>3, <2>4, <2>5 DEF NestInv
<1>2. ASSUME NEW c \in Cmd, Step(c) PROVE NestInv'
  <2>1. UNCHANGED <<parent, unit, depth, Called>>
    BY <1>2, Frame DEF tree, Called, Running
  <2> QED
    BY <2>1 DEF NestInv
<1>3. CASE UNCHANGED vars
  BY <1>3 DEF vars, tree, NestInv, Called
<1> QED
  BY <1>1, <1>2, <1>3, DispatchStarts DEF Moves, Next, Step, Quiescent

LEMMA InitNest == Init => NestInv
<1> SUFFICES ASSUME Init PROVE NestInv
  OBVIOUS
<1>1. Called = {}
  BY DEF Init, Called
<1>2. \A c \in Cmd : parent[c] = NoCmd /\ depth[c] = 0
  BY DEF Init
<1> QED
  BY <1>1, <1>2, FS_EmptySet DEF NestInv

(* A set of commands that is not empty has a deepest member.               *)
LEMMA Deepest ==
  ASSUME TypeOK, NestInv, NEW S, S \subseteq Cmd, S # {}
  PROVE  \E d \in S : \A x \in S : depth[x] <= depth[d]
<1>1. PICK n \in Nat : \A c \in Cmd : depth[c] <= n
  BY DEF NestInv
<1> DEFINE Heights == {n - depth[x] : x \in S}
<1>2. Heights \subseteq Nat /\ Heights # {}
  BY <1>1 DEF TypeOK
<1>3. PICK m \in Heights : \A k \in Heights : m <= k
  <2> HIDE DEF Heights
  <2> QED
    BY <1>2, Smallest
<1>4. PICK d \in S : m = n - depth[d]
  OBVIOUS
<1>5. ASSUME NEW x \in S PROVE depth[x] <= depth[d]
  <2>1. n - depth[d] <= n - depth[x]
    BY <1>3, <1>4
  <2>2. depth[d] \in Nat /\ depth[x] \in Nat
    BY DEF TypeOK
  <2> QED
    BY <2>1, <2>2
<1> QED
  BY <1>5

(* A running command that cannot go on waits for a connection, or for a    *)
(* running command below it.                                               *)
LEMMA WhyBlocked ==
  ASSUME TypeOK, NestInv, NEW c \in Cmd, Running(c), ~Movable(c)
  PROVE  \/ pc[c] = "connect" /\ ~(Cardinality(held) < PoolSize)
         \/ /\ pc[c] = "handler"
            /\ \E e \in Cmd \ Detached : /\ Running(e)
                                         /\ parent[e] = c
                                         /\ depth[c] < depth[e]
                                         /\ e \in Isolated \/ unit[e] = unit[c]
<1>1. pc[c] \in {"connect", "handler"}
  BY DEF TypeOK, PCs, Running, Movable
<1>2. CASE pc[c] = "handler"
  <2>1. PICK e \in Awaited(c) : TRUE
    BY <1>2 DEF Movable
  <2> QED
    BY <1>2, <2>1, CmdAssumption DEF Awaited, NestInv
<1> QED
  BY <1>1, <1>2 DEF Movable

(* When nobody can go on though some command runs, the deepest such        *)
(* command finds the pool empty.                                           *)
LEMMA DeepestWaits ==
  ASSUME TypeOK, NestInv, \E c \in Cmd : Running(c), \A c \in Cmd : ~Movable(c)
  PROVE  \E c \in Cmd : pc[c] = "connect" /\ ~(Cardinality(held) < PoolSize)
<1> DEFINE Active == {c \in Cmd : Running(c)}
<1>1. PICK d \in Active : \A x \in Active : depth[x] <= depth[d]
  <2>1. Active \subseteq Cmd /\ Active # {}
    OBVIOUS
  <2> HIDE DEF Active
  <2> QED
    BY <2>1, Deepest
<1>2. \A e \in Cmd : Running(e) => ~(depth[d] < depth[e])
  BY <1>1 DEF TypeOK
<1> QED
  BY <1>1, <1>2, WhyBlocked

(* When nobody can go on, whoever holds a connection has leaked it or has, *)
(* somewhere below it in its unit, a handler that awaits an isolated       *)
(* command: look at the deepest running command of the unit.               *)
LEMMA HolderWaits ==
  ASSUME TypeOK, TxInv, RunnerInv, NestInv, \A c \in Cmd : ~Movable(c),
         NEW x \in held, x \notin Leaked
  PROVE  \E e \in NestedIsolated : x = unit[parent[e]]
<1> DEFINE Members == {d \in Cmd : Running(d) /\ unit[d] = x}
<1>1. x \in Cmd /\ unit[x] = x /\ pc[x] \notin {"idle", "called", "connect", "done"}
  BY DEF TypeOK, TxInv, TxOK, Leaked
<1>2. x \in Members
  BY <1>1 DEF Running
<1>3. PICK d \in Members : \A y \in Members : depth[y] <= depth[d]
  <2> HIDE DEF Members
  <2>1. Members \subseteq Cmd
    BY DEF Members
  <2> QED
    BY <1>2, <2>1, Deepest
<1>4. pc[d] # "connect"
  BY <1>1, <1>3 DEF RunnerInv, RunnerOK
<1>5. PICK e \in Cmd \ Detached : /\ Running(e)
                                  /\ parent[e] = d
                                  /\ depth[d] < depth[e]
                                  /\ e \in Isolated \/ unit[e] = unit[d]
  BY <1>3, <1>4, WhyBlocked
<1>6. e \notin Members
  <2>1. depth[e] \in Nat /\ depth[d] \in Nat
    BY <1>3 DEF TypeOK
  <2> QED
    BY <1>3, <1>5, <2>1
<1>7. e \in Isolated /\ parent[e] # NoCmd
  BY <1>3, <1>5, <1>6, CmdAssumption
<1> QED
  BY <1>3, <1>5, <1>7 DEF NestedIsolated

(* All the sets that are counted are finite.                               *)
LEMMA Countable ==
  ASSUME TypeOK, TxInv, NestInv
  PROVE  \A S \in {NestedIsolated, Leaked, held} : IsFiniteSet(S) /\ Cardinality(S) \in Nat
<1>1. \A S \in {NestedIsolated, Leaked, held} : S \subseteq Called
  BY CmdAssumption DEF NestedIsolated, Leaked, Called, Running, TypeOK, TxInv, TxOK
<1> QED
  BY <1>1, FS_Subset, FS_CardinalityType DEF NestInv

(* Therefore a pool that is empty while nobody can go on has leaked its    *)
(* connections or lent them to the callers of isolated commands.           *)
LEMMA StuckPool ==
  ASSUME TypeOK, TxInv, RunnerInv, NestInv, \A c \in Cmd : ~Movable(c)
  PROVE  Cardinality(held) <= Cardinality(NestedIsolated) + Cardinality(Leaked)
<1> DEFINE Lent == {unit[parent[e]] : e \in NestedIsolated}
           lender == [e \in NestedIsolated |-> unit[parent[e]]]
<1>1. /\ IsFiniteSet(NestedIsolated) /\ IsFiniteSet(Leaked)
      /\ Cardinality(NestedIsolated) \in Nat /\ Cardinality(Leaked) \in Nat
      /\ Cardinality(held) \in Nat
  BY Countable
<1>2. IsFiniteSet(Lent) /\ Cardinality(Lent) <= Cardinality(NestedIsolated)
  <2>1. lender \in Surjection(NestedIsolated, Lent)
    BY DEF Surjection
  <2> QED
    BY <1>1, <2>1, FS_Surjection
<1>3. held \subseteq Lent \cup Leaked
  BY HolderWaits
<1> HIDE DEF Lent
<1>4. /\ IsFiniteSet(Lent \cup Leaked)
      /\ Cardinality(Lent \cup Leaked) <= Cardinality(Lent) + Cardinality(Leaked)
  <2>1. IsFiniteSet(Lent \cap Leaked)
    BY <1>2, FS_Intersection
  <2>2. Cardinality(Lent \cap Leaked) \in Nat /\ Cardinality(Lent) \in Nat /\ Cardinality(Leaked) \in Nat
    BY <1>1, <1>2, <2>1, FS_CardinalityType
  <2>3. /\ IsFiniteSet(Lent \cup Leaked)
        /\ Cardinality(Lent \cup Leaked)
             = Cardinality(Lent) + Cardinality(Leaked) - Cardinality(Lent \cap Leaked)
    BY <1>1, <1>2, FS_Union
  <2> QED
    BY <2>2, <2>3
<1>5. Cardinality(held) <= Cardinality(Lent \cup Leaked)
  BY <1>3, <1>4, FS_Subset
<1>6. Cardinality(Lent) \in Nat /\ Cardinality(Lent \cup Leaked) \in Nat
  BY <1>2, <1>4, FS_CardinalityType
<1> QED
  BY <1>1, <1>2, <1>4, <1>5, <1>6

(* Nobody waits in a circle: as long as the pool is larger than the number *)
(* of awaited isolated commands inside others and of leaked connections,   *)
(* some running command can go on, whatever the dispatch tree and whatever *)
(* has failed.  (connect L38, the @IsolatedTransaction branch L32)         *)
THEOREM DeadlockFreedom == Spec => []NeverStuck
<1>1. Spec => []NestInv
  BY InitNest, NestStep, StepsMove, TypeCorrect, PTL DEF Spec
<1>2. CASE HasDataSource
  <2>1. TypeOK /\ IInv /\ NestInv => NeverStuck
    <3> SUFFICES ASSUME TypeOK, TxInv, RunnerInv, NestInv,
                        \E c \in Cmd : Running(c), \A c \in Cmd : ~Movable(c)
                 PROVE  ~(Cardinality(NestedIsolated) + Cardinality(Leaked) < PoolSize)
      BY DEF IInv, NeverStuck
    <3>1. ~(Cardinality(held) < PoolSize)
      BY DeepestWaits
    <3>2. /\ Cardinality(NestedIsolated) \in Nat /\ Cardinality(Leaked) \in Nat
          /\ Cardinality(held) \in Nat
      BY Countable
    <3> QED
      BY <3>1, <3>2, StuckPool, CmdAssumption
  <2> QED
    BY <1>1, <1>2, <2>1, InductiveInvariant, TypeCorrect, PTL
<1>3. CASE ~HasDataSource
  <2>1. TypeOK /\ Bare /\ NestInv => NeverStuck
    BY DeepestWaits DEF Bare, NeverStuck
  <2> QED
    BY <1>1, <1>3, <2>1, NothingWithoutDataSource, TypeCorrect, PTL
<1> QED
  BY <1>2, <1>3

-----------------------------------------------------------------------------
(* How far execute(c) and the transaction it created have come.            *)
Rank == [idle |-> 0, called |-> 1, connect |-> 2, begin |-> 3, handler |-> 4,
         commit |-> 5, rollback |-> 5, catch |-> 6, release |-> 7, done |-> 8]

TxRank == [none |-> 0, active |-> 1, aborted |-> 2, ended |-> 3]

NeverBack(c) ==
    /\ Rank[pc[c]] <= Rank[pc'[c]]
    /\ TxRank[tx[c]] <= TxRank[tx'[c]]
    /\ c \in wrote => c \in wrote'

Advances(c) ==
    \/ Rank[pc[c]] < Rank[pc'[c]]
    \/ TxRank[tx[c]] < TxRank[tx'[c]]
    \/ c \notin wrote /\ c \in wrote'

OnlyForward == [][(\A c \in Cmd : NeverBack(c)) /\ (\E c \in Cmd : Advances(c))]_vars

(* A step of c takes c to a later stage of execute(), or writes its row,   *)
(* or aborts a transaction.                                                *)
LEMMA StepAdvances ==
  ASSUME TypeOK, (TxInv /\ RunnerInv) \/ Bare, NEW c \in Cmd, Step(c)
  PROVE  /\ Rank[pc[c]] < Rank[pc'[c]] \/ pc' = pc
         /\ \A x \in Cmd : \/ tx'[x] = tx[x]
                           \/ x = c /\ (tx[x] = "none" \/ tx'[x] = "ended")
                           \/ tx[x] = "active" /\ tx'[x] = "aborted"
         /\ wrote \subseteq wrote'
         /\ \/ Rank[pc[c]] < Rank[pc'[c]]
            \/ c \in wrote' \ wrote
            \/ \E x \in Cmd : tx[x] = "active" /\ tx'[x] = "aborted"
<1>1. CASE Join(c) \/ Create(c) \/ Connect(c) \/ ConnectFails(c) \/ BeginFails(c) \/ Release(c)
  BY <1>1 DEF Join, Create, Connect, ConnectFails, BeginFails, Release, Goto, TypeOK, Rank
<1>2. CASE Begin(c)
  <2>1. tx[c] = "none"
    BY <1>2, CmdAssumption DEF Begin, TxInv, TxOK, RunnerInv, RunnerOK, Owns, Bare
  <2> QED
    BY <1>2, <2>1 DEF Begin, Goto, TypeOK, Rank
<1>3. CASE Write(c)
  BY <1>3 DEF Write
<1>4. CASE StatementFails(c)
  <2>1. ambient[c] \in Cmd
    BY <1>4 DEF StatementFails, TypeOK
  <2> QED
    BY <1>4, <2>1 DEF StatementFails, TypeOK
<1>5. CASE \E o \in {"success", "failure", "throw"} : HandlerReturns(c, o)
  BY <1>5 DEF HandlerReturns, Goto, TypeOK, Rank
<1>6. CASE Commit(c) \/ CommitFails(c) \/ CommitReplyLost(c) \/ Rollback(c) \/ RollbackFails(c)
  <2>1. tx' = [tx EXCEPT ![c] = "ended"] /\ wrote' = wrote
    BY <1>6 DEF Commit, CommitFails, CommitReplyLost, Rollback, RollbackFails, End
  <2>2. Rank[pc[c]] < Rank[pc'[c]]
    BY <1>6 DEF Commit, CommitFails, CommitReplyLost, Rollback, RollbackFails, Goto, TypeOK, Rank
  <2> QED
    BY <2>1, <2>2 DEF TypeOK
<1> QED
  BY <1>1, <1>2, <1>3, <1>4, <1>5, <1>6 DEF Step, Proceed, Fail

(* Every step takes some command or transaction further and none back: no  *)
(* behaviour comes round to a state it has left.  Together with            *)
(* DeadlockFreedom, and with at most 12 such steps for each command, this  *)
(* is why every command settles.  (L30-63)                                 *)
THEOREM Progress == Spec => OnlyForward
<1>1. TypeOK /\ ((TxInv /\ RunnerInv) \/ Bare) /\ [Next]_vars
        => [(\A c \in Cmd : NeverBack(c)) /\ (\E c \in Cmd : Advances(c))]_vars
  <2> SUFFICES ASSUME TypeOK, (TxInv /\ RunnerInv) \/ Bare, Next, ~UNCHANGED vars
               PROVE  (\A c \in Cmd : NeverBack(c)) /\ (\E c \in Cmd : Advances(c))
    OBVIOUS
  <2>1. \A c \in Cmd : Rank[pc[c]] \in Nat /\ TxRank[tx[c]] \in 0 .. 3
    BY DEF TypeOK, PCs, Rank, TxRank
  <2>2. TypeOK'
    BY TypeStep, StepsMove
  <2>3. \A c \in Cmd : TxRank[tx'[c]] \in 0 .. 3
    BY <2>2 DEF TypeOK, TxRank
  <2>4. ASSUME NEW c \in Cmd, NEW p \in Cmd \cup {NoCmd}, Dispatch(c, p)
        PROVE  (\A x \in Cmd : NeverBack(x)) /\ (\E x \in Cmd : Advances(x))
    <3>1. pc' = [pc EXCEPT ![c] = "called"] /\ pc[c] = "idle" /\ tx' = tx /\ wrote' = wrote
      BY <2>4 DEF Dispatch, Inherit, Goto
    <3>2. Rank[pc[c]] < Rank[pc'[c]] /\ \A x \in Cmd \ {c} : pc'[x] = pc[x]
      BY <3>1 DEF TypeOK, Rank
    <3>3. \A x \in Cmd : Rank[pc[x]] <= Rank[pc'[x]] /\ TxRank[tx[x]] <= TxRank[tx'[x]]
      <4> SUFFICES ASSUME NEW x \in Cmd
                   PROVE  Rank[pc[x]] <= Rank[pc'[x]] /\ TxRank[tx[x]] <= TxRank[tx'[x]]
        OBVIOUS
      <4>1. Rank[pc'[x]] \in Nat /\ Rank[pc[x]] \in Nat /\ TxRank[tx[x]] \in Nat
        BY <2>1, <2>2 DEF TypeOK, PCs, Rank
      <4>2. x = c \/ pc'[x] = pc[x]
        BY <3>2
      <4> QED
        BY <3>1, <3>2, <4>1, <4>2
    <3> QED
      BY <3>1, <3>2, <3>3 DEF NeverBack, Advances
  <2>5. ASSUME NEW c \in Cmd, Step(c)
        PROVE  (\A x \in Cmd : NeverBack(x)) /\ (\E x \in Cmd : Advances(x))
    <3>1. \A x \in Cmd : Rank[pc[x]] <= Rank[pc'[x]]
      <4>1. \A x \in Cmd \ {c} : pc'[x] = pc[x]
        BY <2>5, Frame
      <4>2. Rank[pc[c]] < Rank[pc'[c]] \/ pc' = pc
        BY <2>5, StepAdvances
      <4> QED
        BY <2>1, <2>2, <4>1, <4>2 DEF TypeOK, PCs, Rank
    <3>2. ASSUME NEW x \in Cmd PROVE TxRank[tx[x]] <= TxRank[tx'[x]]
      <4>1. \/ tx'[x] = tx[x]
            \/ tx[x] = "none" \/ tx'[x] = "ended"
            \/ tx[x] = "active" /\ tx'[x] = "aborted"
        BY <2>5, StepAdvances
      <4>2. TxRank["none"] = 0 /\ TxRank["active"] = 1 /\ TxRank["aborted"] = 2 /\ TxRank["ended"] = 3
        BY DEF TxRank
      <4> QED
        BY <2>1, <2>3, <4>1, <4>2
    <3>3. wrote \subseteq wrote'
      BY <2>5, StepAdvances
    <3>4. \E x \in Cmd : Advances(x)
      <4>1. CASE Rank[pc[c]] < Rank[pc'[c]] \/ c \in wrote' \ wrote
        BY <4>1 DEF Advances
      <4>2. ASSUME NEW x \in Cmd, tx[x] = "active", tx'[x] = "aborted" PROVE Advances(x)
        BY <4>2 DEF Advances, TxRank
      <4> QED
        BY <2>5, <4>1, <4>2, StepAdvances
    <3> QED
      BY <3>1, <3>2, <3>3, <3>4 DEF NeverBack
  <2> QED
    BY <2>4, <2>5 DEF Next, Step, Quiescent
<1>2. CASE HasDataSource
  <2>1. IInv => (TxInv /\ RunnerInv) \/ Bare
    BY DEF IInv
  <2> QED
    BY <1>1, <1>2, <2>1, InductiveInvariant, TypeCorrect, PTL DEF Spec, OnlyForward
<1>3. CASE ~HasDataSource
  BY <1>1, <1>3, NothingWithoutDataSource, TypeCorrect, PTL DEF Spec, OnlyForward
<1> QED
  BY <1>2, <1>3
=============================================================================
