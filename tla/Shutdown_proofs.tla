--------------------------- MODULE Shutdown_proofs ---------------------------
(***************************************************************************)
(* Theorems about Shutdown, for any commands, any dispatch tree, any set   *)
(* of commands that drainWork waits for and any faults.  Up to the closing *)
(* of the pool the invariant of UnitOfWork holds; what it says at that     *)
(* moment of the commands cut off is what the rest is derived from.        *)
(***************************************************************************)
EXTENDS Shutdown, UnitOfWork_proofs

Types == TypeOK /\ ShutdownTypeOK

(* Until there is no database, commands run as UnitOfWork says.            *)
OpenInv ==
    ~closed /\ phase # "exited" =>
        /\ cut = {}
        /\ HasDataSource => IInv
        /\ ~HasDataSource => Bare

(* No unit of work has been opened by c so far, and perhaps never will be. *)
Early(c) == pc[c] \in {"idle", "called", "connect", "begin"}

(* Nothing of the unit of c is stored, unless someone joined it unawaited. *)
Absent(c) == Supervised(c) => RowsOf(c) \cap durable = {}

(* A command cut off is on its way to a failure.                           *)
Sinking(c) ==
    /\ reply[c] # "success"
    /\ \/ pc[c] \in {"connect", "begin", "commit", "rollback", "catch", "release", "done"}
       \/ pc[c] = "handler" /\ Owns(c)

(* On a closed pool no transaction is open, and none will ever be.         *)
ClosedInv ==
    closed /\ phase # "exited" =>
        /\ HasDataSource
        /\ IdleInv
        /\ \A c \in Cmd : tx[c] \notin {"active", "aborted"}
        /\ \A c \in Cmd : Early(c) => reply[c] = "none" /\ Absent(c)
        /\ \A c \in cut : Sinking(c) /\ Absent(c)

(* The history of the shutdown itself.                                     *)
PhaseInv ==
    /\ phase \in {"up", "drain", "database"} => ~closed
    /\ phase = "up" => atSignal = {}
    /\ phase \in {"up", "drain"} => drainEnd = "none"

(* What drainWork waited for successfully is over.                         *)
DrainInv ==
    /\ \A c \in atSignal : pc[c] # "idle"
    /\ drainEnd = "drained" => \A c \in atSignal \cap Drained : pc[c] = "done" /\ c \notin cut

SInv == Types /\ OpenInv /\ ClosedInv /\ PhaseInv /\ DrainInv /\ CutLeavesNothing

-----------------------------------------------------------------------------
(* What is under way before the first dispatch: nothing.                   *)
LEMMA SInit == ShutdownInit => SInv
<1> SUFFICES ASSUME ShutdownInit PROVE SInv
  OBVIOUS
<1>1. TypeOK
  BY CmdAssumption DEF ShutdownInit, Init, TypeOK, PCs
<1>2. IInv /\ Bare
  BY InitIInv DEF ShutdownInit, Init, Bare
<1> QED
  BY <1>1, <1>2
     DEF ShutdownInit, SInv, Types, ShutdownTypeOK, OpenInv, ClosedInv, PhaseInv, DrainInv,
         CutLeavesNothing

-----------------------------------------------------------------------------
(* A command never goes back to "idle" and never leaves "done".            *)
Onward ==
    \A c \in Cmd : /\ pc[c] # "idle" => pc'[c] # "idle"
                   /\ pc[c] = "done" => pc'[c] = "done"

(* A dispatch and a step of a command on an open database.                 *)
LEMMA OpenStep ==
  ASSUME SInv, ~closed, phase # "exited", UNCHANGED shutdown, Onward, [Next]_vars
  PROVE  SInv'
<1>1. TypeOK' /\ ShutdownTypeOK'
  BY TypeStep, StepsMove DEF SInv, Types, ShutdownTypeOK, shutdown
<1>2. OpenInv'
  BY IInvStep, BareStep, StepsMove DEF SInv, Types, OpenInv, shutdown
<1>3. ClosedInv' /\ PhaseInv' /\ CutLeavesNothing'
  BY DEF SInv, OpenInv, ClosedInv, PhaseInv, CutLeavesNothing, shutdown
<1>4. DrainInv'
  BY DEF SInv, Types, ShutdownTypeOK, DrainInv, Onward, shutdown
<1> QED
  BY <1>1, <1>2, <1>3, <1>4 DEF SInv, Types

LEMMA DispatchOnward ==
  ASSUME TypeOK, NEW c \in Cmd, NEW p \in Cmd \cup {NoCmd}, Dispatch(c, p)
  PROVE  Onward
  BY DEF Dispatch, Inherit, Goto, TypeOK, Onward

LEMMA StepOnward ==
  ASSUME TypeOK, NEW c \in Cmd, Step(c)
  PROVE  Onward
  BY Frame DEF Onward, Running

-----------------------------------------------------------------------------
(* The promises of a closed pool are the faults of an open one, without    *)
(* those that have an effect.                                              *)
Rejected(c) ==
    \/ /\ pc[c] \in {"connect", "begin"}
       /\ pc' = [pc EXCEPT ![c] = "done"]
       /\ reply' = [reply EXCEPT ![c] = "throw"]
       /\ UNCHANGED <<tx, pending>>
    \/ /\ pc[c] \in {"commit", "rollback"}
       /\ pc' = [pc EXCEPT ![c] = "catch"]
       /\ tx' = [tx EXCEPT ![c] = "ended"]
       /\ pending' = [pending EXCEPT ![c] = {}]
       /\ UNCHANGED reply
    \/ /\ pc[c] = "catch"
       /\ pc' = [pc EXCEPT ![c] = "release"]
       /\ reply' = [reply EXCEPT ![c] = "throw"]
       /\ tx' = [tx EXCEPT ![c] = "ended"]
       /\ pending' = [pending EXCEPT ![c] = {}]

(* Every call that a closed pool rejects is one of these.                  *)
LEMMA OnlyRejected ==
  ASSUME TypeOK, NEW c \in Cmd, OnClosedPool!Fail(c)
  PROVE  Rejected(c) /\ UNCHANGED <<tree, ambient, held, durable, wrote, mishap>>
<1>1. CASE OnClosedPool!ConnectFails(c) \/ OnClosedPool!BeginFails(c)
  BY <1>1 DEF OnClosedPool!ConnectFails, OnClosedPool!BeginFails, OnClosedPool!Goto,
              OnClosedPool!Settle, OnClosedPool!tree, tree, Rejected
<1>2. CASE OnClosedPool!CommitFails(c)
  BY <1>2 DEF OnClosedPool!CommitFails, OnClosedPool!End, OnClosedPool!Goto, OnClosedPool!tree,
              tree, Rejected, TypeOK
<1>3. CASE OnClosedPool!RollbackFails(c)
  BY <1>3 DEF OnClosedPool!RollbackFails, OnClosedPool!End, OnClosedPool!Goto,
              OnClosedPool!Settle, OnClosedPool!tree, tree, Rejected, TypeOK
<1> QED
  BY <1>1, <1>2, <1>3 DEF OnClosedPool!Fail, OnClosedPool!StatementFails,
                          OnClosedPool!CommitReplyLost

(* A step that needs no database.                                          *)
Unaided(c) ==
    \/ Join(c) \/ Create(c) \/ Release(c)
    \/ \E outcome \in {"success", "failure", "throw"} : HandlerReturns(c, outcome)

LEMMA ClosedStepTypes ==
  ASSUME TypeOK, NEW c \in Cmd, Unaided(c) \/ OnClosedPool!Fail(c)
  PROVE  TypeOK'
<1>1. CASE Unaided(c)
  <2>1. [Next]_vars
    BY <1>1 DEF Unaided, Next, Proceed
  <2> QED
    BY <2>1, TypeStep, StepsMove
<1>2. CASE OnClosedPool!Fail(c)
  BY <1>2, OnlyRejected DEF Rejected, tree, TypeOK, PCs
<1> QED
  BY <1>1, <1>2

(* Of a step on a closed pool, all that matters.                           *)
LEMMA ClosedFrame ==
  ASSUME TypeOK, NEW c \in Cmd, Unaided(c) \/ OnClosedPool!Fail(c)
  PROVE  /\ UNCHANGED <<tree, ambient, durable, wrote, mishap>>
         /\ \A x \in Cmd \ {c} : pc'[x] = pc[x] /\ reply'[x] = reply[x]
         /\ \A x \in Cmd : tx'[x] = tx[x] \/ tx'[x] = "ended"
         /\ Running(c) /\ pc'[c] # "idle"
         /\ Early(c)' => Early(c) /\ reply'[c] = reply[c]
         /\ Sinking(c) => Sinking(c)'
<1>1. CASE Join(c) \/ Create(c) \/ Release(c)
  BY <1>1 DEF Join, Create, Release, Goto, tree, TypeOK, Running, Early, Sinking, Owns
<1>2. CASE \E outcome \in {"success", "failure", "throw"} : HandlerReturns(c, outcome)
  BY <1>2 DEF HandlerReturns, Goto, Settle, tree, TypeOK, Running, Early, Sinking, Owns
<1>3. CASE OnClosedPool!Fail(c)
  BY <1>3, OnlyRejected DEF Rejected, tree, TypeOK, Running, Early, Sinking, Owns
<1> QED
  BY <1>1, <1>2, <1>3 DEF Unaided

LEMMA ClosedStep ==
  ASSUME SInv, closed, phase # "exited", UNCHANGED shutdown,
         NEW c \in Cmd, Unaided(c) \/ OnClosedPool!Fail(c)
  PROVE  SInv'
<1>1. TypeOK /\ TypeOK' /\ ShutdownTypeOK'
  BY ClosedStepTypes DEF SInv, Types, ShutdownTypeOK, shutdown
<1>2. /\ UNCHANGED <<tree, ambient, durable, wrote, mishap>>
      /\ \A x \in Cmd \ {c} : pc'[x] = pc[x] /\ reply'[x] = reply[x]
      /\ \A x \in Cmd : tx'[x] = tx[x] \/ tx'[x] = "ended"
      /\ Running(c) /\ pc'[c] # "idle"
      /\ Early(c)' => Early(c) /\ reply'[c] = reply[c]
      /\ Sinking(c) => Sinking(c)'
  BY <1>1, ClosedFrame
<1>3. \A x \in Cmd : Absent(x)' <=> Absent(x)
  BY <1>2 DEF Absent, RowsOf, Supervised, tree
<1>4. \A x \in Cmd : Sinking(x) => Sinking(x)'
  BY <1>2 DEF Sinking, Owns
<1>5. \A x \in Cmd : Early(x)' => Early(x) /\ reply'[x] = reply[x]
  BY <1>2 DEF Early
<1>6. IdleInv'
  BY <1>2 DEF SInv, ClosedInv, IdleInv, tree
<1>7. ClosedInv'
  BY <1>1, <1>2, <1>3, <1>4, <1>5, <1>6
     DEF SInv, Types, ShutdownTypeOK, ClosedInv, shutdown
<1>8. CutLeavesNothing'
  BY <1>1, <1>7 DEF ClosedInv, CutLeavesNothing, Sinking, Absent, shutdown
<1>9. OpenInv' /\ PhaseInv'
  BY DEF SInv, OpenInv, PhaseInv, shutdown
<1>10. DrainInv'
  BY <1>1, <1>2 DEF SInv, Types, ShutdownTypeOK, DrainInv, Running, shutdown
<1> QED
  BY <1>1, <1>7, <1>8, <1>9, <1>10 DEF SInv, Types

(* Commands that arrive after the pool was closed.                         *)
LEMMA ClosedDispatch ==
  ASSUME SInv, closed, phase # "exited", UNCHANGED shutdown,
         NEW c \in Cmd, NEW p \in Cmd \cup {NoCmd}, Dispatch(c, p)
  PROVE  SInv'
<1>1. TypeOK /\ TypeOK' /\ ShutdownTypeOK'
  BY TypeStep, StepsMove DEF SInv, Types, ShutdownTypeOK, shutdown, Next
<1>2. /\ UNCHANGED <<tx, durable, reply, wrote>>
      /\ pc[c] = "idle" /\ pc'[c] = "called"
      /\ \A x \in Cmd \ {c} : pc'[x] = pc[x] /\ unit'[x] = unit[x] /\ ambient'[x] = ambient[x]
  BY <1>1 DEF Dispatch, Inherit, Goto, TypeOK
<1>3. c \notin wrote /\ unit[c] = c /\ IdleInv
  BY <1>2 DEF SInv, ClosedInv, IdleInv
<1>4. \A x \in Cmd : RowsOf(x)' = RowsOf(x)
  BY <1>1, <1>2, <1>3 DEF RowsOf, TypeOK
<1>5. \A x \in Cmd : Supervised(x)' => Supervised(x)
  BY <1>2, <1>3, CmdAssumption DEF Supervised
<1>6. \A x \in Cmd : Absent(x) => Absent(x)'
  BY <1>2, <1>4, <1>5 DEF Absent
<1>7. cut \subseteq Cmd /\ \A x \in cut : x # c /\ Sinking(x)'
  BY <1>1, <1>2 DEF SInv, Types, ShutdownTypeOK, ClosedInv, Sinking, Owns, shutdown
<1>8. IdleInv'
  BY <1>2, <1>3 DEF IdleInv
<1>9. ClosedInv'
  BY <1>2, <1>6, <1>7, <1>8 DEF SInv, ClosedInv, Early, shutdown
<1>10. CutLeavesNothing'
  BY <1>6, <1>7 DEF SInv, ClosedInv, CutLeavesNothing, Sinking, Absent, shutdown
<1>11. OpenInv' /\ PhaseInv'
  BY DEF SInv, OpenInv, PhaseInv, shutdown
<1>12. DrainInv'
  BY <1>1, <1>2 DEF SInv, Types, ShutdownTypeOK, DrainInv, shutdown
<1> QED
  BY <1>1, <1>9, <1>10, <1>11, <1>12 DEF SInv, Types

-----------------------------------------------------------------------------
(* Whoever has asked for a connection and not given it up has reported     *)
(* nothing and stored nothing, ...                                         *)
LEMMA OnDatabaseOpen ==
  ASSUME TypeOK, IInv, NEW c \in OnDatabase
  PROVE  /\ reply[c] = "none" /\ Absent(c) /\ pc[c] # "done"
         /\ \/ pc[c] \in {"connect", "begin", "commit", "rollback", "catch"}
            \/ pc[c] = "handler" /\ Owns(c)
<1>1. /\ c \in Cmd
      /\ RunnerOK(c) /\ TxOK(c) /\ RowsOK(c)
      /\ pc[c] \notin {"release", "done"} => reply[c] = "none"
  BY DEF IInv, RunnerInv, RunnerOK, TxInv, TxOK, RowsInv, RowsOK, ReplyInv, OnDatabase
<1>2. CASE pc[c] \in {"connect", "begin"}
  <2>1. unit[c] = c /\ tx[c] = "none"
    BY <1>1, <1>2 DEF RunnerOK, TxOK, Owns, TypeOK
  <2> QED
    BY <1>1, <1>2, <2>1 DEF RowsOK, Absent
<1>3. CASE tx[c] \in {"active", "aborted"}
  <2>1. Owns(c) /\ unit[c] = c
    BY <1>1, <1>3 DEF RunnerOK, TxOK
  <2>2. pc[c] \in {"handler", "commit", "rollback", "catch"}
    BY <1>1, <1>3, <2>1, CmdAssumption DEF RunnerOK, TxOK, Owns, Joins, TypeOK, PCs
  <2> QED
    BY <1>1, <1>3, <2>1, <2>2 DEF RowsOK, Absent
<1> QED
  BY <1>2, <1>3 DEF OnDatabase

(* ... and so has whoever has not come that far.                           *)
LEMMA EarlyOpen ==
  ASSUME TypeOK, IInv, NEW c \in Cmd, Early(c)
  PROVE  reply[c] = "none" /\ Absent(c)
<1>1. RunnerOK(c) /\ TxOK(c) /\ RowsOK(c) /\ reply[c] = "none"
  BY DEF IInv, RunnerInv, RunnerOK, TxInv, TxOK, RowsInv, RowsOK, ReplyInv, Early
<1>2. tx[c] = "none"
  BY <1>1, CmdAssumption DEF RunnerOK, TxOK, Owns, Joins, Early
<1>3. CASE unit[c] = c
  BY <1>1, <1>2, <1>3 DEF RowsOK, Absent
<1>4. CASE unit[c] # c
  BY <1>1, <1>4 DEF IInv, TreeInv, TypeOK, RowsOf, Absent
<1> QED
  BY <1>3, <1>4

(* EndSessions does not touch what the rest is about.                      *)
LEMMA EndSessionsTypes ==
  ASSUME Types, EndSessions
  PROVE  /\ TypeOK' /\ cut' \subseteq Cmd
         /\ \A c \in Cmd : tx'[c] \notin {"active", "aborted"}
         /\ \A c \in Cmd : /\ Absent(c)' <=> Absent(c)
                           /\ Sinking(c)' <=> Sinking(c)
                           /\ Early(c)' <=> Early(c)
         /\ IdleInv => IdleInv'
<1>1. TypeOK' /\ cut' \subseteq Cmd
  BY DEF Types, ShutdownTypeOK, EndSessions, TypeOK, OnDatabase, tree
<1>2. \A c \in Cmd : tx'[c] \notin {"active", "aborted"}
  BY DEF EndSessions
<1>3. UNCHANGED <<pc, parent, unit, depth, ambient, durable, reply, wrote>>
  BY DEF EndSessions, tree
<1>4. \A c \in Cmd : /\ Absent(c)' <=> Absent(c)
                     /\ Sinking(c)' <=> Sinking(c)
                     /\ Early(c)' <=> Early(c)
  BY <1>3 DEF Absent, RowsOf, Supervised, Sinking, Early, Owns
<1>5. IdleInv => IdleInv'
  BY <1>3 DEF IdleInv
<1> QED
  BY <1>1, <1>2, <1>4, <1>5

LEMMA CloseStep ==
  ASSUME SInv, CloseDatabase
  PROVE  SInv'
<1>1. /\ phase = "database" /\ phase' = "redis" /\ ~closed
      /\ UNCHANGED <<drainEnd, atSignal>>
  BY DEF CloseDatabase, SInv, PhaseInv
<1>2. CASE ~HasDataSource /\ UNCHANGED <<vars, closed, cut>>
  <2>1. UNCHANGED vars /\ UNCHANGED <<closed, cut>>
    BY <1>2
  <2>2. TypeOK' /\ (Bare => Bare')
    BY <2>1 DEF SInv, Types, TypeOK, Bare, vars
  <2>3. CutLeavesNothing' /\ DrainInv'
    BY <1>1, <2>1
       DEF SInv, CutLeavesNothing, DrainInv, vars, RowsOf, Supervised
  <2> QED
    BY <1>1, <1>2, <2>1, <2>2, <2>3
       DEF SInv, Types, ShutdownTypeOK, OpenInv, ClosedInv, PhaseInv
<1>3. CASE HasDataSource /\ EndSessions /\ closed' = TRUE
  <2>1. IInv /\ cut = {}
    BY <1>1, <1>3 DEF SInv, OpenInv
  <2>2. cut' = OnDatabase
    BY <1>3, <2>1 DEF EndSessions
  <2>3. /\ TypeOK /\ TypeOK' /\ cut' \subseteq Cmd
        /\ \A c \in Cmd : tx'[c] \notin {"active", "aborted"}
        /\ \A c \in Cmd : /\ Absent(c)' <=> Absent(c)
                          /\ Sinking(c)' <=> Sinking(c)
                          /\ Early(c)' <=> Early(c)
        /\ IdleInv'
    BY <1>3, <2>1, EndSessionsTypes DEF SInv, Types, IInv
  <2>4. pc' = pc /\ reply' = reply
    BY <1>3 DEF EndSessions
  <2>5. \A c \in cut' : Sinking(c) /\ Absent(c) /\ pc[c] # "done"
    BY <2>1, <2>2, <2>3, OnDatabaseOpen DEF Sinking
  <2>6. \A c \in Cmd : Early(c) => reply[c] = "none" /\ Absent(c)
    BY <2>1, <2>3, EarlyOpen
  <2>7. ClosedInv'
    BY <1>3, <2>3, <2>4, <2>5, <2>6 DEF ClosedInv
  <2>8. CutLeavesNothing'
    BY <2>3, <2>5 DEF CutLeavesNothing, Sinking, Absent
  <2>9. DrainInv'
    BY <1>1, <2>4, <2>5 DEF SInv, DrainInv
  <2>10. OpenInv' /\ PhaseInv' /\ ShutdownTypeOK'
    BY <1>1, <1>3, <2>3 DEF SInv, Types, ShutdownTypeOK, OpenInv, PhaseInv
  <2> QED
    BY <2>3, <2>7, <2>8, <2>9, <2>10 DEF SInv, Types
<1> QED
  BY <1>2, <1>3 DEF CloseDatabase

LEMMA ExitStep ==
  ASSUME SInv, Exit
  PROVE  SInv'
<1>1. /\ phase = "complete" /\ phase' = "exited" /\ EndSessions
      /\ UNCHANGED <<closed, drainEnd, atSignal>>
  BY DEF Exit
<1>2. /\ TypeOK /\ TypeOK' /\ cut' \subseteq Cmd
      /\ \A c \in Cmd : /\ Absent(c)' <=> Absent(c)
                        /\ Sinking(c)' <=> Sinking(c)
  BY <1>1, EndSessionsTypes DEF SInv, Types
<1>3. pc' = pc /\ cut' = cut \cup OnDatabase
  BY <1>1 DEF EndSessions
<1>4. \A c \in OnDatabase : reply[c] # "success" /\ Absent(c) /\ pc[c] # "done"
  <2>1. CASE closed
    BY <1>1, <2>1 DEF SInv, ClosedInv, OnDatabase, Early
  <2>2. CASE ~closed /\ HasDataSource
    BY <1>1, <1>2, <2>2, OnDatabaseOpen DEF SInv, OpenInv
  <2>3. CASE ~closed /\ ~HasDataSource
    BY <1>1, <2>3 DEF SInv, OpenInv, Bare, OnDatabase
  <2> QED
    BY <2>1, <2>2, <2>3
<1>5. reply' = reply
  BY <1>1 DEF EndSessions
<1>6. \A c \in cut : reply[c] # "success" /\ Absent(c)
  BY DEF SInv, CutLeavesNothing, Absent
<1>7. CutLeavesNothing'
  BY <1>2, <1>3, <1>4, <1>5, <1>6 DEF CutLeavesNothing, Absent
<1>8. DrainInv'
  BY <1>1, <1>3, <1>4 DEF SInv, DrainInv
<1>9. OpenInv' /\ ClosedInv' /\ PhaseInv' /\ ShutdownTypeOK'
  BY <1>1, <1>2 DEF SInv, Types, ShutdownTypeOK, OpenInv, ClosedInv, PhaseInv
<1> QED
  BY <1>2, <1>7, <1>8, <1>9 DEF SInv, Types

(* The steps of onModuleDestroy that touch no command.                     *)
LEMMA PhaseStep ==
  ASSUME SInv, UNCHANGED vars,
         \/ Signal \/ Drain \/ DrainFails \/ DrainTimeout
         \/ CloseDatabaseFails \/ QuitRedis \/ Rest
  PROVE  SInv'
<1>1. /\ UNCHANGED <<closed, cut>> /\ (phase' = "exited" <=> phase = "exited")
      /\ phase' \in {"up", "drain", "database", "redis", "complete", "exited"}
      /\ drainEnd' \in {"none", "drained", "failed", "timeout"}
      /\ atSignal' \subseteq Cmd
  BY DEF SInv, Types, ShutdownTypeOK, Signal, Drain, DrainFails, DrainTimeout, DrainEnds,
         CloseDatabaseFails, QuitRedis, Rest, shutdown, UnderWay
<1>2. /\ TypeOK' /\ (IdleInv => IdleInv')
      /\ \A c \in Cmd : /\ Absent(c)' <=> Absent(c)
                        /\ Sinking(c)' <=> Sinking(c)
                        /\ Early(c)' <=> Early(c)
      /\ UNCHANGED <<pc, tx, reply>>
  BY DEF SInv, Types, TypeOK, vars, IdleInv, Absent, RowsOf, Supervised, Sinking, Early, Owns
<1>3. (HasDataSource /\ IInv => IInv') /\ (~HasDataSource /\ Bare => Bare')
  BY IInvStep, BareStep, StepsMove DEF SInv, Types
<1>4. OpenInv'
  BY <1>1, <1>3 DEF SInv, OpenInv
<1>5. ClosedInv' /\ CutLeavesNothing'
  BY <1>1, <1>2
     DEF SInv, Types, ShutdownTypeOK, ClosedInv, CutLeavesNothing, Absent, RowsOf, Supervised, vars
<1>6. PhaseInv'
  BY <1>1 DEF SInv, PhaseInv, Signal, Drain, DrainFails, DrainTimeout, DrainEnds,
         CloseDatabaseFails, QuitRedis, Rest, shutdown
<1>7. DrainInv'
  <2>1. CASE Drain
    <3>1. ~closed /\ phase # "exited" /\ cut = {}
      BY <2>1 DEF Drain, DrainEnds, SInv, PhaseInv, OpenInv
    <3> QED
      BY <1>2, <2>1, <3>1
         DEF Drain, DrainEnds, SInv, Types, ShutdownTypeOK, DrainInv, UnderWay, Running
  <2>2. CASE Signal
    BY <1>2, <2>2 DEF Signal, SInv, PhaseInv, DrainInv, UnderWay, Running
  <2>3. CASE DrainFails \/ DrainTimeout
    BY <1>2, <2>3 DEF DrainFails, DrainTimeout, DrainEnds, SInv, DrainInv
  <2>4. CASE CloseDatabaseFails \/ QuitRedis \/ Rest
    BY <1>2, <2>4 DEF CloseDatabaseFails, QuitRedis, Rest, shutdown, SInv, DrainInv
  <2> QED
    BY <2>1, <2>2, <2>3, <2>4
<1> QED
  BY <1>1, <1>2, <1>4, <1>5, <1>6, <1>7 DEF SInv, Types, ShutdownTypeOK

-----------------------------------------------------------------------------
(* What holds in every state.                                              *)
THEOREM ShutdownInvariant == ShutdownSpec => []SInv
<1>1. SInv /\ [ShutdownNext]_<<vars, shutdown>> => SInv'
  <2> SUFFICES ASSUME SInv, [ShutdownNext]_<<vars, shutdown>> PROVE SInv'
    OBVIOUS
  <2>1. ASSUME NEW c \in Cmd, NEW p \in Cmd \cup {NoCmd}, DispatchStep(c, p) PROVE SInv'
    <3>1. phase # "exited" /\ Dispatch(c, p) /\ UNCHANGED shutdown
      BY <2>1 DEF DispatchStep
    <3>2. CASE closed
      BY <3>1, <3>2, ClosedDispatch
    <3>3. CASE ~closed
      <4>1. Onward /\ [Next]_vars
        BY <3>1, DispatchOnward DEF SInv, Types, Next
      <4> QED
        BY <3>1, <3>3, <4>1, OpenStep
    <3> QED
      BY <3>2, <3>3
  <2>2. ASSUME NEW c \in Cmd, CommandStep(c) PROVE SInv'
    <3>1. ~closed /\ phase # "exited" /\ Step(c) /\ UNCHANGED shutdown
      BY <2>2 DEF CommandStep, Step
    <3>2. Onward /\ [Next]_vars
      BY <3>1, StepOnward DEF SInv, Types, Next, Step
    <3> QED
      BY <3>1, <3>2, OpenStep
  <2>3. ASSUME NEW c \in Cmd, CommandStepClosed(c) PROVE SInv'
    BY <2>3, ClosedStep DEF CommandStepClosed, Unaided
  <2>4. CASE CloseDatabase
    BY <2>4, CloseStep
  <2>5. CASE Exit
    BY <2>5, ExitStep
  <2>6. CASE \/ Signal \/ Drain \/ DrainFails \/ DrainTimeout
             \/ CloseDatabaseFails \/ QuitRedis \/ Rest
    <3>1. UNCHANGED vars
      BY <2>6 DEF Signal, Drain, DrainFails, DrainTimeout, DrainEnds, CloseDatabaseFails,
                  QuitRedis, Rest
    <3> QED
      BY <2>6, <3>1, PhaseStep
  <2>7. CASE UNCHANGED <<vars, shutdown>>
    <3>1. CASE phase = "exited"
      BY <2>7, <3>1, PhaseStep DEF Rest
    <3>2. CASE phase # "exited" /\ ~closed
      BY <2>7, <3>2, OpenStep DEF Onward, vars
    <3>3. CASE phase # "exited" /\ closed
      <4>1. UNCHANGED vars /\ UNCHANGED shutdown
        BY <2>7
      <4>2. TypeOK' /\ ShutdownTypeOK'
        BY <4>1 DEF SInv, Types, TypeOK, ShutdownTypeOK, vars, shutdown
      <4>3. ClosedInv'
        BY <4>1 DEF SInv, ClosedInv, IdleInv, Early, Sinking, Absent, RowsOf, Supervised, Owns,
                    vars, shutdown
      <4>4. OpenInv' /\ PhaseInv' /\ DrainInv' /\ CutLeavesNothing'
        BY <3>3, <4>1 DEF SInv, OpenInv, PhaseInv, DrainInv, CutLeavesNothing, RowsOf, Supervised,
                          vars, shutdown
      <4> QED
        BY <4>2, <4>3, <4>4 DEF SInv, Types
    <3> QED
      BY <3>1, <3>2, <3>3
  <2> QED
    BY <2>1, <2>2, <2>3, <2>4, <2>5, <2>6, <2>7 DEF ShutdownNext, OnModuleDestroy
<1> QED
  BY <1>1, SInit, PTL DEF ShutdownSpec

(* A command that drainWork waited for in time keeps its connection to its *)
(* end.  (GracefulShutdownService L28-38)                                  *)
THEOREM Spared == ShutdownSpec => []DrainedAreSpared
<1>1. SInv => DrainedAreSpared
  BY DEF SInv, DrainInv, DrainedAreSpared
<1> QED
  BY <1>1, ShutdownInvariant, PTL

(* What the shutdown cuts off from the database never reports success and  *)
(* leaves nothing.  (GracefulShutdownService L36-43,                       *)
(* TransactionalBehavior L44-63)                                           *)
THEOREM CutOff == ShutdownSpec => []CutLeavesNothing
<1>1. SInv => CutLeavesNothing
  BY DEF SInv
<1> QED
  BY <1>1, ShutdownInvariant, PTL

-----------------------------------------------------------------------------
(* What remains of the invariant of UnitOfWork on a closed pool: whoever   *)
(* has a QueryRunner has lost its transaction, and a creator that has not  *)
(* reported yet has nothing stored, unless its COMMIT took effect in doubt.*)
AfterInv ==
    closed /\ phase # "exited" =>
        /\ TreeInv /\ RunnerInv /\ ReplyInv
        /\ \A c \in Cmd : Owns(c) <=> tx[c] = "ended"
        /\ \A u \in Cmd :
              unit[u] = u /\ reply[u] = "none" /\ Supervised(u)
                  => Stored(u) = {} \/ "inDoubt" \in mishap[u]

(* A step of a command on the closed pool keeps it.                        *)
LEMMA AfterStep ==
  ASSUME SInv, AfterInv, closed, phase # "exited", UNCHANGED shutdown,
         NEW c \in Cmd, Unaided(c) \/ OnClosedPool!Fail(c)
  PROVE  AfterInv'
<1>1. /\ HasDataSource /\ TypeOK /\ IdleInv /\ TreeInv /\ RunnerInv /\ ReplyInv
      /\ \A x \in Cmd : Owns(x) <=> tx[x] = "ended"
  BY DEF SInv, Types, ClosedInv, AfterInv
<1>2. /\ UNCHANGED <<tree, ambient, durable, wrote, mishap>>
      /\ \A x \in Cmd \ {c} : pc'[x] = pc[x] /\ reply'[x] = reply[x]
      /\ Running(c) /\ pc'[c] # "idle"
  BY <1>1, ClosedFrame
<1>3. TreeInv' /\ RunnerInv' /\ ReplyInv'
  <2>1. CASE Unaided(c)
    <3>1. [Next]_vars
      BY <2>1 DEF Unaided, Next, Proceed
    <3> QED
      BY <1>1, <3>1, StepsMove, TreeStep, RunnerStep, ReplyStep
  <2>2. CASE OnClosedPool!Fail(c)
    <3>1. Rejected(c)
      BY <1>1, <2>2, OnlyRejected
    <3>2. TreeInv'
      BY <1>1, <1>2 DEF TreeInv, Running, tree, TypeOK
    <3>3. RunnerInv'
      <4>1. RunnerOK(c)'
        BY <1>1, <1>2, <3>1 DEF RunnerInv, RunnerOK, Rejected, TypeOK, Joins, Owns, tree
      <4>2. ASSUME NEW x \in Cmd \ {c} PROVE RunnerOK(x)'
        BY <1>1, <1>2, <4>2 DEF RunnerInv, RunnerOK, Joins, Owns, tree
      <4> QED
        BY <4>1, <4>2 DEF RunnerInv, RunnerOK
    <3>4. ReplyInv'
      BY <1>1, <1>2, <3>1 DEF ReplyInv, Rejected, TypeOK
    <3> QED
      BY <3>2, <3>3, <3>4
  <2> QED
    BY <2>1, <2>2
<1>4. \A x \in Cmd : Owns(x)' <=> tx'[x] = "ended"
  <2>1. CASE Unaided(c)
    <3>1. UNCHANGED tx
      BY <2>1 DEF Unaided, Join, Create, Release, HandlerReturns
    <3> QED
      BY <1>1, <1>2, <3>1 DEF Owns
  <2>2. CASE OnClosedPool!Fail(c)
    <3>1. UNCHANGED tx \/ (Owns(c) /\ tx' = [tx EXCEPT ![c] = "ended"])
      BY <1>1, <2>2, OnlyRejected DEF Rejected, RunnerInv, RunnerOK
    <3> QED
      BY <1>1, <1>2, <3>1 DEF Owns, TypeOK
  <2> QED
    BY <2>1, <2>2
<1>5. ASSUME NEW u \in Cmd, unit'[u] = u, reply'[u] = "none", Supervised(u)'
      PROVE  Stored(u)' = {} \/ "inDoubt" \in mishap'[u]
  <2>1. /\ unit[u] = u /\ Supervised(u) /\ mishap'[u] = mishap[u]
        /\ Stored(u)' = Stored(u)
    BY <1>2, <1>5 DEF tree, Supervised, Stored, RowsOf
  <2>2. reply[u] = "none"
    <3>1. pc[c] = "release" => pc'[c] = "done"
      BY <1>1, OnlyRejected
         DEF Unaided, Join, Create, Release, HandlerReturns, Goto, Rejected, TypeOK
    <3> QED
      BY <1>1, <1>2, <1>3, <1>5, <3>1 DEF ReplyInv, Running
  <2> QED
    BY <2>1, <2>2 DEF AfterInv
<1> QED
  BY <1>3, <1>4, <1>5 DEF AfterInv

(* So does the arrival of a command.                                       *)
LEMMA AfterDispatch ==
  ASSUME SInv, AfterInv, closed, phase # "exited", UNCHANGED shutdown,
         NEW c \in Cmd, NEW p \in Cmd \cup {NoCmd}, Dispatch(c, p)
  PROVE  AfterInv'
<1>1. /\ HasDataSource /\ TypeOK /\ IdleInv /\ TreeInv /\ RunnerInv /\ ReplyInv
      /\ \A x \in Cmd : Owns(x) <=> tx[x] = "ended"
  BY DEF SInv, Types, ClosedInv, AfterInv
<1>2. Moves
  BY DispatchStarts DEF Moves
<1>3. TreeInv' /\ RunnerInv' /\ ReplyInv'
  BY <1>1, <1>2, TreeStep, RunnerStep, ReplyStep
<1>4. /\ pc[c] = "idle" /\ pc'[c] = "called" /\ unit[c] = c /\ c \notin wrote
      /\ UNCHANGED <<tx, durable, reply, wrote, mishap>>
      /\ \A x \in Cmd \ {c} : unit'[x] = unit[x] /\ ambient'[x] = ambient[x]
  BY <1>1 DEF Dispatch, Inherit, Goto, TypeOK, IdleInv
<1>5. \A x \in Cmd : Owns(x)' <=> tx'[x] = "ended"
  <2>1. ~Owns(c)
    BY <1>1, <1>4, CmdAssumption DEF RunnerInv, RunnerOK, Owns
  <2>2. ~Owns(c)'
    <3>1. CASE p = NoCmd
      BY <1>1, <3>1, CmdAssumption DEF Dispatch, Inherit, TypeOK, Owns
    <3>2. CASE p # NoCmd
      <4>1. ambient[p] = unit[p] /\ pc[unit[p]] # "idle"
        BY <1>1, <3>2 DEF Dispatch, RunnerInv, RunnerOK, TreeInv
      <4> QED
        BY <1>1, <1>4, <3>2, <4>1 DEF Dispatch, Inherit, TypeOK, Owns
    <3> QED
      BY <3>1, <3>2
  <2> QED
    BY <1>1, <1>4, <2>1, <2>2 DEF Owns
<1>6. ASSUME NEW u \in Cmd, unit'[u] = u, reply'[u] = "none", Supervised(u)'
      PROVE  Stored(u)' = {} \/ "inDoubt" \in mishap'[u]
  <2>1. unit[u] = u /\ Supervised(u) /\ RowsOf(u)' = RowsOf(u)
    BY <1>1, <1>4, <1>6, CmdAssumption DEF Supervised, RowsOf, TypeOK
  <2> QED
    BY <1>4, <1>6, <2>1 DEF AfterInv, Stored
<1> QED
  BY <1>3, <1>5, <1>6 DEF AfterInv

(* It holds as soon as the pool is closed.                                 *)
LEMMA AfterClose ==
  ASSUME SInv, CloseDatabase
  PROVE  AfterInv'
<1> SUFFICES ASSUME closed', HasDataSource, EndSessions PROVE AfterInv'
  BY DEF CloseDatabase, AfterInv, SInv, PhaseInv
<1>1. TypeOK /\ IInv
  BY DEF CloseDatabase, SInv, Types, PhaseInv, OpenInv
<1>2. /\ UNCHANGED <<pc, parent, unit, depth, ambient, durable, reply, wrote, mishap>>
      /\ tx' = [c \in Cmd |-> IF tx[c] \in {"active", "aborted"} THEN "ended" ELSE tx[c]]
  BY DEF EndSessions, tree
<1>3. TreeInv' /\ RunnerInv' /\ ReplyInv'
  BY <1>1, <1>2 DEF IInv, TreeInv, RunnerInv, RunnerOK, ReplyInv, Joins, Owns
<1>4. ASSUME NEW c \in Cmd PROVE Owns(c)' <=> tx'[c] = "ended"
  BY <1>1, <1>2 DEF IInv, TxInv, TxOK, Owns, TypeOK
<1>5. ASSUME NEW u \in Cmd, unit'[u] = u, reply'[u] = "none", Supervised(u)'
      PROVE  Stored(u)' = {} \/ "inDoubt" \in mishap'[u]
  <2>1. /\ unit[u] = u /\ Supervised(u) /\ mishap'[u] = mishap[u] /\ Stored(u)' = Stored(u)
        /\ pc[u] \notin {"release", "done"}
    BY <1>1, <1>2, <1>5 DEF Supervised, Stored, RowsOf, IInv, ReplyInv
  <2>2. RunnerOK(u) /\ TxOK(u) /\ RowsOK(u) /\ OutcomeOK(u)
    BY <1>1 DEF IInv, RunnerInv, RunnerOK, TxInv, TxOK, RowsInv, RowsOK, OutcomeInv, OutcomeOK
  <2>3. CASE tx[u] # "ended"
    BY <1>1, <2>1, <2>2, <2>3 DEF RowsOK, Stored, TypeOK
  <2>4. CASE tx[u] = "ended"
    <3>1. Owns(u) /\ pc[u] = "catch"
      BY <1>1, <2>1, <2>2, <2>4, CmdAssumption DEF TxOK, RunnerOK, Owns, Joins, TypeOK, PCs
    <3> QED
      BY <2>1, <2>2, <2>4, <3>1 DEF OutcomeOK, Stored
  <2> QED
    BY <2>3, <2>4
<1> QED
  BY <1>3, <1>4, <1>5 DEF AfterInv

(* Every step of the system keeps it.                                      *)
LEMMA AfterKept ==
  ASSUME SInv, AfterInv, [ShutdownNext]_<<vars, shutdown>>
  PROVE  AfterInv'
<1>1. ASSUME NEW c \in Cmd, NEW p \in Cmd \cup {NoCmd}, DispatchStep(c, p) PROVE AfterInv'
  BY <1>1, AfterDispatch DEF DispatchStep, AfterInv, shutdown
<1>2. ASSUME NEW c \in Cmd, CommandStep(c) \/ CommandStepClosed(c) PROVE AfterInv'
  BY <1>2, AfterStep DEF CommandStep, CommandStepClosed, Unaided, AfterInv, shutdown
<1>3. CASE CloseDatabase
  BY <1>3, AfterClose
<1>4. CASE Exit
  BY <1>4 DEF Exit, AfterInv
<1>5. CASE \/ Signal \/ Drain \/ DrainFails \/ DrainTimeout
           \/ CloseDatabaseFails \/ QuitRedis \/ Rest \/ UNCHANGED <<vars, shutdown>>
  <2>1. /\ UNCHANGED vars /\ UNCHANGED closed
        /\ phase = "exited" => phase' = "exited"
    BY <1>5 DEF Signal, Drain, DrainFails, DrainTimeout, DrainEnds, CloseDatabaseFails,
                QuitRedis, Rest, shutdown
  <2> QED
    BY <2>1 DEF AfterInv, TreeInv, RunnerInv, RunnerOK, ReplyInv, Joins, Owns, Stored, RowsOf,
                Supervised, vars, tree
<1> QED
  BY <1>1, <1>2, <1>3, <1>4, <1>5 DEF ShutdownNext, OnModuleDestroy

-----------------------------------------------------------------------------
(* On a closed pool a unit can only end, or report.                        *)
LEMMA ClosedKeeps ==
  ASSUME SInv, AfterInv, closed, phase # "exited",
         NEW c \in Cmd, Unaided(c) \/ OnClosedPool!Fail(c), NEW u \in Cmd
  PROVE  Supervised(u)' => Supervised(u) /\ Keeps(u)
<1>1. /\ HasDataSource /\ TypeOK /\ RunnerInv /\ ReplyInv
      /\ \A x \in Cmd : Owns(x) <=> tx[x] = "ended"
  BY DEF SInv, Types, ClosedInv, AfterInv
<1>2. /\ UNCHANGED <<tree, ambient, durable, wrote, mishap>>
      /\ \A x \in Cmd \ {c} : pc'[x] = pc[x] /\ reply'[x] = reply[x]
      /\ Running(c)
  BY <1>1, ClosedFrame
<1>3. \A x \in Cmd \ {c} : tx'[x] = tx[x]
  <2>1. CASE Unaided(c)
    BY <2>1 DEF Unaided, Join, Create, Release, HandlerReturns
  <2>2. CASE OnClosedPool!Fail(c)
    BY <1>1, <2>2, OnlyRejected DEF Rejected, TypeOK
  <2> QED
    BY <2>1, <2>2
<1>4. /\ Supervised(u)' <=> Supervised(u)
      /\ RowsOf(u)' = RowsOf(u) /\ Stored(u)' = Stored(u) /\ UNCHANGED mishap
      /\ UNCHANGED unit
  BY <1>2 DEF tree, Supervised, RowsOf, Stored
<1>5. CASE u # c \/ unit[u] # u
  <2>1. u \in Over' <=> u \in Over
    BY <1>2, <1>3, <1>4, <1>5 DEF Over
  <2>2. Told(u)' = Told(u)
    BY <1>2, <1>4, <1>5 DEF Told
  <2> QED
    BY <1>4, <2>1, <2>2 DEF Keeps, Stays
<1>6. CASE u = c /\ unit[u] = u
  <2>1. /\ Told(u) = reply[u] /\ Told(u)' = reply'[u]
        /\ u \in Over <=> tx[u] = "ended"
        /\ u \in Over' <=> tx'[u] = "ended" \/ pc'[u] = "done"
    BY <1>2, <1>4, <1>6 DEF Told, Over, Running
  <2>2. RunnerOK(u) /\ (reply[u] # "none" <=> pc[u] \in {"release", "done"})
    BY <1>1 DEF RunnerInv, RunnerOK, ReplyInv
  <2>3. CASE Unaided(c)
    <3>1. UNCHANGED <<tx, reply>>
      BY <1>6, <2>2, <2>3 DEF Unaided, Join, Create, Release, HandlerReturns, RunnerOK, Owns
    <3>2. pc'[u] = "done" => tx[u] = "ended"
      BY <1>1, <1>6, <2>2, <2>3
         DEF Unaided, Join, Create, Release, HandlerReturns, Goto, RunnerOK, Owns, TypeOK
    <3> QED
      BY <1>4, <2>1, <3>1, <3>2 DEF Keeps, Stays
  <2>4. CASE OnClosedPool!Fail(c)
    <3>1. Rejected(u)
      BY <1>1, <1>6, <2>4, OnlyRejected
    <3>2. reply[u] = "none"
      BY <2>2, <3>1 DEF Rejected
    <3>3. Supervised(u) => Stored(u)' = {} \/ "inDoubt" \in mishap'[u]
      BY <1>4, <1>6, <3>2 DEF AfterInv
    <3>4. CASE pc[u] \in {"connect", "begin"}
      <4>1. pc'[u] = "done" /\ reply'[u] = "throw" /\ tx[u] # "ended"
        BY <1>1, <2>2, <3>1, <3>4 DEF Rejected, TypeOK, RunnerOK, Owns
      <4> QED
        BY <1>4, <2>1, <3>2, <3>3, <4>1 DEF Keeps, Finishes, Tells
    <3>5. CASE pc[u] \in {"commit", "rollback"}
      <4>1. tx[u] = "ended" /\ tx'[u] = "ended" /\ UNCHANGED reply
        BY <1>1, <2>2, <3>1, <3>5 DEF Rejected, TypeOK, RunnerOK
      <4> QED
        BY <1>4, <2>1, <4>1 DEF Keeps, Stays
    <3>6. CASE pc[u] = "catch"
      <4>1. tx[u] = "ended" /\ tx'[u] = "ended" /\ reply'[u] = "throw"
        BY <1>1, <2>2, <3>1, <3>6 DEF Rejected, TypeOK, RunnerOK
      <4> QED
        BY <1>4, <2>1, <3>2, <3>3, <4>1 DEF Keeps, Reports, Tells
    <3> QED
      BY <3>1, <3>4, <3>5, <3>6 DEF Rejected
  <2> QED
    BY <2>3, <2>4
<1> QED
  BY <1>5, <1>6

(* A command that arrives changes no unit.                                 *)
LEMMA ArrivalKeeps ==
  ASSUME SInv, AfterInv, closed, phase # "exited",
         NEW c \in Cmd, NEW p \in Cmd \cup {NoCmd}, Dispatch(c, p), NEW u \in Cmd
  PROVE  Supervised(u)' => Supervised(u) /\ Keeps(u)
<1>1. /\ TypeOK /\ IdleInv /\ RunnerInv /\ ReplyInv
      /\ \A x \in Cmd : Owns(x) <=> tx[x] = "ended"
  BY DEF SInv, Types, ClosedInv, AfterInv
<1>2. /\ pc[c] = "idle" /\ pc'[c] = "called" /\ unit[c] = c /\ c \notin wrote
      /\ UNCHANGED <<tx, durable, reply, wrote, mishap>>
      /\ \A x \in Cmd \ {c} : pc'[x] = pc[x] /\ unit'[x] = unit[x]
  BY <1>1 DEF Dispatch, Inherit, Goto, TypeOK, IdleInv
<1>3. reply[c] = "none" /\ tx[c] # "ended"
  BY <1>1, <1>2, CmdAssumption DEF ReplyInv, RunnerInv, RunnerOK, Owns
<1>4. RowsOf(u)' = RowsOf(u) /\ (Supervised(u)' => Supervised(u))
  BY <1>1, <1>2, CmdAssumption DEF RowsOf, Supervised, TypeOK
<1>5. (u \in Over' <=> u \in Over) /\ Told(u)' = Told(u)
  BY <1>2, <1>3 DEF Over, Told
<1> QED
  BY <1>2, <1>4, <1>5 DEF Keeps, Stays, Stored

(* The end of the sessions is the end of every open unit.                  *)
LEMMA EndSessionsKeep ==
  ASSUME EndSessions, NEW u \in Cmd
  PROVE  Supervised(u)' => Supervised(u) /\ Keeps(u)
<1>1. /\ UNCHANGED <<pc, parent, unit, depth, durable, reply, wrote, mishap>>
      /\ tx'[u] = IF tx[u] \in {"active", "aborted"} THEN "ended" ELSE tx[u]
  BY DEF EndSessions, tree
<1>2. /\ Supervised(u)' <=> Supervised(u)
      /\ RowsOf(u)' = RowsOf(u) /\ Stored(u)' = Stored(u) /\ Told(u)' = Told(u)
  BY <1>1 DEF Supervised, RowsOf, Stored, Told
<1>3. u \in Over => u \in Over'
  BY <1>1 DEF Over
<1>4. CASE u \in Over \/ u \notin Over'
  BY <1>1, <1>2, <1>3, <1>4 DEF Keeps, Stays
<1>5. CASE u \notin Over /\ u \in Over'
  BY <1>1, <1>2, <1>5 DEF Keeps, Finishes
<1> QED
  BY <1>4, <1>5

(* Every step of the system keeps the promise.                             *)
LEMMA ShutdownPromiseStep ==
  ASSUME HasDataSource, SInv, AfterInv, [ShutdownNext]_<<vars, shutdown>>
  PROVE  [Promise!Next]_(Promise!vars)
<1>1. ASSUME ~closed, phase # "exited", Moves PROVE Promise!Next
  BY <1>1, PromiseStep DEF SInv, Types, OpenInv
<1>2. ASSUME NEW c \in Cmd, NEW p \in Cmd \cup {NoCmd}, DispatchStep(c, p) PROVE Promise!Next
  <2>1. phase # "exited" /\ Dispatch(c, p) /\ Moves
    BY <1>2, DispatchStarts DEF DispatchStep, Moves
  <2>2. CASE closed
    BY <2>1, <2>2, ArrivalKeeps, KeepsIsNext
  <2> QED
    BY <1>1, <2>1, <2>2
<1>3. ASSUME NEW c \in Cmd, CommandStep(c) PROVE Promise!Next
  BY <1>1, <1>3 DEF CommandStep, Moves, Next
<1>4. ASSUME NEW c \in Cmd, CommandStepClosed(c) PROVE Promise!Next
  BY <1>4, ClosedKeeps, KeepsIsNext DEF CommandStepClosed, Unaided
<1>5. ASSUME UNCHANGED vars PROVE Promise!Next
  BY <1>5, IdleKeeps, KeepsIsNext DEF Keeps
<1>6. CASE CloseDatabase \/ Exit
  <2>1. EndSessions
    BY <1>6 DEF CloseDatabase, Exit
  <2> QED
    BY <2>1, EndSessionsKeep, KeepsIsNext
<1>7. CASE \/ Signal \/ Drain \/ DrainFails \/ DrainTimeout
           \/ CloseDatabaseFails \/ QuitRedis \/ Rest \/ UNCHANGED <<vars, shutdown>>
  BY <1>5, <1>7 DEF Signal, Drain, DrainFails, DrainTimeout, DrainEnds, CloseDatabaseFails,
                    QuitRedis, Rest
<1> QED
  BY <1>2, <1>3, <1>4, <1>6, <1>7 DEF ShutdownNext, OnModuleDestroy

(* A shutdown at any moment, be the drain complete, timed out or failed,   *)
(* makes no unit of work break its promise: neither a unit cut off in the  *)
(* middle, nor one that goes on or starts on the closed pool.              *)
(* (GracefulShutdownService L28-43, TransactionalBehavior L32-63)          *)
THEOREM ShutdownImplements ==
  ASSUME HasDataSource
  PROVE  ShutdownSpec => KeepsPromise
<1>1. ShutdownInit => AfterInv /\ Promise!Init
  BY PromiseInit DEF ShutdownInit, AfterInv
<1>2. SInv /\ AfterInv /\ [ShutdownNext]_<<vars, shutdown>> => AfterInv'
  BY AfterKept
<1>3. SInv /\ AfterInv /\ [ShutdownNext]_<<vars, shutdown>> => [Promise!Next]_(Promise!vars)
  BY ShutdownPromiseStep
<1> QED
  BY <1>1, <1>2, <1>3, ShutdownInvariant, PTL DEF ShutdownSpec, KeepsPromise, Promise!Spec
=============================================================================
