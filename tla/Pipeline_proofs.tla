--------------------------- MODULE Pipeline_proofs ---------------------------
(***************************************************************************)
(* Theorems about Pipeline: for any number of commands and queries with    *)
(* any decorators, any lifetime of the cache and any faults.               *)
(***************************************************************************)
EXTENDS Pipeline, FiniteSetTheorems, TLAPS

-----------------------------------------------------------------------------
(* Where the behaviors stand in the two chains.                            *)
LEMMA Places ==
    ASSUME NEW r \in Run
    PROVE  /\ Handler(r) = IF r[1] \in Query THEN 6 ELSE 9
           /\ Len(Chain(r)) = Handler(r) - 1
           /\ Chain(r)[2] = "perf" /\ Chain(r)[3] = "flag" /\ Chain(r)[4] = "validate"
           /\ r[1] \notin Query => Chain(r)[5] = "workflow" /\ Chain(r)[8] = "tx"
           /\ IsAt(r, "perf") => at[r] = 2
           /\ IsAt(r, "flag") => at[r] = 3
           /\ IsAt(r, "validate") => at[r] = 4
           /\ IsAt(r, "workflow") => at[r] = 5 /\ r[1] \notin Query
           /\ IsAt(r, "cache") => at[r] = IF r[1] \in Query THEN 5 ELSE 6
           /\ IsAt(r, "lock") => at[r] = 7 /\ r[1] \notin Query
           /\ IsAt(r, "tx") => at[r] = 8 /\ r[1] \notin Query
<1>1. CASE r[1] \in Query
  <2>1. Chain(r) = <<"log", "perf", "flag", "validate", "cache">>
    BY <1>1 DEF Chain
  <2>2. Len(Chain(r)) = 5 /\ Handler(r) = 6
    BY <2>1 DEF Handler
  <2>3. /\ Chain(r)[1] = "log" /\ Chain(r)[2] = "perf" /\ Chain(r)[3] = "flag"
        /\ Chain(r)[4] = "validate" /\ Chain(r)[5] = "cache"
    BY <2>1
  <2>4. ASSUME NEW b, IsAt(r, b)
        PROVE  <<at[r], b>> \in {<<1, "log">>, <<2, "perf">>, <<3, "flag">>,
                                <<4, "validate">>, <<5, "cache">>}
    <3>1. at[r] \in 1 .. 5
      BY <2>2, <2>4 DEF IsAt
    <3> QED
      BY <2>3, <2>4, <3>1 DEF IsAt
  <2> QED
    BY <1>1, <2>2, <2>3, <2>4
<1>2. CASE r[1] \notin Query
  <2>1. Chain(r) = <<"log", "perf", "flag", "validate", "workflow", "cache", "lock", "tx">>
    BY <1>2 DEF Chain
  <2>2. Len(Chain(r)) = 8 /\ Handler(r) = 9
    BY <2>1 DEF Handler
  <2>3. /\ Chain(r)[1] = "log" /\ Chain(r)[2] = "perf" /\ Chain(r)[3] = "flag"
        /\ Chain(r)[4] = "validate" /\ Chain(r)[5] = "workflow"
        /\ Chain(r)[6] = "cache" /\ Chain(r)[7] = "lock" /\ Chain(r)[8] = "tx"
    BY <2>1
  <2>4. ASSUME NEW b, IsAt(r, b)
        PROVE  <<at[r], b>> \in {<<1, "log">>, <<2, "perf">>, <<3, "flag">>,
                                <<4, "validate">>, <<5, "workflow">>, <<6, "cache">>,
                                <<7, "lock">>, <<8, "tx">>}
    <3>1. at[r] \in 1 .. 8
      BY <2>2, <2>4 DEF IsAt
    <3> QED
      BY <2>3, <2>4, <3>1 DEF IsAt
  <2> QED
    BY <1>2, <2>2, <2>3, <2>4
<1> QED
  BY <1>1, <1>2

(* Of a set of positions one is the first and one the last.                *)
LEMMA Smallest ==
    ASSUME NEW S \in SUBSET Nat, S # {}
    PROVE  \E m \in S : \A n \in S : m <= n
<1> DEFINE R == OpToRel(<, Nat)
<1>1. PICK m \in S : \A n \in S : <<n, m>> \notin R
  <2>1. IsWellFoundedOn(R, Nat)
    BY NatLessThanWellFounded
  <2> HIDE DEF R
  <2> QED
    BY <2>1, WFMin
<1>2. \A n \in S : ~(n < m)
  BY <1>1 DEF OpToRel
<1> QED
  BY <1>2

LEMMA Nearest ==
    ASSUME NEW S \in SUBSET (0 .. 9), S # {}
    PROVE  /\ \E j \in S : \A k \in S : j <= k
           /\ \E j \in S : \A k \in S : k <= j
<1>1. \E j \in S : \A k \in S : j <= k
  BY Smallest
<1> DEFINE T == {9 - n : n \in S}
<1>2. T \in SUBSET Nat /\ T # {}
  <2>1. \A n \in S : 9 - n \in Nat
    OBVIOUS
  <2>2. \A t \in T : \E n \in S : t = 9 - n
    OBVIOUS
  <2>3. \A n \in S : 9 - n \in T
    OBVIOUS
  <2> HIDE DEF T
  <2>4. \A t \in T : t \in Nat
    BY <2>1, <2>2
  <2> QED
    BY <2>3, <2>4
<1>3. PICK t \in T : \A u \in T : t <= u
  <2> HIDE DEF T
  <2> QED
    BY <1>2, Smallest
<1>4. PICK j \in S : t = 9 - j
  BY <1>3
<1>5. \A k \in S : 9 - j <= 9 - k
  BY <1>3, <1>4
<1>6. \A k \in S : k <= j
  BY <1>5
<1> QED
  BY <1>1, <1>6

(* The checks of a run are those its decorators ask for.                   *)
LEMMA Requires ==
    ASSUME NEW r
    PROVE  /\ Required(r) \subseteq {"flag", "validate"}
           /\ "flag" \in Required(r) <=> r[1] \in Flagged
           /\ "validate" \in Required(r) <=> r[1] \in Validated
BY DEF Required, Decides

(* next() goes further down the chain, and not past a check.               *)
LEMMA Down ==
    ASSUME TypeOK, NEW r \in Run, at[r] < Handler(r), Descend(r)
    PROVE  /\ at' = [at EXCEPT ![r] = at'[r]]
           /\ at'[r] \in at[r] + 1 .. Handler(r)
           /\ at[r] < 3 /\ "flag" \in Required(r) => at'[r] <= 3
           /\ at[r] < 4 /\ "validate" \in Required(r) => at'[r] <= 4
           /\ at'[r] = 5 /\ r[1] \notin Query => r[1] \in Workflow /\ r[2] = "client"
<1> DEFINE stops == {j \in 1 .. Len(Chain(r)) : Chain(r)[j] \in Decides(r)} \cup {Handler(r)}
           ahead == {j \in stops : j > at[r]}
<1>1. at \in [Run -> 0 .. 9] /\ at[r] \in 0 .. 9
  BY DEF TypeOK
<1>2. /\ Handler(r) \in {6, 9} /\ Len(Chain(r)) = Handler(r) - 1
      /\ Chain(r)[3] = "flag" /\ Chain(r)[4] = "validate"
  BY Places
<1>3. ahead \in SUBSET (0 .. 9) /\ ahead # {} /\ ahead \subseteq at[r] + 1 .. Handler(r)
  BY <1>1, <1>2
<1>4. at' = [at EXCEPT ![r] = CHOOSE j \in stops : j > at[r] /\ \A k \in stops : k > at[r] => j <= k]
  BY DEF Descend
<1>5. /\ "flag" \in Required(r) => 3 \in stops
      /\ "validate" \in Required(r) => 4 \in stops
  BY <1>2 DEF Required
<1>9. 5 \in stops /\ r[1] \notin Query => r[1] \in Workflow /\ r[2] = "client"
  BY Places DEF Decides
<1> HIDE DEF stops
<1>6. \E j \in stops : j > at[r] /\ \A k \in stops : k > at[r] => j <= k
  <2>1. PICK j \in ahead : \A k \in ahead : j <= k
    BY <1>3, Nearest
  <2> QED
    BY <2>1
<1>7. PICK j \in stops : /\ j > at[r] /\ \A k \in stops : k > at[r] => j <= k
                         /\ at' = [at EXCEPT ![r] = j]
  BY <1>4, <1>6
<1>8. j \in ahead /\ at'[r] = j
  BY <1>1, <1>7
<1> QED
  BY <1>1, <1>3, <1>5, <1>7, <1>8, <1>9

(* A reply goes further up, not past PerformanceBehavior, and a handler's  *)
(* to the transaction.                                                     *)
LEMMA Up ==
    ASSUME TypeOK, NEW r \in Run, at[r] # 0, Ascend(r)
    PROVE  /\ at' = [at EXCEPT ![r] = at'[r]]
           /\ at'[r] \in 0 .. at[r] - 1
           /\ at[r] > 2 => at'[r] >= 2
           /\ at[r] = 9 /\ r[1] \notin Query => at'[r] = 8
<1> DEFINE stops == {j \in 1 .. Len(Chain(r)) : Chain(r)[j] \in Receives(r)} \cup {0}
           above == {j \in stops : j < at[r]}
<1>1. at \in [Run -> 0 .. 9] /\ at[r] \in 1 .. 9
  BY DEF TypeOK
<1>2. Handler(r) \in {6, 9} /\ Len(Chain(r)) = Handler(r) - 1 /\ Chain(r)[2] = "perf"
  BY Places
<1>3. above \in SUBSET (0 .. 9) /\ above # {} /\ above \subseteq 0 .. at[r] - 1
  BY <1>1, <1>2
<1>4. at' = [at EXCEPT ![r] = CHOOSE j \in stops : j < at[r] /\ \A k \in stops : k < at[r] => k <= j]
  BY DEF Ascend
<1>5. 2 \in stops /\ (r[1] \notin Query => 8 \in stops)
  BY <1>2, Places DEF Receives
<1> HIDE DEF stops
<1>6. \E j \in stops : j < at[r] /\ \A k \in stops : k < at[r] => k <= j
  <2>1. PICK j \in above : \A k \in above : k <= j
    BY <1>3, Nearest
  <2> QED
    BY <2>1
<1>7. PICK j \in stops : /\ j < at[r] /\ \A k \in stops : k < at[r] => k <= j
                         /\ at' = [at EXCEPT ![r] = j]
  BY <1>4, <1>6
<1>8. j \in above /\ at'[r] = j
  BY <1>1, <1>7
<1> QED
  BY <1>1, <1>3, <1>5, <1>7, <1>8

-----------------------------------------------------------------------------
(* The inductive invariant, beside the types.                              *)

(* The checks a run still has before it.                                   *)
Ahead(r) == Required(r) \ passed[r]

(* Replies of behaviors that stop a run, and those of the handler.         *)
Stopped == {"default", "failure", "throw"}
Handled == {"success", "undefined"}

(* A command's reply, once it has left the transaction, tells what that    *)
(* did.                                                                    *)
Told(r) ==
    /\ r \in committed =>
          /\ r[1] \notin Query /\ at[r] < 8 /\ reply[r] # NoReply
          /\ reply[r].is \in Handled \/ (mishap[r] = "inDoubt" /\ reply[r].is \in Stopped)
    /\ reply[r].is \in Handled /\ r[1] \notin Query /\ at[r] < 8
          => r \in committed \/ mishap[r] = "spoiled"

(* A run does not go past a check it has not passed, and gets nothing.     *)
Checked(r) ==
    /\ "flag" \in Ahead(r) => at[r] <= 3
    /\ "validate" \in Ahead(r) => at[r] <= 4
    /\ Ahead(r) # {} => r \notin committed /\ reply[r].is \in Stopped \cup {"none"}
    /\ r[1] \in invalid => "validate" \notin passed[r]

(* The histogram agrees with the reply of a run that is over.              *)
Observed(r) ==
    /\ reply[r].is \in Successes <=> metric[r] = "success"
    /\ metric[r] = "failure" => reply[r].is = "failure"

RunOK(r) ==
    /\ at[r] <= Handler(r)
    /\ reply[r].is = "none" => reply[r] = NoReply
    /\ Told(r)
    /\ Checked(r)
    /\ reply[r].is = "started" => at[r] < 5 /\ r \notin committed /\ r[1] \in processes
    /\ at[r] = 5 /\ r[1] \notin Query /\ reply[r] = NoReply
          => r[1] \in Workflow /\ r[2] = "client"
    /\ r[2] \in Dispatch /\ (at[r] # 0 \/ reply[r] # NoReply) => r[1] \in processes
    /\ at[r] = 8 /\ reply[r] # NoReply => reply[r].is \in Handled \cup {"failure", "throw"}
    /\ Answered(r) => Observed(r)

RunInv == \A r \in Run : RunOK(r)

(* The engine knows a command from a call that has passed its checks; the  *)
(* caller has been told so unless the acceptance was lost, and then only   *)
(* fallback 'skip' takes the call any further.                             *)
Known(x) ==
    LET r == <<x, "client">> IN
    /\ Ahead(r) = {}
    /\ x \notin lost => reply[r].is = "started"
    /\ x \notin Skips => reply[r] # NoReply /\ at[r] < 5 /\ r \notin committed

ProcessInv == \A x \in processes : Known(x)

(* An entry that has been out of date for some time has that much less to  *)
(* live.                                                                   *)
CacheInv ==
    IF cache = Absent THEN behind = 0
    ELSE cache.ttl >= 1 /\ behind + cache.ttl <= Ttl

Types == TypeOK /\ IsFiniteSet(committed)

IInv == Types /\ RunInv /\ ProcessInv /\ CacheInv

Replies == [is : Successes \cup {"none", "failure", "throw"}, value : 0 .. version]

LEMMA TypesOf ==
    ASSUME Types
    PROVE  /\ version \in Nat /\ version = Cardinality(committed)
           /\ NoReply \in Replies
           /\ \A what \in Successes \cup {"failure", "throw"} :
                 Reply(what) \in Replies /\ Reply(what).is = what
           /\ \A v \in 0 .. version : Success(v) \in Replies /\ Success(v).is = "success"
<1>1. version \in Nat /\ version = Cardinality(committed)
  BY FS_CardinalityType DEF Types, TypeOK
<1> QED
  BY <1>1 DEF Replies, NoReply, Reply, Success, Successes

(* A run is a call by a client or a callback of the engine.                *)
LEMMA Runs ==
    /\ \A x \in Workflow : <<x, "client">> \in Run
    /\ \A r \in Run : /\ r[1] \in Call /\ r = <<r[1], r[2]>>
                      /\ r[2] = "client" \/ r[2] \in Dispatch
                      /\ r[2] \in Dispatch => r[1] \in Workflow /\ r[2] # "client"
BY PipelineAssumption DEF Run

-----------------------------------------------------------------------------
(* The commands the engine has heard of grow by that of a call ...         *)
Accepted(r) ==
    /\ r[1] \in Workflow /\ r[2] = "client" /\ Ahead(r) = {}
    /\ processes' = processes \cup {r[1]}

(* ... unknown to its caller.                                              *)
StartsUnheard(r) == Accepted(r) /\ lost' = lost \cup {r[1]}

(* The variables that only the run's own steps at the tx behavior and the  *)
(* cache write.                                                            *)
Aside == UNCHANGED <<invalid, entry, database, metric>>

(* A run that has no reply passes its check and goes down.                 *)
DownStep(r) ==
    /\ reply[r] = NoReply /\ at[r] < Handler(r)
    /\ passed' \in [Run -> SUBSET {"flag", "validate"}]
    /\ \A s \in Run : passed[s] \subseteq passed'[s] /\ (s # r => passed'[s] = passed[s])
    /\ "flag" \in Ahead(r)' => at[r] < 3
    /\ "validate" \in Ahead(r)' => at[r] < 4
    /\ r[1] \in invalid => "validate" \notin passed'[r]
    /\ r[2] \in Dispatch => r[1] \in processes
    /\ Descend(r)
    /\ reply' = reply
    /\ (r[1] \in Skips /\ StartsUnheard(r)) \/ UNCHANGED engine
    /\ Aside

(* A behavior answers, ...                                                 *)
AnswerStep(r, what) ==
    /\ at[r] \in 3 .. Handler(r)
    /\ reply[r] = NoReply \/ at[r] = 8
    /\ r \notin committed /\ reply[r].is # "started"
    /\ what \in Replies /\ what.is # "none"
    /\ Ahead(r) # {} => what.is \in Stopped
    /\ what.is \in Handled => at[r] = Handler(r)
    /\ what.is = "started" => at[r] = 5
    /\ at[r] < 8 \/ what.is \in Handled \cup {"failure", "throw"}
    /\ Answer(r, what)
    /\ \/ UNCHANGED engine /\ what.is # "started"
       \/ StartsUnheard(r) /\ what.is # "started" /\ at[r] = 5
       \/ Accepted(r) /\ what.is = "started" /\ lost' = lost
    /\ passed' = passed
    /\ Aside

(* ... or passes a reply on.                                               *)
UpStep(r) ==
    /\ at[r] \in 3 .. 7 /\ reply[r] # NoReply
    /\ Ascend(r)
    /\ UNCHANGED <<checks, reply, engine, database, metric>>

(* The transaction ends: it has committed or not, its reply is passed on   *)
(* or replaced.                                                            *)
TxStep(r, what) ==
    /\ at[r] = 8 /\ r[1] \notin Query /\ reply[r] # NoReply /\ reply[r].is \in Successes
    /\ what \in Replies
    /\ Answer(r, what)
    /\ committed' \in {committed, committed \cup {r}}
    /\ version' = IF committed' = committed THEN version ELSE version + 1
    /\ mishap' \in [Run -> {"none", "inDoubt", "spoiled"}]
    /\ \A s \in Run \ {r} : mishap'[s] = mishap[s]
    /\ \/ what = reply[r] /\ (r \in committed' \/ mishap'[r] = "spoiled")
       \/ what.is \in {"failure", "throw"} /\ r \in committed' /\ mishap'[r] = "inDoubt"
    /\ UNCHANGED <<checks, entry, engine, metric>>

(* Other runs are as they were.                                            *)
LEMMA RunFrame ==
    ASSUME NEW r, RunOK(r), at'[r] = at[r], reply'[r] = reply[r], metric'[r] = metric[r],
           passed'[r] = passed[r], mishap'[r] = mishap[r],
           invalid' = invalid, processes \subseteq processes', r \in committed' <=> r \in committed
    PROVE  RunOK(r)'
BY DEF RunOK, Told, Checked, Ahead, Required, Decides, Answered, Observed, Handler, Chain

LEMMA Frames ==
    ASSUME NEW r \in Run, RunInv, RunOK(r)', invalid' = invalid, processes \subseteq processes',
           \A s \in Run \ {r} : /\ at'[s] = at[s] /\ reply'[s] = reply[s]
                                 /\ metric'[s] = metric[s] /\ passed'[s] = passed[s]
                                 /\ mishap'[s] = mishap[s]
                                 /\ (s \in committed' <=> s \in committed)
    PROVE  RunInv'
<1>1. ASSUME NEW s \in Run \ {r} PROVE RunOK(s)'
  <2>1. /\ at'[s] = at[s] /\ reply'[s] = reply[s] /\ metric'[s] = metric[s]
        /\ passed'[s] = passed[s] /\ mishap'[s] = mishap[s]
        /\ (s \in committed' <=> s \in committed)
    OBVIOUS
  <2>2. RunOK(s)
    BY DEF RunInv
  <2> QED
    BY <2>1, <2>2, RunFrame
<1>2. Run' = Run
  BY DEF Run
<1> QED
  BY <1>1, <1>2 DEF RunInv

(* So is a command the engine knows if its call went no further down and   *)
(* stored nothing, or is one with fallback 'skip'.                         *)
LEMMA KnownFrame ==
    ASSUME NEW x, Known(x), <<x, "client">> \in Run, lost \subseteq lost',
           passed[<<x, "client">>] \subseteq passed'[<<x, "client">>],
           reply[<<x, "client">>].is = "started" => reply'[<<x, "client">>].is = "started",
           x \notin Skips => /\ reply'[<<x, "client">>] # NoReply
                            /\ at'[<<x, "client">>] < 5
                            /\ <<x, "client">> \notin committed'
    PROVE  Known(x)'
BY DEF Known, Ahead, Required, Decides

LEMMA DownKeeps ==
    ASSUME IInv, NEW r \in Run, DownStep(r)
    PROVE  IInv'
<1> USE DEF IInv
<1>1. /\ at' = [at EXCEPT ![r] = at'[r]]
      /\ at'[r] \in at[r] + 1 .. Handler(r)
      /\ at[r] < 3 /\ "flag" \in Required(r) => at'[r] <= 3
      /\ at[r] < 4 /\ "validate" \in Required(r) => at'[r] <= 4
      /\ at'[r] = 5 /\ r[1] \notin Query => r[1] \in Workflow /\ r[2] = "client"
  BY Down DEF DownStep, Types
<1>2. at \in [Run -> 0 .. 9] /\ Handler(r) \in {6, 9}
  BY Places DEF Types, TypeOK
<1>3. at' \in [Run -> 0 .. 9] /\ \A s \in Run \ {r} : at'[s] = at[s]
  BY <1>1, <1>2
<1>4. /\ reply' = reply /\ reply[r] = NoReply /\ invalid' = invalid /\ metric' = metric
      /\ version' = version /\ cache' = cache /\ behind' = behind /\ committed' = committed
      /\ mishap' = mishap
      /\ \A s \in Run : passed[s] \subseteq passed'[s] /\ (s # r => passed'[s] = passed[s])
  BY DEF DownStep, Aside, entry, database
<1>5. /\ processes \subseteq processes' /\ lost \subseteq lost' /\ lost' \subseteq processes'
      /\ processes' \subseteq Workflow
      /\ processes' # processes
            => r[1] \in Skips /\ r[1] \in lost' /\ r[2] = "client" /\ Ahead(r) = {}
      /\ processes' \in {processes, processes \cup {r[1]}}
  BY DEF DownStep, StartsUnheard, Accepted, Types, TypeOK, engine
<1>6. Types'
  BY <1>3, <1>4, <1>5 DEF Types, TypeOK, DownStep
<1>10. NoReply.is = "none" /\ "none" \notin Successes \cup Handled \cup Stopped
  BY DEF NoReply, Successes, Handled, Stopped
<1>11. RunOK(r) /\ r \notin committed
  BY <1>4, <1>10 DEF RunInv, RunOK, Told
<1>7. RunOK(r)'
  <2>1. at[r] \in 0 .. 9
    BY <1>2
  <2>2. Handler(r)' = Handler(r) /\ Required(r)' = Required(r)
    BY DEF Handler, Chain, Required, Decides
  <2>3. Told(r)'
    BY <1>4, <1>10, <1>11 DEF Told
  <2>4. Checked(r)'
    <3>1. "flag" \in Ahead(r)' => at'[r] <= 3
      BY <1>1, <2>2 DEF DownStep, Ahead
    <3>2. "validate" \in Ahead(r)' => at'[r] <= 4
      BY <1>1, <2>2 DEF DownStep, Ahead
    <3>3. r[1] \in invalid' => "validate" \notin passed'[r]
      BY <1>4 DEF DownStep
    <3> QED
      BY <1>4, <1>10, <1>11, <3>1, <3>2, <3>3 DEF Checked
  <2>6. r[2] \in Dispatch => r[1] \in processes'
    BY <1>5 DEF DownStep
  <2> QED
    BY <1>1, <1>2, <1>4, <1>10, <2>1, <2>2, <2>3, <2>4, <2>6 DEF RunOK, Answered
<1>8. RunInv'
  BY <1>3, <1>4, <1>5, <1>7, Frames
<1>9. ProcessInv'
  <2> SUFFICES ASSUME NEW x \in processes' PROVE Known(x)'
    BY DEF ProcessInv
  <2>1. <<x, "client">> \in Run
    BY <1>5, Runs
  <2>2. CASE x \in processes /\ <<x, "client">> # r
    <3>1. Known(x) /\ <<x, "client">> \in Run \ {r}
      BY <2>1, <2>2 DEF ProcessInv
    <3>2. at'[<<x, "client">>] = at[<<x, "client">>]
      BY <1>3, <3>1
    <3>3. passed[<<x, "client">>] \subseteq passed'[<<x, "client">>]
      BY <1>4, <2>1
    <3>4. x \notin Skips => /\ reply[<<x, "client">>] # NoReply /\ at[<<x, "client">>] < 5
                           /\ <<x, "client">> \notin committed
      BY <3>1 DEF Known
    <3> QED
      BY <1>4, <1>5, <2>1, <3>1, <3>2, <3>3, <3>4, KnownFrame
  <2>3. CASE x \in processes /\ <<x, "client">> = r
    <3>1. Known(x) /\ x \in Skips
      BY <1>4, <2>3 DEF ProcessInv, Known
    <3> QED
      BY <1>4, <1>5, <2>1, <3>1, KnownFrame
  <2>4. CASE x \notin processes
    <3>1. x = r[1] /\ r = <<x, "client">> /\ x \in Skips /\ x \in lost' /\ Ahead(r) = {}
      BY <1>5, <2>4, Runs
    <3>2. Ahead(r)' = {}
      BY <1>4, <3>1 DEF Ahead, Required, Decides
    <3> QED
      BY <3>1, <3>2 DEF Known
  <2> QED
    BY <2>2, <2>3, <2>4
<1>12. CacheInv'
  BY <1>4 DEF CacheInv
<1> QED
  BY <1>6, <1>8, <1>9, <1>12

LEMMA AnswerKeeps ==
    ASSUME IInv, NEW r \in Run, NEW what, AnswerStep(r, what)
    PROVE  IInv'
<1> USE DEF IInv
<1>2. at \in [Run -> 0 .. 9] /\ Handler(r) \in {6, 9} /\ at[r] \in 3 .. Handler(r)
  BY Places DEF Types, TypeOK, AnswerStep
<1>1. /\ at' = [at EXCEPT ![r] = at'[r]]
      /\ at'[r] \in 2 .. at[r] - 1
      /\ at[r] = 9 /\ r[1] \notin Query => at'[r] = 8
  BY <1>2, Up DEF AnswerStep, Answer, Types
<1>3. at' \in [Run -> 0 .. 9] /\ \A s \in Run \ {r} : at'[s] = at[s]
  BY <1>1, <1>2
<1>4. /\ invalid' = invalid /\ metric' = metric /\ reply' = [reply EXCEPT ![r] = what]
      /\ version' = version /\ cache' = cache /\ behind' = behind /\ committed' = committed
      /\ mishap' = mishap /\ passed' = passed
      /\ r \notin committed /\ reply[r].is # "started" /\ what \in Replies /\ what.is # "none"
      /\ Ahead(r) # {} => what.is \in Stopped
      /\ what.is \in Handled => at[r] = Handler(r)
      /\ what.is = "started" => at[r] = 5 /\ r[1] \in processes'
      /\ at[r] < 8 \/ what.is \in Handled \cup {"failure", "throw"}
  BY DEF AnswerStep, Aside, Answer, entry, database, Accepted
<1>5. /\ processes \subseteq processes' /\ lost \subseteq lost' /\ lost' \subseteq processes'
      /\ processes' \subseteq Workflow
      /\ processes' # processes =>
            /\ processes' = processes \cup {r[1]}
            /\ r[2] = "client" /\ Ahead(r) = {} /\ at[r] = 5
            /\ r[1] \in lost' \/ what.is = "started"
  BY <1>4 DEF AnswerStep, StartsUnheard, Accepted, Types, TypeOK, engine
<1>6. /\ reply \in [Run -> Replies] /\ reply' \in [Run -> Replies] /\ reply'[r] = what
      /\ \A s \in Run \ {r} : reply'[s] = reply[s]
  <2>1. reply \in [Run -> Replies]
    BY DEF Types, TypeOK, Replies
  <2> QED
    BY <1>4, <2>1
<1>7. Types'
  BY <1>3, <1>4, <1>5, <1>6 DEF Types, TypeOK, Replies
<1>12. what # NoReply /\ RunOK(r)
  BY <1>4 DEF NoReply, RunInv
<1>13. Required(r)' = Required(r) /\ Handler(r)' = Handler(r) /\ Ahead(r)' = Ahead(r)
  BY <1>4 DEF Required, Decides, Handler, Chain, Ahead
<1>8. RunOK(r)'
  <2>1. Told(r)'
    <3>1. what.is \in Handled /\ r[1] \notin Query => at'[r] = 8
      BY <1>1, <1>4, Places
    <3> QED
      BY <1>4, <1>6, <3>1 DEF Told
  <2>3. Checked(r)'
    BY <1>1, <1>2, <1>4, <1>6, <1>12, <1>13 DEF RunOK, Checked
  <2>4. r[2] \in Dispatch => r[1] \in processes'
    BY <1>2, <1>5, <1>12 DEF RunOK
  <2>5. at'[r] <= Handler(r) /\ ~Answered(r)' /\ (what.is = "started" => at'[r] < 5)
    BY <1>1, <1>2, <1>4 DEF Answered
  <2>6. at'[r] = 8 => what.is \in Handled \cup {"failure", "throw"}
    BY <1>1, <1>2, <1>4
  <2> QED
    BY <1>4, <1>6, <1>12, <1>13, <2>1, <2>3, <2>4, <2>5, <2>6 DEF RunOK
<1>9. RunInv'
  BY <1>3, <1>4, <1>5, <1>6, <1>8, Frames
<1>10. ProcessInv'
  <2> SUFFICES ASSUME NEW x \in processes' PROVE Known(x)'
    BY DEF ProcessInv
  <2>1. <<x, "client">> \in Run
    BY <1>5, Runs
  <2>2. CASE x \in processes /\ <<x, "client">> # r
    <3>1. Known(x) /\ <<x, "client">> \in Run \ {r}
      BY <2>1, <2>2 DEF ProcessInv
    <3>2. /\ at'[<<x, "client">>] = at[<<x, "client">>]
          /\ reply'[<<x, "client">>] = reply[<<x, "client">>]
      BY <1>3, <1>6, <3>1
    <3>3. x \notin Skips => /\ reply[<<x, "client">>] # NoReply /\ at[<<x, "client">>] < 5
                           /\ <<x, "client">> \notin committed
      BY <3>1 DEF Known
    <3> QED
      BY <1>4, <1>5, <2>1, <3>1, <3>2, <3>3, KnownFrame
  <2>3. CASE x \in processes /\ <<x, "client">> = r
    <3>1. Known(x)
      BY <2>3 DEF ProcessInv
    <3>2. x \in Skips
      BY <1>2, <2>3, <3>1 DEF Known, AnswerStep
    <3> QED
      BY <1>4, <1>5, <2>1, <2>3, <3>1, <3>2, KnownFrame
  <2>4. CASE x \notin processes
    <3>1. x = r[1] /\ r = <<x, "client">> /\ Ahead(r) = {} /\ at[r] = 5
      BY <1>5, <2>4, Runs
    <3>2. x \in lost' \/ what.is = "started"
      BY <1>5, <2>4
    <3>3. at'[r] < 5
      BY <1>1, <3>1
    <3> QED
      BY <1>4, <1>6, <1>12, <1>13, <3>1, <3>2, <3>3 DEF Known
  <2> QED
    BY <2>2, <2>3, <2>4
<1>11. CacheInv'
  BY <1>4 DEF CacheInv
<1> QED
  BY <1>7, <1>9, <1>10, <1>11

(* The cache writes what the others leave alone.                           *)
LEMMA UpKeeps ==
    ASSUME IInv, NEW r \in Run, UpStep(r), CacheInv',
           cache' \in [value : 0 .. version, ttl : 0 .. Ttl], behind' \in 0 .. Ttl + 1
    PROVE  IInv'
<1> USE DEF IInv
<1>1. at \in [Run -> 0 .. 9] /\ Handler(r) \in {6, 9} /\ at[r] \in 3 .. 7
  BY Places DEF Types, TypeOK, UpStep
<1>2. /\ at' = [at EXCEPT ![r] = at'[r]]
      /\ at'[r] \in 2 .. at[r] - 1
  BY <1>1, Up DEF UpStep, Types
<1>3. /\ at' \in [Run -> 0 .. 9] /\ \A s \in Run \ {r} : at'[s] = at[s]
      /\ invalid' = invalid /\ passed' = passed /\ reply' = reply /\ processes' = processes
      /\ lost' = lost /\ committed' = committed /\ mishap' = mishap /\ version' = version
      /\ metric' = metric /\ reply[r] # NoReply
  BY <1>1, <1>2 DEF UpStep, checks, engine, database
<1>4. RunOK(r)'
  <2>1. RunOK(r)
    BY DEF RunInv
  <2>2. Handler(r)' = Handler(r) /\ Ahead(r)' = Ahead(r)
    BY <1>3 DEF Handler, Chain, Ahead, Required, Decides
  <2>3. ~Answered(r)' /\ at'[r] <= Handler(r) /\ at'[r] < at[r] /\ at[r] # 0
    BY <1>1, <1>2, <2>1 DEF Answered, RunOK
  <2>4. at[r] < 8 /\ at'[r] < 8 /\ (at[r] < 5 => at'[r] < 5)
        /\ (at[r] <= 4 => at'[r] <= 4) /\ (at[r] <= 3 => at'[r] <= 3)
    BY <1>1, <1>2
  <2>5. Told(r)'
    BY <1>3, <2>1, <2>4 DEF RunOK, Told
  <2>6. Checked(r)'
    BY <1>3, <2>1, <2>2, <2>4 DEF RunOK, Checked
  <2> QED
    BY <1>3, <2>1, <2>2, <2>3, <2>4, <2>5, <2>6 DEF RunOK
<1>5. RunInv'
  BY <1>3, <1>4, Frames
<1>6. ProcessInv'
  <2> SUFFICES ASSUME NEW x \in processes PROVE Known(x)'
    BY <1>3 DEF ProcessInv
  <2>1. Known(x) /\ <<x, "client">> \in Run
    BY Runs DEF ProcessInv, Types, TypeOK
  <2>2. at[<<x, "client">>] < 5 => at'[<<x, "client">>] < 5
    BY <1>1, <1>2, <1>3, <2>1
  <2> QED
    BY <1>3, <2>1, <2>2, KnownFrame DEF Known
<1>7. Types'
  BY <1>3 DEF Types, TypeOK
<1> QED
  BY <1>5, <1>6, <1>7

(* The transaction makes the database a version newer, or does not.        *)
LEMMA TxKeeps ==
    ASSUME IInv, NEW r \in Run, NEW what, TxStep(r, what)
    PROVE  IInv'
<1> USE DEF IInv
<1>1. at \in [Run -> 0 .. 9] /\ Handler(r) = 9 /\ at[r] = 8 /\ r[1] \notin Query
  BY Places DEF Types, TypeOK, TxStep
<1>2. at' = [at EXCEPT ![r] = at'[r]] /\ at'[r] \in 2 .. 7
  BY <1>1, Up DEF TxStep, Answer, Types
<1>3. /\ at' \in [Run -> 0 .. 9] /\ \A s \in Run \ {r} : at'[s] = at[s]
      /\ invalid' = invalid /\ passed' = passed /\ processes' = processes /\ lost' = lost
      /\ cache' = cache /\ behind' = behind /\ metric' = metric
      /\ reply' = [reply EXCEPT ![r] = what] /\ what \in Replies
      /\ \A s \in Run \ {r} : mishap'[s] = mishap[s] /\ (s \in committed' <=> s \in committed)
  BY <1>1, <1>2 DEF TxStep, Answer, checks, engine, entry
<1>4. RunOK(r) /\ r \notin committed /\ reply[r].is # "started" /\ reply[r].is # "none"
  BY <1>1 DEF RunInv, RunOK, Told, TxStep
<1>5. /\ version \in Nat /\ version' \in Nat /\ version <= version'
      /\ IsFiniteSet(committed') /\ version' = Cardinality(committed')
  <2>1. CASE committed' = committed
    BY <2>1, TypesOf DEF TxStep, Types
  <2>2. CASE committed' = committed \cup {r} /\ committed' # committed
    BY <1>4, <2>2, TypesOf, FS_AddElement DEF TxStep, Types
  <2> QED
    BY <2>1, <2>2 DEF TxStep
<1>6. /\ reply \in [Run -> Replies] /\ reply' \in [Run -> Replies] /\ reply'[r] = what
      /\ \A s \in Run \ {r} : reply'[s] = reply[s]
  <2>1. reply \in [Run -> Replies]
    BY DEF Types, TypeOK, Replies
  <2> QED
    BY <1>3, <2>1
<1>7. Types'
  <2>1. 0 .. version \subseteq 0 .. version'
    BY <1>5
  <2>2. reply' \in [Run -> [is : Successes \cup {"none", "failure", "throw"}, value : 0 .. version']]
    BY <1>6, <2>1 DEF Replies
  <2>3. cache' \in [value : 0 .. version', ttl : 0 .. Ttl]
    BY <1>3, <2>1 DEF Types, TypeOK
  <2>4. committed' \subseteq {s \in Run : s[1] \notin Query}
    BY <1>1 DEF TxStep, Types, TypeOK
  <2> QED
    BY <1>3, <1>5, <2>2, <2>3, <2>4 DEF TxStep, Types, TypeOK
<1>8. RunOK(r)'
  <2>1. Handler(r)' = Handler(r) /\ Ahead(r)' = Ahead(r) /\ Ahead(r) = {}
    BY <1>1, <1>3, <1>4, Requires DEF Handler, Chain, Ahead, Required, Decides, RunOK, Checked
  <2>2. what.is \notin {"none", "started"} /\ what # NoReply
    BY <1>4 DEF TxStep, NoReply
  <2>5. r \in committed' \/ what.is \in Successes
    BY DEF TxStep
  <2>3. Told(r)'
    <3>1. at'[r] < 8
      BY <1>2
    <3>2. CASE what = reply[r] /\ r \in committed'
      <4>1. reply[r].is \in Handled
        BY <1>4, <1>1 DEF RunOK, TxStep, Successes
      <4> QED
        BY <1>1, <1>6, <2>2, <3>1, <3>2, <4>1 DEF Told
    <3>3. CASE what = reply[r] /\ r \notin committed' /\ mishap'[r] = "spoiled"
      BY <1>6, <3>1, <3>3 DEF Told
    <3>4. CASE what.is \in {"failure", "throw"} /\ r \in committed' /\ mishap'[r] = "inDoubt"
      BY <1>1, <1>6, <2>2, <3>1, <3>4 DEF Told, Handled, Stopped
    <3> QED
      BY <3>2, <3>3, <3>4 DEF TxStep
  <2>4. Checked(r)' /\ ~Answered(r)' /\ at'[r] <= 9
    BY <1>2, <1>3, <1>4, <2>1 DEF Checked, Answered, RunOK
  <2> QED
    BY <1>1, <1>2, <1>3, <1>4, <1>6, <2>1, <2>2, <2>3, <2>4 DEF RunOK
<1>9. RunInv'
  BY <1>3, <1>6, <1>8, Frames
<1>10. ProcessInv'
  <2> SUFFICES ASSUME NEW x \in processes PROVE Known(x)'
    BY <1>3 DEF ProcessInv
  <2>1. Known(x) /\ <<x, "client">> \in Run
    BY Runs DEF ProcessInv, Types, TypeOK
  <2>2. CASE <<x, "client">> = r
    <3>1. x \in Skips /\ reply[r].is # "started"
      BY <1>1, <1>4, <2>1, <2>2 DEF Known
    <3> QED
      BY <1>3, <2>1, <2>2, <3>1, KnownFrame
  <2>3. CASE <<x, "client">> # r
    BY <1>3, <1>6, <2>1, <2>3, KnownFrame DEF Known
  <2> QED
    BY <2>2, <2>3
<1>11. CacheInv'
  BY <1>3 DEF CacheInv
<1> QED
  BY <1>7, <1>9, <1>10, <1>11

-----------------------------------------------------------------------------
(* One lemma for the steps of each behavior.                               *)

(* What a run that is in its chain may take for granted.                   *)
LEMMA InChain ==
    ASSUME IInv, NEW r \in Run
    PROVE  /\ at[r] \in 0 .. 9 /\ Handler(r) \in {6, 9}
           /\ passed \in [Run -> SUBSET {"flag", "validate"}]
           /\ "flag" \in Ahead(r) => at[r] <= 3
           /\ "validate" \in Ahead(r) => at[r] <= 4
           /\ at[r] > 4 => Ahead(r) = {}
           /\ r[1] \in invalid => "validate" \in Ahead(r)
           /\ r[1] \in invalid => "validate" \notin passed[r]
           /\ r[2] \in Dispatch /\ at[r] # 0 => r[1] \in processes
           /\ reply[r] = NoReply \/ at[r] = 8 => r \notin committed /\ reply[r].is # "started"
<1>1. RunOK(r) /\ TypeOK
  BY DEF IInv, RunInv, Types
<1>2. at[r] \in 0 .. 9 /\ Handler(r) \in {6, 9}
  BY <1>1, Places DEF TypeOK
<1>3. r[1] \in invalid => "validate" \in Ahead(r)
  BY <1>1, Requires DEF TypeOK, RunOK, Checked, Ahead
<1>4. at[r] > 4 => Ahead(r) = {}
  BY <1>1, <1>2, Requires DEF RunOK, Checked, Ahead
<1>5. reply[r] = NoReply \/ at[r] = 8 => r \notin committed /\ reply[r].is # "started"
  BY <1>1, <1>2 DEF RunOK, Told, NoReply
<1> QED
  BY <1>1, <1>2, <1>3, <1>4, <1>5 DEF RunOK, Checked, TypeOK

(* Going down without a check, ...                                         *)
LEMMA Passing ==
    ASSUME IInv, NEW r \in Run, reply[r] = NoReply, at[r] \notin 3 .. 4, at[r] < Handler(r),
           r[2] \in Dispatch => r[1] \in processes,
           Descend(r), UNCHANGED <<checks, reply, rest>>
    PROVE  IInv'
<1>1. /\ "flag" \in Ahead(r) => at[r] < 3
      /\ "validate" \in Ahead(r) => at[r] < 4
      /\ passed \in [Run -> SUBSET {"flag", "validate"}]
      /\ r[1] \in invalid => "validate" \notin passed[r]
  BY InChain
<1>2. passed' = passed /\ Ahead(r)' = Ahead(r)
  BY DEF checks, Ahead, Required, Decides
<1>3. reply' = reply /\ UNCHANGED engine /\ Aside
  BY DEF Aside, rest, checks
<1>4. DownStep(r)
  BY <1>1, <1>2, <1>3 DEF DownStep
<1> QED
  BY <1>4, DownKeeps

(* ... and stopping a run with a failure or an exception.                  *)
LEMMA Stopping ==
    ASSUME IInv, NEW r \in Run, NEW what \in {"failure", "throw"}, Answer(r, Reply(what)),
           at[r] \in 3 .. Handler(r), reply[r] = NoReply \/ at[r] = 8,
           UNCHANGED <<checks, rest>>
    PROVE  IInv'
<1>1. Reply(what) \in Replies /\ Reply(what).is = what
  BY TypesOf DEF IInv
<1>2. AnswerStep(r, Reply(what))
  BY <1>1, InChain DEF AnswerStep, Aside, rest, checks, Stopped, Handled
<1> QED
  BY <1>2, AnswerKeeps

LEMMA ExecuteKeeps == ASSUME IInv, NEW r \in Run, Execute(r) PROVE IInv'
<1>1. Handler(r) \in {6, 9}
  BY Places
<1> QED
  BY <1>1, Passing DEF Execute

LEMMA FlagKeeps == ASSUME IInv, NEW r \in Run, FlagOn(r) \/ FlagOff(r) PROVE IInv'
<1>1. at[r] = 3 /\ reply[r] = NoReply /\ Handler(r) \in {6, 9}
  BY Places DEF FlagOn, FlagOff, Deciding
<1>2. CASE FlagOn(r)
  <2>1. passed' = [passed EXCEPT ![r] = @ \cup {"flag"}] /\ passed \in [Run -> SUBSET {"flag", "validate"}]
    BY <1>2, InChain DEF FlagOn
  <2>2. /\ passed' \in [Run -> SUBSET {"flag", "validate"}]
        /\ passed'[r] = passed[r] \cup {"flag"}
        /\ \A s \in Run : passed[s] \subseteq passed'[s] /\ (s # r => passed'[s] = passed[s])
    BY <2>1
  <2>3. "flag" \notin Ahead(r)'
    BY <2>2 DEF Ahead
  <2>4. r[1] \in invalid => "validate" \notin passed'[r]
    BY <2>2, InChain
  <2>5. DownStep(r)
    BY <1>1, <1>2, <2>2, <2>3, <2>4, InChain DEF FlagOn, DownStep, Aside, rest
  <2> QED
    BY <2>5, DownKeeps
<1>3. CASE FlagOff(r)
  <2>1. PICK what \in {"default", "failure"} : Answer(r, Reply(what))
    BY <1>3 DEF FlagOff
  <2>2. Reply(what) \in Replies /\ Reply(what).is = what
    BY TypesOf DEF IInv, Successes
  <2>3. AnswerStep(r, Reply(what))
    BY <1>1, <1>3, <2>1, <2>2, InChain
       DEF FlagOff, AnswerStep, Aside, rest, checks, Stopped, Handled
  <2> QED
    BY <2>3, AnswerKeeps
<1> QED
  BY <1>2, <1>3

LEMMA ValidateKeeps == ASSUME IInv, NEW r \in Run, Validate(r) \/ ValidatorThrows(r) PROVE IInv'
<1>1. at[r] = 4 /\ reply[r] = NoReply /\ Handler(r) \in {6, 9}
  BY Places DEF Validate, ValidatorThrows, Deciding
<1>2. CASE Validate(r) /\ r[1] \notin invalid
  <2>1. /\ passed' = [passed EXCEPT ![r] = @ \cup {"validate"}]
        /\ passed \in [Run -> SUBSET {"flag", "validate"}]
    BY <1>2, InChain DEF Validate
  <2>2. /\ passed' \in [Run -> SUBSET {"flag", "validate"}]
        /\ passed'[r] = passed[r] \cup {"validate"}
        /\ \A s \in Run : passed[s] \subseteq passed'[s] /\ (s # r => passed'[s] = passed[s])
    BY <2>1
  <2>3. Ahead(r)' \subseteq Ahead(r) \ {"validate"}
    BY <2>2 DEF Ahead, Required, Decides
  <2>4. "flag" \notin Ahead(r)' /\ "validate" \notin Ahead(r)'
    BY <1>1, <2>3, InChain
  <2>5. DownStep(r)
    BY <1>1, <1>2, <2>2, <2>4, InChain DEF Validate, DownStep, Aside, rest
  <2> QED
    BY <2>5, DownKeeps
<1>3. CASE Validate(r) /\ r[1] \in invalid
  BY <1>1, <1>3, Stopping DEF Validate, checks
<1>4. CASE ValidatorThrows(r)
  BY <1>1, <1>4, Stopping DEF ValidatorThrows
<1> QED
  BY <1>2, <1>3, <1>4

LEMMA WorkflowKeeps == ASSUME IInv, NEW r \in Run, StartProcess(r) \/ StartFails(r) PROVE IInv'
<1>1. at[r] = 5 /\ reply[r] = NoReply /\ r[1] \notin Query /\ Handler(r) = 9
  BY Places DEF StartProcess, StartFails, Deciding
<1>2. r[1] \in Workflow /\ r[2] = "client" /\ Ahead(r) = {} /\ r[1] \notin invalid
  BY <1>1, InChain DEF IInv, RunInv, RunOK
<1>3. \A what \in {"failure", "started"} : Reply(what) \in Replies /\ Reply(what).is = what
  BY TypesOf DEF IInv, Successes
<1>4. CASE StartProcess(r)
  <2>1. Accepted(r) /\ lost' = lost
    BY <1>2, <1>4 DEF StartProcess, Accepted
  <2>2. AnswerStep(r, Reply("started"))
    BY <1>1, <1>2, <1>3, <1>4, <2>1, InChain
       DEF StartProcess, AnswerStep, Aside, checks, Handled
  <2> QED
    BY <2>2, AnswerKeeps
<1>5. CASE StartFails(r)
  <2>1. (StartsUnheard(r) \/ UNCHANGED engine) /\ Aside /\ passed' = passed
    BY <1>2, <1>5 DEF StartFails, StartsUnheard, Accepted, Aside, checks
  <2>2. CASE r[1] \in Skips
    <3>1. Ahead(r)' = {}
      BY <1>2, <2>1 DEF Ahead, Required, Decides
    <3>2. r[2] \notin Dispatch
      BY <1>2, PipelineAssumption
    <3>3. DownStep(r)
      BY <1>1, <1>2, <1>5, <2>1, <2>2, <3>1, <3>2, InChain DEF StartFails, DownStep
    <3> QED
      BY <3>3, DownKeeps
  <2>3. CASE r[1] \notin Skips
    <3>1. AnswerStep(r, Reply("failure"))
      BY <1>1, <1>2, <1>3, <1>5, <2>1, <2>3, InChain DEF StartFails, AnswerStep, Handled
    <3> QED
      BY <3>1, AnswerKeeps
  <2> QED
    BY <2>2, <2>3
<1> QED
  BY <1>4, <1>5

LEMMA CacheKeeps ==
    ASSUME IInv, NEW r \in Run,
           CacheHit(r) \/ CacheMiss(r) \/ CacheSet(r) \/ CacheSetFails(r)
    PROVE  IInv'
<1>1. at[r] \in 5 .. 6 /\ at[r] < Handler(r) /\ Handler(r) \in {6, 9}
  BY Places DEF CacheHit, CacheMiss, CacheSet, CacheSetFails, Deciding, Receiving
<1>2. Ahead(r) = {}
  BY <1>1, InChain
<1>3. CASE CacheHit(r)
  <2>1. Reply("cached") \in Replies /\ Reply("cached").is = "cached"
    BY TypesOf DEF IInv, Successes
  <2>2. AnswerStep(r, Reply("cached"))
    BY <1>1, <1>2, <1>3, <2>1, InChain
       DEF CacheHit, Deciding, AnswerStep, Aside, rest, checks, Handled
  <2> QED
    BY <2>2, AnswerKeeps
<1>4. CASE CacheMiss(r)
  BY <1>1, <1>4, InChain, Passing DEF CacheMiss, Deciding
<1>5. CASE CacheSet(r)
  <2>1. UpStep(r)
    BY <1>1, <1>5 DEF CacheSet, Receiving, UpStep
  <2>2. cache' \in [value : 0 .. version, ttl : 0 .. Ttl] /\ behind' \in 0 .. Ttl + 1 /\ CacheInv'
    <3>1. CASE reply[r].is = "success"
      <4>1. reply[r].value \in 0 .. version /\ Ttl \in Nat /\ Ttl # 0
        BY PipelineAssumption DEF IInv, Types, TypeOK
      <4>2. cache' = [value |-> reply[r].value, ttl |-> Ttl] /\ behind' = 0
        BY <1>5, <3>1 DEF CacheSet
      <4> QED
        BY <4>1, <4>2 DEF CacheInv, Absent
    <3>2. CASE reply[r].is # "success"
      BY <1>5, <3>2 DEF CacheSet, CacheInv, IInv, Types, TypeOK, entry
    <3> QED
      BY <3>1, <3>2
  <2> QED
    BY <2>1, <2>2, UpKeeps
<1>6. CASE CacheSetFails(r)
  <2>1. UpStep(r) /\ UNCHANGED <<cache, behind>>
    BY <1>1, <1>6 DEF CacheSetFails, Receiving, UpStep, rest, entry
  <2>2. /\ cache' \in [value : 0 .. version, ttl : 0 .. Ttl] /\ behind' \in 0 .. Ttl + 1
        /\ CacheInv'
    BY <2>1 DEF IInv, Types, TypeOK, CacheInv
  <2> QED
    BY <2>1, <2>2, UpKeeps
<1> QED
  BY <1>3, <1>4, <1>5, <1>6

LEMMA LockKeeps == ASSUME IInv, NEW r \in Run, LockGranted(r) \/ LockRefused(r) PROVE IInv'
<1>1. at[r] = 7 /\ reply[r] = NoReply /\ Handler(r) = 9
  BY Places DEF LockGranted, LockRefused, Deciding
<1>2. CASE LockGranted(r)
  BY <1>1, <1>2, InChain, Passing DEF LockGranted
<1>3. CASE LockRefused(r)
  BY <1>1, <1>3, Stopping DEF LockRefused
<1> QED
  BY <1>2, <1>3

LEMMA HandleKeeps == ASSUME IInv, NEW r \in Run, reply[r] = NoReply, Handle(r) PROVE IInv'
<1>1. at[r] = Handler(r) /\ Handler(r) \in {6, 9} /\ Ahead(r) = {}
  BY InChain DEF Handle
<1>2. PICK what \in Replies : Answer(r, what) /\ what.is \in Handled \cup {"failure", "throw"}
  <2>1. Success(version) \in Replies /\ Success(version).is = "success"
    BY TypesOf DEF IInv
  <2>2. \A w \in {"undefined", "failure", "throw"} : Reply(w) \in Replies /\ Reply(w).is = w
    BY TypesOf DEF IInv, Successes
  <2> QED
    BY <2>1, <2>2 DEF Handle, Handled
<1>3. what.is \notin {"none", "started"}
  BY <1>2 DEF Handled
<1>4. AnswerStep(r, what)
  BY <1>1, <1>2, <1>3, InChain DEF Handle, AnswerStep, Aside, rest, checks
<1> QED
  BY <1>4, AnswerKeeps

LEMMA CommitKeeps ==
    ASSUME IInv, NEW r \in Run, Commit(r) \/ CommitSpoiled(r) \/ CommitReplyLost(r)
    PROVE  IInv'
<1>1. /\ at[r] = 8 /\ r[1] \notin Query /\ reply[r] # NoReply /\ reply[r].is \in Successes
      /\ UNCHANGED <<checks, entry, engine, metric>>
  BY Places DEF Commit, CommitSpoiled, CommitReplyLost, Receiving
<1>2. /\ mishap \in [Run -> {"none", "inDoubt", "spoiled"}] /\ r \notin committed
      /\ reply \in [Run -> Replies]
  BY <1>1, InChain DEF IInv, Types, TypeOK, Replies
<1>3. CASE Commit(r)
  <2>1. Answer(r, reply[r])
    BY <1>2, <1>3 DEF Commit, Answer
  <2>2. TxStep(r, reply[r])
    BY <1>1, <1>2, <1>3, <2>1 DEF Commit, TxStep
  <2> QED
    BY <2>2, TxKeeps
<1>4. CASE CommitSpoiled(r)
  <2>1. Answer(r, reply[r])
    BY <1>2, <1>4 DEF CommitSpoiled, Answer
  <2>2. TxStep(r, reply[r])
    BY <1>1, <1>2, <1>4, <2>1 DEF CommitSpoiled, TxStep
  <2> QED
    BY <2>2, TxKeeps
<1>5. CASE CommitReplyLost(r)
  <2>1. PICK what \in {"failure", "throw"} : Answer(r, Reply(what))
    BY <1>5 DEF CommitReplyLost
  <2>2. Reply(what) \in Replies /\ Reply(what).is = what
    BY TypesOf DEF IInv
  <2>3. TxStep(r, Reply(what))
    BY <1>1, <1>2, <1>5, <2>1, <2>2 DEF CommitReplyLost, TxStep
  <2> QED
    BY <2>3, TxKeeps
<1> QED
  BY <1>3, <1>4, <1>5

LEMMA RollbackKeeps == ASSUME IInv, NEW r \in Run, Rollback(r) PROVE IInv'
<1>1. at[r] = 8 /\ Handler(r) = 9
  BY Places DEF Rollback, Receiving
<1> QED
  BY <1>1, Stopping DEF Rollback

(* PerformanceBehavior and LogBehavior.                                    *)
LEMMA ReturnKeeps == ASSUME IInv, NEW r \in Run, Return(r) PROVE IInv'
<1> USE DEF IInv
<1>1. /\ at[r] = 2 /\ reply[r] # NoReply /\ Handler(r) \in {6, 9}
      /\ metric' = [metric EXCEPT ![r] = Label(r)]
      /\ reply' = [reply EXCEPT ![r] = Logged(reply[r])]
      /\ at' = [at EXCEPT ![r] = 0]
      /\ UNCHANGED <<invalid, passed, cache, behind, processes, lost, version, committed, mishap>>
  BY Places DEF Return, Receiving, checks, entry, engine, database
<1>2. RunOK(r) /\ TypeOK
  BY DEF RunInv, Types
<1>3. /\ reply[r] \in Replies /\ reply[r].is \in Successes \cup {"failure", "throw"}
      /\ reply \in [Run -> Replies] /\ at \in [Run -> 0 .. 9]
      /\ metric \in [Run -> {"none", "success", "failure"}]
  BY <1>1, <1>2 DEF TypeOK, Replies, RunOK
<1>4. /\ Logged(reply[r]) \in Replies
      /\ Logged(reply[r]).is = IF reply[r].is = "throw" THEN "failure" ELSE reply[r].is
      /\ Label(r) = IF reply[r].is = "throw" THEN "none"
                    ELSE IF reply[r].is = "failure" THEN "failure" ELSE "success"
  BY <1>3, TypesOf DEF Logged, Label
<1>5. /\ reply' \in [Run -> Replies] /\ reply'[r] = Logged(reply[r])
      /\ at' \in [Run -> 0 .. 9] /\ at'[r] = 0
      /\ metric' \in [Run -> {"none", "success", "failure"}] /\ metric'[r] = Label(r)
      /\ \A s \in Run \ {r} : reply'[s] = reply[s] /\ at'[s] = at[s] /\ metric'[s] = metric[s]
  BY <1>1, <1>3, <1>4
<1>6. Types'
  BY <1>1, <1>5 DEF Types, TypeOK, Replies
<1>11. /\ "throw" \notin Successes /\ "failure" \notin Successes /\ "none" \notin Successes
       /\ reply'[r].is # "none" /\ reply'[r] # NoReply
       /\ reply[r].is = "throw" => reply'[r].is = "failure"
       /\ reply[r].is # "throw" => reply'[r].is = reply[r].is
  BY <1>3, <1>4, <1>5 DEF Successes, NoReply
<1>7. RunOK(r)'
  <2>2. Observed(r)'
    BY <1>3, <1>4, <1>5, <1>11 DEF Observed
  <2>3. Handler(r)' = Handler(r) /\ Ahead(r)' = Ahead(r)
    BY <1>1 DEF Handler, Chain, Ahead, Required, Decides
  <2>4. Told(r)'
    BY <1>1, <1>2, <1>5, <1>11 DEF RunOK, Told, Handled, Stopped
  <2>5. Checked(r)'
    BY <1>1, <1>2, <1>3, <1>5, <1>11, <2>3 DEF RunOK, Checked, Stopped
  <2>6. /\ reply'[r].is = "started" => r \notin committed /\ r[1] \in processes
        /\ r[2] \in Dispatch => r[1] \in processes
    BY <1>1, <1>2, <1>11 DEF RunOK
  <2> QED
    BY <1>1, <1>5, <1>11, <2>2, <2>3, <2>4, <2>5, <2>6 DEF RunOK
<1>8. RunInv'
  BY <1>1, <1>5, <1>7, Frames
<1>9. ProcessInv'
  <2> SUFFICES ASSUME NEW x \in processes PROVE Known(x)'
    BY <1>1 DEF ProcessInv
  <2>1. Known(x) /\ <<x, "client">> \in Run
    BY <1>2, Runs DEF ProcessInv, TypeOK
  <2>2. /\ reply[<<x, "client">>].is = "started" => reply'[<<x, "client">>].is = "started"
        /\ reply[<<x, "client">>] # NoReply => reply'[<<x, "client">>] # NoReply
        /\ at[<<x, "client">>] < 5 => at'[<<x, "client">>] < 5
    BY <1>5, <1>11, <2>1
  <2> QED
    BY <1>1, <2>1, <2>2, KnownFrame DEF Known
<1>10. CacheInv'
  BY <1>1 DEF CacheInv
<1> QED
  BY <1>6, <1>8, <1>9, <1>10

(* What runs and the engine know does not depend on the cache.             *)
LEMMA Idle ==
    ASSUME RunInv, ProcessInv,
           UNCHANGED <<invalid, passed, at, reply, processes, lost, version, committed, mishap, metric>>
    PROVE  RunInv' /\ ProcessInv'
BY DEF RunInv, RunOK, Told, Checked, Ahead, Required, Decides, ProcessInv, Known, Answered, Observed,
       Handler, Chain, Run

(* The entry grows older.                                                  *)
LEMMA TickKeeps == ASSUME IInv, Tick PROVE IInv'
<1> USE DEF IInv
<1>1. /\ cache # Absent /\ cache \in [value : 0 .. version, ttl : 0 .. Ttl]
      /\ behind \in 0 .. Ttl + 1 /\ version \in Nat /\ Ttl \in Nat \ {0}
      /\ cache.ttl >= 1 /\ behind + cache.ttl <= Ttl
      /\ UNCHANGED <<invalid, passed, at, reply, processes, lost, version, committed, mishap, metric>>
  BY TypesOf, PipelineAssumption
     DEF Tick, Types, TypeOK, CacheInv, checks, engine, database
<1>4. RunInv' /\ ProcessInv'
  BY <1>1, Idle
<1>2. CASE cache.ttl = 1
  <2>1. cache' = Absent /\ behind' = 0
    BY <1>2 DEF Tick
  <2>2. Types' /\ CacheInv'
    BY <1>1, <2>1 DEF Types, TypeOK, CacheInv, Absent
  <2> QED
    BY <1>4, <2>2
<1>3. CASE cache.ttl # 1
  <2>1. /\ cache' = [cache EXCEPT !.ttl = @ - 1]
        /\ behind' \in {behind, behind + 1}
    BY <1>3 DEF Tick
  <2>2. /\ cache'.ttl = cache.ttl - 1 /\ cache'.value = cache.value /\ cache.ttl \in 2 .. Ttl
        /\ cache' \in [value : 0 .. version, ttl : 0 .. Ttl]
    BY <1>1, <1>3, <2>1
  <2>3. behind' \in 0 .. Ttl + 1 /\ behind' + cache'.ttl <= Ttl /\ cache'.ttl >= 1
    BY <1>1, <2>1, <2>2
  <2>4. Types'
    BY <1>1, <2>2, <2>3 DEF Types, TypeOK
  <2>5. CacheInv'
    BY <2>3 DEF CacheInv, Absent
  <2> QED
    BY <1>4, <2>4, <2>5
<1> QED
  BY <1>2, <1>3

-----------------------------------------------------------------------------
(* What holds in every state.                                              *)
THEOREM InductiveInvariant == Spec => []IInv
<1>1. Init => IInv
  <2> SUFFICES ASSUME Init PROVE IInv
    OBVIOUS
  <2>1. /\ IsFiniteSet(committed) /\ version = Cardinality(committed) /\ 0 \in 0 .. version
    BY FS_EmptySet DEF Init
  <2>2. Types
    BY <2>1, PipelineAssumption DEF Init, Types, TypeOK, NoReply, Absent, Successes
  <2>3. RunInv
    <3>1. \A r \in Run : Handler(r) \in {6, 9}
      BY Places
    <3> QED
      BY <3>1 DEF Init, RunInv, RunOK, Told, Checked, NoReply, Answered, Handled
  <2>4. ProcessInv /\ CacheInv
    BY DEF Init, ProcessInv, CacheInv
  <2> QED
    BY <2>2, <2>3, <2>4 DEF IInv
<1>2. IInv /\ [Next]_vars => IInv'
  <2> SUFFICES ASSUME IInv, [Next]_vars PROVE IInv'
    OBVIOUS
  <2>1. CASE Tick
    BY <2>1, TickKeeps
  <2>2. ASSUME NEW r \in Run, Execute(r) PROVE IInv'
    BY <2>2, ExecuteKeeps
  <2>3. ASSUME NEW r \in Run, Proceed(r) PROVE IInv'
    <3>1. CASE reply[r] = NoReply /\ Decide(r)
      BY <3>1, FlagKeeps, ValidateKeeps, WorkflowKeeps, CacheKeeps, LockKeeps, HandleKeeps
         DEF Decide
    <3>2. CASE reply[r] # NoReply /\ Receive(r)
      BY <3>2, CommitKeeps, RollbackKeeps, CacheKeeps, ReturnKeeps DEF Receive
    <3> QED
      BY <2>3, <3>1, <3>2 DEF Proceed
  <2>4. CASE UNCHANGED vars
    <3>1. UNCHANGED <<invalid, passed, at, reply, processes, lost, version, committed, mishap,
                      metric, cache, behind>>
      BY <2>4 DEF vars, checks, entry, engine, database, rest
    <3>2. RunInv' /\ ProcessInv'
      BY <3>1, Idle DEF IInv
    <3> QED
      BY <3>1, <3>2 DEF IInv, Types, TypeOK, CacheInv, Run
  <2> QED
    BY <2>1, <2>2, <2>3, <2>4 DEF Next
<1> QED
  BY <1>1, <1>2, PTL DEF Spec

(* All variables keep to their types.                                      *)
THEOREM TypeCorrect == Spec => []TypeOK
<1>1. IInv => TypeOK
  BY DEF IInv, Types
<1> QED
  BY <1>1, InductiveInvariant, PTL

(* The reply tells whether a command took effect, except for a COMMIT      *)
(* whose answer is lost and one of a spoiled transaction.                  *)
(* (TransactionalBehavior L41-59, CacheBehavior L36-45)                    *)
THEOREM Effect == Spec => []ReplyTellsEffect
<1>1. IInv => ReplyTellsEffect
  BY DEF IInv, RunInv, RunOK, Told, Answered, Handled, ReplyTellsEffect
<1> QED
  BY <1>1, InductiveInvariant, PTL

(* What a flag or a validator refuses reaches neither the engine nor the   *)
(* database, and gets no value, in whatever chain and with whatever other  *)
(* decorators.  (PipelineExecutor L48-77, FeatureFlagBehavior L24-45,      *)
(* ValidationBehavior L17-27)                                              *)
THEOREM Refused == Spec => []RefusedGetsNothing
<1>1. IInv => RefusedGetsNothing
  <2> SUFFICES ASSUME IInv, NEW r \in Run, r[1] \in invalid \/ ~(Required(r) \subseteq passed[r])
               PROVE  /\ r \notin committed /\ (r[2] = "client" => r[1] \notin processes)
                      /\ reply[r].is \notin {"success", "undefined", "cached", "started"}
    BY DEF RefusedGetsNothing
  <2>1. Ahead(r) # {}
    BY InChain DEF Ahead
  <2>2. r \notin committed /\ reply[r].is \in Stopped \cup {"none"}
    BY <2>1 DEF IInv, RunInv, RunOK, Checked
  <2>3. ASSUME r[2] = "client", r[1] \in processes PROVE FALSE
    <3>1. Known(r[1]) /\ r = <<r[1], "client">>
      BY <2>3, Runs DEF IInv, ProcessInv
    <3> QED
      BY <2>1, <3>1 DEF Known
  <2> QED
    BY <2>2, <2>3 DEF Stopped
<1> QED
  BY <1>1, InductiveInvariant, PTL

(* A command is handed to the engine or executed by the call itself, not   *)
(* both, unless the engine's acceptance was lost and the fallback is       *)
(* 'skip': for any number of the engine's callbacks.  (WorkflowBehavior    *)
(* L31-65)                                                                 *)
THEOREM Handover == Spec => []RunHereOrHandedOver
<1>1. IInv => RunHereOrHandedOver
  <2> SUFFICES ASSUME IInv, NEW x \in Workflow, NEW r, r = <<x, "client">>
               PROVE  /\ x \in processes => reply[r].is = "started" \/ x \in lost
                      /\ reply[r].is = "started" => x \in processes /\ r \notin committed
                      /\ r \in committed /\ x \in processes => x \in lost \cap Skips
    BY DEF RunHereOrHandedOver
  <2>1. RunOK(r) /\ r[1] = x
    BY Runs DEF IInv, RunInv
  <2>2. x \in processes => Known(x)
    BY DEF IInv, ProcessInv
  <2> QED
    BY <2>1, <2>2 DEF RunOK, Known
<1> QED
  BY <1>1, InductiveInvariant, PTL

(* A value that a commit has overtaken is served for less than ttlSeconds. *)
(* (CacheBehavior L24-43)                                                  *)
THEOREM Stale == Spec => []StaleWithinTtl
<1>1. IInv => StaleWithinTtl
  <2> SUFFICES ASSUME IInv PROVE behind < Ttl
    BY DEF StaleWithinTtl
  <2>1. /\ Ttl \in Nat \ {0} /\ behind \in 0 .. Ttl + 1 /\ cache.ttl \in 0 .. Ttl
    BY PipelineAssumption DEF IInv, Types, TypeOK
  <2> QED
    BY <2>1 DEF IInv, CacheInv
<1> QED
  BY <1>1, InductiveInvariant, PTL

(* The histogram tells the outcome the caller got.                         *)
(* (PerformanceBehavior L21-30, LogBehavior L62)                           *)
THEOREM Metrics == Spec => []MetricsTellReply
<1>1. IInv => MetricsTellReply
  BY DEF IInv, RunInv, RunOK, Observed, MetricsTellReply
<1> QED
  BY <1>1, InductiveInvariant, PTL

-----------------------------------------------------------------------------
(* What a string in a log entry may be.                                    *)
Legible == {"name", "cut", "more", "[nested]", "[excluded]", "[REDACTED]", "masked address"}

Plain == {Text(t) : t \in Legible}

(* An array or object of them.                                             *)
Flat(v) ==
    \/ v \in Plain
    \/ \E s \in Seq(Plain) : v = Array(s)
    \/ \E D : \E f \in [D -> Plain] : v = Object(f)

LEMMA PlainTexts ==
    /\ \A v \in Strings : v.type = "string" /\ Shorten(v) \in Plain
    /\ Text("[nested]") \in Plain /\ Text("[excluded]") \in Plain /\ Text("more") \in Plain
    /\ \A key, v : Mask(key, v) \in Plain
    /\ \A v \in Plain : v.type = "string" /\ v.text \in Legible
<1>1. ASSUME NEW t \in Legible PROVE Text(t) \in Plain
  BY DEF Plain
<1>2. \A t : Text(t).type = "string" /\ Text(t).text = t
  BY DEF Text
<1>3. \A t \in {"name", "cut", "more", "[nested]", "[excluded]", "[REDACTED]", "masked address"} :
         Text(t) \in Plain
  BY <1>1 DEF Legible
<1>4. \A v \in Strings : v.type = "string" /\ Shorten(v) \in Plain
  BY <1>2, <1>3 DEF Strings, Shorten
<1>5. \A key, v : Mask(key, v) \in Plain
  BY <1>3 DEF Mask
<1>6. \A v \in Plain : v.type = "string" /\ v.text \in Legible
  BY <1>2 DEF Plain
<1> QED
  BY <1>3, <1>4, <1>5, <1>6

LEMMA ObjectsHave ==
    ASSUME NEW values, NEW o \in ObjectsOver(values)
    PROVE  /\ o.type = "object"
           /\ \E key \in {"email", "token"}, s \in Secrets, v \in values :
                 o = Object([x \in {"name", key} |-> IF x = key THEN s ELSE v])
  BY DEF ObjectsOver, Object

LEMMA DeepestPlain == ASSUME NEW v \in Level3 PROVE AtMaxDepth(v) \in Plain
<1>1. CASE v \in Strings
  BY <1>1, PlainTexts DEF AtMaxDepth
<1>2. CASE v \in ObjectsOver(Strings)
  BY <1>2, PlainTexts, ObjectsHave DEF AtMaxDepth
<1> QED
  BY <1>1, <1>2 DEF Level3

LEMMA ItemsPlain ==
    ASSUME NEW s \in Seq(Plain)
    PROVE  Items(s) \in Seq(Plain) /\ Len(Items(s)) <= 6
<1>1. CASE Len(s) > 5
  <2>1. SubSeq(s, 1, 5) \in Seq(Plain) /\ Len(SubSeq(s, 1, 5)) = 5
    BY <1>1
  <2>2. Text("more") \in Plain
    BY PlainTexts
  <2> QED
    BY <1>1, <2>1, <2>2 DEF Items, MAX_ARRAY_LENGTH
<1>2. CASE Len(s) <= 5
  BY <1>2 DEF Items, MAX_ARRAY_LENGTH
<1> QED
  BY <1>1, <1>2

(* Of an array, at most five items are logged and how many more there are. *)
LEMMA ArraysCut ==
    ASSUME NEW v \in ArraysOver(Level3)
    PROVE  \E s \in Seq(Plain) : Nested(v) = Array(s) /\ Len(Nested(v).items) <= 6
<1>1. PICK n \in {1, 5, 6}, w \in Level3 : v = Array([j \in 1 .. n |-> w])
  BY DEF ArraysOver, MAX_ARRAY_LENGTH
<1> DEFINE inner == [x \in DOMAIN Members(v) |-> AtMaxDepth(Members(v)[x])]
<1>2. v.type = "array" /\ Members(v) = [j \in 1 .. n |-> w]
  BY <1>1 DEF Members, Array
<1>3. Nested(v) = Array(Items(inner))
  BY <1>2 DEF Nested, Sanitize
<1>4. inner = [j \in 1 .. n |-> AtMaxDepth(w)]
  BY <1>2
<1>5. inner \in Seq(Plain)
  BY <1>4, DeepestPlain
<1> QED
  BY <1>3, <1>5, ItemsPlain DEF Array

LEMMA NestedFlat == ASSUME NEW v \in Level2 PROVE Flat(Nested(v))
<1>1. CASE v \in Strings
  BY <1>1, PlainTexts DEF Nested, Sanitize, Flat
<1>2. CASE v \in ObjectsOver(Level3)
  <2>1. PICK key \in {"email", "token"}, s \in Secrets, w \in Level3 :
           v = Object([x \in {"name", key} |-> IF x = key THEN s ELSE w])
    BY <1>2, ObjectsHave
  <2> DEFINE inner == [x \in DOMAIN Members(v) |-> AtMaxDepth(Members(v)[x])]
             f == [x \in DOMAIN v.fields |-> Field(x, v.fields[x], {}, inner[x])]
  <2>2. /\ v.type = "object" /\ Members(v) = v.fields
        /\ v.fields = [x \in {"name", key} |-> IF x = key THEN s ELSE w]
    BY <2>1 DEF Members, Object
  <2>3. Nested(v) = Object(f)
    BY <2>2 DEF Nested, Sanitize
  <2>4. ASSUME NEW x \in {"name", key} PROVE f[x] \in Plain
    <3>1. CASE x = "name"
      <4>1. inner[x] = AtMaxDepth(w)
        BY <2>2, <3>1
      <4>2. f[x] = inner[x]
        BY <2>2, <3>1 DEF Field, PII_FIELDS
      <4> QED
        BY <4>1, <4>2, DeepestPlain
    <3>2. CASE x = key
      <4>1. f[x] = Mask(x, v.fields[x])
        BY <2>2, <3>2 DEF Field, PII_FIELDS
      <4> QED
        BY <4>1, PlainTexts
    <3> QED
      BY <3>1, <3>2
  <2>5. DOMAIN f = {"name", key} /\ f \in [{"name", key} -> Plain]
    BY <2>2, <2>4
  <2> HIDE DEF f
  <2> QED
    BY <2>3, <2>5 DEF Flat
<1>3. CASE v \in ArraysOver(Level3)
  BY <1>3, ArraysCut DEF Flat
<1> QED
  BY <1>1, <1>2, <1>3 DEF Level2
(* No string of a flat value is one a log entry must not show.             *)
LEMMA FlatTexts == ASSUME NEW v, Flat(v) PROVE Strings1(v) \subseteq Legible
<1>1. \A p \in Plain : Strings0(p) \subseteq Legible /\ Strings1(p) \subseteq Legible
  BY PlainTexts DEF Strings0, Strings1
<1>2. ASSUME NEW s \in Seq(Plain), v = Array(s) PROVE Strings1(v) \subseteq Legible
  <2>1. v.type = "array" /\ Members(v) = s
    BY <1>2 DEF Members, Array
  <2>2. \A x \in DOMAIN s : s[x] \in Plain
    OBVIOUS
  <2> QED
    BY <1>1, <2>1, <2>2 DEF Strings1
<1>3. ASSUME NEW D, NEW f \in [D -> Plain], v = Object(f) PROVE Strings1(v) \subseteq Legible
  <2>1. v.type = "object" /\ Members(v) = f
    BY <1>3 DEF Members, Object
  <2> QED
    BY <1>1, <2>1 DEF Strings1
<1> QED
  BY <1>1, <1>2, <1>3 DEF Flat

(* What is logged of each command has no such string, ...                  *)
LEMMA CommandsMasked ==
    ASSUME NEW command \in Commands, NEW logExclude
    PROVE  LoggedStrings(MaskPayload(command, logExclude)) \subseteq Legible
<1>1. PICK key \in {"email", "token"}, s \in Secrets, w \in Level2 :
         command = Object([x \in {"name", key} |-> IF x = key THEN s ELSE w])
  <2>1. command \in ObjectsOver(Level2)
    BY DEF Commands
  <2> QED
    BY <2>1, ObjectsHave
<1> DEFINE inner == [x \in DOMAIN Members(command) |-> Nested(Members(command)[x])]
           f == [x \in DOMAIN command.fields |->
                    Field(x, command.fields[x], logExclude, inner[x])]
<1>2. /\ command.type = "object" /\ Members(command) = command.fields
      /\ command.fields = [x \in {"name", key} |-> IF x = key THEN s ELSE w]
  BY <1>1 DEF Members, Object
<1>3. MaskPayload(command, logExclude) = Object(f)
  BY <1>2 DEF MaskPayload, Sanitize
<1>4. ASSUME NEW x \in {"name", key} PROVE Flat(f[x])
  <2>1. f[x] = Field(x, command.fields[x], logExclude, inner[x])
    BY <1>2
  <2>2. CASE x \in logExclude \/ x = key
    <3>1. f[x] \in Plain
      BY <1>2, <2>1, <2>2, PlainTexts DEF Field, PII_FIELDS
    <3> QED
      BY <3>1 DEF Flat
  <2>3. CASE x = "name" /\ x \notin logExclude
    <3>1. inner[x] = Nested(w)
      BY <1>2, <2>3
    <3>2. f[x] = inner[x]
      BY <2>1, <2>3 DEF Field, PII_FIELDS
    <3> QED
      BY <3>1, <3>2, NestedFlat
  <2> QED
    BY <2>2, <2>3
<1>5. DOMAIN f = {"name", key}
  BY <1>2
<1> HIDE DEF f
<1>6. Members(Object(f)) = f
  BY DEF Members, Object
<1>7. \A x \in DOMAIN f : Strings1(f[x]) \subseteq Legible
  BY <1>4, <1>5, FlatTexts
<1>8. LoggedStrings(Object(f)) = UNION {Strings1(f[x]) : x \in DOMAIN f}
  BY <1>6 DEF LoggedStrings
<1> QED
  BY <1>3, <1>7, <1>8

(* ... an excluded field shows nothing, a long array is cut, and a name    *)
(* stays legible.                                                          *)
LEMMA CommandsShown ==
    ASSUME NEW command \in Commands, NEW logExclude
    PROVE  LET logged == MaskPayload(command, logExclude)
               name == command.fields["name"]
           IN  /\ \A key \in logExclude \cap DOMAIN command.fields :
                     logged.fields[key] = Text("[excluded]")
               /\ name.type = "array" /\ "name" \notin logExclude
                     => Len(logged.fields["name"].items) <= 6
               /\ name = Text("name") /\ "name" \notin logExclude => logged.fields["name"] = name
<1>1. PICK key \in {"email", "token"}, s \in Secrets, w \in Level2 :
         command = Object([x \in {"name", key} |-> IF x = key THEN s ELSE w])
  <2>1. command \in ObjectsOver(Level2)
    BY DEF Commands
  <2> QED
    BY <2>1, ObjectsHave
<1> DEFINE inner == [x \in DOMAIN Members(command) |-> Nested(Members(command)[x])]
           f == [x \in DOMAIN command.fields |->
                    Field(x, command.fields[x], logExclude, inner[x])]
           logged == MaskPayload(command, logExclude)
<1>2. /\ command.type = "object" /\ Members(command) = command.fields
      /\ command.fields = [x \in {"name", key} |-> IF x = key THEN s ELSE w]
  BY <1>1 DEF Members, Object
<1>3. logged = Object(f) /\ logged.fields = f
  BY <1>2 DEF MaskPayload, Sanitize, Object
<1>4. DOMAIN f = {"name", key}
  BY <1>2
<1>5. \A x \in logExclude \cap {"name", key} : f[x] = Text("[excluded]")
  BY <1>2 DEF Field
<1>6. command.fields["name"] = w
  BY <1>2
<1>7. "name" \notin logExclude => f["name"] = Nested(w)
  BY <1>2, <1>6 DEF Field, PII_FIELDS
<1>8. w.type = "array" => Len(Nested(w).items) <= 6
  <2> SUFFICES ASSUME w.type = "array" PROVE Len(Nested(w).items) <= 6
    OBVIOUS
  <2>1. w \in ArraysOver(Level3)
    BY PlainTexts, ObjectsHave DEF Level2
  <2> QED
    BY <2>1, ArraysCut
<1>9. w = Text("name") => Nested(w) = w
  BY DEF Nested, Sanitize, Shorten, Text
<1> HIDE DEF f
<1> QED
  BY <1>2, <1>3, <1>4, <1>5, <1>6, <1>7, <1>8, <1>9

(* Hence every one of them is as it has to be.                             *)
LEMMA EveryPayload == EveryPayloadIsMasked
<1> SUFFICES ASSUME NEW command \in Commands, NEW logExclude \in {{}, {"name"}, {"token"}}
             PROVE  LET logged == MaskPayload(command, logExclude)
                        name == command.fields["name"]
                    IN  /\ LoggedStrings(logged)
                              \cap {"address", "secret", "long", "below the limit"} = {}
                        /\ \A key \in logExclude \cap DOMAIN command.fields :
                              logged.fields[key] = Text("[excluded]")
                        /\ name.type = "array"
                              => logExclude = {"name"} \/ Len(logged.fields["name"].items) <= 6
                        /\ name = Text("name") /\ "name" \notin logExclude
                              => logged.fields["name"] = name
  BY DEF EveryPayloadIsMasked
<1>1. Legible \cap {"address", "secret", "long", "below the limit"} = {}
  BY DEF Legible
<1> QED
  BY <1>1, CommandsMasked, CommandsShown


(* No entry of a run shows a secret of its command, at whatever depth.     *)
(* (LogBehavior L66-115)                                                   *)
THEOREM Masked == Spec => []PayloadIsMasked
<1>1. PayloadIsMasked
  BY EveryPayload DEF PayloadIsMasked
<1> QED
  BY <1>1, PTL

-----------------------------------------------------------------------------
(* Two values that an entry cannot tell apart where it shows no more than  *)
(* that there is something, ...                                            *)
AlikeAtLimit(v, w) == v = w \/ (v.type # "string" /\ w.type # "string")

(* ... under a PII field, where it may show an address' first letter, ...  *)
AlikeSecrets(key, v, w) == key = "email" => (v = Text("address") <=> w = Text("address"))

(* ... as a field or an item of a command, ...                             *)
AlikeNested(v, w) ==
    \/ v = w
    \/ /\ v.type = "array" /\ w.type = "array"
       /\ DOMAIN v.items = DOMAIN w.items
       /\ \A j \in DOMAIN v.items : AlikeAtLimit(v.items[j], w.items[j])
    \/ /\ v.type = "object" /\ w.type = "object"
       /\ DOMAIN v.fields = DOMAIN w.fields
       /\ \A x \in DOMAIN v.fields : IF x \in PII_FIELDS
                                  THEN AlikeSecrets(x, v.fields[x], w.fields[x])
                                  ELSE AlikeAtLimit(v.fields[x], w.fields[x])

(* ... and as commands.                                                    *)
Alike(c, d, logExclude) ==
    /\ c.type = "object" /\ d.type = "object"
    /\ DOMAIN c.fields = DOMAIN d.fields
    /\ \A x \in DOMAIN c.fields \ logExclude : IF x \in PII_FIELDS
                                              THEN AlikeSecrets(x, c.fields[x], d.fields[x])
                                              ELSE AlikeNested(c.fields[x], d.fields[x])

(* Equal entries for equal secrets and others.                             *)
LEMMA LimitHides ==
    ASSUME NEW v, NEW w, AlikeAtLimit(v, w) PROVE AtMaxDepth(v) = AtMaxDepth(w)
  BY DEF AlikeAtLimit, AtMaxDepth

LEMMA MaskHides ==
    ASSUME NEW key, NEW v, NEW w, AlikeSecrets(key, v, w) PROVE Mask(key, v) = Mask(key, w)
  BY DEF AlikeSecrets, Mask

LEMMA NestedHides ==
    ASSUME NEW v, NEW w, AlikeNested(v, w) PROVE Nested(v) = Nested(w)
<1> DEFINE Inner(u) == [x \in DOMAIN Members(u) |-> AtMaxDepth(Members(u)[x])]
           Fields(u) == [x \in DOMAIN u.fields |-> Field(x, u.fields[x], {}, Inner(u)[x])]
<1>1. CASE v = w
  BY <1>1
<1>2. CASE /\ v.type = "array" /\ w.type = "array"
           /\ DOMAIN v.items = DOMAIN w.items
           /\ \A j \in DOMAIN v.items : AlikeAtLimit(v.items[j], w.items[j])
  <2>1. Members(v) = v.items /\ Members(w) = w.items
    BY <1>2 DEF Members
  <2>2. \A j \in DOMAIN v.items : AtMaxDepth(v.items[j]) = AtMaxDepth(w.items[j])
    BY <1>2, LimitHides
  <2>3. Inner(v) = Inner(w)
    BY <1>2, <2>1, <2>2
  <2>4. Nested(v) = Array(Items(Inner(v))) /\ Nested(w) = Array(Items(Inner(w)))
    BY <1>2 DEF Nested, Sanitize
  <2> QED
    BY <2>3, <2>4
<1>3. CASE /\ v.type = "object" /\ w.type = "object"
           /\ DOMAIN v.fields = DOMAIN w.fields
           /\ \A x \in DOMAIN v.fields : IF x \in PII_FIELDS
                                      THEN AlikeSecrets(x, v.fields[x], w.fields[x])
                                      ELSE AlikeAtLimit(v.fields[x], w.fields[x])
  <2>1. Members(v) = v.fields /\ Members(w) = w.fields
    BY <1>3 DEF Members
  <2>2. ASSUME NEW x \in DOMAIN v.fields PROVE Fields(v)[x] = Fields(w)[x]
    <3>1. /\ Fields(v)[x] = Field(x, v.fields[x], {}, AtMaxDepth(v.fields[x]))
          /\ Fields(w)[x] = Field(x, w.fields[x], {}, AtMaxDepth(w.fields[x]))
      BY <1>3, <2>1
    <3> HIDE DEF Fields
    <3>2. CASE x \in PII_FIELDS
      <4>1. Mask(x, v.fields[x]) = Mask(x, w.fields[x])
        BY <1>3, <3>2, MaskHides
      <4> QED
        BY <3>1, <3>2, <4>1 DEF Field
    <3>3. CASE x \notin PII_FIELDS
      <4>1. AtMaxDepth(v.fields[x]) = AtMaxDepth(w.fields[x])
        BY <1>3, <3>3, LimitHides
      <4> QED
        BY <3>1, <3>3, <4>1 DEF Field
    <3> QED
      BY <3>2, <3>3
  <2>3. Fields(v) = Fields(w)
    <3>1. DOMAIN Fields(v) = DOMAIN v.fields /\ DOMAIN Fields(w) = DOMAIN v.fields
      BY <1>3
    <3> QED
      BY <1>3, <2>2
  <2>4. Nested(v) = Object(Fields(v)) /\ Nested(w) = Object(Fields(w))
    BY <1>3 DEF Nested, Sanitize
  <2> QED
    BY <2>3, <2>4
<1> QED
  BY <1>1, <1>2, <1>3 DEF AlikeNested

(* Whatever the secrets of a command are, at whatever depth and of         *)
(* whatever type, its log entry is the same: commands that differ in       *)
(* nothing but what is under PII fields, in excluded fields and below the  *)
(* limit of depth are logged alike.  (LogBehavior L66-115)                 *)
THEOREM SecretsDoNotShow ==
    ASSUME NEW c, NEW d, NEW logExclude, Alike(c, d, logExclude)
    PROVE  MaskPayload(c, logExclude) = MaskPayload(d, logExclude)
<1> DEFINE Inner(u) == [x \in DOMAIN Members(u) |-> Nested(Members(u)[x])]
           Fields(u) == [x \in DOMAIN u.fields |-> Field(x, u.fields[x], logExclude, Inner(u)[x])]
<1>1. c.type = "object" /\ d.type = "object" /\ DOMAIN c.fields = DOMAIN d.fields
  BY DEF Alike
<1>2. Members(c) = c.fields /\ Members(d) = d.fields
  BY <1>1 DEF Members
<1>3. ASSUME NEW x \in DOMAIN c.fields PROVE Fields(c)[x] = Fields(d)[x]
  <2>1. /\ Fields(c)[x] = Field(x, c.fields[x], logExclude, Nested(c.fields[x]))
        /\ Fields(d)[x] = Field(x, d.fields[x], logExclude, Nested(d.fields[x]))
    BY <1>1, <1>2
  <2> HIDE DEF Fields
  <2>2. CASE x \in logExclude
    BY <2>1, <2>2 DEF Field
  <2>3. CASE x \in PII_FIELDS \ logExclude
    <3>1. Mask(x, c.fields[x]) = Mask(x, d.fields[x])
      BY <2>3, MaskHides DEF Alike
    <3> QED
      BY <2>1, <2>3, <3>1 DEF Field
  <2>4. CASE x \notin PII_FIELDS \cup logExclude
    <3>1. Nested(c.fields[x]) = Nested(d.fields[x])
      BY <2>4, NestedHides DEF Alike
    <3> QED
      BY <2>1, <2>4, <3>1 DEF Field
  <2> QED
    BY <2>2, <2>3, <2>4
<1>4. Fields(c) = Fields(d)
  BY <1>1, <1>3
<1>5. MaskPayload(c, logExclude) = Object(Fields(c)) /\ MaskPayload(d, logExclude) = Object(Fields(d))
  BY <1>1 DEF MaskPayload, Sanitize
<1> QED
  BY <1>4, <1>5
=============================================================================
