------------------------- MODULE CheckHashesProofs -------------------------
(* sstate_checkhashes keeps the promise of HashCheck, for any tasks,       *)
(* packages, mirrors and number of threads.                                *)
EXTENDS CheckHashes, TLAPS, FiniteSetTheorems

Finished == added \ unfinished

(* The pool: a job is in the queue or with one worker until it is          *)
(* finished, and the main thread passes its joins when all are.            *)
PoolInv ==
  /\ queue \subseteq unfinished /\ unfinished \subseteq added /\ added \subseteq Tasklist
  /\ main \in {"scan", "add", "join", "join_workers", "joined", "done"}
  /\ worker \in [Workers -> {"new", "init", "get", "run", "end", "dead"}]
  /\ running \in [Workers -> Tasklist \cup {NoTask}]
  /\ main \in {"scan", "add"} => \A w \in Workers : worker[w] = "new"
  /\ \A w \in Workers : worker[w] = "run" =>
       /\ running[w] \in unfinished \ queue
       /\ \A v \in Workers : worker[v] = "run" /\ v # w => running[v] # running[w]
  /\ \A w \in Workers : worker[w] # "run" => running[w] = NoTask
  /\ main \in {"add", "join", "join_workers"} => Mirrors
  /\ main = "scan" => added = {}
  /\ main \in {"join", "join_workers"} => added = Tasklist
  /\ main \in {"joined", "done"} => added = (IF Mirrors THEN Tasklist ELSE {})
  /\ main \in {"join_workers", "joined", "done"} => unfinished = {}

(* The lists say of every finished task what the mirrors have of it; one   *)
(* whose check raised stays among the missed.                              *)
MissedInv ==
  /\ missed \in [Tasks -> 0..2]
  /\ \A t \in Tasks : main = "scan" \/ t \in Local => missed[t] = 0
  /\ \A t \in Tasklist \ Finished : main # "scan" => missed[t] = 1
  /\ \A t \in Finished \ unchecked : missed[t] = IF t \in mirror THEN 0 ELSE 2
  /\ \A t \in unchecked : missed[t] \in {1, 2}
ListInv ==
  /\ ret = (IF main = "scan" THEN {} ELSE Local \cup ((Finished \cap mirror) \ unchecked))
  /\ missing = {t \in Finished \ unchecked : t \notin mirror /\ Enforced /\ t \notin Allowed}
  /\ mirror \subseteq Tasklist /\ unchecked \subseteq Finished
  /\ result = "none" <=> main # "done"
  /\ result \in {"none", "fatal", "returned"}
  /\ result = "fatal" <=> main = "done" /\ Enforced /\ missing # {}
  /\ MissedInv

Inv == PoolInv /\ ListInv

LEMMA InvInit == Init => Inv
  BY ConstantsAssumption DEF Init, Pool!PoolInit, Inv, PoolInv, ListInv, MissedInv, Finished, Tasklist

LEMMA InvStep == Inv /\ [Next]_vars => Inv'
<1> SUFFICES ASSUME Inv, [Next]_vars PROVE PoolInv' /\ ListInv'
  BY DEF Inv
<1>. PoolInv /\ ListInv
  BY DEF Inv
<1>. USE ConstantsAssumption DEF Tasklist, pool, lists
<1>1. CASE Scan
  BY <1>1 DEF Scan, PoolInv, ListInv, MissedInv, Finished
<1>2. CASE Return
  BY <1>2 DEF Return, PoolInv, ListInv, MissedInv, Finished
<1>3. ASSUME NEW t \in Tasks, Pool!AddTask(t), UNCHANGED <<mirror, lists, result>>
      PROVE  PoolInv' /\ ListInv'
  BY <1>3 DEF Pool!AddTask, PoolInv, ListInv, MissedInv, Finished
<1>4. ASSUME Pool!Start \/ Pool!Join \/ Pool!JoinWorkers, UNCHANGED <<mirror, lists, result>>
      PROVE  PoolInv' /\ ListInv'
  BY <1>4 DEF Pool!Start, Pool!Join, Pool!JoinWorkers, PoolInv, ListInv, MissedInv, Finished
<1>5. ASSUME NEW w \in Workers, Pool!WorkerInit(w) \/ Pool!Get(w), UNCHANGED <<mirror, lists, result>>
      PROVE  PoolInv' /\ ListInv'
  <2>1. UNCHANGED <<added, unfinished, main>>
    BY <1>5 DEF Pool!WorkerInit, Pool!Get
  <2>2. ListInv'
    BY <1>5, <2>1 DEF ListInv, MissedInv, Finished
  <2>3. CASE Pool!WorkerInit(w)
    <3>1. worker[w] = "init" /\ UNCHANGED <<queue, running>>
          /\ \E v \in {"get", "dead"} : worker' = [worker EXCEPT ![w] = v]
      BY <2>3 DEF Pool!WorkerInit
    <3> QED
      BY <2>1, <2>2, <3>1 DEF PoolInv
  <2>4. CASE Pool!Get(w) /\ queue = {}
    <3>1. worker[w] = "get" /\ UNCHANGED <<queue, running>>
          /\ worker' = [worker EXCEPT ![w] = "end"]
      BY <2>4 DEF Pool!Get
    <3> QED
      BY <2>1, <2>2, <3>1 DEF PoolInv
  <2>5. CASE Pool!Get(w) /\ queue # {}
    <3>1. PICK j \in queue : /\ queue' = queue \ {j} /\ worker[w] = "get"
                             /\ worker' = [worker EXCEPT ![w] = "run"]
                             /\ running' = [running EXCEPT ![w] = j]
      BY <2>5 DEF Pool!Get
    <3> QED
      BY <2>1, <2>2, <3>1 DEF PoolInv
  <2> QED
    BY <1>5, <2>3, <2>4, <2>5
<1>6. ASSUME NEW w \in Workers, Found(w) \/ NotFound(w) \/ CheckRaises(w)
      PROVE  PoolInv' /\ ListInv'
  <2>1. running[w] \in unfinished \ queue /\ main \in {"join", "join_workers"} /\ Pool!Finish(w)
        /\ added' = added /\ unfinished' = unfinished \ {running[w]}
    BY <1>6 DEF Found, NotFound, CheckRaises, Pool!Finish, PoolInv
  <2>2. PoolInv'
    BY <2>1 DEF Pool!Finish, PoolInv
  <2>. DEFINE j == running[w]
  <2>3. Finished' = Finished \cup {j} /\ j \notin Finished /\ j \in Tasklist /\ j \in Tasks
    BY <2>1 DEF Finished, PoolInv
  <2>4. main' = main /\ main \notin {"scan", "done"} /\ UNCHANGED <<mirror, result>>
    BY <1>6, <2>1 DEF Pool!Finish, Found, NotFound, CheckRaises
  <2>5. missed[j] = 1 /\ missed \in [Tasks -> 0..2] /\ j \notin unchecked
    BY <2>3, <2>4 DEF ListInv, MissedInv
  <2>6. ASSUME NEW n \in 0..2, missed' = [missed EXCEPT ![j] = n],
               unchecked' \in {unchecked, unchecked \cup {j}},
               j \in unchecked' => n \in {1, 2},
               j \notin unchecked' => n = IF j \in mirror THEN 0 ELSE 2
        PROVE  MissedInv'
    <3>1. missed' \in [Tasks -> 0..2] /\ missed'[j] = n
          /\ \A t \in Tasks \ {j} : missed'[t] = missed[t]
      BY <2>3, <2>5, <2>6
    <3>2. \A t \in Tasks : main' = "scan" \/ t \in Local => missed'[t] = 0
      BY <2>3, <2>4, <3>1 DEF ListInv, MissedInv
    <3>3. \A t \in Tasklist \ Finished' : missed'[t] = 1
      BY <2>3, <2>4, <3>1 DEF ListInv, MissedInv
    <3>4. \A t \in Finished' \ unchecked' : missed'[t] = IF t \in mirror' THEN 0 ELSE 2
      <4>1. Finished \subseteq Tasks
        BY DEF Finished, PoolInv
      <4> QED
        BY <2>3, <2>4, <2>5, <2>6, <3>1, <4>1 DEF ListInv, MissedInv
    <3>5. \A t \in unchecked' : missed'[t] \in {1, 2}
      <4>1. unchecked \subseteq Tasks
        BY DEF Finished, PoolInv, ListInv
      <4> QED
        BY <2>3, <2>5, <2>6, <3>1, <4>1 DEF ListInv, MissedInv
    <3> QED
      BY <3>1, <3>2, <3>3, <3>4, <3>5 DEF MissedInv
  <2>7. CASE Found(w)
    <3>1. /\ j \in mirror /\ missed' = [missed EXCEPT ![j] = 0] /\ ret' = ret \cup {j}
          /\ UNCHANGED <<missing, unchecked>>
      BY <2>5, <2>7 DEF Found, Count
    <3>2. MissedInv'
      BY <2>5, <2>6, <3>1
    <3>3. ret' = Local \cup ((Finished' \cap mirror) \ unchecked)
      BY <2>3, <2>4, <2>5, <3>1 DEF ListInv
    <3>4. missing = {t \in Finished' \ unchecked : t \notin mirror /\ Enforced /\ t \notin Allowed}
      BY <2>3, <3>1 DEF ListInv
    <3> QED
      BY <2>2, <2>3, <2>4, <3>1, <3>2, <3>3, <3>4 DEF ListInv
  <2>8. CASE NotFound(w)
    <3>1. /\ j \notin mirror /\ missed' = [missed EXCEPT ![j] = 2]
          /\ UNCHANGED <<ret, unchecked>>
          /\ missing' = IF Enforced /\ j \notin Allowed THEN missing \cup {j} ELSE missing
      BY <2>5, <2>8 DEF NotFound, Count
    <3>2. MissedInv'
      BY <2>5, <2>6, <3>1
    <3>3. ret = Local \cup ((Finished' \cap mirror) \ unchecked)
      BY <2>3, <2>4, <3>1 DEF ListInv
    <3>4. missing' = {t \in Finished' \ unchecked : t \notin mirror /\ Enforced /\ t \notin Allowed}
      BY <2>3, <2>5, <3>1 DEF ListInv
    <3> QED
      BY <2>2, <2>3, <2>4, <3>1, <3>2, <3>3, <3>4 DEF ListInv
  <2>9. CASE CheckRaises(w)
    <3>1. /\ unchecked' = unchecked \cup {j} /\ UNCHANGED <<ret, missing>>
          /\ missed' = missed \/ missed' = [missed EXCEPT ![j] = 2]
      BY <2>5, <2>9 DEF CheckRaises, Count
    <3>2. \/ missed' = [missed EXCEPT ![j] = 1]
          \/ missed' = [missed EXCEPT ![j] = 2]
      BY <2>5, <3>1
    <3>3. MissedInv'
      <4>1. 1 \in 0..2 /\ 2 \in 0..2 /\ 1 \in {1, 2} /\ 2 \in {1, 2}
        OBVIOUS
      <4> QED
        BY <2>6, <3>1, <3>2, <4>1
    <3>4. ret = Local \cup ((Finished' \cap mirror) \ unchecked')
      BY <2>3, <2>4, <3>1 DEF ListInv
    <3>5. missing = {t \in Finished' \ unchecked' : t \notin mirror /\ Enforced /\ t \notin Allowed}
      BY <2>3, <3>1 DEF ListInv
    <3> QED
      BY <2>2, <2>3, <2>4, <3>1, <3>3, <3>4, <3>5 DEF ListInv
  <2> QED
    BY <1>6, <2>7, <2>8, <2>9
<1>7. CASE UNCHANGED vars
  BY <1>7 DEF vars, PoolInv, ListInv, MissedInv, Finished
<1> QED
  BY <1>1, <1>2, <1>3, <1>4, <1>5, <1>6, <1>7 DEF Next, PoolStep

(* When the pool has been waited for, its jobs are the tasks to look for.  *)
LEMMA InTheEnd ==
  ASSUME Inv, main \in {"joined", "done"}
  PROVE  /\ Finished = (IF Mirrors THEN Tasklist ELSE {})
         /\ unchecked \subseteq Finished /\ mirror \subseteq Tasklist
         /\ ret = Local \cup IF Mirrors THEN mirror \ unchecked ELSE {}
         /\ missing = {t \in Finished \ unchecked : t \notin mirror /\ Enforced /\ t \notin Allowed}
<1>1. Finished = (IF Mirrors THEN Tasklist ELSE {})
  BY DEF Inv, PoolInv, Finished
<1>2. /\ unchecked \subseteq Finished /\ mirror \subseteq Tasklist
      /\ ret = Local \cup ((Finished \cap mirror) \ unchecked)
      /\ missing = {t \in Finished \ unchecked : t \notin mirror /\ Enforced /\ t \notin Allowed}
  BY DEF Inv, ListInv
<1>3. CASE Mirrors
  BY <1>1, <1>2, <1>3
<1>4. CASE ~Mirrors
  BY <1>1, <1>2, <1>4
<1> QED
  BY <1>3, <1>4

LEMMA InvAlways == Spec => []Inv
  BY InvInit, InvStep, PTL DEF Spec

(* Every variable of the call and of its pool keeps its type.              *)
(* (sstate.bbclass:763-869, utils.py:242-299)                              *)
THEOREM TypeCorrect == Spec => []TypeOK
<1>1. Inv => TypeOK
  <2> SUFFICES ASSUME PoolInv, ListInv PROVE TypeOK
    BY DEF Inv
  <2>1. Pool!PoolTypeOK
    BY DEF PoolInv, Pool!PoolTypeOK
  <2>2. Finished \subseteq Tasks /\ unchecked \subseteq Tasklist /\ mirror \subseteq Tasklist
    BY DEF PoolInv, ListInv, Finished, Tasklist
  <2>3. missed \in [Tasks -> 0..2]
    BY DEF ListInv, MissedInv
  <2> QED
    BY <2>1, <2>2, <2>3, ConstantsAssumption DEF ListInv, TypeOK
<1> QED
  BY <1>1, InvAlways, PTL

(* No two threads have the same job, and none has a job that is still in   *)
(* the queue (utils.py:262).                                               *)
THEOREM NoJobTwiceHolds == Spec => []NoJobTwice
<1>1. Inv => NoJobTwice
  BY ConstantsAssumption DEF Inv, PoolInv, NoJobTwice, Tasklist
<1> QED
  BY <1>1, InvAlways, PTL

(* Every task is found or missed at the end, none is both, and found are   *)
(* those that have a package and whose check did not raise                 *)
(* (sstate.bbclass:769-776, 829-836).                                      *)
THEOREM PartitionHolds == Spec => []Partition
<1>1. Inv => Partition
  BY ConstantsAssumption DEF Inv, PoolInv, ListInv, MissedInv, Finished, Partition, Tasklist
<1> QED
  BY <1>1, InvAlways, PTL

(* A call that returns leaves nothing that must have a package and has     *)
(* none, but for tasks whose check raised, which the pool swallows         *)
(* (sstate.bbclass:837-841, 868-869, utils.py:269-272).                    *)
THEOREM EnforcedAlways == Spec => []EnforcedHolds
<1>1. Inv => EnforcedHolds
  BY ConstantsAssumption DEF Inv, PoolInv, ListInv, MissedInv, Finished, EnforcedHolds, Tasklist
<1> QED
  BY <1>1, InvAlways, PTL

(* The threads of sstate_checkhashes give the one answer that HashCheck    *)
(* promises: a step is that answer, a check that breaks, or changes        *)
(* nothing a caller sees.                                                  *)
Seen == <<Local \cup IF Mirrors THEN mirror ELSE {}, unchecked, result,
          IF result = "returned" THEN ret ELSE {}>>

THEOREM ImplementsHashCheck == Spec => Implements
<1>1. Init => Promise!Init
  BY DEF Init, Promise!Init
<1>2. ASSUME Inv, [Next]_vars PROVE [Promise!CheckBreaks \/ Promise!Answer]_Seen
  <2>. USE ConstantsAssumption
  <2>1. CASE Return
    <3>1. /\ result = "none" /\ main = "joined" /\ UNCHANGED <<ret, mirror, unchecked>>
          /\ result' = IF Enforced /\ missing # {} THEN "fatal" ELSE "returned"
      BY <1>2, <2>1 DEF Return, lists, Inv, ListInv
    <3>2. ret = (Local \cup IF Mirrors THEN mirror ELSE {}) \ unchecked
      BY <1>2, <3>1, InTheEnd DEF Tasklist
    <3>3. (Enforced /\ missing # {}) <=>
            ~((IF Enforced /\ Mirrors THEN Tasks \ Allowed ELSE {}) \ unchecked
                \subseteq (Local \cup IF Mirrors THEN mirror ELSE {}))
      <4>1. CASE Enforced /\ Mirrors
        BY <1>2, <3>1, <4>1, InTheEnd DEF Tasklist
      <4>2. CASE ~(Enforced /\ Mirrors)
        BY <1>2, <3>1, <4>2, InTheEnd
      <4> QED
        BY <4>1, <4>2
    <3> QED
      BY <3>1, <3>2, <3>3 DEF Promise!Answer
  <2>2. ASSUME NEW w \in Workers, CheckRaises(w) PROVE Promise!CheckBreaks
    <3>1. /\ running[w] \in Tasklist /\ main \in {"join", "join_workers"}
          /\ UNCHANGED <<mirror, ret, result>> /\ unchecked' = unchecked \cup {running[w]}
      BY <1>2, <2>2 DEF CheckRaises, Pool!Finish, Inv, PoolInv
    <3>2. Mirrors /\ result = "none"
      BY <1>2, <3>1 DEF Inv, PoolInv, ListInv
    <3> QED
      BY <3>1, <3>2 DEF Promise!CheckBreaks
  <2>3. CASE ~Return /\ ~\E w \in Workers : CheckRaises(w)
    <3>1. UNCHANGED <<mirror, unchecked, result>> /\ (result = "none" \/ UNCHANGED ret)
      <4>1. CASE Scan \/ UNCHANGED vars
        BY <1>2, <4>1 DEF Scan, vars, lists, Inv, ListInv
      <4>2. CASE PoolStep /\ UNCHANGED <<mirror, lists, result>>
        BY <4>2 DEF lists
      <4>3. ASSUME NEW w \in Workers, Found(w) \/ NotFound(w)
            PROVE  UNCHANGED <<mirror, unchecked, result>> /\ result = "none"
        BY <1>2, <4>3 DEF Found, NotFound, Pool!Finish, Inv, PoolInv, ListInv
      <4> QED
        BY <1>2, <2>3, <4>1, <4>2, <4>3 DEF Next
    <3> QED
      BY <3>1 DEF Seen
  <2> QED
    BY <2>1, <2>2, <2>3
<1>3. Inv /\ [Next]_vars => [Promise!CheckBreaks \/ Promise!Answer]_Seen
  BY <1>2
<1> QED
  BY <1>1, <1>3, InvAlways, PTL DEF Spec, Implements, Promise!Spec, Seen

-----------------------------------------------------------------------------
(* A call that has not returned can go on: the main thread, or a worker    *)
(* that is somewhere on its way.  The queue has a place for every job, and *)
(* who waits for a job to be done waits for a worker that has it or will   *)
(* take it.                                                                *)
CanGoOn ==
  \/ main \in {"scan", "joined"}
  \/ main = "add" /\ (added = Tasklist \/ Cardinality(queue) < Cardinality(Tasklist))
  \/ main = "join" /\ unfinished = {}
  \/ main = "join_workers" /\ \A w \in Workers : worker[w] \in {"end", "dead"}
  \/ \E w \in Workers : worker[w] \in {"init", "get", "run"}

(* wait_completion, or what comes before it, never waits for what no       *)
(* thread will do (utils.py:254-299).                                      *)
NeverStuck == result = "none" => CanGoOn

(* What is not in the queue is with a worker; a worker ends only when the  *)
(* queue is empty, which it is for good once it has been filled.           *)
WorkInv ==
  /\ Cardinality(Pool!Dead) <= MaxDeaths
  /\ \A j \in unfinished \ queue : \E w \in Workers : worker[w] = "run" /\ running[w] = j
  /\ main \in {"scan", "add"} => queue = added
  /\ \A w \in Workers : worker[w] = "end" => queue = {}
  /\ main \in {"join", "join_workers"} => \A w \in Workers : worker[w] # "new"

(* The pool counts with the same Cardinality.                              *)
LEMMA SameCardinality == \A S : Pool!Cardinality(S) = Cardinality(S)
  BY DEF Pool!Cardinality, Cardinality

LEMMA WorkInit == Init => WorkInv
<1> SUFFICES ASSUME Init PROVE WorkInv
  OBVIOUS
<1>. USE DEF Init, Pool!PoolInit
<1>1. Pool!Dead = {}
  BY DEF Pool!Dead
<1>2. Cardinality(Pool!Dead) <= MaxDeaths
  BY <1>1, FS_EmptySet, ConstantsAssumption
<1> QED
  BY <1>2 DEF WorkInv

LEMMA WorkStep ==
  ASSUME IsFiniteSet(Workers), Inv, WorkInv, [Next]_vars
  PROVE  WorkInv'
<1>. PoolInv
  BY DEF Inv
<1>. USE ConstantsAssumption
<1>. DEFINE Deaths == Cardinality(Pool!Dead) <= MaxDeaths
            Held   == \A j \in unfinished \ queue :
                        \E w \in Workers : worker[w] = "run" /\ running[w] = j
            Rest   == /\ main \in {"scan", "add"} => queue = added
                      /\ \A w \in Workers : worker[w] = "end" => queue = {}
                      /\ main \in {"join", "join_workers"} =>
                           \A w \in Workers : worker[w] # "new"
<1>0. WorkInv <=> Deaths /\ Held /\ Rest
  BY DEF WorkInv
<1>0a. WorkInv' <=> Deaths' /\ Held' /\ Rest'
  BY DEF WorkInv
<1>1. CASE Scan \/ Return \/ UNCHANGED vars
  <2>1. UNCHANGED <<added, queue, unfinished, worker, running>>
        /\ (main' = main \/ (main' = "add" /\ main = "scan") \/ main' \in {"joined", "done"})
    BY <1>1 DEF Scan, Return, vars, pool
  <2>2. Deaths' /\ Held' /\ Rest'
    BY <2>1, <1>0 DEF Pool!Dead
  <2> QED
    BY <2>2, <1>0a
<1>2. ASSUME NEW t \in Tasks, Pool!AddTask(t) PROVE WorkInv'
  <2>1. main = "add" /\ UNCHANGED <<main, worker, running>>
        /\ added' = added \cup {t} /\ queue' = queue \cup {t} /\ unfinished' = unfinished \cup {t}
    BY <1>2 DEF Pool!AddTask
  <2>2. \A w \in Workers : worker[w] = "new"
    BY <2>1 DEF PoolInv
  <2>3. Deaths' /\ Held' /\ Rest'
    BY <2>1, <2>2, <1>0 DEF Pool!Dead
  <2> QED
    BY <2>3, <1>0a
<1>3. CASE Pool!Start
  <2>1. main = "add" /\ main' = "join" /\ worker' = [w \in Workers |-> "init"]
        /\ UNCHANGED <<added, queue, unfinished, running>>
    BY <1>3 DEF Pool!Start
  <2>2. unfinished \subseteq queue
    BY <2>1, <1>0 DEF PoolInv
  <2>3. Pool!Dead' = {}
    BY <2>1 DEF Pool!Dead
  <2>4. Deaths'
    BY <2>3, FS_EmptySet
  <2>5. Held' /\ Rest'
    BY <2>1, <2>2
  <2> QED
    BY <2>4, <2>5, <1>0a
<1>4. CASE Pool!Join \/ Pool!JoinWorkers
  <2>1. UNCHANGED <<added, queue, unfinished, worker, running>>
        /\ main \in {"join", "join_workers"} /\ main' \in {"join_workers", "joined"}
    BY <1>4 DEF Pool!Join, Pool!JoinWorkers
  <2>2. Deaths' /\ Held' /\ Rest'
    BY <2>1, <1>0 DEF Pool!Dead
  <2> QED
    BY <2>2, <1>0a
<1>5. ASSUME NEW w \in Workers, Pool!WorkerInit(w) PROVE WorkInv'
  <2>1. worker[w] = "init" /\ UNCHANGED <<added, queue, unfinished, main, running>>
        /\ (worker' = [worker EXCEPT ![w] = "get"]
             \/ (Cardinality(Pool!Dead) < MaxDeaths /\ worker' = [worker EXCEPT ![w] = "dead"]))
    BY <1>5, SameCardinality DEF Pool!WorkerInit
  <2>2. Held' /\ Rest'
    BY <2>1, <1>0 DEF PoolInv
  <2>3. CASE worker' = [worker EXCEPT ![w] = "get"]
    <3>1. Pool!Dead' = Pool!Dead
      BY <2>1, <2>3 DEF Pool!Dead, PoolInv
    <3> QED
      BY <2>2, <3>1, <1>0, <1>0a
  <2>4. CASE Cardinality(Pool!Dead) < MaxDeaths /\ worker' = [worker EXCEPT ![w] = "dead"]
    <3>1. Pool!Dead' = Pool!Dead \cup {w} /\ w \notin Pool!Dead
      BY <2>1, <2>4 DEF Pool!Dead, PoolInv
    <3>2. IsFiniteSet(Pool!Dead)
      BY FS_Subset DEF Pool!Dead
    <3>3. Cardinality(Pool!Dead') = Cardinality(Pool!Dead) + 1 /\ Cardinality(Pool!Dead) \in Nat
      BY <3>1, <3>2, FS_AddElement, FS_CardinalityType
    <3>4. Deaths'
      BY <2>4, <3>3
    <3> QED
      BY <2>2, <3>4, <1>0a
  <2> QED
    BY <2>1, <2>3, <2>4
<1>6. ASSUME NEW w \in Workers, Pool!Get(w) PROVE WorkInv'
  <2>1. worker[w] = "get" /\ UNCHANGED <<added, unfinished, main>> /\ main \notin {"scan", "add"}
    BY <1>6 DEF Pool!Get, PoolInv
  <2>2. Pool!Dead' = Pool!Dead
    BY <1>6 DEF Pool!Get, Pool!Dead, PoolInv
  <2>3. CASE queue = {}
    <3>1. worker' = [worker EXCEPT ![w] = "end"] /\ UNCHANGED <<running, queue>>
      BY <1>6, <2>3 DEF Pool!Get
    <3>2. Held' /\ Rest'
      BY <2>1, <2>3, <3>1, <1>0 DEF PoolInv
    <3> QED
      BY <2>2, <3>2, <1>0, <1>0a
  <2>4. CASE queue # {}
    <3>1. PICK j \in queue : /\ queue' = queue \ {j}
                             /\ worker' = [worker EXCEPT ![w] = "run"]
                             /\ running' = [running EXCEPT ![w] = j]
      BY <1>6, <2>4 DEF Pool!Get
    <3>2. Held'
      <4> SUFFICES ASSUME NEW k \in unfinished \ queue'
                   PROVE  \E v \in Workers : worker'[v] = "run" /\ running'[v] = k
        BY <2>1
      <4>1. CASE k = j
        BY <3>1, <4>1 DEF PoolInv
      <4>2. CASE k # j
        BY <2>1, <3>1, <4>2, <1>0 DEF PoolInv
      <4> QED
        BY <4>1, <4>2
    <3>3. Rest'
      BY <2>1, <2>4, <3>1, <1>0 DEF PoolInv
    <3> QED
      BY <2>2, <3>2, <3>3, <1>0, <1>0a
  <2> QED
    BY <2>3, <2>4
<1>7. ASSUME NEW w \in Workers, Found(w) \/ NotFound(w) \/ CheckRaises(w) PROVE WorkInv'
  <2>1. worker[w] = "run" /\ worker' = [worker EXCEPT ![w] = "get"]
        /\ running' = [running EXCEPT ![w] = NoTask]
        /\ unfinished' = unfinished \ {running[w]} /\ UNCHANGED <<added, queue, main>>
    BY <1>7 DEF Found, NotFound, CheckRaises, Pool!Finish
  <2>2. Pool!Dead' = Pool!Dead
    BY <2>1 DEF Pool!Dead, PoolInv
  <2>3. Held'
    BY <2>1, <1>0 DEF PoolInv
  <2>4. Rest'
    BY <2>1, <1>0 DEF PoolInv
  <2> QED
    BY <2>2, <2>3, <2>4, <1>0, <1>0a
<1> QED
  BY <1>1, <1>2, <1>3, <1>4, <1>5, <1>6, <1>7 DEF Next, PoolStep

(* wait_completion does not wait for ever for want of a worker: until      *)
(* sstate_checkhashes has its answer there is a thread whose next step is  *)
(* open, provided that one worker gets through worker_init                 *)
(* (utils.py:254-299).                                                     *)
THEOREM NeverStuckHolds ==
  ASSUME IsFiniteSet(Workers), MaxDeaths < Cardinality(Workers)
  PROVE  Spec => []NeverStuck
<1>1. Inv /\ WorkInv /\ [Next]_vars => WorkInv'
  BY WorkStep
<1>2. Inv /\ WorkInv => NeverStuck
  <2> SUFFICES ASSUME Inv, WorkInv, result = "none", ~CanGoOn PROVE FALSE
    BY DEF NeverStuck
  <2>. PoolInv /\ main # "done"
    BY DEF Inv, ListInv
  <2>1. CASE main = "add"
    <3>1. queue \subseteq Tasklist /\ queue # Tasklist /\ IsFiniteSet(Tasklist)
      BY <2>1, FS_Subset, ConstantsAssumption DEF CanGoOn, WorkInv, PoolInv, Tasklist
    <3>2. Cardinality(queue) < Cardinality(Tasklist)
      BY <3>1, FS_Subset, FS_CardinalityType
    <3> QED
      BY <2>1, <3>2 DEF CanGoOn
  <2>2. CASE main \in {"join", "join_workers"}
    <3>1. \A w \in Workers : worker[w] \in {"end", "dead"}
      BY <2>2 DEF CanGoOn, PoolInv, WorkInv
    <3>2. \E w \in Workers : worker[w] # "dead"
      <4> SUFFICES ASSUME \A w \in Workers : worker[w] = "dead" PROVE FALSE
        OBVIOUS
      <4>1. Pool!Dead = Workers
        BY DEF Pool!Dead
      <4>2. Cardinality(Workers) \in Nat
        BY FS_CardinalityType
      <4> QED
        BY <4>1, <4>2, ConstantsAssumption DEF WorkInv
    <3>3. queue = {} /\ unfinished = {}
      BY <3>1, <3>2 DEF WorkInv
    <3> QED
      BY <2>2, <3>1, <3>3 DEF CanGoOn
  <2> QED
    BY <2>1, <2>2 DEF PoolInv, CanGoOn
<1> QED
  BY <1>1, <1>2, WorkInit, InvAlways, PTL DEF Spec
=============================================================================
