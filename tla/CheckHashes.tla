---------------------------- MODULE CheckHashes ----------------------------
(***************************************************************************)
(* sstate_checkhashes of meta/classes/sstate.bbclass, BitBake's            *)
(* BB_HASHCHECK_FUNCTION: for which tasks is there a package?  The main    *)
(* thread looks in SSTATE_DIR; the rest are looked for on the mirrors, by  *)
(* the threads of a ThreadedPool, which all change the same three lists.   *)
(***************************************************************************)
EXTENDS Naturals, FiniteSets

CONSTANTS Tasks,
          Local,       \* tasks whose package is in SSTATE_DIR
          Mirrors,     \* SSTATE_MIRRORS is set
          Enforced,    \* BB_SETSCENE_ENFORCE_WHITELIST is in force
          Allowed,     \* tasks that list lets run
          Workers, MaxDeaths, NoTask

ASSUME ConstantsAssumption ==
  /\ Local \subseteq Tasks /\ Allowed \subseteq Tasks
  /\ Mirrors \in BOOLEAN /\ Enforced \in BOOLEAN
  /\ NoTask \notin Tasks /\ MaxDeaths \in Nat
  /\ IsFiniteSet(Tasks)

Tasklist == Tasks \ Local

VARIABLES added, queue, unfinished, main, worker, running,
          mirror,    \* tasks whose package checkstatus finds on a mirror
          ret,       \* tasks found (a list without repetition)
          missed,    \* missed[t]: how often t is in the list
          missing,   \* tasks that may not run and have no package
          unchecked, \* tasks whose check raised, which the pool swallows (history)
          result     \* "none", "fatal" or "returned"

pool == <<added, queue, unfinished, main, worker, running>>
lists == <<ret, missed, missing, unchecked>>
vars == <<pool, mirror, lists, result>>

Pool == INSTANCE ThreadedPool
          WITH Jobs <- Tasklist, NumTasks <- Cardinality(Tasklist), NoJob <- NoTask

TypeOK ==
  /\ Pool!PoolTypeOK
  /\ ret \subseteq Tasks /\ missed \in [Tasks -> 0..2] /\ missing \subseteq Tasks
  /\ result \in {"none", "fatal", "returned"} /\ mirror \subseteq Tasklist
  /\ unchecked \subseteq Tasklist

Init ==
  /\ Pool!PoolInit("scan")
  /\ ret = {} /\ missed = [t \in Tasks |-> 0] /\ missing = {}
  /\ unchecked = {} /\ result = "none"
  /\ mirror \in SUBSET Tasklist

-----------------------------------------------------------------------------
(* The first loop, and whether there is anything to ask the mirrors.       *)
Scan ==
  /\ main = "scan"
  /\ ret' = Local
  /\ missed' = [t \in Tasks |-> IF t \in Local THEN 0 ELSE 1]
  /\ main' = IF Mirrors /\ Tasklist # {} THEN "add" ELSE "joined"
  /\ UNCHANGED <<added, queue, unfinished, worker, running, mirror, missing, unchecked, result>>

Count(n, t) == [missed EXCEPT ![t] = n]

FoundStaysMissed(w) ==   \* mistake: a task found is not taken from missed
  /\ running[w] \in mirror /\ Pool!Finish(w)
  /\ ret' = ret \cup {running[w]}
  /\ UNCHANGED <<mirror, missed, missing, unchecked, result>>

(* checkstatus succeeds.                                                   *)
Found(w) ==
  /\ running[w] \in mirror /\ Pool!Finish(w)
  /\ ret' = ret \cup {running[w]}
  /\ missed' = IF missed[running[w]] > 0
               THEN Count(missed[running[w]] - 1, running[w]) ELSE missed
  /\ UNCHANGED <<mirror, missing, unchecked, result>>

NotFoundUnchecked(w) ==   \* mistake: the list of allowed tasks is not looked at
  /\ running[w] \notin mirror /\ Pool!Finish(w)
  /\ missed' = Count(missed[running[w]] + 1, running[w])
  /\ UNCHANGED <<mirror, ret, missing, unchecked, result>>

(* The fetcher raises: missed gets the task a second time.                 *)
NotFound(w) ==
  /\ running[w] \notin mirror /\ Pool!Finish(w)
  /\ missed' = Count(missed[running[w]] + 1, running[w])
  /\ missing' = IF Enforced /\ running[w] \notin Allowed
                THEN missing \cup {running[w]} ELSE missing
  /\ UNCHANGED <<mirror, ret, unchecked, result>>

(* checkstatus itself raises, and ThreadedWorker prints that and goes on:  *)
(* before its try, or in the handler, between missed and missing, where    *)
(* PN is read from the file name and the list of allowed tasks is asked.   *)
CheckRaises(w) ==
  /\ Pool!Finish(w) /\ unchecked' = unchecked \cup {running[w]}
  /\ \/ UNCHANGED missed
     \/ /\ running[w] \notin mirror /\ Enforced
        /\ missed' = Count(missed[running[w]] + 1, running[w])
  /\ UNCHANGED <<mirror, ret, missing, result>>

(* After the pool: fatal if something may not run.                         *)
Return ==
  /\ main = "joined" /\ main' = "done"
  /\ result' = IF Enforced /\ missing # {} THEN "fatal" ELSE "returned"
  /\ UNCHANGED <<added, queue, unfinished, worker, running, mirror, lists>>

PoolStep == \/ \E t \in Tasks : Pool!AddTask(t)
            \/ Pool!Start \/ Pool!Join \/ Pool!JoinWorkers
            \/ \E w \in Workers : Pool!WorkerInit(w) \/ Pool!Get(w)

Next == \/ Scan \/ Return
        \/ PoolStep /\ UNCHANGED <<mirror, lists, result>>
        \/ \E w \in Workers : Found(w) \/ NotFound(w) \/ CheckRaises(w)

Spec == Init /\ [][Next]_vars

(* The operating system runs every thread that can run.                    *)
FairSpec == Spec /\ WF_vars(Next)

-----------------------------------------------------------------------------
(* In the end every task is found or missed, and none is both, whatever    *)
(* the threads' order: no update of the shared lists is lost.  Found are   *)
(* those that have a package, but for those whose check raised             *)
(* (sstate.bbclass:769-776, 829-836).                                      *)
Partition == result = "returned" =>
               /\ ret = {t \in Tasks : missed[t] = 0}
               /\ ret = Local \cup IF Mirrors THEN mirror \ unchecked ELSE {}

(* A call that returns has no task without a package that may not run, if  *)
(* the mirrors were asked and the check of that task did not raise         *)
(* (sstate.bbclass:837-841, 868-869, utils.py:269-272).                    *)
EnforcedHolds == result = "returned" /\ Enforced /\ Mirrors => Tasks \ ret \subseteq Allowed \cup unchecked

(* A worker's job is in no other worker's hands and not in the queue       *)
(* (utils.py:262).                                                         *)
NoJobTwice == \A w \in Workers : worker[w] = "run" =>
                /\ running[w] \in unfinished \ queue
                /\ \A v \in Workers \ {w} : running[v] # running[w]

(* wait_completion returns: provided that one worker gets through          *)
(* worker_init (utils.py:257-274, 294-299).                                *)
Returns == <>(result # "none")

(* What a caller sees: one answer, the packages in SSTATE_DIR and on the   *)
(* mirrors, less those on a mirror whose check raised.                     *)
Promise == INSTANCE HashCheck
             WITH Checked <- IF Mirrors THEN Tasklist ELSE {},
                  available <- Local \cup IF Mirrors THEN mirror ELSE {},
                  Required <- IF Enforced /\ Mirrors THEN Tasks \ Allowed ELSE {},
                  found <- IF result = "returned" THEN ret ELSE {}
Implements == Promise!Spec
=============================================================================
