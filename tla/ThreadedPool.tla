---------------------------- MODULE ThreadedPool ----------------------------
(***************************************************************************)
(* ThreadedPool and ThreadedWorker of meta/lib/oe/utils.py: a queue that   *)
(* the main thread fills before it starts the workers.  A worker ends when *)
(* it finds the queue empty; wait_completion joins the queue, then every   *)
(* worker.  What a task does is for the module that uses the pool to say:  *)
(* it conjoins it to Finish.                                               *)
(***************************************************************************)
EXTENDS Naturals, FiniteSets

CONSTANTS Jobs,        \* the calls to add_task
          Workers,     \* num_workers threads
          NumTasks,    \* num_tasks, the size of the queue
          MaxDeaths,   \* bound: workers whose worker_init raises
          NoJob

VARIABLES
  added,       \* jobs put in the queue so far
  queue,       \* jobs in it (the order makes no difference here)
  unfinished,  \* jobs put and not yet task_done: what Queue.join waits for
  main,        \* the main thread
  worker,      \* the state of each thread
  running      \* the job a worker has taken

pool == <<added, queue, unfinished, main, worker, running>>

PoolTypeOK ==
  /\ added \subseteq Jobs /\ queue \subseteq Jobs /\ unfinished \subseteq Jobs
  /\ main \in {"scan", "add", "join", "join_workers", "joined", "done"}
  /\ worker \in [Workers -> {"new", "init", "get", "run", "end", "dead"}]
  /\ running \in [Workers -> Jobs \cup {NoJob}]

PoolInit(first) ==
  /\ added = {} /\ queue = {} /\ unfinished = {} /\ main = first
  /\ worker = [w \in Workers |-> "new"]
  /\ running = [w \in Workers |-> NoJob]

-----------------------------------------------------------------------------
(* add_task: Queue.put blocks while the queue is full.                     *)
AddTask(j) ==
  /\ main = "add" /\ j \in Jobs \ added /\ Cardinality(queue) < NumTasks
  /\ added' = added \cup {j}
  /\ queue' = queue \cup {j} /\ unfinished' = unfinished \cup {j}
  /\ UNCHANGED <<main, worker, running>>

StartNoWait ==   \* mistake: the caller does not wait for completion
  /\ main = "add" /\ added = Jobs
  /\ main' = "joined"
  /\ worker' = [w \in Workers |-> "init"]
  /\ UNCHANGED <<added, queue, unfinished, running>>

Start ==
  /\ main = "add" /\ added = Jobs
  /\ main' = "join"
  /\ worker' = [w \in Workers |-> "init"]
  /\ UNCHANGED <<added, queue, unfinished, running>>

Join ==
  /\ main = "join" /\ unfinished = {} /\ main' = "join_workers"
  /\ UNCHANGED <<added, queue, unfinished, worker, running>>

JoinWorkers ==
  /\ main = "join_workers" /\ \A w \in Workers : worker[w] \in {"end", "dead"}
  /\ main' = "joined"
  /\ UNCHANGED <<added, queue, unfinished, worker, running>>

-----------------------------------------------------------------------------
Dead == {w \in Workers : worker[w] = "dead"}

(* An exception of worker_init ends the thread before it takes any job.    *)
WorkerInit(w) ==
  /\ worker[w] = "init"
  /\ \/ worker' = [worker EXCEPT ![w] = "get"]
     \/ /\ Cardinality(Dead) < MaxDeaths
        /\ worker' = [worker EXCEPT ![w] = "dead"]
  /\ UNCHANGED <<added, queue, unfinished, main, running>>

(* Two threads never get the same job: Queue.get is atomic.                *)
GetPeek(w) ==   \* mistake: the job is read and not taken
  /\ worker[w] = "get"
  /\ IF queue = {}
     THEN worker' = [worker EXCEPT ![w] = "end"] /\ UNCHANGED running
     ELSE \E j \in queue : /\ worker' = [worker EXCEPT ![w] = "run"]
                           /\ running' = [running EXCEPT ![w] = j]
  /\ UNCHANGED <<added, queue, unfinished, main>>

Get(w) ==
  /\ worker[w] = "get"
  /\ IF queue = {}
     THEN worker' = [worker EXCEPT ![w] = "end"] /\ UNCHANGED <<running, queue>>
     ELSE \E j \in queue : /\ queue' = queue \ {j}
                           /\ worker' = [worker EXCEPT ![w] = "run"]
                           /\ running' = [running EXCEPT ![w] = j]
  /\ UNCHANGED <<added, unfinished, main>>

FinishOnce(w) ==   \* mistake: an exception skips task_done
  /\ worker[w] = "run" /\ worker' = [worker EXCEPT ![w] = "get"]
  /\ running' = [running EXCEPT ![w] = NoJob]
  /\ UNCHANGED <<added, queue, unfinished, main>>

(* The function returned or raised: task_done either way.                  *)
Finish(w) ==
  /\ worker[w] = "run" /\ worker' = [worker EXCEPT ![w] = "get"]
  /\ running' = [running EXCEPT ![w] = NoJob]
  /\ unfinished' = unfinished \ {running[w]}
  /\ UNCHANGED <<added, queue, main>>
=============================================================================
