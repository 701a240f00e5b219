-------------------------- MODULE LockedSigsProofs --------------------------
(* What locking promises, for any tasks, dependencies, filter and settings *)
(* and any order in which BitBake computes the hashes.                     *)
EXTENDS LockedSigs, TLAPS

(* A task is hashed after what it depends on; its hash is that of its      *)
(* metadata unless a message says otherwise.                               *)
HashInv ==
  /\ DOMAIN taskhash = Tasks /\ DOMAIN lockedsigs = Tasks
  /\ run \in {1, 2} /\ (run = 1 => LockedTasks = {})
  /\ Unlocked \subseteq unlocked
  /\ \A t \in Hashed : Deps[t] \subseteq Hashed
  /\ \A t \in Hashed : taskhash[t] = Computed(t) \/ (t \in mismatch /\ t \in LockedTasks)
  /\ RunsUnlocked
  /\ phase = "build" => Hashed = Tasks /\ (TasksigCheck = "error" => mismatch = {})

(* A new hash does not change what the hashes of other tasks are made of.  *)
LEMMA ComputedStays ==
  ASSUME HashInv, NEW t \in Tasks, GetTaskhash(t)
  PROVE  /\ Computed(t)' = Computed(t)
         /\ \A s \in Hashed : Computed(s)' = Computed(s) /\ taskhash'[s] = taskhash[s]
         /\ Hashed \subseteq Hashed' /\ Hashed' \subseteq Hashed \cup {t}
         /\ DOMAIN taskhash' = Tasks
<1>1. \A s \in Tasks \ {t} : taskhash'[s] = taskhash[s]
  BY DEF GetTaskhash, HashInv
<1>2. t \notin Hashed /\ Deps[t] \subseteq Hashed /\ UNCHANGED <<run, changed>> /\ DOMAIN taskhash' = Tasks
  BY DEF GetTaskhash, HashInv
<1>3. ASSUME NEW s \in Hashed \cup {t} PROVE Computed(s)' = Computed(s)
  <2>1. \A u \in Kept(s) : u \in Tasks \ {t}
    BY <1>2 DEF Kept, HashInv, Hashed
  <2>2. [u \in Kept(s) |-> taskhash'[u]] = [u \in Kept(s) |-> taskhash[u]]
    BY <1>1, <2>1
  <2> QED
    BY <1>2, <2>2 DEF Computed, Digest, Kept
<1> QED
  BY <1>1, <1>2, <1>3 DEF Hashed

LEMMA HashInvInit == Init => HashInv
  BY DEF Init, HashInv, Hashed, LockedTasks, RunsUnlocked

LEMMA HashInvStep == HashInv /\ [Next]_vars => HashInv'
<1> SUFFICES ASSUME HashInv, [Next]_vars PROVE HashInv'
  OBVIOUS
<1>1. ASSUME NEW t \in Tasks, GetTaskhash(t) PROVE HashInv'
  <2>1. /\ Computed(t)' = Computed(t)
        /\ \A s \in Hashed : Computed(s)' = Computed(s) /\ taskhash'[s] = taskhash[s]
        /\ Hashed \subseteq Hashed' /\ Hashed' \subseteq Hashed \cup {t}
        /\ DOMAIN taskhash' = Tasks
    BY <1>1, ComputedStays
  <2>2. UNCHANGED <<run, phase, lockedsigs>> /\ phase = "hash" /\ Deps[t] \subseteq Hashed
        /\ LockedTasks' = LockedTasks /\ unlocked \subseteq unlocked' /\ mismatch \subseteq mismatch'
    BY <1>1 DEF GetTaskhash, LockedTasks
  <2>3. \/ taskhash'[t] = Computed(t)
        \/ t \in mismatch' /\ t \in LockedTasks /\ Recipe[t] \notin unlocked' /\ ~ DependsOnUnlocked(t)
    BY <1>1 DEF GetTaskhash, HashInv, Mismatches, Choose
  <2>4. RunsUnlocked'
    <3> SUFFICES ASSUME NEW s \in Hashed',
                        Recipe[s] \in Unlocked \/ \E u \in Deps[s] : Recipe[u] \in Unlocked
                 PROVE  taskhash'[s] = Computed(s)'
      BY DEF RunsUnlocked
    <3>1. CASE s \in Hashed
      BY <2>1, <3>1 DEF HashInv, RunsUnlocked
    <3>2. CASE s = t
      BY <2>1, <2>2, <2>3, <3>2 DEF HashInv, DependsOnUnlocked
    <3> QED
      BY <2>1, <3>1, <3>2
  <2> QED
    BY <2>1, <2>2, <2>3, <2>4 DEF HashInv
<1>2. CASE Checkhashes
  BY <1>2 DEF Checkhashes, HashInv, Hashed, LockedTasks, RunsUnlocked, Computed, Digest
<1>3. CASE NextInvocation
  <2>1. Hashed' = {} /\ DOMAIN taskhash' = Tasks /\ DOMAIN lockedsigs' = Tasks
    BY <1>3 DEF NextInvocation, Hashed, Dump
  <2> QED
    BY <1>3, <2>1 DEF NextInvocation, HashInv, RunsUnlocked
<1>4. CASE UNCHANGED vars
  BY <1>4 DEF vars, HashInv, Hashed, LockedTasks, RunsUnlocked, Computed, Digest
<1> QED
  BY <1>1, <1>2, <1>3, <1>4 DEF Next

LEMMA HashInvAlways == Spec => []HashInv
  BY HashInvInit, HashInvStep, PTL DEF Spec

(* Only tasks that the filter takes are locked, only locked tasks have a   *)
(* message, and every variable keeps its type (sstatesig.py:145-178,       *)
(* 203-211).                                                               *)
THEOREM TypeCorrect == Spec => []TypeOK
<1>1. Init => TypeOK
  BY DEF Init, TypeOK, LockedTasks
<1>2. TypeOK /\ [Next]_vars => TypeOK'
  <2> SUFFICES ASSUME TypeOK, [Next]_vars PROVE TypeOK'
    OBVIOUS
  <2>1. ASSUME NEW t \in Tasks, GetTaskhash(t) PROVE TypeOK'
    <3>1. unlocked' \subseteq unlocked \cup {Recipe[t]} /\ Recipe[t] \in Recipes
      BY <2>1 DEF GetTaskhash, Recipes
    <3>2. mismatch' \subseteq mismatch \cup LockedTasks /\ LockedTasks' = LockedTasks
          /\ DOMAIN taskhash' = Tasks
      BY <2>1 DEF GetTaskhash, TypeOK, LockedTasks
    <3> QED
      BY <2>1, <3>1, <3>2 DEF GetTaskhash, TypeOK
  <2>2. CASE Checkhashes
    BY <2>2 DEF Checkhashes, TypeOK, LockedTasks
  <2>3. CASE NextInvocation
    <3>1. LockedTasks' \subseteq Filter /\ DOMAIN lockedsigs' = Tasks /\ DOMAIN taskhash' = Tasks
      BY <2>3 DEF NextInvocation, LockedTasks, Dump
    <3> QED
      BY <2>3, <3>1 DEF NextInvocation, TypeOK
  <2>4. CASE UNCHANGED vars
    BY <2>4 DEF vars, TypeOK, LockedTasks
  <2> QED
    BY <2>1, <2>2, <2>3, <2>4 DEF Next
<1> QED
  BY <1>1, <1>2, PTL DEF Spec

(* An unlocked task, or one with a direct dependency on an unlocked        *)
(* recipe, runs with the hash of its metadata (sstatesig.py:146-162).      *)
THEOREM RunsUnlockedHolds == Spec => []RunsUnlocked
<1>1. HashInv => RunsUnlocked
  BY DEF HashInv
<1> QED
  BY <1>1, HashInvAlways, PTL

(* With the check on "error" a build runs with the hashes of its metadata  *)
(* only (sstatesig.py:172-174, 229-231).                                   *)
THEOREM NoSilentMismatchHolds == Spec => []NoSilentMismatch
<1>1. HashInv => NoSilentMismatch
  BY DEF HashInv, NoSilentMismatch
<1> QED
  BY <1>1, HashInvAlways, PTL

-----------------------------------------------------------------------------
(* Unlocking spreads along dependencies only.                              *)
SpreadInv ==
  \A U \in SUBSET (Recipes \cup Unlocked) : Unlocked \subseteq U /\ Closed(U) =>
    /\ unlocked \subseteq U
    /\ \A t \in LockedTasks \cap Hashed : Recipe[t] \notin U => taskhash[t] = lockedsigs[t][1]

LEMMA SpreadStep == HashInv /\ SpreadInv /\ [Next]_vars => SpreadInv'
<1> SUFFICES ASSUME HashInv, SpreadInv, [Next]_vars,
                    NEW U \in SUBSET (Recipes \cup Unlocked), Unlocked \subseteq U, Closed(U)
             PROVE  /\ unlocked' \subseteq U
                    /\ \A t \in (LockedTasks \cap Hashed)' : Recipe[t] \notin U => taskhash'[t] = lockedsigs'[t][1]
  BY DEF SpreadInv, Closed
<1>1. unlocked \subseteq U
      /\ \A t \in LockedTasks \cap Hashed : Recipe[t] \notin U => taskhash[t] = lockedsigs[t][1]
  BY DEF SpreadInv
<1>2. ASSUME NEW t \in Tasks, GetTaskhash(t)
      PROVE  /\ unlocked' \subseteq U
             /\ \A s \in (LockedTasks \cap Hashed)' : Recipe[s] \notin U => taskhash'[s] = lockedsigs'[s][1]
  <2>1. DependsOnUnlocked(t) => Recipe[t] \in U
    BY <1>1 DEF DependsOnUnlocked, Closed
  <2>2. unlocked' \subseteq U
    BY <1>1, <1>2, <2>1 DEF GetTaskhash
  <2>3. t \in LockedTasks /\ Recipe[t] \notin U => taskhash'[t] = lockedsigs[t][1]
    BY <1>2, <2>2 DEF GetTaskhash, Choose, HashInv
  <2>4. lockedsigs' = lockedsigs /\ LockedTasks' = LockedTasks
    BY <1>2 DEF GetTaskhash, LockedTasks
  <2> QED
    BY <1>1, <1>2, <2>2, <2>3, <2>4, ComputedStays
<1>3. CASE Checkhashes \/ UNCHANGED vars
  BY <1>1, <1>3 DEF Checkhashes, vars, LockedTasks, Hashed
<1>4. CASE NextInvocation
  <2>1. Hashed' = {}
    BY <1>4 DEF NextInvocation, Hashed
  <2> QED
    BY <1>4, <2>1 DEF NextInvocation
<1> QED
  BY <1>2, <1>3, <1>4 DEF Next

(* A locked task keeps its hash unless its recipe depends, in any number   *)
(* of steps, on one to be unlocked (sstatesig.py:145-178).                 *)
THEOREM StaysLockedHolds == Spec => []StaysLocked
<1>1. Init => SpreadInv
  BY DEF Init, SpreadInv, Hashed
<1>2. SpreadInv => StaysLocked
  BY DEF SpreadInv, StaysLocked
<1> QED
  BY <1>1, <1>2, SpreadStep, HashInvAlways, PTL DEF Spec

-----------------------------------------------------------------------------
(* The hashes of the first invocation: f is the hash of every task as the  *)
(* metadata then was.                                                      *)
First(f) ==
  /\ \A t \in Tasks : f[t] = Digest(t, FALSE, f)
  /\ \A t \in LockedTasks : lockedsigs[t][1] = f[t]
  /\ changed = {} => mismatch = {} /\ \A t \in Hashed : taskhash[t] = f[t]

FirstInv ==
  /\ run = 1 => mismatch = {}
  /\ run = 2 => \E f : First(f)

LEMMA FirstStep == HashInv /\ FirstInv /\ [Next]_vars => FirstInv'
<1> SUFFICES ASSUME HashInv, FirstInv, [Next]_vars PROVE FirstInv'
  OBVIOUS
<1>1. ASSUME NEW t \in Tasks, GetTaskhash(t), run = 1 PROVE FirstInv'
  BY <1>1 DEF GetTaskhash, FirstInv, HashInv
<1>2. ASSUME NEW t \in Tasks, GetTaskhash(t), run # 1 PROVE FirstInv'
  <2>1. PICK f : First(f)
    BY <1>2 DEF FirstInv, HashInv
  <2>2. run' = 2 /\ LockedTasks' = LockedTasks /\ UNCHANGED <<lockedsigs, changed>>
        /\ Deps[t] \subseteq Hashed /\ run = 2
    BY <1>2 DEF GetTaskhash, LockedTasks, HashInv
  <2>3. changed = {} => Computed(t) = f[t]
    <3> HAVE changed = {}
    <3>1. \A u \in Kept(t) : taskhash[u] = f[u]
      BY <2>1, <2>2 DEF Kept, First
    <3>2. [u \in Kept(t) |-> taskhash[u]] = [u \in Kept(t) |-> f[u]]
      BY <3>1
    <3> QED
      BY <2>1, <3>2 DEF Computed, Digest, First
  <2>4. changed = {} => mismatch' = {} /\ taskhash'[t] = f[t]
    BY <1>2, <2>1, <2>3 DEF GetTaskhash, Choose, Mismatches, First, HashInv
  <2>5. changed = {} => \A s \in Hashed' : taskhash'[s] = f[s]
    BY <1>2, <2>1, <2>4, ComputedStays DEF First
  <2>6. \A s \in Tasks : f[s] = Digest(s, FALSE, f)
    BY <2>1 DEF First, Hashed
  <2>7. First(f)'
    BY <2>1, <2>2, <2>4, <2>5, <2>6 DEF First
  <2> QED
    BY <2>2, <2>7 DEF FirstInv
<1>3. CASE Checkhashes \/ UNCHANGED vars
  <2>1. UNCHANGED <<run, changed, taskhash, lockedsigs, mismatch>>
    BY <1>3 DEF Checkhashes, vars
  <2> QED
    BY <2>1 DEF FirstInv, First, Hashed, LockedTasks
<1>4. CASE NextInvocation
  <2>1. run = 1 /\ Hashed = Tasks /\ mismatch = {} /\ LockedTasks = {}
    BY <1>4 DEF NextInvocation, HashInv, FirstInv
  <2>2. ASSUME NEW t \in Tasks PROVE taskhash[t] = Digest(t, FALSE, taskhash)
    <3>1. taskhash[t] = Digest(t, run = 2 /\ t \in changed, taskhash)
      BY <2>1 DEF HashInv, Computed
    <3>2. (run = 2 /\ t \in changed) = FALSE
      BY <2>1
    <3> QED
      BY <3>1, <3>2
  <2>3. Hashed' = {} /\ mismatch' = {} /\ run' = 2
    BY <1>4 DEF NextInvocation, Hashed
  <2>4. \A t \in LockedTasks' : lockedsigs'[t][1] = taskhash[t]
    BY <1>4 DEF NextInvocation, LockedTasks, Dump
  <2>5. \E f : First(f)'
    <3> DEFINE old == taskhash
    <3>1. \A t \in Tasks : old[t] = Digest(t, FALSE, old)
      BY <2>2, <2>3
    <3>2. changed' = {} => mismatch' = {} /\ \A t \in Hashed' : taskhash'[t] = old[t]
      BY <2>3
    <3> HIDE DEF old
    <3> SUFFICES \E f : /\ \A t \in Tasks : f[t] = Digest(t, FALSE, f)
                        /\ \A t \in LockedTasks' : lockedsigs'[t][1] = f[t]
                        /\ changed' = {} => mismatch' = {} /\ \A t \in Hashed' : taskhash'[t] = f[t]
      BY DEF First
    <3> WITNESS old
    <3> QED
      BY <2>4, <3>1, <3>2 DEF old
  <2> QED
    BY <2>3, <2>5 DEF FirstInv
<1> QED
  BY <1>1, <1>2, <1>3, <1>4 DEF Next

(* Without a change in between, the hashes that were dumped are those      *)
(* computed again, and there is no message (sstatesig.py:203-211).         *)
THEOREM RoundTripHolds == Spec => []RoundTrip
<1>1. Init => FirstInv
  BY DEF Init, FirstInv
<1>2. FirstInv => RoundTrip
  BY DEF FirstInv, First, RoundTrip
<1> QED
  BY <1>1, <1>2, FirstStep, HashInvAlways, PTL DEF Spec
=============================================================================
