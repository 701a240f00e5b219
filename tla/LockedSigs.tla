----------------------------- MODULE LockedSigs -----------------------------
(***************************************************************************)
(* The signature generator OEBasicHash of meta/lib/oe/sstatesig.py.  One   *)
(* invocation of BitBake computes the hash of every task and writes them   *)
(* to locked-sigs.inc; a second one, in which some metadata has changed,   *)
(* has that file in its configuration and runs with the hashes in it,      *)
(* except for the recipes that are unlocked.                               *)
(***************************************************************************)
CONSTANTS Tasks, Recipe,     \* Recipe[t]: the recipe of t
          Deps,              \* Deps[t]: the tasks t depends on
          Tools, SafeDeps, NativeLike, Native, PackageGroups, AllArch,
          AbiSafe, Images, Kernels, WantsModules,   \* what the filter looks at
          Inside,            \* <<x, y>>: name x is a proper part of name y
          Unlocked,          \* SIGGEN_UNLOCKED_RECIPES
          Filter,            \* the tasks to lock
          Sstate,            \* tasks with shared state
          SharedWorkdir,     \* do_shared_workdir tasks
          TasksigCheck, ExistsCheck,   \* "none", "warn" or "error"
          NoHash

Recipes == {Recipe[t] : t \in Tasks}
Levels == {"none", "warn", "error"}

ASSUME DepsAssumption ==
  /\ Deps \in [Tasks -> SUBSET Tasks] /\ Filter \subseteq Tasks
  /\ TasksigCheck \in Levels /\ ExistsCheck \in Levels

VARIABLES
  run,         \* the invocation, 1 or 2
  phase,       \* "hash", then "build" or "fatal"
  changed,     \* tasks whose metadata differs in the second invocation
  taskhash,    \* the hash of each task, or NoHash
  lockedsigs,  \* what locked-sigs.inc says: <<hash, variable>>, or NoHash
  unlocked,    \* unlockedrecipes
  mismatch,    \* tasks with a message in mismatch_msgs
  packages     \* hashes with a package in the cache

vars == <<run, phase, changed, taskhash, lockedsigs, unlocked, mismatch, packages>>

Hashed == {t \in Tasks : taskhash[t] # NoHash}
LockedTasks == {t \in Tasks : lockedsigs[t] # NoHash}

Init ==
  /\ run = 1 /\ phase = "hash"
  /\ changed \in SUBSET Tasks
  /\ taskhash = [t \in Tasks |-> NoHash] /\ lockedsigs = [t \in Tasks |-> NoHash]
  /\ unlocked = Unlocked /\ mismatch = {} /\ packages = {}

-----------------------------------------------------------------------------
(* sstate_rundepfilter: does the hash of a task of r take in that of a     *)
(* task of d it depends on?                                                *)
KeepDep(r, d) ==
  \/ r = d
  \/ /\ d \notin Tools /\ <<r, d>> \notin SafeDeps
     /\ \/ r \in NativeLike
        \/ /\ ~ (r \in PackageGroups \cap AllArch /\ d \notin Native)
           /\ ~ (d \in AbiSafe /\ r \notin Images)
           /\ ~ (d \in Kernels /\ r \notin Kernels /\ r \in WantsModules)

Kept(t) == {u \in Deps[t] : KeepDep(Recipe[t], Recipe[u])}

(* What BitBake makes a hash of: the task's own data and the hashes of the *)
(* tasks it depends on.                                                    *)
Digest(t, edited, hash) == <<t, edited, [u \in Kept(t) |-> hash[u]]>>
Computed(t) == Digest(t, run = 2 /\ t \in changed, taskhash)

DependsOnLocked(t) == FALSE   \* mistake: only the recipe itself counts

(* "x in y" of two strings.                                                *)
DependsOnUnlocked(t) ==
  \E u \in Deps[t], x \in unlocked : x = Recipe[u] \/ <<x, Recipe[u]>> \in Inside

MismatchNever(t) == FALSE   \* mistake: no message

MismatchEntry(t) == Computed(t) # lockedsigs[t]   \* mistake: not the hash in it

Mismatches(t) == Computed(t) # lockedsigs[t][1]

ChooseComputed(t, locks) == Computed(t)   \* mistake: a message and no more

Choose(t, locks) == IF locks THEN lockedsigs[t][1] ELSE Computed(t)

GetTaskhash(t) ==
  /\ phase = "hash" /\ t \notin Hashed /\ Deps[t] \subseteq Hashed
  /\ unlocked' = IF DependsOnUnlocked(t) THEN unlocked \cup {Recipe[t]} ELSE unlocked
  /\ LET locks == Recipe[t] \notin unlocked' /\ t \in LockedTasks
     IN  /\ taskhash' = [taskhash EXCEPT ![t] = Choose(t, locks)]
         /\ mismatch' = IF locks /\ Mismatches(t) THEN mismatch \cup {t} ELSE mismatch
  /\ UNCHANGED <<run, phase, changed, lockedsigs, packages>>

-----------------------------------------------------------------------------
(* Tasks with a message that a locked task has no package: the hash is     *)
(* looked for among the entries <<hash, variable>>.                        *)
MissingMsgs ==
  {t \in Sstate \ SharedWorkdir :
     /\ taskhash[t] \notin packages
     /\ taskhash[t] \in {lockedsigs[u] : u \in LockedTasks}}

(* checkhashes, after sstate_checkhashes.                                  *)
Checkhashes ==
  /\ phase = "hash" /\ Hashed = Tasks
  /\ phase' = IF \/ TasksigCheck = "error" /\ mismatch # {}
                 \/ ExistsCheck = "error" /\ MissingMsgs # {}
              THEN "fatal" ELSE "build"
  /\ UNCHANGED <<run, changed, taskhash, lockedsigs, unlocked, mismatch, packages>>

(* dump_lockedsigs, and the file read again by sstate_lockedsigs.          *)
Dump == [t \in Tasks |-> IF t \in Filter THEN <<taskhash[t], "var">> ELSE NoHash]

(* The file is written, the tasks run, and the next invocation starts with *)
(* the file and with what is left of the packages.                         *)
NextInvocation ==
  /\ run = 1 /\ phase = "build"
  /\ run' = 2 /\ phase' = "hash"
  /\ lockedsigs' = Dump
  /\ packages' \in SUBSET {taskhash[t] : t \in Sstate}
  /\ taskhash' = [t \in Tasks |-> NoHash]
  /\ unlocked' = Unlocked /\ mismatch' = {}
  /\ UNCHANGED changed

Next == Checkhashes \/ NextInvocation \/ \E t \in Tasks : GetTaskhash(t)

Spec == Init /\ [][Next]_vars

-----------------------------------------------------------------------------
TypeOK ==
  /\ run \in {1, 2} /\ phase \in {"hash", "build", "fatal"}
  /\ changed \subseteq Tasks /\ unlocked \subseteq Unlocked \cup Recipes
  /\ mismatch \subseteq LockedTasks /\ LockedTasks \subseteq Filter
  /\ DOMAIN taskhash = Tasks /\ DOMAIN lockedsigs = Tasks

(* U takes in every recipe that depends on a recipe of U.                  *)
Closed(U) ==
  \A t \in Tasks : \A u \in Deps[t] :
    (\E x \in U : x = Recipe[u] \/ <<x, Recipe[u]>> \in Inside) => Recipe[t] \in U

(* A locked task keeps its hash whatever has changed, unless its recipe    *)
(* depends, in any number of steps, on one to be unlocked                  *)
(* (sstatesig.py:145-178).                                                 *)
StaysLocked ==
  \A U \in SUBSET (Recipes \cup Unlocked) : Unlocked \subseteq U /\ Closed(U) =>
    \A t \in LockedTasks \cap Hashed : Recipe[t] \notin U =>
      taskhash[t] = lockedsigs[t][1]

(* A task of a recipe to be unlocked, or that depends directly on one,     *)
(* runs with the hash of its metadata as it is (sstatesig.py:146-162).     *)
RunsUnlocked ==
  \A t \in Hashed :
    Recipe[t] \in Unlocked \/ (\E u \in Deps[t] : Recipe[u] \in Unlocked) =>
      taskhash[t] = Computed(t)

(* With the check on "error", a build starts only if each hash in use is   *)
(* what the metadata gives (sstatesig.py:172-174, 229-231).                *)
NoSilentMismatch ==
  phase = "build" /\ TasksigCheck = "error" => \A t \in Tasks : taskhash[t] = Computed(t)

(* Without a change the second invocation has the hashes of the first,     *)
(* for locked and unlocked tasks alike, and no message                     *)
(* (sstatesig.py:203-211).                                                 *)
RoundTrip ==
  run = 2 /\ changed = {} =>
    mismatch = {} /\ \A t \in LockedTasks \cap Hashed : taskhash[t] = lockedsigs[t][1]

(* sstatesig.py:156-157: a recipe with an unlocked recipe among its        *)
(* direct dependencies is unlocked.                                        *)
RecipeUnlocked ==
  run = 2 /\ phase = "build" =>
    \A t \in Tasks : Recipe[t] \in unlocked => taskhash[t] = Computed(t)

(* sstate.bbclass:61-63: packages exist for the locked tasks that have     *)
(* shared state.                                                           *)
LockedExist ==
  run = 2 /\ phase = "build" /\ ExistsCheck = "error" =>
    \A t \in (LockedTasks \cap Sstate) \ SharedWorkdir :
      taskhash[t] = lockedsigs[t][1] => taskhash[t] \in packages
=============================================================================
