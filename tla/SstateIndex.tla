---------------------------- MODULE SstateIndex ----------------------------
(***************************************************************************)
(* The index of manifests in SSTATE_MANIFESTS and the ReachableStamps      *)
(* handler of meta/classes/sstate.bbclass, over many bitbake invocations.  *)
(*                                                                         *)
(* sstate_install appends to index-ARCH a line with the STAMP, the         *)
(* manifest prefix and the WORKDIR of the recipe.  The manifest prefix has *)
(* only the recipe's name in it, the STAMP its version too.  After parsing *)
(* and before any task, sstate_eventhandler2 removes what belongs to the   *)
(* lines whose STAMP no parsed recipe has.                                 *)
(*                                                                         *)
(* A task is <<n, k>>: the sstate task k of the recipe named n.  What      *)
(* SstateStaging does file by file is one step here.  The metadata, the    *)
(* choice of versions and the stamps are BitBake's: external.              *)
(***************************************************************************)
EXTENDS Naturals, FiniteSets

CONSTANTS Names, Kinds, Versions,
          NameOf,       \* NameOf[v]: the PN of the recipe version v
          MaxBuilds,    \* bound: bitbake invocations
          MaxKills,     \* bound: kills of a task or of BitBake
          None

Tasks == Names \X Kinds

ASSUME ConstantsAssumption ==
  /\ NameOf \in [Versions -> Names] /\ IsFiniteSet(Versions)
  /\ None \notin Versions /\ None \notin Tasks
  /\ MaxBuilds \in Nat /\ MaxKills \in Nat

VersionsOf(n) == {v \in Versions : NameOf[v] = n}

VARIABLES
  index,      \* index[v]: how often v's line is in the index file
  manifest,   \* manifest[t]: the version whose manifest t has on disk
  files,      \* files[t]: the version whose files t has in the shared area
  stamp,      \* stamp[t]: the versions t has a stamp for
  parsed,     \* versions that were parsed: e.stamps
  choice,     \* choice[n]: the version BitBake builds, or None
  phase,      \* of the invocation
  lines, doomed, cur,   \* the handler's lines, toremove and loop variable
  pc, seen, holder,     \* the tasks; seen[t]: its line is there; index.lock
  builds, kills,
  torn,       \* history: <<t, v>> with files removed, stamp left by a kill
  lost        \* history: versions whose line a kill took from the index

vars == <<index, manifest, files, stamp, parsed, choice, phase, lines, doomed,
          cur, pc, seen, holder, builds, kills, torn, lost>>
disk == <<index, manifest, files, stamp>>
handler == <<phase, lines, doomed, cur>>
task == <<pc, seen, holder>>
history == <<builds, kills, torn, lost>>

TypeOK ==
  /\ index \in [Versions -> Nat] /\ lines \in [Versions -> Nat]
  /\ manifest \in [Tasks -> Versions \cup {None}]
  /\ files \in [Tasks -> Versions \cup {None}]
  /\ stamp \in [Tasks -> SUBSET Versions]
  /\ parsed \subseteq Versions /\ choice \in [Names -> Versions \cup {None}]
  /\ phase \in {"ready", "parsed", "prune", "rewrite", "build"}
  /\ doomed \subseteq Versions /\ cur \in Versions \cup {None}
  /\ pc \in [Tasks -> {"idle", "install", "lock", "read", "append", "copy", "stamp"}]
  /\ seen \in [Tasks -> BOOLEAN] /\ holder \in Tasks \cup {None}
  /\ builds \in 0..MaxBuilds /\ kills \in 0..MaxKills
  /\ torn \subseteq Tasks \X Versions /\ lost \subseteq Versions

Init ==
  /\ index = [v \in Versions |-> 0] /\ lines = index
  /\ manifest = [t \in Tasks |-> None] /\ files = manifest
  /\ stamp = [t \in Tasks |-> {}]
  /\ parsed = {} /\ choice = [n \in Names |-> None]
  /\ phase = "ready" /\ doomed = {} /\ cur = None
  /\ pc = [t \in Tasks |-> "idle"] /\ seen = [t \in Tasks |-> FALSE]
  /\ holder = None /\ builds = 0 /\ kills = 0 /\ torn = {} /\ lost = {}

-----------------------------------------------------------------------------
(* BitBake parses the recipes there are now, and takes one version of each *)
(* that it is to build.                                                    *)
Parse ==
  /\ phase \in {"ready", "build"} /\ \A t \in Tasks : pc[t] = "idle"
  /\ builds < MaxBuilds /\ builds' = builds + 1
  /\ parsed' \in SUBSET Versions
  /\ choice' \in {c \in [Names -> parsed' \cup {None}] :
                    \A n \in Names : c[n] \in VersionsOf(n) \cup {None}}
  /\ phase' = "parsed"
  /\ UNCHANGED <<disk, lines, doomed, cur, task, kills, torn, lost>>

-----------------------------------------------------------------------------
(* sstate_eventhandler2: read the index, remove line by line, write the    *)
(* index again.  It takes no lock.                                         *)
ReadIndexChosen ==   \* mistake: the recipes to build instead of those parsed
  /\ phase = "parsed" /\ phase' = "prune"
  /\ doomed' = {v \in Versions : index[v] > 0 /\ \A n \in Names : choice[n] # v}
  /\ lines' = index
  /\ UNCHANGED <<disk, parsed, choice, cur, task, history>>

ReadIndex ==
  /\ phase = "parsed" /\ phase' = "prune"
  /\ doomed' = {v \in Versions : index[v] > 0 /\ v \notin parsed}
  /\ lines' = index
  /\ UNCHANGED <<disk, parsed, choice, cur, task, history>>

PruneLeavesFiles(v) ==   \* mistake: only the manifest goes
  /\ phase = "prune" /\ v \in doomed /\ cur = None
  /\ manifest' = [t \in Tasks |-> IF t[1] = NameOf[v] THEN None ELSE manifest[t]]
  /\ cur' = v
  /\ UNCHANGED <<index, files, stamp, parsed, choice, phase, lines, doomed, task, history>>

(* Every manifest of that name is cleaned, of whatever version it is.      *)
PruneManifests(v) ==
  /\ phase = "prune" /\ v \in doomed /\ cur = None
  /\ manifest' = [t \in Tasks |-> IF t[1] = NameOf[v] THEN None ELSE manifest[t]]
  /\ files' = [t \in Tasks |-> IF t[1] = NameOf[v] /\ manifest[t] # None
                               THEN None ELSE files[t]]
  /\ cur' = v
  /\ UNCHANGED <<index, stamp, parsed, choice, phase, lines, doomed, task, history>>

PruneLeavesStamps(v) ==   \* mistake: the stamps stay
  /\ phase = "prune" /\ cur = v
  /\ doomed' = doomed \ {v} /\ lines' = [lines EXCEPT ![v] = 0] /\ cur' = None
  /\ UNCHANGED <<disk, parsed, choice, phase, task, history>>

PruneStamps(v) ==
  /\ phase = "prune" /\ cur = v
  /\ stamp' = [t \in Tasks |-> stamp[t] \ {v}]
  /\ torn' = torn \ (Tasks \X {v})
  /\ doomed' = doomed \ {v} /\ lines' = [lines EXCEPT ![v] = 0] /\ cur' = None
  /\ UNCHANGED <<index, manifest, files, parsed, choice, phase, task, builds, kills, lost>>

(* open(i, "w") empties the file.                                          *)
TruncateIndex ==
  /\ phase = "prune" /\ doomed = {} /\ cur = None
  /\ index' = [v \in Versions |-> 0] /\ phase' = "rewrite"
  /\ UNCHANGED <<manifest, files, stamp, parsed, choice, lines, doomed, cur, task, history>>

WriteIndex ==
  /\ phase = "rewrite" /\ index' = lines /\ phase' = "build"
  /\ UNCHANGED <<manifest, files, stamp, parsed, choice, lines, doomed, cur, task, history>>

-----------------------------------------------------------------------------
Goto(t, from, to) == pc[t] = from /\ pc' = [pc EXCEPT ![t] = to]

Version(t) == choice[t[1]]

(* sstate_clean: the manifest and the files it lists, and the task's stamps *)
(* of every version (STAMPCLEAN).                                          *)
Clean(t) ==
  /\ phase = "build" /\ Version(t) # None /\ Version(t) \notin stamp[t]
  /\ Goto(t, "idle", "install")
  /\ manifest' = [manifest EXCEPT ![t] = None]
  /\ files' = [files EXCEPT ![t] = IF manifest[t] = None THEN @ ELSE None]
  /\ stamp' = [stamp EXCEPT ![t] = {}]
  /\ torn' = torn \ ({t} \X Versions)
  /\ UNCHANGED <<index, parsed, choice, handler, seen, holder, builds, kills, lost>>

(* sstate_install: the manifest, then the index line, then the files.      *)
WriteManifest(t) ==
  /\ Goto(t, "install", "lock")
  /\ manifest' = [manifest EXCEPT ![t] = Version(t)]
  /\ UNCHANGED <<index, files, stamp, parsed, choice, handler, seen, holder, history>>

IndexNoLock(t) ==   \* mistake: index.lock is not taken
  /\ Goto(t, "lock", "read") /\ holder' = t
  /\ UNCHANGED <<disk, parsed, choice, handler, seen, history>>

IndexLock(t) ==
  /\ Goto(t, "lock", "read") /\ holder = None /\ holder' = t
  /\ UNCHANGED <<disk, parsed, choice, handler, seen, history>>

IndexRead(t) ==
  /\ Goto(t, "read", "append")
  /\ seen' = [seen EXCEPT ![t] = index[Version(t)] > 0]
  /\ UNCHANGED <<disk, parsed, choice, handler, holder, history>>

IndexSkip(t) ==   \* mistake: a name that has a line gets no other
  /\ Goto(t, "append", "copy") /\ holder' = None
  /\ index' = IF \E v \in VersionsOf(t[1]) : index[v] > 0 THEN index
              ELSE [index EXCEPT ![Version(t)] = @ + 1]
  /\ lost' = lost \ {Version(t)}
  /\ UNCHANGED <<manifest, files, stamp, parsed, choice, handler, seen, builds, kills, torn>>

(* The line is appended if it is not there; lines of other versions of the *)
(* name stay.                                                              *)
IndexAppend(t) ==
  /\ Goto(t, "append", "copy") /\ holder' = None
  /\ index' = IF seen[t] THEN index ELSE [index EXCEPT ![Version(t)] = @ + 1]
  /\ lost' = lost \ {Version(t)}
  /\ UNCHANGED <<manifest, files, stamp, parsed, choice, handler, seen, builds, kills, torn>>

Copy(t) ==
  /\ Goto(t, "copy", "stamp")
  /\ files' = [files EXCEPT ![t] = Version(t)]
  /\ UNCHANGED <<index, manifest, stamp, parsed, choice, handler, seen, holder, history>>

MakeStamp(t) ==
  /\ Goto(t, "stamp", "idle")
  /\ stamp' = [stamp EXCEPT ![t] = @ \cup {Version(t)}]
  /\ UNCHANGED <<index, manifest, files, parsed, choice, handler, seen, holder, history>>

-----------------------------------------------------------------------------
(* A killed task leaves the lock; a killed copy leaves some of its files.  *)
KillTask(t) ==
  /\ kills < MaxKills /\ kills' = kills + 1 /\ pc[t] # "idle"
  /\ pc' = [pc EXCEPT ![t] = "idle"]
  /\ holder' = IF holder = t THEN None ELSE holder
  /\ files' = IF pc[t] = "copy" THEN [files EXCEPT ![t] = Version(t)] ELSE files
  /\ UNCHANGED <<index, manifest, stamp, parsed, choice, handler, seen, builds, torn, lost>>

(* BitBake killed in the handler: between a recipe's files and its stamps, *)
(* or while part of the index is written.                                  *)
KillHandler ==
  /\ kills < MaxKills /\ kills' = kills + 1 /\ phase \in {"prune", "rewrite"}
  /\ phase' = "ready" /\ cur' = None /\ doomed' = {}
  /\ torn' = torn \cup ({t \in Tasks : cur \in stamp[t]} \X {cur})
  /\ \E kept \in IF phase = "rewrite" THEN SUBSET Versions ELSE {Versions} :
       /\ index' = IF phase = "rewrite"
                   THEN [v \in Versions |-> IF v \in kept THEN lines[v] ELSE 0]
                   ELSE index
       /\ lost' = lost \cup {v \in Versions \ kept : lines[v] > 0}
  /\ UNCHANGED <<manifest, files, stamp, parsed, choice, lines, task, builds>>

TaskStep(t) == \/ Clean(t) \/ WriteManifest(t) \/ IndexLock(t) \/ IndexRead(t)
               \/ IndexAppend(t) \/ Copy(t) \/ MakeStamp(t)

Next == \/ Parse \/ ReadIndex \/ TruncateIndex \/ WriteIndex \/ KillHandler
        \/ \E v \in Versions : PruneManifests(v) \/ PruneStamps(v)
        \/ \E t \in Tasks : TaskStep(t) \/ KillTask(t)

Spec == Init /\ [][Next]_vars

-----------------------------------------------------------------------------
(* A line is in the index once, although several tasks of one recipe add   *)
(* it at the same time (sstate.bbclass:261-271).                           *)
IndexOnce == \A v \in Versions : index[v] <= 1

(* What is in the shared area has its line in the index, so that a later   *)
(* invocation can prune it: the line is written before the files come.     *)
(* Not so where a kill cut the index short (sstate.bbclass:1036-1038).     *)
FilesIndexed ==
  \A t \in Tasks : files[t] \notin {None} \cup lost =>
    (IF phase = "rewrite" THEN lines ELSE index)[files[t]] > 0

(* When tasks run, nothing is staged of a version that was not parsed      *)
(* (sstate.bbclass:994-996).                                               *)
UnreachableGone ==
  phase = "build" => \A t \in Tasks : files[t] \in parsed \cup lost \cup {None}

OneVersion(t) == Cardinality(VersionsOf(t[1])) = 1

(* A stamp of a version says that its files are staged, except where a     *)
(* kill came between the two; for recipes of one version                   *)
(* (sstate.bbclass:1026-1032).                                             *)
StampsTell ==
  \A t \in Tasks : OneVersion(t) => \A v \in stamp[t] :
    v # cur /\ <<t, v>> \notin torn => files[t] = v /\ manifest[t] = v

Spared(t) == phase = "prune" /\ manifest'[t] # manifest[t] => manifest[t] \notin parsed

(* Pruning leaves alone what is still parsed, for recipes of one version   *)
(* (sstate.bbclass:1017-1030).                                             *)
PruneSparesOne == [][\A t \in Tasks : OneVersion(t) => Spared(t)]_vars

(* The handler removes the manifests of versions that are no longer parsed, *)
(* and of no others (sstate.bbclass:994-996).                              *)
PruneSpares == [][\A t \in Tasks : Spared(t)]_vars
=============================================================================
