--------------------------- MODULE SstateStaging ---------------------------
(***************************************************************************)
(* The staging side of meta/classes/sstate.bbclass: sstate tasks of many   *)
(* recipes put their output in shared directories (the sysroot, pkgdata,   *)
(* deploy), record it in a manifest and take it out again.                 *)
(*                                                                         *)
(* A Task is one sstate task of one recipe, e.g. foo:do_packagedata.  It   *)
(* has one manifest, and its process runs in one of three modes:           *)
(*   setscene  sstate_installpkg: clean, unpack the package, install       *)
(*   run       clean (prefunc), the task itself, install, package          *)
(*   clean     do_clean: drop the stamps, then sstate_clean                *)
(* Every system call on shared state is a step of its own: the processes   *)
(* interleave, and Kill stops one anywhere.  A Reader is a recipe's        *)
(* do_package in package_do_shlibs, reading pkgdata under PACKAGELOCK.     *)
(* BitBake, which starts the processes and writes the stamps, is external. *)
(***************************************************************************)
EXTENDS Naturals

CONSTANTS Tasks, Readers, Hashes, Files, Dirs,
          Output,        \* Output[t][h]: what t stages when its hash is h
          DirOf,         \* the directory of each file
          Locked,        \* tasks with [sstate-lockfile-shared] = PACKAGELOCK
          Whitelisted,   \* files under SSTATE_DUPWHITELIST
          MaxBuilds,     \* bound: bitbake invocations
          MaxMishaps,    \* bound: processes killed and removals that fail
          MaxCuts,       \* bound: manifests cut in the middle of a line
          None

Procs == Tasks \cup Readers

ASSUME ConstantsAssumption ==
  /\ Tasks \cap Readers = {}
  /\ None \notin Procs
  /\ Output \in [Tasks -> [Hashes -> SUBSET Files]]
  /\ DirOf \in [Files -> Dirs]
  /\ Locked \subseteq Tasks /\ Whitelisted \subseteq Files
  /\ MaxBuilds \in Nat /\ MaxMishaps \in Nat /\ MaxCuts \in Nat

VARIABLES
  area,       \* area[f]: the task whose copy of f is in the shared area
  dirs,       \* directories that exist in the shared area
  manifests,  \* tasks whose manifest file is on disk
  listing,    \* listing[t]: the lines of that file
  stamp,      \* stamp[t]: hashes t has a stamp for
  cache,      \* cache[t]: hashes t has a package for in SSTATE_DIR
  shared, excl,         \* holders of PACKAGELOCK
  pc, mode, todo, cur,  \* the processes: next step, mode, work left, directory
  want, job, tried, failed,   \* BitBake: this invocation's hashes and jobs
  builds, mishaps, cuts,  \* counters of the bounds
  torn,       \* history: tasks killed between removing files and stamps
  left        \* history: files that the clean of their task could not remove

disk  == <<area, dirs, manifests, listing, stamp, cache>>
lock  == <<shared, excl>>
proc  == <<pc, mode, todo, cur>>
build == <<want, job, tried, failed>>
count == <<builds, mishaps, cuts, torn, left>>
vars  == <<disk, lock, proc, build, count>>

-----------------------------------------------------------------------------
(* A manifest lists the files, then the directories.  A last line that was *)
(* cut short can name a directory without its final slash: cut.            *)
Listing == [files : SUBSET Files, dirs : SUBSET Dirs, cut : SUBSET Dirs]
Empty   == [files |-> {}, dirs |-> {}, cut |-> {}]

DirsOf(fs) == {DirOf[f] : f \in fs}
Full(t)    == LET fs == Output[t][want[t]]
              IN [files |-> fs, dirs |-> DirsOf(fs), cut |-> {}]

PC == {"idle", "package_lookup", "clean", "clean_lock", "clean_files",
       "clean_dirs", "clean_stamps", "make", "install", "install_lock",
       "check", "manifest_write", "make_dirs", "copy", "copy_files",
       "package", "stamp", "read"}

DiskTypeOK ==
  /\ area \in [Files -> Tasks \cup {None}] /\ dirs \subseteq Dirs
  /\ manifests \subseteq Tasks /\ listing \in [Tasks -> Listing]
  /\ stamp \in [Tasks -> SUBSET Hashes] /\ cache \in [Tasks -> SUBSET Hashes]

ProcTypeOK ==
  /\ shared \subseteq Procs /\ excl \in Procs \cup {None}
  /\ pc \in [Procs -> PC]
  /\ mode \in [Procs -> {"setscene", "run", "clean", "read"}]
  /\ todo \in [Procs -> SUBSET Files] /\ cur \in [Procs -> SUBSET Dirs]

BuildTypeOK ==
  /\ want \in [Tasks -> Hashes] /\ job \in [Tasks -> {"build", "clean", "none"}]
  /\ tried \subseteq Procs /\ failed \subseteq Procs

CountTypeOK ==
  /\ builds \in 0..MaxBuilds /\ mishaps \in 0..MaxMishaps /\ cuts \in 0..MaxCuts
  /\ torn \subseteq Tasks /\ left \subseteq Files

TypeOK == DiskTypeOK /\ ProcTypeOK /\ BuildTypeOK /\ CountTypeOK

Init ==
  /\ area = [f \in Files |-> None] /\ dirs = {}
  /\ manifests = {} /\ listing = [t \in Tasks |-> Empty]
  /\ stamp = [t \in Tasks |-> {}] /\ cache = [t \in Tasks |-> {}]
  /\ shared = {} /\ excl = None
  /\ pc = [p \in Procs |-> "idle"] /\ mode = [p \in Procs |-> IF p \in Tasks THEN "run" ELSE "read"]
  /\ todo = [p \in Procs |-> {}] /\ cur = [p \in Procs |-> {}]
  /\ want \in [Tasks -> Hashes] /\ job = [t \in Tasks |-> "build"]
  /\ tried = {} /\ failed = {}
  /\ builds = 0 /\ mishaps = 0 /\ cuts = 0 /\ torn = {} /\ left = {}

-----------------------------------------------------------------------------
(* bb.utils.lockfile and unlockfile, with flock's semantics: a dead process *)
(* holds nothing.                                                          *)
LockShared(p)    == excl = None /\ shared' = shared \cup {p} /\ excl' = excl
LockExclusive(p) == excl = None /\ shared = {} /\ excl' = p /\ shared' = shared
Unlock(p) == /\ shared' = shared \ {p}
             /\ excl' = IF excl = p THEN None ELSE excl

Goto(p, from, to) == pc[p] = from /\ pc' = [pc EXCEPT ![p] = to]

(* A process that dies: BitBake runs the real task if it was a setscene    *)
(* task, and does not start a failed task again in this invocation.        *)
Dies(p) == /\ pc' = [pc EXCEPT ![p] = "idle"]
           /\ todo' = [todo EXCEPT ![p] = {}]
           /\ cur' = [cur EXCEPT ![p] = {}]
           /\ Unlock(p)
           /\ IF mode[p] = "setscene"
              THEN tried' = tried \cup {p} /\ failed' = failed
              ELSE failed' = failed \cup {p} /\ tried' = tried
           /\ UNCHANGED <<mode, want, job>>

-----------------------------------------------------------------------------
(* BitBake: a new invocation, with the hashes the metadata now gives and   *)
(* some recipes built, some cleaned; then one process per task.            *)
NewBuild ==
  /\ builds < MaxBuilds /\ \A p \in Procs : pc[p] = "idle"
  /\ builds' = builds + 1
  /\ want' \in [Tasks -> Hashes]
  /\ job' \in [Tasks -> {"build", "clean", "none"}]
  /\ tried' = {} /\ failed' = {}
  /\ UNCHANGED <<disk, lock, proc, mishaps, cuts, torn, left>>

Start(t, m, first) == /\ Goto(t, "idle", first)
                      /\ mode' = [mode EXCEPT ![t] = m]
                      /\ UNCHANGED <<todo, cur, lock>>

Needed(t) == job[t] = "build" /\ t \notin failed /\ want[t] \notin stamp[t]

StartSetscene(t) == /\ Needed(t) /\ t \notin tried
                    /\ Start(t, "setscene", "package_lookup")
                    /\ UNCHANGED <<disk, build, count>>

StartRun(t) == /\ Needed(t) /\ t \in tried
               /\ Start(t, "run", "clean")
               /\ UNCHANGED <<disk, build, count>>

(* do_clean removes the stamps before it calls sstate_cleanall.            *)
StartClean(t) == /\ job[t] = "clean" /\ t \notin failed
                 /\ Start(t, "clean", "clean")
                 /\ stamp' = [stamp EXCEPT ![t] = {}]
                 /\ job' = [job EXCEPT ![t] = "none"]
                 /\ UNCHANGED <<area, dirs, manifests, listing, cache, want,
                                tried, failed, count>>

(* The task left nothing to do but to record that it is done.              *)
MakeStamp(t) == /\ Goto(t, "stamp", "idle")
                /\ stamp' = [stamp EXCEPT ![t] = @ \cup {want[t]}]
                /\ UNCHANGED <<area, dirs, manifests, listing, cache, lock,
                               mode, todo, cur, build, count>>

(* A running process is killed, or fails because the disk is full.  While  *)
(* it writes its manifest, any first part of the lines may be on disk, and *)
(* the last one may be cut short.                                          *)
CutAt(t) == {{}} \cup IF cuts < MaxCuts THEN {{d} : d \in DirsOf(Full(t).files)} ELSE {}

Kill(t) ==
  /\ mishaps < MaxMishaps /\ pc[t] # "idle" /\ mishaps' = mishaps + 1
  /\ Dies(t)
  /\ torn' = IF pc[t] \in {"clean_files", "clean_dirs", "clean_stamps"}
             THEN torn \cup {t} ELSE torn
  /\ IF pc[t] = "manifest_write"
     THEN \E fs \in SUBSET Full(t).files, c \in CutAt(t) :
            /\ listing' = [listing EXCEPT ![t] = [files |-> fs, dirs |-> {}, cut |-> c]]
            /\ cuts' = IF c = {} THEN cuts ELSE cuts + 1
     ELSE UNCHANGED <<listing, cuts>>
  /\ UNCHANGED <<area, dirs, manifests, stamp, cache, builds, left>>

-----------------------------------------------------------------------------
LookupPackageIgnored(t) ==   \* mistake: sstate_setscene does not fail without a package
  /\ pc[t] = "package_lookup"
  /\ pc' = [pc EXCEPT ![t] = IF want[t] \in cache[t] THEN "clean" ELSE "stamp"]
  /\ UNCHANGED <<disk, mode, todo, cur, lock, build, count>>

(* sstate_installpkg: look the package up, or give the task up.            *)
LookupPackage(t) ==
  /\ pc[t] = "package_lookup"
  /\ IF want[t] \in cache[t]
     THEN /\ pc' = [pc EXCEPT ![t] = "clean"]
          /\ UNCHANGED <<mode, todo, cur, lock, build>>
     ELSE Dies(t)
  /\ UNCHANGED <<disk, count>>

-----------------------------------------------------------------------------
(* sstate_clean.  It looks for the manifest before it takes the lock.      *)
Clean(t) == /\ pc[t] = "clean"
            /\ pc' = [pc EXCEPT ![t] = IF t \in manifests THEN "clean_lock"
                                       ELSE "clean_stamps"]
            /\ UNCHANGED <<disk, lock, mode, todo, cur, build, count>>

(* The lock that installers share, sstate_clean takes exclusively; then    *)
(* sstate_clean_manifest reads the manifest.                               *)
CleanLockShared(t) ==   \* mistake: as the installers do
  /\ Goto(t, "clean_lock", "clean_files")
  /\ IF t \in Locked THEN LockShared(t) ELSE UNCHANGED lock
  /\ todo' = [todo EXCEPT ![t] = listing[t].files]
  /\ UNCHANGED <<disk, mode, cur, build, count>>

CleanNoLock(t) ==   \* mistake: no lock at all
  /\ Goto(t, "clean_lock", "clean_files")
  /\ todo' = [todo EXCEPT ![t] = listing[t].files]
  /\ UNCHANGED <<disk, lock, mode, cur, build, count>>

CleanLockForgets(t) ==   \* mistake: the manifest is dropped as soon as it is read
  /\ Goto(t, "clean_lock", "clean_files")
  /\ IF t \in Locked THEN LockExclusive(t) ELSE UNCHANGED lock
  /\ todo' = [todo EXCEPT ![t] = listing[t].files]
  /\ manifests' = manifests \ {t}
  /\ UNCHANGED <<area, dirs, listing, stamp, cache, mode, cur, build, count>>

CleanLock(t) == /\ Goto(t, "clean_lock", "clean_files")
                /\ IF t \in Locked THEN LockExclusive(t) ELSE UNCHANGED lock
                /\ todo' = [todo EXCEPT ![t] = listing[t].files]
                /\ UNCHANGED <<disk, mode, cur, build, count>>

(* Any error of a removal is ignored, and the rest of the manifest done.   *)
Fault == mishaps < MaxMishaps /\ mishaps' = mishaps + 1

CleanFile(t) == \E f \in todo[t] :
                /\ pc[t] = "clean_files"
                /\ \/ /\ area' = [area EXCEPT ![f] = None] /\ left' = left \ {f}
                      /\ UNCHANGED mishaps
                   \/ /\ area[f] # None /\ Fault /\ UNCHANGED area
                      /\ left' = IF area[f] = t THEN left \cup {f} ELSE left
                /\ todo' = [todo EXCEPT ![t] = @ \ {f}]
                /\ UNCHANGED <<dirs, manifests, listing, stamp, cache, lock,
                               pc, mode, cur, build, builds, cuts, torn>>

CleanFilesDone(t) == /\ Goto(t, "clean_files", "clean_dirs") /\ todo[t] = {}
                     /\ cur' = [cur EXCEPT ![t] = listing[t].dirs \cup listing[t].cut]
                     /\ UNCHANGED <<disk, lock, mode, todo, build, count>>

IsEmpty(d) == \A f \in Files : DirOf[f] = d => area[f] = None

FilesIn(d) == {f \in Files : DirOf[f] = d}
Without(gone) == [f \in Files |-> IF f \in gone THEN None ELSE area[f]]

CleanTree(t) == \E d \in cur[t] :   \* mistake: every directory goes with what is in it
  /\ pc[t] = "clean_dirs"
  /\ cur' = [cur EXCEPT ![t] = @ \ {d}]
  /\ area' = Without(FilesIn(d)) /\ dirs' = dirs \ {d}
  /\ UNCHANGED <<manifests, listing, stamp, cache, lock, pc, mode, todo, build, count>>

(* A directory line: rmdir if it is empty.  A line without the final slash *)
(* goes to oe.path.remove, which removes a whole tree, or the part of it   *)
(* before the first error.                                                 *)
CleanDir(t) == \E d \in cur[t] :
               /\ pc[t] = "clean_dirs"
               /\ cur' = [cur EXCEPT ![t] = @ \ {d}]
               /\ \/ /\ area' = IF d \in listing[t].cut THEN Without(FilesIn(d)) ELSE area
                     /\ dirs' = IF d \in listing[t].cut \/ IsEmpty(d) THEN dirs \ {d} ELSE dirs
                     /\ UNCHANGED mishaps
                  \/ /\ d \in dirs /\ Fault /\ UNCHANGED dirs
                     /\ \E gone \in IF d \in listing[t].cut THEN SUBSET FilesIn(d) ELSE {{}} :
                          area' = Without(gone)
               /\ left' = {f \in left : area'[f] # None}
               /\ UNCHANGED <<manifests, listing, stamp, cache, lock,
                              pc, mode, todo, build, builds, cuts, torn>>

(* The manifest goes last, and the lock with it.                           *)
CleanManifest(t) == /\ Goto(t, "clean_dirs", "clean_stamps") /\ cur[t] = {}
                    /\ manifests' = manifests \ {t}
                    /\ listing' = [listing EXCEPT ![t] = Empty]
                    /\ Unlock(t)
                    /\ UNCHANGED <<area, dirs, stamp, cache, mode, todo, cur, build, count>>

CleanStampOfHash(t) ==   \* mistake: the stamps of earlier hashes stay
  /\ Goto(t, "clean_stamps", IF mode[t] = "clean" THEN "idle" ELSE "make")
  /\ stamp' = [stamp EXCEPT ![t] = @ \ {want[t]}]
  /\ torn' = torn \ {t}
  /\ UNCHANGED <<area, dirs, manifests, listing, cache, lock,
                 mode, todo, cur, build, builds, mishaps, cuts, left>>

(* The stamps, of this hash and of earlier ones.                           *)
CleanStamps(t) == /\ Goto(t, "clean_stamps", IF mode[t] = "clean" THEN "idle" ELSE "make")
                  /\ stamp' = [stamp EXCEPT ![t] = {}]
                  /\ torn' = torn \ {t}
                  /\ UNCHANGED <<area, dirs, manifests, listing, cache, lock,
                                 mode, todo, cur, build, builds, mishaps, cuts, left>>

-----------------------------------------------------------------------------
(* The output is made in WORKDIR, by the task or by unpacking the package. *)
Make(t) == /\ pc[t] = "make"
           /\ \/ /\ pc' = [pc EXCEPT ![t] = "install"]
                 /\ UNCHANGED <<mode, todo, cur, lock, build>>
              \/ Dies(t)
           /\ UNCHANGED <<disk, count>>

(* sstate_install: fatal if a manifest is there; lock; compare every file  *)
(* with the shared area; write the manifest; copy.                         *)
Install(t) == /\ pc[t] = "install"
              /\ IF t \in manifests
                 THEN Dies(t)
                 ELSE /\ pc' = [pc EXCEPT ![t] = "install_lock"]
                      /\ UNCHANGED <<mode, todo, cur, lock, build>>
              /\ UNCHANGED <<disk, count>>

InstallLock(t) == /\ Goto(t, "install_lock", "check")
                  /\ IF t \in Locked THEN LockShared(t) ELSE UNCHANGED lock
                  /\ todo' = [todo EXCEPT ![t] = Output[t][want[t]]]
                  /\ UNCHANGED <<disk, mode, cur, build, count>>

CheckFile(t) == \E f \in todo[t] :
                /\ pc[t] = "check"
                /\ IF area[f] # None /\ f \notin Whitelisted
                   THEN Dies(t)
                   ELSE /\ todo' = [todo EXCEPT ![t] = @ \ {f}]
                        /\ UNCHANGED <<pc, mode, cur, lock, build>>
                /\ UNCHANGED <<disk, count>>

(* open(manifest, "w") leaves an empty file; the lines come with the close. *)
OpenManifest(t) == /\ Goto(t, "check", "manifest_write") /\ todo[t] = {}
                   /\ manifests' = manifests \cup {t}
                   /\ listing' = [listing EXCEPT ![t] = Empty]
                   /\ UNCHANGED <<area, dirs, stamp, cache, lock, mode, todo, cur, build, count>>

WriteManifest(t) == /\ Goto(t, "manifest_write", "make_dirs")
                    /\ listing' = [listing EXCEPT ![t] = Full(t)]
                    /\ UNCHANGED <<area, dirs, manifests, stamp, cache, lock,
                                   mode, todo, cur, build, count>>

(* copyhardlinktree: tar makes the directories, then cp enters each of     *)
(* them, making it again if it is gone, and links its files.               *)
MakeDirs(t) == /\ Goto(t, "make_dirs", "copy")
               /\ dirs' = dirs \cup listing[t].dirs
               /\ todo' = [todo EXCEPT ![t] = listing[t].files]
               /\ UNCHANGED <<area, manifests, listing, stamp, cache, lock,
                              mode, cur, build, count>>

EnterDir(t) == \E d \in DirsOf(todo[t]) :
               /\ Goto(t, "copy", "copy_files")
               /\ dirs' = dirs \cup {d}
               /\ cur' = [cur EXCEPT ![t] = {d}]
               /\ UNCHANGED <<area, manifests, listing, stamp, cache, lock,
                              mode, todo, build, count>>

Here(t) == {f \in todo[t] : DirOf[f] \in cur[t]}

CopyFile(t) == \E f \in Here(t) :
               /\ pc[t] = "copy_files"
               /\ IF DirOf[f] \in dirs
                  THEN /\ area' = [area EXCEPT ![f] = t] /\ left' = left \ {f}
                       /\ todo' = [todo EXCEPT ![t] = @ \ {f}]
                       /\ UNCHANGED <<pc, mode, cur, lock, build>>
                  ELSE Dies(t) /\ UNCHANGED <<area, left>>
               /\ UNCHANGED <<dirs, manifests, listing, stamp, cache,
                              builds, mishaps, cuts, torn>>

LeaveDir(t) == /\ Goto(t, "copy_files", "copy") /\ Here(t) = {}
               /\ cur' = [cur EXCEPT ![t] = {}]
               /\ UNCHANGED <<disk, lock, mode, todo, build, count>>

InstallStaysLocked(t) ==   \* mistake: the lock is not given back
  /\ Goto(t, "copy", IF mode[t] = "run" THEN "package" ELSE "stamp")
  /\ todo[t] = {}
  /\ UNCHANGED <<disk, lock, mode, todo, cur, build, count>>

InstallDone(t) == /\ Goto(t, "copy", IF mode[t] = "run" THEN "package" ELSE "stamp")
                  /\ todo[t] = {}
                  /\ Unlock(t)
                  /\ UNCHANGED <<disk, mode, todo, cur, build, count>>

(* sstate_package: the package appears in SSTATE_DIR with one rename.      *)
Package(t) == /\ Goto(t, "package", "stamp")
              /\ cache' = [cache EXCEPT ![t] = @ \cup {want[t]}]
              /\ UNCHANGED <<area, dirs, manifests, listing, stamp, lock,
                             mode, todo, cur, build, count>>

-----------------------------------------------------------------------------
(* package_do_shlibs: under the lock, list the directory, then open each   *)
(* file of the list.                                                       *)
ReadList(r) == /\ Goto(r, "idle", "read") /\ r \notin tried \cup failed
               /\ LockExclusive(r)
               /\ todo' = [todo EXCEPT ![r] = {f \in Files : area[f] # None}]
               /\ tried' = tried \cup {r}
               /\ UNCHANGED <<disk, mode, cur, want, job, failed, count>>

ReadFile(r) == \E f \in todo[r] :
               /\ pc[r] = "read"
               /\ IF area[f] # None
                  THEN /\ todo' = [todo EXCEPT ![r] = @ \ {f}]
                       /\ UNCHANGED <<lock, pc, mode, cur, build>>
                  ELSE Dies(r)
               /\ UNCHANGED <<disk, count>>

ReadDone(r) == /\ Goto(r, "read", "idle") /\ todo[r] = {}
               /\ Unlock(r)
               /\ UNCHANGED <<disk, mode, todo, cur, build, count>>

-----------------------------------------------------------------------------
CleanStep(t) == \/ Clean(t) \/ CleanLock(t) \/ CleanFile(t) \/ CleanFilesDone(t)
                \/ CleanDir(t) \/ CleanManifest(t) \/ CleanStamps(t)

InstallStep(t) == \/ Install(t) \/ InstallLock(t) \/ CheckFile(t) \/ OpenManifest(t)
                  \/ WriteManifest(t) \/ MakeDirs(t) \/ EnterDir(t) \/ CopyFile(t)
                  \/ LeaveDir(t) \/ InstallDone(t)

StartStep(t) == StartSetscene(t) \/ StartRun(t) \/ StartClean(t)

TaskStep(t) == \/ LookupPackage(t) \/ CleanStep(t) \/ Make(t) \/ InstallStep(t)
               \/ Package(t) \/ MakeStamp(t)

ReadStep(r) == ReadList(r) \/ ReadFile(r) \/ ReadDone(r)

Next == \/ NewBuild
        \/ \E t \in Tasks : StartStep(t) \/ TaskStep(t) \/ Kill(t)
        \/ \E r \in Readers : ReadStep(r)

Spec == Init /\ [][Next]_vars

(* A started process runs, BitBake starts what is needed, and a reader     *)
(* that holds the lock reads on.                                           *)
Fairness == /\ \A t \in Tasks : WF_vars(StartStep(t)) /\ WF_vars(TaskStep(t))
            /\ \A r \in Readers : WF_vars(ReadFile(r) \/ ReadDone(r))

FairSpec == Spec /\ Fairness

-----------------------------------------------------------------------------
(* A file in the shared area is listed in the manifest, on disk, of the    *)
(* task that put it there, whatever was killed when: the manifest is       *)
(* written before the first file comes and removed after the last has gone *)
(* (sstate.bbclass:245-276, 394-420), so that a later clean finds it.      *)
(* Only a file that the clean of its task could not remove, an error that  *)
(* is ignored (402-411), stays behind without a manifest.                  *)
Listed == \A f \in Files \ left : area[f] # None =>
            area[f] \in manifests /\ f \in listing[area[f]].files

(* A stamp says that the files of that hash are staged: BitBake runs the   *)
(* task no more and lets others use its output.  Not so after a kill       *)
(* between the files and the stamps (sstate.bbclass:443-467).              *)
Staged(t, h) == /\ t \in manifests /\ listing[t].files = Output[t][h]
                /\ \A f \in Output[t][h] : area[f] # None

StampsTell == \A t \in Tasks \ torn : \A h \in stamp[t] :
                pc[t] \in {"idle", "package_lookup", "clean", "clean_lock"} => Staged(t, h)

(* PACKAGELOCK keeps the files that package_do_shlibs has listed from      *)
(* going before it opens them (package.bbclass:1781-1800).                 *)
ReaderFindsFiles == \A r \in Readers : \A f \in todo[r] : area[f] # None

(* With the lock, no cleaner removes the directory that cp is linking      *)
(* files into (sstate.bbclass:400-409, path.py:76-91).                     *)
CopierKeepsDir == \A t \in Locked : pc[t] = "copy_files" => cur[t] \subseteq dirs

(* A directory is removed when it is empty, never with the files of        *)
(* another task in it (sstate.bbclass:247-249, 405-409).                   *)
OthersStay == [][\A t \in Tasks : todo[t] # todo'[t] \/ cur[t] # cur'[t] =>
                   \A f \in Files : area[f] # area'[f] => area[f] \in {t, None}]_vars

(* The comparison with the shared area lets no two tasks stage the same    *)
(* file, except under the whitelist (sstate.bbclass:202-243).              *)
NoFileTwice == \A t, u \in Tasks : t # u /\ stamp[t] # {} /\ stamp[u] # {} =>
                 listing[t].files \cap listing[u].files \subseteq Whitelisted

(* No process waits for ever for PACKAGELOCK (sstate.bbclass:181, 440).    *)
Finishes == \A t \in Tasks : pc[t] # "idle" ~> pc[t] = "idle"

(* In the last invocation every task asked for ends stamped or failed.     *)
BuildEnds == <>[](\A t \in Tasks : ~Needed(t))

(* Both: the waits for PACKAGELOCK end, and so does the build, whoever was *)
(* killed (sstate.bbclass:181, 272-283, 437-443).                          *)
Progress == Finishes /\ BuildEnds
=============================================================================
