------------------------ MODULE SstateStagingProofs ------------------------
(* What holds of SstateStaging for any tasks, files, hashes and bounds.    *)
EXTENDS SstateStaging, TLAPS

(* The types of the variables (all of sstate.bbclass's staging state).     *)
LEMMA TypeInit == Init => TypeOK
<1> SUFFICES ASSUME Init PROVE TypeOK
  OBVIOUS
<1>. USE ConstantsAssumption DEF Init
<1>1. Empty \in Listing
  BY DEF Empty, Listing
<1>2. DiskTypeOK
  BY <1>1 DEF DiskTypeOK
<1>3. ProcTypeOK
  BY DEF ProcTypeOK, Procs, PC
<1>4. BuildTypeOK /\ CountTypeOK
  BY DEF BuildTypeOK, CountTypeOK
<1> QED
  BY <1>2, <1>3, <1>4 DEF TypeOK

(* A process that dies leaves the types of the processes, the lock and     *)
(* BitBake's sets right.                                                   *)
LEMMA DiesType ==
  ASSUME NEW p \in Procs, ProcTypeOK, BuildTypeOK, Dies(p)
  PROVE  ProcTypeOK' /\ BuildTypeOK'
<1>1. pc' \in [Procs -> PC] /\ todo' \in [Procs -> SUBSET Files]
      /\ cur' \in [Procs -> SUBSET Dirs]
  BY DEF Dies, ProcTypeOK, PC
<1>2. shared' \subseteq Procs /\ excl' \in Procs \cup {None}
  BY DEF Dies, Unlock, ProcTypeOK
<1>3. tried' \subseteq Procs /\ failed' \subseteq Procs
  BY DEF Dies, BuildTypeOK
<1> QED
  BY <1>1, <1>2, <1>3 DEF Dies, ProcTypeOK, BuildTypeOK

(* Taking or leaving the lock, and a step of pc.                           *)
LEMMA LockType ==
  ASSUME NEW p \in Procs, ProcTypeOK,
         LockShared(p) \/ LockExclusive(p) \/ Unlock(p) \/ UNCHANGED lock
  PROVE  shared' \subseteq Procs /\ excl' \in Procs \cup {None}
  BY DEF LockShared, LockExclusive, Unlock, lock, ProcTypeOK

LEMMA TypeStep == TypeOK /\ [Next]_vars => TypeOK'
<1> SUFFICES ASSUME TypeOK, [Next]_vars PROVE TypeOK'
  OBVIOUS
<1>. USE DEF disk, lock, proc, build, count
<1>. DiskTypeOK /\ ProcTypeOK /\ BuildTypeOK /\ CountTypeOK
  BY DEF TypeOK
<1>0. \A t \in Tasks : Full(t) \in Listing /\ t \in Procs
  BY ConstantsAssumption DEF Full, Listing, DirsOf, BuildTypeOK, Procs
<1>1. Empty \in Listing
  BY DEF Empty, Listing
<1>2. CASE NewBuild
  BY <1>2, ConstantsAssumption DEF NewBuild, TypeOK, DiskTypeOK, ProcTypeOK, BuildTypeOK, CountTypeOK
<1>3. ASSUME NEW r \in Readers, ReadStep(r) PROVE TypeOK'
  <2>0. r \in Procs
    BY DEF Procs
  <2>1. CASE ReadList(r)
    BY <2>0, <2>1, LockType DEF ReadList, Goto, PC, TypeOK, DiskTypeOK, ProcTypeOK, BuildTypeOK, CountTypeOK
  <2>2. CASE ReadFile(r)
    <3>1. CASE Dies(r)
      BY <2>0, <2>2, <3>1, DiesType DEF ReadFile, TypeOK, DiskTypeOK, CountTypeOK
    <3>2. CASE ~Dies(r)
      BY <2>0, <2>2, <3>2 DEF ReadFile, TypeOK, DiskTypeOK, ProcTypeOK, BuildTypeOK, CountTypeOK
    <3> QED
      BY <3>1, <3>2
  <2>3. CASE ReadDone(r)
    BY <2>0, <2>3, LockType DEF ReadDone, Goto, PC, TypeOK, DiskTypeOK, ProcTypeOK, BuildTypeOK, CountTypeOK
  <2> QED
    BY <1>3, <2>1, <2>2, <2>3 DEF ReadStep
<1>4. ASSUME NEW t \in Tasks, StartStep(t) PROVE TypeOK'
  BY <1>0, <1>4 DEF StartStep, StartSetscene, StartRun, StartClean, Start, Goto, PC, TypeOK, DiskTypeOK, ProcTypeOK, BuildTypeOK, CountTypeOK
<1>5. ASSUME NEW t \in Tasks, CleanStep(t) PROVE TypeOK'
  <2>1. CASE Clean(t)
    BY <1>0, <2>1 DEF Clean, Goto, PC, TypeOK, DiskTypeOK, ProcTypeOK, BuildTypeOK, CountTypeOK
  <2>2. CASE CleanLock(t)
    BY <1>0, <2>2, LockType DEF CleanLock, Goto, PC, TypeOK, DiskTypeOK, ProcTypeOK, BuildTypeOK, CountTypeOK, Listing
  <2>3. CASE CleanFile(t)
    <3>1. mishaps' \in 0..MaxMishaps
      BY <2>3, ConstantsAssumption DEF CleanFile, Fault, CountTypeOK
    <3>2. area' \in [Files -> Tasks \cup {None}] /\ left' \subseteq Files
      BY <1>0, <2>3 DEF CleanFile, DiskTypeOK, ProcTypeOK, CountTypeOK
    <3> QED
      BY <1>0, <2>3, <3>1, <3>2 DEF CleanFile, TypeOK, DiskTypeOK, ProcTypeOK, BuildTypeOK, CountTypeOK
  <2>4. CASE CleanFilesDone(t)
    BY <1>0, <2>4 DEF CleanFilesDone, Goto, PC, TypeOK, DiskTypeOK, ProcTypeOK, BuildTypeOK, CountTypeOK, Listing
  <2>5. CASE CleanDir(t)
    <3>1. mishaps' \in 0..MaxMishaps
      BY <2>5, ConstantsAssumption DEF CleanDir, Fault, CountTypeOK
    <3>2. area' \in [Files -> Tasks \cup {None}] /\ dirs' \subseteq Dirs
      BY <2>5 DEF CleanDir, Without, DiskTypeOK
    <3>3. left' \subseteq Files
      BY <2>5 DEF CleanDir, CountTypeOK
    <3> QED
      BY <1>0, <2>5, <3>1, <3>2, <3>3 DEF CleanDir, TypeOK, DiskTypeOK, ProcTypeOK, BuildTypeOK, CountTypeOK
  <2>6. CASE CleanManifest(t)
    BY <1>0, <1>1, <2>6, LockType DEF CleanManifest, Goto, PC, TypeOK, DiskTypeOK, ProcTypeOK, BuildTypeOK, CountTypeOK
  <2>7. CASE CleanStamps(t)
    BY <1>0, <2>7 DEF CleanStamps, Goto, PC, TypeOK, DiskTypeOK, ProcTypeOK, BuildTypeOK, CountTypeOK
  <2> QED
    BY <1>5, <2>1, <2>2, <2>3, <2>4, <2>5, <2>6, <2>7 DEF CleanStep
<1>6. ASSUME NEW t \in Tasks, InstallStep(t) PROVE TypeOK'
  <2>1. CASE Install(t)
    <3>1. CASE Dies(t)
      BY <1>0, <2>1, <3>1, DiesType DEF Install, TypeOK, DiskTypeOK, CountTypeOK
    <3>2. CASE ~Dies(t)
      BY <1>0, <2>1, <3>2 DEF Install, PC, TypeOK, DiskTypeOK, ProcTypeOK, BuildTypeOK, CountTypeOK
    <3> QED
      BY <3>1, <3>2
  <2>2. CASE InstallLock(t)
    <3>1. Output[t][want[t]] \subseteq Files
      BY ConstantsAssumption DEF BuildTypeOK
    <3>2. shared' \subseteq Procs /\ excl' \in Procs \cup {None}
      BY <1>0, <2>2, LockType DEF InstallLock
    <3>3. pc' \in [Procs -> PC] /\ todo' \in [Procs -> SUBSET Files]
      BY <1>0, <2>2, <3>1 DEF InstallLock, Goto, PC, ProcTypeOK
    <3> QED
      BY <2>2, <3>2, <3>3 DEF InstallLock, TypeOK, DiskTypeOK, ProcTypeOK, BuildTypeOK, CountTypeOK
  <2>3. CASE CheckFile(t)
    <3>1. CASE Dies(t)
      BY <1>0, <2>3, <3>1, DiesType DEF CheckFile, TypeOK, DiskTypeOK, CountTypeOK
    <3>2. CASE ~Dies(t)
      BY <1>0, <2>3, <3>2 DEF CheckFile, PC, TypeOK, DiskTypeOK, ProcTypeOK, BuildTypeOK, CountTypeOK
    <3> QED
      BY <3>1, <3>2
  <2>4. CASE OpenManifest(t)
    BY <1>0, <1>1, <2>4 DEF OpenManifest, Goto, PC, TypeOK, DiskTypeOK, ProcTypeOK, BuildTypeOK, CountTypeOK
  <2>5. CASE WriteManifest(t)
    BY <1>0, <2>5 DEF WriteManifest, Goto, PC, TypeOK, DiskTypeOK, ProcTypeOK, BuildTypeOK, CountTypeOK
  <2>6. CASE MakeDirs(t)
    BY <1>0, <2>6 DEF MakeDirs, Goto, PC, TypeOK, DiskTypeOK, ProcTypeOK, BuildTypeOK, CountTypeOK, Listing
  <2>7. CASE EnterDir(t)
    BY <1>0, <2>7, ConstantsAssumption DEF EnterDir, Goto, PC, TypeOK, DiskTypeOK, ProcTypeOK, BuildTypeOK, CountTypeOK, DirsOf
  <2>8. CASE CopyFile(t)
    <3>1. CASE Dies(t)
      BY <1>0, <2>8, <3>1, DiesType DEF CopyFile, TypeOK, DiskTypeOK, CountTypeOK
    <3>2. CASE ~Dies(t)
      BY <1>0, <2>8, <3>2 DEF CopyFile, PC, TypeOK, DiskTypeOK, ProcTypeOK, BuildTypeOK, CountTypeOK, Here
    <3> QED
      BY <3>1, <3>2
  <2>9. CASE LeaveDir(t)
    BY <1>0, <2>9 DEF LeaveDir, Goto, PC, TypeOK, DiskTypeOK, ProcTypeOK, BuildTypeOK, CountTypeOK
  <2>10. CASE InstallDone(t)
    BY <1>0, <2>10, LockType DEF InstallDone, Goto, PC, TypeOK, DiskTypeOK, ProcTypeOK, BuildTypeOK, CountTypeOK
  <2> QED
    BY <1>6, <2>1, <2>2, <2>3, <2>4, <2>5, <2>6, <2>7, <2>8, <2>9, <2>10 DEF InstallStep
<1>7. ASSUME NEW t \in Tasks, LookupPackage(t) \/ Make(t) \/ Package(t) \/ MakeStamp(t) PROVE TypeOK'
  <2>1. CASE LookupPackage(t)
    <3>1. CASE Dies(t)
      BY <1>0, <2>1, <3>1, DiesType DEF LookupPackage, TypeOK, DiskTypeOK, CountTypeOK
    <3>2. CASE ~Dies(t)
      BY <1>0, <2>1, <3>2 DEF LookupPackage, PC, TypeOK, DiskTypeOK, ProcTypeOK, BuildTypeOK, CountTypeOK
    <3> QED
      BY <3>1, <3>2
  <2>2. CASE Make(t)
    <3>1. CASE Dies(t)
      BY <1>0, <2>2, <3>1, DiesType DEF Make, TypeOK, DiskTypeOK, CountTypeOK
    <3>2. CASE ~Dies(t)
      BY <1>0, <2>2, <3>2 DEF Make, PC, TypeOK, DiskTypeOK, ProcTypeOK, BuildTypeOK, CountTypeOK
    <3> QED
      BY <3>1, <3>2
  <2>3. CASE Package(t)
    BY <1>0, <2>3 DEF Package, Goto, PC, TypeOK, DiskTypeOK, ProcTypeOK, BuildTypeOK, CountTypeOK
  <2>4. CASE MakeStamp(t)
    BY <1>0, <2>4 DEF MakeStamp, Goto, PC, TypeOK, DiskTypeOK, ProcTypeOK, BuildTypeOK, CountTypeOK
  <2> QED
    BY <1>7, <2>1, <2>2, <2>3, <2>4
<1>8. ASSUME NEW t \in Tasks, Kill(t) PROVE TypeOK'
  <2>1. ProcTypeOK' /\ BuildTypeOK'
    BY <1>0, <1>8, DiesType DEF Kill
  <2>2. DiskTypeOK'
    BY <1>0, <1>8 DEF Kill, CutAt, DirsOf, Full, Listing, DiskTypeOK
  <2>3. CountTypeOK'
    BY <1>0, <1>8, ConstantsAssumption DEF Kill, CutAt, CountTypeOK
  <2> QED
    BY <2>1, <2>2, <2>3 DEF TypeOK
<1>9. CASE UNCHANGED vars
  BY <1>9 DEF vars, TypeOK, DiskTypeOK, ProcTypeOK, BuildTypeOK, CountTypeOK
<1> QED
  BY <1>2, <1>3, <1>4, <1>5, <1>6, <1>7, <1>8, <1>9 DEF Next, TaskStep

THEOREM TypeCorrect == Spec => []TypeOK
<1> QED
  BY TypeInit, TypeStep, PTL DEF Spec

-----------------------------------------------------------------------------
(* Listed is not inductive: a copier must know that its manifest lists     *)
(* what it still has to copy, and a cleaner that every file of the task    *)
(* still present is in what it read from the manifest, or could not be     *)
(* removed.                                                                *)
ManifestInv == \A t \in Tasks :
  /\ pc[t] \in {"install_lock", "check"} => t \notin manifests
  /\ pc[t] = "manifest_write" => t \in manifests /\ listing[t] = Empty
  /\ pc[t] = "make_dirs" => t \in manifests
  /\ pc[t] \in {"copy", "copy_files"} => t \in manifests /\ todo[t] \subseteq listing[t].files
  /\ pc[t] = "clean_files" => \A f \in Files : area[f] = t => f \in todo[t] \cup left
  /\ pc[t] = "clean_dirs" => \A f \in Files : area[f] = t => f \in left

ListedInv == TypeOK /\ Listed /\ ManifestInv

LEMMA ListedInit == Init => ListedInv
<1> SUFFICES ASSUME Init PROVE ListedInv
  OBVIOUS
<1>1. Listed
  BY DEF Init, Listed
<1>2. ManifestInv
  BY DEF Init, ManifestInv, Procs
<1> QED
  BY <1>1, <1>2, TypeInit DEF ListedInv

LEMMA ListedStep == ListedInv /\ [Next]_vars => ListedInv'
<1> SUFFICES ASSUME ListedInv, [Next]_vars PROVE Listed' /\ ManifestInv'
  BY TypeStep DEF ListedInv
<1>. USE DEF disk, lock, proc, build, count
<1>0. TypeOK /\ Listed /\ ManifestInv /\ DiskTypeOK /\ ProcTypeOK
  BY DEF ListedInv, TypeOK
<1>1. CASE NewBuild
  BY <1>0, <1>1 DEF NewBuild, Listed, ManifestInv
<1>2. ASSUME NEW r \in Readers, ReadStep(r) PROVE Listed' /\ ManifestInv'
  <2>1. UNCHANGED <<area, manifests, listing, left>>
    BY <1>2 DEF ReadStep, ReadList, ReadFile, ReadDone
  <2>2. \A t \in Tasks : t \in Procs /\ t # r
    BY ConstantsAssumption DEF Procs
  <2>3. \A t \in Tasks : pc'[t] = pc[t] /\ todo'[t] = todo[t]
    BY <1>0, <1>2, <2>2 DEF ReadStep, ReadList, ReadFile, ReadDone, Dies, Goto, ProcTypeOK
  <2>4. Listed'
    BY <1>0, <2>1 DEF Listed
  <2>5. ManifestInv'
    BY <1>0, <2>1, <2>3 DEF ManifestInv
  <2> QED
    BY <2>4, <2>5
<1>3. ASSUME NEW t \in Tasks, StartStep(t) PROVE Listed' /\ ManifestInv'
  BY <1>0, <1>3 DEF StartStep, StartSetscene, StartRun, StartClean, Start, Goto, Listed, ManifestInv, DiskTypeOK, ProcTypeOK, Procs
<1>4. ASSUME NEW t \in Tasks, CleanStep(t) PROVE Listed' /\ ManifestInv'
  <2>1. CASE Clean(t)
    BY <2>1, <1>0, ConstantsAssumption DEF Clean, Goto, Listed, ManifestInv, DiskTypeOK, ProcTypeOK, Procs
  <2>2. CASE CleanLock(t)
    BY <2>2, <1>0, ConstantsAssumption DEF CleanLock, Goto, Listed, ManifestInv, DiskTypeOK, ProcTypeOK, Procs
  <2>3. CASE CleanFile(t)
    <3>1. \A u \in Tasks : u # None /\ u \in Procs
      BY ConstantsAssumption DEF Procs
    <3>2. PICK f \in todo[t] : todo' = [todo EXCEPT ![t] = @ \ {f}]
                             /\ \/ area' = [area EXCEPT ![f] = None] /\ left' = left \ {f}
                                \/ area' = area /\ left' = IF area[f] = t THEN left \cup {f} ELSE left
      BY <2>3 DEF CleanFile
    <3>3. UNCHANGED <<pc, manifests, listing>> /\ f \in Files
      BY <1>0, <2>3, <3>1 DEF CleanFile, ProcTypeOK
    <3>4. \A g \in Files : /\ area'[g] # None => area'[g] = area[g]
                           /\ (g \in left /\ area'[g] # None) => g \in left'
                           /\ g = f => (area'[g] # t \/ g \in left')
      BY <1>0, <3>1, <3>2, <3>3 DEF DiskTypeOK
    <3>5. \A u \in Tasks : u # t => todo'[u] = todo[u]
      BY <1>0, <3>1, <3>2 DEF ProcTypeOK
    <3>6. todo'[t] = todo[t] \ {f}
      BY <1>0, <3>1, <3>2 DEF ProcTypeOK
    <3>7. Listed'
      <4> SUFFICES ASSUME NEW g \in Files \ left', area'[g] # None
                   PROVE  area'[g] \in manifests' /\ g \in listing'[area'[g]].files
        BY DEF Listed
      <4>1. g \in Files \ left /\ area'[g] = area[g]
        BY <3>4
      <4> QED
        BY <1>0, <3>3, <4>1 DEF Listed
    <3>8. ManifestInv'
      <4>1. ASSUME NEW u \in Tasks, NEW g \in Files, area'[g] = u
            PROVE  /\ pc'[u] = "clean_files" => g \in todo'[u] \cup left'
                   /\ pc'[u] = "clean_dirs" => g \in left'
        <5>1. area[g] = u
          BY <3>1, <3>4, <4>1
        <5>2. /\ pc[u] = "clean_files" => g \in todo[u] \cup left
              /\ pc[u] = "clean_dirs" => g \in left
          BY <1>0, <5>1 DEF ManifestInv
        <5> QED
          BY <3>1, <3>3, <3>4, <3>5, <3>6, <4>1, <5>1, <5>2
      <4>2. ASSUME NEW u \in Tasks PROVE todo'[u] \subseteq todo[u]
        BY <3>5, <3>6
      <4> QED
        BY <1>0, <3>3, <4>1, <4>2 DEF ManifestInv
    <3> QED
      BY <3>7, <3>8
  <2>4. CASE CleanFilesDone(t)
    BY <2>4, <1>0, ConstantsAssumption DEF CleanFilesDone, Goto, Listed, ManifestInv, DiskTypeOK, ProcTypeOK, Procs
  <2>5. CASE CleanDir(t)
    BY <2>5, <1>0, ConstantsAssumption DEF CleanDir, Without, Listed, ManifestInv, DiskTypeOK, ProcTypeOK, Procs
  <2>6. CASE CleanManifest(t)
    BY <2>6, <1>0, ConstantsAssumption DEF CleanManifest, Goto, Listed, ManifestInv, DiskTypeOK, ProcTypeOK, Procs
  <2>7. CASE CleanStamps(t)
    BY <2>7, <1>0, ConstantsAssumption DEF CleanStamps, Goto, Listed, ManifestInv, DiskTypeOK, ProcTypeOK, Procs
  <2> QED
    BY <1>4, <2>1, <2>2, <2>3, <2>4, <2>5, <2>6, <2>7 DEF CleanStep
<1>5. ASSUME NEW t \in Tasks, InstallStep(t) PROVE Listed' /\ ManifestInv'
  <2>1. CASE Install(t)
    BY <2>1, <1>0, ConstantsAssumption DEF Install, Goto, Listed, ManifestInv, DiskTypeOK, ProcTypeOK, Procs, Dies
  <2>2. CASE InstallLock(t)
    BY <2>2, <1>0, ConstantsAssumption DEF InstallLock, Goto, Listed, ManifestInv, DiskTypeOK, ProcTypeOK, Procs
  <2>3. CASE CheckFile(t)
    BY <2>3, <1>0, ConstantsAssumption DEF CheckFile, Goto, Listed, ManifestInv, DiskTypeOK, ProcTypeOK, Procs, Dies
  <2>4. CASE OpenManifest(t)
    BY <2>4, <1>0, ConstantsAssumption DEF OpenManifest, Goto, Listed, ManifestInv, DiskTypeOK, ProcTypeOK, Procs, Empty
  <2>5. CASE WriteManifest(t)
    BY <2>5, <1>0, ConstantsAssumption DEF WriteManifest, Goto, Listed, ManifestInv, DiskTypeOK, ProcTypeOK, Procs, Full, Empty
  <2>6. CASE MakeDirs(t)
    BY <2>6, <1>0, ConstantsAssumption DEF MakeDirs, Goto, Listed, ManifestInv, DiskTypeOK, ProcTypeOK, Procs, Listing
  <2>7. CASE EnterDir(t)
    BY <2>7, <1>0, ConstantsAssumption DEF EnterDir, Goto, Listed, ManifestInv, DiskTypeOK, ProcTypeOK, Procs
  <2>8. CASE CopyFile(t)
    <3>1. CASE Dies(t) /\ UNCHANGED <<area, left>>
      BY <1>0, <2>8, <3>1 DEF CopyFile, Dies, Listed, ManifestInv, DiskTypeOK, ProcTypeOK, Procs
    <3>2. ASSUME NEW f \in Files, f \in todo[t], pc[t] = "copy_files",
                 area' = [area EXCEPT ![f] = t], todo' = [todo EXCEPT ![t] = @ \ {f}],
                 left' = left \ {f}, UNCHANGED <<pc, manifests, listing>>
          PROVE  Listed' /\ ManifestInv'
      <4>1. t \in manifests /\ f \in listing[t].files /\ t # None
        BY <1>0, <3>2, ConstantsAssumption DEF ManifestInv, Procs
      <4>2. Listed'
        BY <1>0, <3>2, <4>1 DEF Listed, DiskTypeOK
      <4>3. ManifestInv'
        BY <1>0, <3>2, <4>1 DEF ManifestInv, DiskTypeOK, ProcTypeOK, Procs
      <4> QED
        BY <4>2, <4>3
    <3> QED
      BY <1>0, <2>8, <3>1, <3>2 DEF CopyFile, Here, ProcTypeOK, Procs
  <2>9. CASE LeaveDir(t)
    BY <2>9, <1>0, ConstantsAssumption DEF LeaveDir, Goto, Listed, ManifestInv, DiskTypeOK, ProcTypeOK, Procs
  <2>10. CASE InstallDone(t)
    BY <2>10, <1>0, ConstantsAssumption DEF InstallDone, Goto, Listed, ManifestInv, DiskTypeOK, ProcTypeOK, Procs
  <2> QED
    BY <1>5, <2>1, <2>2, <2>3, <2>4, <2>5, <2>6, <2>7, <2>8, <2>9, <2>10 DEF InstallStep
<1>6. ASSUME NEW t \in Tasks, LookupPackage(t) \/ Make(t) \/ Package(t) \/ MakeStamp(t)
      PROVE Listed' /\ ManifestInv'
  BY <1>0, <1>6 DEF LookupPackage, Make, Package, MakeStamp, Dies, Goto, Listed, ManifestInv, DiskTypeOK, ProcTypeOK, Procs
<1>7. ASSUME NEW t \in Tasks, Kill(t) PROVE Listed' /\ ManifestInv'
  <2>1. pc[t] = "manifest_write" => \A f \in Files \ left : area[f] # t
    BY <1>0, ConstantsAssumption DEF Listed, ManifestInv, Empty, Procs
  <2>2. \A u \in Tasks \ {t} : listing'[u] = listing[u]
    BY <1>0, <1>7 DEF Kill, DiskTypeOK
  <2>3. pc[t] # "manifest_write" => listing' = listing
    BY <1>7 DEF Kill
  <2>4. UNCHANGED <<area, manifests, left>>
    BY <1>7 DEF Kill
  <2>5. Listed'
    <3>1. ASSUME NEW f \in Files \ left', area'[f] # None
          PROVE  area'[f] \in manifests' /\ f \in listing'[area'[f]].files
      <4>1. area'[f] = area[f] /\ manifests' = manifests /\ f \in Files \ left
        BY <2>4
      <4>a. area[f] # None /\ f \in Files \ left
        BY <3>1, <4>1
      <4>2. area[f] \in Tasks /\ area[f] \in manifests /\ f \in listing[area[f]].files
        BY <1>0, <4>a DEF Listed, DiskTypeOK
      <4>3. listing'[area[f]] = listing[area[f]]
        BY <2>1, <2>2, <2>3, <4>a, <4>2
      <4> QED
        BY <4>1, <4>2, <4>3
    <3> QED
      BY <3>1 DEF Listed
  <2>6. pc'[t] = "idle" /\ \A u \in Tasks \ {t} : pc'[u] = pc[u] /\ todo'[u] = todo[u]
    BY <1>0, <1>7 DEF Kill, Dies, ProcTypeOK, Procs
  <2>7. ManifestInv'
    BY <1>0, <2>2, <2>4, <2>6 DEF ManifestInv
  <2> QED
    BY <2>5, <2>7
<1>8. CASE UNCHANGED vars
  BY <1>0, <1>8 DEF vars, Listed, ManifestInv
<1> QED
  BY <1>1, <1>2, <1>3, <1>4, <1>5, <1>6, <1>7, <1>8 DEF Next, TaskStep

(* Whatever is killed when, a file in the shared area is listed in the     *)
(* manifest of the task that put it there (sstate.bbclass:245-276,         *)
(* 394-420), unless the clean of its task failed to remove it: for any     *)
(* tasks, files and numbers of kills and of removals that fail.            *)
THEOREM FilesListed == Spec => []Listed
<1>1. Spec => []ListedInv
  BY ListedInit, ListedStep, PTL DEF Spec
<1> QED
  BY <1>1, PTL DEF ListedInv

-----------------------------------------------------------------------------
(* PACKAGELOCK: a cleaner and a reader hold it exclusively for as long as  *)
(* they remove or read, a copier shares it for as long as it copies.       *)
LockInv ==
  /\ excl # None => shared = {}
  /\ \A t \in Locked :
       /\ pc[t] \in {"clean_files", "clean_dirs"} => excl = t
       /\ pc[t] \in {"check", "manifest_write", "make_dirs", "copy", "copy_files"} => t \in shared
  /\ \A r \in Readers : /\ pc[r] \in {"idle", "read"}
                        /\ pc[r] = "read" => excl = r
                        /\ pc[r] # "read" => todo[r] = {}

LockedInv == TypeOK /\ LockInv /\ ReaderFindsFiles /\ CopierKeepsDir

LEMMA LockStep == TypeOK /\ LockInv /\ [Next]_vars => LockInv'
<1> SUFFICES ASSUME TypeOK, LockInv, [Next]_vars PROVE LockInv'
  OBVIOUS
<1>. USE DEF disk, lock, proc, build, count
<1>0. TypeOK /\ LockInv /\ ProcTypeOK
  BY DEF TypeOK
<1>1. CASE NewBuild
  BY <1>0, <1>1 DEF NewBuild, LockInv
<1>2. ASSUME NEW r \in Readers, ReadStep(r) PROVE LockInv'
  BY <1>0, <1>2, ConstantsAssumption DEF ReadStep, ReadList, ReadFile, ReadDone, Dies, Goto, LockInv, ProcTypeOK, Procs, LockShared, LockExclusive, Unlock
<1>3. ASSUME NEW t \in Tasks, StartStep(t) PROVE LockInv'
  BY <1>0, <1>3, ConstantsAssumption DEF StartStep, StartSetscene, StartRun, StartClean, Start, Goto, LockInv, ProcTypeOK, Procs
<1>4. ASSUME NEW t \in Tasks, CleanStep(t) PROVE LockInv'
  <2>1. CASE Clean(t)
    BY <1>0, <2>1, ConstantsAssumption DEF Clean, Goto, LockInv, ProcTypeOK, Procs
  <2>2. CASE CleanLock(t)
    BY <1>0, <2>2, ConstantsAssumption DEF CleanLock, Goto, LockInv, ProcTypeOK, Procs, LockShared, LockExclusive, Unlock
  <2>3. CASE CleanFile(t)
    BY <1>0, <2>3, ConstantsAssumption DEF CleanFile, Goto, LockInv, ProcTypeOK, Procs
  <2>4. CASE CleanFilesDone(t)
    BY <1>0, <2>4, ConstantsAssumption DEF CleanFilesDone, Goto, LockInv, ProcTypeOK, Procs
  <2>5. CASE CleanDir(t)
    BY <1>0, <2>5, ConstantsAssumption DEF CleanDir, Goto, LockInv, ProcTypeOK, Procs
  <2>6. CASE CleanManifest(t)
    BY <1>0, <2>6, ConstantsAssumption DEF CleanManifest, Goto, LockInv, ProcTypeOK, Procs, LockShared, LockExclusive, Unlock
  <2>7. CASE CleanStamps(t)
    BY <1>0, <2>7, ConstantsAssumption DEF CleanStamps, Goto, LockInv, ProcTypeOK, Procs
  <2> QED
    BY <1>4, <2>1, <2>2, <2>3, <2>4, <2>5, <2>6, <2>7 DEF CleanStep
<1>5. ASSUME NEW t \in Tasks, InstallStep(t) PROVE LockInv'
  <2>1. CASE Install(t)
    BY <1>0, <2>1, ConstantsAssumption DEF Install, Goto, LockInv, ProcTypeOK, Procs, Dies, LockShared, LockExclusive, Unlock
  <2>2. CASE InstallLock(t)
    BY <1>0, <2>2, ConstantsAssumption DEF InstallLock, Goto, LockInv, ProcTypeOK, Procs, LockShared, LockExclusive, Unlock
  <2>3. CASE CheckFile(t)
    BY <1>0, <2>3, ConstantsAssumption DEF CheckFile, Goto, LockInv, ProcTypeOK, Procs, Dies, LockShared, LockExclusive, Unlock
  <2>4. CASE OpenManifest(t)
    BY <1>0, <2>4, ConstantsAssumption DEF OpenManifest, Goto, LockInv, ProcTypeOK, Procs
  <2>5. CASE WriteManifest(t)
    BY <1>0, <2>5, ConstantsAssumption DEF WriteManifest, Goto, LockInv, ProcTypeOK, Procs
  <2>6. CASE MakeDirs(t)
    BY <1>0, <2>6, ConstantsAssumption DEF MakeDirs, Goto, LockInv, ProcTypeOK, Procs
  <2>7. CASE EnterDir(t)
    BY <1>0, <2>7, ConstantsAssumption DEF EnterDir, Goto, LockInv, ProcTypeOK, Procs
  <2>8. CASE CopyFile(t)
    BY <1>0, <2>8, ConstantsAssumption DEF CopyFile, Goto, LockInv, ProcTypeOK, Procs, Dies, LockShared, LockExclusive, Unlock
  <2>9. CASE LeaveDir(t)
    BY <1>0, <2>9, ConstantsAssumption DEF LeaveDir, Goto, LockInv, ProcTypeOK, Procs
  <2>10. CASE InstallDone(t)
    BY <1>0, <2>10, ConstantsAssumption DEF InstallDone, Goto, LockInv, ProcTypeOK, Procs, LockShared, LockExclusive, Unlock
  <2> QED
    BY <1>5, <2>1, <2>2, <2>3, <2>4, <2>5, <2>6, <2>7, <2>8, <2>9, <2>10 DEF InstallStep
<1>6. ASSUME NEW t \in Tasks, LookupPackage(t) \/ Make(t) \/ Package(t) \/ MakeStamp(t)
      PROVE LockInv'
  BY <1>0, <1>6, ConstantsAssumption DEF LookupPackage, Make, Package, MakeStamp, Dies, Goto, LockInv, ProcTypeOK, Procs, LockShared, LockExclusive, Unlock
<1>7. ASSUME NEW t \in Tasks, Kill(t) PROVE LockInv'
  BY <1>0, <1>7, ConstantsAssumption DEF Kill, Dies, Goto, LockInv, ProcTypeOK, Procs, LockShared, LockExclusive, Unlock
<1>8. CASE UNCHANGED vars
  BY <1>0, <1>8 DEF vars, LockInv
<1> QED
  BY <1>1, <1>2, <1>3, <1>4, <1>5, <1>6, <1>7, <1>8 DEF Next, TaskStep

LEMMA LockedInit == Init => LockedInv
<1> SUFFICES ASSUME Init PROVE LockedInv
  OBVIOUS
<1>1. LockInv
  BY ConstantsAssumption DEF Init, LockInv, Procs
<1>2. ReaderFindsFiles /\ CopierKeepsDir
  BY ConstantsAssumption DEF Init, ReaderFindsFiles, CopierKeepsDir, Procs
<1> QED
  BY <1>1, <1>2, TypeInit DEF LockedInv

(* A step that takes a file or a directory away is a cleaner's, and while  *)
(* a cleaner holds the lock there is neither a reader nor a copier.        *)
LEMMA OnlyCleanersRemove ==
  ASSUME Locked = Tasks, TypeOK, LockInv, [Next]_vars, CopierKeepsDir,
         \/ \E f \in Files : area[f] # None /\ area'[f] = None
         \/ ~(dirs \subseteq dirs')
  PROVE  /\ \A r \in Readers : todo'[r] = {}
         /\ \A t \in Tasks : pc'[t] # "copy_files"
<1>. USE DEF disk, lock, proc, build, count
<1>0. DiskTypeOK /\ ProcTypeOK
  BY DEF TypeOK
<1>1. \A t \in Tasks : t # None /\ t \in Procs
  BY ConstantsAssumption DEF Procs
<1>2. PICK t \in Tasks : CleanFile(t) \/ CleanDir(t)
  <2>1. CASE NewBuild \/ UNCHANGED vars
    BY <2>1 DEF NewBuild, vars
  <2>2. ASSUME NEW r \in Readers, ReadStep(r) PROVE FALSE
    BY <2>2 DEF ReadStep, ReadList, ReadFile, ReadDone
  <2>3. ASSUME NEW t \in Tasks, StartStep(t) \/ Kill(t) PROVE FALSE
    BY <2>3 DEF StartStep, StartSetscene, StartRun, StartClean, Start, Kill
  <2>4. ASSUME NEW t \in Tasks, LookupPackage(t) \/ Make(t) \/ Package(t) \/ MakeStamp(t)
        PROVE FALSE
    BY <2>4 DEF LookupPackage, Make, Package, MakeStamp
  <2>5. ASSUME NEW t \in Tasks, InstallStep(t) PROVE FALSE
    BY <1>0, <1>1, <2>5 DEF InstallStep, Install, InstallLock, CheckFile, OpenManifest, WriteManifest,
         MakeDirs, EnterDir, CopyFile, LeaveDir, InstallDone, DiskTypeOK
  <2>6. ASSUME NEW t \in Tasks, CleanStep(t) PROVE CleanFile(t) \/ CleanDir(t)
    BY <2>6 DEF CleanStep, Clean, CleanLock, CleanFilesDone, CleanManifest, CleanStamps
  <2> QED
    BY <2>1, <2>2, <2>3, <2>4, <2>5, <2>6 DEF Next, TaskStep
<1>3. pc[t] \in {"clean_files", "clean_dirs"} /\ UNCHANGED pc
  BY <1>2 DEF CleanFile, CleanDir
<1>4. excl = t /\ shared = {}
  BY <1>1, <1>3 DEF LockInv
<1>5. \A r \in Readers : r # t /\ todo'[r] = todo[r]
  BY <1>0, <1>2, ConstantsAssumption DEF CleanFile, CleanDir, ProcTypeOK, Procs
<1>6. \A r \in Readers : todo'[r] = {}
  BY <1>4, <1>5 DEF LockInv
<1>7. \A u \in Tasks : pc'[u] # "copy_files"
  BY <1>3, <1>4 DEF LockInv
<1> QED
  BY <1>6, <1>7

LEMMA LockedStep ==
  ASSUME Locked = Tasks
  PROVE  LockedInv /\ [Next]_vars => LockedInv'
<1> SUFFICES ASSUME LockedInv, [Next]_vars PROVE ReaderFindsFiles' /\ CopierKeepsDir'
  BY TypeStep, LockStep DEF LockedInv
<1>. USE DEF disk, lock, proc, build, count
<1>0. TypeOK /\ LockInv /\ ReaderFindsFiles /\ CopierKeepsDir /\ DiskTypeOK /\ ProcTypeOK
  BY DEF LockedInv, TypeOK
<1>1. \A t \in Tasks : t # None /\ t \in Procs /\ t \notin Readers
  BY ConstantsAssumption DEF Procs
<1>2. CASE \E f \in Files : area[f] # None /\ area'[f] = None
  BY <1>0, <1>2, OnlyCleanersRemove DEF ReaderFindsFiles, CopierKeepsDir
<1>3. CASE ~(dirs \subseteq dirs')
  BY <1>0, <1>3, OnlyCleanersRemove DEF ReaderFindsFiles, CopierKeepsDir
<1>4. CASE (\A f \in Files : area[f] # None => area'[f] # None) /\ dirs \subseteq dirs'
  <2>1. ASSUME NEW r \in Readers PROVE todo'[r] \subseteq {f \in Files : area[f] # None}
    <3>1. todo[r] \subseteq {f \in Files : area[f] # None} /\ r \in Procs
      BY <1>0 DEF ReaderFindsFiles, ProcTypeOK, Procs
    <3>2. todo'[r] \subseteq todo[r] \/ todo'[r] = {f \in Files : area[f] # None}
      <4>1. CASE NewBuild \/ UNCHANGED vars
        BY <4>1 DEF NewBuild, vars
      <4>2. ASSUME NEW q \in Readers, ReadStep(q)
            PROVE  todo'[r] \subseteq todo[r] \/ todo'[r] = {f \in Files : area[f] # None}
        BY <1>0, <3>1, <4>2 DEF ReadStep, ReadList, ReadFile, ReadDone, Dies, ProcTypeOK
      <4>3. ASSUME NEW t \in Tasks, StartStep(t) \/ TaskStep(t) \/ Kill(t)
            PROVE  todo'[r] = todo[r]
        <5>1. t # r
          BY <1>1
        <5>2. todo' = todo \/ \E fs : todo' = [todo EXCEPT ![t] = fs]
          BY <4>3 DEF StartStep, StartSetscene, StartRun, StartClean, Start, Kill, TaskStep,
               LookupPackage, Make, Package, MakeStamp, CleanStep, Clean, CleanLock, CleanFile,
               CleanFilesDone, CleanDir, CleanManifest, CleanStamps, InstallStep, Install,
               InstallLock, CheckFile, OpenManifest, WriteManifest, MakeDirs, EnterDir, CopyFile,
               LeaveDir, InstallDone, Dies
        <5> QED
          BY <1>0, <3>1, <5>1, <5>2 DEF ProcTypeOK
      <4> QED
        BY <4>1, <4>2, <4>3 DEF Next
    <3> QED
      BY <3>1, <3>2
  <2>2. ReaderFindsFiles'
    BY <1>4, <2>1 DEF ReaderFindsFiles
  <2>3. ASSUME NEW t \in Tasks, pc'[t] = "copy_files" PROVE cur'[t] \subseteq dirs'
    <3>1. CASE EnterDir(t)
      BY <1>0, <1>1, <3>1 DEF EnterDir, ProcTypeOK
    <3>2. CASE ~EnterDir(t)
      <4>1. pc[t] = "copy_files" /\ cur'[t] = cur[t]
        <5>1. CASE NewBuild \/ UNCHANGED vars
          BY <2>3, <5>1 DEF NewBuild, vars
        <5>2. ASSUME NEW r \in Readers, ReadStep(r) PROVE pc'[t] = pc[t] /\ cur'[t] = cur[t]
          BY <1>0, <1>1, <5>2 DEF ReadStep, ReadList, ReadFile, ReadDone, Dies, Goto, ProcTypeOK
        <5>3. ASSUME NEW u \in Tasks, StartStep(u) \/ TaskStep(u) \/ Kill(u), u # t
              PROVE  pc'[t] = pc[t] /\ cur'[t] = cur[t]
          <6>1. pc' = pc \/ \E v : pc' = [pc EXCEPT ![u] = v]
            BY <5>3 DEF StartStep, StartSetscene, StartRun, StartClean, Start, Kill, TaskStep, Goto,
               LookupPackage, Make, Package, MakeStamp, CleanStep, Clean, CleanLock, CleanFile,
               CleanFilesDone, CleanDir, CleanManifest, CleanStamps, InstallStep, Install,
               InstallLock, CheckFile, OpenManifest, WriteManifest, MakeDirs, EnterDir, CopyFile,
               LeaveDir, InstallDone, Dies
          <6>2. cur' = cur \/ \E v : cur' = [cur EXCEPT ![u] = v]
            BY <5>3 DEF StartStep, StartSetscene, StartRun, StartClean, Start, Kill, TaskStep,
               LookupPackage, Make, Package, MakeStamp, CleanStep, Clean, CleanLock, CleanFile,
               CleanFilesDone, CleanDir, CleanManifest, CleanStamps, InstallStep, Install,
               InstallLock, CheckFile, OpenManifest, WriteManifest, MakeDirs, EnterDir, CopyFile,
               LeaveDir, InstallDone, Dies
          <6> QED
            BY <1>0, <1>1, <5>3, <6>1, <6>2 DEF ProcTypeOK
        <5>4. CASE StartStep(t) \/ CleanStep(t) \/ LookupPackage(t) \/ Make(t) \/ Package(t)
                   \/ MakeStamp(t) \/ Kill(t)
          <6>1. pc'[t] # "copy_files" \/ (pc' = pc /\ pc[t] # "copy_files")
            BY <1>0, <1>1, <5>4 DEF StartStep, StartSetscene, StartRun, StartClean, Start, Kill, Goto,
               LookupPackage, Make, Package, MakeStamp, CleanStep, Clean, CleanLock, CleanFile,
               CleanFilesDone, CleanDir, CleanManifest, CleanStamps, Dies, ProcTypeOK
          <6> QED
            BY <2>3, <6>1
        <5>5. CASE InstallStep(t)
          <6>1. CASE CopyFile(t)
            BY <1>0, <1>1, <2>3, <6>1 DEF CopyFile, Dies, ProcTypeOK
          <6>2. CASE ~CopyFile(t)
            <7>1. pc'[t] # "copy_files" \/ (pc' = pc /\ pc[t] # "copy_files")
              BY <1>0, <1>1, <3>2, <5>5, <6>2 DEF InstallStep, Install, InstallLock, CheckFile, OpenManifest,
                 WriteManifest, MakeDirs, LeaveDir, InstallDone, Dies, Goto, ProcTypeOK
            <7> QED
              BY <2>3, <7>1
          <6> QED
            BY <6>1, <6>2
        <5> QED
          BY <2>3, <5>1, <5>2, <5>3, <5>4, <5>5 DEF Next, TaskStep
      <4> QED
        BY <1>0, <1>4, <4>1 DEF CopierKeepsDir
    <3> QED
      BY <3>1, <3>2
  <2> QED
    BY <2>2, <2>3 DEF CopierKeepsDir
<1> QED
  BY <1>2, <1>3, <1>4

(* When every task that stages in the area takes PACKAGELOCK, as           *)
(* do_package and do_packagedata do, package_do_shlibs opens every file it *)
(* listed, and cp links into directories that stay (package.bbclass:1781,  *)
(* 2118, 2135; sstate.bbclass:181, 440).                                   *)
THEOREM LockProtects ==
  ASSUME Locked = Tasks
  PROVE  Spec => [](ReaderFindsFiles /\ CopierKeepsDir)
<1>1. Spec => []LockedInv
  BY LockedInit, LockedStep, PTL DEF Spec
<1> QED
  BY <1>1, PTL DEF LockedInv

(* In particular no cleaner removes the directory that cp is linking files *)
(* into (sstate.bbclass:400-409, path.py:76-91).                           *)
THEOREM CopierKeepsDirHolds ==
  ASSUME Locked = Tasks
  PROVE  Spec => []CopierKeepsDir
BY LockProtects, PTL

-----------------------------------------------------------------------------
(* With or without the lock: recipes whose outputs have no file in common  *)
(* do not touch each other's files, as long as no manifest is cut short.   *)
Owned(t) == UNION {Output[t][h] : h \in Hashes}
Apart    == /\ \A t, u \in Tasks : t # u => Owned(t) \cap Owned(u) = {}
            /\ MaxCuts = 0

(* What is staged, listed or in a process's hands is in its task's output. *)
OwnInv ==
  /\ \A f \in Files : area[f] # None => f \in Owned(area[f])
  /\ \A t \in Tasks : /\ listing[t].files \subseteq Owned(t) /\ listing[t].cut = {}
                      /\ todo[t] \subseteq Owned(t)

LEMMA OwnInit == Init => OwnInv
  BY DEF Init, OwnInv, Empty, Procs

(* Without a cut manifest, the clean of a directory takes no file.         *)
LEMMA DirKeepsFiles ==
  ASSUME OwnInv, DiskTypeOK, NEW t \in Tasks, CleanDir(t)
  PROVE  area' = area
<1>1. area' = area \/ area' = Without({})
  BY DEF CleanDir, OwnInv
<1> QED
  BY <1>1 DEF Without, DiskTypeOK

LEMMA OwnStep ==
  ASSUME Apart
  PROVE  TypeOK /\ OwnInv /\ [Next]_vars => OwnInv'
<1> SUFFICES ASSUME TypeOK, OwnInv, [Next]_vars PROVE OwnInv'
  OBVIOUS
<1>. USE DEF disk, lock, proc, build, count
<1>0. OwnInv /\ DiskTypeOK /\ ProcTypeOK /\ BuildTypeOK /\ CountTypeOK
  BY DEF TypeOK
<1>a. \A t \in Tasks : t # None /\ t \in Procs /\ t \notin Readers
  BY ConstantsAssumption DEF Procs
<1>b. \A t \in Tasks : Output[t][want[t]] \subseteq Owned(t)
  BY <1>0 DEF Owned, BuildTypeOK
<1>1. CASE NewBuild \/ UNCHANGED vars
  BY <1>0, <1>1 DEF NewBuild, vars, OwnInv
<1>2. ASSUME NEW r \in Readers, ReadStep(r) PROVE OwnInv'
  BY <1>0, <1>a, <1>2 DEF ReadStep, ReadList, ReadFile, ReadDone, Dies, OwnInv, ProcTypeOK
<1>3. ASSUME NEW t \in Tasks, StartStep(t) PROVE OwnInv'
  BY <1>0, <1>3 DEF StartStep, StartSetscene, StartRun, StartClean, Start, OwnInv
<1>4. ASSUME NEW t \in Tasks, CleanStep(t) PROVE OwnInv'
  <2>1. CASE Clean(t) \/ CleanLock(t) \/ CleanFilesDone(t) \/ CleanStamps(t)
    BY <1>0, <1>a, <2>1 DEF Clean, CleanLock, CleanFilesDone, CleanStamps, OwnInv, DiskTypeOK, ProcTypeOK
  <2>2. CASE CleanFile(t)
    <3>1. \A f \in Files : area'[f] # None => area'[f] = area[f]
      BY <1>0, <2>2 DEF CleanFile, DiskTypeOK
    <3>2. listing' = listing /\ \A u \in Tasks : todo'[u] \subseteq todo[u]
      BY <1>0, <1>a, <2>2 DEF CleanFile, ProcTypeOK
    <3> QED
      BY <1>0, <3>1, <3>2 DEF OwnInv
  <2>3. CASE CleanDir(t)
    BY <1>0, <2>3, DirKeepsFiles DEF CleanDir, OwnInv
  <2>4. CASE CleanManifest(t)
    BY <1>0, <1>a, <2>4 DEF CleanManifest, OwnInv, DiskTypeOK, Empty
  <2> QED
    BY <1>4, <2>1, <2>2, <2>3, <2>4 DEF CleanStep
<1>5. ASSUME NEW t \in Tasks, InstallStep(t) PROVE OwnInv'
  <2>1. CASE Install(t) \/ InstallLock(t) \/ CheckFile(t)
    BY <1>0, <1>a, <1>b, <2>1 DEF Install, InstallLock, CheckFile, Dies, OwnInv, ProcTypeOK
  <2>2. CASE OpenManifest(t) \/ WriteManifest(t)
    BY <1>0, <1>a, <1>b, <2>2 DEF OpenManifest, WriteManifest, Full, Empty, OwnInv, DiskTypeOK
  <2>3. CASE MakeDirs(t) \/ EnterDir(t) \/ LeaveDir(t) \/ InstallDone(t)
    BY <1>0, <1>a, <2>3 DEF MakeDirs, EnterDir, LeaveDir, InstallDone, OwnInv, ProcTypeOK
  <2>4. CASE CopyFile(t)
    BY <1>0, <1>a, <2>4 DEF CopyFile, Here, Dies, OwnInv, DiskTypeOK, ProcTypeOK
  <2> QED
    BY <1>5, <2>1, <2>2, <2>3, <2>4 DEF InstallStep
<1>6. ASSUME NEW t \in Tasks, LookupPackage(t) \/ Make(t) \/ Package(t) \/ MakeStamp(t) PROVE OwnInv'
  BY <1>0, <1>a, <1>6 DEF LookupPackage, Make, Package, MakeStamp, Dies, OwnInv, ProcTypeOK
<1>7. ASSUME NEW t \in Tasks, Kill(t) PROVE OwnInv'
  <2>1. CutAt(t) = {{}}
    BY <1>0 DEF CutAt, Apart, CountTypeOK
  <2>2. \A u \in Tasks : listing'[u].files \subseteq Owned(u) /\ listing'[u].cut = {}
    BY <1>0, <1>b, <1>7, <2>1 DEF Kill, Full, OwnInv, DiskTypeOK
  <2> QED
    BY <1>0, <1>a, <1>7, <2>2 DEF Kill, Dies, OwnInv, ProcTypeOK
<1> QED
  BY <1>1, <1>2, <1>3, <1>4, <1>5, <1>6, <1>7 DEF Next, TaskStep

(* A task takes away or replaces no file but its own, and a reader none.   *)
LEMMA OwnOnly ==
  ASSUME Apart, TypeOK, OwnInv, [Next]_vars, NEW f \in Files, area'[f] # area[f]
  PROVE  \E t \in Tasks : /\ CleanFile(t) \/ CopyFile(t)
                         /\ f \in todo[t] /\ area[f] \in {t, None}
<1>. USE DEF disk, lock, proc, build, count
<1>0. OwnInv /\ DiskTypeOK /\ ProcTypeOK
  BY DEF TypeOK
<1>1. PICK t \in Tasks : CleanFile(t) \/ CopyFile(t)
  <2>1. CASE NewBuild \/ UNCHANGED vars
    BY <2>1 DEF NewBuild, vars
  <2>2. ASSUME NEW r \in Readers, ReadStep(r) PROVE FALSE
    BY <2>2 DEF ReadStep, ReadList, ReadFile, ReadDone
  <2>3. ASSUME NEW t \in Tasks, StartStep(t) \/ Kill(t) PROVE FALSE
    BY <2>3 DEF StartStep, StartSetscene, StartRun, StartClean, Start, Kill
  <2>4. ASSUME NEW t \in Tasks, LookupPackage(t) \/ Make(t) \/ Package(t) \/ MakeStamp(t)
        PROVE FALSE
    BY <2>4 DEF LookupPackage, Make, Package, MakeStamp
  <2>5. ASSUME NEW t \in Tasks, InstallStep(t) PROVE CopyFile(t)
    BY <2>5 DEF InstallStep, Install, InstallLock, CheckFile, OpenManifest, WriteManifest,
         MakeDirs, EnterDir, LeaveDir, InstallDone
  <2>6. ASSUME NEW t \in Tasks, CleanStep(t) PROVE CleanFile(t)
    <3>1. ~CleanDir(t)
      BY <1>0, DirKeepsFiles
    <3> QED
      BY <2>6, <3>1 DEF CleanStep, Clean, CleanLock, CleanFilesDone, CleanManifest, CleanStamps
  <2> QED
    BY <2>1, <2>2, <2>3, <2>4, <2>5, <2>6 DEF Next, TaskStep
<1>2. f \in todo[t]
  BY <1>0, <1>1 DEF CleanFile, CopyFile, Here, DiskTypeOK
<1>3. area[f] \in {t, None}
  BY <1>0, <1>2 DEF Apart, OwnInv, DiskTypeOK
<1> QED
  BY <1>1, <1>2, <1>3

(* A clean or an install of one task never takes another task's file out   *)
(* of the shared area (sstate.bbclass:247-249, 405-409), also without      *)
(* PACKAGELOCK.                                                            *)
THEOREM OthersStayHolds ==
  ASSUME Apart
  PROVE  Spec => OthersStay
<1>1. Init => TypeOK /\ OwnInv
  BY TypeInit, OwnInit
<1>2. TypeOK /\ OwnInv /\ [Next]_vars => (TypeOK /\ OwnInv)'
  BY TypeStep, OwnStep
<1>3. TypeOK /\ OwnInv /\ [Next]_vars =>
        [\A t \in Tasks : todo[t] # todo'[t] \/ cur[t] # cur'[t] =>
           \A f \in Files : area[f] # area'[f] => area[f] \in {t, None}]_vars
  <2> SUFFICES ASSUME TypeOK, OwnInv, [Next]_vars, NEW t \in Tasks,
                      todo[t] # todo'[t] \/ cur[t] # cur'[t],
                      NEW f \in Files, area[f] # area'[f]
               PROVE  area[f] \in {t, None}
    OBVIOUS
  <2>1. PICK u \in Tasks : /\ CleanFile(u) \/ CopyFile(u)
                           /\ area[f] \in {u, None}
    BY OwnOnly
  <2>2. t = u
    BY <2>1 DEF CleanFile, CopyFile, Dies, TypeOK, ProcTypeOK, Procs, lock, build
  <2> QED
    BY <2>1, <2>2
<1> QED
  BY <1>1, <1>2, <1>3, PTL DEF Spec, OthersStay

-----------------------------------------------------------------------------
(* A step of another process leaves a task's part of the state alone.      *)
LEMMA NotMine ==
  ASSUME Apart, TypeOK, OwnInv, [Next]_vars, NEW t \in Tasks, ~NewBuild,
         ~(StartStep(t) \/ TaskStep(t) \/ Kill(t))
  PROVE  /\ pc'[t] = pc[t] /\ todo'[t] = todo[t] /\ want'[t] = want[t]
         /\ listing'[t] = listing[t] /\ stamp'[t] = stamp[t]
         /\ (t \in manifests' <=> t \in manifests) /\ (t \in torn' <=> t \in torn)
         /\ \A f \in Owned(t) : area[f] # None => area'[f] # None
<1>. USE DEF disk, lock, proc, build, count
<1>0. OwnInv /\ DiskTypeOK /\ ProcTypeOK
  BY DEF TypeOK
<1>a. \A u \in Tasks : u # None /\ u \in Procs /\ u \notin Readers
  BY ConstantsAssumption DEF Procs
<1>b. Owned(t) \subseteq Files
  BY ConstantsAssumption DEF Owned
<1>1. ASSUME NEW f \in Owned(t), area[f] # None PROVE area'[f] # None
  <2>1. CASE area'[f] = area[f]
    BY <1>1, <2>1
  <2>2. CASE area'[f] # area[f]
    <3>1. PICK u \in Tasks : (CleanFile(u) \/ CopyFile(u)) /\ f \in todo[u]
      BY <1>b, <2>2, OwnOnly
    <3>2. u = t
      BY <1>0, <3>1 DEF Apart, OwnInv
    <3> QED
      BY <3>1, <3>2 DEF TaskStep, CleanStep, InstallStep
  <2> QED
    BY <2>1, <2>2
<1>2. CASE UNCHANGED vars
  BY <1>1, <1>2 DEF vars
<1>3. ASSUME NEW r \in Readers, ReadStep(r) PROVE
        /\ pc'[t] = pc[t] /\ todo'[t] = todo[t] /\ want'[t] = want[t]
        /\ listing'[t] = listing[t] /\ stamp'[t] = stamp[t]
        /\ (t \in manifests' <=> t \in manifests) /\ (t \in torn' <=> t \in torn)
  BY <1>0, <1>a, <1>3 DEF ReadStep, ReadList, ReadFile, ReadDone, Dies, Goto, ProcTypeOK
<1>4. ASSUME NEW u \in Tasks, u # t, StartStep(u) \/ TaskStep(u) \/ Kill(u) PROVE
        /\ pc'[t] = pc[t] /\ todo'[t] = todo[t] /\ want'[t] = want[t]
        /\ listing'[t] = listing[t] /\ stamp'[t] = stamp[t]
        /\ (t \in manifests' <=> t \in manifests) /\ (t \in torn' <=> t \in torn)
  <2>1. /\ pc' = pc \/ \E x : pc' = [pc EXCEPT ![u] = x]
        /\ todo' = todo \/ \E x : todo' = [todo EXCEPT ![u] = x]
        /\ listing' = listing \/ \E x : listing' = [listing EXCEPT ![u] = x]
        /\ stamp' = stamp \/ \E x : stamp' = [stamp EXCEPT ![u] = x]
        /\ want' = want
        /\ manifests' = manifests \/ manifests' = manifests \cup {u} \/ manifests' = manifests \ {u}
        /\ torn' = torn \/ torn' = torn \cup {u} \/ torn' = torn \ {u}
    <3>. USE DEF StartStep, StartSetscene, StartRun, StartClean, Start, Kill, TaskStep,
         LookupPackage, Make, Package, MakeStamp, CleanStep, Clean, CleanLock, CleanFile,
         CleanFilesDone, CleanDir, CleanManifest, CleanStamps, InstallStep, Install,
         InstallLock, CheckFile, OpenManifest, WriteManifest, MakeDirs, EnterDir, CopyFile,
         LeaveDir, InstallDone, Dies, Goto
    <3>1. pc' = pc \/ \E x : pc' = [pc EXCEPT ![u] = x]
      BY <1>4
    <3>2. todo' = todo \/ \E x : todo' = [todo EXCEPT ![u] = x]
      BY <1>4
    <3>3. listing' = listing \/ \E x : listing' = [listing EXCEPT ![u] = x]
      BY <1>4
    <3>4. stamp' = stamp \/ \E x : stamp' = [stamp EXCEPT ![u] = x]
      BY <1>4
    <3>5. want' = want
      BY <1>4
    <3>6. manifests' = manifests \/ manifests' = manifests \cup {u} \/ manifests' = manifests \ {u}
      BY <1>4
    <3>7. torn' = torn \/ torn' = torn \cup {u} \/ torn' = torn \ {u}
      BY <1>4
    <3> QED
      BY <3>1, <3>2, <3>3, <3>4, <3>5, <3>6, <3>7
  <2>2. (t \in manifests' <=> t \in manifests) /\ (t \in torn' <=> t \in torn)
    BY <1>4, <2>1
  <2>3. pc'[t] = pc[t] /\ todo'[t] = todo[t]
    BY <1>0, <1>a, <1>4, <2>1 DEF ProcTypeOK
  <2>4. listing'[t] = listing[t] /\ stamp'[t] = stamp[t]
    BY <1>0, <1>4, <2>1 DEF DiskTypeOK
  <2> QED
    BY <2>1, <2>2, <2>3, <2>4
<1>5. UNCHANGED vars \/ (\E r \in Readers : ReadStep(r))
      \/ \E u \in Tasks : u # t /\ (StartStep(u) \/ TaskStep(u) \/ Kill(u))
  BY DEF Next
<1>6. /\ pc'[t] = pc[t] /\ todo'[t] = todo[t] /\ want'[t] = want[t]
      /\ listing'[t] = listing[t] /\ stamp'[t] = stamp[t]
      /\ (t \in manifests' <=> t \in manifests) /\ (t \in torn' <=> t \in torn)
  BY <1>2, <1>3, <1>4, <1>5 DEF vars
<1> QED
  BY <1>1, <1>6

(* Why a stamp tells: from the end of the clean to its own stamp a task    *)
(* has none, and its files come one by one until all are there.            *)
Cleaned == {"make", "install", "install_lock", "check", "manifest_write", "make_dirs",
            "copy", "copy_files", "package", "stamp"}

StampOf(t) ==
  /\ pc[t] # "read"
  /\ pc[t] \in Cleaned => stamp[t] = {}
  /\ pc[t] \in {"make_dirs", "copy", "copy_files"} => listing[t].files = Output[t][want[t]]
  /\ pc[t] \in {"copy", "copy_files"} => \A f \in Output[t][want[t]] \ todo[t] : area[f] # None
  /\ pc[t] \in {"package", "stamp"} => Staged(t, want[t])
  /\ t \notin torn /\ pc[t] \in {"idle", "package_lookup", "clean", "clean_lock"} =>
       \A h \in stamp[t] : Staged(t, h)

LEMMA StampMine ==
  ASSUME Apart, ListedInv, OwnInv, NEW t \in Tasks, StampOf(t),
         StartStep(t) \/ TaskStep(t) \/ Kill(t)
  PROVE  StampOf(t)'
<1>. USE DEF disk, lock, proc, build, count
<1>0. DiskTypeOK /\ ProcTypeOK /\ BuildTypeOK /\ StampOf(t) /\ ManifestInv
  BY DEF ListedInv, TypeOK
<1>a. t # None /\ t \in Procs
  BY ConstantsAssumption DEF Procs
<1>1. CASE StartStep(t)
  BY <1>0, <1>a, <1>1 DEF StartStep, StartSetscene, StartRun, StartClean, Start, Goto, StampOf, Staged,
     Cleaned, DiskTypeOK, ProcTypeOK
<1>2. CASE Clean(t) \/ CleanLock(t) \/ CleanFilesDone(t)
  BY <1>0, <1>a, <1>2 DEF Clean, CleanLock, CleanFilesDone, Goto, StampOf, Staged, Cleaned, ProcTypeOK
<1>3. CASE CleanFile(t) \/ CleanDir(t)
  BY <1>0, <1>a, <1>3 DEF CleanFile, CleanDir, StampOf, Cleaned
<1>4. CASE CleanManifest(t) \/ CleanStamps(t)
  BY <1>0, <1>a, <1>4 DEF CleanManifest, CleanStamps, Goto, StampOf, Staged, Cleaned, DiskTypeOK, ProcTypeOK
<1>5. CASE Install(t) \/ InstallLock(t) \/ CheckFile(t)
  BY <1>0, <1>a, <1>5 DEF Install, InstallLock, CheckFile, Dies, Goto, StampOf, Cleaned, ProcTypeOK
<1>6. CASE OpenManifest(t) \/ WriteManifest(t)
  BY <1>0, <1>a, <1>6 DEF OpenManifest, WriteManifest, Goto, Full, StampOf, Cleaned, DiskTypeOK, ProcTypeOK
<1>7. CASE MakeDirs(t) \/ EnterDir(t) \/ LeaveDir(t)
  BY <1>0, <1>a, <1>7 DEF MakeDirs, EnterDir, LeaveDir, Goto, StampOf, Cleaned, ProcTypeOK
<1>8. CASE CopyFile(t)
  <2>1. CASE Dies(t) /\ UNCHANGED area
    BY <1>0, <1>a, <1>8, <2>1 DEF CopyFile, Dies, StampOf, Cleaned, ProcTypeOK
  <2>2. ASSUME NEW f \in Files, area' = [area EXCEPT ![f] = t], todo' = [todo EXCEPT ![t] = @ \ {f}],
               pc[t] = "copy_files", UNCHANGED <<pc, listing, stamp, want>>
        PROVE  StampOf(t)'
    <3>1. \A g \in Output[t][want[t]] \ todo'[t] : area'[g] # None
      <4>1. \A g \in Output[t][want[t]] : g \in Files
        BY <1>0, ConstantsAssumption DEF BuildTypeOK
      <4>2. \A g \in Output[t][want[t]] \ todo[t] : area[g] # None
        BY <1>0, <2>2 DEF StampOf
      <4> QED
        BY <1>0, <1>a, <2>2, <4>1, <4>2 DEF DiskTypeOK, ProcTypeOK
    <3> QED
      BY <1>0, <2>2, <3>1 DEF StampOf, Cleaned
  <2> QED
    BY <1>0, <1>a, <1>8, <2>1, <2>2 DEF CopyFile, Here, ProcTypeOK
<1>9. CASE InstallDone(t)
  BY <1>0, <1>a, <1>9 DEF InstallDone, Goto, ManifestInv, StampOf, Staged, Cleaned, ProcTypeOK
<1>10. CASE LookupPackage(t) \/ Make(t)
  BY <1>0, <1>a, <1>10 DEF LookupPackage, Make, Dies, StampOf, Staged, Cleaned, ProcTypeOK
<1>11. CASE Package(t) \/ MakeStamp(t)
  BY <1>0, <1>a, <1>11 DEF Package, MakeStamp, Goto, StampOf, Staged, Cleaned, DiskTypeOK, ProcTypeOK
<1>12. CASE Kill(t)
  <2>1. pc'[t] = "idle" /\ UNCHANGED <<area, manifests, stamp>>
    BY <1>0, <1>a, <1>12 DEF Kill, Dies, ProcTypeOK
  <2>2. CASE pc[t] \in {"clean_files", "clean_dirs", "clean_stamps"}
    BY <1>12, <2>1, <2>2 DEF Kill, StampOf, Cleaned
  <2>3. CASE pc[t] \in Cleaned
    BY <1>0, <2>1, <2>3 DEF StampOf, Cleaned
  <2>4. CASE pc[t] \in {"package_lookup", "clean", "clean_lock"}
    BY <1>0, <1>12, <2>1, <2>4 DEF Kill, StampOf, Staged, Cleaned
  <2> QED
    BY <1>0, <1>a, <1>12, <2>2, <2>3, <2>4 DEF Kill, StampOf, Cleaned, ProcTypeOK, PC
<1> QED
  BY <1>1, <1>2, <1>3, <1>4, <1>5, <1>6, <1>7, <1>8, <1>9, <1>10, <1>11, <1>12
  DEF TaskStep, CleanStep, InstallStep

StagedInv == ListedInv /\ OwnInv /\ \A t \in Tasks : StampOf(t)

LEMMA StagedInit == Init => StagedInv
<1>1. ASSUME Init, NEW t \in Tasks PROVE StampOf(t)
  <2>1. pc[t] = "idle" /\ stamp[t] = {}
    BY <1>1 DEF Init, Procs
  <2> QED
    BY <2>1 DEF StampOf, Cleaned
<1> QED
  BY <1>1, ListedInit, OwnInit DEF StagedInv

LEMMA StagedStep ==
  ASSUME Apart
  PROVE  StagedInv /\ [Next]_vars => StagedInv'
<1> SUFFICES ASSUME StagedInv, [Next]_vars, NEW t \in Tasks PROVE StampOf(t)'
  BY ListedStep, OwnStep DEF StagedInv, ListedInv
<1>0. ListedInv /\ TypeOK /\ OwnInv /\ StampOf(t)
  BY DEF StagedInv, ListedInv
<1>1. CASE NewBuild
  BY <1>0, <1>1 DEF NewBuild, disk, lock, proc, StampOf, Staged, Cleaned, Procs
<1>2. CASE StartStep(t) \/ TaskStep(t) \/ Kill(t)
  BY <1>0, <1>2, StampMine
<1>3. CASE ~NewBuild /\ ~(StartStep(t) \/ TaskStep(t) \/ Kill(t))
  <2>1. /\ pc'[t] = pc[t] /\ todo'[t] = todo[t] /\ want'[t] = want[t]
        /\ listing'[t] = listing[t] /\ stamp'[t] = stamp[t]
        /\ (t \in manifests' <=> t \in manifests) /\ (t \in torn' <=> t \in torn)
        /\ \A f \in Owned(t) : area[f] # None => area'[f] # None
    BY <1>0, <1>3, NotMine
  <2>2. Output[t][want[t]] \subseteq Owned(t) /\ \A h \in stamp[t] : Output[t][h] \subseteq Owned(t)
    BY <1>0 DEF Owned, TypeOK, DiskTypeOK, BuildTypeOK
  <2>3. \A h \in Hashes : Staged(t, h) => Staged(t, h)'
    BY <1>0, <2>1 DEF Staged, Owned
  <2> QED
    BY <1>0, <2>1, <2>2, <2>3 DEF StampOf, Cleaned, TypeOK, DiskTypeOK, BuildTypeOK
<1> QED
  BY <1>1, <1>2, <1>3

(* A stamp says that the files of its hash are staged, unless its task was *)
(* killed between removing files and stamps (sstate.bbclass:443-467): for  *)
(* any recipes, with or without PACKAGELOCK, any number of kills and of     *)
(* removals that fail.                                                     *)
THEOREM StampsTellHolds ==
  ASSUME Apart
  PROVE  Spec => []StampsTell
<1>1. StagedInv => StampsTell
  BY DEF StagedInv, StampOf, StampsTell
<1> QED
  BY <1>1, StagedInit, StagedStep, PTL DEF Spec

-----------------------------------------------------------------------------
(* Whoever holds PACKAGELOCK has work to do under it: no fatal error, no   *)
(* kill and no end of a task leaves it held.                               *)
HoldersWork ==
  /\ \A p \in Procs : p = excl => pc[p] \in {"clean_files", "clean_dirs", "read"}
  /\ \A p \in shared :
       pc[p] \in {"check", "manifest_write", "make_dirs", "copy", "copy_files"}

LEMMA HoldersStep == TypeOK /\ LockInv /\ HoldersWork /\ [Next]_vars => HoldersWork'
<1> SUFFICES ASSUME TypeOK, LockInv, HoldersWork, [Next]_vars PROVE HoldersWork'
  OBVIOUS
<1>. USE DEF disk, lock, proc, build, count
<1>0. LockInv /\ HoldersWork /\ ProcTypeOK
  BY DEF TypeOK
<1>1. CASE NewBuild
  BY <1>0, <1>1 DEF NewBuild, HoldersWork
<1>2. ASSUME NEW r \in Readers, ReadStep(r) PROVE HoldersWork'
  BY <1>0, <1>2, ConstantsAssumption DEF ReadStep, ReadList, ReadFile, ReadDone, Dies, Goto, LockInv, HoldersWork, ProcTypeOK, Procs, LockShared, LockExclusive, Unlock
<1>3. ASSUME NEW t \in Tasks, StartStep(t) PROVE HoldersWork'
  BY <1>0, <1>3, ConstantsAssumption DEF StartStep, StartSetscene, StartRun, StartClean, Start, Goto, LockInv, HoldersWork, ProcTypeOK, Procs
<1>4. ASSUME NEW t \in Tasks, CleanStep(t) PROVE HoldersWork'
  <2>1. CASE Clean(t)
    BY <1>0, <2>1, ConstantsAssumption DEF Clean, Goto, LockInv, HoldersWork, ProcTypeOK, Procs
  <2>2. CASE CleanLock(t)
    BY <1>0, <2>2, ConstantsAssumption DEF CleanLock, Goto, LockInv, HoldersWork, ProcTypeOK, Procs, LockShared, LockExclusive, Unlock
  <2>3. CASE CleanFile(t)
    BY <1>0, <2>3, ConstantsAssumption DEF CleanFile, Goto, LockInv, HoldersWork, ProcTypeOK, Procs
  <2>4. CASE CleanFilesDone(t)
    BY <1>0, <2>4, ConstantsAssumption DEF CleanFilesDone, Goto, LockInv, HoldersWork, ProcTypeOK, Procs
  <2>5. CASE CleanDir(t)
    BY <1>0, <2>5, ConstantsAssumption DEF CleanDir, Goto, LockInv, HoldersWork, ProcTypeOK, Procs
  <2>6. CASE CleanManifest(t)
    BY <1>0, <2>6, ConstantsAssumption DEF CleanManifest, Goto, LockInv, HoldersWork, ProcTypeOK, Procs, LockShared, LockExclusive, Unlock
  <2>7. CASE CleanStamps(t)
    BY <1>0, <2>7, ConstantsAssumption DEF CleanStamps, Goto, LockInv, HoldersWork, ProcTypeOK, Procs
  <2> QED
    BY <1>4, <2>1, <2>2, <2>3, <2>4, <2>5, <2>6, <2>7 DEF CleanStep
<1>5. ASSUME NEW t \in Tasks, InstallStep(t) PROVE HoldersWork'
  <2>1. CASE Install(t)
    BY <1>0, <2>1, ConstantsAssumption DEF Install, Goto, LockInv, HoldersWork, ProcTypeOK, Procs, Dies, LockShared, LockExclusive, Unlock
  <2>2. CASE InstallLock(t)
    BY <1>0, <2>2, ConstantsAssumption DEF InstallLock, Goto, LockInv, HoldersWork, ProcTypeOK, Procs, LockShared, LockExclusive, Unlock
  <2>3. CASE CheckFile(t)
    BY <1>0, <2>3, ConstantsAssumption DEF CheckFile, Goto, LockInv, HoldersWork, ProcTypeOK, Procs, Dies, LockShared, LockExclusive, Unlock
  <2>4. CASE OpenManifest(t)
    BY <1>0, <2>4, ConstantsAssumption DEF OpenManifest, Goto, LockInv, HoldersWork, ProcTypeOK, Procs
  <2>5. CASE WriteManifest(t)
    BY <1>0, <2>5, ConstantsAssumption DEF WriteManifest, Goto, LockInv, HoldersWork, ProcTypeOK, Procs
  <2>6. CASE MakeDirs(t)
    BY <1>0, <2>6, ConstantsAssumption DEF MakeDirs, Goto, LockInv, HoldersWork, ProcTypeOK, Procs
  <2>7. CASE EnterDir(t)
    BY <1>0, <2>7, ConstantsAssumption DEF EnterDir, Goto, LockInv, HoldersWork, ProcTypeOK, Procs
  <2>8. CASE CopyFile(t)
    BY <1>0, <2>8, ConstantsAssumption DEF CopyFile, Goto, LockInv, HoldersWork, ProcTypeOK, Procs, Dies, LockShared, LockExclusive, Unlock
  <2>9. CASE LeaveDir(t)
    BY <1>0, <2>9, ConstantsAssumption DEF LeaveDir, Goto, LockInv, HoldersWork, ProcTypeOK, Procs
  <2>10. CASE InstallDone(t)
    BY <1>0, <2>10, ConstantsAssumption DEF InstallDone, Goto, LockInv, HoldersWork, ProcTypeOK, Procs, LockShared, LockExclusive, Unlock
  <2> QED
    BY <1>5, <2>1, <2>2, <2>3, <2>4, <2>5, <2>6, <2>7, <2>8, <2>9, <2>10 DEF InstallStep
<1>6. ASSUME NEW t \in Tasks, LookupPackage(t) \/ Make(t) \/ Package(t) \/ MakeStamp(t)
      PROVE HoldersWork'
  BY <1>0, <1>6, ConstantsAssumption DEF LookupPackage, Make, Package, MakeStamp, Dies, Goto, LockInv, HoldersWork, ProcTypeOK, Procs, LockShared, LockExclusive, Unlock
<1>7. ASSUME NEW t \in Tasks, Kill(t) PROVE HoldersWork'
  BY <1>0, <1>7, ConstantsAssumption DEF Kill, Dies, Goto, LockInv, HoldersWork, ProcTypeOK, Procs, LockShared, LockExclusive, Unlock
<1>8. CASE UNCHANGED vars
  BY <1>0, <1>8 DEF vars, HoldersWork
<1> QED
  BY <1>1, <1>2, <1>3, <1>4, <1>5, <1>6, <1>7, <1>8 DEF Next, TaskStep

(* A process that holds PACKAGELOCK, alone or shared, is at a step between *)
(* taking and giving it back, whatever died when and whether or not every  *)
(* task takes it (sstate.bbclass:240-277, 394-409, package.bbclass:1781).  *)
THEOREM HoldersWorkHolds == Spec => []HoldersWork
<1>1. Init => HoldersWork
  BY ConstantsAssumption DEF Init, HoldersWork, Procs
<1>2. Init => LockInv
  BY ConstantsAssumption DEF Init, LockInv, Procs
<1>3. Spec => [](TypeOK /\ LockInv)
  BY <1>2, TypeInit, TypeStep, LockStep, PTL DEF Spec
<1> QED
  BY <1>1, <1>3, HoldersStep, PTL DEF Spec
=============================================================================
