------------------------- MODULE SstateIndexProofs -------------------------
(* What holds of SstateIndex for any recipes, versions and sstate tasks,   *)
(* and any number of invocations and kills.                                *)
EXTENDS SstateIndex, FiniteSetTheorems, TLAPS

TypeInv ==
  /\ index \in [Versions -> Nat] /\ lines \in [Versions -> Nat]
  /\ manifest \in [Tasks -> Versions \cup {None}]
  /\ files \in [Tasks -> Versions \cup {None}]
  /\ stamp \in [Tasks -> SUBSET Versions]
  /\ parsed \subseteq Versions
  /\ choice \in [Names -> parsed \cup {None}]
  /\ \A n \in Names : choice[n] \in VersionsOf(n) \cup {None}
  /\ phase \in {"ready", "parsed", "prune", "rewrite", "build"}
  /\ doomed \subseteq Versions /\ cur \in Versions \cup {None}
  /\ pc \in [Tasks -> {"idle", "install", "lock", "read", "append", "copy", "stamp"}]
  /\ seen \in [Tasks -> BOOLEAN] /\ holder \in Tasks \cup {None}

(* Tasks run, for the version chosen, when the handler has ended; the      *)
(* handler's loop variable is set in its loop only.                        *)
PhaseInv ==
  /\ \A t \in Tasks : pc[t] # "idle" => phase = "build" /\ Version(t) # None
  /\ cur # None => phase = "prune"
  /\ phase = "rewrite" => doomed = {}

(* The task that holds index.lock is the only one between its look at the  *)
(* index and its line, so what it saw is still so.                         *)
OnceInv ==
  /\ \A v \in Versions : index[v] <= 1 /\ lines[v] <= 1
  /\ \A t \in Tasks : pc[t] \in {"read", "append"} => holder = t
  /\ \A t \in Tasks : pc[t] = "append" => (seen[t] <=> index[Version(t)] > 0)

Inv1 == TypeInv /\ PhaseInv /\ OnceInv

LEMMA VersionType ==
  ASSUME TypeInv, NEW t \in Tasks
  PROVE  t[1] \in Names /\ (Version(t) # None => Version(t) \in VersionsOf(t[1]) \cap parsed)
BY ConstantsAssumption DEF TypeInv, Version, Tasks, VersionsOf

LEMMA Init1 == Init => Inv1
BY ConstantsAssumption DEF Init, Inv1, TypeInv, PhaseInv, OnceInv, VersionsOf

LEMMA Handler1 ==
  ASSUME Inv1,
         Parse \/ ReadIndex \/ TruncateIndex \/ WriteIndex \/ KillHandler
           \/ \E v \in Versions : PruneManifests(v) \/ PruneStamps(v)
  PROVE  Inv1'
<1>. USE ConstantsAssumption
     DEF disk, handler, task, history, TypeInv, PhaseInv, OnceInv, Version, VersionsOf
<1>0. TypeInv /\ PhaseInv /\ OnceInv
  BY DEF Inv1
<1>1. CASE Parse
  <2>1. TypeInv'
    BY <1>0, <1>1 DEF Parse
  <2>2. \A t \in Tasks : pc'[t] = "idle"
    BY <1>0, <1>1 DEF Parse
  <2>3. cur' = cur /\ doomed' = doomed /\ phase \in {"ready", "build"} /\ phase' = "parsed"
    BY <1>1 DEF Parse
  <2>4. PhaseInv' /\ OnceInv'
    BY <1>0, <1>1, <2>2, <2>3 DEF Parse
  <2> QED
    BY <2>1, <2>4 DEF Inv1
<1>2. CASE ReadIndex
  BY <1>0, <1>2 DEF ReadIndex, Inv1
<1>3. CASE TruncateIndex \/ WriteIndex
  BY <1>0, <1>3 DEF TruncateIndex, WriteIndex, Inv1
<1>4. CASE KillHandler
  <2>1. \A t \in Tasks : pc[t] = "idle" /\ pc'[t] = "idle"
    BY <1>0, <1>4 DEF KillHandler
  <2>2. index' \in [Versions -> Nat] /\ \A v \in Versions : index'[v] <= 1
    BY <1>0, <1>4 DEF KillHandler
  <2>3. TypeInv'
    BY <1>0, <1>4, <2>2 DEF KillHandler
  <2> QED
    BY <1>0, <1>4, <2>1, <2>2, <2>3 DEF KillHandler, Inv1
<1>5. ASSUME NEW v \in Versions, PruneManifests(v) \/ PruneStamps(v)
      PROVE  Inv1'
  <2>1. TypeInv'
    BY <1>0, <1>5 DEF PruneManifests, PruneStamps
  <2>2. PhaseInv' /\ OnceInv'
    BY <1>0, <1>5 DEF PruneManifests, PruneStamps
  <2> QED
    BY <2>1, <2>2 DEF Inv1
<1> QED
  BY <1>1, <1>2, <1>3, <1>4, <1>5

LEMMA Task1 ==
  ASSUME Inv1, NEW t \in Tasks, TaskStep(t) \/ KillTask(t)
  PROVE  Inv1'
<1>. USE DEF disk, handler, task, history, Goto
<1>0. TypeInv /\ PhaseInv /\ OnceInv
  BY DEF Inv1
<1>1. parsed' = parsed /\ choice' = choice /\ phase' = phase /\ lines' = lines
        /\ doomed' = doomed /\ cur' = cur
  BY DEF TaskStep, Clean, WriteManifest, IndexLock, IndexRead, IndexAppend, Copy,
         MakeStamp, KillTask
<1>2. \A u \in Tasks : Version(u)' = Version(u)
  BY <1>1 DEF Version
<1>3. Version(t) # None => Version(t) \in Versions
  BY <1>0, VersionType DEF VersionsOf
<1>4. phase = "build"
  BY <1>0 DEF PhaseInv, TaskStep, Clean, WriteManifest, IndexLock, IndexRead, IndexAppend,
              Copy, MakeStamp, KillTask
<1>5. Version(t) # None
  BY <1>0 DEF PhaseInv, TaskStep, Clean, WriteManifest, IndexLock, IndexRead, IndexAppend,
              Copy, MakeStamp, KillTask
<1>6. pc' \in [Tasks -> {"idle", "install", "lock", "read", "append", "copy", "stamp"}]
        /\ \A u \in Tasks : u # t => pc'[u] = pc[u]
  BY <1>0 DEF TypeInv, TaskStep, Clean, WriteManifest, IndexLock, IndexRead, IndexAppend,
              Copy, MakeStamp, KillTask
<1>7. PhaseInv'
  BY <1>0, <1>1, <1>2, <1>4, <1>5, <1>6 DEF PhaseInv
<1>8. TypeInv'
  <2>1. CASE Clean(t)
    BY <1>0, <1>1, <1>6, <2>1, ConstantsAssumption DEF Clean, TypeInv
  <2>2. CASE WriteManifest(t) \/ Copy(t) \/ MakeStamp(t)
    BY <1>0, <1>1, <1>3, <1>5, <1>6, <2>2 DEF WriteManifest, Copy, MakeStamp, TypeInv
  <2>3. CASE IndexLock(t)
    BY <1>0, <1>1, <1>6, <2>3 DEF IndexLock, TypeInv
  <2>4. CASE IndexRead(t)
    <3>1. ASSUME NEW b \in BOOLEAN PROVE [seen EXCEPT ![t] = b] \in [Tasks -> BOOLEAN]
      BY <1>0, <3>1, Zenon DEF TypeInv
    <3>2. (index[Version(t)] > 0) \in BOOLEAN
      OBVIOUS
    <3>3. seen' = [seen EXCEPT ![t] = index[Version(t)] > 0]
      BY <2>4, Zenon DEF IndexRead
    <3>4. seen' \in [Tasks -> BOOLEAN]
      BY <3>1, <3>2, <3>3, Zenon
    <3>5. index' = index /\ manifest' = manifest /\ files' = files /\ stamp' = stamp /\ holder' = holder
      BY <2>4 DEF IndexRead
    <3> QED
      BY <1>0, <1>1, <1>6, <3>4, <3>5 DEF TypeInv
  <2>5. CASE IndexAppend(t)
    <3>1. index' \in [Versions -> Nat]
      BY <1>0, <1>3, <1>5, <2>5 DEF IndexAppend, TypeInv
    <3> QED
      BY <1>0, <1>1, <1>6, <2>5, <3>1 DEF IndexAppend, TypeInv
  <2>6. CASE KillTask(t)
    BY <1>0, <1>1, <1>3, <1>5, <1>6, <2>6 DEF KillTask, TypeInv
  <2> QED
    BY <2>1, <2>2, <2>3, <2>4, <2>5, <2>6 DEF TaskStep
<1>9. OnceInv'
  <2>1. CASE Clean(t) \/ WriteManifest(t) \/ Copy(t) \/ MakeStamp(t)
    BY <1>0, <1>1, <1>2, <2>1 DEF Clean, WriteManifest, Copy, MakeStamp, TypeInv, OnceInv
  <2>2. CASE IndexLock(t)
    BY <1>0, <1>1, <1>2, <2>2, ConstantsAssumption DEF IndexLock, TypeInv, OnceInv
  <2>3. CASE IndexRead(t)
    BY <1>0, <1>1, <1>2, <2>3 DEF IndexRead, TypeInv, OnceInv
  <2>4. CASE IndexAppend(t)
    <3>1. holder = t /\ \A u \in Tasks \ {t} : pc'[u] \notin {"read", "append"}
      BY <1>0, <1>6, <2>4 DEF IndexAppend, TypeInv, OnceInv
    <3>2. pc'[t] = "copy"
      BY <1>0, <2>4 DEF IndexAppend, TypeInv
    <3>3. \A v \in Versions : index'[v] <= 1
      BY <1>0, <1>3, <1>5, <2>4 DEF IndexAppend, TypeInv, OnceInv
    <3> QED
      BY <1>0, <1>1, <3>1, <3>2, <3>3 DEF OnceInv
  <2>5. CASE KillTask(t)
    BY <1>0, <1>1, <1>2, <2>5 DEF KillTask, TypeInv, OnceInv
  <2> QED
    BY <2>1, <2>2, <2>3, <2>4, <2>5 DEF TaskStep
<1> QED
  BY <1>7, <1>8, <1>9 DEF Inv1

LEMMA Step1 == Inv1 /\ [Next]_vars => Inv1'
<1> SUFFICES ASSUME Inv1, [Next]_vars PROVE Inv1'
  OBVIOUS
<1>1. CASE UNCHANGED vars
  BY <1>1 DEF vars, Inv1, TypeInv, PhaseInv, OnceInv, Version
<1>2. CASE Next
  BY <1>2, Handler1, Task1 DEF Next
<1> QED
  BY <1>1, <1>2

LEMMA Inv1Always == Spec => []Inv1
<1> QED
  BY Init1, Step1, PTL DEF Spec

(* A version has at most one line in the index, however many tasks of the  *)
(* recipe add it at the same time and whatever is killed                   *)
(* (sstate.bbclass:261-271).                                               *)
THEOREM IndexOnceHolds == Spec => []IndexOnce
<1>1. Inv1 => IndexOnce
  BY DEF Inv1, OnceInv, IndexOnce
<1> QED
  BY <1>1, Inv1Always, PTL

-----------------------------------------------------------------------------
CountInv ==
  /\ builds \in 0..MaxBuilds /\ kills \in 0..MaxKills
  /\ torn \subseteq Tasks \X Versions /\ lost \subseteq Versions

LEMMA CountStep == Inv1 /\ CountInv /\ [Next]_vars => CountInv'
<1> SUFFICES ASSUME Inv1, CountInv, [Next]_vars PROVE CountInv'
  OBVIOUS
<1>. USE ConstantsAssumption DEF history, CountInv, Inv1, TypeInv
<1>1. CASE UNCHANGED vars
  BY <1>1 DEF vars
<1>2. CASE Parse \/ ReadIndex \/ TruncateIndex \/ WriteIndex
  BY <1>2 DEF Parse, ReadIndex, TruncateIndex, WriteIndex
<1>3. CASE KillHandler
  <2>1. torn' \subseteq Tasks \X Versions /\ lost' \subseteq Versions
    BY <1>3 DEF KillHandler
  <2>2. builds' \in 0..MaxBuilds /\ kills' \in 0..MaxKills
    BY <1>3 DEF KillHandler
  <2> QED
    BY <2>1, <2>2
<1>4. ASSUME NEW v \in Versions, PruneManifests(v) \/ PruneStamps(v) PROVE CountInv'
  BY <1>4 DEF PruneManifests, PruneStamps
<1>5. ASSUME NEW t \in Tasks, TaskStep(t) PROVE CountInv'
  BY <1>5 DEF TaskStep, Clean, WriteManifest, IndexLock, IndexRead, IndexAppend, Copy, MakeStamp
<1>6. ASSUME NEW t \in Tasks, KillTask(t) PROVE CountInv'
  BY <1>6 DEF KillTask
<1> QED
  BY <1>1, <1>2, <1>3, <1>4, <1>5, <1>6 DEF Next

(* Every variable of the index model keeps its type                        *)
(* (sstate.bbclass:263-271, 1001-1043).                                    *)
THEOREM TypeCorrect == Spec => []TypeOK
<1>1. Init => CountInv
  BY ConstantsAssumption DEF Init, CountInv
<1>2. Inv1 /\ CountInv => TypeOK
  BY DEF Inv1, TypeInv, CountInv, TypeOK
<1> QED
  BY <1>1, <1>2, CountStep, Inv1Always, PTL DEF Spec

-----------------------------------------------------------------------------
(* What lies in the shared area has a manifest, of its own recipe; between *)
(* its line and its files a version is in the index.                       *)
OwnFiles(t) ==
  /\ files[t] # None => manifest[t] # None /\ NameOf[files[t]] = t[1]
  /\ manifest[t] # None => NameOf[manifest[t]] = t[1]
  /\ pc[t] \in {"lock", "read", "append", "copy", "stamp"} => manifest[t] = Version(t)
  /\ pc[t] = "copy" => index[Version(t)] > 0
  /\ cur # None /\ NameOf[cur] = t[1] => manifest[t] = None /\ files[t] = None

(* Files are found by the index, and in the handler by the lines it keeps. *)
Known(t) == files[t] \notin {None} \cup lost =>
  /\ phase # "rewrite" => index[files[t]] > 0
  /\ phase \in {"prune", "rewrite"} => lines[files[t]] > 0
  /\ phase = "build" => files[t] \in parsed

(* The handler keeps lines of what is parsed, and means to remove the rest. *)
Doom ==
  /\ phase \in {"prune", "rewrite"} =>
       \A v \in Versions : lines[v] > 0 => v \in parsed \cup doomed
  /\ phase = "prune" => doomed \cap parsed = {}

Inv2 == Inv1 /\ Doom /\ \A t \in Tasks : OwnFiles(t) /\ Known(t)

LEMMA Init2 == Init => Inv2
BY Init1, ConstantsAssumption DEF Init, Inv2, Doom, OwnFiles, Known

LEMMA Handler2 ==
  ASSUME Inv2,
         Parse \/ ReadIndex \/ TruncateIndex \/ WriteIndex \/ KillHandler
           \/ \E v \in Versions : PruneManifests(v) \/ PruneStamps(v)
  PROVE  Inv2'
<1>. USE ConstantsAssumption DEF disk, handler, task, history
<1>0. /\ Inv1 /\ Inv1' /\ TypeInv /\ PhaseInv /\ TypeInv' /\ PhaseInv' /\ Doom
      /\ \A t \in Tasks : OwnFiles(t) /\ Known(t)
  BY Handler1 DEF Inv1, Inv2
<1>1. \A t \in Tasks : pc[t] = "idle"
  BY <1>0 DEF TypeInv, PhaseInv, Parse, ReadIndex, TruncateIndex, WriteIndex, KillHandler,
              PruneManifests, PruneStamps
<1>2. pc' = pc
  BY DEF Parse, ReadIndex, TruncateIndex, WriteIndex, KillHandler, PruneManifests, PruneStamps
<1>3. CASE Parse
  BY <1>0, <1>1, <1>2, <1>3 DEF Parse, PhaseInv, Inv2, Doom, OwnFiles, Known
<1>4. CASE ReadIndex
  <2>1. \A t \in Tasks : files[t] # None => files[t] \in Versions
    BY <1>0 DEF TypeInv
  <2> QED
    BY <1>0, <1>1, <1>2, <1>4, <2>1 DEF ReadIndex, TypeInv, Inv2, Doom, OwnFiles, Known
<1>5. CASE TruncateIndex \/ WriteIndex
  <2>1. \A t \in Tasks : files[t] # None => files[t] \in Versions
    BY <1>0 DEF TypeInv
  <2>2. Doom'
    BY <1>0, <1>5 DEF TruncateIndex, WriteIndex, Doom
  <2>3. \A t \in Tasks : OwnFiles(t)'
    BY <1>0, <1>1, <1>2, <1>5 DEF TruncateIndex, WriteIndex, OwnFiles
  <2>4. \A t \in Tasks : Known(t)'
    BY <1>0, <1>5, <2>1 DEF TruncateIndex, WriteIndex, PhaseInv, Doom, Known
  <2> QED
    BY <1>0, <2>2, <2>3, <2>4 DEF Inv2
<1>6. CASE KillHandler
  <2>1. \A t \in Tasks : files[t] # None => files[t] \in Versions
    BY <1>0 DEF TypeInv
  <2>2. Doom'
    BY <1>6 DEF KillHandler, Doom
  <2>3. \A t \in Tasks : OwnFiles(t)'
    BY <1>0, <1>1, <1>2, <1>6 DEF KillHandler, OwnFiles
  <2>4. ASSUME NEW t \in Tasks PROVE Known(t)'
    BY <1>0, <1>6, <2>1 DEF KillHandler, Known
  <2> QED
    BY <1>0, <2>2, <2>3, <2>4 DEF Inv2
<1>7. ASSUME NEW v \in Versions, PruneManifests(v) PROVE Inv2'
  <2>1. Doom'
    BY <1>0, <1>7 DEF PruneManifests, Doom
  <2>2. ASSUME NEW t \in Tasks PROVE OwnFiles(t)' /\ Known(t)'
    BY <1>0, <1>1, <1>2, <1>7, <2>2 DEF PruneManifests, TypeInv, OwnFiles, Known
  <2> QED
    BY <1>0, <2>1, <2>2 DEF Inv2
<1>8. ASSUME NEW v \in Versions, PruneStamps(v) PROVE Inv2'
  <2>1. \A t \in Tasks : files[t] # None => files[t] \in Versions \ {v}
    BY <1>0, <1>8 DEF PruneStamps, TypeInv, OwnFiles
  <2>2. Doom'
    BY <1>0, <1>8 DEF PruneStamps, TypeInv, Doom
  <2>3. ASSUME NEW t \in Tasks PROVE OwnFiles(t)' /\ Known(t)'
    BY <1>0, <1>1, <1>2, <1>8, <2>1 DEF PruneStamps, TypeInv, OwnFiles, Known
  <2> QED
    BY <1>0, <2>2, <2>3 DEF Inv2
<1> QED
  BY <1>3, <1>4, <1>5, <1>6, <1>7, <1>8

LEMMA Task2 ==
  ASSUME Inv2, NEW t \in Tasks, TaskStep(t) \/ KillTask(t)
  PROVE  Inv2'
<1>. USE DEF disk, handler, task, history, Goto
<1>0. /\ Inv1 /\ Inv1' /\ TypeInv /\ PhaseInv /\ OnceInv /\ TypeInv' /\ PhaseInv' /\ Doom
      /\ \A u \in Tasks : OwnFiles(u) /\ Known(u)
  BY Task1 DEF Inv1, Inv2
<1>1. parsed' = parsed /\ choice' = choice /\ phase' = phase /\ lines' = lines
        /\ doomed' = doomed /\ cur' = cur
  BY DEF TaskStep, Clean, WriteManifest, IndexLock, IndexRead, IndexAppend, Copy,
         MakeStamp, KillTask
<1>2. \A u \in Tasks : Version(u)' = Version(u)
  BY <1>1 DEF Version
<1>3. phase = "build" /\ cur = None /\ Version(t) # None
  BY <1>0 DEF PhaseInv, TaskStep, Clean, WriteManifest, IndexLock, IndexRead, IndexAppend,
              Copy, MakeStamp, KillTask
<1>4. Version(t) \in parsed /\ Version(t) \in Versions /\ NameOf[Version(t)] = t[1]
  BY <1>0, <1>3, VersionType DEF VersionsOf
<1>5. Doom'
  BY <1>0, <1>1, <1>3 DEF Doom
<1>6. index' \in [Versions -> Nat] /\ index \in [Versions -> Nat]
  BY <1>0 DEF TypeInv
<1>7. \A v \in Versions : index[v] > 0 => index'[v] > 0
  BY <1>0, <1>4, <1>6 DEF TypeInv, TaskStep, Clean, WriteManifest, IndexLock, IndexRead,
         IndexAppend, Copy, MakeStamp, KillTask
<1>8. ASSUME NEW u \in Tasks, u # t PROVE OwnFiles(u)' /\ Known(u)'
  <2>1. pc'[u] = pc[u] /\ files'[u] = files[u] /\ manifest'[u] = manifest[u]
    BY <1>0, <1>8 DEF TypeInv, TaskStep, Clean, WriteManifest, IndexLock, IndexRead,
         IndexAppend, Copy, MakeStamp, KillTask
  <2>2. files[u] # None => files[u] \in Versions
    BY <1>0 DEF TypeInv
  <2>3. pc[u] = "copy" => Version(u) \in Versions
    BY <1>0, VersionType DEF PhaseInv, VersionsOf
  <2>4. lost' = lost \/ (lost' = lost \ {Version(t)} /\ index'[Version(t)] > 0)
    <3>1. CASE IndexAppend(t)
      BY <1>0, <1>4, <1>6, <3>1 DEF TypeInv, OnceInv, IndexAppend
    <3>2. CASE ~IndexAppend(t)
      BY <3>2 DEF TaskStep, Clean, WriteManifest, IndexLock, IndexRead, Copy, MakeStamp, KillTask
    <3> QED
      BY <3>1, <3>2
  <2>5. OwnFiles(u)'
    BY <1>0, <1>1, <1>2, <1>7, <2>1, <2>3 DEF OwnFiles
  <2>6. Known(u)'
    BY <1>0, <1>1, <1>3, <1>4, <1>7, <2>1, <2>2, <2>4 DEF Known
  <2> QED
    BY <2>5, <2>6
<1>9. OwnFiles(t)' /\ Known(t)'
  <2>1. files[t] # None => files[t] \in Versions
    BY <1>0 DEF TypeInv
  <2>2. OwnFiles(t) /\ Known(t) /\ Version(t)' = Version(t)
    BY <1>0, <1>2
  <2>3. CASE Clean(t)
    BY <1>0, <1>1, <1>3, <2>1, <2>2, <2>3, ConstantsAssumption DEF Clean, TypeInv, OwnFiles, Known
  <2>4. CASE WriteManifest(t) \/ Copy(t)
    BY <1>0, <1>1, <1>3, <1>4, <2>1, <2>2, <2>4, ConstantsAssumption
       DEF WriteManifest, Copy, TypeInv, OwnFiles, Known
  <2>5. CASE IndexLock(t) \/ IndexRead(t) \/ MakeStamp(t)
    BY <1>0, <1>1, <1>3, <2>2, <2>5 DEF IndexLock, IndexRead, MakeStamp, TypeInv, OwnFiles, Known
  <2>6. CASE IndexAppend(t)
    <3>1. index'[Version(t)] > 0 /\ lost' = lost \ {Version(t)}
      BY <1>0, <1>4, <1>6, <2>6 DEF TypeInv, OnceInv, IndexAppend
    <3>2. pc'[t] = "copy" /\ pc[t] = "append" /\ files'[t] = files[t] /\ manifest'[t] = manifest[t]
      BY <1>0, <2>6 DEF IndexAppend, TypeInv
    <3>3. OwnFiles(t)'
      BY <1>1, <1>3, <2>2, <3>1, <3>2 DEF OwnFiles
    <3>4. Known(t)'
      BY <1>1, <1>3, <1>4, <1>7, <2>1, <2>2, <3>1, <3>2 DEF Known
    <3> QED
      BY <3>3, <3>4
  <2>7. CASE KillTask(t)
    BY <1>0, <1>1, <1>3, <1>4, <2>1, <2>2, <2>7, ConstantsAssumption
       DEF KillTask, TypeInv, OwnFiles, Known
  <2> QED
    BY <2>3, <2>4, <2>5, <2>6, <2>7 DEF TaskStep
<1> QED
  BY <1>0, <1>5, <1>8, <1>9 DEF Inv2

LEMMA Step2 == Inv2 /\ [Next]_vars => Inv2'
<1> SUFFICES ASSUME Inv2, [Next]_vars PROVE Inv2'
  OBVIOUS
<1>1. CASE UNCHANGED vars
  BY <1>1 DEF vars, Inv2, Doom, OwnFiles, Known, Inv1, TypeInv, PhaseInv, OnceInv, Version
<1>2. CASE Next
  BY <1>2, Handler2, Task2 DEF Next
<1> QED
  BY <1>1, <1>2

LEMMA Inv2Always == Spec => []Inv2
<1> QED
  BY Init2, Step2, PTL DEF Spec

(* What is in the shared area has a line in the index, or in what the      *)
(* handler is about to write, but for lines that a kill took               *)
(* (sstate.bbclass:259-276, 1036-1038).                                    *)
THEOREM FilesIndexedHolds == Spec => []FilesIndexed
<1>1. Inv2 => FilesIndexed
  BY DEF Inv2, Known, FilesIndexed
<1> QED
  BY <1>1, Inv2Always, PTL

(* When tasks run, no files of a version that is not parsed are left, but  *)
(* for lines that a kill took (sstate.bbclass:994-1038).                   *)
THEOREM UnreachableGoneHolds == Spec => []UnreachableGone
<1>1. Inv2 => UnreachableGone
  BY DEF Inv2, Known, UnreachableGone
<1> QED
  BY <1>1, Inv2Always, PTL

-----------------------------------------------------------------------------
(* Of a recipe with one version there are only stamps of that version,     *)
(* none while one of its tasks runs.                                       *)
StampOf(t) ==
  /\ stamp[t] \subseteq VersionsOf(t[1])
  /\ pc[t] # "idle" => stamp[t] = {}
  /\ pc[t] = "stamp" => files[t] = Version(t)
  /\ OneVersion(t) => \A v \in stamp[t] :
       v # cur /\ <<t, v>> \notin torn => files[t] = v /\ manifest[t] = v

Inv3 == Inv2 /\ \A t \in Tasks : StampOf(t)

LEMMA SameVersion ==
  ASSUME NEW t \in Tasks, OneVersion(t),
         NEW v \in VersionsOf(t[1]), NEW w \in VersionsOf(t[1])
  PROVE  v = w
<1>1. IsFiniteSet(VersionsOf(t[1]))
  BY ConstantsAssumption, FS_Subset DEF VersionsOf
<1>2. PICK x : VersionsOf(t[1]) = {x}
  BY <1>1, FS_Singleton DEF OneVersion
<1> QED
  BY <1>2

LEMMA Init3 == Init => Inv3
BY Init2, ConstantsAssumption DEF Init, Inv3, StampOf

LEMMA Handler3 ==
  ASSUME Inv3,
         Parse \/ ReadIndex \/ TruncateIndex \/ WriteIndex \/ KillHandler
           \/ \E v \in Versions : PruneManifests(v) \/ PruneStamps(v)
  PROVE  Inv3'
<1>. USE DEF disk, handler, task, history
<1>0. Inv2' /\ TypeInv /\ PhaseInv /\ \A t \in Tasks : OwnFiles(t) /\ StampOf(t)
  BY Handler2 DEF Inv3, Inv2, Inv1
<1>1. \A t \in Tasks : pc[t] = "idle" /\ pc'[t] = "idle"
  BY <1>0 DEF TypeInv, PhaseInv, Parse, ReadIndex, TruncateIndex, WriteIndex, KillHandler,
              PruneManifests, PruneStamps
<1>2. SUFFICES ASSUME NEW t \in Tasks PROVE StampOf(t)'
  BY <1>0 DEF Inv3
<1>3. CASE Parse \/ ReadIndex \/ TruncateIndex \/ WriteIndex
  <2>1. stamp' = stamp /\ files' = files /\ manifest' = manifest /\ cur' = cur /\ torn' = torn
    BY <1>3 DEF Parse, ReadIndex, TruncateIndex, WriteIndex
  <2> QED
    BY <1>0, <1>1, <2>1 DEF StampOf, OneVersion
<1>4. CASE KillHandler
  <2>1. stamp' = stamp /\ files' = files /\ manifest' = manifest
          /\ \A v : <<t, v>> \in torn \/ (v = cur /\ v \in stamp[t]) => <<t, v>> \in torn'
    BY <1>4 DEF KillHandler
  <2> QED
    BY <1>0, <1>1, <2>1 DEF StampOf, OneVersion
<1>5. ASSUME NEW v \in Versions, PruneManifests(v) PROVE StampOf(t)'
  <2>1. stamp' = stamp /\ torn' = torn /\ cur' = v /\ cur = None
    BY <1>5 DEF PruneManifests
  <2>2. CASE t[1] = NameOf[v]
    <3>1. v \in VersionsOf(t[1])
      BY <2>2 DEF VersionsOf
    <3>2. OneVersion(t) => \A w \in stamp[t] : w = v
      BY <1>0, <3>1, SameVersion DEF StampOf
    <3> QED
      BY <1>0, <1>1, <2>1, <3>2 DEF StampOf, OneVersion
  <2>3. CASE t[1] # NameOf[v]
    <3>1. files'[t] = files[t] /\ manifest'[t] = manifest[t]
      BY <1>5, <2>3 DEF PruneManifests
    <3>2. \A w \in stamp[t] : w # None
      BY <1>0, ConstantsAssumption DEF TypeInv
    <3> QED
      BY <1>0, <1>1, <2>1, <3>1, <3>2 DEF StampOf, OneVersion
  <2> QED
    BY <2>2, <2>3
<1>6. ASSUME NEW v \in Versions, PruneStamps(v) PROVE StampOf(t)'
  <2>1. stamp'[t] = stamp[t] \ {v} /\ files' = files /\ manifest' = manifest /\ cur = v
    BY <1>6 DEF PruneStamps
  <2>2. \A w : w # v /\ <<t, w>> \notin torn' => <<t, w>> \notin torn
    BY <1>6 DEF PruneStamps
  <2> QED
    BY <1>0, <1>1, <2>1, <2>2 DEF StampOf, OneVersion
<1> QED
  BY <1>3, <1>4, <1>5, <1>6

LEMMA Task3 ==
  ASSUME Inv3, NEW t \in Tasks, TaskStep(t) \/ KillTask(t)
  PROVE  Inv3'
<1>. USE DEF disk, handler, task, history, Goto
<1>0. Inv2' /\ TypeInv /\ PhaseInv /\ \A u \in Tasks : OwnFiles(u) /\ StampOf(u)
  BY Task2 DEF Inv3, Inv2, Inv1
<1>1. choice' = choice /\ cur' = cur
  BY DEF TaskStep, Clean, WriteManifest, IndexLock, IndexRead, IndexAppend, Copy,
         MakeStamp, KillTask
<1>2. \A u \in Tasks : Version(u)' = Version(u)
  BY <1>1 DEF Version
<1>3. pc[t] # "idle" => Version(t) \in VersionsOf(t[1])
  BY <1>0, VersionType DEF PhaseInv
<1>4. ASSUME NEW u \in Tasks, u # t PROVE StampOf(u)'
  <2>1. /\ pc'[u] = pc[u] /\ files'[u] = files[u] /\ manifest'[u] = manifest[u]
        /\ stamp'[u] = stamp[u]
    BY <1>0, <1>4 DEF TypeInv, TaskStep, Clean, WriteManifest, IndexLock, IndexRead,
         IndexAppend, Copy, MakeStamp, KillTask
  <2>2. \A v : <<u, v>> \notin torn' => <<u, v>> \notin torn
    <3>1. CASE Clean(t)
      BY <1>4, <3>1 DEF Clean
    <3>2. CASE ~Clean(t)
      BY <3>2 DEF TaskStep, WriteManifest, IndexLock, IndexRead, IndexAppend, Copy, MakeStamp, KillTask
    <3> QED
      BY <3>1, <3>2
  <2> QED
    BY <1>0, <1>1, <1>2, <2>1, <2>2 DEF StampOf, OneVersion
<1>5. StampOf(t)'
  <2>1. CASE Clean(t)
    BY <1>0, <2>1 DEF Clean, TypeInv, StampOf
  <2>2. CASE WriteManifest(t) \/ IndexLock(t) \/ IndexRead(t) \/ IndexAppend(t)
    <3>1. stamp' = stamp /\ stamp[t] = {} /\ pc'[t] # "stamp"
      BY <1>0, <2>2 DEF WriteManifest, IndexLock, IndexRead, IndexAppend, TypeInv, StampOf
    <3> QED
      BY <3>1 DEF StampOf
  <2>3. CASE Copy(t)
    BY <1>0, <1>2, <2>3 DEF Copy, TypeInv, StampOf
  <2>4. CASE MakeStamp(t)
    <3>1. stamp'[t] = {Version(t)} /\ pc'[t] = "idle" /\ files'[t] = Version(t)
            /\ manifest'[t] = Version(t) /\ Version(t) \in VersionsOf(t[1])
      BY <1>0, <1>3, <2>4 DEF MakeStamp, TypeInv, OwnFiles, StampOf
    <3> QED
      BY <3>1 DEF StampOf
  <2>5. CASE KillTask(t)
    BY <1>0, <2>5 DEF KillTask, TypeInv, StampOf
  <2> QED
    BY <2>1, <2>2, <2>3, <2>4, <2>5 DEF TaskStep
<1> QED
  BY <1>0, <1>4, <1>5 DEF Inv3

LEMMA Inv3Always == Spec => []Inv3
<1>1. Inv3 /\ [Next]_vars => Inv3'
  <2> SUFFICES ASSUME Inv3, [Next]_vars PROVE Inv3'
    OBVIOUS
  <2>1. CASE UNCHANGED vars
    <3>1. Inv2'
      BY Step2 DEF Inv3
    <3> QED
      BY <2>1, <3>1 DEF vars, Inv3, StampOf, Version, OneVersion
  <2>2. CASE Next
    BY <2>2, Handler3, Task3 DEF Next
  <2> QED
    BY <2>1, <2>2
<1> QED
  BY <1>1, Init3, PTL DEF Spec

(* For a recipe of one version a stamp says that its files are staged,     *)
(* whatever is pruned, rebuilt or killed, except when the handler was      *)
(* killed between the two (sstate.bbclass:1026-1034).                      *)
THEOREM StampsTellHolds == Spec => []StampsTell
<1>1. Inv3 => StampsTell
  BY DEF Inv3, StampOf, StampsTell
<1> QED
  BY <1>1, Inv3Always, PTL

(* Pruning takes no manifest of a version that is parsed, for recipes of   *)
(* one version (sstate.bbclass:1017-1030).                                 *)
THEOREM PruneSparesOneHolds == Spec => PruneSparesOne
<1>1. Inv2 /\ [Next]_vars => [\A t \in Tasks : OneVersion(t) => Spared(t)]_vars
  <2> SUFFICES ASSUME Inv2, Next, NEW t \in Tasks, OneVersion(t),
                      phase = "prune", manifest'[t] # manifest[t]
               PROVE  manifest[t] \notin parsed
    BY DEF Spared
  <2>0. TypeInv /\ PhaseInv /\ Doom /\ OwnFiles(t)
    BY DEF Inv2, Inv1
  <2>1. \A u \in Tasks : pc[u] = "idle" 
    BY <2>0 DEF PhaseInv
  <2>2. ~ \E u \in Tasks : WriteManifest(u) \/ Clean(u)
    BY <2>1 DEF WriteManifest, Clean, Goto
  <2>3. PICK v \in Versions : PruneManifests(v)
    BY <2>2 DEF Next, TaskStep, Parse, ReadIndex, TruncateIndex, WriteIndex, KillHandler, PruneStamps,
           IndexLock, IndexRead, IndexAppend, Copy, MakeStamp, KillTask, disk
  <2>4. v \in doomed /\ v \notin parsed /\ t[1] = NameOf[v] /\ manifest[t] # None
    BY <2>0, <2>3 DEF PruneManifests, TypeInv, Doom
  <2>5. manifest[t] \in VersionsOf(t[1]) /\ v \in VersionsOf(t[1])
    BY <2>0, <2>4 DEF TypeInv, OwnFiles, VersionsOf
  <2> QED
    BY <2>4, <2>5, SameVersion
<1> QED
  BY <1>1, Inv2Always, PTL DEF Spec, PruneSparesOne
=============================================================================
