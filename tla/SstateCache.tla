---------------------------- MODULE SstateCache ----------------------------
(***************************************************************************)
(* SSTATE_DIR, the packages of one sstate task of one recipe in it, shared *)
(* by several builders (meta/classes/sstate.bbclass) and thinned out by    *)
(* scripts/sstate-cache-management.sh while they build.                    *)
(*                                                                         *)
(* A package is known by its hash.  A builder looks for the package it     *)
(* wants, else for one on a mirror, and unpacks it; when it cannot, it     *)
(* runs the task and makes the package.  Nobody takes a lock.  BitBake and *)
(* its fetcher are external: the fetcher may leave a part of the package   *)
(* at its name while it downloads.  The .sig and .siginfo files beside a   *)
(* package are left out.                                                   *)
(***************************************************************************)
EXTENDS Naturals, Sequences

CONSTANTS Builders, Hashes,
          Mirror,      \* hashes with a package on the mirror
          MaxBuilds,   \* bound: invocations of BitBake
          MaxScans,    \* bound: invocations of the script
          MaxKills,    \* bound: tasks killed
          None

ASSUME CacheAssumption ==
  /\ Mirror \subseteq Hashes /\ None \notin Hashes
  /\ MaxBuilds \in Nat /\ MaxScans \in Nat /\ MaxKills \in Nat

VARIABLES
  pkg,        \* pkg[h]: what is at the name of the package
  temps,      \* <<b, h>>: a file of mktemp, made by b for h
  recent,     \* the packages by modification time, newest first
  want, pc,   \* the hash a builder is after, and its next step
  output,     \* output[b]: what is in b's WORKDIR
  stamp,      \* stamp[b]: the hash b has a stamp for
  script, listed, doomed,   \* the script: its step, what it found, what it removes
  steady,     \* history: builders with the same stamp since the script began
  builds, scans, kills

cache == <<pkg, temps, recent>>
builder == <<want, pc, output, stamp>>
manager == <<script, listed, doomed>>
count == <<builds, scans, kills>>
vars == <<cache, builder, manager, steady, count>>

Present == {h \in Hashes : pkg[h] # "none"}
Temps == Builders \X Hashes
Content == {"none", "part", "whole"}
Steps == {"idle", "lookup", "fetch", "download", "isfile", "unpack", "writable", "touch",
          "run", "create", "rename", "stamp"}

(* recent, in which nothing is twice, without h.                           *)
Without(h) ==
  IF \E i \in DOMAIN recent : recent[i] = h
  THEN LET i == CHOOSE i \in DOMAIN recent : recent[i] = h
       IN  SubSeq(recent, 1, i - 1) \o SubSeq(recent, i + 1, Len(recent))
  ELSE recent

TypeOK ==
  /\ pkg \in [Hashes -> Content] /\ output \in [Builders -> Content]
  /\ temps \subseteq Temps /\ recent \in Seq(Hashes)
  /\ {recent[i] : i \in DOMAIN recent} = Present
  /\ \A i, j \in DOMAIN recent : recent[i] = recent[j] => i = j
  /\ want \in [Builders -> Hashes \cup {None}] /\ stamp \in [Builders -> Hashes \cup {None}]
  /\ pc \in [Builders -> Steps]
  /\ script \in {"off", "dup_pick", "stamps_pick", "dup_remove", "stamps_remove"}
  /\ listed \subseteq Hashes \cup Temps /\ doomed \subseteq listed

Init ==
  /\ pkg = [h \in Hashes |-> "none"] /\ temps = {} /\ recent = <<>>
  /\ want = [b \in Builders |-> None] /\ pc = [b \in Builders |-> "idle"]
  /\ output = [b \in Builders |-> "none"] /\ stamp = [b \in Builders |-> None]
  /\ script = "off" /\ listed = {} /\ doomed = {} /\ steady = {}
  /\ builds = 0 /\ scans = 0 /\ kills = 0

-----------------------------------------------------------------------------
Goto(b, from, to) == pc[b] = from /\ pc' = [pc EXCEPT ![b] = to]

(* The file at h's name is there, and newer than every other.              *)
Put(h, content) == /\ pkg' = [pkg EXCEPT ![h] = content]
                   /\ recent' = <<h>> \o Without(h)

Stamp(b, s) == /\ stamp' = [stamp EXCEPT ![b] = s]
               /\ steady' = IF stamp[b] = s THEN steady ELSE steady \ {b}

Build(b) ==
  /\ builds < MaxBuilds /\ builds' = builds + 1
  /\ Goto(b, "idle", "lookup")
  /\ \E h \in Hashes \ {stamp[b]} : want' = [want EXCEPT ![b] = h]
  /\ UNCHANGED <<cache, output, stamp, manager, steady, scans, kills>>

(* sstate_installpkg: the package, or what pstaging_fetch finds.           *)
Lookup(b) ==
  /\ Goto(b, "lookup", IF want[b] \in Present THEN "isfile" ELSE "fetch")
  /\ UNCHANGED <<cache, want, output, stamp, manager, steady, count>>

Fetch(b) ==
  /\ IF want[b] \in Mirror
     THEN Goto(b, "fetch", "download") /\ Put(want[b], "part")
     ELSE Goto(b, "fetch", "isfile") /\ UNCHANGED <<pkg, recent>>
  /\ UNCHANGED <<temps, want, output, stamp, manager, steady, count>>

Download(b) ==
  /\ Goto(b, "download", "isfile")
  /\ \/ Put(want[b], "whole")
     \/ UNCHANGED <<pkg, recent>>
  /\ UNCHANGED <<temps, want, output, stamp, manager, steady, count>>

(* sstate_clean comes before the package is unpacked or the task is run.   *)
IsFile(b) ==
  /\ Goto(b, "isfile", IF want[b] \in Present THEN "unpack" ELSE "run")
  /\ Stamp(b, None)
  /\ output' = [output EXCEPT ![b] = "none"]
  /\ UNCHANGED <<cache, want, manager, count>>

UnpackIgnored(b) ==   \* mistake: that tar fails is not noticed
  /\ Goto(b, "unpack", "writable")
  /\ output' = [output EXCEPT ![b] = pkg[want[b]]]
  /\ UNCHANGED <<cache, want, stamp, manager, steady, count>>

(* tar fails on a part; what it opened it reads to its end, whatever then  *)
(* happens at the name.                                                    *)
Unpack(b) ==
  /\ Goto(b, "unpack", IF pkg[want[b]] = "whole" THEN "writable" ELSE "run")
  /\ output' = [output EXCEPT ![b] = pkg[want[b]]]
  /\ UNCHANGED <<cache, want, stamp, manager, steady, count>>

(* touch fails, and the setscene task with it, if the file went after the  *)
(* test.                                                                   *)
Writable(b) ==
  /\ Goto(b, "writable", IF want[b] \in Present THEN "touch" ELSE "stamp")
  /\ UNCHANGED <<cache, want, output, stamp, manager, steady, count>>

Touch(b) ==
  /\ Goto(b, "touch", IF want[b] \in Present THEN "stamp" ELSE "run")
  /\ recent' = IF want[b] \in Present THEN <<want[b]>> \o Without(want[b]) ELSE recent
  /\ UNCHANGED <<pkg, temps, want, output, stamp, manager, steady, count>>

Run(b) ==
  /\ Goto(b, "run", "create")
  /\ output' = [output EXCEPT ![b] = "whole"]
  /\ UNCHANGED <<cache, want, stamp, manager, steady, count>>

(* sstate_create_package: mktemp and tar, then mv.                         *)
Create(b) ==
  /\ Goto(b, "create", "rename")
  /\ temps' = temps \cup {<<b, want[b]>>}
  /\ UNCHANGED <<pkg, recent, want, output, stamp, manager, steady, count>>

RenameWaits(b) ==   \* mistake: mv tried until it works
  /\ <<b, want[b]>> \in temps /\ Goto(b, "rename", "stamp")
  /\ Put(want[b], "whole") /\ temps' = temps \ {<<b, want[b]>>}
  /\ UNCHANGED <<want, output, stamp, manager, steady, count>>

Rename(b) ==
  /\ IF <<b, want[b]>> \in temps
     THEN /\ Goto(b, "rename", "stamp")
          /\ Put(want[b], "whole") /\ temps' = temps \ {<<b, want[b]>>}
     ELSE Goto(b, "rename", "idle") /\ UNCHANGED cache
  /\ UNCHANGED <<want, output, stamp, manager, steady, count>>

MakeStamp(b) ==
  /\ Goto(b, "stamp", "idle") /\ Stamp(b, want[b])
  /\ UNCHANGED <<cache, want, output, manager, count>>

Kill(b) ==
  /\ kills < MaxKills /\ kills' = kills + 1
  /\ pc[b] # "idle" /\ pc' = [pc EXCEPT ![b] = "idle"]
  /\ UNCHANGED <<cache, want, output, stamp, manager, steady, builds, scans>>

-----------------------------------------------------------------------------
(* The script lists the cache first.  --remove-duplicated looks at         *)
(* packages, --stamps-dir at every file.                                   *)
Find(step) ==
  /\ script = "off" /\ scans < MaxScans /\ scans' = scans + 1
  /\ script' = step
  /\ listed' = Present \cup IF step = "stamps_pick" THEN temps ELSE {}
  /\ steady' = {b \in Builders : stamp[b] # None}
  /\ UNCHANGED <<cache, builder, doomed, builds, kills>>

(* What is to go, of the files found; the user may say no.                 *)
Confirm(files, next) ==
  \/ script' = next /\ doomed' = files /\ UNCHANGED listed
  \/ script' = "off" /\ doomed' = {} /\ listed' = {}

Newest(hs) == recent[CHOOSE i \in DOMAIN recent :
                       recent[i] \in hs /\ \A j \in 1 .. i - 1 : recent[j] \notin hs]

PickAll ==   \* mistake: the newest is not kept
  /\ script = "dup_pick" /\ Confirm(listed \cap Present, "dup_remove")
  /\ UNCHANGED <<cache, builder, steady, count>>

(* remove_duplicated: ls -t of the files found, without the first.  If the *)
(* first is a link to a download of the fetcher in SSTATE_DIR, that one    *)
(* stays with it, and a download goes with its link: the two are one       *)
(* package here.                                                           *)
PickDuplicates ==
  /\ script = "dup_pick"
  /\ LET there == listed \cap Present
     IN  Confirm(IF there = {} THEN {} ELSE there \ {Newest(there)}, "dup_remove")
  /\ UNCHANGED <<cache, builder, steady, count>>

HashOf(f) == IF f \in Hashes THEN f ELSE f[2]

KeepOneDir ==   \* mistake: only the first of the stamps directories is read
  {f \in listed : stamp[CHOOSE b \in Builders : TRUE] = HashOf(f)}

(* Files with the hash of a stamp.                                         *)
KeepStamped == {f \in listed : \E b \in Builders : stamp[b] = HashOf(f)}

(* rm_by_stamps: the rest of the files found goes, but not if that is all. *)
PickUnused ==
  /\ script = "stamps_pick"
  /\ IF KeepStamped = {}
     THEN script' = "off" /\ listed' = {} /\ doomed' = {}
     ELSE Confirm(listed \ KeepStamped, "stamps_remove")
  /\ UNCHANGED <<cache, builder, steady, count>>

Remove(f) ==
  /\ f \in doomed /\ doomed' = doomed \ {f}
  /\ IF f \in Hashes
     THEN pkg' = [pkg EXCEPT ![f] = "none"] /\ recent' = Without(f) /\ UNCHANGED temps
     ELSE temps' = temps \ {f} /\ UNCHANGED <<pkg, recent>>
  /\ UNCHANGED <<builder, script, listed, steady, count>>

Finish ==
  /\ script \in {"dup_remove", "stamps_remove"} /\ doomed = {}
  /\ script' = "off" /\ listed' = {}
  /\ UNCHANGED <<cache, builder, doomed, steady, count>>

-----------------------------------------------------------------------------
Step(b) == \/ Lookup(b) \/ Fetch(b) \/ Download(b) \/ IsFile(b) \/ Unpack(b) \/ Writable(b) \/ Touch(b)
           \/ Run(b) \/ Create(b) \/ Rename(b) \/ MakeStamp(b)

Script == \/ Find("dup_pick") \/ Find("stamps_pick") \/ PickDuplicates \/ PickUnused
          \/ Finish \/ \E f \in Hashes \cup Temps : Remove(f)

Next == Script \/ \E b \in Builders : Build(b) \/ Step(b) \/ Kill(b)

(* A task that BitBake has started runs.                                   *)
Spec == Init /\ [][Next]_vars /\ \A b \in Builders : WF_vars(Step(b))

-----------------------------------------------------------------------------
(* A builder has a stamp only with the whole output, although packages are *)
(* replaced and removed while it unpacks (sstate.bbclass:693-707, 725-731). *)
StampedWhole == \A b \in Builders : stamp[b] # None => output[b] = "whole"

(* --remove-duplicated never takes the last package, whatever the builders *)
(* add or touch between its listing and its removing                       *)
(* (sstate-cache-management.sh:248-301).                                   *)
NeverEmpties == [][script = "dup_remove" /\ Present # {} => Present' # {}]_vars

(* --stamps-dir never takes a package whose user had its stamp before the  *)
(* script began and has it still (sstate-cache-management.sh:330-360).     *)
UsedStays == [][\A b \in steady : script = "stamps_remove" /\ stamp[b] \in Present
                                    => stamp[b] \in Present']_vars

(* A build ends, though packages go after they were found: it then runs    *)
(* the task, or fails (sstate.bbclass:304-309, 657-661).                   *)
BuildEnds == \A b \in Builders : pc[b] # "idle" ~> pc[b] = "idle"
=============================================================================
