---------------------------- MODULE RootfsImage ----------------------------
(***************************************************************************)
(* do_rootfs: lib/oe/rootfs.py on top of lib/oe/package_manager.py.  One   *)
(* image is built again and again in the same WORKDIR, each time with      *)
(* other packages asked for, from an empty tree or, with RPM, on top of    *)
(* the tree of the build before (INC_RPM_IMAGE_GEN).  A package is a model *)
(* value; the tree holds the files of a set of packages, the package       *)
(* database gives each package a status.  A post-install script that fails *)
(* during the build, or whose intercept hook fails, is put off to the      *)
(* first boot.                                                             *)
(***************************************************************************)
EXTENDS Naturals, Sequences, FiniteSets, SequencesExt, DepResolve

CONSTANTS Asked,       \* the sets of packages an image may ask for
          Scripted,    \* packages with a post-install script
          Unneeded,    \* ROOTFS_RO_UNNEEDED
          Complements, \* [Pkgs -> SUBSET Pkgs], what *-locale, *-dev... globs add
          MaxBuilds    \* bound on the builds in the WORKDIR

ASSUME PkgsAssumption ==
    /\ IsFiniteSet(Pkgs) /\ Asked \subseteq SUBSET Pkgs
    /\ Scripted \subseteq Pkgs /\ Unneeded \subseteq Pkgs
    /\ Complements \in [Pkgs -> SUBSET Pkgs]

VARIABLES backend,     \* IMAGE_PKGTYPE
          build,       \* what this build is: [want, inc, ro]
          imgStep,     \* how far create() is
          rootfs,      \* packages whose files are in IMAGE_ROOTFS
          db,          \* [Pkgs -> status] of the package database in IMAGE_ROOTFS
          savedDb,     \* T/saved/target: the database of the last incremental build
          solution,    \* T/saved/target_solution
          hooked,      \* packages that registered with an intercept hook still to be run
          done,        \* packages whose script has done its work
          firstBoot,   \* scripts saved for the first boot, in their order
          postponed,   \* those that RPM's save_rpmpostinst saved, under the plain name
          sound,       \* this build started from nothing, or from the tree that the
                       \* incremental build before finished and backed up
          builds       \* builds so far (bounded)
bootVars == <<firstBoot, postponed>>
workVars == <<backend, build, imgStep, rootfs, db, savedDb, solution, hooked, done,
              firstBoot, postponed, sound, builds>>
imgVars == <<workVars, resolveVars>>

Status == {"none", "unpacked", "installed"}
NoDb == [p \in Pkgs |-> "none"]
NothingSaved == <<>>

(* Everything a set of packages needs, itself included: the least set that *)
(* has what its members need.                                              *)
Closed(T) == \A p \in T : Depends[p] \subseteq T
ClosedSets == {T \in SUBSET Pkgs : Closed(T)}
Closure(S) == {p \in Pkgs : \A T \in ClosedSets : S \subseteq T => p \in T}

(* Everything that needs one of S: smart removes it with S.                *)
Dependents(S) == {p \in Pkgs : Closure({p}) \cap S # {}}

Installed == {p \in Pkgs : db[p] # "none"}

Unpacked == {p \in Pkgs : db[p] = "unpacked"}

(* The scripts put off: what RPM has in /etc/rpm-postinsts, where one      *)
(* script may be under several numbers and under its plain name.           *)
Saved == ToSet(firstBoot) \cup postponed
Delayed == IF backend = "rpm" THEN Saved ELSE Unpacked

ImgInit ==
    /\ backend \in {"rpm", "ipk", "deb"}
    /\ build = [want |-> {}, inc |-> FALSE, ro |-> FALSE]
    /\ imgStep = "idle" /\ rootfs = {} /\ db = NoDb /\ savedDb = NothingSaved
    /\ solution = {} /\ hooked = {} /\ done = {} /\ firstBoot = <<>>
    /\ postponed = {}
    /\ sound = TRUE /\ builds = 0 /\ NotResolving

(* A command that fails is fatal: the build stops, what it did stays.      *)
GiveUp == imgStep' = "failed" /\ sound' = FALSE

(***************************************************************************)
(* Rootfs.__init__: a build that is not incremental removes the tree; an   *)
(* incremental one puts the saved package database back over it, with ipk  *)
(* only if BAD_RECOMMENDATIONS and its like are unchanged                  *)
(* (_remove_old_rootfs).                                                   *)
(***************************************************************************)
RecoveredDb == IF savedDb = NothingSaved THEN db ELSE savedDb

StartImage(w, i, r) ==
    /\ imgStep \in {"idle", "finished", "failed"} /\ builds < MaxBuilds
    /\ i => backend # "deb"
    /\ builds' = builds + 1
    /\ build' = [want |-> w, inc |-> i, ro |-> r]
    /\ imgStep' = IF i THEN "decrement" ELSE "install"
    /\ hooked' = {}
    /\ \/ /\ ~i \/ backend = "ipk"
          /\ rootfs' = {} /\ db' = NoDb /\ done' = {} /\ firstBoot' = <<>>
          /\ postponed' = {} /\ sound' = TRUE
       \/ /\ i /\ UNCHANGED <<rootfs, done, bootVars>>
          /\ db' = RecoveredDb
          /\ sound' = \/ builds = 0
                      \/ /\ imgStep = "finished" /\ sound /\ build.inc
                         /\ savedDb = db /\ solution = Closure(build.want)
    /\ UNCHANGED <<backend, savedDb, solution, resolveVars>>

(***************************************************************************)
(* RpmRootfs._create_incremental: the old solution is read, the new one    *)
(* computed and written over it, and what is only in the old one removed.  *)
(* The trial install may fail, which leaves an empty solution (all of the  *)
(* old one goes), and so may the removal, which is only noted.  With no    *)
(* package asked for dump_install_solution returns None and the loop over  *)
(* the old solution raises.                                                *)
(***************************************************************************)
Solutions(want) == {Closure(want), {}}

\* mistake: the new solution is written before the old one is read
DecrementRpmLate ==
    /\ backend = "rpm" /\ imgStep = "decrement"
    /\ solution' = Closure(build.want) /\ imgStep' = "install"
    /\ UNCHANGED <<backend, build, rootfs, db, savedDb, hooked, done, bootVars, sound, builds, resolveVars>>

DecrementRpm ==
    /\ backend = "rpm" /\ imgStep = "decrement"
    /\ IF build.want = {}
           THEN /\ IF solution # {} THEN GiveUp ELSE imgStep' = "install" /\ UNCHANGED sound
                /\ UNCHANGED <<rootfs, db, solution, done>>
           ELSE \E new \in Solutions(build.want), removed \in BOOLEAN :
                  LET gone == IF removed THEN Dependents(solution \ new) ELSE {}
                  IN /\ solution' = new
                     /\ rootfs' = rootfs \ gone
                     /\ db' = [p \in Pkgs |-> IF p \in gone THEN "none" ELSE db[p]]
                     /\ done' = done \ gone
                     /\ sound' = (sound /\ removed)
                     /\ imgStep' = "install"
    /\ UNCHANGED <<backend, build, savedDb, hooked, bootVars, builds, resolveVars>>

(***************************************************************************)
(* OpkgRootfs._remove_extra_packages: OpkgManifest.create_full truncates   *)
(* the full manifest and then splits the output of opkg, which             *)
(* dummy_install returns as bytes, at a str: TypeError whenever there is a *)
(* package to install.                                                     *)
(***************************************************************************)
DecrementIpk ==
    /\ backend = "ipk" /\ imgStep = "decrement"
    /\ IF build.want = {} THEN imgStep' = "install" /\ UNCHANGED sound ELSE GiveUp
    /\ UNCHANGED <<backend, build, rootfs, db, savedDb, solution, hooked, done, bootVars, builds, resolveVars>>

(***************************************************************************)
(* pm.install and pm.install_complementary.  The scripts of new packages   *)
(* run: each does its work, fails, or registers with an intercept hook, or *)
(* registers and then fails.  opkg leaves a package whose script failed    *)
(* "unpacked", the scriptlet wrapper of RPM saves the script under the     *)
(* next free number, and with dpkg all scripts run later, in Configure.    *)
(* What is complementary goes by what is installed then, and its           *)
(* attempt-only install may come to nothing.                               *)
(***************************************************************************)
Complementary(S) == UNION {Complements[p] : p \in S}

StatusOf(fails) == [p \in Pkgs |-> IF backend = "ipk" /\ p \in fails THEN "unpacked" ELSE "installed"]

Install ==
    /\ imgStep = "install"
    /\ \/ GiveUp /\ UNCHANGED <<rootfs, db, hooked, done, firstBoot>>
       \/ \E more \in {{}, Complementary(Installed \cup Closure(build.want))} :
            LET all == Closure(build.want \cup more)
                new == all \ Installed
                run == IF backend = "deb" THEN {} ELSE new \cap Scripted
            IN \E fails \in SUBSET run, hooks \in SUBSET run :
                 /\ rootfs' = rootfs \cup new
                 /\ db' = [p \in Pkgs |-> IF p \in new THEN StatusOf(fails)[p] ELSE db[p]]
                 /\ hooked' = hooks
                 /\ done' = (done \ new) \cup (run \ (fails \cup hooks))
                 /\ firstBoot' = (IF backend = "rpm" THEN firstBoot \o SetToSeq(fails) ELSE firstBoot)
                 /\ imgStep' = "debugfs" /\ UNCHANGED sound
    /\ UNCHANGED <<backend, build, savedDb, solution, postponed, builds, resolveVars>>

(***************************************************************************)
(* _setup_dbg_rootfs, which renames the tree away and back, the log check  *)
(* and backup_packaging_data.  A failure between the two renames leaves a  *)
(* tree with the database and no package in place of the image.            *)
(***************************************************************************)
DebugfsAndBackup ==
    /\ imgStep = "debugfs"
    /\ \/ GiveUp /\ rootfs' = {} /\ UNCHANGED savedDb
       \/ GiveUp /\ UNCHANGED <<rootfs, savedDb>>
       \/ /\ imgStep' = IF backend = "deb" THEN "configure" ELSE "intercepts"
          /\ savedDb' = IF build.inc THEN db ELSE savedDb
          /\ UNCHANGED <<rootfs, sound>>
    /\ UNCHANGED <<backend, build, db, solution, hooked, done, bootVars, builds, resolveVars>>

MarkUnpacked(S) == [p \in Pkgs |-> IF p \in S THEN "unpacked" ELSE db[p]]

(* DpkgRootfs: mark_packages("installed"), then run_pre_post_installs.     *)
Configure ==
    /\ imgStep = "configure"
    /\ \E fails \in SUBSET (Installed \cap Scripted), hooks \in SUBSET (Installed \cap Scripted) :
           /\ db' = MarkUnpacked(fails)
           /\ hooked' = hooks
           /\ done' = (Installed \cap Scripted) \ (fails \cup hooks)
    /\ imgStep' = "intercepts"
    /\ UNCHANGED <<backend, build, rootfs, savedDb, solution, bootVars, sound, builds, resolveVars>>

(***************************************************************************)
(* _run_intercepts: a hook that does its work completes the scripts that   *)
(* registered with it, unless they are put off; one that fails puts those  *)
(* scripts off to the first boot, which is fatal if RPM cannot save one.   *)
(***************************************************************************)
AfterIntercepts == IF backend = "rpm" THEN "uninstall" ELSE "check"

\* mistake: the failure of a hook is only reported
RunInterceptsWarn ==
    /\ imgStep = "intercepts" /\ imgStep' = AfterIntercepts /\ hooked' = {}
    /\ \E ok \in BOOLEAN : done' = IF ok THEN done \cup (hooked \ Delayed) ELSE done
    /\ UNCHANGED <<backend, build, rootfs, db, savedDb, solution, bootVars, sound, builds, resolveVars>>

RunIntercepts ==
    /\ imgStep = "intercepts" /\ hooked' = {} /\ UNCHANGED firstBoot
    /\ \/ /\ done' = done \cup (hooked \ Delayed) /\ imgStep' = AfterIntercepts
          /\ UNCHANGED <<db, postponed, sound>>
       \/ /\ hooked # {} /\ UNCHANGED <<done, sound>> /\ imgStep' = AfterIntercepts
          /\ IF backend = "rpm"
             THEN postponed' = postponed \cup hooked /\ UNCHANGED db
             ELSE db' = MarkUnpacked(hooked) /\ UNCHANGED postponed
       \/ /\ backend = "rpm" /\ GiveUp /\ UNCHANGED <<done, db>>
          /\ \E S \in SUBSET hooked : S # {} /\ postponed' = postponed \cup S
    /\ UNCHANGED <<backend, build, rootfs, savedDb, solution, builds, resolveVars>>

(***************************************************************************)
(* _get_delayed_postinsts of ipk and deb, once to see whether there is     *)
(* something put off ("check", lines 217 and 247) and once more to save it *)
(* ("save").  A package of the status file is noted when the next one      *)
(* begins, so one that is last in the file is not.  For an image without   *)
(* packages the file is not read.                                          *)
(***************************************************************************)
Listed == IF build.want = {} THEN {{}} ELSE {Unpacked} \cup {Unpacked \ {p} : p \in Unpacked}

ReadPostinsts ==
    /\ imgStep \in {"check", "save"} /\ calls = <<>>
    /\ \E S \in Listed : StartResolve(S)
    /\ UNCHANGED workVars

ResolvePostinsts == (ResolveEdge \/ ResolveNode) /\ UNCHANGED workVars

CircularPostinsts ==
    /\ CircularEdge /\ GiveUp /\ postinsts' = {} /\ calls' = <<>> /\ seenNodes' = {} /\ resolved' = <<>>
    /\ UNCHANGED <<backend, build, rootfs, db, savedDb, solution, hooked, done, bootVars, builds>>

CheckPostinsts ==
    /\ imgStep = "check" /\ AllResolved /\ imgStep' = "uninstall"
    /\ postinsts' = {} /\ calls' = <<>> /\ seenNodes' = {} /\ UNCHANGED resolved
    /\ UNCHANGED <<backend, build, rootfs, db, savedDb, solution, hooked, done, bootVars,
                   sound, builds>>

(***************************************************************************)
(* The check of a read-only image and _uninstall_unneeded.  A read-only    *)
(* image with a script put off is fatal.  The packages a read-only image   *)
(* has no use for are removed, with FORCE_RO_REMOVE in a writable image    *)
(* too, then the scripts put off are saved.  A removal that fails is       *)
(* fatal, with RPM only noted.                                             *)
(***************************************************************************)
Uninstall ==
    LET delayed == IF backend = "rpm" THEN Saved ELSE ToSet(resolved)
    IN  /\ imgStep = "uninstall"
        /\ \/ GiveUp /\ UNCHANGED <<rootfs, db, done>>
           \/ /\ ~(build.ro /\ delayed # {})
              /\ \E gone \in (IF build.ro /\ backend # "rpm" THEN {} ELSE {{}})
                             \cup {Unneeded \cap Installed} :
                   /\ rootfs' = rootfs \ gone
                   /\ db' = [p \in Pkgs |-> IF p \in gone THEN "none" ELSE db[p]]
                   /\ done' = done \ gone
              /\ imgStep' = IF backend # "rpm" /\ delayed # {} THEN "save" ELSE "finished"
              /\ UNCHANGED sound
        /\ resolved' = <<>>
        /\ UNCHANGED <<backend, build, savedDb, solution, hooked, bootVars, builds,
                       postinsts, calls, seenNodes>>

(* _save_postinsts_common, for which _get_delayed_postinsts is called      *)
(* again.  It returns None when the removal took the last package that was *)
(* put off, and the loop over it raises.                                   *)
SavePostinsts ==
    /\ imgStep = "save" /\ AllResolved
    /\ IF resolved = <<>> THEN GiveUp /\ UNCHANGED firstBoot
       ELSE imgStep' = "finished" /\ firstBoot' = resolved /\ UNCHANGED sound
    /\ postinsts' = {} /\ calls' = <<>> /\ seenNodes' = {} /\ resolved' = <<>>
    /\ UNCHANGED <<backend, build, rootfs, db, savedDb, solution, hooked, done, postponed, builds>>

ImgNext ==
    \/ \E w \in Asked, i \in BOOLEAN, r \in BOOLEAN : StartImage(w, i, r)
    \/ DecrementRpm \/ DecrementIpk \/ Install \/ DebugfsAndBackup \/ Configure
    \/ RunIntercepts \/ ReadPostinsts \/ ResolvePostinsts \/ CircularPostinsts
    \/ CheckPostinsts \/ Uninstall \/ SavePostinsts

ImgSpec == ImgInit /\ [][ImgNext]_imgVars

-----------------------------------------------------------------------------
ImgTypeOK ==
    /\ imgStep \in {"idle", "install", "decrement", "debugfs", "configure", "intercepts",
                    "check", "uninstall", "save", "finished", "failed"}
    /\ db \in [Pkgs -> Status] /\ rootfs \subseteq Pkgs /\ done \subseteq Scripted
    /\ firstBoot \in Seq(Scripted) /\ (backend # "rpm" => IsInjective(firstBoot))
    /\ postponed \subseteq Scripted
    /\ postinsts \subseteq Scripted /\ seenNodes \subseteq Scripted \cup {PostinstRoot}
    /\ resolved \in Seq(Scripted)
    /\ calls \in Seq([node : Scripted \cup {PostinstRoot}, left : SUBSET Scripted])

(* A finished image holds the files of exactly the packages its database   *)
(* lists: what was asked for with all they need (less what a read-only     *)
(* image does without) and perhaps packages complementary to them.  So it  *)
(* is for a build from scratch whatever happened before (rootfs.py:391),   *)
(* and for an incremental build on top of a finished one, where no command *)
(* failed and nothing was taken out after the backup (rootfs.py:404),      *)
(* which may keep what was complementary to a package that is gone.        *)
ImageExact ==
    imgStep = "finished" /\ sound =>
        /\ rootfs = Installed
        /\ Closure(build.want) \ Unneeded \subseteq rootfs
        /\ \A p \in rootfs : Depends[p] \subseteq rootfs \cup Unneeded
        /\ rootfs \subseteq Closure(build.want \cup
               Complementary(IF build.inc THEN Pkgs ELSE Closure(build.want)))

(* No post-install script gets lost: in a finished image every package     *)
(* with a script has run it with its intercept hook or has it among the    *)
(* scripts of the first boot, a read-only image has none there, and what   *)
(* opkg and dpkg put off comes after what it needs (rootfs.py:208, 282,    *)
(* 586, 618).  The one exception is the package that the status file of    *)
(* opkg or dpkg has last (rootfs.py:554), whose script is lost if it was   *)
(* put off, also in a read-only image.                                     *)
Lost == (rootfs \cap Scripted) \ (done \cup Saved)

PostinstsKept ==
    imgStep = "finished" /\ sound =>
        /\ \A p, q \in Lost : p = q /\ backend # "rpm"
        /\ build.ro => Saved = {}
        /\ backend # "rpm" => \A i, j \in DOMAIN firstBoot :
                firstBoot[i] \in Depends[firstBoot[j]] => i < j
=============================================================================
