# OpenEmbedded-Core in TLA+

OpenEmbedded-Core is the metadata, the Python libraries and the scripts with
which BitBake builds Linux distributions.  Most of it is recipes: data.  Its
own logic is in `meta/classes/*.bbclass`, `meta/lib` and `scripts/`.  This
directory holds a formal model of that logic in two parts: the shared-state
machinery ("sstate"), which many processes share and a wrong order can break;
and thirteen programs around it, from the making of packages and images to
devtool, wic and the image tests, each of which keeps state on disk or in
processes that a failure or a kill in the middle must not spoil.
Paths below are relative to the repository; `sstate` stands for
`meta/classes/sstate.bbclass`.

Contents

1. The system: components, state, operations, interactions, properties
2. The modules and how they correspond to the code
3. The runs: what each checks, with which bounds
4. Fairness
5. What is proved, and how
6. What is only model-checked
7. What the model found
8. What is not modelled, and why
9. Plan

## 1. The system

### 1.1 How a build works

BitBake parses recipes into tasks (`foo:do_compile`), computes a hash of each
task from the metadata, and runs the tasks as separate processes, several at a
time, in the order of their dependencies.  After a task it writes a *stamp*
with the task's hash in its name; a task with a current stamp is not run.
BitBake itself is not in the repository: everything here that it does (choosing
a version, starting a process, writing a stamp, its lock files, its fetcher)
is modelled from how the code calls it, and marked external in the map.

A task may be an *sstate task*.  Its output, made in a private directory, is
then

* **installed** into a directory that all recipes share (sysroot, pkgdata,
  deploy), with a **manifest** of the files on disk (`sstate_install`);
* **packaged** into `SSTATE_DIR`, under the hash (`sstate_package`), so that a
  later build unpacks it (`sstate_installpkg`, the task's *setscene* variant)
  and need not run the task;
* **cleaned** (taken out again, by the manifest) before the task runs anew, by
  `do_clean`, and when its recipe is no longer reachable.

None of this has a transaction.  The order of the steps (manifest before
files, files before stamps, rename at the end) is what keeps it consistent when
tasks interleave and processes are killed.

### 1.2 Components

| component | modules | its state | its operations | what is hard | correct when |
|---|---|---|---|---|---|
| sstate staging (`sstate`, `staging`, `utility-tasks`) | `SstateStaging`, `SstateIndex`, `CheckHashes` | shared directories, manifests, index, stamps, PACKAGELOCK | install, installpkg, clean, cleanall, package, the ReachableStamps handler, checkhashes | two recipes' tasks at once; kills between any two steps; directories shared by recipes; an index that outlives versions | what is staged is listed; a stamp means staged; nobody removes another's files; nothing waits for ever |
| sstate cache management (`scripts/sstate-cache-management.sh`, `gen-lockedsig-cache`, `oe-check-sstate`) | `SstateCache` | files of SSTATE_DIR and their times | remove duplicates, remove by stamps | runs without locks beside builders | spares the newest and what a stamp uses |
| thread and process pools (`lib/oe/utils.py`) | `ThreadedPool` | a queue, its count of unfinished tasks, the threads | add_task, start, wait_completion; multiprocess_exec | threads take from one queue; a worker dies | every job once; the wait ends |
| locked signatures (`lib/oe/sstatesig.py`) | `LockedSigs` | locked hashes, unlocked recipes, mismatches | get_taskhash, checkhashes, dump_lockedsigs, the dependency filter | the set of unlocked recipes grows while hashes are computed | a locked task keeps its hash unless it must not; a mismatch is reported |
| SDK signature export (`populate_sdk_ext`) | - | the SDK's locked-sigs file and cache | prune, merge, filter | must agree with the build that made it | the SDK finds what it is locked to |
| package splitting and pkgdata (`package*`, `lib/oe/package*`, `cachedpath`) | `PackageSplit` | D, PKGD, PKGDEST, the stat cache, pkgdata, shlibs files | do_package, emit_pkgdata, do_shlibs | steps ask a cache about a tree that they change | each file in one package; modes and links right |
| package manager back ends (`lib/oe/package_manager`, `manifest`) | `RootfsImage` | package databases, index files | install, remove, incremental clean | external tools that fail half-way | image and manifest agree |
| root file systems and images (`lib/oe/rootfs`, `image*`, `rootfs*`) | `RootfsImage` | the image directory, post-install scripts | create, intercepts, delayed scripts, uninstall | order of stages; scripts that fail; builds on top of builds | the image is what was asked for; no script is forgotten |
| SDK construction (`lib/oe/sdk`, `copy_buildsystem`), publication (`oe-publish-sdk`) | `SdkUpdate` (publication) | SDK directories, the server's copy | populate, publish | published while clients fetch | a client sees one version |
| work directory removal (`rm_work`) | - | WORKDIR and stamps | do_rm_work | killed between the directory and the stamps | no stamp claims a WORKDIR that is gone |
| users and groups (`useradd*`, `extrausers`) | - | passwd and group of a sysroot | useradd, groupadd, with retries under a lock | recipes share one passwd | one identifier per user |
| patch application (`lib/oe/patch`, `patch.bbclass`) | `PatchTree` | a tree, a series, what is applied, git's hooks | Import, Push, Clean, Resolve | a failure or a kill in the middle, then another run | no patch twice or half unless reported; the user's hooks come back |
| PR service client (`lib/oe/prservice`, `prexport`, `primport`) | - | values of a remote server | dump, import, export | the server is BitBake's | export then import keeps the values |
| build history, quality checks, metadata helpers, error reports and statistics | - | text | - | - | - |
| kernel classes, language and build-system classes, recipes and configuration | - | data and shell fragments | - | - | - |
| runqemu (`scripts/runqemu*`) | `RunqemuTap` | lock files of tap devices | acquire, release, set up, clean up | two instances race for a device | one QEMU per device |
| devtool (`scripts/lib/devtool`) | `DevtoolWorkspace`, `DeployTarget`, `SdkUpdate` | the workspace layer, source trees, files on a target, an installed SDK | add, modify, upgrade, sync, update-recipe, finish, reset; deploy, undeploy; sdk-update | commands in any order, each of which may stop half-way | no work of the user is lost; reset and undeploy undo; an update is whole |
| recipetool | - | text of recipes | create, append | - | - |
| combo-layer | `ComboLayer` | `last_revision` per component, patches | pull, update, init, splitpatch | a patch fails in the middle | an update goes on from where it stopped |
| wic (`scripts/lib/wic`) | `WicImage`, `SparseCopy` | fstab, partition images, the layout of a disk | prepare, layout, assemble | alignment and limits of MBR/GPT; runs again after a failure | partitions lie apart, in order, with the right contents |
| runtime test framework (`lib/oeqa`) | `TestRun`, `QemuRunner`, `HostCommand` | results, QEMU's process, threads, sockets, the output of commands | order, skip, start, login, run, stop | timeouts against late answers; signals | a test runs after what it depends on; no QEMU or process is left |
| selftests, build performance, pybootchartgui, developer scripts | - | - | - | test drivers, vendored or one-shot | - |

### 1.3 Interactions that matter

* sstate tasks of different recipes share directories, and (for
  `do_packagedata` and the packaging tasks) a lock file, `PACKAGELOCK`:
  installers share it, cleaners and the readers in `package.bbclass` take it
  alone.  `do_populate_sysroot` has no lock.
* Builders of different build directories share `SSTATE_DIR`, without a lock,
  with one another and with the management script.
* Before it starts, BitBake calls `sstate_checkhashes`, which asks the mirrors
  about every setscene task by a `ThreadedPool`, and which gives the missed and
  the found to `checkhashes` of the signature generator.
* The ReachableStamps handler runs after parsing and before any task; it reads
  what `sstate_install` of earlier invocations wrote to the index.
* The other programs work one at a time on trees of their own and meet others
  only where the table says so: QEMU's runner with `runqemu`, several `runqemu`
  with one another, `sdk-update` with who publishes, commands with the
  processes they start.  What they have in common is what comes between two
  steps: a failure, a kill, a timeout, and the next run on what is left.

## 2. The modules and how they correspond to the code

Each action is a handler, or that part of one between two accesses to shared
state.  `PROJECT.json` maps each definition to its lines.  `MC*` modules give
constants their values for TLC.  A definition whose comment starts with
*mistake:* is the form a plausible bug would give to the definition after it;
nothing uses it: substituted for that definition, it must make TLC report a
violation.

**`SstateStaging`** models `sstate_install`, `sstate_installpkg`,
`sstate_clean`, `sstate_clean_manifest`, `sstate_package`, `do_clean`,
`copyhardlinktree` of `lib/oe/path.py` and the reader in
`package_do_pkgconfig` and `package_do_shlibs`.

| variable | in the code |
|---|---|
| `area[f]` | the file f in the shared directory; its value is the task that staged it |
| `dirs` | directories that exist there |
| `manifests`, `listing` | the manifest files and their lines: files, directories, and perhaps one line cut short |
| `stamp`, `cache` | stamps per task, packages in SSTATE_DIR per task |
| `shared`, `excl` | who holds the flock on PACKAGELOCK, and how |
| `pc`, `mode`, `todo`, `cur` | a task's process: where it is, as setscene, run or clean, the files it has left, the directory it works in |
| `want`, `job`, `tried`, `failed` | BitBake's runqueue: hashes, what the user asked for, setscene tasks tried, tasks that failed |

A task's process goes through the code as follows, every arrow a step at which
another process may come between: `package_lookup` (setscene only) - `clean` -
`clean_lock` - `clean_files` (one file a step) - `clean_dirs` (one directory a
step) - `clean_stamps` - `make` - `install` - `install_lock` - `check` (one file
a step) - `manifest_write` - `make_dirs` - `copy` / `copy_files` (one
directory, one file a step) - `package` (not setscene) - `stamp`.  `Kill` stops it anywhere;
while the manifest is written, any part of it may be on disk.  A removal may
fail: `sstate_clean_manifest` passes over the `OSError` and drops the manifest
all the same.  What it leaves so is in the history variable `left`.

**`SstateIndex`** looks at the same code from further away (a clean is a step)
and adds what needs several invocations: versions of a recipe, the index file,
its lock, and `sstate_eventhandler2` step by step: read the index, remove the
manifests, remove the stamps, truncate the index, write it.

**`ThreadedPool`** is `ThreadedPool` and `ThreadedWorker` of
`lib/oe/utils.py`.  **`CheckHashes`** instantiates it for `sstate_checkhashes`:
the scan of SSTATE_DIR, the jobs, `checkstatus` in the threads, and the result,
fatal or not.  An exception that `checkstatus` does not catch is printed by its
thread and goes no further (`CheckRaises`): the task is then in no list of
those found or missing, whatever there is on the mirror.  **`HashCheck`** is
what the call promises: at once, one answer, about the tasks whose check did
not break (`unchecked`).  `CheckHashes` is shown to implement it (`Implements`).

**`LockedSigs`** is `SignatureGeneratorOEBasicHash`: the dependency filter
`sstate_rundepfilter`, `get_taskhash` with its growing set of unlocked recipes
and its locked hashes, `checkhashes`, `dump_lockedsigs`, and the invocation
that reads that file back.  A hash is a term: two are equal only if computed
from the same things.  The order in which BitBake asks for hashes is any order
that follows the dependencies.  That a recipe's name is searched for *inside*
the names of others is kept (`Inside`).

**`SstateCache`** is SSTATE_DIR as several builders use it, for one task of
one recipe: look the package up, fetch it (a part may lie at its name
meanwhile), test for it, unpack, touch, or run the task and create the package
by `mktemp`, `tar` and `mv`; and `sstate-cache-management.sh` with
`--remove-duplicated` and `--stamps-dir`: list, pick, remove one by one.  The
modification times are an order, `recent`.  A package that was fetched is a
symbolic link in SSTATE_DIR to the file that the fetcher downloaded; the script
treats both as one (it keeps both or removes both), and so does the model.

### 2.1 The programs around sstate

Each of these modules is one program with its variables, `...Init`, `...Next`
and `...Spec` prefixed, so that **`Tools`** can compose all thirteen:
the variable `active` says which program a behaviour is about, the others stay
in one initial state of theirs.  They share no state, so this checks each by
itself, and one run answers for all; that nothing is lost by it is a theorem
(`ToolsImplementEach`, section 5).  `MCTools` gives the constants their values.

| module | the code | state | a step is |
|---|---|---|---|
| `PackageSplit` | `package.bbclass`: `split_and_strip_files`, `copydebugsources`, `fixup_perms`, `populate_packages`, `package_fixsymlinks`; `lib/oe/cachedpath.py` | D and PKGD as maps from paths to entries, what the cache holds for absent (`absent`), the contents of the packages, RDEPENDS | one function, one line of the table of links, one package listed, one package filled |
| `RootfsImage` | `lib/oe/rootfs.py` over `lib/oe/package_manager.py` and `meta/classes/rootfs*` | the files of packages in the tree (`rootfs`), the database (`db`) and its saved copies, scripts done, hooked and put off | a stage of `create()`: what RPM or opkg take away first, install, backup, configure, intercepts, uninstall |
| `PatchTree` | `patch.bbclass`, `lib/oe/patch.py` | what is applied and what is in the tree by half, `series`, git's hooks and where they are put aside | the start of a run, or one patch with `patch`, `quilt` or `git` |
| `DevtoolWorkspace` | `scripts/lib/devtool/standard.py`, `upgrade.py` | the recipe in its layer and in the workspace, the bbappend's commits, the attic, the source tree, its commits and local files | one command, which may fail on the way, or something the user does |
| `DeployTarget` | `devtool/deploy.py`: the script it writes | files and directories of the target, lists and preserved files per recipe | one script, whole, cut short, or with moves and `rmdir`s that fail and do not stop it |
| `SdkUpdate` | `devtool/sdk.py`, `oe-publish-sdk` | versions of layers, configuration files, manifest on the server and in the SDK, or that one of them is gone or torn | a fetch, a move, a preparation; publications come between |
| `WicImage` | `wic/imager/direct.py`, `partition.py`, `utils/partitionedfs.py` | the fstab and its backup, images of partitions, where each partition lies and where each disk ends, what is written to it | one of wic's stages, which may fail; in the layout, one partition |
| `SparseCopy` | `wic/filemap.py` | the mapped blocks and extents, the buffer of extents, the ranges found, the bytes written | one ioctl or seek, one extent looked at, one range copied |
| `ComboLayer` | `scripts/combo-layer` | heads, `last_revision` on disk and committed, patches made, applied, left out by the user | a pull, a patch, a revision saved, the commit |
| `RunqemuTap` | `scripts/runqemu`, `runqemu-ifup` | devices, lock files and their flocks, each process's place and device, devices of a QEMU that outlived its runqemu | open, flock, make a device, unlock, remove |
| `QemuRunner` | `lib/oeqa/utils/qemurunner.py`, `targetcontrol.py` | where the main thread and the logging thread are, runqemu, the process groups whose qemu runs or was told to end, the monitor process and the group it was forked for, the signal handler and the one saved | a stage of `start()` or `stop()`, of the thread, or what processes do |
| `HostCommand` | `lib/oeqa/utils/commands.py`, `sshcontrol.py` | the caller, `commThread`, the process, who has its output open, chunks in the pipe | one read, join, timeout or signal, or what the command does |
| `TestRun` | `lib/oeqa/oetest.py`, `utils/decorators.py` | decorators, tests left, result lists, the guest | the sorting of the suites, a stage of one test |

Choices made in them:

* A *failure* is a disjunct of the step that can fail, with what the code has
  done by then; a *kill* is an action of its own.
* `excused`, `unreturned`, `raced`, `passedOver`, `met`, `behind`, `orphans`,
  `unstopped`, `finishCut`, `fstabCut`, `sound`, `interrupted` are history
  variables, as are `left`, `torn` and `unchecked` of the modules about sstate.
  They note that something happened which section 7 lists as a known way to
  lose, for the one file, device, process group or task that it happened to
  where the code tells them apart; the property then says that there is *no
  other* way.
* Tools that are not in the repository (RPM, opkg, dpkg, patch, quilt, git,
  parted, the kernel's FIEMAP, flock, QEMU) are modelled by what the code
  expects of them, and marked external in the map.

The `...Proofs` modules hold the theorems: `SstateStagingProofs`,
`SstateIndexProofs`, `CheckHashesProofs`, `LockedSigsProofs`,
`SstateCacheProofs` about the modules they are named after, `TasksProofs` about
the tasks `PackageSplit`, `PatchTree` and `RootfsImage`, `WicProofs` about
`WicImage` and `SparseCopy`, and `ToolsProofs` about the other programs: `DevtoolWorkspace`,
`DeployTarget`, `SdkUpdate`, `ComboLayer`, `RunqemuTap`, `QemuRunner`,
`HostCommand` and `TestRun`.  `ToolsProofs` extends `TasksProofs` and
`WicProofs`, and its last theorems speak of the composition of all thirteen.

**`DepResolve`**, a part of `RootfsImage`, is `_dep_resolve` of
`lib/oe/rootfs.py`, the recursive walk that orders the scripts put off to the
first boot.  The recursion is a stack, `calls`: each call with its node and the
edges that it has still to look at, in any order.  A step looks at one edge
(passes it over, calls, or raises the error of a circle) or ends a call.
Dependencies may have circles.

## 3. The runs

Twelve runs; in each, "pass" means that TLC visits every reachable state of
the instance and finds nothing wrong.

| run | what it shows | instance |
|---|---|---|
| `staging_locked` | `Listed`: a staged file is in its task's manifest on disk, unless a clean could not remove it.  `StampsTell`: a stamp means that the files are there.  `ReaderFindsFiles`: a reader opens all it listed.  `CopierKeepsDir`: no directory goes from under `cp`.  `OthersStay`: a task removes or replaces only its own files.  `Progress`: nobody waits for the lock for ever, every task asked for ends stamped or failed | two recipes, three files in two directories of which one is shared, two hashes, a reader, two invocations, one kill or one removal that fails |
| `staging_duplicate` | violation of `NoFileTwice` | two recipes that stage the same file, first invocation |
| `staging_cut_manifest` | violation of `OthersStay` when a manifest may be cut (`MaxCuts = 1`) | as `staging_locked` |
| `index` | `IndexOnce`: a version has at most one line.  `FilesIndexed`: what is staged is in the index, unless a kill took it out.  `UnreachableGone`: after the handler nothing unreachable is staged.  `StampsTell`.  `PruneSparesOne`: what is parsed is spared for recipes of one version | a recipe of two versions and one of one, two sstate tasks each, three invocations, one kill |
| `index_prune` | violation of `PruneSpares`, the same without "of one version" | one recipe with two versions |
| `checkhashes` | `Partition`: each task is found or missed, and found what there is but for checks that raised.  `Returns`: the call ends.  `Implements`: the threads do what `HashCheck` does in a step | five tasks: one local, the mirror any subset, one allowed to run; three threads of which two may die; any check may raise |
| `lockedsigs` | `StaysLocked`, `RunsUnlocked`, `NoSilentMismatch`, `RoundTrip` | eight tasks of five recipes and a native tool, one recipe unlocked by the user, any subset of the tasks changed, any order, two invocations |
| `lockedsigs_recipe` | violation of `RecipeUnlocked` | another recipe unlocked |
| `lockedsigs_exists` | violation of `LockedExist` | none unlocked, the check for packages set to `error` |
| `sstate_cache` | `StampedWhole`: nobody uses a part of a package.  `NeverEmpties`: `--remove-duplicated` leaves a package.  `UsedStays`: `--stamps-dir` leaves what a stamp had and has in use.  `BuildEnds` | two builders, three hashes, one on the mirror, three builds, one run of the script, one kill |
| `tools` | eighteen properties of the thirteen programs, below | `Tools.cfg`: 712,000 states |
| `tools_local_files` | violation of `LocalFilesKept` | the same programs |

The properties of `tools`:

| property | of | says |
|---|---|---|
| `SplitExact` | `PackageSplit` | `do_package` never fails for what its cache says of files it made itself; each file is in one package or reported, known directories get their modes, a link's target is in the package or in one it depends on |
| `ImageExact` | `RootfsImage` | a finished image holds what its database lists: what was asked for, all that needs, perhaps complements, and nothing else of an earlier image |
| `PostinstsKept` | `RootfsImage` | every script has run with its hook or is saved for the first boot, in an order that follows dependencies; a read-only image has none saved.  Not so for the package that is last in the status file of opkg or dpkg (section 7) |
| `PatchingKeeps` | `PatchTree` | `do_patch` ends well only on the whole patched tree; the next run can reverse what a failed one did; the user's git hooks are not lost |
| `UpdateExact`, `UserWorkKept` | `DevtoolWorkspace` | update-recipe and finish leave exactly the patches of the commits; no command loses a changed file, a source tree or a recipe |
| `TargetRestored` | `DeployTarget` | the target's own regular files are in place or put aside, and come back, except those that undeploy could not move back and then removed |
| `SdkRecovers` | `SdkUpdate` | when sdk-update says that it is done, no layers are gone or torn; configuration and layers are the server's, whatever was killed before, but for a publish met on the way and a clone that stays at its commit |
| `WicPlaced` | `WicImage` | partitions are aligned, disjoint, inside the extended one when logical, numbered as fstab names them, with their own image written there |
| `CopyExact` | `SparseCopy` | the data of the source, and no other byte, is at its place in the destination |
| `NoCommitLost` | `ComboLayer` | what `last_revision` stands for is in the combined repository, or was left out by the user |
| `TapExclusive` | `RunqemuTap` | two QEMUs have one device only when that device was taken through one of three known windows |
| `StoppedMeansGone`, `QemuEnds` | `QemuRunner` | a stopped runner leaves no runqemu, monitor or thread, no qemu that was not told to end (but one that lost its runqemu), and its signal handler only after a start without a stop; when the tests are killed the newest group is told to end once a monitor is forked for it |
| `NothingLeft`, `CallsEnd` | `HostCommand` | a call that returns leaves no process and no unread output unless it says so; a timeout is kept but in two cases |
| `DependenciesPassed` | `TestRun` | a test's code runs only when what it depends on has passed |
| `ToolsTypeOK` | all | the types |

Why these bounds are enough to be interesting:

* *Two tasks* are the least that interleave.  The steps of the staging code
  look at their own manifest, the shared files and the lock, so a violation
  needs a victim and a culprit; the proofs (section 5) then say that no number
  of tasks brings more.  The *shared directory* with one file of each is what
  the removal of empty directories is about; the second file of the first task
  lies elsewhere and goes when the hash changes.
* *Two invocations* (`MaxBuilds = 1`: one after the first) suffice to leave
  stamps, files and manifests behind and to meet them with the old or another
  hash, after a clean or a kill.  `index` has *three*: build, switch the
  version, switch back or remove.
* *One mishap* (`MaxMishaps`) at any step: a kill, or the removal of a file or
  directory that fails.  What it leaves is met by the
  next invocation.  `index` and `sstate_cache` have one kill (`MaxKills`); in the
  latter it leaves a temporary file for the script to find.  `MaxCuts` bounds
  manifests cut within a directory's name, apart, because that case has a
  violation of its own.
* *Two dying threads* of three (`MaxDeaths`): any but the last.
* *Three hashes*: one that is used, one on the mirror, one to be removed; one
  *scan* (`MaxScans`), since the script keeps no state of its own.
* Images: four packages with two dependencies, a complement that needs a
  package of its own, and one that a read-only image does not need; images asked
  for with nothing, with the application and with the service only; two builds in one WORKDIR (`MaxBuilds = 2`
  in `Tools.cfg`), with RPM the second on top of the first.
* Runs again after failures or kills: two starts of QEMU (`MaxStarts`), three
  runs of `do_patch` on two patches (`MaxPatchRuns`), three commands of devtool
  and three edits on two patches (`MaxCommands`, `MaxEdits`, `NPatches`), two
  runs of wic (`MaxWicRuns`), four deployments of two recipes
  (`MaxDeploys`), four updates of an SDK against three published versions
  (`MaxUpdates`, `MaxPublished`), two updates of two components of which one
  has a merge of two branches (`MaxComboRuns`).  One run leaves something
  behind, the next meets it, and where a third finds something else than the
  second there are three.
* wic: all kickstart files of six partitions of three usual kinds (the fifth and
  sixth are logical under msdos) and of up to three of all seven kinds (swap, boot,
  fsimage, no table, second disk, alignments).
* runqemu: three processes and two devices of which one is made beforehand:
  one in possession, one that waits, one that comes in the window between.
* Sparse copy: every subset of four blocks of two bytes, every cut into
  extents, every size of file, buffers of two extents, two offsets.
* Commands: two chunks of output (`MaxChunks`): one read, one not.
* Tests: three suites, two tests of which have the same name, decorators that
  make a chain, a circle and a stack, with and without one test deselected.
* Packages: 144 trees (ELF files with a hard link, links to a file, to debug
  information, to a directory that is not there yet, `/lib` or `/usr/src`,
  `/var/run` to be moved or blocked), four sets of FILES, three packages of
  which PACKAGES names one twice.

`CHECK_DEADLOCK FALSE` is set throughout because all these systems stop: the
last invocation has nothing left to do, or a call returns.  That they do not
stop *early* is what the liveness properties say.

## 4. Fairness

* `SstateStaging`: weak fairness for the start and the steps of each task, and
  for a reader that holds the lock.  A process that the operating system
  schedules goes on; BitBake starts a task that is needed.  A reader need not
  start.  Waiting for the lock needs no strong fairness in the instance: the
  bounded number of installers and readers ends, so the lock comes free and
  stays free.  For an unbounded stream of readers flock gives no such promise,
  and none is claimed.
* `CheckHashes`: weak fairness of the whole next-state relation: some thread
  that can run does.  At least one thread survives `worker_init`; with none,
  `wait_completion` waits for ever, which is listed as a hazard.
* `SstateCache`: weak fairness of each builder's step.  The builders wait for
  nobody, the script need not go on.
* `QemuRunner` (in `Tools`): weak fairness of the main thread, of the logging
  thread and of the monitor process; none of QEMU, which may hang, and none of
  a kill.  `QemuEnds` leaves out a thread that was never told to stop, which is
  waited for for ever, a group for which no monitor is forked yet, and a qemu
  that lost its runqemu (section 7).
* `HostCommand`: weak fairness of the caller (whose timeouts are among its
  steps: time passes) and of `commThread`; none of the command, which need not
  write, close its output or end.

## 5. What is proved, and how

TLAPS checks the theorems below for every value of the constants that the
named ASSUME of the module admits.  Each is `Spec => []Inv` (or `[][A]_vars`)
by an inductive invariant with one proof step per action.

* **`SstateStagingProofs`**
  * `TypeCorrect`: the types.
  * `FilesListed` (`Listed`).  `Listed` is not inductive: that a copied file is
    listed depends on the copier's work list being part of its manifest, that
    a manifest is removed without leaving files on the cleaner's work list
    being all that is left, but for what it could not remove (`left`).  The
    invariant says both, for each `pc`.  It needs no assumption on outputs,
    locks, kills or failures.
  * `LockProtects` and `CopierKeepsDirHolds` (`ReaderFindsFiles`,
    `CopierKeepsDir`) under the assumption that every task takes the lock
    (`Locked = Tasks`).  The
    invariant: who holds the lock, by `pc`; whoever is in the middle of a
    clean holds it alone.
  * `HoldersWorkHolds`: whoever holds the lock, alone or shared, is at a step
    between taking and giving it back; no fatal error, kill or end of a task
    leaves it held.  Without any condition.
  * `StampsTellHolds`, `OthersStayHolds` under `Apart`: outputs of different
    tasks have no file in common, and no manifest is cut (`MaxCuts = 0`).  No
    lock is needed.  The two runs that violate properties of this module drop
    one of the two conditions each.  Invariants: `OwnInv` (what is listed,
    what is copied and what is cleaned is the task's own output), `StampOf`
    and `StagedInv` (by `pc`, what a stamp still says about files).
* **`SstateIndexProofs`**: `TypeCorrect`, `IndexOnceHolds`, `FilesIndexedHolds`,
  `UnreachableGoneHolds`, `StampsTellHolds`, `PruneSparesOneHolds`, in three
  layers.  `Inv1`: the holder of `index.lock` is the only task between its look
  at the index and its line, so what it saw still holds (`OnceInv`).  `Inv2`:
  what lies in the shared area has a manifest of its own recipe and is known to
  the index or to the lines the handler keeps (`OwnFiles`, `Known`), and what
  the handler means to remove is not parsed (`Doom`).  `Inv3`: what a stamp
  still says (`StampOf`); it needs that a recipe of one version has no other
  version's stamps, by `FS_Singleton` of the library.
* **`CheckHashesProofs`**: `TypeCorrect`, `PartitionHolds`, `EnforcedAlways`
  (no return with a missing package whose task may not run, unless the check of
  that task raised), `NoJobTwiceHolds`
  (no job is taken twice), and `ImplementsHashCheck`: the threads implement
  `HashCheck`.  `PoolInv` says
  where a job is (queue, a thread, done), `ListInv` what the lists hold for
  jobs done and not done.  Both hold for any number of tasks and threads.
  `NeverStuckHolds`: until the call has its answer some thread can go on,
  provided that there are more threads than may die in `worker_init`.
  `WorkInv` says why: a job that is not done is in the queue or with a thread
  at work, a thread ends only when the queue is empty, and it is filled before
  the first thread starts (`NumTasks` is a place for each job).
* **`LockedSigsProofs`**: `TypeCorrect`, `RunsUnlockedHolds`, `StaysLockedHolds`,
  `NoSilentMismatchHolds`, `RoundTripHolds`.  `HashInv` says what a hash
  given earlier was computed from, `SpreadInv` that unlocking only follows
  dependencies, `FirstInv` what holds in the invocation that dumps.
* **`SstateCacheProofs`**: `TypeCorrect`, `StampedWholeHolds` (`BuilderInv`:
  what is in WORKDIR, by `pc`), `UsedStaysHolds` (`SpareInv`: no package that is
  to go belongs to a stamp that has been the same since the script began) and
  `NeverEmptiesHolds`.  The last needs that the order of times is kept:
  `OrderInv` says that `recent` lists each package that is there, once;
  `ScriptInv` that what the script means to remove does not contain the newest
  of what it listed; `SpareOne` that one package therefore stays.  That a set
  of positions has a least one comes from the library's well-founded induction
  (`WFMin` on `NatLessThanWellFounded`), with no induction of its own.
* **`ToolsProofs`**
  * `UserWorkKeptHolds`, for any number of patches, commands and edits:
    `EditInv` says where a changed file may be, by `devKind`.
  * `UpdateExactHolds`: `ListInv` says what the bbappend's list means.
  * `TargetRestoredHolds` for any files, recipes and number of scripts, under
    `DeployAssumption`, in any directories.  The property looks at all recipes at once and is
    not inductive; `FileInv` says who may hold the target's own copy of one
    file (`Claims`), one recipe at most.
  * `SdkRecoversHolds` for any number of versions and updates
    (`SdkAssumption`): `VersionInv` bounds what can be of which version,
    `RunInv` says by `sdkStep` what has been fetched and what has been moved,
    `MetInv` and `BehindInv` from where it is, as long as `met` and `behind`
    do not excuse it.
  * `NoCommitLostHolds`, for any history, heads and components
    (`ComboAssumption`: a commit's ancestors are closed and come earlier):
    `SettledInv` for both revisions, on disk and committed, `ComboListInv` and
    `ApplyInv` for the patches that wait and the last one gone through.
  * `TapExclusiveHolds`, for any number of processes and devices
    (`TapAssumption`).  `FlockInv`: who uses a device with a lock file open has
    locked that file, and alone.  `NameInv`: on a device that was not taken
    through a window the file he has open is the one with the lock's name,
    nobody is about to remove that name, and no QEMU is left there.  Neither gives the property alone: two open files may
    be locked while only one has the name.
  * `StoppedMeansGoneHolds` for any number of starts, with the types: what
    `start()` has begun is known to the main thread at each of its places, only
    the newest group may be neither told to end nor without its runqemu, and
    `handleSIGCHLD` is the saved handler only after a start without a stop.
  * `NothingLeftHolds` for any amount of output: `PipeInv` says what
    `commThread` knows at each place, `CallerInv` what the caller does.
  * `DependenciesPassedHolds`, for any suites, tests, decorators and choice of
    tests (`SuitesAssumption`: they are finite).  The property speaks of the
    moment when a test runs; that its dependency has been gone through by then
    comes from the order.  `Accounted`: a test is left, has a result, or its
    module was passed over.  `InOrder`: what is left is sorted.  `Unhindered`:
    while the code of a test runs, no test it names is in the lists of failed
    and skipped.  `DepthOrders` shows that the depths of
    `set_suite_depth`, where there are any, order suites by their dependencies.
  * `SdkTypeHolds`, `CmdTypeHolds`: the types of the two programs whose other
    invariants do not contain them.
  * `ToolsImplementEach`: the composition implements the specification of each
    program, since a step is one program's and leaves the variables of the
    others alone (`OneAtATime`).  By it, and the theorems about the programs,
    `ToolsTypeHolds` (`ToolsTypeOK`) and `ToolsSafe` (all invariants and action
    properties that the run `tools` checks, except that one).
* **`TasksProofs`**
  * `ImageExactHolds` and `PostinstsKeptHolds`, for any packages, dependencies,
    complements and scripts (`PkgsAssumption`), any back end and any number of
    builds.  `TreeInv`: while no command has failed, tree and database agree,
    nothing in the tree lacks what it needs, and at each stage what is in it
    comes from what was asked for, the complements or, before an incremental
    RPM build has decremented it, the solution.  The step that matters is
    that one: taking the dependents of what is gone leaves a closed set
    (`ClosureIsClosed`, `ClosureIsLeast`).  `ScriptInv`: every script in the tree has run,
    waits for its hook or is put off.  The order of
    the scripts put off is that of the walk: `ResolveInv` says at which stages
    `calls` is empty, `WalkInv` what a stack of calls means.  `OnTheWay`: an
    edge of a call is still to be looked at, resolved, or the node of the next
    call.  `PathInv`: a call is for something that the calls before it need, and
    no node has two.
    `SeenInv`: a node that was seen is resolved or on the stack.  `OrderInv`:
    what is resolved comes after all it needs.
  * `AlarmIsRealHolds`: the walk raises its error only when a package that was
    put off needs itself.  No run checks it; it is the other half of the order:
    without it a walk that always raises would keep `PostinstsKept`.
  * `ImgTypeHolds`: the types, of which one is not plain: what is unpacked,
    walked to or saved has a script, and opkg's and dpkg's saved order has it
    once.
  * `PatchingKeepsHolds`, for any patches (`PatchesAssumption`: at least one, no
    name twice) and any number of runs, failures and kills.  `PatchWorkInv`:
    git's tree has a prefix of the patches, quilt's stack is where do_patch is,
    and without a kill the series of `patch` is what is applied.
  * `SplitExactHolds`, for any packages and FILES, any content of D
    (`TreesAssumption`) and any tables (`TablesAssumption`).  `SplitTreeInv`:
    PKGD is a tree after each step, and what is still to be put into it finds
    directories on its way or nothing; with the lemmas about what is above a
    path (`PutIs`, `AbovePut`: about one that is moved with its directory) this
    is the longest part, since each of `split_and_strip_files`,
    `copydebugsources` and `fixup_perms` changes PKGD in another way.
    `CacheInv`: what the cache takes to be missing has a reason that
    `ModesFixed` names, or becomes a link.  `PackagesInv`: the list of packages has
    each once, and a -dbg package first.  `ShareInv`: the packages share
    nothing but directories, `seen` is what they have, and the first one has
    the debug information.
  * `SplitTypeHolds`: `SplitRestInv` adds what the others leave open: what was
    given its mode or is reported as unshipped is in PKGD, the root is never
    missing for the cache, and a package that a link makes another one depend
    on is one of the recipe's (`ProvidersArePackages`).
* **`WicProofs`**
  * `WicPlacedHolds`, for any kickstart files (`KickstartsAssumption`: types
    and at least one partition), both tables, any number of runs.  `PlacedInv`:
    what is laid out lies before the offset of its disk, apart and aligned,
    and a logical partition has the one numbered 5 before it.  `NumberInv`:
    on one disk the count kept during the layout is the count that names
    partitions in fstab before it.  `FstabInv`: how many lists of lines
    `/etc/fstab` has.  `WrittenInv`: what `assemble` wrote.
  * `CopyExactHolds`, for any size of file, block and buffer, any extents and
    offsets (`CopyAssumption`).  `UpTo(n)`: the ranges found cover exactly the
    blocks with data before block n.  `FiemapInv` says that n is the next extent
    of the buffer, or the block the ioctl is asked for next, and that no extent
    lies between what was looked at and what the buffer holds; `SeekInv` that
    it is the byte where the next block begins.  `CopiedInv`: a byte with data
    is at its place or in a range still to be copied.
  * `WicTypeHolds`: `WicFilesInv` adds which kickstart lines the files of wic
    and the partitions of each disk are from.

Assumptions are on the constants alone (`ConstantsAssumption` and its like):
types, that names do not collide, that a recipe has finitely many versions.
Two say more.
`TablesAssumption` says of `files/fs-perms.txt` that no target of a link lies
below a directory that is moved or below `/usr/src/debug`, and that a target
lies directly in another one (`/run/lock` in `/run`) or not in it at all; that a
path is not both a link and a directory with permissions, `fixup_perms` sees to
when it reads the file.  `TreesAssumption` says that what do_install leaves has
no link or file on the way to a target, to `/usr/src/debug` or to a source, nor
anything but a directory named `.debug`, and that no link leads to the root
itself: the model has no paths through links.
TLC evaluates all of them in the runs.

## 6. What is only model-checked

* Liveness (`Progress`, `BuildEnds`, `Returns`, `QemuEnds`, `CallsEnd`):
  temporal reasoning with fairness and ENABLED is beyond the prover.
  What is proved of it is the safe half: `NeverStuckHolds` for `Returns`,
  `HoldersWorkHolds` for `Progress`.
* The violations, of course: a counterexample is its own proof.

Every invariant and action property of the passing runs is proved.

## 7. What the model found

Six disagreements between what the repository says and what the code does,
each the expected violation of a run (details and quotations in
`PROJECT.json`).

1. `staging_cut_manifest`: `sstate_install` writes the manifest in place.  A
   last line cut short (task killed, disk full) can be the name of a parent
   directory without its slash, and `sstate_clean_manifest` gives such a line
   to `oe.path.remove`, which removes the whole tree, with other recipes'
   files in it.
2. `staging_duplicate`: the comparison with the shared area comes before the
   copy and is not locked, so two tasks that stage the same file at the same
   time both pass.
3. `index_prune`: the index has a line for each version, the manifests it
   leads to are named without the version.  When a version goes from the
   metadata, the manifests of the other version go, and its stamps stay.
4. `lockedsigs_recipe`: a recipe is unlocked by the first of its tasks that
   depends on an unlocked recipe; its tasks hashed before keep locked hashes.
5. `lockedsigs_exists`: the check that locked tasks have packages looks for a
   hash in a list of lists, and never finds it.
6. `tools_local_files`: `devtool sync`, given a second time, removes
   `oe-local-files` with what the user changed instead of its backup
   (`standard.py:658`).

Other behaviour met while the code was translated.  The models have it as it
is; where a property would be broken by it, the property excepts exactly that
case, by a history variable or a condition that its comment names.

* **`package.bbclass`**: the cache hears of `/usr/src/debug` and not of the
  parents made with it, so `fixup_perms` skips `/usr/src` (407, 839); links of
  debug files are never made, since the link is looked for where its target is
  meant (about 1020-1030); FILES with `//` is reported as fixed and is not
  (1125-1127); a directory that two packages list goes to the first only.
* **`sstate`, `utils.py`**: a clean that cannot remove a file passes over the
  error and drops the manifest (402-420), so the file is in no manifest.  What
  `checkstatus` does not catch, such as the `bb.fatal` of a package without PN
  (766-771, 836), ends in `ThreadedWorker` (`utils.py:269-272`): a task that
  may not run and has no package is then reported by nobody.
* **`rootfs.py`**: an incremental RPM build starts from the old image and takes
  out what the old solution had and the new one lacks; solutions are made
  without the complementary packages, so an old one of these stays though what
  it complemented is gone (404-425).
  A package counts as unpacked only when the line of the next one is read
  (554-573): the one that is last in the status file of opkg or dpkg, if its
  script was put off, is neither saved for the first boot nor seen by the check
  of a read-only image (217).  When the uninstall took the last package that
  was put off, `_save_postinsts` loops over `None` (620).
* **`package_manager.py`**: an incremental RPM build with an empty list of
  packages ends in `None` (1304-1305); one script may be put off several times,
  by rpm's wrapper under the next free number (1082-1088) and by
  `save_rpmpostinst` under the plain name (1385); `OpkgManifest.create_full` splits bytes
  with a string (1888).
* **`patch.py`**: the "User did not fix" abort of quilt's resolver cannot be
  reached (748-763).
* **devtool**: update-recipe does not write back a commit that was restored to
  its extracted form; finish removes the originals before `_update_recipe`
  (`standard.py:1528-1537`); finish again after a failed clean of an upgrade
  deletes the moved patches; the clean-up in `upgrade.py:139-154` cannot be
  reached; `modify --no-extract` drops local files.
* **deploy-target**: links put aside do not come back (119-125), nor does a
  file whose `mv` fails, as when another recipe's script has removed its
  directory: `find -exec` goes on and `rm -rf` removes it where it was put
  aside (122-124); with two
  recipes that share a file the original is lost (95-101); a script cut during
  `tar` leaves names with `./`, and the next deploy or undeploy fails.
* **sdk-update**: `reset --hard` never advances the layers (158); a server that
  cannot be reached reads as "Already up-to-date" (147-151); killed after the
  configuration was moved, it says up to date with an old uninative tarball;
  killed between the removal and the move of the layers or of a file, it fails
  from then on, since it removes before it moves (202-217); a preparation that
  failed is not made up for by the next run, which finds nothing to do;
  a publication between the clone and the download mixes two versions.
* **wic**: a `--no-table` partition after the fourth gets into an msdos table,
  against `help.py:712`; a second disk fails or is written to the first
  (`partitionedfs.py:356-368`); two swap or boot partitions share one image
  file; the fsimage source removes the deployed image; a preparation that fails
  leaves fstab changed (`direct.py:263-307`); rawcopy gives `skip` as a string
  (`rawcopy.py:74`).
* **combo-layer**: `update x:rev` without patches, or with one older than a
  merge, sets `last_revision` to the head of the branch and loses commits
  (846-854); an update that stops after one side of a merge presents the other
  side's patches again.
* **runqemu**: two processes get one device when one takes a lock file that is
  about to lose its name (202-205), or when the lock of a device just made
  cannot be taken (785), or when a QEMU is left by a runqemu that was killed
  alone: QEMU is its child (945), and does not have the lock file open.
* **`qemurunner.py`**: `stop()` from the SIGCHLD handler joins a thread that it
  did not tell to stop, and waits for ever (322).  `restart()` of a runqemu that
  has ended starts without a stop (329-331): the old signal handler that is
  saved then is `handleSIGCHLD` itself, and a later `stop()` installs it again
  (135, 298).  Until the fork of the new monitor (151-167) nothing guards the
  new group.  `stop()` waits for runqemu alone; a qemu that ignores SIGTERM gets
  SIGKILL only while its runqemu lives (310-320).
* **`commands.py`, `sshcontrol.py`**: the last `join` has no timeout while a
  background child has the pipe (79); `SSHProcess` waits for ever for a command
  that closed its output (84); an exception during `Command.run` leaves the
  process.
* **`oetest.py`, `decorators.py`**: when `setUpModule` skips a module or
  `setUpClass` raises (`runtime/smart.py:71`), only the name of the module or
  class is in the results, so tests that depend on its tests run; of stacked
  `skipUnlessPassed` only the outermost orders suites (`decorators.py:99`);
  suites that depend on each other recurse without end (`oetest.py:368-373`).

## 8. What is not modelled, and why

Within the modelled components:

* path relocation of packages, `postrm` scripts, symbolic links in the shared
  area, in SSTATE_DIR the file behind a link apart from the link, several architectures of SSTATE_MANIFESTS: they change what is copied,
  not the order;
* the signature check of packages, which only warns;
* `.sig`, `.siginfo` and `.done` files: they follow the package they are named
  after;
* `multiprocess_exec`: independent commands without shared state;
* `find_siginfo` and `tasks_resolved` of the signature code: look-ups of
  names;
* stamps directories that are not given to `--stamps-dir`: the script cannot
  know them, so the model assumes that all are;
* locale packages, shared-library and pkg-config providers, maintainer scripts,
  LICENSE_EXCLUSION and inhibited stripping in `package.bbclass`;
* feeds, indexes, configuration files and signing of the package managers;
  image types, language packs, depmod;
* `extractPatches` and `Refresh` of `lib/oe/patch.py`;
* `devtool build`, `build-image`, `search`, `edit-recipe`, `sdk-install`, and
  update-recipe in mode srcrev or for an append layer;
* `init` and `splitpatch` of combo-layer, and its update with histories;
* wic's boot loader texts, bmap, compression and sizes of file systems;
* runqemu's configuration and command line, NFS export;
* the dumps and the hardware targets of the image tests.

Components without a module (section 1.2, `PROJECT.json`):

* *Work directory removal*.  After a kill `rm_work`'s own stamp is missing and
  the next build runs it again, before or after the tasks that miss their
  WORKDIR.  Which comes first, and what the stamps it rewrites mean, is decided
  by BitBake's runqueue, which is not in the repository: a model would be a
  model of BitBake.
* *Users and groups*.  Shell around `useradd` and `groupadd`, whose own locks
  and databases are external; planned (section 9).
* *SDK signature export, PR service client*: one pass over a file or a table.
* *Build history, quality checks, metadata helpers, error reports and
  statistics, recipetool*: functions from text to text.
* *Kernel, language and build-system classes, recipes and configuration*: data
  for BitBake and shell fragments.
* *Selftests, pybootchartgui, developer scripts*: test drivers, vendored or
  one-shot.

This is also why the modules translate a small share of the Python lines in the
repository.  The bulk of them builds or reads text: recipes
(`recipetool`, `recipeutils`), command lines and configuration files
(`package_manager`, boot loaders of wic), charts, and tests of all that.  What
keeps state between steps, runs beside something else or must survive a failure
is a few thousand lines, and these the map covers.

## 9. Plan

Done: the staging core with its lock, the index, the check of the mirrors,
locked signatures, the shared cache; the thirteen programs of section 2.1; and
the proofs of section 5.

What would come next, the most important first:

1. `SetsceneDepvalid`: `setscene_depvalid` (`sstate:891-973`), a pure decision
   procedure, against its reference: a setscene task is skipped only if nothing
   that runs needs it.
2. `Useradd`: the look before the lock and the retries on a shared passwd.
3. `LockedSigsFile`: prune and merge of locked signatures for an SDK
   (`copy_buildsystem.py:133-200`).
4. `MasterImage`: the hardware target of the image tests that boots its master
   image by a one-shot variable.
5. A proof that the staging of `SstateStaging` does to manifests, files and
   stamps what `SstateIndex` takes as one step.
