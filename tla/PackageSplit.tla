---------------------------- MODULE PackageSplit ----------------------------
(***************************************************************************)
(* do_package from D to the packages: split_and_strip_files,               *)
(* copydebugsources, fixup_perms, populate_packages and package_fixsymlinks *)
(* of meta/classes/package.bbclass, which all ask one CachedPath           *)
(* (meta/lib/oe/cachedpath.py) what is in PKGD and change PKGD meanwhile.  *)
(* A path is a sequence of names.  An entry of a tree is a directory, a    *)
(* file, an unstripped ELF file or its debug information (`of`: the inode) *)
(* or a symbolic link (`of`: the path it leads to, in which there are no   *)
(* links).  The debug information is in the ".debug" style.                *)
(***************************************************************************)
EXTENDS SequencesExt

CONSTANTS Names,          \* of files and directories
          DTrees,         \* what do_install may leave in D: a set of trees
          FilesVars,      \* [package -> FILES], a set of them
          PackageOrder,   \* PACKAGES of the recipe
          DebugPackages,  \* those that end in -dbg
          DebugSrc,       \* /usr/src/debug
          Sources,        \* paths below it of sources that are found
          LinkTable,      \* <<directory, target>> of fs-perms.txt, sorted by target
          PermsTable      \* [directory -> whether what is below it is fixed, too]

VARIABLES installed,      \* D
          filesVar,       \* FILES of each package
          pkgd,           \* PKGD
          absent,         \* paths of PKGD that the cache says are not there
          fixed,          \* paths whose mode and owner were set
          content,        \* [package -> what is in PKGDEST for it]
          seen,           \* paths that populate_packages has shipped
          packageList,    \* the packages in the order in which they are filled
          unshipped,      \* paths that it reports
          rdepends,       \* [package -> packages added to RDEPENDS]
          turn,           \* the next line of LinkTable, of PACKAGES, the next package
          splitStep
splitVars == <<installed, filesVar, pkgd, absent, fixed, packageList, content, seen, unshipped,
               rdepends, turn, splitStep>>

Packages == Range(PackageOrder)
Dir == [kind |-> "dir", of |-> <<>>]
Kind(t, p) == IF p \in DOMAIN t THEN t[p].kind ELSE "none"
Above(p) == Prefixes(p) \ {<<>>, p}
Below(t, p) == {q \in DOMAIN t : IsStrictPrefix(p, q)}
Debugging(p) == ".debug" \in Range(p)

SplitInit ==
    /\ installed \in DTrees /\ filesVar \in FilesVars /\ pkgd = installed
    /\ absent = {} /\ fixed = {} /\ packageList = <<>> /\ seen = {} /\ unshipped = {} /\ turn = 1
    /\ content = [k \in Packages |-> {}] /\ rdepends = [k \in Packages |-> {}]
    /\ splitStep = "split"

-----------------------------------------------------------------------------
(* What of PKGD is new: directories that are needed are made.              *)
With(t, new) == LET made == UNION {Above(p) : p \in DOMAIN new} IN
    [p \in DOMAIN t \cup DOMAIN new \cup made |->
        IF p \in DOMAIN new THEN new[p] ELSE IF p \in DOMAIN t THEN t[p] ELSE Dir]
WithoutAll(t, gone) == [p \in DOMAIN t \ gone |-> t[p]]

(* realpath of a dangling link asks for the first path that is missing.    *)
Dangling(t) == {p \in DOMAIN t : t[p].kind = "link" /\ t[p].of \notin DOMAIN t}
FirstMissing(t, p) == CHOOSE q \in Prefixes(p) \ {<<>>} :
                         q \notin DOMAIN t /\ Above(q) \subseteq DOMAIN t

(***************************************************************************)
(* Each ELF file, and each hard link to it, gets a file of debug           *)
(* information beside it.  For symbolic links the code stats the link that *)
(* it is about to make, finds nothing and makes none.                      *)
(***************************************************************************)
DebugOf(p) == Front(p) \o <<".debug", Last(p)>>
Elfs == {p \in DOMAIN pkgd : pkgd[p].kind = "elf" /\ ~Debugging(Front(p))}

(* The tables: no path is in both (fixup_perms takes it out of one when    *)
(* it enters it into the other); nothing is moved to a place below what is *)
(* moved itself or below /usr/src/debug; and a target may lie directly in  *)
(* another one, as /run/lock in /run, but not deeper.  D: no link leads to *)
(* the root itself; and nothing but a directory is called .debug, is on    *)
(* the way to one of these places or where a source file goes.             *)
IsPath(p) == p \in Seq(Names) /\ p # <<>>
Targets == {LinkTable[i][2] : i \in 1..Len(LinkTable)}
Origins == {LinkTable[i][1] : i \in 1..Len(LinkTable)}

ASSUME TablesAssumption ==
    /\ ".debug" \in Names
    /\ Len(PackageOrder) \in Nat /\ PackageOrder \in Seq(Packages) /\ Len(LinkTable) \in Nat
    /\ \A p \in {DebugSrc} \cup Sources \cup Targets \cup Origins : IsPath(p) /\ ~Debugging(p)
    /\ \A s \in Sources : IsStrictPrefix(DebugSrc, s) /\ Above(s) \cap Sources = {}
    /\ Origins \cap DOMAIN PermsTable = {}
    /\ \A to \in Targets :
         /\ \A d \in Origins \cup {DebugSrc} : ~IsPrefix(d, to)
         /\ \A other \in Targets : ~IsStrictPrefix(other, Front(to))

ASSUME TreesAssumption ==
    \A t \in DTrees :
        /\ \A p \in DOMAIN t :
             /\ IsPath(p) /\ t[p].kind \in {"dir", "file", "elf", "link"}
             /\ t[p].kind = "link" => IsPath(t[p].of)
             /\ \A a \in Above(p) : Kind(t, a) = "dir"
             /\ Last(p) = ".debug" => t[p].kind = "dir"
             /\ t[p].kind = "elf" /\ ~Debugging(Front(p)) => Kind(t, DebugOf(p)) # "dir"
        /\ \A p \in {DebugSrc} \cup Sources \cup Targets :
             \A a \in Above(p) : Kind(t, a) \in {"none", "dir"}
        /\ \A s \in Sources : Kind(t, s) # "dir"

SplitAndStrip ==
    LET debug == {DebugOf(p) : p \in Elfs}
        Stripped(q) == CHOOSE p \in Elfs : DebugOf(p) = q
    IN  /\ splitStep = "split" /\ splitStep' = "sources"
        /\ pkgd' = With(pkgd, [q \in debug |-> [kind |-> "debug", of |-> pkgd[Stripped(q)].of]])
        /\ absent' = {FirstMissing(pkgd, pkgd[l].of) : l \in Dangling(pkgd)}
        /\ UNCHANGED <<installed, filesVar, fixed, packageList, content, seen, unshipped, rdepends,
                       turn>>

(***************************************************************************)
(* The cache is told of /usr/src/debug, and not of the directories above   *)
(* it that are made on the way.  What stays empty is removed.              *)
(***************************************************************************)
\* mistake: the cache is not told of the directory that is made
AskedForSources(missing) == absent \cup missing
KnownAfterSources(missing) == (absent \cup missing) \ {DebugSrc}

CopyDebugSources ==
    LET missing == {b \in Above(DebugSrc) \cup {DebugSrc} : b \notin DOMAIN pkgd \/ b \in absent}
    IN  /\ splitStep = "sources" /\ splitStep' = "links"
        /\ IF Elfs = {} THEN UNCHANGED <<pkgd, absent>>
           ELSE \E found \in SUBSET Sources :
                  LET copied == With(pkgd, [s \in found \cup {DebugSrc} |-> IF s = DebugSrc THEN Dir
                                                                 ELSE [Dir EXCEPT !.kind = "file"]])
                      Empty(d) == \A q \in Below(copied, d) : copied[q].kind = "dir"
                      kept == WithoutAll(copied, {d \in DOMAIN copied :
                                  IsPrefix(DebugSrc, d) /\ copied[d].kind = "dir" /\ Empty(d)})
                  IN  /\ pkgd' = WithoutAll(kept, {b \in missing :
                                                         Below(kept, b) \subseteq missing})
                      /\ absent' = KnownAfterSources(missing)
        /\ UNCHANGED <<installed, filesVar, fixed, packageList, content, seen, unshipped, rdepends,
                       turn>>

-----------------------------------------------------------------------------
(* fixup_perms turns directories into links, one line of the table after   *)
(* the other, and then goes over the directories with known permissions.   *)
Moved(t, d, to) ==
    LET under == Below(t, d)
        there == {to \o SubSeq(q, Len(d) + 1, Len(q)) : q \in under}
        Back(p) == d \o SubSeq(p, Len(to) + 1, Len(p))
    IN  With(WithoutAll(t, under \cup {d}),
             [p \in there \cup {to, d} |->
                 IF p = d THEN [kind |-> "link", of |-> to]
                 ELSE IF p = to THEN Dir ELSE t[Back(p)]])

LinkDirectory ==
    /\ splitStep = "links" /\ turn <= Len(LinkTable) /\ turn' = turn + 1
    /\ LET d == LinkTable[turn][1]
           to == LinkTable[turn][2]
       IN  /\ absent' = IF d \in DOMAIN pkgd THEN absent ELSE absent \cup {d}
           /\ pkgd' = IF Kind(pkgd, d) = "dir" /\ d \notin absent /\ to \notin DOMAIN pkgd
                      THEN Moved(pkgd, d, to) ELSE pkgd
    /\ UNCHANGED <<installed, filesVar, fixed, packageList, content, seen, unshipped, rdepends,
                   splitStep>>

(* populate_packages gets a cache of its own.                              *)
\* mistake: it goes on with the one of before
OldCache(cached) == cached
NewCache(cached) == {}

FixDirectories ==
    LET Known(d) == Kind(pkgd, d) = "dir" /\ d \notin absent
        found == {d \in DOMAIN PermsTable : Known(d)}
    IN  /\ splitStep = "links" /\ turn > Len(LinkTable)
        /\ fixed' = found \cup UNION {Below(pkgd, d) : d \in {w \in found : PermsTable[w]}}
        /\ absent' = NewCache(absent) /\ turn' = 1 /\ splitStep' = "list"
        /\ UNCHANGED <<installed, filesVar, pkgd, packageList, content, seen, unshipped, rdepends>>

-----------------------------------------------------------------------------
(* populate_packages goes over PACKAGES once: a -dbg package comes before  *)
(* those that are listed, another one after them, and none twice.          *)
ListPackage ==
    /\ splitStep = "list" /\ turn <= Len(PackageOrder) /\ turn' = turn + 1
    /\ LET k == PackageOrder[turn]
       IN packageList' = IF k \in Range(packageList) THEN packageList
                         ELSE IF k \in DebugPackages THEN <<k>> \o packageList
                         ELSE Append(packageList, k)
    /\ UNCHANGED <<installed, filesVar, pkgd, absent, fixed, content, seen, unshipped, rdepends,
                   splitStep>>

EndList ==
    /\ splitStep = "list" /\ turn > Len(PackageOrder) /\ turn' = 1 /\ splitStep' = "populate"
    /\ UNCHANGED <<installed, filesVar, pkgd, absent, fixed, packageList, content, seen, unshipped,
                   rdepends>>

(* files_from_filevars: patterns are expanded, what lies behind a link to  *)
(* a directory stands for the link, and directories for what is in them.   *)
Behind(t, d) == IF Kind(t, d) = "link" THEN t[d].of ELSE d
Globbed(t, f) ==
    IF Last(f) # "*" THEN {f}
    ELSE {Append(Front(f), Last(q)) : q \in {b \in Below(t, Behind(t, Front(f))) :
                                                Len(b) = Len(Behind(t, Front(f))) + 1}}
LinksAbove(t, f) == {a \in Above(f) : Kind(t, a) = "link"}
Truncated(t, f) == IF LinksAbove(t, f) = {} THEN f
                   ELSE CHOOSE a \in LinksAbove(t, f) : \A b \in LinksAbove(t, f) : Len(a) <= Len(b)
Named(k) == UNION {Globbed(pkgd, f) : f \in filesVar[k]}
SymlinkPaths(k) == {f \in Named(k) : LinksAbove(pkgd, f) # {}}
FilesFromFilevars(k) ==
    LET named == {Truncated(pkgd, f) : f \in Named(k)} IN
    named \cup UNION {Below(pkgd, f) : f \in {n \in named : Kind(pkgd, n) = "dir"}}

(***************************************************************************)
(* What no package before has taken goes to this one, with the directories *)
(* above it: mkdir stats them in PKGD, by the cache.                       *)
(***************************************************************************)
\* mistake: debug information is left to the packages whose FILES have it
FilesOf(k) == FilesFromFilevars(k)
FilesAndDebug(k) == FilesFromFilevars(k) \cup
    (IF k \in DebugPackages THEN {p \in DOMAIN pkgd : Debugging(p)} ELSE {})

PopulatePackage ==
    LET k == packageList[turn]
        shipped == {f \in FilesAndDebug(k) \ seen : f \in DOMAIN pkgd /\ f \notin absent}
        made == (UNION {Above(f) : f \in shipped}) \cup {f \in shipped : pkgd[f].kind = "dir"}
        root == shipped \cup made
        Reached(f) == LET link == Truncated(pkgd, f) IN
            link \in root /\ pkgd[link].of \o SubSeq(f, Len(link) + 1, Len(f)) \in root
    IN  /\ splitStep = "populate" /\ turn <= Len(packageList) /\ turn' = turn + 1
        /\ content' = [content EXCEPT ![k] = root] /\ seen' = seen \cup root
        /\ splitStep' = IF made \cap absent # {} THEN "raised"
                        ELSE IF \E f \in SymlinkPaths(k) : ~Reached(f) THEN "fatal" ELSE "populate"
        /\ UNCHANGED <<installed, filesVar, pkgd, absent, fixed, packageList, unshipped, rdepends>>

ReportUnshipped ==
    /\ splitStep = "populate" /\ turn > Len(packageList) /\ splitStep' = "fixsymlinks"
    /\ unshipped' = {p \in DOMAIN pkgd \ seen : Above(p) \cap absent = {}}
    /\ UNCHANGED <<installed, filesVar, pkgd, absent, fixed, packageList, content, seen, rdepends,
                   turn>>

-----------------------------------------------------------------------------
(* package_fixsymlinks: a package depends on the one that has the file to  *)
(* which a link of it leads.  It goes over PACKAGES, restored to the order *)
(* of the recipe and without those that LICENSE_EXCLUSION names (these are *)
(* left out here): a file is in one package, so the order does not matter. *)
PkgFiles(k) == {p \in content[k] : pkgd[p].kind # "dir" /\
                  ~(pkgd[p].kind = "link" /\ Kind(pkgd, pkgd[p].of) = "dir"
                       /\ pkgd[p].of \in content[k])}
DanglingLinks(k) == {pkgd[l].of : l \in {p \in PkgFiles(k) : pkgd[p].kind = "link"}} \ content[k]
Providers(t) == {i \in 1..Len(packageList) : t \in PkgFiles(packageList[i])}

\* mistake: of several links of a package only one is followed
FollowOne ==
    /\ splitStep = "fixsymlinks" /\ splitStep' = "done"
    /\ rdepends' = [k \in Packages |->
           LET known == {t \in DanglingLinks(k) : Providers(t) # {}} IN
           IF known = {} THEN {} ELSE {packageList[Min(Providers(CHOOSE t \in known : TRUE))]}]
    /\ UNCHANGED <<installed, filesVar, pkgd, absent, fixed, packageList, content, seen, unshipped,
                   turn>>

FixSymlinks ==
    /\ splitStep = "fixsymlinks" /\ splitStep' = "done"
    /\ rdepends' = [k \in Packages |->
           {packageList[Min(Providers(t))] : t \in {u \in DanglingLinks(k) : Providers(u) # {}}}]
    /\ UNCHANGED <<installed, filesVar, pkgd, absent, fixed, packageList, content, seen, unshipped,
                   turn>>

SplitNext == \/ SplitAndStrip \/ CopyDebugSources \/ LinkDirectory \/ FixDirectories \/ ListPackage
             \/ EndList \/ PopulatePackage \/ ReportUnshipped \/ FixSymlinks
SplitSpec == SplitInit /\ [][SplitNext]_splitVars

-----------------------------------------------------------------------------
SplitTypeOK ==
    /\ \A p \in DOMAIN pkgd : pkgd[p].kind \in {"dir", "file", "elf", "debug", "link"}
    /\ absent \cap {<<>>} = {} /\ fixed \subseteq DOMAIN pkgd
    /\ content \in [Packages -> SUBSET DOMAIN pkgd] /\ seen \subseteq DOMAIN pkgd
    /\ unshipped \subseteq DOMAIN pkgd /\ rdepends \in [Packages -> SUBSET Packages]
    /\ packageList \in Seq(Packages) /\ IsInjective(packageList) /\ turn \in Nat \ {0}
    /\ splitStep \in {"split", "sources", "links", "list", "populate", "fixsymlinks", "done",
                      "raised", "fatal"}

(* Each file goes to one package or is reported, and debug information     *)
(* goes to the -dbg package that comes first, if there is one.             *)
FilesOnce ==
    \A p \in DOMAIN pkgd :
        LET takers == {k \in Packages : p \in content[k]} IN
        /\ (p \in unshipped) <=> (takers = {})
        /\ pkgd[p].kind # "dir" => Cardinality(takers) <= 1
        /\ pkgd[p].kind = "debug" /\ Packages \cap DebugPackages # {} => takers = {packageList[1]}

(* Directories with known permissions have them, unless they came into     *)
(* being after the cache was asked for them: those above /usr/src/debug,   *)
(* and those a link of D leads to.                                         *)
ModesFixed ==
    \A d \in DOMAIN PermsTable :
        \/ Kind(pkgd, d) # "dir" \/ d \in fixed
        \/ d \notin DOMAIN installed /\ d \in Above(DebugSrc)
        \/ \E l \in Dangling(installed) : d = FirstMissing(installed, installed[l].of)

(* Who follows a link from a package to a file finds it in the package or  *)
(* in one on which it depends.                                             *)
LinksFollowed ==
    \A k \in Packages : \A l \in content[k] :
        pkgd[l].kind = "link" /\ (\E m \in Packages : pkgd[l].of \in PkgFiles(m))
            => \E m \in rdepends[k] \cup {k} : pkgd[l].of \in content[m]

(* do_package never fails for what its cache says of files that it made    *)
(* itself, and when it ends every file, mode and link is accounted for.    *)
SplitExact == /\ splitStep # "raised"
              /\ splitStep = "done" => FilesOnce /\ ModesFixed /\ LinksFollowed
=============================================================================
