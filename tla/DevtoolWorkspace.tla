-------------------------- MODULE DevtoolWorkspace --------------------------
(***************************************************************************)
(* One recipe and devtool: scripts/lib/devtool/standard.py and upgrade.py. *)
(* The commands add, modify, upgrade, sync, update-recipe, finish and      *)
(* reset, each of which may fail on the way, between what the user does to *)
(* the source tree and to the files of the workspace.  Patches are         *)
(* numbered in their order; the value of a patch is a version: 0 for none, *)
(* 1 and 2 for two contents.  The same versions stand for the one local    *)
(* file of the recipe.  A commit of the source tree is a patch.  The       *)
(* destination of finish is the recipe's own layer.                        *)
(***************************************************************************)
EXTENDS Naturals

CONSTANTS NPatches,     \* patches are 1..NPatches
          MaxCommands,  \* bound on the commands of devtool
          MaxEdits      \* bound on what the user does

VARIABLES layer,        \* the recipe in its layer: [here, patches, local]
          ws,           \* the recipe in workspace/recipes: the same
          devKind,      \* "none", or the command that wrote workspace/appends
          listed,       \* "# commit:" lines of the bbappend
          edited,       \* workspace files changed since .devtool_md5 was written
          attic,        \* workspace/attic
          tree,         \* the source tree: "none", "user"'s own, "extracted", "upgraded"
          commits,      \* its commits on top of initial_rev
          tagged,       \* the commits below the tag devtool-patched, or NoTag
          treeLocal,    \* oe-local-files
          treeBak,      \* oe-local-files.bak
          devLast,      \* what happened last
          finishCut,    \* a finish failed after it removed the original recipe
          commands, edits
devVars == <<layer, ws, devKind, listed, edited, attic, tree, commits, tagged,
             treeLocal, treeBak, devLast, finishCut, commands, edits>>

Nums == 1..NPatches
Version == 0..2
NoPatch == [n \in Nums |-> 0]
NoTag == [n \in Nums |-> 3]
NoRecipe == [here |-> FALSE, patches |-> NoPatch, local |-> 0]
RecipeFiles == {"recipe", "append"}
TreeVars == <<tree, commits, tagged, treeLocal, treeBak>>

DevInit ==
    /\ layer \in {NoRecipe, [here |-> TRUE, local |-> 1,
                             patches |-> [n \in Nums |-> IF n = 1 THEN 1 ELSE 0]]}
    /\ ws = NoRecipe /\ devKind = "none" /\ listed = NoPatch
    /\ edited = {} /\ attic = {}
    /\ tree \in {"none", "user"} /\ commits = NoPatch /\ tagged = NoTag
    /\ treeLocal = 0 /\ treeBak = 0
    /\ devLast = "start" /\ finishCut = FALSE /\ commands = 0 /\ edits = 0

(* The recipe that is parsed: the one in the workspace comes first.        *)
Parsed == IF ws.here THEN ws ELSE layer

Command(what) == /\ commands < MaxCommands /\ commands' = commands + 1
                 /\ devLast' = what /\ UNCHANGED edits

(***************************************************************************)
(* devtool add: recipetool makes a recipe for a new name, from a tree of   *)
(* the user or one it fetches; a recipe file that is already there is an   *)
(* error.  What fails after the recipe was moved into the workspace leaves *)
(* it there with no bbappend.                                              *)
(***************************************************************************)
Add ==
    /\ devKind = "none" /\ ~layer.here /\ ~ws.here /\ tree \in {"none", "user"}
    /\ Command("added")
    /\ ws' = [NoRecipe EXCEPT !.here = TRUE]
    /\ tree' = (IF tree = "none" THEN "extracted" ELSE tree) /\ commits' = NoPatch
    /\ edited' = {} /\ devKind' \in {"add", "none"} /\ listed' = NoPatch
    /\ UNCHANGED <<layer, attic, tagged, treeLocal, treeBak, finishCut>>

(***************************************************************************)
(* _extract_source: everything is made in a temporary directory and moved  *)
(* to the source tree, which must not be there or be empty.                *)
(***************************************************************************)
Extract ==
    /\ tree = "none" /\ tree' = "extracted"
    /\ commits' = Parsed.patches /\ tagged' = Parsed.patches
    /\ treeLocal' = Parsed.local /\ treeBak' = 0

(***************************************************************************)
(* devtool modify, with a tree extracted or, --no-extract, one that is     *)
(* there: of a tree without the tag devtool-base, HEAD is initial_rev.     *)
(* (Not on the tree of an upgrade.)  A failure after the extraction leaves *)
(* the tree.                                                               *)
(***************************************************************************)
Modify ==
    /\ devKind = "none" /\ Parsed.here /\ Command("modified")
    /\ \/ /\ Extract
          /\ \/ devKind' = "modify" /\ listed' = Parsed.patches
             \/ UNCHANGED <<devKind, listed>>
       \/ /\ tree \in {"user", "extracted"} /\ devKind' = "modify" /\ listed' = NoPatch
          /\ commits' = (IF tree = "user" THEN NoPatch ELSE commits)
          /\ UNCHANGED <<tree, tagged, treeLocal, treeBak>>
    /\ edited' = {} /\ UNCHANGED <<layer, ws, attic, finishCut>>

(***************************************************************************)
(* devtool upgrade: the tree is extracted, its commits are rebased onto    *)
(* the new version, where each may change or, with --no-patch, all stay    *)
(* out, and the recipe is copied to the workspace with its files.  The     *)
(* cleanup of an error is reached only with no recipe made yet, and then   *)
(* does nothing: what was extracted stays.                                 *)
(***************************************************************************)
Upgrade ==
    /\ devKind = "none" /\ layer.here /\ ~ws.here /\ tree = "none" /\ Command("upgraded")
    /\ tree' = "upgraded" /\ tagged' = layer.patches
    /\ treeLocal' = layer.local /\ treeBak' = 0
    /\ \/ commits' = NoPatch
       \/ \E conflict \in SUBSET {n \in Nums : layer.patches[n] # 0} :
            commits' = [n \in Nums |-> IF n \in conflict THEN 2 ELSE layer.patches[n]]
    /\ ws' \in {ws, layer} /\ devKind' \in {"none", "upgrade"}
    /\ devKind' = "upgrade" => ws'.here
    /\ listed' = NoPatch /\ edited' = {}
    /\ UNCHANGED <<layer, attic, finishCut>>

(***************************************************************************)
(* devtool sync: the new extraction is fetched into a branch of the tree,  *)
(* then oe-local-files is put aside and written again.  When there is an   *)
(* oe-local-files.bak, rmtree is given oe-local-files to remove, and the   *)
(* .bak as its ignore_errors.                                              *)
(***************************************************************************)
Sync ==
    /\ Parsed.here /\ tree # "none" /\ Command("synced")
    /\ treeBak' = (IF treeBak = 0 THEN treeLocal ELSE treeBak)
    /\ treeLocal' = Parsed.local
    /\ UNCHANGED <<layer, ws, devKind, listed, edited, attic, tree, commits,
                   tagged, finishCut>>

(***************************************************************************)
(* _update_recipe_patch.  _export_patches from update_rev: the commits     *)
(* after the last that is listed unchanged; of those the recipe has, the   *)
(* ones that git cherry finds below devtool-patched are passed over.       *)
(***************************************************************************)
Exported(n) == commits[n] # 0 /\ \E m \in 1..n : commits[m] # listed[m]
Differs(n) == commits[n] # tagged[n]

\* mistake: a patch that is already in the recipe is not written again
AddedOnly(rec, remove) ==
    [rec EXCEPT !.local = treeLocal,
       !.patches = [n \in Nums |->
          IF commits[n] = 0 THEN IF remove THEN 0 ELSE rec.patches[n]
          ELSE IF Exported(n) /\ rec.patches[n] = 0
               THEN commits[n] ELSE rec.patches[n]]]

Updated(rec, remove) ==
    [rec EXCEPT !.local = IF treeLocal = 0 /\ ~remove THEN @ ELSE treeLocal,
       !.patches = [n \in Nums |->
          IF commits[n] = 0 THEN IF remove THEN 0 ELSE rec.patches[n]
          ELSE IF Exported(n) /\ (rec.patches[n] = 0 \/ Differs(n))
               THEN commits[n] ELSE rec.patches[n]]]

(* The files that the recipe has already are written before the recipe.    *)
UpdatedInPart(rec) ==
    [rec EXCEPT !.local = IF 0 \in {@, treeLocal} THEN @ ELSE treeLocal,
       !.patches = [n \in Nums |->
          IF rec.patches[n] # 0 /\ Exported(n) /\ Differs(n)
          THEN commits[n] ELSE rec.patches[n]]]

UpdateRecipe(remove) ==
    /\ devKind # "none" /\ tree # "none"
    /\ \E whole \in BOOLEAN :
         LET new == IF whole THEN Updated(Parsed, remove) ELSE UpdatedInPart(Parsed) IN
         /\ Command(IF whole /\ remove THEN "updated" ELSE "tried")
         /\ IF ws.here
            THEN /\ ws' = new /\ UNCHANGED layer
                 /\ edited' = (IF new = ws THEN edited ELSE edited \cup {"recipe"})
            ELSE layer' = new /\ UNCHANGED <<ws, edited>>
    /\ UNCHANGED <<devKind, listed, attic, TreeVars, finishCut>>

(***************************************************************************)
(* _reset, once the clean has worked: _check_preserve moves the workspace  *)
(* files that were changed to the attic and removes the others; a source   *)
(* tree with anything in it stays.                                         *)
(***************************************************************************)
\* mistake: files are removed without a look at their checksums
ResetForgets(files) ==
    /\ attic' = attic /\ edited' = {} /\ devKind' = "none" /\ listed' = NoPatch
    /\ ws' = NoRecipe

ResetWorkspace(files) ==
    /\ attic' = attic \cup (edited \cap files)
    /\ edited' = {} /\ devKind' = "none" /\ listed' = NoPatch
    /\ ws' = NoRecipe

Reset ==
    /\ devKind # "none" /\ Command("reset")
    /\ ResetWorkspace(RecipeFiles)
    /\ UNCHANGED <<layer, TreeVars, finishCut>>

(***************************************************************************)
(* devtool finish: of an upgrade the original recipe and its patches are   *)
(* removed first, then the recipe is updated, a recipe of the workspace is *)
(* moved to the layer, and the workspace is reset.  The update may fail,   *)
(* and so may the clean, after which the bbappend is still there, with the *)
(* names of the original files: finish given again removes the patches     *)
(* that it moved to the layer under these names, and writes only those     *)
(* that changed.                                                           *)
(***************************************************************************)
FinishedAgain(rec) ==
    [Updated(rec, TRUE) EXCEPT !.patches = [n \in Nums |->
          IF commits[n] = 0 \/ (tagged[n] \in Version \ {0} /\ ~Differs(n))
          THEN 0 ELSE @[n]]]

Finish ==
    /\ devKind # "none" /\ tree # "none"
    /\ \/ /\ ws' = NoRecipe /\ finishCut' = FALSE
          /\ IF devKind = "upgrade" /\ ~ws.here
             THEN Command("finished again") /\ layer' = FinishedAgain(layer)
             ELSE Command("finished") /\ layer' = Updated(Parsed, TRUE)
          /\ \/ ResetWorkspace({"append"})
             \/ /\ edited' = edited \ {"recipe"} /\ UNCHANGED <<attic, devKind, listed>>
       \/ /\ Command("tried") /\ UNCHANGED <<devKind, listed, edited, attic>>
          /\ IF ws.here
             THEN /\ ws' = UpdatedInPart(ws)
                  /\ layer' = (IF devKind = "upgrade" THEN NoRecipe ELSE layer)
                  /\ finishCut' = (devKind = "upgrade")
             ELSE /\ layer' = (IF devKind = "upgrade" THEN FinishedAgain(layer) ELSE UpdatedInPart(layer))
                  /\ UNCHANGED <<ws, finishCut>>
    /\ UNCHANGED TreeVars

(* What the user does: commits, edits, removes.                            *)
User == /\ edits < MaxEdits /\ edits' = edits + 1 /\ devLast' = "user" /\ UNCHANGED commands
UserCommits == /\ tree # "none" /\ User
               /\ \E n \in Nums, v \in 0..2 : v # commits[n] /\ commits' = [commits EXCEPT ![n] = v]
               /\ UNCHANGED <<layer, ws, devKind, listed, edited, attic, tree, tagged,
                              treeLocal, treeBak, finishCut>>
UserEditsFile == /\ devKind # "none" /\ User
                 /\ edited' \in {edited \cup {"append"}}
                                 \cup (IF ws.here THEN {edited \cup {"recipe"}} ELSE {})
                 /\ UNCHANGED <<layer, ws, devKind, listed, attic, TreeVars, finishCut>>
UserEditsLocal == /\ tree # "none" /\ User /\ treeLocal' = 2
                  /\ UNCHANGED <<layer, ws, devKind, listed, edited, attic, tree,
                                 commits, tagged, treeBak, finishCut>>
UserRemoves == /\ User
               /\ \/ tree' = "none" /\ commits' = NoPatch /\ tagged' = NoTag
                     /\ treeLocal' = 0 /\ treeBak' = 0 /\ UNCHANGED ws
                  \/ devKind = "none" /\ ws.here /\ ws' = NoRecipe /\ UNCHANGED TreeVars
               /\ UNCHANGED <<layer, devKind, listed, edited, attic, finishCut>>

DevNext == \/ Add \/ Modify \/ Upgrade \/ Sync \/ (\E r \in BOOLEAN : UpdateRecipe(r))
           \/ Reset \/ Finish
           \/ UserCommits \/ UserEditsFile \/ UserEditsLocal \/ UserRemoves

DevSpec == DevInit /\ [][DevNext]_devVars

-----------------------------------------------------------------------------
Recipe == [here : BOOLEAN, patches : [Nums -> Version], local : Version]
DevTypeOK ==
    /\ layer \in Recipe /\ ws \in Recipe
    /\ devKind \in {"none", "add", "modify", "upgrade"}
    /\ listed \in [Nums -> Version] /\ commits \in [Nums -> Version]
    /\ tagged \in [Nums -> 0..3] /\ {treeLocal, treeBak} \subseteq Version
    /\ edited \subseteq RecipeFiles /\ attic \subseteq RecipeFiles

(* update-recipe and finish leave the recipe with exactly the patches that *)
(* the commits of the source tree make, in whatever order commands, edits  *)
(* and updates that stopped half-way came before, provided the recipe has  *)
(* those commits that are as they were extracted, and finish is not given  *)
(* again for an upgrade that it moved already (standard.py:854, 1190).     *)
UpdateExact ==
    [][ /\ devLast' \in {"updated", "finished"} /\ commands' = commands + 1
        /\ \A n \in Nums : commits[n] \in {0, Parsed.patches[n]} \/ Differs(n)
        => Parsed'.patches = commits /\ Parsed'.local = treeLocal ]_devVars

(* No command loses what the user did: a file of the workspace that was    *)
(* changed stays, goes to the attic, or into the layer with finish; the    *)
(* source tree stays; and, unless a finish was cut short after it removed  *)
(* the original, a recipe that the layer had is there (standard.py:704,    *)
(* 1383, 1474).                                                            *)
UserWorkKept ==
    [][ commands' = commands + 1 =>
          /\ \A f \in edited : f \in edited' \cup attic' \/ (f = "recipe" /\ layer'.here)
          /\ tree # "none" => tree' # "none"
          /\ layer.here /\ ~finishCut' => layer'.here ]_devVars

(* What the comment at standard.py:652 says of sync: the local files it    *)
(* replaces are moved to oe-local-files.bak.                               *)
LocalFilesKept ==
    [][ devLast' = "synced" /\ commands' = commands + 1 /\ treeLocal # 0
        => treeLocal \in {treeLocal', treeBak'} ]_devVars
=============================================================================
