----------------------------- MODULE ToolsProofs -----------------------------
(* What holds of devtool's workspace, of a target that recipes are         *)
(* deployed to, of an SDK that is updated, of combo-layer, and of what the *)
(* tests of an image run on: runqemu with its devices, QemuRunner, the     *)
(* commands on the target and the tests themselves.                        *)
EXTENDS Tools, TasksProofs, WicProofs


-----------------------------------------------------------------------------
(* The workspace.  A recipe that was edited is in the workspace, and there *)
(* is nothing edited when the recipe is not under devtool.                 *)
EditInv == /\ DevTypeOK /\ commands \in Nat
           /\ "recipe" \in edited => ws.here
           /\ devKind = "none" => edited = {}

LEMMA Empty ==
  /\ NoPatch \in [Nums -> Version] /\ NoTag \in [Nums -> 0..3]
  /\ NoRecipe \in Recipe /\ ~NoRecipe.here
  /\ [NoRecipe EXCEPT !.here = TRUE] \in Recipe
  /\ \A r \in Recipe : /\ r.here \in BOOLEAN /\ r.local \in Version
                        /\ r.patches \in [Nums -> Version] /\ r.patches \in [Nums -> 0..3]
<1>1. NoPatch \in [Nums -> Version] /\ NoTag \in [Nums -> 0..3]
  BY DEF NoPatch, NoTag, Version
<1>2. \A p \in [Nums -> Version] : \A h \in BOOLEAN : [here |-> h, patches |-> p, local |-> 0] \in Recipe
  BY DEF Recipe, Version
<1>3. NoRecipe \in Recipe /\ ~NoRecipe.here
  BY <1>1, <1>2 DEF NoRecipe
<1>4. [NoRecipe EXCEPT !.here = TRUE] \in Recipe
  BY <1>3 DEF Recipe
<1>5. \A r \in Recipe : /\ r.here \in BOOLEAN /\ r.local \in Version
                         /\ r.patches \in [Nums -> Version] /\ r.patches \in [Nums -> 0..3]
  BY DEF Recipe, Version
<1> QED
  BY <1>1, <1>3, <1>4, <1>5

LEMMA EditInit == DevInit => EditInv
<1> SUFFICES ASSUME DevInit PROVE EditInv
  OBVIOUS
<1>1. layer \in Recipe
  <2>1. [n \in Nums |-> IF n = 1 THEN 1 ELSE 0] \in [Nums -> Version]
    BY DEF Version
  <2>2. \A p \in [Nums -> Version] : [here |-> TRUE, local |-> 1, patches |-> p] \in Recipe
    BY DEF Recipe, Version
  <2>3. [here |-> TRUE, local |-> 1, patches |-> [n \in Nums |-> IF n = 1 THEN 1 ELSE 0]] \in Recipe
    BY <2>1, <2>2, Zenon
  <2> QED
    BY <2>3, Empty, Zenon DEF DevInit
<1> QED
  BY <1>1, Empty DEF DevInit, EditInv, DevTypeOK, Version

(* Whatever is written to a recipe, it is a recipe that is still there.    *)
LEMMA RecipeWritten ==
  ASSUME DevTypeOK, NEW rec \in Recipe, NEW remove \in BOOLEAN
  PROVE  /\ Updated(rec, remove) \in Recipe /\ Updated(rec, remove).here = rec.here
         /\ UpdatedInPart(rec) \in Recipe /\ UpdatedInPart(rec).here = rec.here
         /\ FinishedAgain(rec) \in Recipe /\ FinishedAgain(rec).here = rec.here
<1>. USE DEF DevTypeOK, Recipe, Version
<1>1. \A r \in BOOLEAN : Updated(rec, r) \in Recipe /\ Updated(rec, r).here = rec.here
  BY DEF Updated
<1>2. UpdatedInPart(rec) \in Recipe /\ UpdatedInPart(rec).here = rec.here
  BY DEF UpdatedInPart
<1>3. FinishedAgain(rec) \in Recipe /\ FinishedAgain(rec).here = rec.here
  <2>1. PICK u \in Recipe : u = Updated(rec, TRUE) /\ u.here = rec.here
    BY <1>1
  <2> DEFINE p == [n \in Nums |-> IF commits[n] = 0 \/ (tagged[n] \in Version \ {0} /\ ~Differs(n))
                                  THEN 0 ELSE u.patches[n]]
  <2>2. FinishedAgain(rec) = [u EXCEPT !.patches = p]
    BY <2>1, Zenon DEF FinishedAgain
  <2>3. p \in [Nums -> 0..2]
    OBVIOUS
  <2> HIDE DEF p
  <2>4. [u EXCEPT !.patches = p] \in Recipe /\ [u EXCEPT !.patches = p].here = u.here
    BY <2>3
  <2> QED
    BY <2>1, <2>2, <2>4
<1> QED
  BY <1>1, <1>2, <1>3

LEMMA EditStep == EditInv /\ [DevNext]_devVars => EditInv'
<1> SUFFICES ASSUME EditInv, [DevNext]_devVars PROVE EditInv'
  OBVIOUS
<1>0. DevTypeOK /\ Parsed \in Recipe
  BY DEF EditInv, DevTypeOK, Parsed
<1>. USE DEF EditInv, DevTypeOK, Command, User, Version, RecipeFiles, TreeVars
<1>1. CASE UNCHANGED devVars
  BY <1>1 DEF devVars
<1>2. CASE Add
  BY Empty, <1>2 DEF Add
<1>3. CASE Modify
  BY <1>0, Empty, <1>3 DEF Modify, Extract
<1>4. CASE Upgrade
  BY Empty, <1>4 DEF Upgrade
<1>5. CASE Sync
  BY <1>0, Empty, <1>5 DEF Sync
<1>6. ASSUME NEW remove \in BOOLEAN, UpdateRecipe(remove) PROVE EditInv'
  <2>1. PICK new \in Recipe : /\ new.here = Parsed.here
          /\ IF ws.here THEN ws' = new /\ edited' \in {edited, edited \cup {"recipe"}} /\ UNCHANGED layer
                        ELSE layer' = new /\ UNCHANGED <<ws, edited>>
    BY <1>0, <1>6, RecipeWritten DEF UpdateRecipe
  <2>2. UNCHANGED <<devKind, listed, attic, TreeVars>> /\ commands' = commands + 1 /\ devKind # "none"
    BY <1>6 DEF UpdateRecipe
  <2>3. edited' \subseteq RecipeFiles /\ (edited' # edited => ws.here)
    BY <2>1
  <2>4. ws' \in Recipe /\ layer' \in Recipe /\ (ws.here => ws'.here)
    BY <2>1 DEF Parsed
  <2>5. DevTypeOK'
    BY <2>2, <2>3, <2>4
  <2> QED
    BY <2>1, <2>2, <2>3, <2>4, <2>5
<1>7. CASE Reset
  BY Empty, <1>7 DEF Reset, ResetWorkspace
<1>8. CASE Finish
  <2>1. \A rec \in {layer, ws, Parsed} : /\ Updated(rec, TRUE) \in Recipe
          /\ FinishedAgain(rec) \in Recipe /\ UpdatedInPart(rec) \in Recipe
          /\ UpdatedInPart(rec).here = rec.here
    BY <1>0, RecipeWritten
  <2>2. UNCHANGED TreeVars /\ commands' = commands + 1 /\ layer' \in Recipe
    BY <1>8, <2>1, Empty DEF Finish
  <2>3. ws' \in Recipe /\ (ws' = NoRecipe \/ ws'.here = ws.here)
    BY <1>8, <2>1, Empty DEF Finish
  <2>4. /\ edited' \subseteq edited /\ attic' \subseteq RecipeFiles
        /\ devKind' \in {devKind, "none"} /\ listed' \in [Nums -> Version]
        /\ ws' = NoRecipe => "recipe" \notin edited'
        /\ devKind' = "none" => edited' = {}
    BY <1>8, <2>1, Empty DEF Finish, ResetWorkspace
  <2> QED
    BY <2>2, <2>3, <2>4
<1>9. CASE UserCommits \/ UserEditsFile \/ UserEditsLocal
  <2>1. CASE UserCommits
    BY <2>1 DEF UserCommits
  <2>2. CASE UserEditsFile
    <3>1. edited' \subseteq RecipeFiles /\ ("recipe" \in edited' => ws.here)
      BY <2>2 DEF UserEditsFile
    <3>2. UNCHANGED <<layer, ws, devKind, listed, attic, commands, TreeVars>> /\ devKind # "none"
      BY <2>2 DEF UserEditsFile
    <3> QED
      BY <3>1, <3>2
  <2>3. CASE UserEditsLocal
    BY <2>3 DEF UserEditsLocal
  <2> QED
    BY <1>9, <2>1, <2>2, <2>3
<1>10. CASE UserRemoves
  BY Empty, <1>10 DEF UserRemoves
<1> QED
  BY <1>1, <1>2, <1>3, <1>4, <1>5, <1>6, <1>7, <1>8, <1>9, <1>10 DEF DevNext

KeepsWork ==
  commands' = commands + 1 =>
    /\ \A f \in edited : f \in edited' \cup attic' \/ (f = "recipe" /\ layer'.here)
    /\ tree # "none" => tree' # "none"
    /\ layer.here /\ ~finishCut' => layer'.here

LEMMA WorkStep == EditInv /\ [DevNext]_devVars => KeepsWork
<1> SUFFICES ASSUME EditInv, [DevNext]_devVars PROVE KeepsWork
  OBVIOUS
<1>0. DevTypeOK /\ Parsed \in Recipe
  BY DEF EditInv, DevTypeOK, Parsed
<1>. USE DEF EditInv, KeepsWork, Command, User, RecipeFiles, TreeVars
<1>1. CASE UNCHANGED devVars
  BY <1>1 DEF devVars
<1>2. CASE Add \/ Sync \/ Upgrade
  BY <1>2 DEF Add, Sync, Upgrade
<1>3. CASE Modify
  BY <1>3 DEF Modify, Extract
<1>4. ASSUME NEW remove \in BOOLEAN, UpdateRecipe(remove) PROVE KeepsWork
  <2>1. UNCHANGED <<attic, TreeVars>> /\ edited \subseteq edited'
    BY <1>4 DEF UpdateRecipe
  <2>2. layer.here => layer'.here
    BY <1>0, <1>4, RecipeWritten DEF UpdateRecipe, Parsed
  <2> QED
    BY <2>1, <2>2
<1>5. CASE Reset
  BY <1>5 DEF Reset, ResetWorkspace, DevTypeOK
<1>6. CASE Finish
  <2>1. \A rec \in {layer, ws, Parsed} : /\ Updated(rec, TRUE).here = rec.here
          /\ FinishedAgain(rec).here = rec.here /\ UpdatedInPart(rec).here = rec.here
    BY <1>0, RecipeWritten DEF DevTypeOK
  <2>2. UNCHANGED TreeVars
    BY <1>6 DEF Finish
  <2>3. layer.here /\ ~finishCut' => layer'.here
    BY <1>6, <2>1, Empty DEF Finish, Parsed
  <2>4. "append" \in edited => "append" \in edited' \cup attic'
    BY <1>6 DEF Finish, ResetWorkspace
  <2>5. "recipe" \in edited => "recipe" \in edited' \/ layer'.here
    BY <1>6, <2>1 DEF Finish, ResetWorkspace, Parsed
  <2> QED
    BY <2>2, <2>3, <2>4, <2>5 DEF DevTypeOK
<1>7. CASE UserCommits \/ UserEditsFile \/ UserEditsLocal \/ UserRemoves
  BY <1>7 DEF UserCommits, UserEditsFile, UserEditsLocal, UserRemoves
<1> QED
  BY <1>1, <1>2, <1>3, <1>4, <1>5, <1>6, <1>7 DEF DevNext

(* No command of devtool loses what the user changed, in any order of      *)
(* commands, edits, failures and removals: workspace files end up in place,*)
(* in the attic or in the layer, and trees and recipes stay                *)
(* (standard.py:704, 1383, 1474).                                          *)
THEOREM UserWorkKeptHolds == DevSpec => UserWorkKept
<1>1. EditInv /\ [DevNext]_devVars => [KeepsWork]_devVars
  BY WorkStep
<1> QED
  BY EditInit, EditStep, <1>1, PTL DEF DevSpec, UserWorkKept, KeepsWork

(* What the bbappend lists as commits of the recipe is what the tree was   *)
(* extracted with, so a commit that differs is exported.                   *)
ListInv == /\ devKind = "none" => listed = NoPatch
           /\ tree # "none" => listed = NoPatch \/ listed = tagged

LEMMA ListStep == EditInv /\ ListInv /\ [DevNext]_devVars => ListInv'
<1> SUFFICES ASSUME EditInv, ListInv, [DevNext]_devVars PROVE ListInv'
  OBVIOUS
<1>. USE DEF ListInv, Command, User, TreeVars
<1>1. CASE UNCHANGED devVars
  BY <1>1 DEF devVars
<1>2. CASE Add \/ Sync \/ Upgrade
  BY <1>2 DEF Add, Sync, Upgrade
<1>3. CASE Modify
  BY <1>3 DEF Modify, Extract
<1>4. CASE \E remove \in BOOLEAN : UpdateRecipe(remove)
  BY <1>4 DEF UpdateRecipe
<1>5. CASE Reset \/ Finish
  BY <1>5 DEF Reset, Finish, ResetWorkspace
<1>6. CASE UserCommits \/ UserEditsFile \/ UserEditsLocal \/ UserRemoves
  BY <1>6 DEF UserCommits, UserEditsFile, UserEditsLocal, UserRemoves
<1> QED
  BY <1>1, <1>2, <1>3, <1>4, <1>5, <1>6 DEF DevNext

LEMMA ExactlyCommits ==
  ASSUME DevTypeOK, ListInv, tree # "none", NEW rec \in Recipe,
         \A n \in Nums : commits[n] \in {0, rec.patches[n]} \/ Differs(n)
  PROVE  Updated(rec, TRUE).patches = commits /\ Updated(rec, TRUE).local = treeLocal
<1> DEFINE p == [n \in Nums |->
          IF commits[n] = 0 THEN IF TRUE THEN 0 ELSE rec.patches[n]
          ELSE IF Exported(n) /\ (rec.patches[n] = 0 \/ Differs(n))
               THEN commits[n] ELSE rec.patches[n]]
<1>1. ASSUME NEW n \in Nums, commits[n] # 0, commits[n] # rec.patches[n]
      PROVE  Exported(n) /\ Differs(n)
  <2>1. Differs(n) /\ n \in 1..n
    BY <1>1 DEF Nums
  <2>2. commits[n] # listed[n]
    BY <1>1, <2>1 DEF ListInv, Differs, NoPatch
  <2> QED
    BY <1>1, <2>1, <2>2 DEF Exported
<1>2. \A n \in Nums : p[n] = commits[n]
  BY <1>1
<1>3. p = commits
  BY <1>2 DEF DevTypeOK
<1>4. Updated(rec, TRUE) = [[rec EXCEPT !.local = treeLocal] EXCEPT !.patches = p]
  BY DEF Updated
<1> HIDE DEF p
<1> QED
  BY <1>3, <1>4 DEF Recipe

MadeExactly ==
  /\ devLast' \in {"updated", "finished"} /\ commands' = commands + 1
  /\ \A n \in Nums : commits[n] \in {0, Parsed.patches[n]} \/ Differs(n)
  => Parsed'.patches = commits /\ Parsed'.local = treeLocal

LEMMA ExactStep == EditInv /\ ListInv /\ [DevNext]_devVars => MadeExactly
<1> SUFFICES ASSUME EditInv, ListInv, [DevNext]_devVars,
                    devLast' \in {"updated", "finished"}, commands' = commands + 1,
                    \A n \in Nums : commits[n] \in {0, Parsed.patches[n]} \/ Differs(n)
             PROVE  Parsed'.patches = commits /\ Parsed'.local = treeLocal
  BY DEF MadeExactly
<1>1. DevTypeOK /\ Parsed \in Recipe /\ commands \in Nat
  BY DEF EditInv, DevTypeOK, Parsed
<1>2. Updated(Parsed, TRUE).here = Parsed.here
  BY <1>1, RecipeWritten
<1>3. ASSUME tree # "none", Parsed' = Updated(Parsed, TRUE)
      PROVE  Parsed'.patches = commits /\ Parsed'.local = treeLocal
  BY <1>1, <1>3, ExactlyCommits
<1>4. ASSUME NEW remove \in BOOLEAN, UpdateRecipe(remove) PROVE tree # "none" /\ Parsed' = Updated(Parsed, TRUE)
  BY <1>2, <1>4 DEF UpdateRecipe, Command, Parsed
<1>5. ASSUME Finish PROVE tree # "none" /\ Parsed' = Updated(Parsed, TRUE)
  BY <1>5, Empty DEF Finish, Command, Parsed
<1>6. ~Add /\ ~Modify /\ ~Upgrade /\ ~Sync /\ ~Reset
  BY DEF Add, Modify, Upgrade, Sync, Reset, Command
<1>7. ~UserCommits /\ ~UserEditsFile /\ ~UserEditsLocal /\ ~UserRemoves /\ ~UNCHANGED devVars
  BY <1>1 DEF UserCommits, UserEditsFile, UserEditsLocal, UserRemoves, User, devVars
<1> QED
  BY <1>3, <1>4, <1>5, <1>6, <1>7 DEF DevNext

(* After update-recipe or finish the recipe has exactly the patches of the *)
(* commits and the local file of the source tree, for any number of        *)
(* patches (standard.py:854, 1190).                                        *)
THEOREM UpdateExactHolds == DevSpec => UpdateExact
<1>1. DevInit => ListInv
  BY DEF DevInit, ListInv
<1>2. EditInv /\ ListInv /\ [DevNext]_devVars => [MadeExactly]_devVars
  BY ExactStep
<1> QED
  BY EditInit, EditStep, ListStep, <1>1, <1>2, PTL DEF DevSpec, UpdateExact, MadeExactly

-----------------------------------------------------------------------------
(* The target.  A recipe claims a file that it lists or has put aside.     *)
Claims(r, f) == f \in deployList[r] \/ preserved[r][f] # "none"

(* A file that nobody claims is the target's own; one that a recipe claims *)
(* is claimed by no other, what was there before is put aside, and in its  *)
(* place is the recipe's file, if it is listed, or nothing.                *)
FileInv(f) ==
  /\ (\A r \in Deployers : ~Claims(r, f)) => onTarget[f] = Before[f]
  /\ \A r \in Deployers : Claims(r, f) =>
        /\ preserved[r][f] = Before[f]
        /\ onTarget[f] = "none" \/ (onTarget[f] = r /\ f \in deployList[r])
        /\ \A s \in Deployers : Claims(s, f) => s = r

DeployInv == DeployTypeOK /\ \A f \in Files \ (excused \cup unreturned \cup Links) : FileInv(f)

LEMMA DeployStart == DeployInit => DeployInv
<1> SUFFICES ASSUME DeployInit PROVE DeployInv
  OBVIOUS
<1>1. DeployTypeOK
  BY DeployAssumption DEF DeployInit, DeployTypeOK, Before, Nowhere, Content, DirsOf
<1>2. ASSUME NEW f \in Files PROVE FileInv(f)
  BY <1>2 DEF DeployInit, FileInv, Claims, Nowhere
<1> QED
  BY <1>1, <1>2 DEF DeployInv

LEMMA RemovalStep ==
  ASSUME DeployInv, NEW r \in Deployers, RemovalCut(r) PROVE DeployInv'
<1>1. PICK gone \in SUBSET deployList[r] :
        /\ onTarget' = Without(gone)
        /\ \E emptied \in SUBSET Emptied(r, Without(gone)) : dirs' = dirs \ emptied
  BY DEF RemovalCut
<1>2. UNCHANGED <<preserved, deployList, raw, unreturned, excused>>
  BY DEF RemovalCut
<1>3. DeployTypeOK'
  <2>1. PICK emptied \in SUBSET Emptied(r, Without(gone)) : dirs' = dirs \ emptied
    BY <1>1
  <2>2. onTarget' \in [Files -> Content]
    BY <1>1 DEF DeployInv, DeployTypeOK, Without, Content
  <2>3. DirsOf(Files)' = DirsOf(Files)
    BY DEF DirsOf
  <2>4. ASSUME NEW f \in Files, onTarget'[f] # "none" PROVE DirOf[f] \in dirs'
    <3>1. onTarget[f] # "none" /\ onTarget'[f] = Without(gone)[f]
      BY <1>1, <2>4 DEF Without
    <3>2. DirOf[f] \notin emptied
      BY <2>1, <2>4, <3>1 DEF Emptied
    <3> QED
      BY <2>1, <3>1, <3>2 DEF DeployInv, DeployTypeOK
  <2> QED
    BY <1>2, <2>1, <2>2, <2>3, <2>4 DEF DeployInv, DeployTypeOK
<1>4. ASSUME NEW f \in Files \ (excused \cup unreturned \cup Links) PROVE FileInv(f)'
  <2>1. FileInv(f) /\ onTarget'[f] = IF f \in gone THEN "none" ELSE onTarget[f]
    BY <1>1 DEF DeployInv, Without
  <2>2. \A s \in Deployers : Claims(s, f)' <=> Claims(s, f)
    BY <1>2 DEF Claims
  <2>3. f \in gone => Claims(r, f)
    BY <1>1 DEF Claims
  <2> QED
    BY <1>2, <2>1, <2>2, <2>3 DEF FileInv, Before
<1> QED
  BY <1>2, <1>3, <1>4 DEF DeployInv

(* What a deployment that was not cut before its own removal leaves: files *)
(* put aside, perhaps not all, and files written, perhaps not all.         *)
LEMMA DeployStep ==
  ASSUME DeployInv, NEW r \in Deployers, NEW new \in Outputs[r], NEW keep \in BOOLEAN,
         Deploy(r, new, keep)
  PROVE  DeployInv'
<1> DEFINE under == Without(deployList[r])
           moved == IF keep THEN {f \in new : under[f] # "none"} ELSE {}
<1> DEFINE Result(kept, put) ==
        /\ onTarget' = [f \in Files |-> IF f \in put THEN r
                                         ELSE Without(deployList[r] \cup kept)[f]]
        /\ preserved' = [preserved EXCEPT ![r] = [f \in Files |->
               IF f \in kept THEN under[f] ELSE @[f]]]
        /\ deployList' = [deployList EXCEPT ![r] = put]
        /\ \E emptied \in SUBSET Emptied(r, under),
              made \in SUBSET (IF put = {} THEN {} ELSE DirsOf(new)) :
             DirsOf(put) \subseteq made /\ dirs' = (dirs \ emptied) \cup made
<1>1. PICK kept \in SUBSET moved, put \in SUBSET new :
        (kept = moved \/ put = {}) /\ Result(kept, put) /\ raw' \subseteq raw \cup {r}
  <2>1. \/ (\E kept \in SUBSET moved : Result(kept, {})) /\ raw' = raw \ {r}
        \/ (\E put \in SUBSET new : Result(moved, put)) /\ raw' = raw \cup {r}
        \/ Result(moved, new) /\ raw' = raw \ {r}
    BY Zenon DEF Deploy
  <2> HIDE DEF Result, moved
  <2>2. moved \in SUBSET moved /\ {} \in SUBSET new /\ new \in SUBSET new
    OBVIOUS
  <2> QED
    BY <2>1, <2>2
<1>2. excused' = excused \cup Shared(r, new) \cup (IF keep THEN {} ELSE new) /\ unreturned' = unreturned
  BY DEF Deploy
<1>3. new \subseteq Files /\ r # "none" /\ r # "orig"
  BY DeployAssumption DEF Deployers
<1>4. DeployTypeOK'
  <2>1. onTarget' \in [Files -> Content]
    BY <1>1 DEF DeployInv, DeployTypeOK, Without, Content
  <2>2. preserved' \in [Deployers -> [Files -> Content]]
    BY <1>1 DEF DeployInv, DeployTypeOK, Without, Content
  <2>3. deployList' \in [Deployers -> SUBSET Files] /\ raw' \subseteq Deployers /\ excused' \subseteq Files
    BY <1>1, <1>2, <1>3 DEF DeployInv, DeployTypeOK, Shared
  <2>4. PICK emptied \in SUBSET Emptied(r, under),
             made \in SUBSET (IF put = {} THEN {} ELSE DirsOf(new)) :
               DirsOf(put) \subseteq made /\ dirs' = (dirs \ emptied) \cup made
    BY <1>1
  <2>5. dirs' \subseteq DirsOf(Files) /\ DirsOf(Files)' = DirsOf(Files)
    BY <1>1, <1>3, <2>4 DEF DeployInv, DeployTypeOK, DirsOf
  <2>6. ASSUME NEW f \in Files, onTarget'[f] # "none" PROVE DirOf[f] \in dirs'
    <3>1. CASE f \in put
      BY <2>4, <3>1 DEF DirsOf
    <3>2. CASE f \notin put
      <4>1. under[f] # "none" /\ onTarget[f] # "none"
        BY <1>1, <2>6, <3>2 DEF Without
      <4>2. DirOf[f] \notin emptied
        <5>. HIDE DEF under
        <5> QED
          BY <2>4, <4>1 DEF Emptied
      <4> QED
        BY <2>4, <4>1, <4>2 DEF DeployInv, DeployTypeOK
    <3> QED
      BY <3>1, <3>2
  <2> QED
    BY <1>2, <2>1, <2>2, <2>3, <2>5, <2>6 DEF DeployInv, DeployTypeOK
<1>5. ASSUME NEW f \in Files \ (excused' \cup unreturned' \cup Links) PROVE FileInv(f)'
  <2>1. FileInv(f) /\ f \notin Shared(r, new) /\ (f \in new => keep = TRUE)
    BY <1>2 DEF DeployInv
  <2>2. under[f] = IF f \in deployList[r] THEN "none" ELSE onTarget[f]
    BY DEF Without
  <2>3. onTarget'[f] = IF f \in put THEN r
                       ELSE IF f \in deployList[r] \cup kept THEN "none" ELSE onTarget[f]
    BY <1>1 DEF Without
  <2>4. /\ preserved'[r][f] = IF f \in kept THEN under[f] ELSE preserved[r][f]
        /\ deployList'[r] = put
    BY <1>1 DEF DeployInv, DeployTypeOK
  <2>5. \A s \in Deployers \ {r} : preserved'[s] = preserved[s] /\ deployList'[s] = deployList[s]
    BY <1>1 DEF DeployInv, DeployTypeOK
  <2>6. \A s \in Deployers \ {r} : (Claims(s, f)' <=> Claims(s, f)) /\ (Claims(s, f) => f \notin new)
    BY <2>1, <2>5 DEF Claims, Shared
  <2>7. f \in moved <=> f \in new /\ under[f] # "none"
    BY <2>1
  <2> HIDE DEF moved, under
  <2>8. CASE \E s \in Deployers \ {r} : Claims(s, f)
    <3>1. PICK s \in Deployers \ {r} : Claims(s, f)
      BY <2>8
    <3>2. ~Claims(r, f) /\ f \notin new /\ f \notin kept /\ f \notin put
      BY <1>1, <2>1, <2>6, <2>7, <3>1 DEF FileInv
    <3>3. ~Claims(r, f)' /\ onTarget'[f] = onTarget[f]
      BY <2>3, <2>4, <3>2 DEF Claims
    <3> QED
      BY <2>1, <2>5, <2>6, <3>1, <3>3 DEF FileInv, Before
  <2>9. CASE ~ \E s \in Deployers \ {r} : Claims(s, f)
    <3>1. \A s \in Deployers : Claims(s, f)' => s = r
      BY <2>6, <2>9
    <3>2. IF Claims(r, f)' THEN preserved'[r][f] = Before[f] ELSE onTarget'[f] = Before[f]
      BY <1>1, <1>3, <2>1, <2>2, <2>3, <2>4, <2>7, <2>9 DEF FileInv, Claims
    <3>3. Claims(r, f)' => onTarget'[f] = "none" \/ (onTarget'[f] = r /\ f \in deployList'[r])
      BY <1>1, <2>1, <2>2, <2>3, <2>4, <2>7, <2>9 DEF FileInv, Claims
    <3> QED
      BY <3>1, <3>2, <3>3 DEF FileInv, Before
  <2> QED
    BY <2>8, <2>9
<1> QED
  BY <1>4, <1>5 DEF DeployInv

LEMMA UndeployStep ==
  ASSUME DeployInv, NEW r \in Deployers, Undeploy(r) PROVE DeployInv'
<1>1. PICK back \in SUBSET Regular(r) :
        /\ onTarget' = [f \in Files |-> IF f \in back THEN preserved[r][f]
                                         ELSE Without(deployList[r])[f]]
        /\ DirsOf(back) \subseteq dirs'
        /\ \/ /\ preserved' = [preserved EXCEPT ![r] = Nowhere]
              /\ unreturned' = unreturned \cup (Regular(r) \ back)
           \/ /\ preserved' = [preserved EXCEPT ![r] = [f \in Files |->
                                   IF f \in back THEN "none" ELSE @[f]]]
              /\ unreturned' = unreturned
  BY DEF Undeploy
<1>2. deployList' = [deployList EXCEPT ![r] = {}] /\ raw' = raw \ {r} /\ excused' = excused
  BY DEF Undeploy
<1>3. DeployTypeOK'
  <2>1. onTarget' \in [Files -> Content]
    BY <1>1 DEF DeployInv, DeployTypeOK, Without, Regular, Content
  <2>2. preserved' \in [Deployers -> [Files -> Content]]
    BY <1>1 DEF DeployInv, DeployTypeOK, Nowhere, Content
  <2>3. PICK emptied \in SUBSET Emptied(r, Without(deployList[r])) : dirs' = dirs \ emptied
    BY DEF Undeploy
  <2>4. ASSUME NEW f \in Files, onTarget'[f] # "none" PROVE DirOf[f] \in dirs'
    <3>1. CASE f \in back
      BY <1>1, <3>1 DEF DirsOf
    <3>2. CASE f \notin back
      <4>1. Without(deployList[r])[f] # "none" /\ onTarget[f] # "none"
        BY <1>1, <2>4, <3>2 DEF Without
      <4>2. DirOf[f] \notin emptied
        BY <2>3, <4>1 DEF Emptied
      <4> QED
        BY <2>3, <4>1, <4>2 DEF DeployInv, DeployTypeOK
    <3> QED
      BY <3>1, <3>2
  <2>5. unreturned' \subseteq Files /\ DirsOf(Files)' = DirsOf(Files)
    BY <1>1 DEF DeployInv, DeployTypeOK, Regular, DirsOf
  <2>6. deployList' \in [Deployers -> SUBSET Files] /\ raw' \subseteq Deployers /\ excused' \subseteq Files
    BY <1>2 DEF DeployInv, DeployTypeOK
  <2> QED
    BY <2>1, <2>2, <2>3, <2>4, <2>5, <2>6 DEF DeployInv, DeployTypeOK
<1>4. ASSUME NEW f \in Files \ (excused' \cup unreturned' \cup Links) PROVE FileInv(f)'
  <2>1. FileInv(f) /\ (f \in Regular(r) <=> preserved[r][f] # "none")
    BY <1>1, <1>2 DEF DeployInv, Regular
  <2>2. onTarget'[f] = IF f \in back THEN preserved[r][f]
                       ELSE IF f \in deployList[r] THEN "none" ELSE onTarget[f]
    BY <1>1 DEF Without
  <2>3. preserved'[r][f] = (IF f \in back THEN "none" ELSE preserved[r][f]) /\ deployList'[r] = {}
    <3>1. CASE preserved' = [preserved EXCEPT ![r] = Nowhere]
      <4>1. f \notin back => preserved[r][f] = "none"
        <5>1. unreturned' = unreturned \cup (Regular(r) \ back) \/ preserved[r][f] = "none" \/ f \in back
          BY <1>1, <3>1 DEF DeployInv, DeployTypeOK, Nowhere
        <5> QED
          BY <2>1, <5>1
      <4> QED
        BY <1>2, <3>1, <4>1 DEF DeployInv, DeployTypeOK, Nowhere
    <3>2. CASE preserved' = [preserved EXCEPT ![r] = [x \in Files |->
                                IF x \in back THEN "none" ELSE @[x]]]
      BY <1>2, <3>2 DEF DeployInv, DeployTypeOK
    <3> QED
      BY <1>1, <3>1, <3>2
  <2>4. \A s \in Deployers \ {r} : preserved'[s] = preserved[s] /\ deployList'[s] = deployList[s]
    BY <1>1, <1>2 DEF DeployInv, DeployTypeOK
  <2>5. \A s \in Deployers \ {r} : Claims(s, f)' <=> Claims(s, f)
    BY <2>4 DEF Claims
  <2>6. f \in back => preserved[r][f] # "none"
    BY <1>1, <2>1
  <2>7. CASE \E s \in Deployers \ {r} : Claims(s, f)
    <3>1. PICK s \in Deployers \ {r} : Claims(s, f)
      BY <2>7
    <3>2. ~Claims(r, f) /\ f \notin back
      BY <2>1, <2>6, <3>1 DEF FileInv, Claims
    <3>3. ~Claims(r, f)' /\ onTarget'[f] = onTarget[f]
      BY <2>2, <2>3, <3>2 DEF Claims
    <3> QED
      BY <2>1, <2>4, <2>5, <3>1, <3>3 DEF FileInv, Before
  <2>8. CASE ~ \E s \in Deployers \ {r} : Claims(s, f)
    <3>1. \A s \in Deployers : Claims(s, f)' => s = r
      BY <2>5, <2>8
    <3>2. IF Claims(r, f)' THEN preserved'[r][f] = Before[f] ELSE onTarget'[f] = Before[f]
      BY <2>1, <2>2, <2>3, <2>6, <2>8 DEF FileInv, Claims
    <3>3. Claims(r, f)' => onTarget'[f] = "none"
      BY <2>1, <2>2, <2>3, <2>6, <2>8 DEF FileInv, Claims
    <3> QED
      BY <3>1, <3>2, <3>3 DEF FileInv, Before
  <2> QED
    BY <2>7, <2>8
<1> QED
  BY <1>3, <1>4 DEF DeployInv

LEMMA TouchStep == ASSUME DeployInv, TargetTouched PROVE DeployInv'
<1>1. PICK f \in Files : /\ excused' = excused \cup {f}
                         /\ \/ onTarget' = [onTarget EXCEPT ![f] = "none"] /\ UNCHANGED dirs
                            \/ onTarget' = [onTarget EXCEPT ![f] = "orig"]
                               /\ dirs' = dirs \cup {DirOf[f]}
                         /\ UNCHANGED <<preserved, deployList, raw, unreturned>>
  BY DEF TargetTouched
<1>2. DeployTypeOK'
  BY <1>1 DEF DeployInv, DeployTypeOK, Content, DirsOf
<1>3. ASSUME NEW g \in Files \ (excused' \cup unreturned' \cup Links) PROVE FileInv(g)'
  <2>1. FileInv(g) /\ onTarget'[g] = onTarget[g]
    BY <1>1 DEF DeployInv, DeployTypeOK
  <2> QED
    BY <1>1, <2>1 DEF FileInv, Claims, Before
<1> QED
  BY <1>2, <1>3 DEF DeployInv

LEMMA DeployInvStep == DeployInv /\ [DeployNext]_deployVars => DeployInv'
<1> SUFFICES ASSUME DeployInv, [DeployNext]_deployVars PROVE DeployInv'
  OBVIOUS
<1>1. CASE UNCHANGED deployVars
  BY <1>1 DEF deployVars, DeployInv, DeployTypeOK, FileInv, Claims, Before, DirsOf
<1>2. CASE DeployNext
  BY <1>2, RemovalStep, DeployStep, UndeployStep, TouchStep DEF DeployNext
<1> QED
  BY <1>1, <1>2

(* A target gets its own files back, for any recipes and files, any number *)
(* of deployments and wherever their scripts are cut short, but for a file *)
(* that could not be moved back before undeploy-target removed it          *)
(* (deploy.py:49, 94, 119).                                                *)
THEOREM TargetRestoredHolds == DeploySpec => []TargetRestored
<1>1. DeployInv => TargetRestored
  <2> SUFFICES ASSUME DeployInv, NEW f \in Files \ (excused \cup unreturned \cup Links)
               PROVE  /\ f \in Existing => \/ onTarget[f] = "orig"
                                            \/ \E r \in Deployers : preserved[r][f] = "orig"
                      /\ (\A r \in Deployers : f \notin deployList[r] /\ preserved[r][f] = "none")
                         => onTarget[f] = Before[f]
    BY DEF TargetRestored
  <2>1. FileInv(f)
    BY DEF DeployInv
  <2>2. f \in Existing => Before[f] = "orig"
    BY DEF Before
  <2> QED
    BY <2>1, <2>2 DEF FileInv, Claims
<1> QED
  BY DeployStart, DeployInvStep, <1>1, PTL DEF DeploySpec

-----------------------------------------------------------------------------
(* The SDK.  Nothing is newer than what is served.                         *)
Fetched == [layers : Nat, conf : Nat, files : SUBSET ConfFiles, uninative : Nat]

VersionInv ==
  /\ served \in Nat \ {0} /\ servedGit \in Nat \ {0}
  /\ served <= MaxPublished /\ servedGit <= MaxPublished
  /\ sdkConf \in [ConfFiles -> Nat] /\ \A f \in ConfFiles : sdkConf[f] <= served \/ sdkConf[f] = Torn
  /\ fetched \in Fetched /\ fetched.conf <= served /\ fetched.layers <= MaxPublished

(* Layers that are not whole are replaced before a conf file is: until     *)
(* then some file is not as it is served.  In a run that met no publish,   *)
(* every such file is in the list of those to move; and unless the layers  *)
(* were taken or kept at another version, an SDK with all the files that   *)
(* are served has their layers, from the move of the layers on.            *)
Whole == sdkLayers \notin {Gone, Torn}
RunInv ==
  /\ sdkStep = "idle" => fetched = NothingFetched
  /\ sdkStep = "fetchLayers" => fetched.layers = Gone
  /\ sdkGit => sdkLayers # Gone
  /\ Whole \/ Changed # {}
  /\ sdkStep \in {"fetchLayers", "fetchConf", "moveLayers"} => Changed # {}
  /\ sdkStep \in {"fetchConf", "moveLayers"} => Whole \/ fetched.layers # Gone
  /\ sdkStep \in {"moveConf", "moveManifest", "prepare"} => Whole
MetInv ==
  ~met =>
    /\ sdkStep \in {"fetchLayers", "fetchConf", "moveLayers"} => fetched.files = Changed
    /\ sdkStep \in {"moveLayers", "moveConf"} => fetched.conf = served
    /\ sdkStep = "moveConf" => Changed \subseteq fetched.files
    /\ sdkStep \in {"moveManifest", "prepare"} => Changed = {}
BehindInv ==
  ~behind =>
    /\ Changed = {} => sdkLayers = served
    /\ sdkStep \in {"fetchConf", "moveLayers"} =>
          fetched.layers = served \/ (fetched.layers = Gone /\ sdkLayers = served)
    /\ sdkStep \in {"moveConf", "moveManifest", "prepare"} => sdkLayers = served

SdkInv == VersionInv /\ RunInv /\ MetInv /\ BehindInv

LEMMA SdkStart == SdkInit => SdkInv
  BY SdkAssumption DEF SdkAssumption, SdkInit, SdkInv, VersionInv, Fetched, RunInv, MetInv,
     BehindInv, Whole, Gone, Torn, NothingFetched, Changed

LEMMA FetchedHas ==
  ASSUME NEW m \in Fetched
  PROVE  /\ m.layers \in Nat /\ m.conf \in Nat
         /\ m.files \subseteq ConfFiles
  BY DEF Fetched

LEMMA LayersFetched ==
  ASSUME NEW m \in Fetched, NEW v \in Nat
  PROVE  LET n == [m EXCEPT !.layers = v]
         IN  n \in Fetched /\ n.layers = v /\ n.conf = m.conf /\ n.files = m.files
  BY DEF Fetched

LEMMA ConfFetched ==
  ASSUME NEW m \in Fetched, NEW v \in Nat
  PROVE  LET n == [m EXCEPT !.conf = v]
         IN  n \in Fetched /\ n.conf = v /\ n.layers = m.layers /\ n.files = m.files
  BY DEF Fetched

LEMMA TarballFetched ==
  ASSUME NEW m \in Fetched, NEW u \in Nat
  PROVE  LET n == [m EXCEPT !.uninative = u]
         IN  n \in Fetched /\ n.conf = m.conf /\ n.layers = m.layers /\ n.files = m.files
  BY DEF Fetched

LEMMA FilesChosen ==
  ASSUME NEW m \in Fetched, NEW S \in SUBSET ConfFiles
  PROVE  LET n == [m EXCEPT !.files = S]
         IN  n \in Fetched /\ n.files = S /\ n.layers = m.layers /\ n.conf = m.conf
  BY DEF Fetched

(* While a file that is not as it is served stays so, and the layers stay, *)
(* a run that ends keeps the invariant.                                    *)
LEMMA RunEnds ==
  ASSUME SdkInv, sdkStep' = "idle", fetched' = NothingFetched, UNCHANGED <<Server, Client, behind>>
  PROVE  SdkInv'
<1>1. Changed' = Changed /\ Whole' = Whole
  BY DEF Changed, Whole, Server, Client
<1>2. VersionInv'
  BY SdkAssumption DEF SdkAssumption, SdkInv, VersionInv, Fetched, NothingFetched, Server,
     Client, Gone, Torn
<1> QED
  BY <1>1, <1>2 DEF SdkInv, RunInv, MetInv, BehindInv, Server, Client

LEMMA SdkInvStep == SdkInv /\ [SdkNext]_sdkVars => SdkInv'
<1> SUFFICES ASSUME SdkInv, [SdkNext]_sdkVars PROVE SdkInv'
  OBVIOUS
<1>0. /\ VersionInv /\ RunInv /\ MetInv /\ BehindInv
      /\ MaxPublished \in Nat \ {0}
  BY SdkAssumption DEF SdkAssumption, SdkInv
<1>f. /\ fetched \in Fetched /\ fetched.layers \in Nat /\ fetched.conf \in Nat
      /\ fetched.files \subseteq ConfFiles
  BY <1>0, FetchedHas DEF VersionInv
<1>c. Fetched' = Fetched /\ NothingFetched' = NothingFetched
  BY DEF Fetched, NothingFetched, Gone
<1>. USE DEF Client, Server, Excuses, Ends, Goes, Gone, Torn
<1>1. CASE UNCHANGED sdkVars
  BY <1>1 DEF sdkVars, SdkInv, VersionInv, RunInv, MetInv, BehindInv, Whole, Changed
<1>2. CASE Publish
  <2>1. VersionInv'
    BY <1>0, <1>c, <1>f, <1>2 DEF Publish, VersionInv
  <2>2. served' # served => \A f \in ConfFiles : sdkConf'[f] # served'
    BY <1>0, <1>c, <1>f, <1>2 DEF Publish, VersionInv
  <2>3. served' # served => Changed' # {}
    BY <2>2, SdkAssumption DEF Changed, SdkAssumption
  <2>4. served' = served => Changed' = Changed
    BY <1>2 DEF Publish, Changed
  <2>5. RunInv' /\ MetInv' /\ BehindInv'
    BY <1>0, <1>c, <1>f, <1>2, <2>3, <2>4 DEF Publish, RunInv, MetInv, BehindInv, Whole
  <2> QED
    BY <2>1, <2>5 DEF SdkInv
<1>3. CASE StartUpdate
  <2>1. UNCHANGED <<Server, Client, behind>> /\ Changed' = Changed /\ sdkStep = "idle"
    BY <1>3 DEF StartUpdate, Changed
  <2>2. CASE sdkStep' = "idle" /\ fetched' = NothingFetched
    BY <2>1, <2>2, RunEnds
  <2>3. CASE /\ sdkStep' = "fetchLayers" /\ fetched' = [fetched EXCEPT !.files = Changed]
             /\ Changed # {}
    <3>1. fetched = NothingFetched /\ Changed \in SUBSET ConfFiles
      BY <1>0, <1>c, <1>f, <2>1 DEF RunInv, Changed
    <3>2. /\ fetched' = [layers |-> 0, conf |-> 0, files |-> Changed, uninative |-> 0]
          /\ fetched'.layers = 0 /\ fetched'.files = Changed /\ fetched'.conf = 0
      <4>1. fetched' = [NothingFetched EXCEPT !.files = Changed]
        BY <2>3, <3>1, Zenon
      <4> QED
        BY <4>1 DEF NothingFetched
    <3>3. VersionInv'
      BY <1>0, <1>c, <1>f, <2>1, <3>1, <3>2 DEF VersionInv, Fetched
    <3>4. RunInv' /\ MetInv' /\ BehindInv'
      BY <1>0, <1>c, <1>f, <2>1, <2>3, <3>2 DEF RunInv, MetInv, BehindInv, Whole
    <3> QED
      BY <3>3, <3>4 DEF SdkInv
  <2> QED
    BY <1>3, <2>2, <2>3 DEF StartUpdate
<1>4. CASE FetchLayers
  <2>0. UNCHANGED <<Server, Client, met>> /\ Changed' = Changed /\ Whole' = Whole
        /\ sdkStep = "fetchLayers"
    BY <1>4 DEF FetchLayers, Changed, Whole
  <2>1. CASE Ends("failed") /\ UNCHANGED behind
    BY <2>0, <2>1, RunEnds
  <2>2. CASE sdkGit /\ sdkLayers # Torn /\ Goes("fetchConf") /\ UNCHANGED fetched
             /\ behind' = (sdkLayers # served)
    BY <1>0, <1>c, <1>f, <2>0, <2>2 DEF SdkInv, VersionInv, RunInv, MetInv, BehindInv, Whole
  <2>3. CASE Goes("fetchConf") /\ fetched' = [fetched EXCEPT !.layers = servedGit]
             /\ behind' = (servedGit # served)
    <3>1. /\ fetched' \in Fetched /\ fetched'.conf = fetched.conf /\ fetched'.files = fetched.files
          /\ fetched'.layers = servedGit /\ servedGit # 0
      <4>1. servedGit \in Nat /\ servedGit # 0
        BY <1>0 DEF VersionInv
      <4> QED
        BY <1>f, <2>3, <4>1, LayersFetched
    <3> QED
      BY <1>0, <1>c, <1>f, <2>0, <2>3, <3>1 DEF SdkInv, VersionInv, RunInv, MetInv, BehindInv, Whole
  <2> QED
    BY <1>4, <2>1, <2>2, <2>3 DEF FetchLayers
<1>5. CASE FetchConf
  <2>0. UNCHANGED <<Server, Client, Excuses>> /\ Changed' = Changed /\ Whole' = Whole
        /\ sdkStep = "fetchConf"
    BY <1>5 DEF FetchConf, Changed, Whole
  <2>1. CASE Ends("failed")
    BY <2>0, <2>1, RunEnds
  <2>2. ASSUME Goes("moveLayers"), NEW u \in Nat,
               fetched' = [fetched EXCEPT !.conf = served, !.uninative = u]
        PROVE  SdkInv'
    <3>1. /\ fetched' \in Fetched /\ fetched'.conf = served /\ fetched'.files = fetched.files
          /\ fetched'.layers = fetched.layers
      <4>1. served \in Nat
        BY <1>0 DEF VersionInv
      <4>. DEFINE m == [fetched EXCEPT !.conf = served]
      <4>2. m \in Fetched /\ m.conf = served /\ m.layers = fetched.layers /\ m.files = fetched.files
        BY <1>f, <4>1, ConfFetched
      <4>3. fetched' = [m EXCEPT !.uninative = u]
        BY <2>2, Zenon
      <4>. HIDE DEF m
      <4> QED
        BY <4>2, <4>3, TarballFetched
    <3> QED
      BY <1>0, <1>c, <1>f, <2>0, <2>2, <3>1 DEF SdkInv, VersionInv, RunInv, MetInv, BehindInv, Whole
  <2>3. {0, served, MaxPublished + 1} \subseteq Nat
    BY <1>0 DEF VersionInv
  <2> QED
    BY <1>5, <2>1, <2>2, <2>3 DEF FetchConf
<1>6. CASE MoveLayers
  <2>0. UNCHANGED <<Server, sdkConf, sdkUninative, Excuses>> /\ Changed' = Changed
        /\ sdkStep = "moveLayers"
    BY <1>6 DEF MoveLayers, Changed
  <2>1. CASE Ends("failed") /\ UNCHANGED <<sdkLayers, sdkGit>>
    BY <1>6, <2>0, <2>1, RunEnds DEF MoveLayers
  <2>2. CASE fetched.layers = 0 /\ Goes("moveConf") /\ UNCHANGED <<sdkLayers, sdkGit, fetched>>
    BY <1>0, <1>c, <1>f, <2>0, <2>2 DEF SdkInv, VersionInv, RunInv, MetInv, BehindInv, Whole
  <2>3. CASE fetched.layers # 0 /\ Goes("moveConf") /\ sdkLayers' = fetched.layers
             /\ sdkGit' = TRUE /\ UNCHANGED fetched
    <3>1. Whole'
      BY <1>0, <1>c, <1>f, <2>3 DEF VersionInv, Whole
    <3> QED
      BY <1>0, <1>c, <1>f, <2>0, <2>3, <3>1 DEF SdkInv, VersionInv, RunInv, MetInv, BehindInv
  <2> QED
    BY <1>6, <2>1, <2>2, <2>3 DEF MoveLayers
<1>7. CASE MoveConf
  <2>1. PICK f \in fetched.files :
          /\ sdkConf' = [sdkConf EXCEPT ![f] = fetched.conf]
          /\ fetched' = [fetched EXCEPT !.files = @ \ {f}]
          /\ sdkStep' = IF fetched.files = {f} THEN "moveManifest" ELSE "moveConf"
    BY <1>7 DEF MoveConf
  <2>2. /\ fetched' \in Fetched /\ fetched'.conf = fetched.conf
        /\ fetched'.files = fetched.files \ {f} /\ f \in ConfFiles
    <3>1. fetched.files \ {f} \in SUBSET ConfFiles /\ f \in ConfFiles
      BY <1>f, <2>1
    <3> QED
      BY <1>0, <1>f, <2>1, <3>1, FilesChosen DEF VersionInv
  <2>3. VersionInv'
    BY <1>0, <1>c, <1>f, <1>7, <2>1, <2>2 DEF MoveConf, VersionInv
  <2>4. ~met => Changed' \subseteq Changed \ {f}
    BY <1>0, <1>c, <1>f, <1>7, <2>1 DEF MoveConf, MetInv, VersionInv, Changed
  <2>5. RunInv' /\ MetInv' /\ BehindInv'
    BY <1>0, <1>c, <1>f, <1>7, <2>1, <2>2, <2>4 DEF MoveConf, RunInv, MetInv, BehindInv, Whole
  <2> QED
    BY <2>3, <2>5 DEF SdkInv
<1>8. CASE MoveRest \/ PrepareBuild
  <2>0. /\ UNCHANGED <<Server, sdkConf, sdkLayers, sdkGit, Excuses>> /\ Changed' = Changed
        /\ Whole' = Whole /\ sdkStep \in {"moveManifest", "prepare"}
        /\ \/ sdkStep' = "prepare" /\ fetched' = fetched
           \/ sdkStep' = "idle" /\ fetched' = NothingFetched
    BY <1>8 DEF MoveRest, PrepareBuild, Changed, Whole
  <2>1. NothingFetched \in Fetched /\ NothingFetched.conf = 0 /\ NothingFetched.layers = 0
    BY <1>0 DEF NothingFetched, Fetched
  <2>2. VersionInv'
    BY <1>0, <1>c, <1>f, <2>0, <2>1 DEF VersionInv
  <2>3. RunInv' /\ MetInv' /\ BehindInv'
    BY <1>0, <1>c, <1>f, <2>0 DEF RunInv, MetInv, BehindInv
  <2> QED
    BY <2>2, <2>3 DEF SdkInv
<1>9. CASE UpdateKilled
  <2>0. sdkStep' = "idle" /\ fetched' = NothingFetched /\ UNCHANGED <<Server, Excuses>>
    BY <1>9 DEF UpdateKilled
  <2>1. NothingFetched \in Fetched /\ NothingFetched.conf = 0 /\ NothingFetched.layers = 0
    BY <1>0 DEF NothingFetched, Fetched
  <2>2. CASE UNCHANGED Client
    BY <2>0, <2>2, RunEnds
  <2>3. CASE sdkStep = "moveLayers" /\ UNCHANGED sdkConf /\ (sdkGit' => sdkLayers' # 0)
    <3>1. Changed' = Changed /\ Changed # {}
      BY <1>0, <1>c, <1>f, <2>0, <2>3 DEF RunInv, Changed
    <3> QED
      BY <1>0, <1>c, <1>f, <2>0, <2>1, <2>3, <3>1 DEF SdkInv, VersionInv, RunInv, MetInv, BehindInv
  <2>4. ASSUME sdkStep = "moveConf", UNCHANGED <<sdkLayers, sdkGit>>, NEW f \in fetched.files,
               NEW left \in {Gone, Torn}, sdkConf' = [sdkConf EXCEPT ![f] = left]
        PROVE  SdkInv'
    <3>1. f \in Changed'
      BY <1>0, <1>c, <1>f, <2>0, <2>4 DEF VersionInv, Changed
    <3>2. VersionInv'
      BY <1>0, <1>c, <1>f, <2>0, <2>1, <2>4 DEF VersionInv
    <3> QED
      BY <1>0, <1>c, <1>f, <2>0, <2>4, <3>1, <3>2 DEF SdkInv, RunInv, MetInv, BehindInv, Whole
  <2>5. CASE sdkStep = "moveManifest" /\ UNCHANGED <<sdkConf, sdkLayers, sdkGit>>
    <3>1. Changed' = Changed /\ Whole' = Whole
      BY <2>0, <2>5 DEF Changed, Whole
    <3> QED
      BY <1>0, <1>c, <1>f, <2>0, <2>1, <2>5, <3>1 DEF SdkInv, VersionInv, RunInv, MetInv, BehindInv
  <2> QED
    BY <1>0, <1>9, <2>2, <2>3, <2>4, <2>5 DEF UpdateKilled
<1> QED
  BY <1>1, <1>2, <1>3, <1>4, <1>5, <1>6, <1>7, <1>8, <1>9 DEF SdkNext

Recovered ==
  /\ sdkStep # "idle" \/ updates' # updates
  /\ sdkStep' = "idle" /\ sdkResult' \in {"updated", "upToDate"}
  => /\ sdkLayers' \notin {Gone, Torn}
     /\ ~met' => \A f \in ConfFiles : sdkConf'[f] = served
     /\ ~behind' => sdkLayers' = served

LEMMA RecoverStep == SdkInv /\ [SdkNext]_sdkVars => [Recovered]_sdkVars
<1> SUFFICES ASSUME SdkInv, SdkNext, sdkStep # "idle" \/ updates' # updates,
                    sdkResult' \in {"updated", "upToDate"}, sdkStep' = "idle"
             PROVE  Whole' /\ (~met' => Changed = {} /\ UNCHANGED sdkConf)
                           /\ (~behind' => sdkLayers' = served)
  BY Zenon DEF Recovered, Whole, Changed
<1>. USE DEF Ends, Goes, Client, Server, Excuses
<1>1. ~Publish /\ ~MoveLayers /\ ~MoveConf /\ ~UpdateKilled
  BY DEF Publish, MoveLayers, MoveConf, UpdateKilled
<1>2. ~FetchLayers /\ ~FetchConf /\ ~MoveRest
  BY DEF FetchLayers, FetchConf, MoveRest
<1>3. CASE StartUpdate
  BY <1>3 DEF StartUpdate, SdkInv, RunInv, BehindInv, Whole
<1>4. CASE PrepareBuild
  BY <1>4 DEF PrepareBuild, SdkInv, RunInv, MetInv, BehindInv, Whole
<1> QED
  BY <1>1, <1>2, <1>3, <1>4 DEF SdkNext

(* Versions, files and flags are what the module says.                     *)
LEMMA FetchConfDoes ==
  ASSUME FetchConf
  PROVE  /\ UNCHANGED <<served, servedGit, sdkConf, sdkManifest, sdkLayers, sdkGit, sdkUninative,
                        prepared, met, behind>>
         /\ \/ fetched' = NothingFetched
            \/ \E u \in {Gone, served, Torn} :
                  fetched' = [fetched EXCEPT !.conf = served, !.uninative = u]
<1>1. UNCHANGED <<Server, Client, Excuses>>
  BY Zenon DEF FetchConf
<1>2. \/ fetched' = NothingFetched
      \/ \E u \in {Gone, served, Torn} :
            fetched' = [fetched EXCEPT !.conf = served, !.uninative = u]
  BY Zenon DEF FetchConf, Ends
<1> QED
  BY <1>1, <1>2 DEF Server, Client, Excuses

LEMMA SdkTypeStep == SdkTypeOK /\ [SdkNext]_sdkVars => SdkTypeOK'
<1> SUFFICES ASSUME SdkTypeOK, [SdkNext]_sdkVars PROVE SdkTypeOK'
  OBVIOUS
<1>. DEFINE Old == 0..MaxPublished
             Fetches == [layers : Old, conf : Old, files : SUBSET ConfFiles, uninative : Versions]
<1>0. /\ {served, servedGit} \subseteq 1..MaxPublished
      /\ {sdkLayers, sdkUninative, prepared} \subseteq Versions
      /\ Gone \in Old /\ Torn \in Versions /\ Old \subseteq Versions
      /\ 1..MaxPublished \subseteq Old /\ NothingFetched \in Fetches
      /\ fetched \in Fetches /\ fetched.layers \in Old /\ fetched.conf \in Old
      /\ fetched.files \subseteq ConfFiles /\ fetched.uninative \in Versions
  BY SdkAssumption DEF SdkTypeOK, SdkAssumption, Versions, Gone, Torn, NothingFetched
<1>. HIDE DEF Old
<1>1. {served', servedGit'} \subseteq 1..MaxPublished
  <2>1. CASE Publish
    <3>1. served < MaxPublished => served + 1 \in 1..MaxPublished
      BY <1>0, SdkAssumption DEF SdkAssumption
    <3> QED
      BY <1>0, <2>1, <3>1 DEF Publish
  <2>2. CASE ~Publish
    BY <1>0, <2>2, FetchConfDoes DEF SdkNext, StartUpdate, FetchLayers, MoveLayers, MoveConf,
       MoveRest, PrepareBuild, UpdateKilled, Server, sdkVars
  <2> QED
    BY <2>1, <2>2
<1>2. {sdkLayers', sdkUninative'} \subseteq Versions
  <2>1. CASE MoveLayers
    BY <1>0, <2>1 DEF MoveLayers
  <2>2. CASE MoveRest
    BY <1>0, <2>2 DEF MoveRest
  <2>3. CASE UpdateKilled
    BY <1>0, <2>3 DEF UpdateKilled, Client
  <2>4. CASE ~MoveLayers /\ ~MoveRest /\ ~UpdateKilled
    BY <1>0, <2>4, FetchConfDoes DEF SdkNext, Publish, StartUpdate, FetchLayers, MoveConf,
       PrepareBuild, Client, sdkVars
  <2> QED
    BY <2>1, <2>2, <2>3, <2>4
<1>3. sdkConf' \in [ConfFiles -> Versions]
  <2>1. \/ sdkConf' = sdkConf
        \/ \E f \in ConfFiles, v \in Versions : sdkConf' = [sdkConf EXCEPT ![f] = v]
    <3>1. CASE MoveConf
      BY <1>0, <3>1 DEF MoveConf
    <3>2. CASE UpdateKilled
      BY <1>0, <3>2 DEF UpdateKilled, Client
    <3>3. CASE ~MoveConf /\ ~UpdateKilled
      BY <3>3, FetchConfDoes DEF SdkNext, Publish, StartUpdate, FetchLayers, MoveLayers,
         MoveRest, PrepareBuild, Client, sdkVars
    <3> QED
      BY <3>1, <3>2, <3>3
  <2> QED
    BY <2>1 DEF SdkTypeOK
<1>4. fetched' \in Fetches
  <2>1. \/ fetched' \in {fetched, NothingFetched}
        \/ \E S \in SUBSET ConfFiles : fetched' = [fetched EXCEPT !.files = S]
        \/ \E v \in Old : fetched' = [fetched EXCEPT !.layers = v]
        \/ \E v \in Old, u \in Versions : fetched' = [fetched EXCEPT !.conf = v, !.uninative = u]
    <3>1. CASE StartUpdate
      <4>1. Changed \in SUBSET ConfFiles
        BY DEF Changed
      <4> QED
        BY <3>1, <4>1 DEF StartUpdate, Ends
    <3>2. CASE FetchLayers
      BY <1>0, <3>2 DEF FetchLayers, Ends
    <3>3. CASE FetchConf
      BY <1>0, <3>3, FetchConfDoes
    <3>4. CASE MoveConf
      <4>1. PICK f \in fetched.files : fetched' = [fetched EXCEPT !.files = @ \ {f}]
        BY <3>4 DEF MoveConf
      <4> QED
        BY <1>0, <4>1
    <3>5. CASE Publish \/ MoveLayers \/ MoveRest \/ PrepareBuild \/ UpdateKilled \/ UNCHANGED sdkVars
      BY <3>5 DEF Publish, MoveLayers, MoveRest, PrepareBuild, UpdateKilled, Ends, sdkVars
    <3> QED
      BY <3>1, <3>2, <3>3, <3>4, <3>5 DEF SdkNext
  <2>2. ASSUME NEW S \in SUBSET ConfFiles PROVE [fetched EXCEPT !.files = S] \in Fetches
    BY <1>0
  <2>3. ASSUME NEW v \in Old PROVE [fetched EXCEPT !.layers = v] \in Fetches
    BY <1>0
  <2>4. ASSUME NEW v \in Old, NEW u \in Versions
        PROVE  [fetched EXCEPT !.conf = v, !.uninative = u] \in Fetches
    BY <1>0
  <2>. HIDE DEF Fetches
  <2> QED
    BY <1>0, <2>1, <2>2, <2>3, <2>4
<1>5. sdkManifest' \in BOOLEAN /\ sdkGit' \in BOOLEAN
  <2>1. CASE UpdateKilled
    BY <2>1 DEF UpdateKilled, Client, SdkTypeOK
  <2>2. CASE ~UpdateKilled
    BY <2>2, FetchConfDoes DEF SdkTypeOK, SdkNext, Publish, StartUpdate, FetchLayers, MoveLayers,
       MoveConf, MoveRest, PrepareBuild, Client, sdkVars
  <2> QED
    BY <2>1, <2>2
<1>6. met' \in BOOLEAN /\ behind' \in BOOLEAN
  <2>1. met \in BOOLEAN /\ behind \in BOOLEAN
    BY DEF SdkTypeOK
  <2>2. CASE Publish
    BY <2>1, <2>2 DEF Publish, Excuses
  <2>3. CASE StartUpdate
    BY <2>1, <2>3 DEF StartUpdate
  <2>4. CASE FetchLayers
    BY <2>1, <2>4 DEF FetchLayers
  <2>5. CASE ~Publish /\ ~StartUpdate /\ ~FetchLayers
    BY <2>1, <2>5, FetchConfDoes DEF SdkNext, MoveLayers, MoveConf, MoveRest, PrepareBuild,
       UpdateKilled, Excuses, sdkVars
  <2> QED
    BY <2>2, <2>3, <2>4, <2>5
<1>7. prepared' \in Versions
  BY <1>0, FetchConfDoes DEF SdkNext, Publish, StartUpdate, FetchLayers, MoveLayers, MoveConf,
     MoveRest, PrepareBuild, UpdateKilled, Client, sdkVars
<1> QED
  BY <1>1, <1>2, <1>3, <1>4, <1>5, <1>6, <1>7 DEF SdkTypeOK, Old

LEMMA SdkTypeHolds == SdkSpec => []SdkTypeOK
<1>1. SdkInit => SdkTypeOK
  <2>1. /\ 1 \in 1..MaxPublished /\ {0, 1} \subseteq Versions
        /\ NothingFetched \in [layers : 0..MaxPublished, conf : 0..MaxPublished,
                               files : SUBSET ConfFiles, uninative : Versions]
    BY SdkAssumption DEF SdkAssumption, Versions, Gone, Torn, NothingFetched
  <2> QED
    BY <2>1 DEF SdkInit, SdkTypeOK
<1> QED
  BY <1>1, SdkTypeStep, PTL DEF SdkSpec

(* Whatever was killed or failed before, an sdk-update that says it is     *)
(* done or has nothing to do leaves whole layers, and the layers and files *)
(* of the server but for the excuses named, for any files and any number   *)
(* of runs and versions (sdk.py:148, 158, 199).                            *)
THEOREM SdkRecoversHolds == SdkSpec => SdkRecovers
<1>1. SdkInv /\ [SdkNext]_sdkVars => [Recovered]_sdkVars
  BY RecoverStep
<1> QED
  BY SdkStart, SdkInvStep, <1>1, PTL DEF SdkSpec, SdkRecovers, Recovered

-----------------------------------------------------------------------------
(* combo-layer.                                                            *)
Settled(c) == combined[c] \cup leftOut[c]
Covered(c, r) == Reach[r] \ Merges \subseteq Settled(c)

(* What both revisions in a configuration file stand for is settled, and   *)
(* while an update goes on, what its patches were made up to is settled or *)
(* in the list; so is what the last patch gone through is made on.         *)
SettledInv == \A c \in Components \ passedOver :
                  Covered(c, lastRevision[c]) /\ Covered(c, committed[c])
ComboListInv == \A c \in (todo \cup now) \ passedOver :
               /\ patchlist[c] \subseteq Reach[top[c]]
               /\ Reach[top[c]] \ Merges \subseteq Settled(c) \cup patchlist[c]
ApplyInv == /\ comboStep # "apply" => now = {}
            /\ \A c \in now \ passedOver : Covered(c, prevrev)
            /\ now # {} => prevrev \in DOMAIN Reach
ComboInv == ComboTypeOK /\ SettledInv /\ ComboListInv /\ ApplyInv

LEMMA FirstHead ==
  \A c \in Components : 1 \in DOMAIN Heads[c] /\ Heads[c][1] \in DOMAIN Reach
<1> TAKE c \in Components
<1>1. Heads[c] # <<>> /\ Heads[c] \in Seq(DOMAIN Reach)
  BY ComboAssumption DEF ComboAssumption
<1> QED
  BY <1>1

LEMMA BranchHeadIsCommit ==
  ASSUME ComboTypeOK, NEW c \in Components
  PROVE  BranchHead(c) \in DOMAIN Reach
<1>1. Heads[c] \in Seq(DOMAIN Reach) /\ head[c] \in DOMAIN Heads[c]
  BY ComboAssumption DEF ComboAssumption, ComboTypeOK
<1> QED
  BY <1>1 DEF BranchHead

(* What a commit is made on has been gone through when the commit is the   *)
(* first of the list.                                                      *)
LEMMA FirstCovers ==
  ASSUME ComboInv, NEW c \in now \ passedOver, NEW p \in First(patchlist[c])
  PROVE  Reach[p] \ Merges \subseteq Settled(c) \cup {p}
<1>1. p \in Reach[top[c]] /\ top[c] \in DOMAIN Reach /\ \A q \in patchlist[c] : p <= q
  BY DEF ComboInv, ComboTypeOK, ComboListInv, First
<1>2. p \in DOMAIN Reach /\ p \in Nat /\ Reach[p] \subseteq Reach[top[c]]
  BY <1>1, ComboAssumption DEF ComboAssumption
<1>3. ASSUME NEW q \in Reach[p] \ Merges PROVE q \in Settled(c) \cup {p}
  <2>1. q \in Nat /\ q <= p
    BY <1>2, <1>3, ComboAssumption DEF ComboAssumption
  <2>2. q \in Settled(c) \/ q \in patchlist[c]
    BY <1>2, <1>3 DEF ComboInv, ComboListInv
  <2> QED
    BY <1>1, <1>2, <2>1, <2>2
<1> QED
  BY <1>3

LEMMA ComboBegins == ComboInit => ComboInv
<1> SUFFICES ASSUME ComboInit PROVE ComboInv
  OBVIOUS
<1>2. \A r \in DOMAIN Reach : Reach[r] \subseteq DOMAIN Reach
  BY ComboAssumption DEF ComboAssumption
<1>3. ComboTypeOK
  BY FirstHead, <1>2 DEF ComboInit, ComboTypeOK, NoPatches
<1>4. SettledInv
  BY DEF ComboInit, SettledInv, Covered, Settled, NoPatches
<1>5. ComboListInv /\ ApplyInv
  BY DEF ComboInit, ComboListInv, ApplyInv
<1> QED
  BY <1>3, <1>4, <1>5 DEF ComboInv

LEMMA ComboTypeStep == ComboInv /\ [ComboNext]_comboVars => ComboTypeOK'
<1> SUFFICES ASSUME ComboInv, [ComboNext]_comboVars PROVE ComboTypeOK'
  OBVIOUS
<1>. USE DEF ComboTypeOK, ComboInv
<1>1. \A c \in Components : /\ 1 \in DOMAIN Heads[c] /\ Heads[c][1] \in DOMAIN Reach
                            /\ BranchHead(c) \in DOMAIN Reach
  BY FirstHead, BranchHeadIsCommit
<1>2. CASE UNCHANGED comboVars
  BY <1>2 DEF comboVars
<1>3. CASE StartCombo
  BY <1>3, <1>1, ComboAssumption DEF StartCombo, PatchesOf, ComboAssumption
<1>4. CASE EditPatchlist
  BY <1>4 DEF EditPatchlist
<1>5. CASE NextComponent \/ MakeClean
  <2>1. CASE NextComponent
    BY <2>1 DEF NextComponent
  <2>2. CASE MakeClean
    BY <2>2 DEF MakeClean
  <2> QED
    BY <1>5, <2>1, <2>2
<1>6. CASE CommitConf \/ ComboKilled
  <2>1. CASE CommitConf
    BY <2>1, <1>1 DEF CommitConf, Exit, NoPatches
  <2>2. CASE ComboKilled
    BY <2>2, <1>1 DEF ComboKilled, Exit, NoPatches
  <2> QED
    BY <1>6, <2>1, <2>2
<1>7. ASSUME NEW c \in Components, Pull(c) PROVE ComboTypeOK'
  <2>1. Heads[c] \in Seq(DOMAIN Reach) /\ head[c] \in Nat \ {0}
    BY ComboAssumption DEF ComboAssumption
  <2>2. head[c] + 1 \in DOMAIN Heads[c] /\ head[c] + 1 \in Nat \ {0}
    BY <1>7, <2>1 DEF Pull
  <2> QED
    BY <1>7, <2>2 DEF Pull
<1>8. ASSUME NEW c \in Components, ApplyPatch(c) PROVE ComboTypeOK'
  <2>1. prevrev \in DOMAIN Reach
    BY <1>8 DEF ApplyPatch, ApplyInv
  <2>2. PICK p \in First(patchlist[c]) :
           \/ /\ prevrev' = p /\ patchlist' = [patchlist EXCEPT ![c] = @ \ {p}]
              /\ \/ combined' = [combined EXCEPT ![c] = @ \cup {p}] /\ UNCHANGED leftOut
                 \/ leftOut' = [leftOut EXCEPT ![c] = @ \cup {p}] /\ UNCHANGED combined
              /\ UNCHANGED <<lastRevision, comboStep, top, todo, now>>
           \/ /\ lastRevision' = [lastRevision EXCEPT ![c] = prevrev] /\ Exit
              /\ UNCHANGED <<combined, leftOut>>
    BY <1>8 DEF ApplyPatch
  <2>3. UNCHANGED <<head, committed, passedOver>> /\ p \in DOMAIN Reach
    BY <1>8, <2>2 DEF ApplyPatch, First
  <2>4. CASE /\ patchlist' = [patchlist EXCEPT ![c] = @ \ {p}]
             /\ \/ combined' = [combined EXCEPT ![c] = @ \cup {p}] /\ UNCHANGED leftOut
                \/ leftOut' = [leftOut EXCEPT ![c] = @ \cup {p}] /\ UNCHANGED combined
             /\ UNCHANGED <<lastRevision, comboStep, top, todo, now>>
    BY <2>3, <2>4
  <2>5. CASE /\ lastRevision' = [lastRevision EXCEPT ![c] = prevrev] /\ Exit
             /\ UNCHANGED <<combined, leftOut>>
    BY <1>1, <2>1, <2>3, <2>5 DEF Exit, NoPatches
  <2> QED
    BY <2>2, <2>4, <2>5
<1>9. ASSUME NEW c \in Components, SaveRevision(c) PROVE ComboTypeOK'
  <2>1. prevrev \in DOMAIN Reach
    BY <1>9 DEF SaveRevision, ApplyInv
  <2>2. PICK r \in DOMAIN Reach : lastRevision' = [lastRevision EXCEPT ![c] = r]
    BY <1>9, <1>1, <2>1 DEF SaveRevision
  <2>3. /\ passedOver' \subseteq Components /\ now' = {}
        /\ UNCHANGED <<head, committed, combined, leftOut, top, patchlist, todo>>
    BY <1>9 DEF SaveRevision
  <2> QED
    BY <2>2, <2>3
<1> QED
  BY <1>2, <1>3, <1>4, <1>5, <1>6, <1>7, <1>8, <1>9 DEF ComboNext

LEMMA ComboStep == ComboInv /\ [ComboNext]_comboVars => ComboInv'
<1> SUFFICES ASSUME ComboInv, [ComboNext]_comboVars PROVE SettledInv' /\ ComboListInv' /\ ApplyInv'
  BY ComboTypeStep DEF ComboInv
<1>. USE DEF ComboInv, ComboTypeOK, SettledInv, ComboListInv, ApplyInv, Covered, Settled
<1>1. CASE UNCHANGED comboVars
  BY <1>1 DEF comboVars
<1>2. CASE StartCombo
  <2>1. SettledInv' /\ ApplyInv' /\ now' = {}
    BY <1>2 DEF StartCombo
  <2>2. ASSUME NEW c \in (todo' \cup now') \ passedOver'
        PROVE  /\ patchlist'[c] \subseteq Reach[top'[c]]
               /\ Reach[top'[c]] \ Merges \subseteq Settled(c)' \cup patchlist'[c]
    BY <1>2, <2>1, <2>2 DEF StartCombo, PatchesOf
  <2> QED
    BY <2>1, <2>2
<1>3. CASE EditPatchlist
  <2>1. SettledInv' /\ ApplyInv'
    BY <1>3 DEF EditPatchlist
  <2>2. ComboListInv'
    BY <1>3 DEF EditPatchlist
  <2> QED
    BY <2>1, <2>2
<1>4. CASE NextComponent
  BY <1>4 DEF NextComponent
<1>5. CASE MakeClean \/ CommitConf \/ ComboKilled
  BY <1>5 DEF MakeClean, CommitConf, ComboKilled, Exit
<1>6. ASSUME NEW c \in Components, Pull(c) PROVE SettledInv' /\ ComboListInv' /\ ApplyInv'
  BY <1>6 DEF Pull
<1>7. ASSUME NEW c \in Components, ApplyPatch(c) PROVE SettledInv' /\ ComboListInv' /\ ApplyInv'
  <2>1. PICK p \in First(patchlist[c]) :
           \/ /\ prevrev' = p /\ patchlist' = [patchlist EXCEPT ![c] = @ \ {p}]
              /\ \/ combined' = [combined EXCEPT ![c] = @ \cup {p}] /\ UNCHANGED leftOut
                 \/ leftOut' = [leftOut EXCEPT ![c] = @ \cup {p}] /\ UNCHANGED combined
              /\ UNCHANGED <<lastRevision, comboStep, top, todo, now>>
           \/ /\ lastRevision' = [lastRevision EXCEPT ![c] = prevrev] /\ Exit
              /\ UNCHANGED <<combined, leftOut>>
    BY <1>7 DEF ApplyPatch
  <2>2. now = {c} /\ comboStep = "apply" /\ UNCHANGED <<committed, passedOver>>
    BY <1>7 DEF ApplyPatch
  <2>3. ASSUME prevrev' = p, patchlist' = [patchlist EXCEPT ![c] = @ \ {p}],
               \/ combined' = [combined EXCEPT ![c] = @ \cup {p}] /\ UNCHANGED leftOut
               \/ leftOut' = [leftOut EXCEPT ![c] = @ \cup {p}] /\ UNCHANGED combined,
               UNCHANGED <<lastRevision, comboStep, top, todo, now>>
        PROVE  SettledInv' /\ ComboListInv' /\ ApplyInv'
    <3>1. p \in patchlist[c] /\ p \in DOMAIN Reach /\ c \in now
      BY <2>2 DEF First
    <3>2. c \notin passedOver => Reach[p] \ Merges \subseteq Settled(c) \cup {p}
      BY <3>1, FirstCovers
    <3>3. /\ Settled(c)' = Settled(c) \cup {p}
          /\ \A d \in Components : Settled(d) \subseteq Settled(d)'
          /\ \A d \in Components : Settled(d) \cup patchlist[d]
                                     \subseteq Settled(d)' \cup patchlist'[d]
      BY <2>3
    <3>4. SettledInv'
      BY <2>2, <2>3, <3>3
    <3>5. ComboListInv'
      BY <2>2, <2>3, <3>3
    <3>6. ApplyInv'
      BY <2>2, <2>3, <3>1, <3>2, <3>3
    <3> QED
      BY <3>4, <3>5, <3>6
  <2>4. CASE Exit
    BY <2>1, <2>2, <2>4 DEF Exit
  <2> QED
    BY <2>1, <2>3, <2>4
<1>8. ASSUME NEW c \in Components, SaveRevision(c) PROVE SettledInv' /\ ComboListInv' /\ ApplyInv'
  BY <1>8 DEF SaveRevision
<1> QED
  BY <1>1, <1>2, <1>3, <1>4, <1>5, <1>6, <1>7, <1>8 DEF ComboNext

(* A commit that last_revision stands for is never lost by an update that  *)
(* stops at any point, for any history, any merges and any number of       *)
(* components (combo-layer:824-854).                                       *)
THEOREM NoCommitLostHolds == ComboSpec => []NoCommitLost
<1>1. ComboInv => NoCommitLost
  BY DEF ComboInv, SettledInv, Covered, Settled, NoCommitLost
<1> QED
  BY ComboBegins, ComboStep, <1>1, PTL DEF ComboSpec

-----------------------------------------------------------------------------
(***************************************************************************)
(* A qemu that was not asked and is not alone belongs to the runqemu that  *)
(* runs; a monitor has a runqemu to guard; and origchldhandler is          *)
(* handleSIGCHLD only after a start on a runner that was not stopped.      *)
(***************************************************************************)
Served == {k \in {starts} : runqemu = "running"}
AtRest == main \in {"idle", "exited", "waiting"} \/ (main = "relaunch" /\ runqemu = "none")
StopInv ==
    /\ QemuTypeOK /\ StoppedMeansGone
    /\ qemus \subseteq asked \cup orphans \cup Served
    /\ runqemu = "none" => ~guarding
    /\ main = "waiting" => (~guarding /\ ~Alive /\ after # "kept")
    /\ main \in {"idle", "relaunch"} => runqemu # "running"
    /\ runqemu # "none" => starts \in 1..starts
    /\ main = "popened" => runqemu # "none"
    /\ saved => unstopped
    /\ AtRest => (handler => unstopped)

LEMMA StopInit == QemuInit => StopInv
<1> SUFFICES ASSUME QemuInit PROVE StopInv
  OBVIOUS
<1>1. QemuTypeOK
  <2>1. qemus \subseteq 1..starts /\ asked \subseteq 1..starts /\ orphans \subseteq 1..starts
    BY DEF QemuInit
  <2> QED
    BY <2>1 DEF QemuInit, QemuTypeOK
<1> QED
  BY <1>1 DEF QemuInit, StopInv, StoppedMeansGone, Alive, Served, AtRest

(* The numbers and groups of QemuTypeOK, and the rest of it.               *)
QemuGroupsOK ==
    /\ starts \in Nat /\ monitor \in Nat
    /\ qemus \subseteq 1..starts /\ asked \subseteq 1..starts /\ orphans \subseteq 1..starts
QemuPlacesOK ==
    /\ main \in {"idle", "popened", "awaiting", "threading", "booting", "up", "joining",
                 "waiting", "relaunch", "exited", "dead"}
    /\ after \in {"idle", "relaunch", "exited", "up", "kept"}
    /\ runqemu \in {"none", "running", "ended", "failed"}
    /\ logger \in {"none", "starting", "looping", "ended"}
    /\ restarting \in BOOLEAN /\ handler \in BOOLEAN /\ saved \in BOOLEAN
    /\ told \in BOOLEAN /\ connected \in BOOLEAN /\ guarding \in BOOLEAN
    /\ unstopped \in BOOLEAN

LEMMA QemuPlacesStep ==
    ASSUME QemuPlacesOK, [QemuNext]_qemuVars, main = "waiting" => after # "kept"
    PROVE  QemuPlacesOK'
<1>. USE DEF QemuPlacesOK, handlerVars, groupVars, threadVars, monitorVars
<1>1. CASE UNCHANGED qemuVars
  BY <1>1 DEF qemuVars
<1>2. CASE Launch
  BY <1>2 DEF Launch
<1>3. CASE NoSocket \/ ForkMonitor
  BY <1>3 DEF NoSocket, ForkMonitor, StopThread
<1>4. CASE AwaitPid \/ AwaitConsole \/ AwaitLogin
  BY <1>4 DEF AwaitPid, AwaitConsole, AwaitLogin, StopThread, Failed
<1>5. CASE TargetStop \/ TargetRestart \/ HandleSIGCHLD
  BY <1>5 DEF TargetStop, TargetRestart, HandleSIGCHLD, StopThread
<1>6. CASE StopTerminate
  BY <1>6 DEF StopTerminate
<1>7. CASE StopWait \/ ThreadJoined
  BY <1>7 DEF StopWait, ThreadJoined
<1>8. CASE LoggingThread
  BY <1>8 DEF LoggingThread, LoggerLoops, LoggerAccepts, LoggerEnds, ThreadOnly
<1>9. CASE Group
  BY <1>9 DEF Group, QemuComes, QemuGoes, RunqemuDies, QemuQuits, GroupOnly
<1>10. CASE TestsKilled \/ MonitorFires
  BY <1>10 DEF TestsKilled, MonitorFires
<1> QED
  BY <1>1, <1>2, <1>3, <1>4, <1>5, <1>6, <1>7, <1>8, <1>9, <1>10 DEF QemuNext, MainThread

LEMMA QemuGroupsStep ==
    ASSUME QemuGroupsOK, [QemuNext]_qemuVars, runqemu # "none" => starts \in 1..starts
    PROVE  QemuGroupsOK'
<1>. USE DEF QemuGroupsOK, handlerVars, groupVars, threadVars, monitorVars
<1>1. CASE UNCHANGED qemuVars
  BY <1>1 DEF qemuVars
<1>2. CASE Launch
  BY <1>2 DEF Launch
<1>3. CASE NoSocket \/ ForkMonitor
  BY <1>3 DEF NoSocket, ForkMonitor, StopThread
<1>4. CASE AwaitPid \/ AwaitConsole \/ AwaitLogin
  BY <1>4 DEF AwaitPid, AwaitConsole, AwaitLogin, StopThread, Failed
<1>5. CASE TargetStop \/ TargetRestart \/ HandleSIGCHLD
  BY <1>5 DEF TargetStop, TargetRestart, HandleSIGCHLD, StopThread
<1>6. CASE StopTerminate
  BY <1>6 DEF StopTerminate
<1>7. CASE StopWait \/ ThreadJoined
  BY <1>7 DEF StopWait, ThreadJoined
<1>8. CASE LoggingThread
  BY <1>8 DEF LoggingThread, LoggerLoops, LoggerAccepts, LoggerEnds, ThreadOnly
<1>9. CASE Group
  BY <1>9 DEF Group, QemuComes, QemuGoes, RunqemuDies, QemuQuits, GroupOnly
<1>10. CASE TestsKilled \/ MonitorFires
  BY <1>10 DEF TestsKilled, MonitorFires
<1> QED
  BY <1>1, <1>2, <1>3, <1>4, <1>5, <1>6, <1>7, <1>8, <1>9, <1>10 DEF QemuNext, MainThread

LEMMA StopStep == StopInv /\ [QemuNext]_qemuVars => StopInv'
<1> SUFFICES ASSUME StopInv, [QemuNext]_qemuVars PROVE StopInv'
  OBVIOUS
<1>0. QemuTypeOK'
  <2>1. QemuTypeOK <=> (QemuPlacesOK /\ QemuGroupsOK)
    BY DEF QemuTypeOK, QemuPlacesOK, QemuGroupsOK
  <2>2. QemuTypeOK' <=> (QemuPlacesOK' /\ QemuGroupsOK')
    BY DEF QemuTypeOK, QemuPlacesOK, QemuGroupsOK
  <2> QED
    BY <2>1, <2>2, QemuPlacesStep, QemuGroupsStep DEF StopInv
<1>. USE <1>0 DEF StopInv, StoppedMeansGone, Alive, Served, AtRest, handlerVars,
         groupVars, threadVars, monitorVars
<1>1. CASE UNCHANGED qemuVars
  BY <1>1 DEF qemuVars
<1>2. CASE Launch
  <2>1. starts' \in 1..starts'
    BY <1>2 DEF Launch, QemuTypeOK
  <2>2. runqemu # "running" /\ saved' = handler
    BY <1>2 DEF Launch
  <2>3. qemus' \subseteq asked' \cup orphans' \cup Served'
    BY <1>2, <2>2 DEF Launch
  <2>4. handler => unstopped'
    BY <1>2 DEF Launch
  <2> QED
    BY <1>2, <2>1, <2>2, <2>3, <2>4 DEF Launch
<1>3. CASE NoSocket \/ ForkMonitor
  <2>1. CASE NoSocket
    BY <1>3, <2>1 DEF NoSocket, StopThread
  <2>2. CASE ForkMonitor
    BY <1>3, <2>2 DEF ForkMonitor
  <2> QED
    BY <1>3, <2>1, <2>2
<1>4. CASE AwaitPid \/ AwaitConsole \/ AwaitLogin
  BY <1>4 DEF AwaitPid, AwaitConsole, AwaitLogin, StopThread, Failed
<1>5. CASE TargetStop \/ TargetRestart \/ HandleSIGCHLD
  BY <1>5 DEF TargetStop, TargetRestart, HandleSIGCHLD, StopThread
<1>0a. after \in {"idle", "relaunch", "exited", "up", "kept"}
  BY DEF QemuTypeOK
<1>6. CASE StopTerminate
  BY <1>0a, <1>6 DEF StopTerminate
<1>7. CASE StopWait \/ ThreadJoined
  BY <1>0a, <1>7 DEF StopWait, ThreadJoined
<1>8. CASE LoggingThread
  BY <1>8 DEF LoggingThread, LoggerLoops, LoggerAccepts, LoggerEnds, ThreadOnly
<1>9. CASE Group
  BY <1>9 DEF Group, QemuComes, QemuGoes, RunqemuDies, QemuQuits, GroupOnly
<1>10. CASE TestsKilled \/ MonitorFires
  BY <1>10 DEF TestsKilled, MonitorFires
<1> QED
  BY <1>1, <1>2, <1>3, <1>4, <1>5, <1>6, <1>7, <1>8, <1>9, <1>10 DEF QemuNext, MainThread

(* However often the target is started and restarted, and wherever runqemu *)
(* fails or dies, a stopped runner leaves no runqemu, thread or monitor, a *)
(* qemu only when it was asked to end or outlived its runqemu, and its     *)
(* handler only after a start without a stop (qemurunner.py:135, 296).     *)
THEOREM StoppedMeansGoneHolds == QemuSpec => []StoppedMeansGone
<1>1. StopInv => StoppedMeansGone
  BY DEF StopInv
<1> QED
  BY StopInit, StopStep, <1>1, PTL DEF QemuSpec

-----------------------------------------------------------------------------
(* What is written is read or in the pipe.                                 *)
Counts == inPipe \in Nat /\ written \in Nat /\ got \in Nat /\ written = got + inPipe

(* Where the caller and the thread are tells whether the output is at its  *)
(* end and whether the process has been waited for.                        *)
Drained == inPipe = 0 /\ writers = {}
PipeInv ==
    /\ writers \subseteq {"child", "daemon"}
    /\ "child" \in writers => child = "running"
    /\ commThread \in {"wait", "ended"} => Drained
    /\ commThread = "ended" => child = "reaped"
CallerInv ==
    /\ cmdMain = "idle" => child = "none" /\ commThread = "none"
    /\ runner = "command" => cmdMain \in {"idle", "join", "join 5", "join last", "done", "raised"}
    /\ runner = "ssh" => /\ commThread = "none"
                         /\ cmdMain \notin {"join", "join 5", "join last"}
    /\ cmdMain = "wait" => cmdKilled \/ Drained
    /\ runner \in {"command", "ssh"}
CommandInv == Counts /\ PipeInv /\ CallerInv /\ NothingLeft

LEMMA CommandInit == CmdInit => CommandInv
<1>1. CmdInit => Counts
  BY DEF CmdInit, Counts
<1>2. CmdInit => PipeInv /\ CallerInv /\ NothingLeft
  BY DEF CmdInit, PipeInv, CallerInv, NothingLeft, Drained
<1> QED
  BY <1>1, <1>2 DEF CommandInv

LEMMA CountsStep == Counts /\ [CmdNext]_cmdVars => Counts'
<1> SUFFICES ASSUME Counts, [CmdNext]_cmdVars PROVE Counts'
  OBVIOUS
<1>1. CASE UNCHANGED Pipe
  BY <1>1 DEF Counts, Pipe
<1>2. CASE Writes
  <2>1. inPipe' = inPipe + 1 /\ written' = written + 1 /\ got' = got
    BY <1>2 DEF Writes
  <2> QED
    BY <2>1 DEF Counts
<1>3. CASE CommThread /\ ~UNCHANGED Pipe
  <2>1. inPipe' = 0 /\ written' = written /\ got' = got + inPipe
    BY <1>3 DEF CommThread, Pipe
  <2> QED
    BY <2>1 DEF Counts
<1>4. CASE SshReads /\ ~UNCHANGED Pipe
  <2>1. inPipe > 0 /\ inPipe' = inPipe - 1 /\ written' = written /\ got' = got + 1
    BY <1>4 DEF SshReads, Pipe
  <2> QED
    BY <2>1 DEF Counts
<1> QED
  BY <1>1, <1>2, <1>3, <1>4
     DEF cmdVars, CmdNext, CallerThread, LeavesDaemon, Exits, Closes, StartCmd, JoinReturns,
         JoinTimesOut, SshTimesOut, SshWaits, Raise, Pipe

LEMMA CommandStep == CommandInv /\ [CmdNext]_cmdVars => CommandInv'
<1> SUFFICES ASSUME CommandInv, [CmdNext]_cmdVars PROVE (PipeInv /\ CallerInv /\ NothingLeft)'
  BY CountsStep DEF CommandInv
<1>. USE DEF CommandInv, PipeInv, CallerInv, NothingLeft, Drained, Pipe
<1>1. CASE UNCHANGED cmdVars
  BY <1>1 DEF cmdVars
<1>2. CASE Writes
  BY <1>2 DEF Writes
<1>3. CASE LeavesDaemon
  BY <1>3 DEF LeavesDaemon
<1>4. CASE Exits \/ \E w \in {"child", "daemon"} : Closes(w)
  BY <1>4 DEF Exits, Closes
<1>5. CASE StartCmd
  BY <1>5 DEF StartCmd
<1>6. CASE CommThread
  BY <1>6 DEF CommThread, Reap
<1>7. CASE JoinReturns
  BY <1>7 DEF JoinReturns
<1>8. CASE JoinTimesOut
  BY <1>8 DEF JoinTimesOut, Terminate, KillCmd
<1>9. CASE SshReads
  BY <1>9 DEF SshReads
<1>10. CASE SshTimesOut
  BY <1>10 DEF SshTimesOut, Terminate, KillCmd
<1>11. CASE SshWaits
  BY <1>11 DEF SshWaits, Reap
<1>12. CASE Raise
  BY <1>12 DEF Raise, KillCmd, Reap
<1> QED
  BY <1>1, <1>2, <1>3, <1>4, <1>5, <1>6, <1>7, <1>8, <1>9, <1>10, <1>11, <1>12
     DEF CmdNext, CallerThread

(* Each thread is somewhere, and what was written is read or in the pipe.  *)
LEMMA CmdTypeHolds == CmdInit /\ [][CmdNext]_cmdVars => []CmdTypeOK
<1>. DEFINE Places == /\ cmdMain \in {"idle", "join", "join 5", "join last", "read", "terminated",
                                      "wait", "raising", "done", "raised"}
                      /\ commThread \in {"none", "read", "wait", "ended"}
                      /\ child \in {"none", "running", "zombie", "reaped"}
<1>1. CmdInit => Places
  BY DEF CmdInit
<1>2. ASSUME Places, [CmdNext]_cmdVars PROVE Places'
  <2>1. UNCHANGED cmdMain \/ cmdMain' \in {"join", "join 5", "join last", "read", "terminated",
                                           "wait", "raising", "done", "raised"}
    BY <1>2, Zenon DEF CmdNext, CallerThread, Writes, LeavesDaemon, Exits, Closes, StartCmd,
       CommThread, JoinReturns, JoinTimesOut, SshReads, SshTimesOut, SshWaits, Raise, cmdVars
  <2>2. UNCHANGED commThread \/ commThread' \in {"read", "wait", "ended"}
    BY <1>2, Zenon DEF CmdNext, CallerThread, Writes, LeavesDaemon, Exits, Closes, StartCmd,
       CommThread, JoinReturns, JoinTimesOut, SshReads, SshTimesOut, SshWaits, Raise, cmdVars
  <2>3. UNCHANGED child \/ child' \in {"running", "zombie", "reaped"}
    BY <1>2, Zenon DEF CmdNext, CallerThread, Writes, LeavesDaemon, Exits, Closes, StartCmd,
       CommThread, JoinReturns, JoinTimesOut, SshReads, SshTimesOut, SshWaits, Raise, Terminate,
       KillCmd, Reap, cmdVars
  <2> QED
    BY <1>2, <2>1, <2>2, <2>3, Zenon
<1>3. CommandInv /\ Places => CmdTypeOK
  BY Zenon DEF CommandInv, Counts, PipeInv, CmdTypeOK
<1>. HIDE DEF Places
<1> QED
  BY <1>1, <1>2, <1>3, CommandInit, CommandStep, PTL DEF CmdSpec

(* Whatever the command writes, closes, ignores or leaves behind, and at   *)
(* whatever step a timeout comes: a call that returns leaves no process    *)
(* and no output unread unless it says so (commands.py:68-85,              *)
(* sshcontrol.py:66-96).                                                   *)
THEOREM NothingLeftHolds == CmdSpec => []NothingLeft
<1>1. CommandInv => NothingLeft
  BY DEF CommandInv
<1> QED
  BY CommandInit, CommandStep, <1>1, PTL DEF CmdSpec

-----------------------------------------------------------------------------
(* Who uses a device, or is done with it and has its lock still.           *)
Using == {p \in Runqemus : step[p] \in {"qemu", "release"}}

(* Each process is where its device and its lock file tell.                *)
PlaceInv ==
    /\ \A p \in Runqemus : step[p] \in {"flock", "flock created"} => descriptor[p] # None
    /\ \A p \in Runqemus : step[p] \notin {"idle", "try"} => tap[p] \in Taps
    /\ \A p \in cleantap : tap[p] \notin Bank /\ step[p] \in {"created", "flock created", "qemu"}

(* Who uses a device with a lock file open has locked it, and alone.       *)
FlockInv ==
    \A p \in Using : descriptor[p] # None =>
        descriptor[p] \in flock /\ \A q \in Using : p # q => descriptor[p] # descriptor[q]

(* On a device that was not taken through a window the file he has open is *)
(* the one with the name of his lock, nobody is about to take that name    *)
(* away, and no QEMU was left behind.                                      *)
NameInv ==
    \A p \in Using : tap[p] \notin raced =>
        /\ descriptor[p] # None /\ descriptor[p] = lockfile[tap[p]]
        /\ tap[p] \notin survivors
        /\ \A q \in Runqemus : step[q] = "unlocked" => tap[q] # tap[p]

TapInv == TapTypeOK /\ PlaceInv /\ FlockInv /\ NameInv

LEMMA TapStart == TapInit => TapInv
  BY TapAssumption DEF TapInit, TapInv, TapTypeOK, PlaceInv, FlockInv, NameInv, Using, None

LEMMA TapStep == TapInv /\ [TapNext]_tapVars => TapInv'
<1> SUFFICES ASSUME TapInv, [TapNext]_tapVars PROVE TapInv'
  OBVIOUS
<1>. USE DEF Become, None
<1>. TapTypeOK /\ PlaceInv /\ FlockInv /\ NameInv
  BY DEF TapInv
<1>1. CASE UNCHANGED tapVars
  BY <1>1 DEF tapVars, TapInv, TapTypeOK, PlaceInv, FlockInv, NameInv, Using
<1>2. ASSUME NEW p \in Runqemus, ListTaps(p) PROVE TapInv'
  <2>0. /\ step[p] = "idle" /\ step' = [step EXCEPT ![p] = "try"]
        /\ possibles' = [possibles EXCEPT ![p] = devices]
        /\ UNCHANGED <<devices, lockfile, lockFiles, flock, tap, descriptor, cleantap, survivors, raced>>
    BY <1>2 DEF ListTaps
  <2>1. TapTypeOK'
    BY <2>0 DEF TapTypeOK
  <2>2. PlaceInv'
    BY <2>0 DEF TapTypeOK, PlaceInv
  <2>3. Using' = Using
    BY <2>0 DEF TapTypeOK, Using
  <2>4. FlockInv' /\ NameInv'
    <3>1. \A q \in Runqemus : step'[q] = "unlocked" => step[q] = "unlocked"
      BY <2>0 DEF TapTypeOK
    <3> QED
      BY <2>0, <2>3, <3>1 DEF FlockInv, NameInv
  <2> QED
    BY <2>1, <2>2, <2>4 DEF TapInv
<1>3. ASSUME NEW p \in Runqemus, OpenLock(p) PROVE TapInv'
  <2>. DEFINE s == IF step[p] = "try" THEN "flock" ELSE "flock created"
              t == tap'[p]
  <2>1. step[p] = "try" /\ possibles[p] # {} => Min(possibles[p]) \in Taps
    <3>1. possibles[p] \subseteq Taps /\ possibles[p] \in SUBSET Nat
      BY TapAssumption DEF TapTypeOK
    <3> QED
      BY <3>1, LeastIsLess
  <2>2. /\ step[p] \in {"try", "created"} /\ step' = [step EXCEPT ![p] = s]
        /\ t \in Taps /\ tap' = [tap EXCEPT ![p] = t]
    <3>1. CASE step[p] = "try"
      BY <1>3, <2>1, <3>1 DEF OpenLock, TapTypeOK
    <3>2. CASE step[p] = "created"
      <4>1. tap' = tap /\ tap[p] \in Taps
        BY <1>3, <3>2 DEF OpenLock, PlaceInv
      <4> QED
        BY <1>3, <3>2, <4>1 DEF OpenLock, TapTypeOK
    <3> QED
      BY <1>3, <3>1, <3>2 DEF OpenLock
  <2>3. /\ lockfile' \in [Taps -> Nat] /\ lockFiles' \in Nat /\ lockfile'[t] # None
        /\ \A u \in Taps : lockfile[u] # None => lockfile'[u] = lockfile[u]
    <3>1. CASE lockfile[t] = None
      <4>1. lockfile' = [lockfile EXCEPT ![t] = lockFiles + 1] /\ lockFiles' = lockFiles + 1
        BY <1>3, <3>1 DEF OpenLock
      <4>2. lockFiles + 1 \in Nat /\ lockFiles + 1 # None
        <5>1. lockFiles \in Nat
          BY DEF TapTypeOK
        <5> QED
          BY <5>1, SMT
      <4> QED
        BY <2>2, <3>1, <4>1, <4>2 DEF TapTypeOK
    <3>2. CASE lockfile[t] # None
      <4>1. lockfile' = lockfile /\ lockFiles' = lockFiles
        BY <1>3, <3>2 DEF OpenLock
      <4> QED
        BY <2>2, <3>2, <4>1 DEF TapTypeOK
    <3> QED
      BY <3>1, <3>2
  <2>4. descriptor' = [descriptor EXCEPT ![p] = lockfile'[t]]
    BY <1>3 DEF OpenLock
  <2>5. UNCHANGED <<devices, nosudo, flock, possibles, cleantap, survivors, raced, tapStarts>>
    BY <1>3 DEF OpenLock
  <2>6. TapTypeOK'
    BY <2>2, <2>3, <2>4, <2>5 DEF TapTypeOK
  <2>7. PlaceInv'
    <3>1. \A q \in cleantap : q = p => step[p] = "created" /\ t = tap[p]
      BY <1>3, <2>2 DEF OpenLock, PlaceInv, TapTypeOK
    <3> QED
      BY <2>2, <2>3, <2>4, <2>5, <3>1 DEF PlaceInv, TapTypeOK
  <2>8. p \notin Using' /\ Using' = Using
    BY <2>2 DEF Using, TapTypeOK
  <2>9. FlockInv'
    BY <2>4, <2>5, <2>8 DEF FlockInv, TapTypeOK, Using
  <2>10. NameInv'
    <3> SUFFICES ASSUME NEW q \in Using, tap'[q] \notin raced
                 PROVE  /\ descriptor'[q] # None /\ descriptor'[q] = lockfile'[tap'[q]]
                        /\ tap'[q] \notin survivors
                        /\ \A r \in Runqemus : step'[r] = "unlocked" => tap'[r] # tap'[q]
      BY <2>5, <2>8 DEF NameInv
    <3>1. q # p /\ q \in Runqemus /\ tap[q] \in Taps
      BY <2>8 DEF Using, PlaceInv
    <3>3. descriptor'[q] = descriptor[q] /\ tap'[q] = tap[q]
      BY <2>2, <2>4, <3>1 DEF TapTypeOK
    <3>2. /\ descriptor[q] # None /\ descriptor[q] = lockfile[tap[q]]
          /\ tap[q] \notin survivors
      BY <3>3 DEF NameInv
    <3>4. ASSUME NEW r \in Runqemus, step'[r] = "unlocked" PROVE tap'[r] # tap'[q]
      <4>1. r # p
        BY <2>2, <3>4 DEF TapTypeOK
      <4>2. step[r] = "unlocked" /\ tap'[r] = tap[r]
        BY <2>2, <3>4, <4>1 DEF TapTypeOK
      <4> QED
        BY <3>3, <4>2 DEF NameInv
    <3> QED
      BY <2>3, <3>1, <3>2, <3>3, <3>4
  <2> QED
    BY <2>6, <2>7, <2>9, <2>10 DEF TapInv
<1>4. ASSUME NEW p \in Runqemus, Flock(p) PROVE TapInv'
  <2>0. /\ step[p] \in {"flock", "flock created"} /\ descriptor[p] # None /\ tap[p] \in Taps
        /\ UNCHANGED <<devices, nosudo, lockfile, lockFiles, cleantap, survivors, tapStarts>>
    BY <1>4 DEF Flock, PlaceInv
  <2>1. CASE descriptor[p] \notin flock
    <3>0. /\ flock' = flock \cup {descriptor[p]} /\ step' = [step EXCEPT ![p] = "qemu"]
          /\ raced' = Marked(p) /\ possibles' = [possibles EXCEPT ![p] = {}]
          /\ UNCHANGED <<descriptor, tap>>
      BY <1>4, <2>1 DEF Flock
    <3>1. TapTypeOK'
      BY <2>0, <3>0 DEF Marked, TapTypeOK
    <3>2. PlaceInv'
      BY <2>0, <3>0 DEF TapTypeOK, PlaceInv
    <3>3. FlockInv'
      BY <2>0, <2>1, <3>0 DEF TapTypeOK, FlockInv, Using
    <3>4. NameInv'
      BY <2>0, <2>1, <3>0 DEF Marked, Doomed, TapTypeOK, NameInv, Using
    <3> QED
      BY <3>1, <3>2, <3>3, <3>4 DEF TapInv
  <2>2. CASE descriptor[p] \in flock /\ step[p] = "flock"
    <3>0. /\ descriptor' = [descriptor EXCEPT ![p] = None] /\ step' = [step EXCEPT ![p] = "try"]
          /\ tap' = [tap EXCEPT ![p] = None] /\ possibles' = [possibles EXCEPT ![p] = @ \ {tap[p]}]
          /\ UNCHANGED <<flock, raced>>
      BY <1>4, <2>2 DEF Flock
    <3>1. TapTypeOK'
      BY <2>0, <3>0 DEF TapTypeOK
    <3>2. PlaceInv'
      <4>1. p \notin cleantap
        BY <2>2 DEF PlaceInv
      <4> QED
        BY <2>0, <3>0, <4>1 DEF TapTypeOK, PlaceInv
    <3>3. FlockInv'
      BY <2>0, <2>2, <3>0 DEF TapTypeOK, FlockInv, Using
    <3>4. NameInv'
      BY <2>0, <2>2, <3>0 DEF TapTypeOK, NameInv, Using
    <3> QED
      BY <3>1, <3>2, <3>3, <3>4 DEF TapInv
  <2>3. CASE descriptor[p] \in flock /\ step[p] = "flock created"
    <3>0. /\ descriptor' = [descriptor EXCEPT ![p] = None] /\ step' = [step EXCEPT ![p] = "qemu"]
          /\ raced' = raced \cup {tap[p]} /\ UNCHANGED <<flock, possibles, tap>>
      BY <1>4, <2>3 DEF Flock
    <3>1. TapTypeOK'
      BY <2>0, <3>0 DEF TapTypeOK
    <3>2. PlaceInv'
      BY <2>0, <3>0 DEF TapTypeOK, PlaceInv
    <3>3. FlockInv'
      BY <2>0, <3>0 DEF TapTypeOK, FlockInv, Using
    <3>4. NameInv'
      BY <2>0, <3>0 DEF TapTypeOK, NameInv, Using
    <3> QED
      BY <3>1, <3>2, <3>3, <3>4 DEF TapInv
  <2> QED
    BY <2>0, <2>1, <2>2, <2>3
<1>5. ASSUME NEW p \in Runqemus, MakeTap(p) PROVE TapInv'
  <2>0. /\ step[p] = "try"
        /\ UNCHANGED <<nosudo, lockfile, lockFiles, flock, possibles, descriptor, survivors, raced,
                       tapStarts>>
    BY <1>5 DEF MakeTap
  <2>1. CASE nosudo
    <3>0. step' = [step EXCEPT ![p] = "idle"] /\ UNCHANGED <<devices, tap, cleantap>>
      BY <1>5, <2>1 DEF MakeTap
    <3>1. TapTypeOK'
      BY <2>0, <3>0 DEF TapTypeOK
    <3>2. PlaceInv'
      <4>1. p \notin cleantap
        BY <2>0 DEF PlaceInv
      <4> QED
        BY <2>0, <3>0, <4>1 DEF TapTypeOK, PlaceInv
    <3>3. FlockInv'
      BY <2>0, <3>0 DEF TapTypeOK, FlockInv, Using
    <3>4. NameInv'
      BY <2>0, <3>0 DEF TapTypeOK, NameInv, Using
    <3> QED
      BY <3>1, <3>2, <3>3, <3>4 DEF TapInv
  <2>2. CASE ~nosudo
    <3>. DEFINE t == Min(Taps \ devices)
    <3>0. /\ Taps \ devices # {} /\ devices' = devices \cup {t} /\ tap' = [tap EXCEPT ![p] = t]
          /\ step' = [step EXCEPT ![p] = "created"] /\ cleantap' = cleantap \cup {p}
      BY <1>5, <2>2 DEF MakeTap
    <3>1. t \in Taps \ devices
      <4>1. Taps \ devices \in SUBSET Nat
        BY TapAssumption
      <4> QED
        BY <3>0, <4>1, LeastIsLess
    <3>. HIDE DEF t
    <3>2. TapTypeOK'
      BY <2>0, <3>0, <3>1 DEF TapTypeOK
    <3>3. PlaceInv'
      <4>1. t \notin Bank /\ t \in Taps
        BY <3>1 DEF TapTypeOK
      <4> QED
        BY <2>0, <3>0, <4>1 DEF TapTypeOK, PlaceInv
    <3>4. FlockInv'
      BY <2>0, <3>0 DEF TapTypeOK, FlockInv, Using
    <3>5. NameInv'
      BY <2>0, <3>0 DEF TapTypeOK, NameInv, Using
    <3> QED
      BY <3>2, <3>3, <3>4, <3>5 DEF TapInv
  <2> QED
    BY <2>1, <2>2, <2>0
<1>6. ASSUME NEW p \in Runqemus, EndQemu(p) PROVE TapInv'
  <2>0. /\ step[p] = "qemu" /\ tap[p] \in Taps /\ cleantap' = cleantap \ {p}
        /\ devices' = IF p \in cleantap THEN devices \ {tap[p]} ELSE devices
        /\ UNCHANGED <<nosudo, lockfile, lockFiles, flock, possibles, descriptor, survivors, raced>>
    BY <1>6 DEF EndQemu, PlaceInv
  <2>1. \E s \in {"idle", "release"}, t \in {None, tap[p]} :
           /\ step' = [step EXCEPT ![p] = s] /\ tap' = [tap EXCEPT ![p] = t]
           /\ s = "idle" <=> descriptor[p] = None
           /\ s = "release" => t = tap[p]
    <3>1. CASE descriptor[p] = None
      BY <1>6, <3>1 DEF EndQemu
    <3>2. CASE descriptor[p] # None
      <4>1. tap' = [tap EXCEPT ![p] = tap[p]]
        BY <1>6, <3>2 DEF EndQemu, TapTypeOK
      <4> QED
        BY <1>6, <3>2, <4>1 DEF EndQemu
    <3> QED
      BY <3>1, <3>2
  <2>2. PICK s \in {"idle", "release"}, t \in {None, tap[p]} :
           /\ step' = [step EXCEPT ![p] = s] /\ tap' = [tap EXCEPT ![p] = t]
           /\ s = "idle" <=> descriptor[p] = None
           /\ s = "release" => t = tap[p]
    BY <2>1
  <2>3. /\ step'[p] = s /\ \A q \in Runqemus : q # p => step'[q] = step[q] /\ tap'[q] = tap[q]
        /\ tap'[p] = t
    BY <2>2 DEF TapTypeOK
  <2>4. TapTypeOK'
    <3>1. p \in cleantap => tap[p] \notin Bank
      BY DEF PlaceInv
    <3> QED
      BY <2>0, <2>2, <3>1 DEF TapTypeOK
  <2>5. PlaceInv'
    BY <2>0, <2>2, <2>3, <2>4 DEF TapTypeOK, PlaceInv
  <2>6. Using' \subseteq Using /\ \A q \in Using' : tap'[q] = tap[q]
    BY <2>0, <2>2, <2>3 DEF Using
  <2>7. FlockInv'
    BY <2>0, <2>6 DEF FlockInv
  <2>8. NameInv'
    <3>1. \A q \in Runqemus : step'[q] = "unlocked" => step[q] = "unlocked" /\ tap'[q] = tap[q]
      BY <2>2, <2>3
    <3> QED
      BY <2>0, <2>6, <3>1 DEF NameInv
  <2> QED
    BY <2>4, <2>5, <2>7, <2>8 DEF TapInv
<1>7. ASSUME NEW p \in Runqemus, Unlock(p) PROVE TapInv'
  <2>0. /\ step[p] = "release" /\ step' = [step EXCEPT ![p] = "unlocked"]
        /\ flock' = flock \ {descriptor[p]} /\ descriptor' = [descriptor EXCEPT ![p] = None]
        /\ UNCHANGED <<devices, lockfile, lockFiles, tap, possibles, cleantap, survivors, raced>>
    BY <1>7 DEF Unlock
  <2>1. TapTypeOK'
    BY <2>0 DEF TapTypeOK
  <2>2. PlaceInv'
    BY <2>0 DEF TapTypeOK, PlaceInv
  <2>3. FlockInv'
    <3>1. p \in Using /\ \A q \in Using' : q \in Using /\ q # p /\ descriptor'[q] = descriptor[q]
      BY <2>0 DEF TapTypeOK, Using
    <3>2. \A q \in Using' : descriptor[q] # None => descriptor[q] \in flock'
      BY <2>0, <3>1 DEF FlockInv
    <3> QED
      BY <3>1, <3>2 DEF FlockInv
  <2>4. NameInv'
    <3> SUFFICES ASSUME NEW q \in Using', tap[q] \notin raced
                 PROVE  /\ descriptor'[q] # None /\ descriptor'[q] = lockfile[tap[q]]
                        /\ tap[q] \notin survivors
                        /\ \A r \in Runqemus : step'[r] = "unlocked" => tap[r] # tap[q]
      BY <2>0 DEF NameInv
    <3>1. q \in Using /\ p \in Using /\ q # p
      BY <2>0 DEF Using, TapTypeOK
    <3>2. descriptor[q] # None /\ descriptor[q] # descriptor[p]
      BY <3>1 DEF NameInv, FlockInv, Using
    <3>3. tap[q] # tap[p]
      BY <3>1, <3>2 DEF NameInv
    <3>4. descriptor'[q] = descriptor[q]
      BY <2>0, <3>1 DEF TapTypeOK, Using
    <3>5. ASSUME NEW r \in Runqemus, step'[r] = "unlocked" PROVE tap[r] # tap[q]
      <4>1. r = p \/ step[r] = "unlocked"
        BY <2>0, <3>5 DEF TapTypeOK
      <4> QED
        BY <3>1, <3>3, <4>1 DEF NameInv
    <3> QED
      BY <3>1, <3>2, <3>4, <3>5 DEF NameInv
  <2> QED
    BY <2>1, <2>2, <2>3, <2>4 DEF TapInv
<1>8. ASSUME NEW p \in Runqemus, RemoveLock(p) PROVE TapInv'
  <2>0. /\ step[p] = "unlocked" /\ step' = [step EXCEPT ![p] = "idle"] /\ tap[p] \in Taps
        /\ lockfile' = [lockfile EXCEPT ![tap[p]] = None] /\ tap' = [tap EXCEPT ![p] = None]
        /\ UNCHANGED <<devices, lockFiles, flock, possibles, descriptor, cleantap, survivors, raced>>
    BY <1>8 DEF RemoveLock, PlaceInv
  <2>1. TapTypeOK'
    BY <2>0 DEF TapTypeOK
  <2>2. PlaceInv'
    BY <2>0 DEF TapTypeOK, PlaceInv
  <2>3. Using' = Using /\ \A q \in Using : q # p /\ tap'[q] = tap[q] /\ tap[q] \in Taps
    BY <2>0 DEF TapTypeOK, PlaceInv, Using
  <2>4. FlockInv'
    BY <2>0, <2>3 DEF FlockInv
  <2>5. NameInv'
    <3>1. \A q \in Runqemus : step'[q] = "unlocked" => step[q] = "unlocked" /\ tap'[q] = tap[q]
      BY <2>0 DEF TapTypeOK
    <3>2. \A q \in Using : tap[q] \notin raced => tap[q] # tap[p]
      BY <2>0 DEF NameInv
    <3>3. \A q \in Using : tap[q] \notin raced => lockfile'[tap[q]] = lockfile[tap[q]]
      BY <2>0, <2>3, <3>2 DEF TapTypeOK
    <3> QED
      BY <2>0, <2>3, <3>1, <3>3 DEF NameInv
  <2> QED
    BY <2>1, <2>2, <2>4, <2>5 DEF TapInv
<1>9. ASSUME NEW p \in Runqemus, RunqemuKilled(p) PROVE TapInv'
  <2>0. /\ step' = [step EXCEPT ![p] = "idle"] /\ cleantap' = cleantap \ {p}
        /\ flock' = IF p \in Using THEN flock \ {descriptor[p]} ELSE flock
        /\ descriptor' = [descriptor EXCEPT ![p] = None] /\ tap' = [tap EXCEPT ![p] = None]
        /\ possibles' = [possibles EXCEPT ![p] = {}]
        /\ \/ survivors' = survivors
           \/ p \in Using /\ survivors' = survivors \cup {tap[p]}
        /\ UNCHANGED <<devices, lockfile, lockFiles, raced>>
    BY <1>9 DEF RunqemuKilled, Using
  <2>1. TapTypeOK'
    BY <2>0 DEF TapTypeOK, PlaceInv, Using
  <2>2. PlaceInv'
    BY <2>0 DEF TapTypeOK, PlaceInv
  <2>3. \A q \in Using' : /\ q \in Using /\ q # p
                         /\ descriptor'[q] = descriptor[q] /\ tap'[q] = tap[q]
    BY <2>0 DEF TapTypeOK, Using
  <2>4. FlockInv'
    <3>1. \A q \in Using' : descriptor[q] # None => descriptor[q] \in flock'
      BY <2>0, <2>3 DEF FlockInv
    <3> QED
      BY <2>3, <3>1 DEF FlockInv
  <2>5. NameInv'
    <3>1. \A q \in Runqemus : step'[q] = "unlocked" => step[q] = "unlocked" /\ tap'[q] = tap[q]
      BY <2>0 DEF TapTypeOK
    <3>2. \A q \in Using' : tap[q] \notin raced /\ p \in Using => tap[q] # tap[p]
      BY <2>3 DEF FlockInv, NameInv
    <3>3. \A q \in Using' : tap[q] \notin raced => tap[q] \notin survivors'
      BY <2>0, <2>3, <3>2 DEF NameInv
    <3> QED
      BY <2>0, <2>3, <3>1, <3>3 DEF NameInv
  <2> QED
    BY <2>1, <2>2, <2>4, <2>5 DEF TapInv
<1>10. CASE SurvivorEnds
  <2>0. /\ survivors' \subseteq survivors
        /\ UNCHANGED <<devices, lockfile, lockFiles, flock, step, tap, possibles, descriptor,
                       cleantap, raced>>
    BY <1>10 DEF SurvivorEnds
  <2>1. TapTypeOK' /\ PlaceInv'
    BY <2>0 DEF TapTypeOK, PlaceInv
  <2>2. FlockInv' /\ NameInv'
    BY <2>0 DEF FlockInv, NameInv, Using
  <2> QED
    BY <2>1, <2>2 DEF TapInv
<1> QED
  BY <1>1, <1>2, <1>3, <1>4, <1>5, <1>6, <1>7, <1>8, <1>9, <1>10 DEF TapNext

(* Any number of runqemu, of devices and of kills: two QEMUs get one       *)
(* device only if it was taken through one of the three windows            *)
(* (runqemu:202-205, 785, 945).                                            *)
THEOREM TapExclusiveHolds == TapSpec => []TapExclusive
<1>1. ASSUME TapInv, NEW t \in Taps \ raced, NEW p \in Runqemus, step[p] = "qemu", tap[p] = t
      PROVE  /\ t \notin survivors
             /\ \A q \in Runqemus \ {p} : step[q] = "qemu" => tap[q] # t
  <2>1. /\ p \in Using /\ t \notin raced
        /\ \A q \in Runqemus : step[q] = "qemu" => q \in Using
    BY <1>1 DEF Using
  <2>2. \A q \in Using : tap[q] = t => descriptor[q] # None /\ descriptor[q] = lockfile[t]
    BY <1>1, <2>1 DEF TapInv, NameInv
  <2>3. \A q \in Using : q # p => tap[q] # t
    BY <1>1, <2>1, <2>2 DEF TapInv, FlockInv
  <2> QED
    BY <1>1, <2>1, <2>3 DEF TapInv, NameInv
<1>2. TapInv => TapExclusive
  BY <1>1 DEF TapExclusive
<1> QED
  BY TapStart, TapStep, <1>2, PTL DEF TapSpec
-----------------------------------------------------------------------------
(* The tests that are left are in their order; what is not left is         *)
(* accounted for; and a test whose code runs needs none that failed.       *)
InOrder == \A i, j \in DOMAIN testsLeft : i < j => RunsBefore(testsLeft[i], testsLeft[j])
Accounted == testPhase \in {"boot", "run"} => \A u \in selected :
    u \in Range(testsLeft) \/ u \in passed \cup failed \cup skipped \/ u \in unset
Unhindered == testStep = "body" => \A n \in Range(needs[Now]) : ~NotPassed(n)
CaseInv ==
    /\ CaseTypeOK /\ InOrder /\ Accounted
    /\ testPhase \in {"boot", "run"} => ~Circular
    /\ testStep # "next" => Running
    /\ Unhindered

LEMMA TestsAre ==
    \A t \in Tests : /\ t = <<t[1], t[2]>> /\ t[1] \in DOMAIN Suites /\ t[2] \in Nat
                     /\ t[1] \in Nat
<1>1. \A i \in DOMAIN Suites : i \in Nat /\ \A j \in DOMAIN Suites[i] : j \in Nat
  BY SuitesAssumption
<1> QED
  BY <1>1 DEF Tests

(* Unless there is a circle, a suite is deeper than those on which it      *)
(* depends, and the order of the tests is one.                             *)
LEMMA DepthOrders ==
    ASSUME ~Circular
    PROVE  /\ Depth \in [DOMAIN Suites -> Nat]
           /\ \A i \in DOMAIN Suites : \A d \in SuiteDependencies(i) : Depth[d] < Depth[i]
<1>1. Len(Suites) \in Nat
  BY SuitesAssumption
<1>2. Depth \in Depths
  BY DEF Circular, Depth
<1> QED
  BY <1>1, <1>2 DEF Depths

LEMMA RunsBeforeAsymmetric ==
    ASSUME ~Circular, NEW t \in Tests, NEW u \in Tests, RunsBefore(t, u)
    PROVE  ~RunsBefore(u, t)
  BY TestsAre, DepthOrders DEF RunsBefore

(* A test that must run before the one that is next is not left.           *)
LEMMA BeforeIsNotLeft ==
    ASSUME CaseTypeOK, InOrder, ~Circular, testsLeft # <<>>, NEW u \in selected,
           RunsBefore(u, Now)
    PROVE  u \notin Range(testsLeft)
<1>1. testsLeft \in Seq(selected) /\ selected \subseteq Tests
  BY DEF CaseTypeOK
<1>2. 1 \in DOMAIN testsLeft /\ Now = testsLeft[1] /\ Now \in Tests
  BY <1>1 DEF Now
<1>3. SUFFICES ASSUME NEW j \in DOMAIN testsLeft, u = testsLeft[j] PROVE FALSE
  BY DEF Range
<1>4. CASE j = 1
  BY <1>1, <1>2, <1>3, <1>4, RunsBeforeAsymmetric
<1>5. CASE j # 1
  <2>1. 1 < j
    BY <1>1, <1>5
  <2>2. RunsBefore(Now, u)
    BY <1>2, <1>3, <2>1 DEF InOrder
  <2> QED
    BY <1>1, <1>2, <2>2, RunsBeforeAsymmetric
<1> QED
  BY <1>4, <1>5

(* What is left after the test that is next.                               *)
LEMMA TailOfLeft ==
    ASSUME CaseTypeOK, InOrder, testsLeft # <<>>
    PROVE  /\ Tail(testsLeft) \in Seq(selected) /\ Now \in selected
           /\ Range(testsLeft) = {Now} \cup Range(Tail(testsLeft))
           /\ \A i, j \in DOMAIN Tail(testsLeft) :
                 i < j => RunsBefore(Tail(testsLeft)[i], Tail(testsLeft)[j])
<1>1. testsLeft \in Seq(selected)
  BY DEF CaseTypeOK
<1>2. /\ Tail(testsLeft) \in Seq(selected) /\ Len(Tail(testsLeft)) = Len(testsLeft) - 1
      /\ \A i \in DOMAIN Tail(testsLeft) : /\ Tail(testsLeft)[i] = testsLeft[i + 1]
                                           /\ i + 1 \in DOMAIN testsLeft /\ i \in Nat
      /\ Now \in selected /\ Len(testsLeft) \in Nat \ {0} /\ DOMAIN testsLeft = 1..Len(testsLeft)
      /\ DOMAIN Tail(testsLeft) = 1..(Len(testsLeft) - 1)
  BY <1>1 DEF Now
<1>3. \A i, j \in DOMAIN Tail(testsLeft) :
         i < j => RunsBefore(Tail(testsLeft)[i], Tail(testsLeft)[j])
  <2>1. TAKE i, j \in DOMAIN Tail(testsLeft)
  <2>2. HAVE i < j
  <2>3. i + 1 < j + 1 /\ i + 1 \in DOMAIN testsLeft /\ j + 1 \in DOMAIN testsLeft
    BY <1>2, <2>2
  <2> QED
    BY <1>2, <2>3 DEF InOrder
<1>4. Range(testsLeft) \subseteq {Now} \cup Range(Tail(testsLeft))
  <2>1. SUFFICES ASSUME NEW k \in DOMAIN testsLeft, k # 1
                 PROVE  testsLeft[k] \in Range(Tail(testsLeft))
    BY DEF Range, Now
  <2>2. k - 1 \in DOMAIN Tail(testsLeft) /\ (k - 1) + 1 = k
    BY <1>2, <2>1
  <2> QED
    BY <1>2, <2>2 DEF Range
<1>5. {Now} \cup Range(Tail(testsLeft)) \subseteq Range(testsLeft)
  BY <1>2 DEF Range, Now
<1> QED
  BY <1>2, <1>3, <1>4, <1>5

LEMMA CaseStart == CaseInit => CaseInv
<1> SUFFICES ASSUME CaseInit PROVE CaseInv
  OBVIOUS
<1>1. needs \in [Tests -> Seq({NameOf(t) : t \in Tests})] /\ selected \subseteq Tests
  BY SuitesAssumption DEF CaseInit
<1>2. sigterm \in BOOLEAN /\ guest \in BOOLEAN
  BY DEF CaseInit
<1>3. testsLeft \in Seq(selected)
  BY DEF CaseInit
<1>4. CaseTypeOK
  BY <1>1, <1>2, <1>3 DEF CaseInit, CaseTypeOK
<1> QED
  BY <1>4 DEF CaseInit, CaseInv, InOrder, Accounted, Unhindered

(* What the actions after the loading leave as it is.                      *)
LEMMA OrderStays ==
    ASSUME UNCHANGED <<needs, selected>>
    PROVE  /\ Circular' = Circular /\ \A t, u : RunsBefore(t, u)' = RunsBefore(t, u)
<1>1. \A t : DependsOn(t)' = DependsOn(t)
  BY DEF DependsOn
<1>2. \A n : Provider(n)' = Provider(n)
  BY DEF Provider
<1>3. \A i : SuiteDependencies(i)' = SuiteDependencies(i)
  BY <1>1, <1>2 DEF SuiteDependencies
<1>4. Depths' = Depths
  BY <1>3 DEF Depths
<1>5. Depth' = Depth
  BY <1>4 DEF Depth
<1> QED
  BY <1>4, <1>5 DEF Circular, RunsBefore

LEMMA CaseLoads == ASSUME CaseInv, LoadTests PROVE CaseInv'
<1>1. /\ CaseTypeOK /\ testPhase = "load" /\ testStep = "next"
      /\ UNCHANGED <<needs, selected, testStep, moduleRun, unset, passed, failed, skipped, sigterm, guest>>
  BY DEF LoadTests, CaseInv, Results, Running
<1>2. Circular' = Circular /\ \A t, u : RunsBefore(t, u)' = RunsBefore(t, u)
  BY <1>1, OrderStays
<1>3. CASE Circular
  <2>1. testPhase' = "over" /\ testsLeft' = testsLeft
    BY <1>3 DEF LoadTests
  <2>2. CaseTypeOK'
    BY <1>1, <2>1 DEF CaseTypeOK
  <2>3. InOrder'
    BY <1>2, <2>1 DEF CaseInv, InOrder
  <2> QED
    BY <1>1, <2>1, <2>2, <2>3 DEF CaseInv, Accounted, Unhindered
<1>4. CASE ~Circular
  <2>1. testPhase' = "boot" /\ testsLeft' \in Orders
    BY <1>4 DEF LoadTests
  <2>2. Cardinality(selected) \in Nat
    BY <1>1, SuitesAssumption, FS_Subset, FS_CardinalityType DEF CaseTypeOK
  <2>3. /\ testsLeft' \in Seq(selected) /\ Range(testsLeft') = selected
        /\ \A i, j \in DOMAIN testsLeft' : i < j => RunsBefore(testsLeft'[i], testsLeft'[j])
    BY <2>1, <2>2 DEF Orders
  <2>4. CaseTypeOK'
    BY <1>1, <2>1, <2>3 DEF CaseTypeOK
  <2>5. InOrder'
    BY <1>2, <2>3 DEF InOrder
  <2>6. Accounted'
    BY <1>1, <2>3 DEF Accounted
  <2> QED
    BY <1>1, <1>2, <1>4, <2>1, <2>4, <2>5, <2>6 DEF CaseInv, Unhindered
<1> QED
  BY <1>3, <1>4

(* Nothing that is said of a test or a suite is taken back.                *)
ResultsStay == /\ passed \subseteq passed' /\ failed \subseteq failed'
               /\ skipped \subseteq skipped' /\ unset \subseteq unset'
PhaseGoesOn == testPhase' = testPhase \/ testPhase' = "over" \/ (testPhase = "boot" /\ testPhase' = "run")

(* The test that is next is done with, as is said of it.                   *)
LEMMA CaseGoesOn ==
    ASSUME CaseInv, CaseTypeOK', Running, testsLeft' = Tail(testsLeft), testStep' = "next",
           UNCHANGED <<needs, selected, testPhase>>, ResultsStay,
           Now \in passed' \cup failed' \cup skipped' \/ Now \in unset'
    PROVE  CaseInv'
<1>1. CaseTypeOK /\ InOrder /\ testsLeft # <<>> /\ testPhase = "run" /\ ~Circular /\ Accounted
  BY DEF CaseInv, Running
<1>2. Circular' = Circular /\ \A t, u : RunsBefore(t, u)' = RunsBefore(t, u)
  BY OrderStays
<1>3. InOrder'
  BY <1>1, <1>2, TailOfLeft DEF InOrder
<1>4. Accounted'
  BY <1>1, TailOfLeft DEF Accounted, ResultsStay
<1> QED
  BY <1>1, <1>2, <1>3, <1>4 DEF CaseInv, Unhindered

(* The test that is next stays the one.                                    *)
LEMMA CaseStays ==
    ASSUME CaseInv, CaseTypeOK', UNCHANGED <<needs, selected, testsLeft>>,
           PhaseGoesOn, testStep' = "next" \/ Running', ResultsStay, Unhindered'
    PROVE  CaseInv'
<1>1. Circular' = Circular /\ \A t, u : RunsBefore(t, u)' = RunsBefore(t, u)
  BY OrderStays
<1>2. InOrder'
  BY <1>1 DEF CaseInv, InOrder
<1>3. Accounted'
  BY DEF CaseInv, Accounted, ResultsStay, PhaseGoesOn
<1>4. testPhase' \in {"boot", "run"} => ~Circular'
  BY <1>1 DEF CaseInv, PhaseGoesOn
<1> QED
  BY <1>2, <1>3, <1>4 DEF CaseInv

LEMMA CaseStep == CaseInv /\ [CaseNext]_caseVars => CaseInv'
<1> SUFFICES ASSUME CaseInv, [CaseNext]_caseVars PROVE CaseInv'
  OBVIOUS
<1>0. CaseTypeOK
  BY DEF CaseInv
<1>1. CASE UNCHANGED caseVars
  <2>1. CaseTypeOK'
    BY <1>0, <1>1 DEF CaseTypeOK, caseVars
  <2>2. InOrder' /\ Accounted' /\ Unhindered' /\ (testStep' # "next" => Running')
        /\ (testPhase' \in {"boot", "run"} => ~Circular')
    <3>1. UNCHANGED <<needs, selected>>
      BY <1>1 DEF caseVars
    <3>2. Circular' = Circular /\ \A t, u : RunsBefore(t, u)' = RunsBefore(t, u)
      BY <3>1, OrderStays
    <3> QED
      BY <1>1, <3>2 DEF CaseInv, caseVars, InOrder, Accounted, Unhindered, NotPassed, Running, Now
  <2> QED
    BY <2>1, <2>2 DEF CaseInv
<1>2. CASE StartTarget
  <2>1. guest' \in BOOLEAN
    BY <1>2 DEF StartTarget
  <2>2. CaseTypeOK'
    BY <1>0, <1>2, <2>1 DEF CaseTypeOK, StartTarget, Results
  <2>3. testStep' = "next"
    BY <1>2 DEF CaseInv, StartTarget, Running
  <2>4. ResultsStay /\ PhaseGoesOn /\ Unhindered' /\ UNCHANGED <<needs, selected, testsLeft>>
    BY <1>2, <2>3 DEF StartTarget, Results, ResultsStay, PhaseGoesOn, Unhindered
  <2> QED
    BY <2>2, <2>3, <2>4, CaseStays
<1>3. CASE SetUpModule
  <2>1. Now[1] \in DOMAIN Suites
    BY <1>0, <1>3, TailOfLeft, TestsAre DEF CaseInv, SetUpModule, Running, CaseTypeOK
  <2>2. CaseTypeOK'
    BY <1>0, <1>3, <2>1 DEF CaseTypeOK, SetUpModule, Results
  <2>3. /\ ResultsStay /\ PhaseGoesOn /\ Unhindered' /\ testStep' = "next"
        /\ UNCHANGED <<needs, selected, testsLeft>>
    BY <1>3 DEF SetUpModule, Results, ResultsStay, PhaseGoesOn, Unhindered
  <2> QED
    BY <2>2, <2>3, CaseStays
<1>a. CASE SetUpClassRaises
  <2>1. Now \in selected
    BY <1>a, TailOfLeft DEF CaseInv, SetUpClassRaises, Running
  <2>2. CaseTypeOK'
    BY <1>0, <1>a, <2>1 DEF CaseTypeOK, SetUpClassRaises, Results
  <2>3. /\ ResultsStay /\ PhaseGoesOn /\ Unhindered' /\ testStep' = "next"
        /\ UNCHANGED <<needs, selected, testsLeft>>
    BY <1>a DEF SetUpClassRaises, Results, ResultsStay, PhaseGoesOn, Unhindered
  <2> QED
    BY <2>2, <2>3, CaseStays
<1>4. CASE PassOver
  <2>1. Tail(testsLeft) \in Seq(selected)
    BY <1>4, TailOfLeft DEF CaseInv, PassOver, Running
  <2>2. CaseTypeOK'
    BY <1>0, <1>4, <2>1 DEF CaseTypeOK, PassOver, Results
  <2>3. /\ ResultsStay /\ testStep' = "next" /\ Running /\ testsLeft' = Tail(testsLeft)
        /\ UNCHANGED <<needs, selected, testPhase>> /\ Now \in unset'
    BY <1>4 DEF PassOver, Results, ResultsStay
  <2> QED
    BY <2>2, <2>3, CaseGoesOn
<1>5. CASE SetUp
  <2>1. Tail(testsLeft) \in Seq(selected) /\ Now \in selected
    BY <1>5, TailOfLeft DEF CaseInv, SetUp, Running
  <2>2. CaseTypeOK'
    BY <1>0, <1>5, <2>1 DEF CaseTypeOK, SetUp
  <2>3. CASE testStep' = "call" /\ UNCHANGED <<failed, testsLeft>>
    <3>1. Running' /\ ResultsStay /\ PhaseGoesOn /\ UNCHANGED <<needs, selected, testsLeft>>
      BY <1>5, <2>3 DEF SetUp, Running, ResultsStay, PhaseGoesOn
    <3>2. Unhindered'
      BY <2>3 DEF Unhindered
    <3> QED
      BY <2>2, <3>1, <3>2, CaseStays
  <2>4. CASE failed' = failed \cup {Now} /\ testsLeft' = Tail(testsLeft) /\ UNCHANGED testStep
    <3>1. /\ ResultsStay /\ testStep' = "next" /\ Running /\ testsLeft' = Tail(testsLeft)
          /\ UNCHANGED <<needs, selected, testPhase>> /\ Now \in failed'
      BY <1>5, <2>4 DEF SetUp, ResultsStay
    <3> QED
      BY <2>2, <3>1, CaseGoesOn
  <2> QED
    BY <1>5, <2>3, <2>4 DEF SetUp
<1>6. CASE SkipUnlessPassed
  <2>1. Now \in selected
    BY <1>6, TailOfLeft DEF CaseInv, SkipUnlessPassed, Running
  <2>2. CaseTypeOK'
    BY <1>0, <1>6, <2>1 DEF CaseTypeOK, SkipUnlessPassed
  <2>3. Running' /\ ResultsStay /\ PhaseGoesOn /\ UNCHANGED <<needs, selected, testsLeft>>
    BY <1>6 DEF SkipUnlessPassed, Running, ResultsStay, PhaseGoesOn
  <2>4. Unhindered'
    BY <1>6 DEF SkipUnlessPassed, NotPassed, Unhindered, Now
  <2> QED
    BY <2>2, <2>3, <2>4, CaseStays
<1>7. CASE TestBody \/ TestTimesOut
  <2>1. Now \in selected /\ Running
    BY <1>7, TailOfLeft DEF CaseInv, TestBody, TestTimesOut, Running
  <2>2. guest' \in BOOLEAN
    BY <1>0, <1>7 DEF TestBody, TestTimesOut, CaseTypeOK
  <2>3. /\ testStep' = "teardown"
        /\ UNCHANGED <<needs, selected, testPhase, testsLeft, moduleRun, unset, passed, sigterm>>
        /\ failed' \in {failed, failed \cup {Now}} /\ skipped' \in {skipped, skipped \cup {Now}}
    BY <1>7 DEF TestBody, TestTimesOut
  <2>4. CaseTypeOK'
    BY <1>0, <2>1, <2>2, <2>3 DEF CaseTypeOK
  <2>5. Running'
    BY <2>1, <2>3 DEF Running
  <2>6. ResultsStay /\ PhaseGoesOn /\ Unhindered' /\ UNCHANGED <<needs, selected, testsLeft>>
    BY <2>3 DEF ResultsStay, PhaseGoesOn, Unhindered
  <2> QED
    BY <2>4, <2>5, <2>6, CaseStays
<1>8. CASE TearDown
  <2>1. Tail(testsLeft) \in Seq(selected) /\ Now \in selected
    BY <1>8, TailOfLeft DEF CaseInv, TearDown, Running
  <2>2. /\ failed' \in {failed, failed \cup {Now}} /\ passed' \in {passed, passed \cup {Now}}
        /\ Now \in passed' \cup failed' \cup skipped
    BY <1>8 DEF TearDown
  <2>3. CaseTypeOK'
    BY <1>0, <1>8, <2>1, <2>2 DEF CaseTypeOK, TearDown
  <2>4. /\ ResultsStay /\ testStep' = "next" /\ Running /\ testsLeft' = Tail(testsLeft)
        /\ UNCHANGED <<needs, selected, testPhase>> /\ Now \in passed' \cup failed' \cup skipped'
    BY <1>8, <2>2 DEF TearDown, ResultsStay
  <2> QED
    BY <2>3, <2>4, CaseGoesOn
<1>9. CASE EndRun \/ Sigterm \/ QemuGone
  <2>1. sigterm' \in BOOLEAN /\ guest' \in BOOLEAN
    BY <1>0, <1>9 DEF EndRun, Sigterm, QemuGone, CaseTypeOK
  <2>2. /\ UNCHANGED <<needs, selected, testStep, testsLeft, moduleRun, unset>>
        /\ UNCHANGED <<passed, failed, skipped>>
    BY <1>9 DEF EndRun, Sigterm, QemuGone, Results
  <2>3. UNCHANGED testPhase \/ (testPhase' = "over" /\ testsLeft = <<>>)
    BY <1>9 DEF EndRun, Sigterm, QemuGone
  <2>4. CaseTypeOK'
    BY <1>0, <2>1, <2>2, <2>3 DEF CaseTypeOK
  <2>5. testStep' = "next" \/ Running'
    BY <2>2, <2>3 DEF CaseInv, Running
  <2>6. Unhindered'
    BY <2>2 DEF CaseInv, Unhindered, NotPassed, Now
  <2>7. ResultsStay /\ PhaseGoesOn
    BY <2>2, <2>3 DEF ResultsStay, PhaseGoesOn
  <2> QED
    BY <2>2, <2>4, <2>5, <2>6, <2>7, CaseStays
<1> QED
  BY <1>1, <1>2, <1>3, <1>a, <1>4, <1>5, <1>6, <1>7, <1>8, <1>9, CaseLoads DEF CaseNext

(* Whatever tests and decorators there are, a test runs only after the     *)
(* tests on which it depends have passed (decorators.py:84, oetest.py:346).*)
THEOREM DependenciesPassedHolds == CaseSpec => []DependenciesPassed
<1>1. CaseInv => DependenciesPassed
  <2> SUFFICES ASSUME CaseInv, Running, testStep = "body", NEW n \in DependsOn(Now),
                      NEW u \in selected, NameOf(u) = n,
                      u[1] \in Provider(n) \ {Now[1]} \/ (u[1] = Now[1] /\ u[2] < Now[2])
               PROVE  u \in passed \/ u \in unset
    BY DEF DependenciesPassed
  <2>1. /\ CaseTypeOK /\ InOrder /\ Accounted /\ ~Circular /\ testPhase = "run"
        /\ testsLeft # <<>> /\ \A m \in Range(needs[Now]) : ~NotPassed(m)
    BY DEF CaseInv, Running, Unhindered
  <2>2. Now \in selected /\ Now \in Tests /\ u \in Tests
    BY <2>1, TailOfLeft DEF CaseTypeOK
  <2>3. n \in Range(needs[Now])
    <3>1. needs[Now] \in Seq({NameOf(t) : t \in Tests})
      BY <2>1, <2>2 DEF CaseTypeOK
    <3>2. needs[Now] # <<>> /\ n = needs[Now][1]
      BY DEF DependsOn
    <3> QED
      BY <3>1, <3>2 DEF Range
  <2>4. u \notin failed \cup skipped
    BY <2>1, <2>3 DEF NotPassed
  <2>5. RunsBefore(u, Now)
    <3>1. CASE u[1] = Now[1] /\ u[2] < Now[2]
      BY <3>1 DEF RunsBefore
    <3>2. CASE u[1] \in Provider(n) \ {Now[1]}
      <4>1. n \in UNION {DependsOn(t) : t \in {v \in selected : v[1] = Now[1]}}
        BY <2>2
      <4>2. u[1] \in UNION {Provider(m) : m \in
                               UNION {DependsOn(t) : t \in {v \in selected : v[1] = Now[1]}}}
        BY <3>2, <4>1, Zenon
      <4>3. u[1] \in SuiteDependencies(Now[1])
        BY <3>2, <4>2 DEF SuiteDependencies
      <4>4. Depth[u[1]] < Depth[Now[1]]
        BY <2>1, <2>2, <4>3, DepthOrders, TestsAre
      <4> QED
        BY <4>4 DEF RunsBefore
    <3> QED
      BY <3>1, <3>2
  <2>6. u \notin Range(testsLeft)
    BY <2>1, <2>5, BeforeIsNotLeft
  <2> QED
    BY <2>1, <2>4, <2>6 DEF Accounted
<1> QED
  BY CaseStart, CaseStep, <1>1, PTL DEF CaseSpec

-----------------------------------------------------------------------------
(* The programs beside each other.  A step of one leaves the others alone. *)
LEMMA OneAtATime ==
    ASSUME [ToolsNext]_ToolsVars
    PROVE  /\ [ImgNext]_imgVars /\ [QemuNext]_qemuVars /\ [PatchNext]_patchVars
           /\ [DevNext]_devVars /\ [WicNext]_wicVars /\ [DeployNext]_deployVars
           /\ [SdkNext]_sdkVars /\ [ComboNext]_comboVars /\ [TapNext]_tapVars
           /\ [CopyNext]_copyVars /\ [CmdNext]_cmdVars /\ [CaseNext]_caseVars
           /\ [SplitNext]_splitVars
<1>1. CASE UNCHANGED ToolsVars
  BY <1>1 DEF ToolsVars, VarsA, VarsB
<1>2. CASE ToolsNext
  <2>1. CASE ImgNext /\ ImgOnly
    BY <2>1 DEF ImgOnly, VarsB
  <2>2. CASE QemuNext /\ QemuOnly
    BY <2>2 DEF QemuOnly, VarsB
  <2>3. CASE PatchNext /\ PatchOnly
    BY <2>3 DEF PatchOnly, VarsB
  <2>4. CASE DevNext /\ DevOnly
    BY <2>4 DEF DevOnly, VarsB
  <2>5. CASE WicNext /\ WicOnly
    BY <2>5 DEF WicOnly, VarsB
  <2>6. CASE DeployNext /\ DeployOnly
    BY <2>6 DEF DeployOnly, VarsB
  <2>7. CASE SdkNext /\ SdkOnly
    BY <2>7 DEF SdkOnly, VarsB
  <2>8. CASE ComboNext /\ ComboOnly
    BY <2>8 DEF ComboOnly, VarsA
  <2>9. CASE TapNext /\ TapOnly
    BY <2>9 DEF TapOnly, VarsA
  <2>10. CASE CopyNext /\ CopyOnly
    BY <2>10 DEF CopyOnly, VarsA
  <2>11. CASE CmdNext /\ CmdOnly
    BY <2>11 DEF CmdOnly, VarsA
  <2>12. CASE CaseNext /\ CaseOnly
    BY <2>12 DEF CaseOnly, VarsA
  <2>13. CASE SplitNext /\ SplitOnly
    BY <2>13 DEF SplitOnly, VarsA
  <2> QED
    BY <1>2, <2>1, <2>2, <2>3, <2>4, <2>5, <2>6, <2>7, <2>8, <2>9, <2>10, <2>11, <2>12, <2>13
       DEF ToolsNext
<1> QED
  BY <1>1, <1>2

(* Whichever program a behaviour is about, each behaves as its own module  *)
(* says, those of the host commands and of QemuRunner without fairness: so *)
(* what is proved of a program alone holds of the thirteen together.       *)
THEOREM ToolsImplementEach ==
    ToolsSpec => /\ ImgSpec /\ QemuSpec /\ PatchSpec /\ DevSpec /\ WicSpec /\ DeploySpec
                 /\ SdkSpec /\ ComboSpec /\ TapSpec /\ CopySpec /\ CaseSpec /\ SplitSpec
                 /\ CmdInit /\ [][CmdNext]_cmdVars
<1>1. ToolsInit => /\ ImgInit /\ QemuInit /\ PatchInit /\ DevInit /\ WicInit /\ DeployInit
                   /\ SdkInit /\ ComboInit /\ TapInit /\ CopyInit /\ CmdInit /\ CaseInit
                   /\ SplitInit
  BY DEF ToolsInit
<1>2. [ToolsNext]_ToolsVars =>
           /\ [ImgNext]_imgVars /\ [QemuNext]_qemuVars /\ [PatchNext]_patchVars
           /\ [DevNext]_devVars /\ [WicNext]_wicVars /\ [DeployNext]_deployVars
           /\ [SdkNext]_sdkVars /\ [ComboNext]_comboVars /\ [TapNext]_tapVars
           /\ [CopyNext]_copyVars /\ [CmdNext]_cmdVars /\ [CaseNext]_caseVars
           /\ [SplitNext]_splitVars
  BY OneAtATime
<1> QED
  BY <1>1, <1>2, PTL DEF ToolsSpec, ImgSpec, QemuSpec, PatchSpec, DevSpec, WicSpec, DeploySpec,
     SdkSpec, ComboSpec, TapSpec, CopySpec, CaseSpec, SplitSpec

(* The state of every program is what its module says, for any packages,   *)
(* patches, kickstart files, targets, revisions, tests and trees.          *)
THEOREM ToolsTypeHolds == ToolsSpec => []ToolsTypeOK
<1>1. PatchWorkInv => PatchTypeOK
  BY DEF PatchWorkInv
<1>2. EditInv => DevTypeOK
  BY DEF EditInv
<1>3. DeployInv => DeployTypeOK
  BY DEF DeployInv
<1>4. ComboInv => ComboTypeOK
  BY DEF ComboInv
<1>5. TapInv => TapTypeOK
  BY DEF TapInv
<1>6. CopyInv => CopyTypeOK
  BY DEF CopyInv
<1>7. CaseInv => CaseTypeOK
  BY DEF CaseInv
<1>8. StopInv => QemuTypeOK
  BY DEF StopInv
<1>9. ToolsSpec => []PatchTypeOK /\ []DevTypeOK /\ []DeployTypeOK /\ []ComboTypeOK
  BY ToolsImplementEach, PatchWorkInit, PatchWorkStep, EditInit, EditStep, DeployStart,
     DeployInvStep, ComboBegins, ComboStep, <1>1, <1>2, <1>3, <1>4, PTL
     DEF PatchSpec, DevSpec, DeploySpec, ComboSpec
<1>10. ToolsSpec => []TapTypeOK /\ []CopyTypeOK /\ []CaseTypeOK /\ []QemuTypeOK
  BY ToolsImplementEach, TapStart, TapStep, CopyStart, CopyStep, CaseStart, CaseStep, StopInit,
     StopStep, <1>5, <1>6, <1>7, <1>8, PTL DEF TapSpec, CopySpec, CaseSpec, QemuSpec
<1>11. ToolsSpec => []ImgTypeOK /\ []WicTypeOK /\ []SdkTypeOK /\ []CmdTypeOK /\ []SplitTypeOK
  BY ToolsImplementEach, ImgTypeHolds, WicTypeHolds, SdkTypeHolds, CmdTypeHolds, SplitTypeHolds,
     PTL
<1>12. ImgTypeOK /\ QemuTypeOK /\ PatchTypeOK /\ DevTypeOK /\ WicTypeOK /\ DeployTypeOK
       /\ SdkTypeOK /\ ComboTypeOK /\ TapTypeOK /\ CopyTypeOK /\ CmdTypeOK /\ CaseTypeOK
       /\ SplitTypeOK => ToolsTypeOK
  BY DEF ToolsTypeOK
<1> QED
  BY <1>9, <1>10, <1>11, <1>12, PTL

(* Together they keep every promise of safety that the run checks.         *)
THEOREM ToolsSafe ==
    ToolsSpec => /\ [](ImageExact /\ PostinstsKept /\ AlarmIsReal /\ PatchingKeeps /\ SplitExact)
                 /\ [](WicPlaced /\ CopyExact /\ NoCommitLost /\ TargetRestored)
                 /\ [](TapExclusive /\ StoppedMeansGone /\ NothingLeft /\ DependenciesPassed)
                 /\ UpdateExact /\ UserWorkKept /\ SdkRecovers
<1>1. ToolsSpec => [](ImageExact /\ PostinstsKept /\ AlarmIsReal /\ PatchingKeeps /\ SplitExact)
  BY ToolsImplementEach, ImageExactHolds, PostinstsKeptHolds, AlarmIsRealHolds,
     PatchingKeepsHolds, SplitExactHolds, PTL
<1>2. ToolsSpec => [](WicPlaced /\ CopyExact /\ NoCommitLost /\ TargetRestored)
  BY ToolsImplementEach, WicPlacedHolds, CopyExactHolds, NoCommitLostHolds, TargetRestoredHolds,
     PTL
<1>3. CommandInv => NothingLeft
  BY DEF CommandInv
<1>4. ToolsSpec => [](TapExclusive /\ StoppedMeansGone /\ NothingLeft /\ DependenciesPassed)
  BY ToolsImplementEach, TapExclusiveHolds, StoppedMeansGoneHolds, CommandInit, CommandStep,
     DependenciesPassedHolds, <1>3, PTL
<1>5. ToolsSpec => UpdateExact /\ UserWorkKept /\ SdkRecovers
  BY ToolsImplementEach, UpdateExactHolds, UserWorkKeptHolds, SdkRecoversHolds, PTL
<1> QED
  BY <1>1, <1>2, <1>4, <1>5, PTL

=============================================================================
