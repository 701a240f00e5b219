---------------------------- MODULE DeployTarget ----------------------------
(***************************************************************************)
(* devtool deploy-target and undeploy-target: scripts/lib/devtool/         *)
(* deploy.py, which writes a shell script and runs it on the target with   *)
(* set -e.  What matters is what the script does there: the files that     *)
(* recipes put on the target, the list of them and the files that were     *)
(* there before, which are put aside.  A script is cut short by a full     *)
(* disk, a lost connection or a reboot, but goes on when a move back or    *)
(* the removal of a directory fails.  The content of a file is "none",     *)
(* "orig" or the recipe it comes from.  undeploy-target -a does for every  *)
(* recipe with a list what undeploy-target does for one.                   *)
(***************************************************************************)
EXTENDS Naturals

CONSTANTS Files,          \* paths on the target
          Existing,       \* files that are on the target before anything is deployed
          Links,          \* those of them that are symbolic links
          DirOf,          \* [Files -> the directory a file is in]
          Outputs,        \* [recipes -> sets of files that do_install may leave in D]
          MaxDeploys      \* bound on the scripts that are run

ASSUME DeployAssumption ==
    /\ Existing \subseteq Files /\ Links \subseteq Files
    /\ \A r \in DOMAIN Outputs : Outputs[r] \subseteq SUBSET Files
    /\ "none" \notin DOMAIN Outputs /\ "orig" \notin DOMAIN Outputs

VARIABLES onTarget,       \* [Files -> content]
          preserved,      \* [recipes -> [Files -> content]], /.devtool/<recipe>.preserve
          deployList,     \* [recipes -> SUBSET Files], /.devtool/<recipe>.list, {} for none
          raw,            \* recipes whose list has the names as tar prints them, "./..."
          dirs,           \* directories on the target
          unreturned,     \* files whose move back failed before they were removed
          excused,        \* files deployed over with --no-preserve, by two recipes, or
                          \* changed on the target by somebody
          deploys         \* scripts so far (bounded)
deployVars == <<onTarget, preserved, deployList, raw, dirs, unreturned, excused, deploys>>

Deployers == DOMAIN Outputs
Before == [f \in Files |-> IF f \in Existing THEN "orig" ELSE "none"]
Nowhere == [f \in Files |-> "none"]
DirsOf(S) == {DirOf[f] : f \in S}

DeployInit ==
    /\ onTarget = Before /\ preserved = [r \in Deployers |-> Nowhere]
    /\ deployList = [r \in Deployers |-> {}] /\ raw = {}
    /\ dirs = DirsOf(Existing) /\ unreturned = {} /\ excused = {} /\ deploys = 0

RunScript == deploys < MaxDeploys /\ deploys' = deploys + 1
Without(S) == [f \in Files |-> IF f \in S THEN "none" ELSE onTarget[f]]

(***************************************************************************)
(* Both scripts begin with the removal of what is listed: of the files,    *)
(* and of the directories that are empty then, unless the recipe put       *)
(* something aside from there, or rmdir fails.  A file that is not there   *)
(* ends them, as does a name that was not made absolute: it is looked up   *)
(* in the home directory.                                                  *)
(***************************************************************************)
Removable(r) == \A f \in deployList[r] : r \notin raw /\ onTarget[f] # "none"

Emptied(r, tree) ==
    {d \in DirsOf(deployList[r]) : \A f \in Files : DirOf[f] = d =>
                                      tree[f] = "none" /\ preserved[r][f] = "none"}

RemovalCut(r) ==
    /\ RunScript
    /\ \E gone \in SUBSET deployList[r] :
         /\ r \in raw => gone = {}
         /\ onTarget' = Without(gone)
         /\ \E emptied \in SUBSET Emptied(r, Without(gone)) :
              /\ r \in raw => emptied = {}
              /\ dirs' = dirs \ emptied
    /\ UNCHANGED <<preserved, deployList, raw, unreturned, excused>>

(***************************************************************************)
(* The rest of deploy-target: the check of the space, the files that are   *)
(* there put aside, tar, and sed over the names in the list.               *)
(***************************************************************************)
Shared(r, new) == {f \in new : \E s \in Deployers \ {r} :
                                  f \in deployList[s] \/ preserved[s][f] # "none"}

\* mistake: what was deployed before is not removed first
DeployOver(r, new, keep) ==
    LET moved == IF keep THEN {f \in new : onTarget[f] # "none"} ELSE {}
    IN  /\ RunScript
        /\ excused' = excused \cup Shared(r, new) \cup (IF keep THEN {} ELSE new)
        /\ onTarget' = [f \in Files |-> IF f \in new THEN r ELSE onTarget[f]]
        /\ preserved' = [preserved EXCEPT ![r] = [f \in Files |->
                             IF f \in moved THEN onTarget[f] ELSE @[f]]]
        /\ deployList' = [deployList EXCEPT ![r] = new]
        /\ dirs' = dirs \cup DirsOf(new) /\ UNCHANGED <<raw, unreturned>>

Deploy(r, new, keep) ==
    LET moved == IF keep THEN {f \in new : Without(deployList[r])[f] # "none"} ELSE {}
        Result(kept, written) ==
            /\ onTarget' = [f \in Files |-> IF f \in written THEN r
                                            ELSE Without(deployList[r] \cup kept)[f]]
            /\ \E emptied \in SUBSET Emptied(r, Without(deployList[r])),
                  made \in SUBSET (IF written = {} THEN {} ELSE DirsOf(new)) :
                 DirsOf(written) \subseteq made /\ dirs' = (dirs \ emptied) \cup made
            /\ preserved' = [preserved EXCEPT ![r] = [f \in Files |->
                   IF f \in kept THEN Without(deployList[r])[f] ELSE @[f]]]
            /\ deployList' = [deployList EXCEPT ![r] = written]
    IN  /\ RunScript /\ Removable(r)
        /\ excused' = excused \cup Shared(r, new) \cup (IF keep THEN {} ELSE new)
        /\ \/ (\E kept \in SUBSET moved : Result(kept, {})) /\ raw' = raw \ {r}
           \/ (\E written \in SUBSET new : Result(moved, written)) /\ raw' = raw \cup {r}
           \/ Result(moved, new) /\ raw' = raw \ {r}
        /\ UNCHANGED unreturned

(***************************************************************************)
(* The rest of undeploy-target: find moves the regular files among those   *)
(* put aside back, which fails where the directory is gone and may fail    *)
(* otherwise; then all of them are removed, links as well, and those that  *)
(* were not moved.                                                         *)
(***************************************************************************)
Regular(r) == {f \in Files : preserved[r][f] # "none"
                             /\ ~(f \in Links /\ preserved[r][f] = "orig")}

Undeploy(r) ==
    /\ RunScript /\ Removable(r)
    /\ \E emptied \in SUBSET Emptied(r, Without(deployList[r])) : dirs' = dirs \ emptied
    /\ \E back \in SUBSET Regular(r) :
         /\ DirsOf(back) \subseteq dirs'
         /\ onTarget' = [f \in Files |-> IF f \in back THEN preserved[r][f]
                                         ELSE Without(deployList[r])[f]]
         /\ \/ /\ preserved' = [preserved EXCEPT ![r] = Nowhere]
               /\ unreturned' = unreturned \cup (Regular(r) \ back)
            \/ /\ preserved' = [preserved EXCEPT ![r] = [f \in Files |->
                                    IF f \in back THEN "none" ELSE @[f]]]
               /\ UNCHANGED unreturned
    /\ deployList' = [deployList EXCEPT ![r] = {}] /\ raw' = raw \ {r}
    /\ UNCHANGED excused

(* Somebody removes or writes a file on the target.                        *)
TargetTouched ==
    \E f \in Files : /\ f \notin excused /\ excused' = excused \cup {f}
                     /\ \/ onTarget' = [onTarget EXCEPT ![f] = "none"] /\ UNCHANGED dirs
                        \/ onTarget' = [onTarget EXCEPT ![f] = "orig"]
                           /\ dirs' = dirs \cup {DirOf[f]}
                     /\ UNCHANGED <<preserved, deployList, raw, unreturned, deploys>>

DeployNext ==
    \/ \E r \in Deployers :
          \/ RemovalCut(r)
          \/ \E new \in Outputs[r], keep \in BOOLEAN : Deploy(r, new, keep)
          \/ Undeploy(r)
    \/ TargetTouched

DeploySpec == DeployInit /\ [][DeployNext]_deployVars

-----------------------------------------------------------------------------
Content == {"none", "orig"} \cup Deployers
DeployTypeOK ==
    /\ onTarget \in [Files -> Content] /\ preserved \in [Deployers -> [Files -> Content]]
    /\ deployList \in [Deployers -> SUBSET Files]
    /\ dirs \subseteq DirsOf(Files) /\ \A f \in Files : onTarget[f] # "none" => DirOf[f] \in dirs
    /\ raw \subseteq Deployers /\ unreturned \subseteq Files /\ excused \subseteq Files

(* The target gets its own back, whatever was deployed, in which order,    *)
(* with other files each time, and wherever a script was cut short: a      *)
(* regular file of the target is in its place or put aside by a recipe,    *)
(* and a file that no list has and no recipe put aside is as it was before *)
(* anything was deployed, unless undeploy-target could not move it back,   *)
(* as when another recipe's script has removed its directory, and removed  *)
(* it where it was put aside (deploy.py:52, 95, 119).                      *)
TargetRestored ==
    \A f \in Files \ (excused \cup unreturned \cup Links) :
        /\ f \in Existing => \/ onTarget[f] = "orig"
                             \/ \E r \in Deployers : preserved[r][f] = "orig"
        /\ (\A r \in Deployers : f \notin deployList[r] /\ preserved[r][f] = "none")
           => onTarget[f] = Before[f]
=============================================================================
