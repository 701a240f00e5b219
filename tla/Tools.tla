------------------------------- MODULE Tools -------------------------------
(***************************************************************************)
(* Thirteen programs that share no state, each with its module.  `active`  *)
(* says which of them this behaviour is about; the others stay as they     *)
(* are.  Checked together, so that one run answers for all.                *)
(***************************************************************************)
EXTENDS RootfsImage, QemuRunner, PatchTree, DevtoolWorkspace, WicImage, DeployTarget, SdkUpdate,
        ComboLayer, RunqemuTap, SparseCopy, HostCommand, TestRun, PackageSplit

VARIABLE active          \* the program that this behaviour is about

VarsA == <<imgVars, qemuVars, patchVars, devVars, wicVars, deployVars, sdkVars>>
VarsB == <<comboVars, tapVars, copyVars, cmdVars, caseVars, splitVars>>
ImgOnly == UNCHANGED <<qemuVars, patchVars, devVars, wicVars, deployVars, sdkVars, VarsB, active>>
QemuOnly == UNCHANGED <<imgVars, patchVars, devVars, wicVars, deployVars, sdkVars, VarsB, active>>
PatchOnly == UNCHANGED <<imgVars, qemuVars, devVars, wicVars, deployVars, sdkVars, VarsB, active>>
DevOnly == UNCHANGED <<imgVars, qemuVars, patchVars, wicVars, deployVars, sdkVars, VarsB, active>>
WicOnly == UNCHANGED <<imgVars, qemuVars, patchVars, devVars, deployVars, sdkVars, VarsB, active>>
DeployOnly == UNCHANGED <<imgVars, qemuVars, patchVars, devVars, wicVars, sdkVars, VarsB, active>>
SdkOnly == UNCHANGED <<imgVars, qemuVars, patchVars, devVars, wicVars, deployVars, VarsB, active>>
ComboOnly == UNCHANGED <<tapVars, copyVars, cmdVars, caseVars, splitVars, VarsA, active>>
TapOnly == UNCHANGED <<comboVars, copyVars, cmdVars, caseVars, splitVars, VarsA, active>>
CopyOnly == UNCHANGED <<comboVars, tapVars, cmdVars, caseVars, splitVars, VarsA, active>>
CmdOnly == UNCHANGED <<comboVars, tapVars, copyVars, caseVars, splitVars, VarsA, active>>
CaseOnly == UNCHANGED <<comboVars, tapVars, copyVars, cmdVars, splitVars, VarsA, active>>
SplitOnly == UNCHANGED <<comboVars, tapVars, copyVars, cmdVars, caseVars, VarsA, active>>

(* A program that is not active has one of its initial states.             *)
Idle(S) == CHOOSE x \in S : TRUE
ToolsInit ==
    /\ active \in {"rootfs", "qemu", "patch", "devtool", "wic", "deploy", "sdk", "combo", "tap",
                   "copy", "command", "tests", "packages"}
    /\ (active # "rootfs" => backend = "rpm") /\ ImgInit
    /\ QemuInit
    /\ (active # "patch" => patchTool = "git" /\ patchResolver = "noop" /\ hadHooks = TRUE)
    /\ PatchInit
    /\ (active # "devtool" => layer = NoRecipe /\ tree = "none") /\ DevInit
    /\ (active # "wic" => ks = Idle(Kickstarts) /\ ptable = "gpt") /\ WicInit
    /\ DeployInit /\ SdkInit /\ ComboInit
    /\ (active # "tap" => nosudo = TRUE) /\ TapInit
    /\ (active # "copy" => imageSize = 0 /\ mapped = {} /\ method = "seek"
                           /\ dstOffset = Idle(Offsets)) /\ CopyInit
    /\ (active # "command" => runner = "ssh") /\ CmdInit
    /\ (active # "tests" => needs = Idle(Decorations) /\ selected = Idle(Selections)) /\ CaseInit
    /\ (active # "packages" => installed = Idle(DTrees) /\ filesVar = Idle(FilesVars)) /\ SplitInit

ToolsNext ==
    \/ active = "rootfs" /\ ImgNext /\ ImgOnly
    \/ active = "qemu" /\ QemuNext /\ QemuOnly
    \/ active = "patch" /\ PatchNext /\ PatchOnly
    \/ active = "devtool" /\ DevNext /\ DevOnly
    \/ active = "wic" /\ WicNext /\ WicOnly
    \/ active = "deploy" /\ DeployNext /\ DeployOnly
    \/ active = "sdk" /\ SdkNext /\ SdkOnly
    \/ active = "combo" /\ ComboNext /\ ComboOnly
    \/ active = "tap" /\ TapNext /\ TapOnly
    \/ active = "copy" /\ CopyNext /\ CopyOnly
    \/ active = "command" /\ CmdNext /\ CmdOnly
    \/ active = "tests" /\ CaseNext /\ CaseOnly
    \/ active = "packages" /\ SplitNext /\ SplitOnly

ToolsVars == <<active, VarsA, VarsB>>

(* Fairness of QemuRunner and HostCommand only: a thread that can go on    *)
(* does, and the monitor reads the end of its pipe.  `active` does not     *)
(* change, so threads of two programs may share a conjunct.                *)
ToolsSpec ==
    /\ ToolsInit /\ [][ToolsNext]_ToolsVars
    /\ WF_ToolsVars(\/ active = "qemu" /\ MainThread /\ QemuOnly
                    \/ active = "command" /\ CallerThread /\ CmdOnly)
    /\ WF_ToolsVars(\/ active = "qemu" /\ LoggingThread /\ QemuOnly
                    \/ active = "command" /\ CommThread /\ CmdOnly)
    /\ WF_ToolsVars(active = "qemu" /\ MonitorFires /\ QemuOnly)

(* The state of each program is what its module says.                      *)
ToolsTypeOK == /\ ImgTypeOK /\ QemuTypeOK /\ PatchTypeOK /\ DevTypeOK
               /\ WicTypeOK /\ DeployTypeOK /\ SdkTypeOK
               /\ ComboTypeOK /\ TapTypeOK /\ CopyTypeOK /\ CmdTypeOK /\ CaseTypeOK
               /\ SplitTypeOK
=============================================================================
