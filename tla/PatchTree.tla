----------------------------- MODULE PatchTree -----------------------------
(***************************************************************************)
(* do_patch: classes/patch.bbclass on top of lib/oe/patch.py, with patch,  *)
(* quilt or git as PATCHTOOL.  A source tree is patched, and patched again *)
(* after a run that failed or was killed.  Each patch changes what the one *)
(* before it left, so it applies on top of exactly the patches before it   *)
(* and reverses only as the last one.  patch, quilt and git themselves are *)
(* modelled by what the code here expects of them.                         *)
(***************************************************************************)
EXTENDS Naturals, Sequences, FiniteSets, SequencesExt

CONSTANTS Patches,        \* the patches of SRC_URI, in their order
          MaxPatchRuns    \* bound on the runs of do_patch

ASSUME PatchesAssumption ==
    Patches # <<>> /\ Patches \in Seq(ToSet(Patches)) /\ IsInjective(Patches)

VARIABLES patchTool,      \* PATCHTOOL
          patchResolver,  \* PATCHRESOLVE
          applied,        \* the patches that are whole in the tree, in order
          hadHooks,       \* the user's repository has hooks
          half,           \* patches of which the tree has a part
          series,         \* patches/series
          hooks,          \* .git/hooks: "none", the "user"'s or "devtool"'s
          backup,         \* .git/hooks.devtool-orig
          patchStep,      \* "idle", "patching", "patched", "failed", "killed"
          patchNext,      \* the patch do_patch is at
          patchRuns,      \* runs so far (bounded)
          interrupted     \* some run was killed
patchVars == <<patchTool, patchResolver, applied, hadHooks, half, series, hooks,
               backup, patchStep, patchNext, patchRuns, interrupted>>

PatchInit ==
    /\ patchTool \in {"patch", "quilt", "git"} /\ patchResolver \in {"noop", "user"}
    /\ applied = <<>> /\ half = {} /\ series = <<>>
    /\ hadHooks \in BOOLEAN
    /\ hooks = (IF hadHooks THEN "user" ELSE "none") /\ backup = "none"
    /\ patchStep = "idle" /\ patchNext = 1 /\ patchRuns = 0 /\ interrupted = FALSE

Fits(p) == half = {} /\ applied = SubSeq(Patches, 1, Len(applied))
                     /\ Len(applied) < Len(Patches) /\ Patches[Len(applied) + 1] = p
\* mistake: hooks put aside earlier do not matter
HooksNeverBlocked == FALSE

HooksBlocked == patchTool = "git" /\ backup # "none"

(***************************************************************************)
(* PatchTree.Clean: the patches of series are reversed from the last one;  *)
(* series is rewritten only after all of them are.  The first that does    *)
(* not reverse ends do_patch.  With git the reset and the clean before the *)
(* fallback take out what is not committed.                                *)
(***************************************************************************)
FromEnd(s, i) == s[Len(s) + 1 - i]
Reverses(order, n) ==
    /\ half = {} \/ patchTool = "git"
    /\ n <= Len(applied) /\ \A i \in 1..n : order[i] = FromEnd(applied, i)
ReversedFrom(order) == Cardinality({i \in 1..Len(series) : Reverses(order, i)})

\* mistake: the patches are reversed from the first one
ReversedForwards == ReversedFrom(series)

Reversed == ReversedFrom([i \in 1..Len(series) |-> FromEnd(series, i)])
LeftApplied == SubSeq(applied, 1, Len(applied) - Reversed)

(***************************************************************************)
(* A run of do_patch starts with Clean.  quilt pop fails when nothing is   *)
(* applied, and then series stays as it was.                               *)
(***************************************************************************)
StartPatching ==
    /\ patchStep \in {"idle", "failed", "killed", "patched"} /\ patchRuns < MaxPatchRuns
    /\ patchRuns' = patchRuns + 1 /\ patchNext' = 1
    /\ \/ /\ patchTool = "quilt" /\ patchStep' = "patching"
          /\ applied' = <<>>
          /\ series' = IF applied = <<>> THEN series ELSE <<>>
          /\ half' = half \ ToSet(applied)
       \/ /\ patchTool # "quilt"
          /\ IF series # <<>> /\ (HooksBlocked \/ Reversed < Len(series))
             THEN /\ patchStep' = "failed"
                  /\ applied' = IF HooksBlocked THEN applied ELSE LeftApplied
                  /\ UNCHANGED series
             ELSE /\ patchStep' = "patching" /\ applied' = LeftApplied
                  /\ series' = <<>>
          /\ half' = IF patchTool = "git" /\ series # <<>> /\ ~HooksBlocked THEN {} ELSE half
    /\ UNCHANGED <<patchTool, patchResolver, hadHooks, hooks, backup, interrupted>>

Advance == /\ patchNext' = patchNext + 1
           /\ patchStep' = IF patchNext = Len(Patches) THEN "patched" ELSE "patching"
Fail == patchStep' = "failed" /\ UNCHANGED patchNext

(***************************************************************************)
(* PatchTree._applypatch: a dry run, then the patch, then series.  When    *)
(* the patch fails after its dry run passed, the tree has a part of it.    *)
(***************************************************************************)
ApplyWithPatch(p) ==
    \/ /\ Fits(p) /\ applied' = Append(applied, p) /\ series' = Append(series, p)
       /\ Advance /\ UNCHANGED half
    \/ Fail /\ UNCHANGED <<applied, half, series>>           \* the dry run fails
    \/ /\ Fits(p) /\ half' = {p} /\ Fail /\ UNCHANGED <<applied, series>>

PatchWithPatch ==
    /\ patchTool = "patch" /\ patchStep = "patching"
    /\ ApplyWithPatch(Patches[patchNext])
    /\ UNCHANGED <<patchTool, patchResolver, hadHooks, hooks, backup, patchRuns, interrupted>>

(***************************************************************************)
(* GitApplyTree._applypatch: the hooks are put aside for the duration,     *)
(* which is refused when some are there already.  git am; when it fails,   *)
(* reset and clean take out what is not committed, then git apply, then    *)
(* PatchTree._applypatch, the only one that writes series, and a commit,   *)
(* which may fail.  git am -3 takes a patch that is already in the tree.   *)
(***************************************************************************)
PatchWithGit ==
    /\ patchTool = "git" /\ patchStep = "patching"
    /\ LET p == Patches[patchNext]
           clean == applied = SubSeq(Patches, 1, patchNext - 1)
       IN \/ HooksBlocked /\ Fail /\ UNCHANGED <<applied, half, series>>
          \/ /\ ~HooksBlocked /\ half' = {}
             /\ \/ /\ clean /\ Advance /\ applied' = Append(applied, p)
                   /\ series' \in {series, Append(series, p)}
                \/ p \in ToSet(applied) /\ Advance /\ UNCHANGED <<applied, series>>
                \/ Fail /\ UNCHANGED <<applied, series>>
          \/ /\ ~HooksBlocked /\ clean /\ Fail /\ half' = {p} /\ UNCHANGED applied
             /\ series' \in {series, Append(series, p)}
    /\ UNCHANGED <<patchTool, patchResolver, hadHooks, hooks, backup, patchRuns, interrupted>>

(***************************************************************************)
(* QuiltTree: Import adds the patch to series, Push pushes whatever is     *)
(* next there.  When it does not apply and the user is to resolve it, a    *)
(* shell forces it in; the user mends and refreshes the patch, or does     *)
(* not.  The patch set made afresh to find that out is empty, so its loop  *)
(* looks at no patch and do_patch goes on.                                 *)
(***************************************************************************)
PatchWithQuilt ==
    /\ patchTool = "quilt" /\ patchStep = "patching"
    /\ LET s == Append(series, Patches[patchNext])
           p == s[Len(applied) + 1]
       IN /\ series' = s
          /\ \/ /\ Fits(p) /\ Advance /\ applied' = Append(applied, p) /\ UNCHANGED half
             \/ /\ patchResolver = "noop" /\ Fail /\ UNCHANGED <<applied, half>>
             \/ /\ patchResolver = "user" /\ Advance
                /\ applied' = (IF p \in ToSet(applied) THEN applied ELSE Append(applied, p))
                /\ \E mended \in BOOLEAN : half' = IF mended THEN half ELSE half \cup {p}
    /\ UNCHANGED <<patchTool, patchResolver, hadHooks, hooks, backup, patchRuns, interrupted>>

(***************************************************************************)
(* do_patch is killed: the patch may be in, in part, or out, with quilt    *)
(* perhaps only in series, and with git the hooks may be where they were   *)
(* put for the duration.                                                   *)
(***************************************************************************)
PatchingKilled ==
    /\ patchStep = "patching" /\ patchStep' = "killed" /\ interrupted' = TRUE
    /\ LET p == Patches[patchNext] IN
       /\ \/ Fits(p) /\ applied' = Append(applied, p) /\ UNCHANGED half
          \/ Fits(p) /\ half' = {p} /\ UNCHANGED applied
          \/ UNCHANGED <<applied, half>>
       /\ \/ patchTool = "quilt" /\ series' = Append(series, p)
          \/ UNCHANGED series
    /\ \/ /\ patchTool = "git" /\ ~HooksBlocked
          /\ hooks' \in {"none", "devtool"} /\ backup' = hooks
       \/ UNCHANGED <<hooks, backup>>
    /\ UNCHANGED <<patchTool, patchResolver, hadHooks, patchNext, patchRuns>>

PatchNext == \/ StartPatching \/ PatchWithPatch \/ PatchWithGit \/ PatchWithQuilt
             \/ PatchingKilled

PatchSpec == PatchInit /\ [][PatchNext]_patchVars

-----------------------------------------------------------------------------
PatchTypeOK ==
    /\ patchStep \in {"idle", "patching", "patched", "failed", "killed"}
    /\ applied \in Seq(ToSet(Patches)) /\ series \in Seq(ToSet(Patches))
    /\ half \subseteq ToSet(Patches) /\ patchNext \in 1..(Len(Patches) + 1)
    /\ {hooks, backup} \subseteq {"none", "user", "devtool"}

(* A do_patch that ends well leaves a tree with all the patches, whole and *)
(* in their order, whatever runs before it failed or were killed, and what *)
(* a run that failed before a patch went in by half has applied, the next  *)
(* run with patch can reverse to the tree it was (patch.bbclass:120,       *)
(* patch.py:187, 213).                                                     *)
PatchedExactly ==
    /\ patchStep = "patched" /\ patchResolver = "noop" => applied = Patches /\ half = {}
    /\ patchTool = "patch" /\ half = {} /\ ~interrupted => Reversed = Len(series) /\ LeftApplied = <<>>

(* The hooks of the user's repository survive: they are in place whenever  *)
(* no run was killed, and otherwise there or put aside (patch.py:486).     *)
HooksSurvive ==
    /\ ~interrupted => backup = "none" /\ (hooks = IF hadHooks THEN "user" ELSE "none")
    /\ hadHooks => "user" \in {hooks, backup}

(* Both: whatever fails or is killed, do_patch ends well only on the whole *)
(* patched tree, and the user's hooks are not lost (patch.bbclass:120,     *)
(* patch.py:187, 213, 486).                                                *)
PatchingKeeps == PatchedExactly /\ HooksSurvive
=============================================================================
