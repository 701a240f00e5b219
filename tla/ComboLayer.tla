----------------------------- MODULE ComboLayer -----------------------------
(***************************************************************************)
(* scripts/combo-layer, update with patches: the commits of component      *)
(* repositories become patches that are applied to one combined            *)
(* repository, and last_revision in its configuration file says how far.   *)
(* Commits are numbered, in the order in which rev-list names them; Reach  *)
(* says what a commit is made on, and Heads what the head of the branch is *)
(* from one pull to the next.                                              *)
(***************************************************************************)
EXTENDS Naturals, Sequences

CONSTANTS Components,
          Reach,          \* [commit -> it and its ancestors]
          Merges,         \* the merge commits, of which no patch is made
          Heads,          \* [component -> <<commit, ...>>]
          MaxComboRuns    \* bound on the updates

ASSUME ComboAssumption ==
    /\ \A r \in DOMAIN Reach : \A q \in Reach[r] :
         q \in DOMAIN Reach /\ q \in Nat /\ Reach[q] \subseteq Reach[r] /\ q <= r
    /\ \A r \in DOMAIN Reach : r \in Reach[r]
    /\ \A c \in Components : Heads[c] # <<>> /\ Heads[c] \in Seq(DOMAIN Reach)

VARIABLES head,           \* [component -> position of its branch in Heads]
          lastRevision,   \* [component -> commit], the configuration file
          committed,      \* the same in the combined repository's last commit
          combined,       \* [component -> commits whose patches are in it]
          leftOut,        \* [component -> commits the user has left out]
          passedOver,     \* components whose last_revision became the head of
                          \* the branch when patches up to another commit were made
          top,            \* [component -> the commit patches were made up to]
          patchlist,      \* [component -> patches of its file not yet applied]
          todo, now,      \* components to go through, and the one being applied
          prevrev,        \* the last patch gone through
          comboStep, comboRuns
comboVars == <<head, lastRevision, committed, combined, leftOut, passedOver, top, patchlist,
               todo, now, prevrev, comboStep, comboRuns>>

BranchHead(c) == Heads[c][head[c]]
PatchesOf(base, to) == (Reach[to] \ Reach[base]) \ Merges
NoPatches == [c \in Components |-> {}]

(* The process is gone, and with it all but the repositories.              *)
Exit == /\ comboStep' = "idle" /\ todo' = {} /\ now' = {} /\ prevrev' = 0
        /\ patchlist' = NoPatches /\ top' = [c \in Components |-> Heads[c][1]]

(* After init, which takes in the history up to the first head.            *)
ComboInit ==
    /\ head = [c \in Components |-> 1]
    /\ lastRevision = [c \in Components |-> Heads[c][1]] /\ committed = lastRevision
    /\ combined = [c \in Components |-> Reach[Heads[c][1]] \ Merges]
    /\ leftOut = NoPatches /\ passedOver = {}
    /\ top = lastRevision /\ patchlist = NoPatches
    /\ todo = {} /\ now = {} /\ prevrev = 0 /\ comboStep = "idle" /\ comboRuns = 0

(* A component's clone is pulled, by update itself before it begins or by  *)
(* someone else at any time.                                               *)
Pull(c) ==
    /\ head[c] < Len(Heads[c]) /\ head' = [head EXCEPT ![c] = @ + 1]
    /\ UNCHANGED <<lastRevision, committed, combined, leftOut, passedOver, top, patchlist,
                   todo, now, prevrev, comboStep, comboRuns>>

(* The clean repository is a precondition, and the configuration file is   *)
(* in it.  Patches are made for all components before any is applied, up   *)
(* to the revision on the command line or the head of the branch.          *)
StartCombo ==
    /\ comboStep = "idle" /\ comboRuns < MaxComboRuns /\ lastRevision = committed
    /\ \E repos \in (SUBSET Components) \ {{}} :
       \E to \in {t \in [Components -> DOMAIN Reach] :
                    \A c \in Components : IF c \in repos THEN t[c] \in Reach[BranchHead(c)]
                                                         ELSE t[c] = top[c]} :
         /\ todo' = repos /\ top' = to
         /\ patchlist' = [c \in Components |->
                IF c \in repos THEN PatchesOf(lastRevision[c], to[c]) ELSE {}]
    /\ comboStep' = "edit" /\ comboRuns' = comboRuns + 1
    /\ UNCHANGED <<head, lastRevision, committed, combined, leftOut, passedOver, now, prevrev>>

(* The user may take patches from the lists (interactive mode).            *)
EditPatchlist ==
    /\ comboStep = "edit" /\ comboStep' = "next"
    /\ \E out \in SUBSET {e \in todo \X DOMAIN Reach : e[2] \in patchlist[e[1]]} :
         /\ patchlist' = [c \in Components |-> {p \in patchlist[c] : <<c, p>> \notin out}]
         /\ leftOut' = [c \in Components |->
                leftOut[c] \cup {p \in patchlist[c] : <<c, p>> \in out}]
    /\ UNCHANGED <<head, lastRevision, committed, combined, passedOver, top, todo, now,
                   prevrev, comboRuns>>

NextComponent ==
    /\ comboStep = "next" /\ todo # {} /\ comboStep' = "apply"
    /\ \E c \in todo : now' = {c} /\ todo' = todo \ {c} /\ prevrev' = lastRevision[c]
    /\ UNCHANGED <<head, lastRevision, committed, combined, leftOut, passedOver, top,
                   patchlist, comboRuns>>

(***************************************************************************)
(* git am of the next patch.  It fails for one that is in already, and may *)
(* fail for others; then the user, in a shell, applies the patch and goes  *)
(* on, goes on without it, or gives up, which saves the revision before.   *)
(***************************************************************************)
First(S) == {p \in S : \A q \in S : p <= q}

\* mistake: the revision of the patch that failed is saved
ApplyAndSave(c) ==
    /\ comboStep = "apply" /\ now = {c}
    /\ \E p \in First(patchlist[c]) :
       \/ /\ combined' = [combined EXCEPT ![c] = @ \cup {p}] /\ prevrev' = p
          /\ patchlist' = [patchlist EXCEPT ![c] = @ \ {p}]
          /\ UNCHANGED <<lastRevision, leftOut, comboStep, top, todo, now>>
       \/ /\ lastRevision' = [lastRevision EXCEPT ![c] = p] /\ Exit
          /\ UNCHANGED <<combined, leftOut>>
    /\ UNCHANGED <<head, committed, passedOver, comboRuns>>

ApplyPatch(c) ==
    /\ comboStep = "apply" /\ now = {c}
    /\ \E p \in First(patchlist[c]) :
       \/ /\ prevrev' = p /\ patchlist' = [patchlist EXCEPT ![c] = @ \ {p}]
          /\ \/ combined' = [combined EXCEPT ![c] = @ \cup {p}] /\ UNCHANGED leftOut
             \/ leftOut' = [leftOut EXCEPT ![c] = @ \cup {p}] /\ UNCHANGED combined
          /\ UNCHANGED <<lastRevision, comboStep, top, todo, now>>
       \/ /\ lastRevision' = [lastRevision EXCEPT ![c] = prevrev] /\ Exit
          /\ UNCHANGED <<combined, leftOut>>
    /\ UNCHANGED <<head, committed, passedOver, comboRuns>>

(* The head of the branch as it is now, if there was no patch or it is a   *)
(* merge that the last patch is not, or else the last patch.               *)
SaveRevision(c) ==
    /\ comboStep = "apply" /\ now = {c} /\ patchlist[c] = {}
    /\ comboStep' = "next" /\ now' = {} /\ prevrev' = 0
    /\ LET toHead == prevrev = lastRevision[c] \/ BranchHead(c) \in Merges IN
       /\ lastRevision' = [lastRevision EXCEPT ![c] = IF toHead THEN BranchHead(c) ELSE prevrev]
       /\ passedOver' = IF toHead /\ top[c] # BranchHead(c) THEN passedOver \cup {c}
                                                            ELSE passedOver
    /\ UNCHANGED <<head, committed, combined, leftOut, top, patchlist, todo, comboRuns>>

CommitConf ==
    /\ comboStep = "next" /\ todo = {} /\ Exit /\ committed' = lastRevision
    /\ UNCHANGED <<head, lastRevision, combined, leftOut, passedOver, comboRuns>>

(* The user makes the repository clean again, one way or the other.        *)
MakeClean ==
    /\ comboStep = "idle" /\ lastRevision # committed
    /\ \/ committed' = lastRevision /\ UNCHANGED lastRevision
       \/ lastRevision' = committed /\ UNCHANGED committed
    /\ UNCHANGED <<head, combined, leftOut, passedOver, top, patchlist, todo, now, prevrev,
                   comboStep, comboRuns>>

ComboKilled ==
    /\ comboStep # "idle" /\ Exit
    /\ UNCHANGED <<head, lastRevision, committed, combined, leftOut, passedOver, comboRuns>>

ComboNext == \/ StartCombo \/ EditPatchlist \/ NextComponent \/ CommitConf \/ MakeClean
             \/ ComboKilled
             \/ \E c \in Components : Pull(c) \/ ApplyPatch(c) \/ SaveRevision(c)

ComboSpec == ComboInit /\ [][ComboNext]_comboVars

-----------------------------------------------------------------------------
ComboTypeOK ==
    /\ head \in [Components -> Nat \ {0}] /\ \A c \in Components : head[c] \in DOMAIN Heads[c]
    /\ {lastRevision, committed, top} \subseteq [Components -> DOMAIN Reach]
    /\ {combined, leftOut, patchlist} \subseteq [Components -> SUBSET DOMAIN Reach]
    /\ passedOver \subseteq Components /\ todo \subseteq Components /\ now \subseteq Components

(* Whatever an update that stops does not do, the next one does: every     *)
(* commit that last_revision stands for is in the combined repository, or  *)
(* the user has left it out, unless last_revision became the head of the   *)
(* branch when patches were made up to another commit                      *)
(* (combo-layer:824-854).                                                  *)
NoCommitLost ==
    \A c \in Components \ passedOver :
        Reach[lastRevision[c]] \ Merges \subseteq combined[c] \cup leftOut[c]
=============================================================================
