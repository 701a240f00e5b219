----------------------------- MODULE DepResolve -----------------------------
(***************************************************************************)
(* The order in which scripts put off to the first boot are saved: the     *)
(* depth first walk of _dep_resolve in lib/oe/rootfs.py, of what the       *)
(* packages that are still unpacked need, from a node above them all.  A   *)
(* call that has not returned is an element of calls, the first one's in   *)
(* front.  Keys of a dictionary come in any order.                         *)
(***************************************************************************)
EXTENDS Naturals, Sequences, SequencesExt

CONSTANTS Pkgs,          \* packages
          Depends,       \* [Pkgs -> SUBSET Pkgs], RDEPENDS, perhaps with cycles
          PostinstRoot   \* "__packagegroup_postinst__"

ASSUME GraphAssumption == Depends \in [Pkgs -> SUBSET Pkgs] /\ PostinstRoot \notin Pkgs

VARIABLES postinsts,  \* the packages the status file has as unpacked
          calls,      \* the calls, each with its node and the edges it has not looked at
          seenNodes,  \* nodes that a call was made for
          resolved    \* the packages in order
resolveVars == <<postinsts, calls, seenNodes, resolved>>

NotResolving == postinsts = {} /\ calls = <<>> /\ seenNodes = {} /\ resolved = <<>>

(* Dependencies that are not put off themselves are left out.              *)
Graph(node) == IF node = PostinstRoot THEN postinsts ELSE Depends[node] \cap postinsts

Call(node) == [node |-> node, left |-> Graph(node)]

StartResolve(S) ==
    /\ postinsts' = S /\ seenNodes' = {PostinstRoot} /\ resolved' = <<>>
    /\ calls' = <<[node |-> PostinstRoot, left |-> S]>>

LookedAt(edge) == [calls EXCEPT ![Len(calls)].left = @ \ {edge}]

ResolveEdge ==
    /\ calls # <<>>
    /\ \E edge \in Last(calls).left :
         \/ /\ edge \in ToSet(resolved)
            /\ calls' = LookedAt(edge) /\ UNCHANGED seenNodes
         \/ /\ edge \notin ToSet(resolved) /\ edge \notin seenNodes
            /\ calls' = Append(LookedAt(edge), Call(edge)) /\ seenNodes' = seenNodes \cup {edge}
    /\ UNCHANGED <<postinsts, resolved>>

(* RuntimeError: a circular dependency in postinsts scripts.               *)
CircularEdge == calls # <<>> /\ \E edge \in Last(calls).left : edge \in seenNodes \ ToSet(resolved)

\* mistake: a node is put in front of what it needs
ResolveNodeFirst ==
    /\ Len(calls) > 1 /\ Last(calls).left = {}
    /\ resolved' = <<Last(calls).node>> \o resolved /\ calls' = Front(calls)
    /\ UNCHANGED <<postinsts, seenNodes>>

\* mistake: the node above them all stays in the list
ResolveRootToo ==
    /\ Len(calls) > 0 /\ Last(calls).left = {}
    /\ resolved' = Append(resolved, Last(calls).node) /\ calls' = Front(calls)
    /\ UNCHANGED <<postinsts, seenNodes>>

ResolveNode ==
    /\ Len(calls) > 1 /\ Last(calls).left = {}
    /\ resolved' = Append(resolved, Last(calls).node) /\ calls' = Front(calls)
    /\ UNCHANGED <<postinsts, seenNodes>>

(* The call for the node above them all is about to return; this node is   *)
(* taken out of the list again.                                            *)
AllResolved == Len(calls) = 1 /\ Last(calls).left = {}
=============================================================================
