---------------------------- MODULE TasksProofs ----------------------------
(* What holds of the image that do_rootfs builds, for any packages, of the *)
(* tree that do_patch patches, for any patches, and of the packages that   *)
(* do_package makes, for anything in D and any FILES.                      *)
EXTENDS RootfsImage, PatchTree, PackageSplit, TLAPS, FiniteSetTheorems, SequenceTheorems,
        WellFoundedInduction

(* What the least closed set is for, any packages and dependencies.        *)
LEMMA ClosureIsClosed ==
  ASSUME NEW S \in SUBSET Pkgs
  PROVE  Closure(S) \in SUBSET Pkgs /\ S \subseteq Closure(S) /\ Closed(Closure(S))
<1>1. Closure(S) \in SUBSET Pkgs /\ S \subseteq Closure(S)
  BY DEF Closure
<1>2. ASSUME NEW p \in Closure(S), NEW q \in Depends[p], NEW T \in ClosedSets, S \subseteq T
      PROVE  q \in T
  BY <1>2 DEF Closure, ClosedSets, Closed
<1>3. \A p \in Closure(S) : Depends[p] \subseteq Pkgs
  BY <1>1, GraphAssumption DEF GraphAssumption
<1> QED
  BY <1>1, <1>2, <1>3 DEF Closure, Closed

LEMMA ClosureIsLeast ==
  ASSUME NEW S, NEW T \in SUBSET Pkgs, Closed(T), S \subseteq T
  PROVE  Closure(S) \subseteq T
  BY DEF Closure, ClosedSets

LEMMA ClosureMonotone ==
  ASSUME NEW T \in SUBSET Pkgs, NEW S \in SUBSET T
  PROVE  Closure(S) \subseteq Closure(T)
<1>1. S \subseteq Closure(T) /\ Closure(T) \in SUBSET Pkgs /\ Closed(Closure(T))
  BY ClosureIsClosed
<1> QED
  BY <1>1, ClosureIsLeast

LEMMA ClosureOfUnion ==
  ASSUME NEW S \in SUBSET Pkgs, NEW T \in SUBSET Pkgs
  PROVE  Closure(S \cup T) = Closure(S) \cup Closure(T)
<1>. DEFINE U == Closure(S) \cup Closure(T)
<1>1. U \in SUBSET Pkgs /\ S \cup T \subseteq U /\ Closed(U)
  BY ClosureIsClosed DEF Closed
<1>2. Closure(S \cup T) \subseteq U
  BY <1>1, ClosureIsLeast
<1>3. Closure(S) \subseteq Closure(S \cup T) /\ Closure(T) \subseteq Closure(S \cup T)
  BY ClosureMonotone
<1> QED
  BY <1>2, <1>3

(* A closed set stays closed when what needs one of S goes with S.         *)
LEMMA DependentsGo ==
  ASSUME NEW S \in SUBSET Pkgs, NEW T \in SUBSET Pkgs, Closed(T)
  PROVE  Closed(T \ Dependents(S)) /\ S \subseteq Dependents(S)
<1>1. \A p \in Pkgs : p \in Closure({p}) /\ Depends[p] \subseteq Closure({p})
  BY ClosureIsClosed DEF Closed
<1>2. ASSUME NEW p \in T, NEW q \in Depends[p], q \in Dependents(S) PROVE p \in Dependents(S)
  <2>1. q \in Closure({p}) /\ q \in Pkgs
    BY <1>1, <1>2 DEF Dependents
  <2>2. Closure({p}) \in SUBSET Pkgs /\ Closed(Closure({p}))
    BY ClosureIsClosed
  <2>3. Closure({q}) \subseteq Closure({p})
    BY <2>1, <2>2, ClosureIsLeast
  <2> QED
    BY <1>2, <2>3 DEF Dependents
<1> QED
  BY <1>1, <1>2 DEF Dependents, Closed

LEMMA ComplementaryIn ==
  ASSUME NEW S \in SUBSET Pkgs, NEW T \in SUBSET S
  PROVE  Complementary(T) \subseteq Complementary(S) /\ Complementary(S) \subseteq Pkgs
  BY PkgsAssumption DEF PkgsAssumption, Complementary

(* A finite set as a sequence holds each member once.                      *)
LEMMA SetToSeqHolds ==
  ASSUME NEW S, IsFiniteSet(S)
  PROVE  SetToSeq(S) \in Seq(S) /\ ToSet(SetToSeq(S)) = S /\ IsInjective(SetToSeq(S))
<1>. DEFINE n == Cardinality(S)
<1>1. n \in Nat /\ ExistsBijection(1..n, S)
  BY FS_CardinalityType
<1>2. PICK b \in [1..n -> S] : IsInjective(b)
  BY <1>1 DEF ExistsBijection, Bijection, Injection
<1>3. SetToSeq(S) \in [1..n -> S] /\ IsInjective(SetToSeq(S))
  BY <1>2 DEF SetToSeq
<1>4. IsFiniteSet(1..n) /\ Cardinality(1..n) = n
  BY <1>1, FS_Interval
<1>5. SetToSeq(S) \in Surjection(1..n, S)
  BY <1>3, <1>4, FS_Injection DEF Injection
<1>6. ToSet(SetToSeq(S)) = S
  BY <1>3, <1>5 DEF ToSet, Surjection
<1>7. SetToSeq(S) \in Seq(S)
  BY <1>1, <1>3, SeqDef
<1> QED
  BY <1>3, <1>6, <1>7

(* What is saved after other things.                                       *)
LEMMA ConcatHolds ==
  ASSUME NEW S, NEW a \in Seq(S), NEW b \in Seq(S)
  PROVE  a \o b \in Seq(S) /\ ToSet(a \o b) = ToSet(a) \cup ToSet(b)
<1>1. /\ a \o b \in Seq(S) /\ Len(a \o b) = Len(a) + Len(b)
      /\ Len(a) \in Nat /\ Len(b) \in Nat
      /\ DOMAIN a = 1 .. Len(a) /\ DOMAIN b = 1 .. Len(b)
  BY ConcatProperties, LenProperties
<1>2. DOMAIN (a \o b) = 1 .. Len(a) + Len(b)
  BY <1>1, LenProperties
<1>3. \A i \in 1 .. Len(a) + Len(b) : (a \o b)[i] = IF i <= Len(a) THEN a[i] ELSE b[i - Len(a)]
  BY ConcatProperties
<1>4. ASSUME NEW i \in DOMAIN (a \o b)
      PROVE  \/ i \in DOMAIN a /\ (a \o b)[i] = a[i] /\ i <= Len(a)
             \/ i - Len(a) \in DOMAIN b /\ (a \o b)[i] = b[i - Len(a)] /\ i > Len(a)
  BY <1>1, <1>2, <1>3
<1>5. \A i \in DOMAIN a : i \in DOMAIN (a \o b) /\ (a \o b)[i] = a[i]
  BY <1>1, <1>2, <1>3
<1>6. ASSUME NEW i \in DOMAIN b
      PROVE  i + Len(a) \in DOMAIN (a \o b) /\ (a \o b)[i + Len(a)] = b[i]
  <2>1. i + Len(a) \in 1 .. Len(a) + Len(b) /\ ~(i + Len(a) <= Len(a)) /\ i + Len(a) - Len(a) = i
    BY <1>1
  <2> QED
    BY <1>2, <1>3, <2>1
<1>7. ToSet(a \o b) = ToSet(a) \cup ToSet(b)
  <2>1. ToSet(a \o b) \subseteq ToSet(a) \cup ToSet(b)
    BY <1>4 DEF ToSet
  <2>2. ToSet(a) \subseteq ToSet(a \o b)
    BY <1>5 DEF ToSet
  <2>3. ToSet(b) \subseteq ToSet(a \o b)
    BY <1>6 DEF ToSet
  <2> QED
    BY <2>1, <2>2, <2>3
<1> QED
  BY <1>1, <1>7

(* The walk, call by call.                                                 *)
Frames == [node : postinsts \cup {PostinstRoot}, left : SUBSET postinsts]

WalkTypeOK ==
    /\ postinsts \subseteq Pkgs /\ calls \in Seq(Frames) /\ resolved \in Seq(postinsts)
    /\ calls # <<>> /\ seenNodes \subseteq postinsts \cup {PostinstRoot}

(* A node is seen while its call runs and after that it is resolved; what  *)
(* it needs is resolved, not looked at yet, or the node of the next call.  *)
OnTheWay ==
    \A i \in 1 .. Len(calls) :
        /\ calls[i].node \in seenNodes \ ToSet(resolved)
        /\ calls[i].node = PostinstRoot <=> i = 1
        /\ calls[i].left \subseteq Graph(calls[i].node)
        /\ \A e \in Graph(calls[i].node) :
              e \in calls[i].left \cup ToSet(resolved) \/ (i < Len(calls) /\ e = calls[i + 1].node)

(* Each call was made for something the calls before it need.              *)
PathInv ==
    /\ \A i, j \in 2 .. Len(calls) : i < j => calls[j].node \in Closure(Depends[calls[i].node])
    /\ \A i, j \in 1 .. Len(calls) : calls[i].node = calls[j].node => i = j

SeenInv == \A n \in seenNodes : n \in ToSet(resolved) \/ \E i \in 1 .. Len(calls) : calls[i].node = n

OrderInv ==
    /\ IsInjective(resolved) /\ ToSet(resolved) \subseteq seenNodes
    /\ \A j \in 1 .. Len(resolved) : \A q \in Depends[resolved[j]] \cap postinsts :
          \E i \in 1 .. j - 1 : resolved[i] = q

WalkInv == WalkTypeOK /\ OnTheWay /\ PathInv /\ SeenInv /\ OrderInv

LEMMA WalkStart ==
  ASSUME NEW S \in SUBSET Pkgs, StartResolve(S)
  PROVE  WalkInv'
<1>1. /\ postinsts' = S /\ seenNodes' = {PostinstRoot} /\ resolved' = <<>>
      /\ calls' = <<[node |-> PostinstRoot, left |-> S]>> /\ Len(calls') = 1
      /\ calls'[1] = [node |-> PostinstRoot, left |-> S]
  BY DEF StartResolve
<1>2. WalkTypeOK'
  BY <1>1 DEF WalkTypeOK, Frames
<1>3. ToSet(resolved') = {} /\ Len(resolved') = 0 /\ IsInjective(resolved')
  BY <1>1 DEF ToSet, IsInjective
<1>4. OnTheWay'
  BY <1>1, <1>3 DEF OnTheWay, Graph
<1>5. PathInv' /\ SeenInv' /\ OrderInv'
  BY <1>1, <1>3 DEF PathInv, SeenInv, OrderInv
<1> QED
  BY <1>2, <1>4, <1>5 DEF WalkInv

(* What looking at an edge of the last call does.                          *)
LEMMA LookedAtIs ==
  ASSUME WalkTypeOK, NEW edge
  PROVE  /\ LookedAt(edge) \in Seq(Frames) /\ Len(LookedAt(edge)) = Len(calls)
         /\ Len(calls) \in Nat \ {0} /\ Last(calls) = calls[Len(calls)]
         /\ \A i \in 1 .. Len(calls) :
               /\ LookedAt(edge)[i].node = calls[i].node
               /\ LookedAt(edge)[i].left =
                     IF i = Len(calls) THEN calls[i].left \ {edge} ELSE calls[i].left
<1>1. Len(calls) \in Nat \ {0} /\ Last(calls) = calls[Len(calls)]
  BY EmptySeq DEF WalkTypeOK, Last
<1>2. calls[Len(calls)] \in Frames /\ DOMAIN calls = 1 .. Len(calls)
  BY <1>1 DEF WalkTypeOK
<1>3. [calls[Len(calls)] EXCEPT !.left = @ \ {edge}] \in Frames
  BY <1>2 DEF Frames
<1>4. LookedAt(edge) \in Seq(Frames)
  BY <1>1, <1>3, ExceptSeq DEF LookedAt, WalkTypeOK
<1>5. Len(LookedAt(edge)) = Len(calls)
  BY <1>1, <1>3, ExceptSeq DEF LookedAt, WalkTypeOK
<1>6. \A i \in 1 .. Len(calls) :
        LookedAt(edge)[i] = IF i = Len(calls) THEN [calls[Len(calls)] EXCEPT !.left = @ \ {edge}] ELSE calls[i]
  BY <1>1, <1>2 DEF LookedAt
<1> QED
  BY <1>1, <1>2, <1>4, <1>5, <1>6 DEF Frames

LEMMA WalkSkips ==
  ASSUME WalkInv, NEW edge \in Last(calls).left, edge \in ToSet(resolved),
         calls' = LookedAt(edge), UNCHANGED <<postinsts, seenNodes, resolved>>
  PROVE  WalkInv'
<1>0. WalkTypeOK /\ OnTheWay /\ PathInv /\ SeenInv /\ OrderInv
  BY DEF WalkInv
<1>1. /\ calls' \in Seq(Frames) /\ Len(calls') = Len(calls) /\ Len(calls) \in Nat \ {0}
      /\ \A i \in 1 .. Len(calls) :
            /\ calls'[i].node = calls[i].node
            /\ calls'[i].left = IF i = Len(calls) THEN calls[i].left \ {edge} ELSE calls[i].left
  BY <1>0, LookedAtIs
<1>2. WalkTypeOK'
  <2>1. calls' # <<>>
    BY <1>1
  <2> QED
    BY <1>0, <1>1, <2>1 DEF WalkTypeOK, Frames
<1>3. OnTheWay'
  <2>1. \A n : Graph(n)' = Graph(n)
    BY DEF Graph
  <2> SUFFICES ASSUME NEW i \in 1 .. Len(calls)
               PROVE  /\ calls'[i].node \in seenNodes \ ToSet(resolved)
                      /\ calls'[i].node = PostinstRoot <=> i = 1
                      /\ calls'[i].left \subseteq Graph(calls'[i].node)
                      /\ \A e \in Graph(calls'[i].node) :
                            \/ e \in calls'[i].left \cup ToSet(resolved)
                            \/ i < Len(calls) /\ e = calls'[i + 1].node
    BY <1>1, <2>1 DEF OnTheWay
  <2>2. /\ calls[i].node \in seenNodes \ ToSet(resolved)
        /\ calls[i].node = PostinstRoot <=> i = 1
        /\ calls[i].left \subseteq Graph(calls[i].node)
        /\ \A e \in Graph(calls[i].node) :
              e \in calls[i].left \cup ToSet(resolved) \/ (i < Len(calls) /\ e = calls[i + 1].node)
    BY <1>0 DEF OnTheWay
  <2>3. i < Len(calls) => i + 1 \in 1 .. Len(calls)
    BY <1>1
  <2> QED
    BY <1>1, <2>2, <2>3
<1>4. PathInv' /\ SeenInv'
  <2>1. \A i \in 2 .. Len(calls) : i \in 1 .. Len(calls)
    BY <1>1
  <2>2. \A i, j \in 2 .. Len(calls) : i < j => calls'[j].node \in Closure(Depends[calls'[i].node])
    BY <1>0, <1>1, <2>1 DEF PathInv
  <2>3. \A i, j \in 1 .. Len(calls) : calls'[i].node = calls'[j].node => i = j
    BY <1>0, <1>1 DEF PathInv
  <2>4. PathInv'
    BY <1>1, <2>2, <2>3 DEF PathInv, Closure, ClosedSets, Closed
  <2>5. ASSUME NEW m \in seenNodes
        PROVE  m \in ToSet(resolved) \/ \E i \in 1 .. Len(calls) : calls'[i].node = m
    <3>1. m \in ToSet(resolved) \/ \E i \in 1 .. Len(calls) : calls[i].node = m
      BY <1>0 DEF SeenInv
    <3> QED
      BY <1>1, <3>1
  <2>6. SeenInv'
    BY <1>1, <2>5 DEF SeenInv
  <2> QED
    BY <2>4, <2>6
<1>5. OrderInv'
  BY <1>0 DEF OrderInv
<1> QED
  BY <1>2, <1>3, <1>4, <1>5 DEF WalkInv

(* A call for an edge: what needs it is the call before, and by way of it  *)
(* all the calls before that.                                              *)
LEMMA WalkCalls ==
  ASSUME WalkInv, NEW edge \in Last(calls).left, edge \notin ToSet(resolved), edge \notin seenNodes,
         calls' = Append(LookedAt(edge), Call(edge)), seenNodes' = seenNodes \cup {edge},
         UNCHANGED <<postinsts, resolved>>
  PROVE  WalkInv'
<1>0. WalkTypeOK /\ OnTheWay /\ PathInv /\ SeenInv /\ OrderInv
  BY DEF WalkInv
<1>. DEFINE n == Len(calls)
<1>1. /\ LookedAt(edge) \in Seq(Frames) /\ Len(LookedAt(edge)) = n
      /\ n \in Nat \ {0} /\ Last(calls) = calls[n]
      /\ \A i \in 1 .. n :
            /\ LookedAt(edge)[i].node = calls[i].node
            /\ LookedAt(edge)[i].left = IF i = n THEN calls[i].left \ {edge} ELSE calls[i].left
  BY <1>0, LookedAtIs
<1>2. /\ calls[n].node \in seenNodes \ ToSet(resolved)
      /\ calls[n].left \subseteq Graph(calls[n].node) /\ (calls[n].node = PostinstRoot <=> n = 1)
  BY <1>0, <1>1 DEF OnTheWay
<1>3. /\ edge \in postinsts /\ postinsts \subseteq Pkgs /\ edge # PostinstRoot
      /\ n # 1 => edge \in Depends[calls[n].node] /\ calls[n].node \in Pkgs
  <2>1. calls[n] \in Frames /\ postinsts \subseteq Pkgs
    BY <1>0, <1>1 DEF WalkTypeOK
  <2>2. edge \in postinsts /\ edge # PostinstRoot /\ edge \in Graph(calls[n].node)
    <3>1. edge \in calls[n].left /\ calls[n].left \subseteq postinsts
      BY <1>1, <2>1 DEF Frames
    <3> QED
      BY <1>2, <2>1, <3>1, GraphAssumption DEF GraphAssumption
  <2>3. calls[n].node \in postinsts \cup {PostinstRoot}
    BY <2>1 DEF Frames
  <2> QED
    BY <1>2, <2>1, <2>2, <2>3 DEF Graph
<1>4. Call(edge) \in Frames /\ Call(edge).node = edge /\ Call(edge).left = Graph(edge)
  BY <1>3 DEF Call, Frames, Graph
<1>5. /\ calls' \in Seq(Frames) /\ Len(calls') = n + 1
      /\ \A i \in 1 .. n : calls'[i] = LookedAt(edge)[i]
      /\ calls'[n + 1] = Call(edge)
  <2>1. /\ Append(LookedAt(edge), Call(edge)) \in Seq(Frames)
        /\ Len(Append(LookedAt(edge), Call(edge))) = n + 1
    BY <1>1, <1>4, AppendProperties
  <2>2. \A i \in 1 .. n + 1 : Append(LookedAt(edge), Call(edge))[i] =
              IF i <= n THEN LookedAt(edge)[i] ELSE Call(edge)
    BY <1>1, <1>4, AppendProperties
  <2>3. \A i \in 1 .. n : i \in 1 .. n + 1 /\ i <= n
    BY <1>1
  <2>4. n + 1 \in 1 .. n + 1 /\ ~(n + 1 <= n)
    BY <1>1
  <2> QED
    BY <2>1, <2>2, <2>3, <2>4
<1>6. /\ \A i \in 1 .. n : calls'[i].node = calls[i].node /\ calls'[i].left \subseteq calls[i].left
      /\ \A i \in 1 .. n : \A e \in calls[i].left : e \in calls'[i].left \/ (i = n /\ e = edge)
      /\ calls'[n + 1].node = edge /\ calls'[n + 1].left = Graph(edge)
  BY <1>1, <1>4, <1>5
<1>. HIDE DEF n
<1>7. WalkTypeOK'
  <2>1. calls' # <<>>
    BY <1>1, <1>5
  <2> QED
    BY <1>0, <1>3, <1>5, <2>1 DEF WalkTypeOK, Frames
<1>8. \A i \in 1 .. n + 1 : i \in 1 .. n \/ i = n + 1
  BY <1>1
<1>9. OnTheWay'
  <2>1. \A m : Graph(m)' = Graph(m)
    BY DEF Graph
  <2> SUFFICES ASSUME NEW i \in 1 .. n + 1
               PROVE  /\ calls'[i].node \in (seenNodes \cup {edge}) \ ToSet(resolved)
                      /\ calls'[i].node = PostinstRoot <=> i = 1
                      /\ calls'[i].left \subseteq Graph(calls'[i].node)
                      /\ \A e \in Graph(calls'[i].node) :
                            \/ e \in calls'[i].left \cup ToSet(resolved)
                            \/ i < n + 1 /\ e = calls'[i + 1].node
    BY <1>5, <2>1 DEF OnTheWay
  <2>2. CASE i = n + 1
    <3>1. i # 1
      BY <1>1, <2>2
    <3> QED
      BY <1>3, <1>6, <2>2, <3>1
  <2>3. CASE i \in 1 .. n
    <3>1. /\ calls[i].node \in seenNodes \ ToSet(resolved)
          /\ calls[i].node = PostinstRoot <=> i = 1
          /\ calls[i].left \subseteq Graph(calls[i].node)
          /\ \A e \in Graph(calls[i].node) :
                e \in calls[i].left \cup ToSet(resolved) \/ (i < n /\ e = calls[i + 1].node)
      BY <1>0, <2>3 DEF OnTheWay, n
    <3>2. i < n + 1 /\ (i < n => i + 1 \in 1 .. n)
      BY <1>1, <2>3
    <3>3. ASSUME NEW e \in Graph(calls[i].node)
          PROVE  e \in calls'[i].left \cup ToSet(resolved) \/ e = calls'[i + 1].node
      <4>1. CASE e \in calls[i].left
        BY <1>6, <2>3, <4>1
      <4>2. CASE i < n /\ e = calls[i + 1].node
        BY <1>6, <3>2, <4>2
      <4> QED
        BY <3>1, <4>1, <4>2
    <3> QED
      BY <1>6, <2>3, <3>1, <3>2, <3>3
  <2> QED
    BY <1>8, <2>2, <2>3
<1>a. \A i, j \in 1 .. n + 1 : calls'[i].node = calls'[j].node => i = j
  <2>1. \A i \in 1 .. n : calls'[i].node # edge
    <3>1. \A i \in 1 .. n : calls[i].node \in seenNodes
      BY <1>0 DEF OnTheWay, n
    <3> QED
      BY <1>6, <3>1
  <2>2. \A i, j \in 1 .. n : calls'[i].node = calls'[j].node => i = j
    BY <1>0, <1>6 DEF PathInv, n
  <2> SUFFICES ASSUME NEW i \in 1 .. n + 1, NEW j \in 1 .. n + 1,
                      calls'[i].node = calls'[j].node
               PROVE  i = j
    OBVIOUS
  <2>3. CASE i \in 1 .. n /\ j \in 1 .. n
    BY <2>2, <2>3
  <2>4. CASE i = n + 1 \/ j = n + 1
    <3>1. calls'[n + 1].node = edge
      BY <1>6
    <3> QED
      BY <1>8, <2>1, <2>4, <3>1
  <2> QED
    BY <1>8, <2>3, <2>4
<1>10. PathInv'
  <2> SUFFICES ASSUME NEW i \in 2 .. n + 1, NEW j \in 2 .. n + 1, i < j
               PROVE  calls'[j].node \in Closure(Depends[calls'[i].node])
    BY <1>5, <1>a DEF PathInv, Closure, ClosedSets, Closed
  <2>1. i \in 2 .. n /\ i \in 1 .. n
    BY <1>1
  <2>2. CASE j \in 2 .. n
    <3>1. calls[j].node \in Closure(Depends[calls[i].node])
      BY <1>0, <2>1, <2>2 DEF PathInv, n
    <3>2. j \in 1 .. n
      BY <1>1, <2>2
    <3> QED
      BY <1>6, <2>1, <3>1, <3>2
  <2>3. CASE j = n + 1
    <3>1. n # 1 /\ n \in 2 .. n
      BY <1>1, <2>1
    <3>2. calls[i].node \in Pkgs
      <4>1. calls[i].node # PostinstRoot /\ calls[i] \in Frames
        <5>1. i # 1
          BY <2>1
        <5> QED
          BY <1>0, <2>1, <5>1 DEF OnTheWay, WalkTypeOK, n
      <4> QED
        BY <1>3, <4>1 DEF Frames
    <3>3. Depends[calls[i].node] \in SUBSET Pkgs
      BY <3>2, GraphAssumption DEF GraphAssumption
    <3>4. /\ Depends[calls[i].node] \subseteq Closure(Depends[calls[i].node])
          /\ Closed(Closure(Depends[calls[i].node]))
      BY <3>3, ClosureIsClosed
    <3>5. CASE i = n
      BY <1>3, <1>6, <2>1, <2>3, <3>1, <3>4, <3>5
    <3>6. CASE i # n
      <4>1. i < n
        BY <1>1, <2>1, <3>6
      <4>2. calls[n].node \in Closure(Depends[calls[i].node])
        BY <1>0, <2>1, <3>1, <4>1 DEF PathInv, n
      <4> QED
        BY <1>3, <1>6, <2>1, <2>3, <3>1, <3>4, <4>2 DEF Closed
    <3> QED
      BY <3>5, <3>6
  <2> QED
    BY <1>1, <2>2, <2>3
<1>11. SeenInv'
  <2>1. \A m \in seenNodes : m \in ToSet(resolved) \/ \E i \in 1 .. n : calls[i].node = m
    BY <1>0 DEF SeenInv, n
  <2>2. n + 1 \in 1 .. n + 1 /\ \A i \in 1 .. n : i \in 1 .. n + 1
    BY <1>1
  <2> QED
    BY <1>5, <1>6, <2>1, <2>2 DEF SeenInv
<1>12. OrderInv'
  BY <1>0 DEF OrderInv
<1> QED
  BY <1>7, <1>9, <1>10, <1>11, <1>12 DEF WalkInv

(* The last call returns: its node comes after all it needs.               *)
LEMMA WalkReturns == ASSUME WalkInv, ResolveNode PROVE WalkInv'
<1>0. WalkTypeOK /\ OnTheWay /\ PathInv /\ SeenInv /\ OrderInv
  BY DEF WalkInv
<1>. DEFINE n == Len(calls)  node == calls[n].node  m == Len(resolved)
<1>1. /\ n \in Nat /\ n > 1 /\ Last(calls) = calls[n] /\ calls[n].left = {}
      /\ resolved' = Append(resolved, node) /\ calls' = Front(calls)
      /\ UNCHANGED <<postinsts, seenNodes>>
  BY <1>0 DEF ResolveNode, Last, WalkTypeOK
<1>2. /\ calls' \in Seq(Frames) /\ Len(calls') = n - 1 /\ \A i \in 1 .. n - 1 : calls'[i] = calls[i]
  <2>1. \A i \in 1 .. n - 1 : calls[i] \in Frames
    BY <1>0, <1>1 DEF WalkTypeOK
  <2>2. 1 \in Int /\ n - 1 \in Int /\ 1 <= n - 1 /\ n - 1 - 1 + 1 = n - 1
        /\ \A i \in 1 .. n - 1 : 1 + i - 1 = i
    BY <1>1
  <2>3. /\ SubSeq(calls, 1, n - 1) \in Seq(Frames)
        /\ Len(SubSeq(calls, 1, n - 1)) = n - 1 - 1 + 1
        /\ \A i \in 1 .. n - 1 - 1 + 1 : SubSeq(calls, 1, n - 1)[i] = calls[1 + i - 1]
    BY <2>1, <2>2, SubSeqProperties
  <2> QED
    BY <1>1, <2>2, <2>3 DEF Front
<1>3. /\ node \in seenNodes \ ToSet(resolved) /\ node # PostinstRoot /\ node \in postinsts
      /\ Depends[node] \cap postinsts \subseteq ToSet(resolved)
  <2>1. /\ node \in seenNodes \ ToSet(resolved) /\ (node = PostinstRoot <=> n = 1)
        /\ \A e \in Graph(node) : e \in calls[n].left \cup ToSet(resolved)
    BY <1>0, <1>1 DEF OnTheWay
  <2> QED
    BY <1>0, <1>1, <2>1 DEF WalkTypeOK, Graph
<1>4. /\ resolved' \in Seq(postinsts) /\ m \in Nat /\ Len(resolved') = m + 1
      /\ \A i \in 1 .. m : resolved'[i] = resolved[i]
      /\ resolved'[m + 1] = node
  <2>1. /\ Append(resolved, node) \in Seq(postinsts) /\ Len(Append(resolved, node)) = m + 1
        /\ m \in Nat
    BY <1>0, <1>3, AppendProperties DEF WalkTypeOK
  <2>2. \A i \in 1 .. m + 1 : Append(resolved, node)[i] = IF i <= m THEN resolved[i] ELSE node
    BY <1>0, <1>3, AppendProperties DEF WalkTypeOK
  <2>3. /\ \A i \in 1 .. m : i \in 1 .. m + 1 /\ i <= m
        /\ m + 1 \in 1 .. m + 1 /\ ~(m + 1 <= m)
    BY <2>1
  <2> QED
    BY <1>1, <2>1, <2>2, <2>3
<1>5. DOMAIN resolved = 1 .. m /\ DOMAIN resolved' = 1 .. m + 1
  BY <1>0, <1>4 DEF WalkTypeOK
<1>6. \A i \in 1 .. m + 1 : i \in 1 .. m \/ i = m + 1
  BY <1>4
<1>7. ToSet(resolved') = ToSet(resolved) \cup {node}
  <2>1. m + 1 \in 1 .. m + 1 /\ \A i \in 1 .. m : i \in 1 .. m + 1
    BY <1>4
  <2> QED
    BY <1>4, <1>5, <1>6, <2>1 DEF ToSet
<1>8. \A i \in 1 .. n - 1 : i \in 1 .. n /\ i < n /\ calls[i].node # node
  <2>1. \A i \in 1 .. n - 1 : i \in 1 .. n /\ n \in 1 .. n /\ i < n /\ i # n
    BY <1>1
  <2> QED
    BY <1>0, <2>1 DEF PathInv
<1>9. WalkTypeOK'
  <2>1. calls' # <<>>
    BY <1>1, <1>2
  <2> QED
    BY <1>0, <1>1, <1>2, <1>4, <2>1 DEF WalkTypeOK, Frames
<1>. HIDE DEF n, m, node
<1>10. OnTheWay'
  <2>1. \A k : Graph(k)' = Graph(k)
    BY <1>1 DEF Graph
  <2> SUFFICES ASSUME NEW i \in 1 .. n - 1
               PROVE  /\ calls'[i].node \in seenNodes \ (ToSet(resolved) \cup {node})
                      /\ calls'[i].node = PostinstRoot <=> i = 1
                      /\ calls'[i].left \subseteq Graph(calls'[i].node)
                      /\ \A e \in Graph(calls'[i].node) :
                            \/ e \in calls'[i].left \cup ToSet(resolved) \cup {node}
                            \/ i < n - 1 /\ e = calls'[i + 1].node
    BY <1>1, <1>2, <1>7, <2>1 DEF OnTheWay
  <2>2. /\ calls[i].node \in seenNodes \ ToSet(resolved)
        /\ calls[i].node = PostinstRoot <=> i = 1
        /\ calls[i].left \subseteq Graph(calls[i].node)
        /\ \A e \in Graph(calls[i].node) :
              e \in calls[i].left \cup ToSet(resolved) \/ (i < n /\ e = calls[i + 1].node)
    BY <1>0, <1>8 DEF OnTheWay, n
  <2>3. i + 1 = n \/ (i < n - 1 /\ i + 1 \in 1 .. n - 1)
    BY <1>1
  <2>4. calls'[i] = calls[i] /\ calls[i].node # node
    BY <1>2, <1>8
  <2>5. i < n - 1 => calls'[i + 1] = calls[i + 1]
    BY <1>1, <1>2, <2>3
  <2> QED
    BY <2>2, <2>3, <2>4, <2>5 DEF node
<1>11. PathInv' /\ SeenInv'
  <2>1. \A i \in 2 .. n - 1 : i \in 1 .. n - 1 /\ i \in 2 .. n
    BY <1>1
  <2>2. PathInv'
    BY <1>0, <1>2, <1>8, <2>1 DEF PathInv, n, Closure, ClosedSets, Closed
  <2>3. \A k \in seenNodes : k \in ToSet(resolved) \/ \E i \in 1 .. n : calls[i].node = k
    BY <1>0 DEF SeenInv, n
  <2>4. \A i \in 1 .. n : i \in 1 .. n - 1 \/ i = n
    BY <1>1
  <2>5. SeenInv'
    BY <1>1, <1>2, <1>7, <2>3, <2>4 DEF SeenInv, node
  <2> QED
    BY <2>2, <2>5
<1>12. IsInjective(resolved')
  <2>1. \A i \in 1 .. m : resolved[i] # node
    BY <1>3, <1>5 DEF ToSet
  <2>2. \A i, j \in 1 .. m : resolved[i] = resolved[j] => i = j
    BY <1>0, <1>5 DEF OrderInv, IsInjective
  <2> QED
    BY <1>4, <1>5, <1>6, <2>1, <2>2 DEF IsInjective
<1>13. OrderInv'
  <2> SUFFICES ASSUME NEW j \in 1 .. m + 1, NEW q \in Depends[resolved'[j]] \cap postinsts
               PROVE  \E i \in 1 .. j - 1 : resolved'[i] = q
    BY <1>0, <1>1, <1>3, <1>4, <1>7, <1>12 DEF OrderInv
  <2>1. CASE j = m + 1
    <3>1. q \in ToSet(resolved)
      BY <1>3, <1>4, <2>1
    <3>2. PICK i \in 1 .. m : resolved[i] = q
      BY <1>5, <3>1 DEF ToSet
    <3> QED
      BY <1>4, <2>1, <3>2
  <2>2. CASE j \in 1 .. m
    <3>1. PICK i \in 1 .. j - 1 : resolved[i] = q
      BY <1>0, <1>4, <2>2 DEF OrderInv, m
    <3>2. i \in 1 .. m
      BY <1>4, <2>2
    <3> QED
      BY <1>4, <3>1, <3>2
  <2> QED
    BY <1>6, <2>1, <2>2
<1> QED
  BY <1>9, <1>10, <1>11, <1>13 DEF WalkInv

(* The list of a walk that is over: all that was found, each package once  *)
(* and after those it needs.                                               *)
LEMMA WalkEnds ==
  ASSUME WalkInv, AllResolved
  PROVE  /\ resolved \in Seq(postinsts) /\ ToSet(resolved) = postinsts /\ IsInjective(resolved)
         /\ \A i, j \in DOMAIN resolved : resolved[i] \in Depends[resolved[j]] => i < j
<1>0. WalkTypeOK /\ OnTheWay /\ OrderInv
  BY DEF WalkInv
<1>1. Len(calls) = 1 /\ calls[1].left = {} /\ 1 \in 1 .. Len(calls)
  BY DEF AllResolved, Last
<1>2. \A e \in Graph(calls[1].node) : e \in ToSet(resolved)
  BY <1>0, <1>1 DEF OnTheWay
<1>3. calls[1].node = PostinstRoot
  BY <1>0, <1>1 DEF OnTheWay
<1>4. ToSet(resolved) = postinsts
  <2>1. postinsts \subseteq ToSet(resolved)
    BY <1>2, <1>3 DEF Graph
  <2>2. ToSet(resolved) \subseteq postinsts
    BY <1>0 DEF WalkTypeOK, ToSet
  <2> QED
    BY <2>1, <2>2
<1>5. DOMAIN resolved = 1 .. Len(resolved) /\ Len(resolved) \in Nat
  BY <1>0 DEF WalkTypeOK
<1>6. ASSUME NEW i \in DOMAIN resolved, NEW j \in DOMAIN resolved, resolved[i] \in Depends[resolved[j]]
      PROVE  i < j
  <2>1. resolved[i] \in postinsts
    BY <1>0 DEF WalkTypeOK
  <2>2. PICK k \in 1 .. j - 1 : resolved[k] = resolved[i]
    BY <1>0, <1>5, <1>6, <2>1 DEF OrderInv
  <2>3. k \in DOMAIN resolved /\ k < j
    BY <1>5
  <2>4. k = i
    BY <1>0, <2>2, <2>3 DEF OrderInv, IsInjective
  <2> QED
    BY <2>3, <2>4
<1> QED
  BY <1>0, <1>4, <1>6 DEF WalkTypeOK, OrderInv

(* A circular dependency is reported only when there is one.               *)
LEMMA WalkRaises ==
  ASSUME WalkInv, CircularEdge
  PROVE  \E p \in postinsts : p \in Closure(Depends[p])
<1>0. WalkTypeOK /\ OnTheWay /\ PathInv /\ SeenInv
  BY DEF WalkInv
<1>. DEFINE n == Len(calls)
<1>1. n \in Nat \ {0} /\ Last(calls) = calls[n] /\ n \in 1 .. n
  BY <1>0, EmptySeq DEF WalkTypeOK, Last
<1>2. PICK edge \in calls[n].left : edge \in seenNodes \ ToSet(resolved)
  BY <1>1 DEF CircularEdge
<1>3. PICK i \in 1 .. n : calls[i].node = edge
  BY <1>0, <1>2 DEF SeenInv
<1>4. edge \in Graph(calls[n].node) /\ (calls[n].node = PostinstRoot <=> n = 1)
  BY <1>0, <1>1, <1>2 DEF OnTheWay
<1>5. edge \in postinsts /\ edge \in Pkgs /\ edge # PostinstRoot
  BY <1>0, <1>4, GraphAssumption DEF WalkTypeOK, Graph, GraphAssumption
<1>6. i # 1 /\ n # 1
  BY <1>0, <1>1, <1>3, <1>5 DEF OnTheWay
<1>7. edge \in Depends[calls[n].node]
  BY <1>4, <1>6 DEF Graph
<1>8. Depends[edge] \in SUBSET Pkgs
  BY <1>5, GraphAssumption DEF GraphAssumption
<1>9. Depends[edge] \subseteq Closure(Depends[edge]) /\ Closed(Closure(Depends[edge]))
  BY <1>8, ClosureIsClosed
<1>10. CASE i = n
  BY <1>3, <1>5, <1>7, <1>9, <1>10
<1>11. CASE i # n
  <2>1. i \in 2 .. n /\ n \in 2 .. n /\ i < n
    BY <1>1, <1>6, <1>11
  <2>2. calls[n].node \in Closure(Depends[edge])
    BY <1>0, <1>3, <2>1 DEF PathInv
  <2> QED
    BY <1>5, <1>7, <1>9, <2>2 DEF Closed
<1> QED
  BY <1>10, <1>11

(* The state of an image and of its WORKDIR.  Only a package with a script *)
(* is left unpacked.                                                       *)
Databases == {d \in [Pkgs -> Status] : \A p \in Pkgs : d[p] = "unpacked" => p \in Scripted}
Builds == [want : SUBSET Pkgs, inc : BOOLEAN, ro : BOOLEAN]
ImageTypeOK ==
    /\ imgStep \in {"idle", "install", "decrement", "debugfs", "configure", "intercepts",
                    "check", "uninstall", "save", "finished", "failed"}
    /\ db \in [Pkgs -> Status] /\ rootfs \subseteq Pkgs /\ done \subseteq Scripted
    /\ firstBoot \in Seq(Scripted) /\ (backend # "rpm" => IsInjective(firstBoot))
    /\ postponed \subseteq Scripted
WorkTypeOK ==
    /\ ImageTypeOK /\ backend \in {"rpm", "ipk", "deb"} /\ build \in Builds
    /\ db \in Databases /\ savedDb \in Databases \cup {NothingSaved}
    /\ solution \subseteq Pkgs /\ hooked \subseteq Scripted /\ sound \in BOOLEAN
    /\ builds \in Nat
    /\ backend # "rpm" => solution = {}
    /\ builds = 0 => /\ imgStep = "idle" /\ rootfs = {} /\ db = NoDb /\ done = {}
                     /\ savedDb = NothingSaved /\ solution = {} /\ firstBoot = <<>> /\ postponed = {}

(* A walk takes place when the scripts put off are looked for or saved,    *)
(* with what the status file lists, and in between the list is kept.       *)
ResolveInv ==
    /\ calls # <<>> => WalkInv /\ imgStep \in {"check", "save"} /\ postinsts \in Listed
    /\ calls = <<>> => postinsts = {} /\ seenNodes = {} /\ (imgStep # "uninstall" => resolved = <<>>)
    /\ imgStep \in {"check", "save"} => backend # "rpm"
    /\ imgStep = "uninstall" /\ backend # "rpm" =>
           resolved \in Seq(Scripted) /\ ToSet(resolved) \in Listed
    /\ imgStep = "uninstall" => calls = <<>> /\ resolved \in Seq(Scripted)

Backed == imgStep \in {"configure", "intercepts", "check", "uninstall", "save", "finished"}
Filled == Backed \/ imgStep = "debugfs"
Missing == IF imgStep \in {"save", "finished"} THEN Unneeded ELSE {}
Allowed == Closure(build.want \cup
               Complementary(IF build.inc THEN Pkgs ELSE Closure(build.want)))

(* The tree and its database agree and lack nothing that is needed; from   *)
(* the packages of an old image only those stay that are in the new one    *)
(* too, or complementary.                                                  *)
TreeInv ==
    sound =>
        /\ imgStep # "failed" /\ rootfs = Installed
        /\ \A p \in rootfs : Depends[p] \subseteq rootfs \cup Missing
        /\ imgStep = "decrement" =>
               build.inc /\ rootfs \subseteq solution \cup Closure(Complementary(Pkgs))
        /\ imgStep = "install" => IF build.inc THEN rootfs \subseteq Allowed ELSE rootfs = {}
        /\ Filled => rootfs \subseteq Allowed /\ Closure(build.want) \subseteq rootfs \cup Missing
        /\ Backed /\ build.inc => Closed({p \in Pkgs : savedDb[p] # "none"})

(* Without RPM only an image without packages is ever built on another.    *)
IncInv ==
    sound /\ build.inc /\ backend # "rpm" =>
        rootfs = {} /\ firstBoot = <<>> /\ (imgStep # "decrement" => build.want = {})

(* Each script has run, waits for its hook, or is put off.                 *)
WaitsForHook == IF imgStep \in {"debugfs", "intercepts"} THEN hooked ELSE {}
ScriptInv ==
    sound =>
        /\ imgStep \in {"decrement", "install"} => hooked = {}
        /\ imgStep \notin {"check", "uninstall", "save", "finished"} => hooked \subseteq rootfs
        /\ imgStep = "decrement" => backend # "deb"
        /\ imgStep = "configure" => backend = "deb"
        /\ backend # "deb" \/ imgStep \in {"intercepts", "check", "uninstall", "save", "finished"} =>
               rootfs \cap Scripted \subseteq done \cup Delayed \cup WaitsForHook
        /\ imgStep = "save" => ~build.ro
        /\ backend # "rpm" /\ imgStep # "finished" => firstBoot = <<>>
        /\ backend # "rpm" => postponed = {}
        /\ PostinstsKept

ImageInv == WorkTypeOK /\ ResolveInv /\ TreeInv /\ IncInv /\ ScriptInv

(* RPM saves the scripts that fail behind those saved before.              *)
LEMMA SavedBehind ==
  ASSUME ImageTypeOK, NEW S \in SUBSET Scripted
  PROVE  /\ firstBoot \o SetToSeq(S) \in Seq(Scripted)
         /\ ToSet(firstBoot \o SetToSeq(S)) = ToSet(firstBoot) \cup S
<1>1. IsFiniteSet(S)
  BY PkgsAssumption, FS_Subset DEF PkgsAssumption
<1>2. SetToSeq(S) \in Seq(S) /\ ToSet(SetToSeq(S)) = S
  BY <1>1, SetToSeqHolds
<1>3. SetToSeq(S) \in Seq(Scripted) /\ firstBoot \in Seq(Scripted)
  BY <1>2, SeqMonotonic DEF ImageTypeOK
<1> QED
  BY <1>2, <1>3, ConcatHolds

LEMMA NoDbIsDatabase == NoDb \in Databases /\ \A p \in Pkgs : NoDb[p] = "none"
  BY DEF NoDb, Databases, Status

LEMMA UnpackedScripts == ASSUME WorkTypeOK PROVE Unpacked \subseteq Scripted
  BY DEF WorkTypeOK, Databases, Unpacked

LEMMA ListedIn ==
  ASSUME WorkTypeOK, NEW S \in Listed PROVE S \subseteq Unpacked /\ S \subseteq Scripted
  BY UnpackedScripts DEF Listed

(* What is marked in a database, or taken out of it, leaves a database.    *)
LEMMA DatabaseChanges ==
  ASSUME WorkTypeOK, NEW S \in SUBSET Pkgs, NEW T \in SUBSET Scripted
  PROVE  /\ [p \in Pkgs |-> IF p \in S THEN "none" ELSE db[p]] \in Databases
         /\ [p \in Pkgs |-> IF p \in S THEN StatusOf(T)[p] ELSE db[p]] \in Databases
         /\ MarkUnpacked(T) \in Databases
<1>1. \A p \in Pkgs : db[p] \in Status /\ (db[p] = "unpacked" => p \in Scripted)
  BY DEF WorkTypeOK, Databases
<1>2. \A p \in Pkgs : StatusOf(T)[p] \in Status /\ (StatusOf(T)[p] = "unpacked" => p \in Scripted)
  BY DEF StatusOf, Status
<1>3. [p \in Pkgs |-> IF p \in S THEN "none" ELSE db[p]] \in Databases
  BY <1>1 DEF Databases, Status
<1>4. [p \in Pkgs |-> IF p \in S THEN StatusOf(T)[p] ELSE db[p]] \in Databases
  BY <1>1, <1>2 DEF Databases
<1>5. MarkUnpacked(T) \in Databases
  BY <1>1 DEF Databases, Status, MarkUnpacked
<1> QED
  BY <1>3, <1>4, <1>5

(* What an install that does not fail does.                                *)
Installs(more, fails, asks) ==
    LET new == Closure(build.want \cup more) \ Installed
        run == IF backend = "deb" THEN {} ELSE new \cap Scripted
    IN  /\ fails \subseteq run /\ asks \subseteq run
        /\ rootfs' = rootfs \cup new
        /\ db' = [p \in Pkgs |-> IF p \in new THEN StatusOf(fails)[p] ELSE db[p]]
        /\ hooked' = asks
        /\ done' = (done \ new) \cup (run \ (fails \cup asks))
        /\ firstBoot' = IF backend = "rpm" THEN firstBoot \o SetToSeq(fails) ELSE firstBoot

LEMMA InstallCases ==
  ASSUME Install
  PROVE  \/ GiveUp /\ UNCHANGED <<rootfs, db, hooked, done, firstBoot>>
         \/ \E more \in {{}, Complementary(Installed \cup Closure(build.want))} :
               \E fails, asks \in SUBSET Scripted : Installs(more, fails, asks)
<1> SUFFICES ASSUME ~(GiveUp /\ UNCHANGED <<rootfs, db, hooked, done, firstBoot>>)
             PROVE  \E more \in {{}, Complementary(Installed \cup Closure(build.want))} :
                      \E fails, asks \in SUBSET Scripted : Installs(more, fails, asks)
  OBVIOUS
<1>1. PICK more \in {{}, Complementary(Installed \cup Closure(build.want))} :
         LET all == Closure(build.want \cup more)
             new == all \ Installed
             run == IF backend = "deb" THEN {} ELSE new \cap Scripted
         IN \E fails, asks \in SUBSET run :
            /\ rootfs' = rootfs \cup new
            /\ db' = [p \in Pkgs |-> IF p \in new THEN StatusOf(fails)[p] ELSE db[p]]
            /\ hooked' = asks
            /\ done' = (done \ new) \cup (run \ (fails \cup asks))
            /\ firstBoot' = (IF backend = "rpm" THEN firstBoot \o SetToSeq(fails) ELSE firstBoot)
            /\ imgStep' = "debugfs" /\ UNCHANGED sound
  BY DEF Install
<1>. DEFINE new == Closure(build.want \cup more) \ Installed
            run == IF backend = "deb" THEN {} ELSE new \cap Scripted
<1>2. PICK fails, asks \in SUBSET run :
          /\ rootfs' = rootfs \cup new
          /\ db' = [p \in Pkgs |-> IF p \in new THEN StatusOf(fails)[p] ELSE db[p]]
          /\ hooked' = asks
          /\ done' = (done \ new) \cup (run \ (fails \cup asks))
          /\ firstBoot' = (IF backend = "rpm" THEN firstBoot \o SetToSeq(fails) ELSE firstBoot)
  BY <1>1
<1>3. run \subseteq Scripted
  OBVIOUS
<1>. HIDE DEF new, run
<1>4. Installs(more, fails, asks)
  BY <1>2 DEF Installs, new, run
<1> QED
  BY <1>3, <1>4

LEMMA WorkTypeInit == ImgInit => WorkTypeOK
<1>1. <<>> \in Seq(Scripted) /\ IsInjective(<<>>)
  BY EmptySeq DEF IsInjective
<1> QED
  BY <1>1, NoDbIsDatabase, PkgsAssumption
     DEF ImgInit, WorkTypeOK, ImageTypeOK, Builds, PkgsAssumption, Databases

LEMMA WorkTypeStep == WorkTypeOK /\ ResolveInv /\ [ImgNext]_imgVars => WorkTypeOK'
<1> SUFFICES ASSUME WorkTypeOK, ResolveInv, [ImgNext]_imgVars PROVE WorkTypeOK'
  OBVIOUS
<1>0. /\ db \in Databases /\ Unpacked \subseteq Scripted /\ Scripted \subseteq Pkgs
      /\ \A d \in Databases : d \in [Pkgs -> Status]
      /\ rootfs \subseteq Pkgs /\ done \subseteq Scripted /\ hooked \subseteq Scripted
      /\ firstBoot \in Seq(Scripted) /\ (backend # "rpm" => IsInjective(firstBoot))
      /\ postponed \subseteq Scripted
  BY UnpackedScripts, PkgsAssumption DEF WorkTypeOK, ImageTypeOK, PkgsAssumption, Databases
<1>00. <<>> \in Seq(Scripted) /\ IsInjective(<<>>)
  BY EmptySeq DEF IsInjective
<1>1. CASE UNCHANGED workVars
  BY <1>1 DEF workVars, bootVars, WorkTypeOK, ImageTypeOK
<1>2. ASSUME NEW w \in Asked, NEW i \in BOOLEAN, NEW r \in BOOLEAN, StartImage(w, i, r)
      PROVE  WorkTypeOK'
  <2>1. build' \in Builds
    BY <1>2, PkgsAssumption DEF StartImage, Builds, PkgsAssumption
  <2>2. builds' \in Nat /\ builds' # 0
    <3>1. builds' = builds + 1 /\ builds \in Nat
      BY <1>2 DEF StartImage, WorkTypeOK
    <3> QED
      BY <3>1
  <2>3. imgStep' \in {"decrement", "install"} /\ hooked' = {} /\ UNCHANGED <<backend, savedDb, solution>>
    BY <1>2 DEF StartImage
  <2>4. sound' \in BOOLEAN
    BY <1>2 DEF StartImage, WorkTypeOK
  <2>5. rootfs' \subseteq Pkgs /\ db' \in Databases /\ done' \subseteq Scripted
    <3>1. RecoveredDb \in Databases
      BY <1>0 DEF RecoveredDb, WorkTypeOK
    <3> QED
      BY <1>0, <1>2, <3>1, NoDbIsDatabase DEF StartImage
  <2>6. /\ firstBoot' \in Seq(Scripted) /\ (backend # "rpm" => IsInjective(firstBoot'))
        /\ postponed' \subseteq Scripted
    BY <1>0, <1>00, <1>2 DEF StartImage, bootVars
  <2> QED
    BY <1>0, <2>1, <2>2, <2>3, <2>4, <2>5, <2>6 DEF WorkTypeOK, ImageTypeOK
<1>3. CASE DecrementRpm
  <2>1. builds # 0 /\ backend = "rpm"
    BY <1>3 DEF DecrementRpm, WorkTypeOK
  <2>2. /\ imgStep' \in {"install", "failed"} /\ sound' \in BOOLEAN
        /\ UNCHANGED <<backend, build, savedDb, hooked, firstBoot, postponed, builds>>
    BY <1>3 DEF DecrementRpm, GiveUp, WorkTypeOK, bootVars
  <2>3. /\ rootfs' \subseteq Pkgs /\ db' \in Databases /\ done' \subseteq Scripted
        /\ solution' \subseteq Pkgs
    <3>1. CASE UNCHANGED <<rootfs, db, solution, done>>
      BY <1>0, <3>1 DEF WorkTypeOK
    <3>2. CASE \E new \in Solutions(build.want), removed \in BOOLEAN :
                  LET gone == IF removed THEN Dependents(solution \ new) ELSE {}
                  IN /\ solution' = new
                     /\ rootfs' = rootfs \ gone
                     /\ db' = [p \in Pkgs |-> IF p \in gone THEN "none" ELSE db[p]]
                     /\ done' = done \ gone
      <4>1. PICK new \in Solutions(build.want), gone \in SUBSET Pkgs :
                     /\ solution' = new
                     /\ rootfs' = rootfs \ gone
                     /\ db' = [p \in Pkgs |-> IF p \in gone THEN "none" ELSE db[p]]
                     /\ done' = done \ gone
        BY <3>2 DEF Dependents
      <4>2. new \subseteq Pkgs
        BY DEF Solutions, Closure
      <4> QED
        BY <1>0, <4>1, <4>2, DatabaseChanges
    <3> QED
      BY <1>3, <3>1, <3>2 DEF DecrementRpm
  <2> QED
    BY <1>0, <2>1, <2>2, <2>3 DEF WorkTypeOK, ImageTypeOK
<1>4. CASE DecrementIpk
  <2>1. /\ builds # 0 /\ imgStep' \in {"install", "failed"} /\ sound' \in BOOLEAN
        /\ UNCHANGED <<backend, build, rootfs, db, savedDb, solution, hooked, done, firstBoot, postponed,
                       builds>>
    BY <1>4 DEF DecrementIpk, GiveUp, WorkTypeOK, bootVars
  <2> QED
    BY <1>0, <2>1 DEF WorkTypeOK, ImageTypeOK
<1>5. CASE Install
  <2>1. /\ builds # 0 /\ imgStep' \in {"debugfs", "failed"} /\ sound' \in BOOLEAN
        /\ UNCHANGED <<backend, build, savedDb, solution, postponed, builds>>
    BY <1>5 DEF Install, GiveUp, WorkTypeOK
  <2>2. /\ rootfs' \subseteq Pkgs /\ db' \in Databases /\ done' \subseteq Scripted
        /\ hooked' \subseteq Scripted /\ firstBoot' \in Seq(Scripted)
        /\ (backend # "rpm" => IsInjective(firstBoot'))
    <3>1. CASE UNCHANGED <<rootfs, db, hooked, done, firstBoot>>
      BY <1>0, <3>1
    <3>2. ASSUME NEW more, NEW fails, NEW asks, Installs(more, fails, asks)
          PROVE  /\ rootfs' \subseteq Pkgs /\ db' \in Databases /\ done' \subseteq Scripted
                 /\ hooked' \subseteq Scripted /\ firstBoot' \in Seq(Scripted)
                 /\ (backend # "rpm" => IsInjective(firstBoot'))
      <4>. DEFINE new == Closure(build.want \cup more) \ Installed
                  run == IF backend = "deb" THEN {} ELSE new \cap Scripted
      <4>1. new \in SUBSET Pkgs /\ run \in SUBSET Scripted
        BY DEF Closure
      <4>2. /\ fails \subseteq run /\ asks \subseteq run
            /\ rootfs' = rootfs \cup new
            /\ db' = [p \in Pkgs |-> IF p \in new THEN StatusOf(fails)[p] ELSE db[p]]
            /\ hooked' = asks /\ done' = (done \ new) \cup (run \ (fails \cup asks))
            /\ firstBoot' = IF backend = "rpm" THEN firstBoot \o SetToSeq(fails) ELSE firstBoot
        BY <3>2 DEF Installs
      <4>. HIDE DEF new, run
      <4>3. fails \in SUBSET Scripted /\ db' \in Databases
        BY <4>1, <4>2, DatabaseChanges
      <4>4. firstBoot \o SetToSeq(fails) \in Seq(Scripted)
        BY <4>3, SavedBehind DEF WorkTypeOK
      <4> QED
        BY <1>0, <4>1, <4>2, <4>3, <4>4
    <3> QED
      BY <1>5, <3>1, <3>2, InstallCases
  <2> QED
    BY <1>0, <2>1, <2>2 DEF WorkTypeOK, ImageTypeOK
<1>6. CASE DebugfsAndBackup
  <2>1. /\ builds # 0 /\ imgStep' \in {"failed", "configure", "intercepts"} /\ sound' \in BOOLEAN
        /\ rootfs' \in {rootfs, {}} /\ savedDb' \in {savedDb, db}
        /\ UNCHANGED <<backend, build, db, solution, hooked, done, firstBoot, postponed, builds>>
    BY <1>6 DEF DebugfsAndBackup, GiveUp, WorkTypeOK, bootVars
  <2> QED
    BY <1>0, <2>1 DEF WorkTypeOK, ImageTypeOK
<1>7. CASE Configure
  <2>1. /\ builds # 0 /\ imgStep' = "intercepts"
        /\ UNCHANGED <<backend, build, rootfs, savedDb, solution, firstBoot, postponed, sound,
                       builds>>
    BY <1>7 DEF Configure, WorkTypeOK, bootVars
  <2>2. PICK fails \in SUBSET Scripted : db' = MarkUnpacked(fails)
    BY <1>7 DEF Configure
  <2>3. hooked' \subseteq Scripted /\ done' \subseteq Scripted
    BY <1>7 DEF Configure
  <2>4. db' \in Databases
    BY <2>2, DatabaseChanges
  <2> QED
    BY <1>0, <2>1, <2>3, <2>4 DEF WorkTypeOK, ImageTypeOK
<1>8. CASE RunIntercepts
  <2>1. /\ builds # 0 /\ imgStep' \in {"check", "uninstall", "failed"} /\ hooked' = {}
        /\ UNCHANGED <<backend, build, rootfs, savedDb, solution, firstBoot, builds>>
        /\ sound' \in BOOLEAN
    BY <1>8 DEF RunIntercepts, AfterIntercepts, GiveUp, WorkTypeOK
  <2>2. done' \subseteq Scripted /\ db' \in {db, MarkUnpacked(hooked)}
    BY <1>0, <1>8 DEF RunIntercepts
  <2>3. MarkUnpacked(hooked) \in Databases
    BY <1>0, DatabaseChanges
  <2>4. postponed' \subseteq Scripted
    BY <1>0, <1>8 DEF RunIntercepts
  <2> QED
    BY <1>0, <2>1, <2>2, <2>3, <2>4 DEF WorkTypeOK, ImageTypeOK
<1>9. CASE Uninstall
  <2>1. /\ builds # 0 /\ imgStep' \in {"failed", "finished", "save"} /\ sound' \in BOOLEAN
        /\ UNCHANGED <<backend, build, savedDb, solution, hooked, firstBoot, postponed,
                       builds>>
    BY <1>9 DEF Uninstall, GiveUp, WorkTypeOK, bootVars
  <2>2. CASE UNCHANGED <<rootfs, db, done>>
    BY <1>0, <2>1, <2>2 DEF WorkTypeOK, ImageTypeOK
  <2>3. ASSUME NEW gone \in SUBSET Pkgs, rootfs' = rootfs \ gone, done' = done \ gone,
               db' = [p \in Pkgs |-> IF p \in gone THEN "none" ELSE db[p]]
        PROVE  WorkTypeOK'
    <3>1. db' \in Databases
      BY <2>3, DatabaseChanges
    <3> QED
      BY <1>0, <2>1, <2>3, <3>1 DEF WorkTypeOK, ImageTypeOK
  <2>4. {} \in SUBSET Pkgs /\ Unneeded \cap Installed \in SUBSET Pkgs
    BY DEF Installed
  <2> QED
    BY <1>9, <2>2, <2>3, <2>4 DEF Uninstall
<1>10. CASE ReadPostinsts \/ ResolvePostinsts
  BY <1>1, <1>10 DEF ReadPostinsts, ResolvePostinsts
<1>11. CASE CircularPostinsts \/ CheckPostinsts
  <2>1. /\ imgStep' \in {"failed", "uninstall"} /\ sound' \in BOOLEAN
        /\ UNCHANGED <<backend, build, rootfs, db, savedDb, solution, hooked, done, firstBoot, postponed,
                       builds>>
    BY <1>11 DEF CircularPostinsts, CheckPostinsts, GiveUp, WorkTypeOK, bootVars
  <2>2. builds # 0
    BY <1>11 DEF CircularPostinsts, CheckPostinsts, CircularEdge, ResolveInv, WorkTypeOK
  <2> QED
    BY <1>0, <2>1, <2>2 DEF WorkTypeOK, ImageTypeOK
<1>12. CASE SavePostinsts
  <2>1. /\ builds # 0 /\ imgStep' \in {"failed", "finished"} /\ sound' \in BOOLEAN
        /\ UNCHANGED <<backend, build, rootfs, db, savedDb, solution, hooked, done, postponed,
                       builds>>
        /\ firstBoot' \in {firstBoot, resolved}
    BY <1>12 DEF SavePostinsts, GiveUp, WorkTypeOK
  <2>2. WalkInv /\ AllResolved /\ postinsts \subseteq Scripted
    BY <1>0, <1>12, ListedIn DEF SavePostinsts, AllResolved, ResolveInv
  <2>3. resolved \in Seq(Scripted) /\ IsInjective(resolved)
    BY <2>2, WalkEnds, SeqMonotonic
  <2> QED
    BY <1>0, <2>1, <2>3 DEF WorkTypeOK, ImageTypeOK
<1> QED
  BY <1>1, <1>2, <1>3, <1>4, <1>5, <1>6, <1>7, <1>8, <1>9, <1>10, <1>11, <1>12 DEF ImgNext, imgVars

(* The walks.                                                              *)
LEMMA ResolveStart == ImgInit => ResolveInv
  BY DEF ImgInit, NotResolving, ResolveInv

LEMMA ResolveStep ==
  ASSUME WorkTypeOK, ResolveInv, [ImgNext]_imgVars
  PROVE  ResolveInv'
<1>1. CASE UNCHANGED imgVars
  <2>1. UNCHANGED <<postinsts, calls, seenNodes, resolved>>
    BY <1>1 DEF imgVars, resolveVars
  <2>2. WalkTypeOK => WalkTypeOK'
    BY <2>1 DEF WalkTypeOK, Frames
  <2>3. OnTheWay => OnTheWay'
    BY <2>1 DEF OnTheWay, Graph
  <2>4. PathInv => PathInv'
    BY <2>1 DEF PathInv
  <2>5. SeenInv => SeenInv'
    BY <2>1 DEF SeenInv
  <2>6. OrderInv => OrderInv'
    BY <2>1 DEF OrderInv
  <2>7. UNCHANGED <<imgStep, build, db, backend>>
    BY <1>1 DEF imgVars, workVars
  <2> QED
    BY <2>1, <2>2, <2>3, <2>4, <2>5, <2>6, <2>7 DEF WalkInv, ResolveInv, Listed, Unpacked
<1>2. CASE /\ imgStep \notin {"check", "uninstall", "save"} /\ UNCHANGED <<backend, resolveVars>>
           /\ imgStep' \notin {"save"} /\ (imgStep' = "check" => backend # "rpm")
           /\ (imgStep' = "uninstall" => backend = "rpm")
  <2>1. calls = <<>> /\ postinsts = {} /\ seenNodes = {} /\ resolved = <<>>
    BY <1>2 DEF ResolveInv
  <2> QED
    BY <1>2, <2>1 DEF ResolveInv, resolveVars
<1>3. CASE \/ \E w \in Asked, i \in BOOLEAN, r \in BOOLEAN : StartImage(w, i, r)
           \/ DecrementRpm \/ DecrementIpk \/ Install \/ DebugfsAndBackup \/ Configure
  <2>1. /\ imgStep \notin {"check", "uninstall", "save"} /\ UNCHANGED <<backend, resolveVars>>
        /\ imgStep' \notin {"check", "uninstall", "save"}
    BY <1>3 DEF StartImage, DecrementRpm, DecrementIpk, Install, DebugfsAndBackup, Configure, GiveUp
  <2> QED
    BY <1>2, <2>1
<1>4. CASE RunIntercepts
  BY <1>2, <1>4 DEF RunIntercepts, AfterIntercepts, GiveUp
<1>5. CASE ReadPostinsts
  <2>1. PICK S \in Listed : StartResolve(S)
    BY <1>5 DEF ReadPostinsts
  <2>2. S \in SUBSET Pkgs /\ calls' # <<>> /\ postinsts' = S
    BY <2>1, ListedIn, PkgsAssumption DEF PkgsAssumption, StartResolve
  <2>3. WalkInv'
    BY <2>1, <2>2, WalkStart
  <2>4. /\ imgStep' \in {"check", "save"} /\ backend' # "rpm" /\ UNCHANGED <<build, db>>
    BY <1>5 DEF ReadPostinsts, workVars, ResolveInv
  <2> QED
    BY <2>1, <2>2, <2>3, <2>4 DEF ResolveInv, Listed, Unpacked
<1>6. CASE ResolvePostinsts
  <2>1. calls # <<>> /\ WalkInv /\ imgStep \in {"check", "save"} /\ postinsts \in Listed
    BY <1>6 DEF ResolvePostinsts, ResolveEdge, ResolveNode, ResolveInv
  <2>2. /\ WalkInv' /\ postinsts' = postinsts
    <3>1. CASE ResolveNode
      BY <2>1, <3>1, WalkReturns DEF ResolveNode
    <3>2. CASE ResolveEdge
      BY <2>1, <3>2, WalkSkips, WalkCalls DEF ResolveEdge
    <3> QED
      BY <1>6, <3>1, <3>2 DEF ResolvePostinsts
  <2>3. calls' # <<>>
    BY <2>2 DEF WalkInv, WalkTypeOK
  <2>4. UNCHANGED <<imgStep, build, db, backend>> /\ backend # "rpm"
    BY <1>6, <2>1 DEF ResolvePostinsts, workVars, ResolveInv
  <2> QED
    BY <2>1, <2>2, <2>3, <2>4 DEF ResolveInv, Listed, Unpacked
<1>7. CASE CircularPostinsts
  BY <1>7 DEF CircularPostinsts, GiveUp, ResolveInv
<1>8. CASE CheckPostinsts
  <2>1. calls # <<>> /\ WalkInv /\ AllResolved /\ postinsts \in Listed
    BY <1>8 DEF CheckPostinsts, AllResolved, ResolveInv
  <2>2. ToSet(resolved) = postinsts /\ resolved \in Seq(Scripted)
    BY <2>1, WalkEnds, ListedIn, SeqMonotonic
  <2>3. /\ imgStep' = "uninstall" /\ calls' = <<>> /\ postinsts' = {} /\ seenNodes' = {}
        /\ UNCHANGED <<resolved, build, db, backend>>
    BY <1>8 DEF CheckPostinsts
  <2> QED
    BY <2>1, <2>2, <2>3 DEF ResolveInv, Listed, Unpacked
<1>9. CASE Uninstall
  <2>1. /\ calls = <<>> /\ postinsts = {} /\ seenNodes = {} /\ resolved' = <<>>
        /\ UNCHANGED <<backend, postinsts, calls, seenNodes>>
        /\ imgStep' \in {"failed", "save", "finished"} /\ (imgStep' = "save" => backend # "rpm")
    BY <1>9 DEF Uninstall, GiveUp, ResolveInv
  <2> QED
    BY <2>1 DEF ResolveInv
<1>10. CASE SavePostinsts
  BY <1>10 DEF SavePostinsts, GiveUp, ResolveInv
<1> QED
  BY <1>1, <1>3, <1>4, <1>5, <1>6, <1>7, <1>8, <1>9, <1>10 DEF ImgNext
(* What the changes of the database do to the list of what is installed.   *)
LEMMA InstalledAfter ==
  ASSUME NEW S \in SUBSET Pkgs, NEW T
  PROVE  /\ db' = [p \in Pkgs |-> IF p \in S THEN "none" ELSE db[p]] => Installed' = Installed \ S
         /\ db' = [p \in Pkgs |-> IF p \in S THEN StatusOf(T)[p] ELSE db[p]] =>
               Installed' = Installed \cup S
         /\ db' = MarkUnpacked(S) /\ S \subseteq Installed => Installed' = Installed
<1>1. \A p \in Pkgs : StatusOf(T)[p] # "none"
  BY DEF StatusOf
<1> QED
  BY <1>1 DEF Installed, MarkUnpacked

LEMMA ComplementsAllowed ==
  ASSUME WorkTypeOK
  PROVE  /\ build.want \in SUBSET Pkgs /\ build.inc \in BOOLEAN
         /\ Allowed = Closure(build.want) \cup
                Closure(Complementary(IF build.inc THEN Pkgs ELSE Closure(build.want)))
<1>1. build.want \in SUBSET Pkgs /\ build.inc \in BOOLEAN
  BY DEF WorkTypeOK, Builds
<1>2. Complementary(IF build.inc THEN Pkgs ELSE Closure(build.want)) \in SUBSET Pkgs
  BY <1>1, ClosureIsClosed, ComplementaryIn
<1> QED
  BY <1>1, <1>2, ClosureOfUnion DEF Allowed

LEMMA TreeInit == ImgInit => TreeInv
  BY NoDbIsDatabase DEF ImgInit, TreeInv, Installed, Filled, Backed

(* A sound build starts from nothing or from the finished build before.    *)
LEMMA StartDoes ==
  ASSUME WorkTypeOK, NEW w, NEW i, NEW r, StartImage(w, i, r), sound', ~(rootfs' = {} /\ db' = NoDb)
  PROVE  /\ imgStep = "finished" /\ sound /\ build.inc /\ savedDb = db /\ solution = Closure(build.want)
         /\ i /\ UNCHANGED <<rootfs, db, done, firstBoot, postponed>>
<1>1. /\ i /\ UNCHANGED <<rootfs, done, firstBoot, postponed>> /\ db' = RecoveredDb
      /\ \/ builds = 0
         \/ imgStep = "finished" /\ sound /\ build.inc /\ savedDb = db /\ solution = Closure(build.want)
  BY DEF StartImage, bootVars
<1>2. builds # 0
  BY <1>1 DEF WorkTypeOK, RecoveredDb
<1> QED
  BY <1>1, <1>2 DEF RecoveredDb

LEMMA TreeStart ==
  ASSUME WorkTypeOK, TreeInv, NEW w \in Asked, NEW i \in BOOLEAN, NEW r \in BOOLEAN,
         StartImage(w, i, r)
  PROVE  TreeInv'
<1> SUFFICES ASSUME sound' PROVE TreeInv'
  BY DEF TreeInv
<1>1. /\ build' = [want |-> w, inc |-> i, ro |-> r] /\ imgStep' = IF i THEN "decrement" ELSE "install"
      /\ UNCHANGED <<savedDb, solution>>
  BY DEF StartImage
<1>2. imgStep' # "finished" /\ ~Filled' /\ ~Backed' /\ build'.inc = i /\ imgStep' # "failed"
  BY <1>1 DEF Filled, Backed
<1>3. CASE rootfs' = {} /\ db' = NoDb
  <2>1. Installed' = {}
    BY <1>3, NoDbIsDatabase DEF Installed
  <2> QED
    BY <1>1, <1>2, <1>3, <2>1 DEF TreeInv
<1>4. CASE ~(rootfs' = {} /\ db' = NoDb)
  <2>3. /\ imgStep = "finished" /\ sound /\ build.inc /\ savedDb = db /\ solution = Closure(build.want)
        /\ i /\ UNCHANGED <<rootfs, db>>
    BY <1>4, StartDoes
  <2>4. rootfs' = Installed'
    BY <2>3 DEF TreeInv, Installed
  <2>5. Closed(rootfs)
    BY <2>3 DEF TreeInv, Backed, Installed
  <2>6. rootfs \subseteq Closure(build.want) \cup Closure(Complementary(Pkgs))
    BY <2>3, ComplementsAllowed DEF TreeInv, Filled, Backed
  <2> QED
    BY <1>1, <1>2, <2>3, <2>4, <2>5, <2>6 DEF TreeInv, Closed
<1> QED
  BY <1>3, <1>4

LEMMA TreeDecrement ==
  ASSUME WorkTypeOK, TreeInv, DecrementRpm \/ DecrementIpk
  PROVE  TreeInv'
<1> SUFFICES ASSUME sound' PROVE TreeInv'
  BY DEF TreeInv
<1>1. /\ imgStep = "decrement" /\ UNCHANGED <<build, savedDb>> /\ sound /\ imgStep' = "install"
  BY DEF DecrementRpm, DecrementIpk, GiveUp
<1>2. /\ rootfs \in SUBSET Pkgs /\ Closed(rootfs) /\ rootfs = Installed /\ build.inc
      /\ rootfs \subseteq solution \cup Closure(Complementary(Pkgs))
  BY <1>1 DEF TreeInv, Closed, Missing, WorkTypeOK, ImageTypeOK
<1>3. ~Filled' /\ ~Backed' /\ imgStep' \notin {"failed", "finished", "decrement"} /\ Missing' = {}
  BY <1>1 DEF Filled, Backed, Missing
<1>4. Allowed' = Allowed /\ Allowed = Closure(build.want) \cup Closure(Complementary(Pkgs))
  BY <1>1, <1>2, ComplementsAllowed DEF Allowed
<1>5. CASE UNCHANGED <<rootfs, db>> /\ solution = {}
  <2>1. rootfs' = Installed'
    BY <1>2, <1>5 DEF Installed
  <2> QED
    BY <1>1, <1>2, <1>3, <1>4, <1>5, <2>1 DEF TreeInv, Closed
<1>6. ASSUME NEW new \in Solutions(build.want),
             rootfs' = rootfs \ Dependents(solution \ new),
             db' = [p \in Pkgs |-> IF p \in Dependents(solution \ new) THEN "none" ELSE db[p]]
      PROVE  TreeInv'
  <2>1. solution \ new \in SUBSET Pkgs /\ Dependents(solution \ new) \in SUBSET Pkgs
    BY DEF WorkTypeOK, Dependents
  <2>2. Closed(rootfs') /\ solution \ new \subseteq Dependents(solution \ new)
    BY <1>2, <1>6, <2>1, DependentsGo
  <2>3. rootfs' = Installed'
    BY <1>2, <1>6, <2>1, InstalledAfter
  <2>4. rootfs' \subseteq Allowed'
    <3>1. new \subseteq Closure(build.want)
      BY DEF Solutions
    <3> QED
      BY <1>2, <1>4, <1>6, <2>2, <3>1
  <2> QED
    BY <1>1, <1>2, <1>3, <2>2, <2>3, <2>4 DEF TreeInv, Closed
<1>7. CASE DecrementIpk
  <2>1. UNCHANGED <<rootfs, db>> /\ solution = {}
    BY <1>7 DEF DecrementIpk, WorkTypeOK
  <2> QED
    BY <1>5, <2>1
<1>8. CASE DecrementRpm
  <2>1. CASE build.want = {}
    BY <1>1, <1>5, <1>8, <2>1 DEF DecrementRpm, GiveUp
  <2>2. CASE build.want # {}
    BY <1>6, <1>8, <2>2 DEF DecrementRpm
  <2> QED
    BY <2>1, <2>2
<1> QED
  BY <1>7, <1>8
LEMMA InstallDoes ==
  ASSUME Install, sound'
  PROVE  /\ imgStep = "install" /\ imgStep' = "debugfs" /\ sound
         /\ UNCHANGED <<backend, build, savedDb, solution, postponed>>
         /\ \E more \in {{}, Complementary(Installed \cup Closure(build.want))} :
              \E fails, asks \in SUBSET Scripted : Installs(more, fails, asks)
<1>1. ~GiveUp
  BY DEF GiveUp
<1>2. imgStep' = "debugfs" /\ sound
  BY <1>1 DEF Install
<1> QED
  BY <1>1, <1>2, InstallCases DEF Install

LEMMA TreeInstall == ASSUME WorkTypeOK, TreeInv, Install PROVE TreeInv'
<1> SUFFICES ASSUME sound' PROVE TreeInv'
  BY DEF TreeInv
<1>1. PICK more \in {{}, Complementary(Installed \cup Closure(build.want))} :
              \E fails, asks \in SUBSET Scripted : Installs(more, fails, asks)
  BY InstallDoes
<1>2. /\ imgStep = "install" /\ imgStep' = "debugfs" /\ sound
      /\ UNCHANGED <<backend, build, savedDb, solution>>
  BY InstallDoes
<1>3. /\ rootfs \in SUBSET Pkgs /\ Closed(rootfs) /\ rootfs = Installed
      /\ IF build.inc THEN rootfs \subseteq Allowed ELSE rootfs = {}
  BY <1>2 DEF TreeInv, Closed, Missing, WorkTypeOK, ImageTypeOK
<1>. DEFINE w == build.want  all == Closure(w \cup more)  new == all \ Installed
<1>4. w \in SUBSET Pkgs /\ Closure(w) \in SUBSET Pkgs /\ more \in SUBSET Pkgs
  <2>1. w \in SUBSET Pkgs
    BY ComplementsAllowed
  <2> QED
    BY <1>3, <2>1, ClosureIsClosed, ComplementaryIn
<1>5. all \in SUBSET Pkgs /\ Closed(all) /\ all = Closure(w) \cup Closure(more)
  BY <1>4, ClosureIsClosed, ClosureOfUnion
<1>6. all \subseteq Allowed
  <2>. DEFINE extra == Complementary(IF build.inc THEN Pkgs ELSE Closure(w))
  <2>1. more \subseteq extra /\ extra \in SUBSET Pkgs
    BY <1>3, <1>4, ComplementaryIn
  <2>2. Closure(more) \subseteq Closure(extra)
    BY <2>1, ClosureMonotone
  <2> QED
    BY <1>5, <2>2, ComplementsAllowed
<1>. HIDE DEF w, all
<1>7. rootfs' = rootfs \cup all /\ rootfs' = Installed'
  <2>1. PICK fails, asks \in SUBSET Scripted : Installs(more, fails, asks)
    BY <1>1
  <2>2. /\ rootfs' = rootfs \cup new
        /\ db' = [p \in Pkgs |-> IF p \in new THEN StatusOf(fails)[p] ELSE db[p]]
    BY <2>1 DEF Installs, all, w
  <2>3. new \in SUBSET Pkgs
    BY <1>5
  <2> QED
    BY <1>3, <2>2, <2>3, InstalledAfter
<1>8. Closed(rootfs')
  BY <1>3, <1>5, <1>7 DEF Closed
<1>9. Allowed' = Allowed /\ Closure(build.want)' = Closure(w) /\ ~Backed' /\ Missing' = {}
  BY <1>2 DEF Allowed, Backed, Missing, w
<1> QED
  BY <1>2, <1>3, <1>5, <1>6, <1>7, <1>8, <1>9 DEF TreeInv, Closed, w

(* After the packages are in, a step changes the tree only by taking out   *)
(* what a read-only image does without.                                    *)
LEMMA TreeFilled ==
  ASSUME WorkTypeOK, TreeInv, sound, sound', Filled, UNCHANGED build, Backed',
         imgStep' # "failed", NEW gone \in SUBSET Unneeded, rootfs' = rootfs \ gone,
         Installed' = Installed \ gone, gone # {} => imgStep' \in {"save", "finished"},
         imgStep \notin {"save", "finished"},
         Backed => UNCHANGED savedDb, ~Backed /\ build.inc => savedDb' = db
  PROVE  TreeInv'
<1>1. /\ rootfs \in SUBSET Pkgs /\ rootfs = Installed /\ \A p \in rootfs : Depends[p] \subseteq rootfs
      /\ rootfs \subseteq Allowed /\ Closure(build.want) \subseteq rootfs
  BY DEF TreeInv, Missing, WorkTypeOK, ImageTypeOK
<1>2. rootfs' = Installed' /\ rootfs' \subseteq Allowed'
  BY <1>1 DEF Allowed
<1>3. gone \subseteq Missing'
  BY DEF Missing
<1>4. /\ \A p \in rootfs' : Depends[p] \subseteq rootfs' \cup Missing'
      /\ Closure(build.want)' \subseteq rootfs' \cup Missing'
  BY <1>1, <1>3
<1>5. build.inc => Closed({p \in Pkgs : savedDb[p] # "none"})'
  <2>1. CASE Backed
    BY <2>1 DEF TreeInv, Closed
  <2>2. CASE ~Backed /\ build.inc
    <3>1. {p \in Pkgs : savedDb'[p] # "none"} = rootfs
      BY <1>1, <2>2 DEF Installed
    <3> QED
      BY <1>1, <3>1 DEF Closed
  <2> QED
    BY <2>1, <2>2
<1> QED
  BY <1>2, <1>4, <1>5 DEF TreeInv, Filled, Backed

LEMMA TreeStays ==
  ASSUME WorkTypeOK, TreeInv, sound, sound', Filled, UNCHANGED <<build, rootfs, Installed>>,
         Backed', imgStep' # "failed", imgStep \notin {"save", "finished"},
         Backed => UNCHANGED savedDb, ~Backed /\ build.inc => savedDb' = db
  PROVE  TreeInv'
<1>. DEFINE gone == {}
<1>1. gone \in SUBSET Unneeded /\ rootfs' = rootfs \ gone /\ Installed' = Installed \ gone /\ gone = {}
  OBVIOUS
<1>. HIDE DEF gone
<1> QED
  BY <1>1, TreeFilled

LEMMA TreeStep ==
  ASSUME WorkTypeOK, TreeInv, ScriptInv, [ImgNext]_imgVars
  PROVE  TreeInv'
<1>1. CASE UNCHANGED workVars
  BY <1>1 DEF workVars, TreeInv, Installed, Filled, Backed, Missing, Allowed, Closed
<1>2. CASE \E w \in Asked, i \in BOOLEAN, r \in BOOLEAN : StartImage(w, i, r)
  BY <1>2, TreeStart
<1>3. CASE DecrementRpm \/ DecrementIpk
  BY <1>3, TreeDecrement
<1>4. CASE Install
  BY <1>4, TreeInstall
<1>5. CASE ~sound'
  BY <1>5 DEF TreeInv
<1>6. CASE DebugfsAndBackup /\ sound'
  <2>1. /\ imgStep = "debugfs" /\ imgStep' \in {"configure", "intercepts"} /\ sound
        /\ UNCHANGED <<build, rootfs, db>> /\ savedDb' = IF build.inc THEN db ELSE savedDb
    BY <1>6 DEF DebugfsAndBackup, GiveUp
  <2> QED
    BY <1>6, <2>1, TreeStays DEF Filled, Backed, Installed
<1>7. CASE Configure /\ sound'
  <2>1. /\ imgStep = "configure" /\ imgStep' = "intercepts" /\ UNCHANGED <<build, rootfs, savedDb, sound>>
        /\ \E fails \in SUBSET Installed : db' = MarkUnpacked(fails)
    BY <1>7 DEF Configure
  <2>2. Installed' = Installed
    BY <2>1, InstalledAfter DEF Installed
  <2> QED
    BY <1>7, <2>1, <2>2, TreeStays DEF Filled, Backed
<1>8. CASE RunIntercepts /\ sound'
  <2>1. /\ imgStep = "intercepts" /\ imgStep' \in {"check", "uninstall"} /\ UNCHANGED <<build, rootfs, savedDb, sound>>
        /\ db' = db \/ db' = MarkUnpacked(hooked)
    BY <1>8 DEF RunIntercepts, AfterIntercepts, GiveUp
  <2>2. hooked \subseteq Installed /\ Installed \subseteq Pkgs
    BY <1>8, <2>1 DEF ScriptInv, TreeInv, Installed
  <2>3. Installed' = Installed
    BY <2>1, <2>2, InstalledAfter DEF Installed
  <2> QED
    BY <1>8, <2>1, <2>3, TreeStays DEF Filled, Backed
<1>9. CASE Uninstall /\ sound'
  <2>1. /\ imgStep = "uninstall" /\ imgStep' \in {"save", "finished"} /\ UNCHANGED <<build, savedDb, sound>>
        /\ \E gone \in {{}, Unneeded \cap Installed} :
              /\ rootfs' = rootfs \ gone
              /\ db' = [p \in Pkgs |-> IF p \in gone THEN "none" ELSE db[p]]
    BY <1>9 DEF Uninstall, GiveUp
  <2>2. PICK gone \in {{}, Unneeded \cap Installed} :
              /\ rootfs' = rootfs \ gone
              /\ db' = [p \in Pkgs |-> IF p \in gone THEN "none" ELSE db[p]]
    BY <2>1
  <2>3. Installed' = Installed \ gone
    BY <2>2, InstalledAfter DEF Installed
  <2> QED
    BY <1>9, <2>1, <2>2, <2>3, TreeFilled DEF Filled, Backed
<1>10. CASE ReadPostinsts \/ ResolvePostinsts \/ CircularPostinsts
  BY <1>1, <1>5, <1>10 DEF ReadPostinsts, ResolvePostinsts, CircularPostinsts, GiveUp
<1>11. CASE CheckPostinsts /\ sound'
  <2>1. /\ imgStep = "check" /\ imgStep' = "uninstall" /\ sound
        /\ UNCHANGED <<build, rootfs, db, savedDb>>
    BY <1>11 DEF CheckPostinsts
  <2> QED
    BY <1>11, <2>1, TreeStays DEF Filled, Backed, Installed
<1>12. CASE SavePostinsts /\ sound'
  <2>1. /\ imgStep = "save" /\ imgStep' = "finished" /\ sound
        /\ UNCHANGED <<build, rootfs, db, savedDb>>
    BY <1>12 DEF SavePostinsts, GiveUp
  <2>2. Installed' = Installed /\ Missing' = Missing /\ Allowed' = Allowed /\ Filled /\ Filled' /\ Backed
    BY <2>1 DEF Installed, Missing, Allowed, Filled, Backed
  <2> QED
    BY <2>1, <2>2 DEF TreeInv, Closed
<1> QED
  BY <1>1, <1>2, <1>3, <1>4, <1>5, <1>6, <1>7, <1>8, <1>9, <1>10, <1>11, <1>12 DEF ImgNext, imgVars

LEMMA NothingAsked ==
  ASSUME WorkTypeOK, build.want = {}
  PROVE  Closure(build.want) = {} /\ Complementary({}) = {} /\ (~build.inc => Allowed = {})
<1>1. {} \in SUBSET Pkgs /\ Closed({})
  BY DEF Closed
<1>2. Closure({}) = {}
  BY <1>1, ClosureIsLeast
<1>3. Complementary({}) = {}
  BY DEF Complementary
<1> QED
  BY <1>2, <1>3 DEF Allowed

LEMMA IncStep ==
  ASSUME WorkTypeOK, ResolveInv, TreeInv, IncInv, [ImgNext]_imgVars
  PROVE  IncInv'
<1> SUFFICES ASSUME sound', build'.inc, backend' # "rpm" PROVE IncInv'
  BY DEF IncInv
<1>0. backend' = backend
  BY DEF ImgNext, StartImage, DecrementRpm, DecrementIpk, Install, DebugfsAndBackup, Configure,
     RunIntercepts, ReadPostinsts, ResolvePostinsts, CircularPostinsts, CheckPostinsts, Uninstall,
     SavePostinsts, imgVars, workVars
<1>1. ASSUME NEW w \in Asked, NEW i \in BOOLEAN, NEW r \in BOOLEAN, StartImage(w, i, r)
      PROVE  IncInv'
  <2>1. imgStep' = "decrement"
    BY <1>1 DEF StartImage
  <2>2. CASE rootfs' = {} /\ db' = NoDb
    <3>1. firstBoot' = <<>>
      <4>1. CASE firstBoot' = <<>>
        BY <4>1
      <4>2. CASE UNCHANGED <<rootfs, firstBoot>> /\ builds = 0
        BY <4>2 DEF WorkTypeOK
      <4>3. CASE UNCHANGED firstBoot /\ imgStep = "finished" /\ sound /\ build.inc
        BY <1>0, <4>3 DEF IncInv
      <4> QED
        BY <1>1, <4>1, <4>2, <4>3 DEF StartImage, bootVars
    <3> QED
      BY <2>1, <2>2, <3>1 DEF IncInv
  <2>3. CASE ~(rootfs' = {} /\ db' = NoDb)
    <3>1. imgStep = "finished" /\ sound /\ build.inc /\ UNCHANGED <<rootfs, firstBoot>>
      BY <1>1, <2>3, StartDoes
    <3> QED
      BY <1>0, <2>1, <3>1 DEF IncInv
  <2> QED
    BY <2>2, <2>3
<1>2. CASE UNCHANGED <<build, rootfs, firstBoot>> /\ sound /\ imgStep # "decrement" /\ imgStep' # "decrement"
  BY <1>0, <1>2 DEF IncInv
<1>3. CASE UNCHANGED workVars
  BY <1>3 DEF IncInv, workVars
<1>4. CASE DecrementRpm
  BY <1>0, <1>4 DEF DecrementRpm
<1>5. CASE DecrementIpk
  BY <1>0, <1>5 DEF DecrementIpk, GiveUp, IncInv, bootVars
<1>6. CASE Install
  <2>1. /\ imgStep = "install" /\ imgStep' = "debugfs" /\ sound /\ UNCHANGED <<backend, build>>
        /\ \E more \in {{}, Complementary(Installed \cup Closure(build.want))} :
             \E fails, asks \in SUBSET Scripted : Installs(more, fails, asks)
    BY <1>6, InstallDoes
  <2>2. build.want = {} /\ rootfs = {} /\ firstBoot = <<>> /\ Installed = {}
    BY <1>0, <2>1 DEF IncInv, TreeInv
  <2>3. Closure(build.want) = {} /\ Complementary({}) = {} /\ Closure({}) = {}
    BY <2>2, NothingAsked
  <2>4. \E fails, asks \in SUBSET Scripted : Installs({}, fails, asks)
    BY <2>1, <2>2, <2>3
  <2>5. rootfs' = {} /\ firstBoot' = <<>>
    BY <1>0, <2>2, <2>3, <2>4 DEF Installs
  <2> QED
    BY <2>1, <2>2, <2>5 DEF IncInv
<1>7. CASE DebugfsAndBackup
  BY <1>2, <1>7 DEF DebugfsAndBackup, GiveUp, bootVars
<1>8. CASE Configure
  BY <1>2, <1>8 DEF Configure, bootVars
<1>9. CASE RunIntercepts
  BY <1>2, <1>9 DEF RunIntercepts, AfterIntercepts, GiveUp
<1>10. CASE ReadPostinsts \/ ResolvePostinsts
  BY <1>3, <1>10 DEF ReadPostinsts, ResolvePostinsts
<1>11. CASE CircularPostinsts \/ CheckPostinsts
  BY <1>2, <1>11 DEF CircularPostinsts, CheckPostinsts, GiveUp, bootVars
<1>12. CASE Uninstall
  <2>1. /\ imgStep = "uninstall" /\ imgStep' # "decrement" /\ UNCHANGED <<build, firstBoot>> /\ sound
        /\ \E gone : rootfs' = rootfs \ gone
    BY <1>12 DEF Uninstall, GiveUp, bootVars
  <2> QED
    BY <1>0, <2>1 DEF IncInv
<1>13. CASE SavePostinsts
  <2>1. /\ imgStep = "save" /\ AllResolved /\ resolved # <<>> /\ UNCHANGED build /\ sound
    BY <1>13 DEF SavePostinsts, GiveUp
  <2>2. WalkInv /\ postinsts \in Listed /\ build.want = {}
    BY <1>0, <2>1 DEF ResolveInv, AllResolved, IncInv
  <2>3. postinsts = {} /\ resolved \in Seq(postinsts)
    BY <2>1, <2>2, WalkEnds DEF Listed
  <2> QED
    BY <2>1, <2>3
<1> QED
  BY <1>1, <1>3, <1>4, <1>5, <1>6, <1>7, <1>8, <1>9, <1>10, <1>11, <1>12, <1>13 DEF ImgNext, imgVars
(* What database changes do to the list of what is put off.                *)
LEMMA UnpackedAfter ==
  ASSUME NEW S \in SUBSET Pkgs, NEW T
  PROVE  /\ db' = [p \in Pkgs |-> IF p \in S THEN "none" ELSE db[p]] => Unpacked' = Unpacked \ S
         /\ db' = [p \in Pkgs |-> IF p \in S THEN StatusOf(T)[p] ELSE db[p]] /\ backend = "ipk" =>
               Unpacked' = (Unpacked \ S) \cup (S \cap T)
         /\ db' = MarkUnpacked(S) => Unpacked' = Unpacked \cup S
  BY DEF Unpacked, MarkUnpacked, StatusOf

LEMMA ScriptInstall == ASSUME WorkTypeOK, TreeInv, ScriptInv, Install PROVE ScriptInv'
<1> SUFFICES ASSUME sound' PROVE ScriptInv'
  BY DEF ScriptInv
<1>1. PICK more \in {{}, Complementary(Installed \cup Closure(build.want))} :
              \E fails, asks \in SUBSET Scripted : Installs(more, fails, asks)
  BY InstallDoes
<1>2. PICK fails, asks \in SUBSET Scripted : Installs(more, fails, asks)
  BY <1>1
<1>3. imgStep = "install" /\ imgStep' = "debugfs" /\ sound /\ UNCHANGED <<backend, build, postponed>>
  BY InstallDoes
<1>. DEFINE new == Closure(build.want \cup more) \ Installed
            run == IF backend = "deb" THEN {} ELSE new \cap Scripted
<1>4. new \in SUBSET Pkgs /\ rootfs = Installed /\ Scripted \subseteq Pkgs
  BY <1>3, PkgsAssumption DEF Closure, TreeInv, PkgsAssumption
<1>5. /\ fails \subseteq run /\ asks \subseteq run
      /\ rootfs' = rootfs \cup new
      /\ db' = [p \in Pkgs |-> IF p \in new THEN StatusOf(fails)[p] ELSE db[p]]
      /\ hooked' = asks
      /\ done' = (done \ new) \cup (run \ (fails \cup asks))
      /\ firstBoot' = IF backend = "rpm" THEN firstBoot \o SetToSeq(fails) ELSE firstBoot
  BY <1>2 DEF Installs
<1>. HIDE DEF new
<1>6. hooked' \subseteq rootfs' /\ WaitsForHook' = asks
  BY <1>3, <1>5 DEF WaitsForHook
<1>7. ASSUME backend # "deb" PROVE rootfs' \cap Scripted \subseteq done' \cup Delayed' \cup asks
  <2>1. rootfs \cap Scripted \subseteq done \cup Delayed
    BY <1>3, <1>7 DEF ScriptInv, WaitsForHook
  <2>2. (Delayed \ new) \cup fails \subseteq Delayed'
    <3>1. CASE backend = "rpm"
      <4>1. ToSet(firstBoot') = ToSet(firstBoot) \cup fails
        BY <1>5, <3>1, SavedBehind DEF WorkTypeOK
      <4> QED
        BY <1>3, <3>1, <4>1 DEF Delayed, Saved
    <3>2. CASE backend = "ipk"
      <4>1. Unpacked' = (Unpacked \ new) \cup (new \cap fails)
        BY <1>4, <1>5, <3>2, UnpackedAfter
      <4>2. fails \subseteq new
        BY <1>5, <3>2
      <4> QED
        BY <1>3, <3>2, <4>1, <4>2 DEF Delayed
    <3> QED
      BY <1>7, <3>1, <3>2 DEF WorkTypeOK
  <2>3. run = new \cap Scripted /\ rootfs \cap new = {}
    BY <1>4, <1>7 DEF new
  <2>4. ASSUME NEW p \in new \cap Scripted PROVE p \in done' \cup Delayed' \cup asks
    BY <1>5, <2>2, <2>3
  <2>5. ASSUME NEW p \in rootfs \cap Scripted PROVE p \in done' \cup Delayed' \cup asks
    BY <1>5, <2>1, <2>2, <2>3
  <2> QED
    BY <1>5, <2>4, <2>5
<1>. HIDE DEF run
<1>8. backend # "rpm" => firstBoot' = firstBoot
  BY <1>5
<1>9. backend # "rpm" => postponed' = {}
  BY <1>3 DEF ScriptInv
<1> QED
  BY <1>3, <1>6, <1>7, <1>8, <1>9 DEF ScriptInv, PostinstsKept

(* What a list of the status file leaves out: without packages there is    *)
(* nothing to list, and otherwise it is one package at most.               *)
LEMMA ListedLeaves ==
  ASSUME WorkTypeOK, TreeInv, IncInv, sound, Filled, backend # "rpm", NEW S \in Listed
  PROVE  \A p, q \in Unpacked \ S : p = q
<1>1. CASE build.want # {}
  BY <1>1 DEF Listed
<1>2. CASE build.want = {}
  <2>1. rootfs = {}
    <3>1. CASE build.inc
      BY <3>1 DEF IncInv
    <3>2. CASE ~build.inc
      <4>1. Allowed = {} /\ rootfs \subseteq Allowed
        BY <1>2, <3>2, NothingAsked DEF TreeInv
      <4> QED
        BY <4>1
    <3> QED
      BY <3>1, <3>2
  <2>2. Unpacked \subseteq Installed /\ Installed = rootfs
    BY DEF Unpacked, Installed, TreeInv
  <2> QED
    BY <2>1, <2>2
<1> QED
  BY <1>1, <1>2

LEMMA ScriptUninstall ==
  ASSUME WorkTypeOK, ResolveInv, TreeInv, IncInv, ScriptInv, Uninstall
  PROVE  ScriptInv'
<1> SUFFICES ASSUME sound' PROVE ScriptInv'
  BY DEF ScriptInv
<1>. DEFINE delayed == IF backend = "rpm" THEN Saved ELSE ToSet(resolved)
<1>1. /\ imgStep = "uninstall" /\ sound /\ UNCHANGED <<backend, build, firstBoot, postponed>>
      /\ build.ro => delayed = {}
      /\ imgStep' = IF backend # "rpm" /\ delayed # {} THEN "save" ELSE "finished"
  BY DEF Uninstall, GiveUp, bootVars
<1>2. PICK gone \in {{}, Unneeded \cap Installed} :
         /\ rootfs' = rootfs \ gone
         /\ db' = [p \in Pkgs |-> IF p \in gone THEN "none" ELSE db[p]]
         /\ done' = done \ gone
  BY DEF Uninstall, GiveUp
<1>3. gone \in SUBSET Pkgs
  BY DEF Installed
<1>4. rootfs \cap Scripted \subseteq done \cup Delayed
  BY <1>1 DEF ScriptInv, WaitsForHook
<1>5. CASE backend = "rpm"
  <2>1. Delayed = Saved /\ Saved' = Saved /\ imgStep' = "finished"
    BY <1>1, <1>5 DEF Delayed, Saved
  <2>5. Delayed' = Saved'
    BY <1>1, <1>5 DEF Delayed
  <2>2. build.ro => Saved' = {}
    BY <1>1, <1>5, <2>1
  <2>3. rootfs' \cap Scripted \subseteq done' \cup Saved'
    BY <1>2, <1>4, <2>1
  <2>4. Lost' = {}
    BY <2>3 DEF Lost
  <2> QED
    BY <1>1, <1>5, <2>1, <2>2, <2>3, <2>4, <2>5 DEF ScriptInv, PostinstsKept
<1>6. CASE backend # "rpm"
  <2>1. Delayed = Unpacked /\ Delayed' = Unpacked \ gone
    BY <1>1, <1>2, <1>3, <1>6, UnpackedAfter DEF Delayed
  <2>2. firstBoot' = <<>>
    BY <1>1, <1>6 DEF ScriptInv
  <2>3. rootfs' \cap Scripted \subseteq done' \cup Delayed'
    BY <1>2, <1>4, <2>1
  <2>4. ASSUME imgStep' = "finished" PROVE \A p, q \in Lost' : p = q
    <3>1. ToSet(resolved) \in Listed /\ ToSet(resolved) = {}
      BY <1>1, <1>6, <2>4 DEF ResolveInv
    <3>2. \A p, q \in Unpacked : p = q
      BY <1>1, <1>6, <3>1, ListedLeaves DEF Filled, Backed
    <3>3. Lost' \subseteq Unpacked
      BY <2>1, <2>3 DEF Lost
    <3> QED
      BY <3>2, <3>3
  <2>5. imgStep' = "save" => ~build'.ro
    BY <1>1
  <2>6. postponed' = {} /\ Saved' = {}
    BY <1>1, <1>6, <2>2 DEF ScriptInv, Saved, ToSet
  <2> QED
    BY <1>1, <1>6, <2>2, <2>3, <2>4, <2>5, <2>6 DEF ScriptInv, PostinstsKept
<1> QED
  BY <1>5, <1>6

LEMMA ScriptSave ==
  ASSUME WorkTypeOK, ResolveInv, TreeInv, IncInv, ScriptInv, SavePostinsts
  PROVE  ScriptInv'
<1> SUFFICES ASSUME sound' PROVE ScriptInv'
  BY DEF ScriptInv
<1>1. /\ imgStep = "save" /\ AllResolved /\ imgStep' = "finished" /\ firstBoot' = resolved /\ sound
      /\ UNCHANGED <<backend, build, rootfs, db, done, postponed>>
  BY DEF SavePostinsts, GiveUp
<1>2. WalkInv /\ postinsts \in Listed /\ backend # "rpm" /\ ~build.ro
  BY <1>1 DEF ResolveInv, AllResolved, ScriptInv
<1>3. /\ ToSet(resolved) = postinsts
      /\ \A i, j \in DOMAIN resolved : resolved[i] \in Depends[resolved[j]] => i < j
  BY <1>1, <1>2, WalkEnds
<1>4. rootfs \cap Scripted \subseteq done \cup Unpacked
  BY <1>1, <1>2 DEF ScriptInv, WaitsForHook, Delayed
<1>5. Lost' \subseteq Unpacked \ postinsts
  BY <1>1, <1>3, <1>4 DEF Lost, Saved
<1>6. \A p, q \in Lost' : p = q
  BY <1>1, <1>2, <1>5, ListedLeaves DEF Filled, Backed
<1>7. rootfs' \cap Scripted \subseteq done' \cup Delayed'
  BY <1>1, <1>2, <1>4 DEF Delayed, Unpacked
<1>8. postponed' = {}
  BY <1>1, <1>2 DEF ScriptInv
<1> QED
  BY <1>1, <1>2, <1>3, <1>6, <1>7, <1>8 DEF ScriptInv, PostinstsKept

LEMMA ScriptStep ==
  ASSUME WorkTypeOK, ResolveInv, TreeInv, IncInv, ScriptInv, [ImgNext]_imgVars
  PROVE  ScriptInv'
<1>0. rootfs \subseteq Pkgs /\ Installed \subseteq Pkgs /\ (sound => rootfs = Installed)
  BY DEF WorkTypeOK, ImageTypeOK, Installed, TreeInv
<1>1. CASE UNCHANGED workVars
  BY <1>1 DEF workVars, ScriptInv, WaitsForHook, Delayed, Unpacked, PostinstsKept, Lost, Saved
<1>2. CASE ~sound'
  BY <1>2 DEF ScriptInv
<1>3. ASSUME NEW w \in Asked, NEW i \in BOOLEAN, NEW r \in BOOLEAN, StartImage(w, i, r), sound'
      PROVE  ScriptInv'
  <2>1. /\ imgStep' \in {"decrement", "install"} /\ hooked' = {} /\ backend' = backend
        /\ imgStep' = "decrement" => backend # "deb"
    <3>1. /\ imgStep' = (IF i THEN "decrement" ELSE "install") /\ hooked' = {} /\ backend' = backend
          /\ i => backend # "deb"
      BY <1>3 DEF StartImage
    <3> QED
      BY <3>1
  <2>2. ASSUME backend # "deb" PROVE rootfs' \cap Scripted \subseteq done' \cup Delayed'
    <3>1. CASE rootfs' = {}
      BY <3>1
    <3>2. CASE ~(rootfs' = {} /\ db' = NoDb)
      <4>1. imgStep = "finished" /\ sound /\ UNCHANGED <<rootfs, db, done, firstBoot, postponed>>
        BY <1>3, <3>2, StartDoes
      <4>2. rootfs \cap Scripted \subseteq done \cup Delayed
        BY <4>1 DEF ScriptInv, WaitsForHook
      <4> QED
        BY <2>1, <4>1, <4>2 DEF Delayed, Unpacked, Saved
    <3> QED
      BY <3>1, <3>2
  <2>3. backend # "rpm" => firstBoot' = <<>>
    <3>1. CASE UNCHANGED firstBoot
      <4>1. builds = 0 \/ (imgStep = "finished" /\ sound /\ build.inc)
            \/ firstBoot' = <<>>
        BY <1>3 DEF StartImage
      <4> QED
        BY <3>1, <4>1 DEF IncInv, WorkTypeOK
    <3> QED
      BY <1>3, <3>1 DEF StartImage, bootVars
  <2>4. backend # "rpm" => postponed' = {}
    BY <1>3 DEF StartImage, bootVars, ScriptInv, WorkTypeOK
  <2> QED
    BY <2>1, <2>2, <2>3, <2>4 DEF ScriptInv, PostinstsKept
<1>4. CASE DecrementRpm /\ sound'
  <2>1. /\ imgStep = "decrement" /\ imgStep' = "install" /\ sound /\ backend = "rpm"
        /\ UNCHANGED <<backend, hooked, firstBoot, postponed>>
        /\ \E gone : rootfs' = rootfs \ gone /\ done' = done \ gone
    <3>1. CASE build.want = {}
      <4>1. rootfs' = rootfs \ {} /\ done' = done \ {}
        BY <1>4, <3>1 DEF DecrementRpm
      <4> QED
        BY <1>4, <3>1, <4>1 DEF DecrementRpm, GiveUp, bootVars
    <3>2. CASE build.want # {}
      BY <1>4, <3>2 DEF DecrementRpm, bootVars
    <3> QED
      BY <3>1, <3>2
  <2>2. rootfs \cap Scripted \subseteq done \cup Delayed /\ hooked = {} /\ Delayed' = Delayed
    BY <2>1 DEF ScriptInv, WaitsForHook, Delayed, Saved
  <2> QED
    BY <2>1, <2>2 DEF ScriptInv, PostinstsKept
<1>5. CASE DecrementIpk /\ sound'
  <2>1. /\ imgStep = "decrement" /\ imgStep' = "install" /\ sound
        /\ UNCHANGED <<backend, rootfs, db, hooked, done, firstBoot, postponed>>
    BY <1>5 DEF DecrementIpk, GiveUp, bootVars
  <2> QED
    BY <2>1 DEF ScriptInv, WaitsForHook, PostinstsKept, Delayed, Unpacked, Saved
<1>6. CASE DebugfsAndBackup /\ sound'
  <2>1. /\ imgStep = "debugfs" /\ imgStep' = IF backend = "deb" THEN "configure" ELSE "intercepts"
        /\ sound /\ UNCHANGED <<backend, rootfs, db, hooked, done, firstBoot, postponed>>
    BY <1>6 DEF DebugfsAndBackup, GiveUp, bootVars
  <2> QED
    BY <2>1 DEF ScriptInv, WaitsForHook, PostinstsKept, Delayed, Unpacked, Saved
<1>7. CASE Configure /\ sound'
  <2>1. /\ imgStep = "configure" /\ imgStep' = "intercepts" /\ sound
        /\ UNCHANGED <<backend, rootfs, firstBoot, postponed>>
        /\ hooked' \subseteq Installed
        /\ \E fails \in SUBSET Installed : /\ db' = MarkUnpacked(fails)
                                         /\ done' = (Installed \cap Scripted) \ (fails \cup hooked')
    BY <1>7 DEF Configure, bootVars
  <2>2. PICK fails \in SUBSET Installed : /\ db' = MarkUnpacked(fails)
                                          /\ done' = (Installed \cap Scripted) \ (fails \cup hooked')
    BY <2>1
  <2>3. Delayed' = Unpacked \cup fails
    BY <1>0, <2>1, <2>2, UnpackedAfter DEF ScriptInv, Delayed
  <2> QED
    BY <1>0, <2>1, <2>2, <2>3 DEF ScriptInv, WaitsForHook, PostinstsKept
<1>8. CASE RunIntercepts /\ sound'
  <2>1. /\ imgStep = "intercepts" /\ imgStep' \in {"check", "uninstall"} /\ sound
        /\ UNCHANGED <<backend, rootfs, firstBoot>>
        /\ \/ done' = done \cup (hooked \ Delayed) /\ UNCHANGED <<db, postponed>>
           \/ /\ done' = done /\ backend = "rpm" /\ postponed' = postponed \cup hooked
           \/ /\ done' = done /\ backend # "rpm" /\ db' = MarkUnpacked(hooked)
              /\ UNCHANGED postponed
    BY <1>8 DEF RunIntercepts, AfterIntercepts, GiveUp
  <2>2. rootfs \cap Scripted \subseteq done \cup Delayed \cup hooked /\ hooked \in SUBSET Pkgs
    BY <1>0, <2>1 DEF ScriptInv, WaitsForHook
  <2>3. done \cup Delayed \cup hooked \subseteq done' \cup Delayed'
    <3>1. CASE done' = done \cup (hooked \ Delayed) /\ UNCHANGED <<db, postponed>>
      BY <2>1, <3>1 DEF Delayed, Unpacked, Saved
    <3>2. CASE done' = done /\ backend = "rpm" /\ postponed' = postponed \cup hooked
      BY <2>1, <3>2 DEF Delayed, Saved
    <3>3. CASE done' = done /\ backend # "rpm" /\ db' = MarkUnpacked(hooked)
      <4>1. Unpacked' = Unpacked \cup hooked
        BY <2>2, <3>3, UnpackedAfter
      <4> QED
        BY <2>1, <3>3, <4>1 DEF Delayed
    <3> QED
      BY <2>1, <3>1, <3>2, <3>3
  <2>4. backend # "rpm" => postponed' = {}
    BY <2>1 DEF ScriptInv
  <2> QED
    BY <2>1, <2>2, <2>3, <2>4 DEF ScriptInv, PostinstsKept
<1>9. CASE ReadPostinsts \/ ResolvePostinsts \/ CircularPostinsts
  BY <1>1, <1>2, <1>9 DEF ReadPostinsts, ResolvePostinsts, CircularPostinsts, GiveUp
<1>10. CASE CheckPostinsts /\ sound'
  <2>1. /\ imgStep = "check" /\ imgStep' = "uninstall" /\ sound
        /\ UNCHANGED <<backend, build, rootfs, db, hooked, done, firstBoot, postponed>>
    BY <1>10 DEF CheckPostinsts, bootVars
  <2> QED
    BY <2>1 DEF ScriptInv, WaitsForHook, PostinstsKept, Delayed, Unpacked, Saved
<1> QED
  BY <1>1, <1>2, <1>3, <1>4, <1>5, <1>6, <1>7, <1>8, <1>9, <1>10, ScriptInstall, ScriptUninstall,
     ScriptSave DEF ImgNext, imgVars

LEMMA ImageStep == ImageInv /\ [ImgNext]_imgVars => ImageInv'
  BY WorkTypeStep, ResolveStep, TreeStep, IncStep, ScriptStep DEF ImageInv

LEMMA ImageStart == ImgInit => ImageInv
<1>1. ImgInit => ScriptInv
  BY DEF ImgInit, ScriptInv, PostinstsKept
<1>2. ImgInit => IncInv
  BY DEF ImgInit, IncInv
<1> QED
  BY <1>1, <1>2, WorkTypeInit, ResolveStart, TreeInit DEF ImageInv

(* The types of the image and of the walk: only a package with a script is *)
(* ever left unpacked, walked to, or saved for the first boot, where opkg  *)
(* and dpkg have each script only once (rootfs.py:554, 586, 618) and RPM   *)
(* may have it under several names (package_manager.py:1082, 1385).        *)
THEOREM ImgTypeHolds == ImgSpec => []ImgTypeOK
<1>1. ASSUME ImageInv, calls # <<>>
      PROVE  /\ postinsts \subseteq Scripted /\ seenNodes \subseteq Scripted \cup {PostinstRoot}
             /\ resolved \in Seq(Scripted)
             /\ calls \in Seq([node : Scripted \cup {PostinstRoot}, left : SUBSET Scripted])
  <2>1. WalkTypeOK /\ postinsts \subseteq Scripted
    BY <1>1, ListedIn DEF ImageInv, ResolveInv, WalkInv
  <2>2. Frames \subseteq [node : Scripted \cup {PostinstRoot}, left : SUBSET Scripted]
    BY <2>1 DEF Frames
  <2>3. calls \in Seq([node : Scripted \cup {PostinstRoot}, left : SUBSET Scripted])
    BY <2>1, <2>2, SeqMonotonic DEF WalkTypeOK
  <2>4. resolved \in Seq(Scripted)
    BY <2>1, SeqMonotonic DEF WalkTypeOK
  <2> QED
    BY <2>1, <2>3, <2>4 DEF WalkTypeOK
<1>2. ASSUME ImageInv, calls = <<>>
      PROVE  /\ postinsts \subseteq Scripted /\ seenNodes \subseteq Scripted \cup {PostinstRoot}
             /\ resolved \in Seq(Scripted)
             /\ calls \in Seq([node : Scripted \cup {PostinstRoot}, left : SUBSET Scripted])
  <2>1. postinsts = {} /\ seenNodes = {} /\ resolved \in Seq(Scripted)
    BY <1>2, EmptySeq DEF ImageInv, ResolveInv
  <2> QED
    BY <1>2, <2>1, EmptySeq
<1>3. ImageInv => ImgTypeOK
  BY <1>1, <1>2 DEF ImageInv, WorkTypeOK, ImageTypeOK, ImgTypeOK
<1> QED
  BY ImageStart, ImageStep, <1>3, PTL DEF ImgSpec

(* The walk gives up on a circular dependency only when there is one: a    *)
(* package put off that needs itself, at once or through others            *)
(* (rootfs.py:592).                                                        *)
AlarmIsReal == CircularEdge => \E p \in Unpacked : p \in Closure(Depends[p])

THEOREM AlarmIsRealHolds == ImgSpec => []AlarmIsReal
<1>1. ASSUME ImageInv, CircularEdge PROVE \E p \in Unpacked : p \in Closure(Depends[p])
  <2>1. calls # <<>> /\ WalkInv /\ postinsts \in Listed
    BY <1>1 DEF CircularEdge, ImageInv, ResolveInv
  <2>2. postinsts \subseteq Unpacked
    BY <1>1, <2>1, ListedIn DEF ImageInv
  <2> QED
    BY <1>1, <2>1, <2>2, WalkRaises
<1>2. ImageInv => AlarmIsReal
  BY <1>1 DEF AlarmIsReal
<1> QED
  BY ImageStart, ImageStep, <1>2, PTL DEF ImgSpec

(* For any packages, dependencies, complementary packages and number of    *)
(* builds, a finished sound image holds exactly what was asked for and     *)
(* what that needs (rootfs.py:391, 404).                                   *)
THEOREM ImageExactHolds == ImgSpec => []ImageExact
<1>1. ImageInv => ImageExact
  BY DEF ImageInv, TreeInv, ImageExact, Filled, Backed, Missing, Allowed
<1> QED
  BY ImageStart, ImageStep, <1>1, PTL DEF ImgSpec

(* And no post-install script of it is lost (rootfs.py:208, 282, 586).     *)
THEOREM PostinstsKeptHolds == ImgSpec => []PostinstsKept
<1>1. ImageInv => PostinstsKept
  BY DEF ImageInv, ScriptInv, PostinstsKept
<1> QED
  BY ImageStart, ImageStep, <1>1, PTL DEF ImgSpec
-----------------------------------------------------------------------------
(* An interval from 1 has as many elements as its end says.                *)
LEMMA CountedTo == \A n \in Nat : IsFiniteSet(1..n) /\ Cardinality(1..n) = n
<1> TAKE n \in Nat
<1>1. 1 \in Int /\ n \in Int
  OBVIOUS
<1>2. IsFiniteSet(1..n) /\ Cardinality(1..n) = IF 1 > n THEN 0 ELSE n - 1 + 1
  BY <1>1, FS_Interval
<1> QED
  BY <1>2

(* The state of do_patch, and what its steps keep of it: with git the tree *)
(* has a prefix of the patches; without an interruption patches/series is  *)
(* what patch applied; quilt's stack is where do_patch is.                 *)
PatchWorkInv ==
    /\ PatchTypeOK /\ patchTool \in {"patch", "quilt", "git"}
    /\ patchResolver \in {"noop", "user"}
    /\ hadHooks \in BOOLEAN /\ interrupted \in BOOLEAN
    /\ patchStep = "patching" => patchNext \in 1..Len(Patches)
    /\ patchTool = "git" => /\ applied = SubSeq(Patches, 1, Len(applied))
                            /\ Len(applied) <= Len(Patches)
    /\ patchTool = "quilt" /\ patchStep = "patching"
       => /\ Len(applied) <= Len(series)
          /\ patchResolver = "noop" => Len(applied) = patchNext - 1
    /\ patchTool = "patch" /\ ~interrupted => series = applied
    /\ patchStep = "patched" /\ patchResolver = "noop" => applied = Patches /\ half = {}

(* Patches is a sequence, with each patch in it once.                      *)
LEMMA PatchesAre ==
    /\ Patches \in Seq(ToSet(Patches)) /\ Len(Patches) \in Nat \ {0}
    /\ \A i \in 1..Len(Patches) : Patches[i] \in ToSet(Patches)
    /\ \A i, j \in 1..Len(Patches) : Patches[i] = Patches[j] => i = j
<1>1. Patches \in Seq(ToSet(Patches)) /\ Patches # <<>>
      /\ \A i, j \in DOMAIN Patches : Patches[i] = Patches[j] => i = j
  BY PatchesAssumption DEF IsInjective
<1> QED
  BY <1>1 DEF ToSet

(* Clean reverses no more patches than there are.                          *)
LEMMA ReversedBound ==
    ASSUME PatchTypeOK, NEW order
    PROVE  ReversedFrom(order) \in 0..Len(applied)
<1>. DEFINE S == {i \in 1..Len(series) : Reverses(order, i)}
<1>1. Len(applied) \in Nat
  BY DEF PatchTypeOK
<1>2. S \subseteq 1..Len(applied)
  BY <1>1 DEF Reverses
<1>3. IsFiniteSet(1..Len(applied)) /\ Cardinality(1..Len(applied)) = Len(applied)
  BY <1>1, CountedTo
<1>4. Cardinality(S) \in 0..Len(applied)
  BY <1>1, <1>2, <1>3, FS_Subset, FS_CardinalityType
<1> QED
  BY <1>4 DEF ReversedFrom

(* When series is what is applied, and nothing is there in part, Clean     *)
(* takes it all out.                                                       *)
LEMMA ReversesAll ==
    ASSUME PatchTypeOK, series = applied, half = {}
    PROVE  Reversed = Len(series) /\ LeftApplied = <<>>
<1>. DEFINE order == [i \in 1..Len(series) |-> FromEnd(series, i)]
            S == {i \in 1..Len(series) : Reverses(order, i)}
<1>1. Len(series) \in Nat /\ Len(applied) = Len(series)
  BY DEF PatchTypeOK
<1>2. S = 1..Len(series)
  BY <1>1 DEF Reverses
<1>3. Cardinality(1..Len(series)) = Len(series)
  BY <1>1, CountedTo
<1>4. Reversed = Len(series)
  BY <1>2, <1>3 DEF Reversed, ReversedFrom
<1>5. LeftApplied = SubSeq(applied, 1, 0)
  BY <1>1, <1>4 DEF LeftApplied
<1> QED
  BY <1>4, <1>5 DEF PatchTypeOK

(* A patch that fits makes the next longer prefix.                         *)
LEMMA FitsAppends ==
    ASSUME PatchTypeOK, NEW p, Fits(p)
    PROVE  /\ half = {} /\ p \in ToSet(Patches) /\ Append(applied, p) \in Seq(ToSet(Patches))
           /\ Len(Append(applied, p)) = Len(applied) + 1 /\ Len(applied) + 1 <= Len(Patches)
           /\ Append(applied, p) = SubSeq(Patches, 1, Len(applied) + 1)
           /\ \A j \in 1..Len(Patches) : Patches[j] = p => j = Len(applied) + 1
<1>1. /\ half = {} /\ applied = SubSeq(Patches, 1, Len(applied)) /\ Len(applied) \in Nat
      /\ Len(applied) < Len(Patches) /\ Patches[Len(applied) + 1] = p
      /\ applied \in Seq(ToSet(Patches))
  BY DEF Fits, PatchTypeOK
<1>2. p \in ToSet(Patches) /\ \A j \in 1..Len(Patches) : Patches[j] = p => j = Len(applied) + 1
  BY <1>1, PatchesAre
<1>3. Append(applied, p) = SubSeq(Patches, 1, Len(applied) + 1)
  BY <1>1, PatchesAre
<1> QED
  BY <1>1, <1>2, <1>3

LEMMA WholePrefix == SubSeq(Patches, 1, Len(Patches)) = Patches
  BY PatchesAre

(* A prefix of a prefix is one.                                            *)
LEMMA PrefixOfPrefix ==
    ASSUME NEW s \in Seq(ToSet(Patches)), NEW k \in 0..Len(s),
           s = SubSeq(Patches, 1, Len(s)), Len(s) <= Len(Patches)
    PROVE  /\ Len(SubSeq(s, 1, k)) = k /\ SubSeq(s, 1, k) = SubSeq(Patches, 1, k)
           /\ SubSeq(s, 1, k) \in Seq(ToSet(Patches))
<1>1. SubSeq(s, 1, k) \in Seq(ToSet(Patches)) /\ Len(SubSeq(s, 1, k)) = k
  OBVIOUS
<1>2. SubSeq(Patches, 1, k) \in Seq(ToSet(Patches)) /\ Len(SubSeq(Patches, 1, k)) = k
  BY PatchesAre
<1>3. \A i \in 1..k : s[i] = Patches[i]
  BY PatchesAre
<1>4. \A i \in 1..k : SubSeq(s, 1, k)[i] = SubSeq(Patches, 1, k)[i]
  BY <1>3, PatchesAre
<1> QED
  BY <1>1, <1>2, <1>4, SeqEqual

LEMMA PatchWorkInit == PatchInit => PatchWorkInv
<1> SUFFICES ASSUME PatchInit PROVE PatchWorkInv
  OBVIOUS
<1>1. applied = <<>> /\ series = <<>> /\ half = {} /\ patchStep = "idle" /\ patchNext = 1
      /\ interrupted = FALSE /\ backup = "none" /\ hooks \in {"user", "none"}
      /\ hadHooks \in BOOLEAN /\ patchTool \in {"patch", "quilt", "git"}
      /\ patchResolver \in {"noop", "user"}
  BY DEF PatchInit
<1>2. <<>> \in Seq(ToSet(Patches)) /\ Len(<<>>) = 0 /\ <<>> = SubSeq(Patches, 1, 0)
  BY PatchesAre
<1>3. half \subseteq ToSet(Patches) /\ {hooks, backup} \subseteq {"none", "user", "devtool"}
  BY <1>1
<1>4. patchNext \in 1..(Len(Patches) + 1)
  BY <1>1, PatchesAre
<1>5. PatchTypeOK
  BY <1>1, <1>2, <1>3, <1>4 DEF PatchTypeOK
<1>6. hadHooks \in BOOLEAN /\ interrupted \in BOOLEAN
  BY <1>1
<1>7. Len(applied) <= Len(Patches) /\ applied = SubSeq(Patches, 1, Len(applied)) /\ series = applied
  BY <1>1, <1>2, PatchesAre
<1> QED
  BY <1>1, <1>5, <1>6, <1>7 DEF PatchWorkInv

LEMMA PatchStart == ASSUME PatchWorkInv, StartPatching PROVE PatchWorkInv'
<1>1. /\ patchNext' = 1 /\ patchStep' \in {"patching", "failed"}
      /\ UNCHANGED <<patchTool, patchResolver, hadHooks, hooks, backup, interrupted>>
  BY DEF StartPatching
<1>2. 1 \in 1..Len(Patches) /\ <<>> \in Seq(ToSet(Patches)) /\ Len(<<>>) = 0
      /\ <<>> = SubSeq(Patches, 1, 0)
  BY PatchesAre
<1>3. CASE patchTool = "quilt"
  <2>1. applied' = <<>> /\ series' \in {series, <<>>} /\ half' \subseteq half
        /\ patchStep' = "patching"
    BY <1>3 DEF StartPatching
  <2>2. PatchTypeOK'
    <3>1. half' \subseteq ToSet(Patches) /\ series' \in Seq(ToSet(Patches))
          /\ {hooks', backup'} \subseteq {"none", "user", "devtool"}
      BY <1>1, <1>2, <2>1 DEF PatchWorkInv, PatchTypeOK
    <3>2. patchNext' \in 1..(Len(Patches) + 1)
      BY <1>1, PatchesAre
    <3> QED
      BY <1>2, <2>1, <3>1, <3>2 DEF PatchTypeOK
  <2>3. Len(applied') = 0 /\ Len(series') \in Nat
    BY <1>2, <2>1, <2>2 DEF PatchTypeOK
  <2> QED
    BY <1>1, <1>2, <1>3, <2>1, <2>2, <2>3 DEF PatchWorkInv
<1>4. CASE patchTool # "quilt"
  <2>1. Reversed \in 0..Len(applied)
    BY ReversedBound DEF Reversed, PatchWorkInv
  <2>2. PICK k \in 0..Len(applied) : LeftApplied = SubSeq(applied, 1, k)
    <3>1. Len(applied) \in Nat /\ LeftApplied = SubSeq(applied, 1, Len(applied) - Reversed)
      BY DEF LeftApplied, PatchWorkInv, PatchTypeOK
    <3>2. Len(applied) - Reversed \in 0..Len(applied)
      BY <2>1, <3>1
    <3> QED
      BY <3>1, <3>2
  <2>3. applied' \in {applied, LeftApplied} /\ series' \in {series, <<>>} /\ half' \in {half, {}}
    BY <1>4 DEF StartPatching
  <2>4. LeftApplied \in Seq(ToSet(Patches))
    BY <2>2 DEF PatchWorkInv, PatchTypeOK
  <2>5. PatchTypeOK'
    <3>1. half' \subseteq ToSet(Patches) /\ series' \in Seq(ToSet(Patches))
          /\ {hooks', backup'} \subseteq {"none", "user", "devtool"}
      BY <1>1, <1>2, <2>3 DEF PatchWorkInv, PatchTypeOK
    <3>2. patchNext' \in 1..(Len(Patches) + 1)
      BY <1>1, PatchesAre
    <3>3. applied' \in Seq(ToSet(Patches))
      BY <2>3, <2>4 DEF PatchWorkInv, PatchTypeOK
    <3> QED
      BY <1>1, <3>1, <3>2, <3>3 DEF PatchTypeOK
  <2>6. ASSUME patchTool = "git"
        PROVE  applied' = SubSeq(Patches, 1, Len(applied')) /\ Len(applied') <= Len(Patches)
    <3>1. applied \in Seq(ToSet(Patches)) /\ applied = SubSeq(Patches, 1, Len(applied))
          /\ Len(applied) <= Len(Patches)
      BY <2>6 DEF PatchWorkInv, PatchTypeOK
    <3>2. Len(LeftApplied) = k /\ LeftApplied = SubSeq(Patches, 1, k)
      BY <2>2, <3>1, PrefixOfPrefix
    <3> QED
      BY <2>2, <2>3, <3>1, <3>2
  <2>7. ASSUME patchTool = "patch", ~interrupted
        PROVE  series' = applied'
    <3>1. series = applied /\ applied \in Seq(ToSet(Patches))
      BY <2>7 DEF PatchWorkInv, PatchTypeOK
    <3>2. CASE half = {}
      <4>1. Reversed = Len(series) /\ LeftApplied = <<>>
        BY <3>1, <3>2, ReversesAll DEF PatchWorkInv
      <4>2. ~HooksBlocked /\ ~(Reversed < Len(series))
        BY <2>7, <3>1, <4>1 DEF HooksBlocked
      <4> QED
        BY <1>4, <4>1, <4>2 DEF StartPatching
    <3>3. CASE half # {}
      <4>1. \A order, n : ~Reverses(order, n)
        BY <2>7, <3>3 DEF Reverses
      <4>2. Reversed = 0
        BY <4>1, FS_EmptySet DEF Reversed, ReversedFrom
      <4>3. LeftApplied = applied
        BY <3>1, <4>2 DEF LeftApplied
      <4>4. series # <<>> => Reversed < Len(series)
        BY <3>1, <4>2
      <4>5. ~HooksBlocked
        BY <2>7 DEF HooksBlocked
      <4> QED
        BY <1>4, <3>1, <4>3, <4>4, <4>5 DEF StartPatching
    <3> QED
      BY <3>2, <3>3
  <2> QED
    BY <1>1, <1>2, <1>4, <2>5, <2>6, <2>7 DEF PatchWorkInv
<1> QED
  BY <1>3, <1>4

LEMMA AdvanceDoes ==
    ASSUME PatchWorkInv, patchStep = "patching", Advance
    PROVE  /\ patchNext' = patchNext + 1 /\ patchNext' \in 1..(Len(Patches) + 1)
           /\ patchStep' \in {"patched", "patching"}
           /\ patchStep' = "patched" => patchNext = Len(Patches)
           /\ patchStep' = "patching" => patchNext' \in 1..Len(Patches)
  BY PatchesAre DEF PatchWorkInv, Advance

LEMMA AppendsPatch ==
    ASSUME NEW s \in Seq(ToSet(Patches)), NEW p \in ToSet(Patches)
    PROVE  Append(s, p) \in Seq(ToSet(Patches)) /\ Len(Append(s, p)) = Len(s) + 1
  OBVIOUS

LEMMA PatchByPatch == ASSUME PatchWorkInv, PatchWithPatch PROVE PatchWorkInv'
<1>. DEFINE p == Patches[patchNext]
<1>1. /\ patchTool = "patch" /\ patchStep = "patching" /\ ApplyWithPatch(p)
      /\ UNCHANGED <<patchTool, patchResolver, hadHooks, hooks, backup, patchRuns, interrupted>>
  BY DEF PatchWithPatch
<1>2. PatchTypeOK /\ patchNext \in 1..Len(Patches) /\ p \in ToSet(Patches)
  BY <1>1, PatchesAre DEF PatchWorkInv
<1>. HIDE DEF p
<1>3. CASE Fits(p) /\ applied' = Append(applied, p) /\ series' = Append(series, p)
           /\ Advance /\ UNCHANGED half
  <2>1. series' \in Seq(ToSet(Patches))
    BY <1>2, <1>3, AppendsPatch DEF PatchTypeOK
  <2>2. patchNext = Len(applied) + 1
    BY <1>2, <1>3, FitsAppends DEF p
  <2>3. patchNext = Len(Patches) => applied' = Patches
    BY <1>2, <1>3, <2>2, FitsAppends, WholePrefix
  <2>4. applied' \in Seq(ToSet(Patches)) /\ half' = {}
    BY <1>2, <1>3, FitsAppends
  <2> QED
    BY <1>1, <1>2, <1>3, <2>1, <2>3, <2>4, AdvanceDoes DEF PatchWorkInv, PatchTypeOK
<1>4. CASE Fail /\ UNCHANGED <<applied, series>> /\ half' \in {half, {p}}
  BY <1>1, <1>2, <1>4 DEF PatchWorkInv, PatchTypeOK, Fail
<1> QED
  BY <1>1, <1>3, <1>4 DEF ApplyWithPatch

LEMMA PatchByGit == ASSUME PatchWorkInv, PatchWithGit PROVE PatchWorkInv'
<1>. DEFINE p == Patches[patchNext]
<1>1. /\ patchTool = "git" /\ patchStep = "patching"
      /\ UNCHANGED <<patchTool, patchResolver, hadHooks, hooks, backup, patchRuns, interrupted>>
  BY DEF PatchWithGit
<1>2. /\ PatchTypeOK /\ patchNext \in 1..Len(Patches) /\ p \in ToSet(Patches)
      /\ applied = SubSeq(Patches, 1, Len(applied)) /\ Len(applied) <= Len(Patches)
      /\ applied \in Seq(ToSet(Patches))
  BY <1>1, PatchesAre DEF PatchWorkInv, PatchTypeOK
<1>3. Append(series, p) \in Seq(ToSet(Patches))
  BY <1>2, AppendsPatch DEF PatchTypeOK
<1>4. CASE /\ half' = {} /\ applied = SubSeq(Patches, 1, patchNext - 1) /\ Advance
           /\ applied' = Append(applied, p) /\ series' \in {series, Append(series, p)}
  <2>1. Len(applied) = patchNext - 1
    BY <1>2, <1>4, PatchesAre
  <2>2. applied' = SubSeq(Patches, 1, Len(applied) + 1) /\ Len(applied') = Len(applied) + 1
        /\ applied' \in Seq(ToSet(Patches))
    BY <1>2, <1>4, <2>1, PatchesAre
  <2>3. patchNext = Len(Patches) => applied' = Patches
    BY <2>1, <2>2, WholePrefix, PatchesAre
  <2>4. Len(applied') <= Len(Patches)
    BY <1>2, <2>1, <2>2
  <2> QED
    BY <1>1, <1>2, <1>3, <1>4, <2>2, <2>3, <2>4, AdvanceDoes DEF PatchWorkInv, PatchTypeOK
<1>5. CASE half' = {} /\ p \in ToSet(applied) /\ Advance /\ UNCHANGED <<applied, series>>
  <2>1. PICK i \in 1..Len(applied) : applied[i] = p
    BY <1>2, <1>5 DEF ToSet
  <2>2. Patches[i] = p /\ i \in 1..Len(Patches)
    BY <1>2, <2>1, PatchesAre
  <2>3. patchNext = i
    BY <1>2, <2>2, PatchesAre
  <2>4. patchNext = Len(Patches) => applied = Patches
    BY <1>2, <2>1, <2>3, WholePrefix
  <2> QED
    BY <1>1, <1>2, <1>5, <2>4, AdvanceDoes DEF PatchWorkInv, PatchTypeOK
<1>6. CASE Fail /\ UNCHANGED applied /\ series' \in {series, Append(series, p)}
           /\ half' \in {half, {}, {p}}
  BY <1>1, <1>2, <1>3, <1>6 DEF PatchWorkInv, PatchTypeOK, Fail
<1> QED
  BY <1>4, <1>5, <1>6 DEF PatchWithGit

LEMMA PatchByQuilt == ASSUME PatchWorkInv, PatchWithQuilt PROVE PatchWorkInv'
<1>. DEFINE s == Append(series, Patches[patchNext])
            p == s[Len(applied) + 1]
<1>1. /\ patchTool = "quilt" /\ patchStep = "patching"
      /\ UNCHANGED <<patchTool, patchResolver, hadHooks, hooks, backup, patchRuns, interrupted>>
      /\ series' = s
  BY DEF PatchWithQuilt
<1>2. /\ PatchTypeOK /\ patchNext \in 1..Len(Patches) /\ Len(applied) <= Len(series)
      /\ patchResolver = "noop" => Len(applied) = patchNext - 1
      /\ applied \in Seq(ToSet(Patches)) /\ series \in Seq(ToSet(Patches))
  BY <1>1 DEF PatchWorkInv, PatchTypeOK
<1>3. s \in Seq(ToSet(Patches)) /\ Len(s) = Len(series) + 1
  BY <1>2, AppendsPatch, PatchesAre
<1>4. p \in ToSet(Patches)
  BY <1>2, <1>3
<1>. HIDE DEF s, p
<1>5. CASE Fits(p) /\ Advance /\ applied' = Append(applied, p) /\ UNCHANGED half
  <2>1. applied' \in Seq(ToSet(Patches)) /\ half' = {} /\ Len(applied') = Len(applied) + 1
    BY <1>2, <1>5, FitsAppends
  <2>2. patchNext = Len(Patches) /\ patchResolver = "noop" => applied' = Patches
    BY <1>2, <1>5, FitsAppends, WholePrefix
  <2> QED
    BY <1>1, <1>2, <1>3, <1>5, <2>1, <2>2, AdvanceDoes DEF PatchWorkInv, PatchTypeOK
<1>6. CASE patchResolver = "noop" /\ Fail /\ UNCHANGED <<applied, half>>
  BY <1>1, <1>2, <1>3, <1>6 DEF PatchWorkInv, PatchTypeOK, Fail
<1>7. CASE /\ patchResolver = "user" /\ Advance
           /\ applied' = (IF p \in ToSet(applied) THEN applied ELSE Append(applied, p))
           /\ half' \in {half, half \cup {p}}
  <2>1. applied' \in Seq(ToSet(Patches)) /\ Len(applied') <= Len(series) + 1
    BY <1>2, <1>4, <1>7, AppendsPatch
  <2> QED
    BY <1>1, <1>2, <1>3, <1>4, <1>7, <2>1, AdvanceDoes DEF PatchWorkInv, PatchTypeOK
<1> QED
  BY <1>5, <1>6, <1>7 DEF PatchWithQuilt, s, p

LEMMA PatchByKill == ASSUME PatchWorkInv, PatchingKilled PROVE PatchWorkInv'
<1>. DEFINE p == Patches[patchNext]
<1>1. /\ patchStep = "patching" /\ patchStep' = "killed" /\ interrupted' = TRUE
      /\ UNCHANGED <<patchTool, patchResolver, hadHooks, patchNext, patchRuns>>
      /\ series' \in {series, Append(series, p)}
  BY DEF PatchingKilled
<1>2. /\ PatchTypeOK /\ patchNext \in 1..Len(Patches) /\ p \in ToSet(Patches)
  BY <1>1, PatchesAre DEF PatchWorkInv
<1>3. series' \in Seq(ToSet(Patches))
  BY <1>1, <1>2, AppendsPatch DEF PatchTypeOK
<1>4. {hooks', backup'} \subseteq {"none", "user", "devtool"}
  BY <1>2 DEF PatchingKilled, PatchTypeOK
<1>5. \/ Fits(p) /\ applied' = Append(applied, p) /\ UNCHANGED half
      \/ half' \in {half, {p}} /\ UNCHANGED applied
  BY DEF PatchingKilled
<1>6. /\ applied' \in Seq(ToSet(Patches)) /\ half' \subseteq ToSet(Patches)
      /\ patchTool = "git" => /\ applied' = SubSeq(Patches, 1, Len(applied'))
                              /\ Len(applied') <= Len(Patches)
  BY <1>2, <1>5, FitsAppends DEF PatchTypeOK, PatchWorkInv
<1> QED
  BY <1>1, <1>2, <1>3, <1>4, <1>6 DEF PatchWorkInv, PatchTypeOK

LEMMA PatchWorkStep == PatchWorkInv /\ [PatchNext]_patchVars => PatchWorkInv'
<1>1. ASSUME PatchWorkInv, UNCHANGED patchVars PROVE PatchWorkInv'
  BY <1>1 DEF PatchWorkInv, PatchTypeOK, patchVars
<1> QED
  BY <1>1, PatchStart, PatchByPatch, PatchByGit, PatchByQuilt, PatchByKill DEF PatchNext

(* The hooks a run that was not killed leaves.                             *)
LEMMA HooksStep == HooksSurvive /\ [PatchNext]_patchVars => HooksSurvive'
<1> SUFFICES ASSUME HooksSurvive, [PatchNext]_patchVars PROVE HooksSurvive'
  OBVIOUS
<1>1. CASE UNCHANGED <<hadHooks, hooks, backup, interrupted>>
  BY <1>1 DEF HooksSurvive
<1>2. CASE PatchingKilled
  <2>1. interrupted' = TRUE /\ hadHooks' = hadHooks
    BY <1>2 DEF PatchingKilled
  <2>2. \/ backup = "none" /\ backup' = hooks
        \/ UNCHANGED <<hooks, backup>>
    BY <1>2 DEF PatchingKilled, HooksBlocked
  <2> QED
    BY <2>1, <2>2 DEF HooksSurvive
<1> QED
  BY <1>1, <1>2 DEF PatchNext, patchVars, StartPatching, PatchWithPatch, PatchWithGit, PatchWithQuilt

(* Whatever patches there are and however often do_patch fails or is       *)
(* killed, it ends well only on the whole patched tree, and the user's     *)
(* hooks are not lost (patch.bbclass:120, patch.py:187, 213, 486).         *)
THEOREM PatchingKeepsHolds == PatchSpec => []PatchingKeeps
<1>1. PatchInit => HooksSurvive
  BY DEF PatchInit, HooksSurvive
<1>2. PatchWorkInv /\ HooksSurvive => PatchingKeeps
  BY ReversesAll DEF PatchWorkInv, PatchingKeeps, PatchedExactly
<1> QED
  BY PatchWorkInit, PatchWorkStep, HooksStep, <1>1, <1>2, PTL DEF PatchSpec

-----------------------------------------------------------------------------
(* PKGD is a tree at each step; what is put into it later finds            *)
(* directories on its way, or nothing.                                     *)
Paths == Seq(Names) \ {<<>>}
IsTree(t) == /\ DOMAIN t \subseteq Paths
             /\ \A p \in DOMAIN t : \A a \in Above(p) : Kind(t, a) = "dir"
WayFree(t, p) == \A a \in Above(p) : a \in DOMAIN t => t[a].kind = "dir"
Entries(t) == \A p \in DOMAIN t : /\ t[p].kind \in {"dir", "file", "elf", "debug", "link"}
                                  /\ t[p].kind = "debug" => Debugging(p)

SplitTreeInv ==
    /\ installed \in DTrees /\ IsTree(pkgd) /\ Entries(pkgd)
    /\ splitStep = "split" => pkgd = installed
    /\ splitStep \in {"split", "sources"} =>
         /\ DOMAIN installed \subseteq DOMAIN pkgd
         /\ \A p \in {DebugSrc} \cup Sources : WayFree(pkgd, p)
         /\ \A s \in Sources : Kind(pkgd, s) # "dir"
    /\ splitStep \in {"split", "sources", "links"} => \A to \in Targets : WayFree(pkgd, to)

(* What the cache takes to be missing has a reason that ModesFixed names,  *)
(* or is to become a link.                                                 *)
ByDangling(d) == \E l \in Dangling(installed) : d = FirstMissing(installed, installed[l].of)
ByDebugSrc(d) == d \notin DOMAIN installed /\ d \in Above(DebugSrc)
CacheInv ==
    /\ splitStep = "split" => absent = {}
    /\ splitStep = "sources" => \A d \in absent : ByDangling(d)
    /\ splitStep = "links" => \A d \in absent : ByDangling(d) \/ ByDebugSrc(d) \/ d \in Origins
    /\ splitStep \notin {"split", "sources", "links"} => absent = {} /\ ModesFixed

(* A -dbg package is the first as soon as one is listed.                   *)
Led == packageList # <<>> /\ packageList[1] \in DebugPackages
Unfilled == splitStep \in {"split", "sources", "links", "list"}
PackagesInv ==
    /\ packageList \in Seq(Packages) /\ IsInjective(packageList) /\ turn \in Nat \ {0}
    /\ splitStep \in {"split", "sources", "links"} => packageList = <<>>
    /\ (\E i \in 1..Len(packageList) : packageList[i] \in DebugPackages) => Led
    /\ splitStep = "list" => \A i \in 1..Len(PackageOrder) :
                                i < turn => PackageOrder[i] \in Range(packageList)
    /\ ~Unfilled => Packages \subseteq Range(packageList)

(* The packages share nothing but directories; what they have is seen; and *)
(* the first one has the debug information.                                *)
ShareInv ==
    /\ Unfilled => content = [k \in Packages |-> {}] /\ seen = {}
    /\ content \in [Packages -> SUBSET DOMAIN pkgd]
    /\ seen = UNION {content[k] : k \in Packages}
    /\ \A k, m \in Packages : \A p \in content[k] \cap content[m] : k = m \/ pkgd[p].kind = "dir"
    /\ splitStep = "populate" => \A k \in Packages :
          content[k] # {} => \E i \in 1..Len(packageList) : i < turn /\ packageList[i] = k
    /\ splitStep \in {"fixsymlinks", "done"} \/ (splitStep = "populate" /\ turn > 1) =>
          (Led => \A p \in DOMAIN pkgd : pkgd[p].kind = "debug" => p \in content[packageList[1]])

SplitInv ==
    /\ SplitTreeInv /\ CacheInv /\ PackagesInv /\ ShareInv
    /\ splitStep \in {"split", "sources", "links", "list", "populate", "fixsymlinks", "done", "fatal"}
    /\ splitStep \in {"fixsymlinks", "done"} => unshipped = DOMAIN pkgd \ seen
    /\ splitStep = "done" => LinksFollowed

(* Paths, element by element: what is above a path, and prefixes of it.    *)
LEMMA PathIs ==
    ASSUME NEW p \in Paths
    PROVE  /\ p \in Seq(Names) /\ Len(p) \in Nat \ {0} /\ DOMAIN p = 1..Len(p)
           /\ \A i \in 1..Len(p) : p[i] \in Names
           /\ Debugging(p) <=> \E i \in 1..Len(p) : p[i] = ".debug"
<1>1. p \in Seq(Names) /\ p # <<>>
  BY DEF Paths
<1>2. Len(p) \in Nat \ {0} /\ DOMAIN p = 1..Len(p)
  BY <1>1, EmptySeq, LenProperties
<1>3. \A i \in 1..Len(p) : p[i] \in Names
  BY <1>1, ElementOfSeq
<1> QED
  BY <1>1, <1>2, <1>3 DEF Debugging, Range

LEMMA PathsEqual ==
    ASSUME NEW p \in Paths, NEW q \in Paths, Len(p) = Len(q), \A i \in 1..Len(p) : p[i] = q[i]
    PROVE  p = q
  BY PathIs, SeqEqual

LEMMA FirstNames ==
    ASSUME NEW p \in Paths, NEW n \in 1..Len(p)
    PROVE  /\ SubSeq(p, 1, n) \in Paths /\ Len(SubSeq(p, 1, n)) = n
           /\ \A i \in 1..n : SubSeq(p, 1, n)[i] = p[i]
<1>1. Len(p) \in Nat /\ \A i \in 1..n : p[i] \in Names
  BY PathIs
<1>2. n \in Int /\ 1 \in Int /\ 1 <= n /\ (n - 1) + 1 = n
  BY <1>1
<1>3. /\ SubSeq(p, 1, n) \in Seq(Names) /\ Len(SubSeq(p, 1, n)) = n
      /\ \A i \in 1..n - 1 + 1 : SubSeq(p, 1, n)[i] = p[1 + i - 1]
  BY <1>1, <1>2, SubSeqProperties
<1>4. \A i \in 1..n : SubSeq(p, 1, n)[i] = p[i]
  BY <1>2, <1>3
<1>5. SubSeq(p, 1, n) # <<>>
  BY <1>2, <1>3, EmptySeq
<1> QED
  BY <1>3, <1>4, <1>5 DEF Paths

Leads(a, p) == a \in Paths /\ Len(a) < Len(p) /\ \A i \in 1..Len(a) : a[i] = p[i]

LEMMA AboveIs ==
    ASSUME NEW p \in Paths, NEW a
    PROVE  a \in Above(p) <=> Leads(a, p)
<1>1. Len(p) \in Nat \ {0} /\ p \in Seq(Names)
  BY PathIs
<1>2. ASSUME a \in Above(p) PROVE Leads(a, p)
  <2>1. PICK n \in 0..Len(p) : a = SubSeq(p, 1, n)
    BY <1>2 DEF Above, Prefixes
  <2>2. a # <<>> /\ a # p
    BY <1>2 DEF Above
  <2>3. n # 0
    <3>1. SubSeq(p, 1, 0) = <<>>
      BY SubSeqEmpty
    <3> QED
      BY <2>1, <2>2, <3>1
  <2>4. n # Len(p)
    BY <1>1, <2>1, <2>2, SubSeqFull
  <2>5. n \in 1..Len(p) /\ n < Len(p)
    BY <1>1, <2>3, <2>4
  <2> QED
    BY <2>1, <2>5, FirstNames DEF Leads
<1>3. ASSUME Leads(a, p) PROVE a \in Above(p)
  <2>1. a \in Paths /\ Len(a) < Len(p) /\ \A i \in 1..Len(a) : a[i] = p[i]
    BY <1>3 DEF Leads
  <2>2. Len(a) \in Nat \ {0}
    BY <2>1, PathIs
  <2>3. Len(a) \in 1..Len(p) /\ Len(a) \in 0..Len(p)
    BY <1>1, <2>1, <2>2
  <2>4. /\ SubSeq(p, 1, Len(a)) \in Paths /\ Len(SubSeq(p, 1, Len(a))) = Len(a)
        /\ \A i \in 1..Len(a) : SubSeq(p, 1, Len(a))[i] = p[i]
    BY <2>3, FirstNames
  <2>5. a = SubSeq(p, 1, Len(a))
    BY <2>1, <2>4, PathsEqual
  <2>6. a \in Prefixes(p)
    BY <2>3, <2>5 DEF Prefixes
  <2>7. a # <<>> /\ a # p
    BY <1>1, <2>1 DEF Paths
  <2> QED
    BY <2>6, <2>7 DEF Above
<1> QED
  BY <1>2, <1>3

LEMMA PrefixIs ==
    ASSUME NEW p \in Paths, NEW q \in Paths
    PROVE  IsPrefix(p, q) <=> Len(p) <= Len(q) /\ \A i \in 1..Len(p) : p[i] = q[i]
<1>1. Len(p) \in Nat \ {0} /\ Len(q) \in Nat \ {0} /\ p \in Seq(Names)
  BY PathIs
<1>2. SubSeq(p, 1, Len(p)) = p
  BY <1>1, SubSeqFull
<1>3. ASSUME Len(p) <= Len(q)
      PROVE  /\ SubSeq(q, 1, Len(p)) \in Paths /\ Len(SubSeq(q, 1, Len(p))) = Len(p)
             /\ \A i \in 1..Len(p) : SubSeq(q, 1, Len(p))[i] = q[i]
  <2>1. Len(p) \in 1..Len(q)
    BY <1>1, <1>3
  <2> QED
    BY <2>1, FirstNames
<1>4. ASSUME Len(p) <= Len(q)
      PROVE  p = SubSeq(q, 1, Len(p)) <=> \A i \in 1..Len(p) : p[i] = q[i]
  <2>1. ASSUME \A i \in 1..Len(p) : p[i] = q[i] PROVE p = SubSeq(q, 1, Len(p))
    BY <1>3, <1>4, <2>1, PathsEqual
  <2> QED
    BY <1>3, <1>4, <2>1
<1> QED
  BY <1>2, <1>4 DEF IsPrefix

LEMMA StrictPrefixIs ==
    ASSUME NEW p \in Paths, NEW q \in Paths
    PROVE  IsStrictPrefix(p, q) <=> p \in Above(q)
<1>1. Len(p) \in Nat \ {0} /\ Len(q) \in Nat \ {0}
  BY PathIs
<1>2. ASSUME IsStrictPrefix(p, q) PROVE p \in Above(q)
  <2>1. p # q /\ Len(p) <= Len(q) /\ \A i \in 1..Len(p) : p[i] = q[i]
    BY <1>2, PrefixIs DEF IsStrictPrefix
  <2>2. Len(p) # Len(q)
    BY <2>1, PathsEqual
  <2> QED
    BY <1>1, <2>1, <2>2, AboveIs DEF Leads
<1>3. ASSUME p \in Above(q) PROVE IsStrictPrefix(p, q)
  <2>1. Len(p) < Len(q) /\ \A i \in 1..Len(p) : p[i] = q[i]
    BY <1>3, AboveIs DEF Leads
  <2>2. IsPrefix(p, q)
    BY <1>1, <2>1, PrefixIs
  <2> QED
    BY <1>1, <2>1, <2>2 DEF IsStrictPrefix
<1> QED
  BY <1>2, <1>3

LEMMA AboveAbove ==
    ASSUME NEW p \in Paths, NEW a \in Above(p), NEW b \in Above(a)
    PROVE  a \in Paths /\ b \in Above(p)
<1>1. Leads(a, p)
  BY AboveIs
<1>2. Leads(b, a)
  BY <1>1, AboveIs DEF Leads
<1>3. Len(a) \in Nat /\ Len(b) \in Nat /\ Len(p) \in Nat
  BY <1>1, <1>2, PathIs DEF Leads
<1>4. Leads(b, p)
  BY <1>1, <1>2, <1>3 DEF Leads
<1> QED
  BY <1>1, <1>4, AboveIs DEF Leads

(* Two paths above the same one are above each other.                      *)
LEMMA AboveBoth ==
    ASSUME NEW p \in Paths, NEW a \in Above(p), NEW b \in Above(p)
    PROVE  a = b \/ a \in Above(b) \/ b \in Above(a)
<1>1. Leads(a, p) /\ Leads(b, p)
  BY AboveIs
<1>2. a \in Paths /\ b \in Paths /\ Len(a) \in Nat /\ Len(b) \in Nat
  BY <1>1, PathIs DEF Leads
<1>3. CASE Len(a) = Len(b)
  BY <1>1, <1>2, <1>3, PathsEqual DEF Leads
<1>4. CASE Len(a) < Len(b)
  <2>1. Leads(a, b)
    BY <1>1, <1>2, <1>4 DEF Leads
  <2> QED
    BY <1>2, <2>1, AboveIs
<1>5. CASE Len(b) < Len(a)
  <2>1. Leads(b, a)
    BY <1>1, <1>2, <1>5 DEF Leads
  <2> QED
    BY <1>2, <2>1, AboveIs
<1> QED
  BY <1>2, <1>3, <1>4, <1>5

-----------------------------------------------------------------------------
(* What With and WithoutAll leave is a tree.                               *)
LEMMA WithIs ==
    ASSUME NEW t, NEW new
    PROVE  /\ DOMAIN With(t, new) = DOMAIN t \cup DOMAIN new \cup UNION {Above(p) : p \in DOMAIN new}
           /\ \A p \in DOMAIN With(t, new) :
                With(t, new)[p] = IF p \in DOMAIN new THEN new[p]
                                  ELSE IF p \in DOMAIN t THEN t[p] ELSE Dir
  BY DEF With

LEMMA WithIsTree ==
    ASSUME NEW t, NEW new, IsTree(t), DOMAIN new \subseteq Paths,
           \A p \in DOMAIN new : \A a \in Above(p) :
              IF a \in DOMAIN new THEN new[a].kind = "dir" ELSE a \in DOMAIN t => t[a].kind = "dir",
           \A p \in DOMAIN t : \A a \in Above(p) : a \in DOMAIN new => new[a].kind = "dir"
    PROVE  IsTree(With(t, new))
<1>. DEFINE made == UNION {Above(p) : p \in DOMAIN new}
            w == With(t, new)
<1>1. /\ DOMAIN w = DOMAIN t \cup DOMAIN new \cup made
      /\ \A p \in DOMAIN w : w[p] = IF p \in DOMAIN new THEN new[p]
                                    ELSE IF p \in DOMAIN t THEN t[p] ELSE Dir
  BY WithIs
<1>. HIDE DEF w
<1>2. made \subseteq Paths
  BY AboveIs DEF Leads
<1>3. DOMAIN w \subseteq Paths
  BY <1>1, <1>2 DEF IsTree
<1>4. ASSUME NEW p \in DOMAIN new, NEW a \in Above(p) PROVE a \in DOMAIN w /\ w[a].kind = "dir"
  <2>1. a \in DOMAIN w
    BY <1>1
  <2>2. CASE a \in DOMAIN new
    BY <1>1, <2>1, <2>2
  <2>3. CASE a \notin DOMAIN new
    BY <1>1, <2>1, <2>3 DEF Dir
  <2> QED
    BY <2>1, <2>2, <2>3
<1>5. ASSUME NEW p \in DOMAIN t, NEW a \in Above(p) PROVE a \in DOMAIN w /\ w[a].kind = "dir"
  <2>1. a \in DOMAIN t /\ t[a].kind = "dir"
    BY DEF IsTree, Kind
  <2> QED
    BY <1>1, <2>1
<1>6. ASSUME NEW p \in made, NEW a \in Above(p) PROVE a \in DOMAIN w /\ w[a].kind = "dir"
  <2>1. PICK q \in DOMAIN new : p \in Above(q)
    OBVIOUS
  <2>2. a \in Above(q)
    BY <2>1, AboveAbove
  <2> QED
    BY <1>4, <2>2
<1>7. \A p \in DOMAIN w : \A a \in Above(p) : Kind(w, a) = "dir"
  BY <1>1, <1>4, <1>5, <1>6 DEF Kind
<1> QED
  BY <1>3, <1>7 DEF IsTree, w

LEMMA WithoutIs ==
    ASSUME NEW t, NEW gone
    PROVE  /\ DOMAIN WithoutAll(t, gone) = DOMAIN t \ gone
           /\ \A p \in DOMAIN t \ gone : WithoutAll(t, gone)[p] = t[p]
  BY DEF WithoutAll

LEMMA BelowIs ==
    ASSUME NEW t, IsTree(t), NEW p \in Paths
    PROVE  Below(t, p) = {q \in DOMAIN t : p \in Above(q)}
  BY StrictPrefixIs DEF Below, IsTree

LEMMA WithoutIsTree ==
    ASSUME NEW t, NEW gone, IsTree(t), \A p \in DOMAIN t \ gone : Above(p) \cap gone = {}
    PROVE  IsTree(WithoutAll(t, gone))
<1>1. /\ DOMAIN WithoutAll(t, gone) = DOMAIN t \ gone
      /\ \A p \in DOMAIN t \ gone : WithoutAll(t, gone)[p] = t[p]
  BY WithoutIs
<1>2. ASSUME NEW p \in DOMAIN t \ gone, NEW a \in Above(p) PROVE Kind(WithoutAll(t, gone), a) = "dir"
  <2>1. a \in DOMAIN t \ gone /\ t[a].kind = "dir"
    BY DEF IsTree, Kind
  <2> QED
    BY <1>1, <2>1 DEF Kind
<1> QED
  BY <1>1, <1>2 DEF IsTree

(* Paths stay paths to somewhere when nothing but directories is put in    *)
(* their way.                                                              *)
LEMMA WayStaysFree ==
    ASSUME NEW t, NEW new, NEW to, WayFree(t, to),
           \A a \in Above(to) : a \in DOMAIN new => new[a].kind = "dir"
    PROVE  WayFree(With(t, new), to)
<1>1. /\ DOMAIN With(t, new) = DOMAIN t \cup DOMAIN new \cup UNION {Above(p) : p \in DOMAIN new}
      /\ \A p \in DOMAIN With(t, new) :
           With(t, new)[p] = IF p \in DOMAIN new THEN new[p]
                             ELSE IF p \in DOMAIN t THEN t[p] ELSE Dir
  BY WithIs
<1>2. ASSUME NEW a \in Above(to), a \in DOMAIN With(t, new) PROVE With(t, new)[a].kind = "dir"
  <2>1. CASE a \in DOMAIN new
    BY <1>1, <1>2, <2>1
  <2>2. CASE a \notin DOMAIN new
    BY <1>1, <1>2, <2>2 DEF WayFree, Dir
  <2> QED
    BY <2>1, <2>2
<1> QED
  BY <1>2 DEF WayFree

LEMMA WayStaysFreeWithout ==
    ASSUME NEW t, NEW gone, NEW to, WayFree(t, to)
    PROVE  WayFree(WithoutAll(t, gone), to)
<1>1. /\ DOMAIN WithoutAll(t, gone) = DOMAIN t \ gone
      /\ \A p \in DOMAIN t \ gone : WithoutAll(t, gone)[p] = t[p]
  BY WithoutIs
<1> QED
  BY <1>1 DEF WayFree

LEMMA EntriesWith ==
    ASSUME NEW t, NEW new, Entries(t), Entries(new)
    PROVE  Entries(With(t, new))
<1>. DEFINE w == With(t, new)
<1>1. \A p \in DOMAIN w : w[p] = IF p \in DOMAIN new THEN new[p]
                                ELSE IF p \in DOMAIN t THEN t[p] ELSE Dir
  BY WithIs
<1>. HIDE DEF w
<1>2. Dir.kind = "dir"
  BY DEF Dir
<1>3. ASSUME NEW p \in DOMAIN w
      PROVE  /\ w[p].kind \in {"dir", "file", "elf", "debug", "link"}
             /\ w[p].kind = "debug" => Debugging(p)
  <2>1. CASE p \in DOMAIN new
    BY <1>1, <2>1 DEF Entries
  <2>2. CASE p \notin DOMAIN new /\ p \in DOMAIN t
    BY <1>1, <2>2 DEF Entries
  <2>3. CASE p \notin DOMAIN new /\ p \notin DOMAIN t
    <3>1. w[p] = Dir
      BY <1>1, <2>3
    <3> QED
      BY <1>2, <3>1
  <2> QED
    BY <2>1, <2>2, <2>3
<1> QED
  BY <1>3 DEF Entries, w

LEMMA EntriesWithout ==
    ASSUME NEW t, NEW gone, Entries(t)
    PROVE  Entries(WithoutAll(t, gone))
<1>1. /\ DOMAIN WithoutAll(t, gone) = DOMAIN t \ gone
      /\ \A p \in DOMAIN t \ gone : WithoutAll(t, gone)[p] = t[p]
  BY WithoutIs
<1> QED
  BY <1>1 DEF Entries

-----------------------------------------------------------------------------
(* The debug information of a file lies in the directory .debug beside it. *)
LEMMA DebugOfIs ==
    ASSUME NEW p \in Paths
    PROVE  /\ Last(p) = p[Len(p)]
           /\ Debugging(Front(p)) <=> \E i \in 1..Len(p) - 1 : p[i] = ".debug"
           /\ DebugOf(p) \in Paths /\ Len(DebugOf(p)) = Len(p) + 1
           /\ \A i \in 1..Len(p) - 1 : DebugOf(p)[i] = p[i]
           /\ DebugOf(p)[Len(p)] = ".debug"
<1>1. Len(p) \in Nat \ {0} /\ \A i \in 1..Len(p) : p[i] \in Names
  BY PathIs
<1>2. /\ Front(p) \in Seq(Names) /\ Len(Front(p)) = Len(p) - 1
      /\ \A i \in 1..Len(p) - 1 : Front(p)[i] = p[i]
  <2>1. 1 \in Int /\ Len(p) - 1 \in Int /\ \A i \in 1..Len(p) - 1 : p[i] \in Names
    BY <1>1
  <2>2. /\ SubSeq(p, 1, Len(p) - 1) \in Seq(Names)
        /\ Len(SubSeq(p, 1, Len(p) - 1)) = IF 1 <= Len(p) - 1 THEN Len(p) - 1 - 1 + 1 ELSE 0
        /\ \A i \in 1..Len(p) - 1 - 1 + 1 : SubSeq(p, 1, Len(p) - 1)[i] = p[1 + i - 1]
    BY <2>1, SubSeqProperties
  <2>3. Len(SubSeq(p, 1, Len(p) - 1)) = Len(p) - 1
    <3>1. \A n \in Nat \ {0} : n - 1 - 1 + 1 = n - 1 /\ (1 <= n - 1 \/ n - 1 = 0)
      OBVIOUS
    <3> QED
      BY <1>1, <2>2, <3>1
  <2>4. \A i \in 1..Len(p) - 1 : SubSeq(p, 1, Len(p) - 1)[i] = p[i]
    BY <1>1, <2>2
  <2> QED
    BY <2>2, <2>3, <2>4 DEF Front
<1>3. DOMAIN Front(p) = 1..Len(p) - 1
  BY <1>2, LenProperties
<1>4. Debugging(Front(p)) <=> \E i \in 1..Len(p) - 1 : p[i] = ".debug"
  BY <1>2, <1>3 DEF Debugging, Range
<1>5. Last(p) = p[Len(p)]
  BY DEF Last
<1>. DEFINE end == <<".debug", Last(p)>>
<1>6. end \in Seq(Names) /\ Len(end) = 2 /\ end[1] = ".debug"
  <2>1. Len(p) \in 1..Len(p)
    BY <1>1
  <2>2. Last(p) \in Names
    BY <1>1, <1>5, <2>1
  <2>3. ".debug" \in Names
    BY TablesAssumption
  <2> QED
    BY <2>2, <2>3
<1>. HIDE DEF end
<1>7. /\ Front(p) \o end \in Seq(Names) /\ Len(Front(p) \o end) = Len(Front(p)) + Len(end)
      /\ \A i \in 1..Len(Front(p)) + Len(end) :
           (Front(p) \o end)[i] = IF i <= Len(Front(p)) THEN Front(p)[i] ELSE end[i - Len(Front(p))]
  BY <1>2, <1>6, ConcatProperties
<1>8. DebugOf(p) = Front(p) \o end
  BY DEF DebugOf, end
<1>9. DebugOf(p) \in Seq(Names) /\ Len(DebugOf(p)) = Len(p) + 1
  BY <1>1, <1>2, <1>6, <1>7, <1>8
<1>10. \A i \in 1..Len(p) - 1 : DebugOf(p)[i] = p[i]
  BY <1>1, <1>2, <1>6, <1>7, <1>8
<1>11. DebugOf(p)[Len(p)] = ".debug"
  BY <1>1, <1>2, <1>6, <1>7, <1>8
<1>12. DebugOf(p) # <<>>
  BY <1>1, <1>9, EmptySeq
<1> QED
  BY <1>4, <1>5, <1>9, <1>10, <1>11, <1>12 DEF Paths

LEMMA AboveDebugs ==
    ASSUME NEW p \in Paths, NEW a \in Above(p), Debugging(a)
    PROVE  Debugging(p)
<1>1. Leads(a, p) /\ a \in Paths
  BY AboveIs DEF Leads
<1>2. PICK i \in 1..Len(a) : a[i] = ".debug"
  BY <1>1, PathIs
<1>3. Len(a) \in Nat /\ Len(p) \in Nat
  BY <1>1, PathIs
<1>4. i \in 1..Len(p) /\ p[i] = ".debug"
  BY <1>1, <1>2, <1>3 DEF Leads
<1> QED
  BY <1>4, PathIs

(* What is above it: the directories above the file, and .debug.           *)
LEMMA AboveDebugOf ==
    ASSUME NEW p \in Paths, NEW a \in Above(DebugOf(p))
    PROVE  a \in Above(p) \/ (a \in Paths /\ Len(a) = Len(p) /\ Last(a) = ".debug" /\ Debugging(a))
<1>1. /\ DebugOf(p) \in Paths /\ Len(DebugOf(p)) = Len(p) + 1
      /\ \A i \in 1..Len(p) - 1 : DebugOf(p)[i] = p[i]
      /\ DebugOf(p)[Len(p)] = ".debug"
  BY DebugOfIs
<1>2. a \in Paths /\ Len(a) < Len(p) + 1 /\ \A i \in 1..Len(a) : a[i] = DebugOf(p)[i]
  BY <1>1, AboveIs DEF Leads
<1>3. Len(a) \in Nat \ {0} /\ Len(p) \in Nat \ {0}
  BY <1>2, PathIs
<1>4. CASE Len(a) = Len(p)
  <2>1. a[Len(a)] = ".debug" /\ Len(a) \in 1..Len(a)
    BY <1>1, <1>2, <1>3, <1>4
  <2> QED
    BY <1>2, <1>4, <2>1, PathIs DEF Last
<1>5. CASE Len(a) < Len(p)
  <2>1. \A i \in 1..Len(a) : a[i] = p[i]
    BY <1>1, <1>2, <1>3, <1>5
  <2> QED
    BY <1>2, <1>5, <2>1, AboveIs DEF Leads
<1> QED
  BY <1>2, <1>3, <1>4, <1>5

LEMMA ElfsAre ==
    ASSUME SplitTreeInv, splitStep = "split", NEW e \in Elfs
    PROVE  /\ e \in Paths /\ e \in DOMAIN pkgd /\ DebugOf(e) \in Paths /\ Debugging(DebugOf(e))
           /\ Kind(pkgd, DebugOf(e)) # "dir" /\ ~Debugging(Front(e))
           /\ \A a \in Above(DebugOf(e)) : a \in DOMAIN pkgd => pkgd[a].kind = "dir"
           /\ \A f \in Elfs : DebugOf(f) \notin Above(DebugOf(e))
<1>1. pkgd \in DTrees /\ IsTree(pkgd)
  BY DEF SplitTreeInv
<1>2. e \in DOMAIN pkgd /\ pkgd[e].kind = "elf" /\ ~Debugging(Front(e))
  BY DEF Elfs
<1>3. e \in Paths
  BY <1>1, <1>2 DEF IsTree
<1>4. DebugOf(e) \in Paths /\ Debugging(DebugOf(e))
  <2>1. Len(e) \in Nat \ {0}
    BY <1>3, PathIs
  <2>2. /\ DebugOf(e) \in Paths /\ Len(DebugOf(e)) = Len(e) + 1 /\ DebugOf(e)[Len(e)] = ".debug"
    BY <1>3, DebugOfIs
  <2>3. Len(e) \in 1..Len(DebugOf(e))
    BY <2>1, <2>2
  <2> QED
    BY <2>2, <2>3, PathIs
<1>5. Kind(pkgd, DebugOf(e)) # "dir"
  BY <1>1, <1>2, TreesAssumption
<1>6. ASSUME NEW a \in Above(DebugOf(e)), a \in DOMAIN pkgd PROVE pkgd[a].kind = "dir"
  <2>1. CASE a \in Above(e)
    BY <1>1, <1>2, <1>6, <2>1 DEF IsTree, Kind
  <2>2. CASE Last(a) = ".debug"
    BY <1>1, <1>6, <2>2, TreesAssumption
  <2> QED
    BY <1>3, <2>1, <2>2, AboveDebugOf
<1>7. ASSUME NEW f \in Elfs, DebugOf(f) \in Above(DebugOf(e)) PROVE FALSE
  <2>1. f \in Paths /\ ~Debugging(Front(f))
    BY <1>1 DEF IsTree, Elfs
  <2>2. Len(f) \in Nat \ {0} /\ Len(e) \in Nat \ {0}
    BY <1>3, <2>1, PathIs
  <2>3. /\ DebugOf(f) \in Paths /\ Len(DebugOf(f)) = Len(f) + 1 /\ DebugOf(f)[Len(f)] = ".debug"
    BY <2>1, DebugOfIs
  <2>4. /\ DebugOf(e) \in Paths /\ Len(DebugOf(e)) = Len(e) + 1
        /\ \A i \in 1..Len(e) - 1 : DebugOf(e)[i] = e[i]
        /\ Debugging(Front(e)) <=> \E i \in 1..Len(e) - 1 : e[i] = ".debug"
    BY <1>3, DebugOfIs
  <2>5. /\ Len(DebugOf(f)) < Len(DebugOf(e))
        /\ \A i \in 1..Len(DebugOf(f)) : DebugOf(f)[i] = DebugOf(e)[i]
    BY <1>7, <2>4, AboveIs DEF Leads
  <2>6. Len(f) \in 1..Len(e) - 1 /\ Len(f) \in 1..Len(DebugOf(f))
    BY <2>2, <2>3, <2>4, <2>5
  <2>7. e[Len(f)] = ".debug"
    BY <2>3, <2>4, <2>5, <2>6
  <2> QED
    BY <1>2, <2>4, <2>6, <2>7
<1> QED
  BY <1>2, <1>3, <1>4, <1>5, <1>6, <1>7

LEMMA TablesAre ==
    /\ \A p \in {DebugSrc} \cup Sources \cup Targets \cup Origins : p \in Paths /\ ~Debugging(p)
    /\ \A s \in Sources : DebugSrc \in Above(s) /\ Above(s) \cap Sources = {}
    /\ \A to \in Targets : /\ DebugSrc \notin Above(to) /\ \A d \in Origins : d # to /\ d \notin Above(to)
                           /\ \A other \in Targets : other \in Above(to) =>
                                 \A a \in Above(to) : other \notin Above(a)
<1>1. \A p \in {DebugSrc} \cup Sources \cup Targets \cup Origins : p \in Paths /\ ~Debugging(p)
  BY TablesAssumption DEF IsPath, Paths
<1>2. \A s \in Sources : DebugSrc \in Above(s) /\ Above(s) \cap Sources = {}
  BY <1>1, TablesAssumption, StrictPrefixIs
<1>3. ASSUME NEW to \in Targets, NEW d \in Origins \cup {DebugSrc} PROVE d # to /\ d \notin Above(to)
  <2>1. d \in Paths /\ to \in Paths /\ ~IsPrefix(d, to)
    BY <1>1, TablesAssumption
  <2>2. d \notin Above(to)
    BY <2>1, StrictPrefixIs DEF IsStrictPrefix
  <2>3. Len(d) \in Nat
    BY <2>1, PathIs
  <2>4. d # to
    BY <2>1, <2>3, PrefixIs
  <2> QED
    BY <2>2, <2>4
<1>4. ASSUME NEW to \in Targets, NEW other \in Targets, NEW a \in Above(to), other \in Above(a)
      PROVE  FALSE
  <2>1. to \in Paths /\ other \in Paths /\ ~IsStrictPrefix(other, Front(to))
    BY <1>1, TablesAssumption
  <2>2. Leads(a, to) /\ a \in Paths /\ Leads(other, a)
    BY <1>4, <2>1, AboveIs DEF Leads
  <2>3. Len(to) \in Nat \ {0} /\ Len(a) \in Nat \ {0} /\ Len(other) \in Nat \ {0}
    BY <2>1, <2>2, PathIs
  <2>4. Len(to) - 1 \in 1..Len(to)
    BY <2>2, <2>3 DEF Leads
  <2>5. /\ Front(to) \in Paths /\ Len(Front(to)) = Len(to) - 1
        /\ \A i \in 1..Len(to) - 1 : Front(to)[i] = to[i]
    BY <2>1, <2>4, FirstNames DEF Front
  <2>6. Leads(other, Front(to))
    BY <2>2, <2>3, <2>5 DEF Leads
  <2> QED
    BY <2>1, <2>5, <2>6, AboveIs, StrictPrefixIs
<1> QED
  BY <1>1, <1>2, <1>3, <1>4

-----------------------------------------------------------------------------
LEMMA StripKeepsTree ==
    ASSUME SplitTreeInv, SplitAndStrip
    PROVE  SplitTreeInv'
<1>. DEFINE debug == {DebugOf(p) : p \in Elfs}
            Stripped(q) == CHOOSE p \in Elfs : DebugOf(p) = q
            info == [q \in debug |-> [kind |-> "debug", of |-> pkgd[Stripped(q)].of]]
<1>1. PICK t, new : /\ t = pkgd /\ new = info
  OBVIOUS
<1>2. /\ splitStep = "split" /\ splitStep' = "sources" /\ installed' = installed
      /\ pkgd' = With(t, new)
  BY <1>1 DEF SplitAndStrip
<1>3. DOMAIN new = debug /\ \A q \in debug : new[q].kind = "debug"
  BY <1>1
<1>. HIDE DEF info
<1>4. /\ installed \in DTrees /\ t = installed /\ IsTree(t) /\ Entries(t)
      /\ \A p \in {DebugSrc} \cup Sources \cup Targets : WayFree(t, p)
      /\ \A s \in Sources : Kind(t, s) # "dir"
  BY <1>1, <1>2 DEF SplitTreeInv
<1>5. ASSUME NEW q \in debug
      PROVE  /\ q \in Paths /\ Debugging(q) /\ Kind(t, q) # "dir"
             /\ \A a \in Above(q) : a \notin debug /\ (a \in DOMAIN t => t[a].kind = "dir")
  <2>1. PICK e \in Elfs : q = DebugOf(e)
    OBVIOUS
  <2> QED
    BY <1>1, <1>2, <2>1, ElfsAre
<1>6. /\ DOMAIN With(t, new) = DOMAIN t \cup DOMAIN new \cup UNION {Above(q) : q \in DOMAIN new}
       /\ \A q \in DOMAIN With(t, new) : With(t, new)[q] = IF q \in DOMAIN new THEN new[q]
                                                        ELSE IF q \in DOMAIN t THEN t[q] ELSE Dir
  BY WithIs
<1>7. IsTree(With(t, new))
  <2>1. DOMAIN new \subseteq Paths
    BY <1>3, <1>5
  <2>2. \A p \in DOMAIN new : \A a \in Above(p) :
           IF a \in DOMAIN new THEN new[a].kind = "dir" ELSE a \in DOMAIN t => t[a].kind = "dir"
    BY <1>3, <1>5
  <2>3. \A p \in DOMAIN t : \A a \in Above(p) : a \in DOMAIN new => new[a].kind = "dir"
    BY <1>3, <1>4, <1>5 DEF IsTree
  <2> QED
    BY <1>4, <2>1, <2>2, <2>3, WithIsTree
<1>8. Entries(With(t, new))
  <2>1. Entries(new)
    BY <1>3, <1>5 DEF Entries
  <2> QED
    BY <1>4, <2>1, EntriesWith
<1>9. ASSUME NEW p \in {DebugSrc} \cup Sources \cup Targets PROVE WayFree(With(t, new), p)
  <2>1. p \in Paths /\ ~Debugging(p)
    BY TablesAre
  <2>2. \A a \in Above(p) : a \notin debug
    BY <1>5, <2>1, AboveDebugs
  <2> QED
    BY <1>3, <1>4, <2>2, WayStaysFree
<1>10. ASSUME NEW s \in Sources PROVE Kind(With(t, new), s) # "dir"
  <2>1. s \in Paths /\ ~Debugging(s)
    BY TablesAre
  <2>2. \A e \in debug : s \notin Above(e)
    <3> SUFFICES ASSUME NEW q \in debug, s \in Above(q) PROVE FALSE
      OBVIOUS
    <3>1. PICK e \in Elfs : q = DebugOf(e)
      OBVIOUS
    <3>2. e \in Paths /\ e \in DOMAIN t
      BY <1>1, <1>2, <3>1, ElfsAre
    <3>3. s \in Above(e)
      BY <2>1, <3>1, <3>2, AboveDebugOf
    <3> QED
      BY <1>4, <3>2, <3>3 DEF IsTree
  <2>3. s \in DOMAIN With(t, new) => s \in DOMAIN t /\ With(t, new)[s] = t[s]
    BY <1>3, <1>5, <1>6, <2>1, <2>2
  <2> QED
    BY <1>4, <2>3 DEF Kind
<1>11. DOMAIN installed \subseteq DOMAIN With(t, new)
  BY <1>4, <1>6
<1> QED
  BY <1>2, <1>4, <1>7, <1>8, <1>9, <1>10, <1>11 DEF SplitTreeInv

LEMMA BelowBelow ==
    ASSUME NEW t, IsTree(t), NEW a \in Paths, NEW p \in Below(t, a)
    PROVE  p \in DOMAIN t /\ a \in Above(p) /\ p \in Paths /\ Below(t, p) \subseteq Below(t, a)
<1>1. p \in DOMAIN t /\ a \in Above(p) /\ p \in Paths
  BY BelowIs DEF IsTree
<1>2. ASSUME NEW q \in Below(t, p) PROVE q \in Below(t, a)
  <2>1. q \in DOMAIN t /\ p \in Above(q) /\ q \in Paths
    BY <1>1, BelowIs DEF IsTree
  <2>2. a \in Above(q)
    BY <1>1, <2>1, AboveAbove
  <2> QED
    BY <2>1, <2>2, BelowIs
<1> QED
  BY <1>1, <1>2

LEMMA NotAboveItself ==
    ASSUME NEW p \in Paths
    PROVE  p \notin Above(p)
  BY DEF Above

Copied(found) == [s \in found \cup {DebugSrc} |->
                     IF s = DebugSrc THEN Dir ELSE [Dir EXCEPT !.kind = "file"]]
EmptyOf(t) == {d \in DOMAIN t : /\ IsPrefix(DebugSrc, d) /\ t[d].kind = "dir"
                                /\ \A q \in Below(t, d) : t[q].kind = "dir"}
LEMMA CopiedKeepTree ==
    ASSUME NEW t, IsTree(t), Entries(t), NEW found \in SUBSET Sources,
           \A p \in {DebugSrc} \cup Sources \cup Targets : WayFree(t, p),
           \A s \in Sources : Kind(t, s) # "dir"
    PROVE  LET copied == With(t, Copied(found)) IN
           IsTree(copied) /\ Entries(copied) /\ \A to \in Targets : WayFree(copied, to)
<1>1. PICK new : new = Copied(found)
  OBVIOUS
<1>2. /\ DOMAIN new = found \cup {DebugSrc}
      /\ \A s \in DOMAIN new : new[s].kind = IF s = DebugSrc THEN "dir" ELSE "file"
  BY <1>1 DEF Copied, Dir
<1>3. DebugSrc \in Paths /\ \A s \in Sources : s \in Paths /\ DebugSrc \in Above(s) /\ Above(s) \cap Sources = {}
  BY TablesAre
<1>4. DOMAIN new \subseteq Paths
  BY <1>2, <1>3
<1>5. ASSUME NEW p \in DOMAIN new, NEW a \in Above(p), a \in found, a # DebugSrc PROVE FALSE
  <2>1. p = DebugSrc
    BY <1>2, <1>3, <1>5
  <2>2. DebugSrc \in Above(a)
    BY <1>3, <1>5
  <2>3. DebugSrc \in Above(DebugSrc)
    BY <1>3, <1>5, <2>1, <2>2, AboveAbove
  <2> QED
    BY <1>3, <2>3, NotAboveItself
<1>6. ASSUME NEW p \in DOMAIN new, NEW a \in Above(p)
      PROVE  IF a \in DOMAIN new THEN new[a].kind = "dir" ELSE a \in DOMAIN t => t[a].kind = "dir"
  <2>1. p \in {DebugSrc} \cup Sources \cup Targets
    BY <1>2
  <2>2. a \in DOMAIN t => t[a].kind = "dir"
    BY <2>1 DEF WayFree
  <2> QED
    BY <1>2, <1>5, <2>2
<1>7. ASSUME NEW p \in DOMAIN t, NEW a \in Above(p), a \in DOMAIN new PROVE new[a].kind = "dir"
  BY <1>2, <1>7 DEF IsTree
<1>8. IsTree(With(t, new))
  BY <1>4, <1>6, <1>7, WithIsTree
<1>9. Entries(With(t, new))
  <2>1. Entries(new)
    BY <1>2 DEF Entries
  <2> QED
    BY <2>1, EntriesWith
<1>10. ASSUME NEW to \in Targets PROVE WayFree(With(t, new), to)
  <2>1. to \in Paths /\ DebugSrc \notin Above(to)
    BY TablesAre
  <2>2. \A a \in Above(to) : a \notin DOMAIN new
    BY <1>2, <1>3, <2>1, AboveAbove
  <2> QED
    BY <2>2, WayStaysFree
<1> QED
  BY <1>1, <1>8, <1>9, <1>10

LEMMA EmptyOnesGo ==
    ASSUME NEW t, IsTree(t)
    PROVE  \A p \in DOMAIN t \ EmptyOf(t) : Above(p) \cap EmptyOf(t) = {}
<1> SUFFICES ASSUME NEW p \in DOMAIN t, NEW a \in Above(p), a \in EmptyOf(t) PROVE p \in EmptyOf(t)
  OBVIOUS
<1>1. p \in Paths /\ a \in DOMAIN t /\ a \in Paths /\ DebugSrc \in Paths
  BY TablesAre DEF IsTree, EmptyOf
<1>2. p \in Below(t, a)
  BY <1>1, BelowIs
<1>3. t[p].kind = "dir" /\ \A q \in Below(t, p) : t[q].kind = "dir"
  BY <1>1, <1>2, BelowBelow DEF EmptyOf
<1>4. IsPrefix(DebugSrc, p)
  <2>1. IsPrefix(DebugSrc, a)
    BY DEF EmptyOf
  <2>2. Len(DebugSrc) \in Nat /\ Len(a) \in Nat /\ Len(p) \in Nat
    BY <1>1, PathIs
  <2>3. Leads(a, p)
    BY <1>1, AboveIs
  <2>4. Len(DebugSrc) <= Len(a) /\ \A i \in 1..Len(DebugSrc) : DebugSrc[i] = a[i]
    BY <1>1, <2>1, PrefixIs
  <2>5. Len(DebugSrc) <= Len(p) /\ \A i \in 1..Len(DebugSrc) : DebugSrc[i] = p[i]
    BY <2>2, <2>3, <2>4 DEF Leads
  <2> QED
    BY <1>1, <2>5, PrefixIs
<1> QED
  BY <1>3, <1>4 DEF EmptyOf

LEMMA MissingOnesGo ==
    ASSUME NEW t, IsTree(t), NEW missing \in SUBSET Paths
    PROVE  LET gone == {b \in missing : Below(t, b) \subseteq missing} IN
           \A p \in DOMAIN t \ gone : Above(p) \cap gone = {}
<1>. DEFINE gone == {b \in missing : Below(t, b) \subseteq missing}
<1> SUFFICES ASSUME NEW p \in DOMAIN t, NEW a \in Above(p), a \in gone PROVE p \in gone
  OBVIOUS
<1>1. p \in Paths /\ a \in Paths
  BY DEF IsTree
<1>2. p \in Below(t, a)
  BY <1>1, BelowIs
<1> QED
  BY <1>1, <1>2, BelowBelow

LEMMA SourcesKeepTree ==
    ASSUME SplitTreeInv, CopyDebugSources
    PROVE  SplitTreeInv'
<1>1. PICK t : t = pkgd
  OBVIOUS
<1>2. /\ splitStep = "sources" /\ splitStep' = "links" /\ installed' = installed
  BY DEF CopyDebugSources
<1>3. /\ installed \in DTrees /\ IsTree(t) /\ Entries(t)
      /\ \A p \in {DebugSrc} \cup Sources \cup Targets : WayFree(t, p)
      /\ \A s \in Sources : Kind(t, s) # "dir"
  BY <1>1, <1>2 DEF SplitTreeInv
<1>4. IsTree(pkgd') /\ Entries(pkgd') /\ \A to \in Targets : WayFree(pkgd', to)
  <2>1. CASE pkgd' = pkgd
    BY <1>1, <1>3, <2>1
  <2>2. CASE pkgd' # pkgd
    <3>. DEFINE missing == {b \in Above(DebugSrc) \cup {DebugSrc} : b \notin DOMAIN pkgd \/ b \in absent}
    <3>1. PICK found \in SUBSET Sources :
             LET copied == With(pkgd, Copied(found))
                 kept == WithoutAll(copied, EmptyOf(copied))
             IN  pkgd' = WithoutAll(kept, {b \in missing : Below(kept, b) \subseteq missing})
      BY <2>2 DEF CopyDebugSources, Copied, EmptyOf
    <3>2. missing \in SUBSET Paths
      BY TablesAre, AboveIs DEF Leads
    <3>3. PICK gaps : gaps = missing
      OBVIOUS
    <3>4. PICK copied : copied = With(t, Copied(found))
      OBVIOUS
    <3>5. IsTree(copied) /\ Entries(copied) /\ \A to \in Targets : WayFree(copied, to)
      BY <1>3, <3>4, CopiedKeepTree
    <3>6. PICK kept : kept = WithoutAll(copied, EmptyOf(copied))
      OBVIOUS
    <3>7. IsTree(kept) /\ Entries(kept) /\ \A to \in Targets : WayFree(kept, to)
      BY <3>5, <3>6, EmptyOnesGo, WithoutIsTree, EntriesWithout, WayStaysFreeWithout
    <3>8. PICK gone : gone = {b \in gaps : Below(kept, b) \subseteq gaps}
      OBVIOUS
    <3>9. pkgd' = WithoutAll(kept, gone)
      BY <1>1, <3>1, <3>3, <3>4, <3>6, <3>8
    <3>10. \A p \in DOMAIN kept \ gone : Above(p) \cap gone = {}
      BY <3>2, <3>3, <3>7, <3>8, MissingOnesGo
    <3>11. /\ IsTree(WithoutAll(kept, gone)) /\ Entries(WithoutAll(kept, gone))
           /\ \A to \in Targets : WayFree(WithoutAll(kept, gone), to)
      BY <3>7, <3>10, WithoutIsTree, EntriesWithout, WayStaysFreeWithout
    <3> QED
      BY <3>9, <3>11
  <2> QED
    BY <2>1, <2>2
<1> QED
  BY <1>2, <1>3, <1>4 DEF SplitTreeInv

-----------------------------------------------------------------------------
(* A path below d, put below to instead.                                   *)
Put(q, d, to) == to \o SubSeq(q, Len(d) + 1, Len(q))

LEMMA PutIs ==
    ASSUME NEW q \in Paths, NEW d \in Above(q), NEW to \in Paths
    PROVE  /\ Put(q, d, to) \in Paths /\ Len(Put(q, d, to)) = Len(to) + (Len(q) - Len(d))
           /\ to \in Above(Put(q, d, to))
           /\ \A i \in 1..Len(to) : Put(q, d, to)[i] = to[i]
           /\ \A i \in 1..Len(q) - Len(d) : Put(q, d, to)[Len(to) + i] = q[Len(d) + i]
<1>1. Leads(d, q) /\ d \in Paths
  BY AboveIs DEF Leads
<1>2. /\ Len(q) \in Nat \ {0} /\ Len(d) \in Nat \ {0} /\ Len(to) \in Nat \ {0} /\ Len(d) < Len(q)
      /\ to \in Seq(Names) /\ \A i \in 1..Len(q) : q[i] \in Names
  BY <1>1, PathIs DEF Leads
<1>3. PICK end : end = SubSeq(q, Len(d) + 1, Len(q))
  OBVIOUS
<1>4. /\ end \in Seq(Names) /\ Len(end) = Len(q) - Len(d)
      /\ \A i \in 1..Len(q) - Len(d) : end[i] = q[Len(d) + i]
  <2>1. /\ Len(d) + 1 \in Int /\ Len(q) \in Int /\ Len(d) + 1 <= Len(q)
        /\ \A i \in Len(d) + 1..Len(q) : q[i] \in Names
    BY <1>2
  <2>2. /\ SubSeq(q, Len(d) + 1, Len(q)) \in Seq(Names)
        /\ Len(SubSeq(q, Len(d) + 1, Len(q))) = Len(q) - (Len(d) + 1) + 1
        /\ \A i \in 1..Len(q) - (Len(d) + 1) + 1 : SubSeq(q, Len(d) + 1, Len(q))[i] = q[Len(d) + 1 + i - 1]
    BY <2>1, SubSeqProperties
  <2>3. /\ Len(q) - (Len(d) + 1) + 1 = Len(q) - Len(d)
        /\ \A i \in 1..Len(q) - Len(d) : Len(d) + 1 + i - 1 = Len(d) + i
    BY <1>2
  <2> QED
    BY <1>3, <2>2, <2>3
<1>5. /\ to \o end \in Seq(Names) /\ Len(to \o end) = Len(to) + Len(end)
      /\ \A i \in 1..Len(to) + Len(end) :
           (to \o end)[i] = IF i <= Len(to) THEN to[i] ELSE end[i - Len(to)]
  BY <1>2, <1>4, ConcatProperties
<1>6. Put(q, d, to) = to \o end
  BY <1>3 DEF Put
<1>7. PICK r : r = to \o end
  OBVIOUS
<1>8. Len(r) = Len(to) + (Len(q) - Len(d)) /\ Len(to) < Len(r)
  BY <1>2, <1>4, <1>5, <1>7
<1>9. r \in Paths
  BY <1>2, <1>5, <1>7, <1>8, EmptySeq DEF Paths
<1>10. \A i \in 1..Len(to) : r[i] = to[i]
  BY <1>2, <1>4, <1>5, <1>7
<1>11. \A i \in 1..Len(q) - Len(d) : r[Len(to) + i] = q[Len(d) + i]
  <2> SUFFICES ASSUME NEW i \in 1..Len(q) - Len(d) PROVE r[Len(to) + i] = q[Len(d) + i]
    OBVIOUS
  <2>1. Len(to) + i \in 1..Len(to) + Len(end) /\ ~(Len(to) + i <= Len(to)) /\ Len(to) + i - Len(to) = i
    BY <1>2, <1>4
  <2>2. r[Len(to) + i] = end[i]
    BY <1>5, <1>7, <2>1
  <2> QED
    BY <1>4, <2>2
<1>12. to \in Above(r)
  BY <1>8, <1>9, <1>10, AboveIs DEF Leads
<1> QED
  BY <1>6, <1>7, <1>8, <1>9, <1>10, <1>11, <1>12

LEMMA PutBack ==
    ASSUME NEW q \in Paths, NEW d \in Above(q), NEW to \in Paths
    PROVE  Put(Put(q, d, to), to, d) = q
<1>1. PICK r : r = Put(q, d, to)
  OBVIOUS
<1>2. Leads(d, q) /\ d \in Paths
  BY AboveIs DEF Leads
<1>3. Len(q) \in Nat \ {0} /\ Len(d) \in Nat \ {0} /\ Len(to) \in Nat \ {0} /\ Len(d) < Len(q)
  BY <1>2, PathIs DEF Leads
<1>4. /\ r \in Paths /\ Len(r) = Len(to) + (Len(q) - Len(d)) /\ to \in Above(r)
      /\ \A i \in 1..Len(q) - Len(d) : r[Len(to) + i] = q[Len(d) + i]
  BY <1>1, PutIs
<1>5. PICK s : s = Put(r, to, d)
  OBVIOUS
<1>6. /\ s \in Paths /\ Len(s) = Len(d) + (Len(r) - Len(to))
      /\ \A i \in 1..Len(d) : s[i] = d[i]
      /\ \A i \in 1..Len(r) - Len(to) : s[Len(d) + i] = r[Len(to) + i]
  <2>1. d \in Paths /\ r \in Paths /\ to \in Above(r)
    BY <1>2, <1>4
  <2>2. /\ Put(r, to, d) \in Paths /\ Len(Put(r, to, d)) = Len(d) + (Len(r) - Len(to))
        /\ \A i \in 1..Len(d) : Put(r, to, d)[i] = d[i]
        /\ \A i \in 1..Len(r) - Len(to) : Put(r, to, d)[Len(d) + i] = r[Len(to) + i]
    BY <2>1, PutIs
  <2> QED
    BY <1>5, <2>2
<1>7. Len(r) - Len(to) = Len(q) - Len(d) /\ Len(s) = Len(q)
  BY <1>3, <1>4, <1>6
<1>8. ASSUME NEW i \in 1..Len(s) PROVE s[i] = q[i]
  <2>1. CASE i <= Len(d)
    BY <1>2, <1>3, <1>6, <1>7, <2>1 DEF Leads
  <2>2. CASE ~(i <= Len(d))
    <3>1. i - Len(d) \in 1..Len(q) - Len(d) /\ Len(d) + (i - Len(d)) = i
      BY <1>3, <1>7, <2>2
    <3>2. s[Len(d) + (i - Len(d))] = q[Len(d) + (i - Len(d))]
      BY <1>4, <1>6, <1>7, <3>1
    <3> QED
      BY <3>1, <3>2
  <2> QED
    BY <2>1, <2>2
<1> QED
  BY <1>1, <1>5, <1>6, <1>7, <1>8, PathsEqual

(* What is above such a path: to, what is above to, and what was above the *)
(* path below d, put below to.                                             *)
LEMMA AbovePut ==
    ASSUME NEW q \in Paths, NEW d \in Above(q), NEW to \in Paths, NEW a \in Above(Put(q, d, to))
    PROVE  a \in Above(to) \/ a = to \/ \E b \in Above(q) : d \in Above(b) /\ a = Put(b, d, to)
<1>1. PICK r : r = Put(q, d, to)
  OBVIOUS
<1>2. Leads(d, q) /\ d \in Paths
  BY AboveIs DEF Leads
<1>3. Len(q) \in Nat \ {0} /\ Len(d) \in Nat \ {0} /\ Len(to) \in Nat \ {0} /\ Len(d) < Len(q)
  BY <1>2, PathIs DEF Leads
<1>4. /\ r \in Paths /\ Len(r) = Len(to) + (Len(q) - Len(d)) /\ to \in Above(r)
      /\ \A i \in 1..Len(to) : r[i] = to[i]
      /\ \A i \in 1..Len(q) - Len(d) : r[Len(to) + i] = q[Len(d) + i]
  BY <1>1, PutIs
<1>5. Leads(a, r) /\ a \in Paths
  BY <1>1, <1>4, AboveIs DEF Leads
<1>6. Len(a) \in Nat \ {0} /\ Len(a) < Len(r) /\ \A i \in 1..Len(a) : a[i] = r[i]
  BY <1>5, PathIs DEF Leads
<1>7. a \in Above(to) \/ a = to \/ to \in Above(a)
  BY <1>1, <1>4, AboveBoth
<1>8. ASSUME to \in Above(a) PROVE \E b \in Above(q) : d \in Above(b) /\ a = Put(b, d, to)
  <2>1. Leads(to, a)
    BY <1>5, <1>8, AboveIs
  <2>2. Len(to) < Len(a)
    BY <2>1 DEF Leads
  <2>3. PICK n : n = Len(d) + (Len(a) - Len(to))
    OBVIOUS
  <2>4. n \in 1..Len(q) /\ n < Len(q) /\ Len(d) < n /\ n - Len(d) = Len(a) - Len(to)
    BY <1>3, <1>4, <1>6, <2>2, <2>3
  <2>5. PICK b : b = SubSeq(q, 1, n)
    OBVIOUS
  <2>6. b \in Paths /\ Len(b) = n /\ \A i \in 1..n : b[i] = q[i]
    BY <2>4, <2>5, FirstNames
  <2>7. b \in Above(q)
    BY <2>4, <2>6, AboveIs DEF Leads
  <2>8. d \in Above(b)
    BY <1>2, <1>3, <2>4, <2>6, AboveIs DEF Leads
  <2>9. PICK s : s = Put(b, d, to)
    OBVIOUS
  <2>10. /\ s \in Paths /\ Len(s) = Len(to) + (Len(b) - Len(d))
         /\ \A i \in 1..Len(to) : s[i] = to[i]
         /\ \A i \in 1..Len(b) - Len(d) : s[Len(to) + i] = b[Len(d) + i]
    BY <2>6, <2>8, <2>9, PutIs
  <2>11. Len(s) = Len(a)
    BY <1>3, <1>6, <2>4, <2>6, <2>10
  <2>12. ASSUME NEW i \in 1..Len(s) PROVE s[i] = a[i]
    <3>1. CASE i <= Len(to)
      BY <1>3, <1>4, <1>6, <2>10, <2>11, <3>1
    <3>2. CASE ~(i <= Len(to))
      <4>1. PICK j : j = i - Len(to)
        OBVIOUS
      <4>2. /\ j \in 1..Len(b) - Len(d) /\ j \in 1..Len(q) - Len(d) /\ Len(to) + j = i
            /\ i \in 1..Len(a) /\ Len(d) + j \in 1..n
        BY <1>3, <1>6, <2>4, <2>6, <2>11, <3>2, <4>1
      <4>3. s[i] = b[Len(d) + j] /\ r[i] = q[Len(d) + j]
        BY <1>4, <2>10, <4>2
      <4> QED
        BY <1>6, <2>6, <4>2, <4>3
    <3> QED
      BY <3>1, <3>2
  <2>13. s = a
    BY <1>5, <2>10, <2>11, <2>12, PathsEqual
  <2> QED
    BY <2>7, <2>8, <2>9, <2>13
<1> QED
  BY <1>7, <1>8

Away(t, d) == Below(t, d) \cup {d}
Arrived(t, d, to) == {Put(q, d, to) : q \in Below(t, d)}
Arriving(t, d, to) == [p \in Arrived(t, d, to) \cup {to, d} |->
                          IF p = d THEN [kind |-> "link", of |-> to]
                          ELSE IF p = to THEN Dir ELSE t[Put(p, to, d)]]
LEMMA MovedIs ==
    ASSUME NEW t, NEW d, NEW to
    PROVE  Moved(t, d, to) = With(WithoutAll(t, Away(t, d)), Arriving(t, d, to))
  BY DEF Moved, Away, Arrived, Arriving, Put

LEMMA ArrivedAre ==
    ASSUME NEW t, IsTree(t), Entries(t), NEW d \in DOMAIN t, NEW to \in Paths, to \notin DOMAIN t,
           d # to, d \notin Above(to), ~Debugging(d)
    PROVE  \A p \in Arrived(t, d, to) : \E q \in Below(t, d) :
              /\ p = Put(q, d, to) /\ p \in Paths /\ to \in Above(p) /\ p # d /\ p # to
              /\ Arriving(t, d, to)[p] = t[q] /\ (Debugging(q) => Debugging(p))
              /\ \A a \in Above(p) : \/ a \in Above(to) \/ a = to
                                     \/ /\ a \in Arrived(t, d, to)
                                        /\ Arriving(t, d, to)[a].kind = "dir"
<1>1. d \in Paths
  BY DEF IsTree
<1>2. ASSUME NEW q \in Below(t, d)
      PROVE  /\ q \in DOMAIN t /\ q \in Paths /\ d \in Above(q)
             /\ Put(q, d, to) \in Paths /\ to \in Above(Put(q, d, to))
             /\ Put(q, d, to) # d /\ Put(q, d, to) # to
             /\ Arriving(t, d, to)[Put(q, d, to)] = t[q]
  <2>1. q \in DOMAIN t /\ q \in Paths /\ d \in Above(q)
    BY <1>1, BelowBelow
  <2>2. PICK r : r = Put(q, d, to)
    OBVIOUS
  <2>3. r \in Paths /\ to \in Above(r) /\ Put(r, to, d) = q
    BY <2>1, <2>2, PutIs, PutBack
  <2>4. r # to
    BY <2>3, NotAboveItself
  <2>5. r # d
    BY <2>3 DEF IsTree, Kind
  <2>6. r \in Arrived(t, d, to)
    BY <2>2 DEF Arrived
  <2>7. Arriving(t, d, to)[r] = t[q]
    BY <2>3, <2>4, <2>5, <2>6 DEF Arriving
  <2> QED
    BY <2>1, <2>2, <2>3, <2>4, <2>5, <2>7
<1>3. ASSUME NEW q \in Below(t, d), Debugging(q) PROVE Debugging(Put(q, d, to))
  <2>1. q \in Paths /\ d \in Above(q) /\ Leads(d, q)
    BY <1>2, AboveIs
  <2>2. PICK r : r = Put(q, d, to)
    OBVIOUS
  <2>3. /\ r \in Paths /\ Len(r) = Len(to) + (Len(q) - Len(d))
        /\ \A i \in 1..Len(q) - Len(d) : r[Len(to) + i] = q[Len(d) + i]
    <3>1. /\ Put(q, d, to) \in Paths /\ Len(Put(q, d, to)) = Len(to) + (Len(q) - Len(d))
          /\ \A i \in 1..Len(q) - Len(d) : Put(q, d, to)[Len(to) + i] = q[Len(d) + i]
      BY <2>1, PutIs
    <3> QED
      BY <2>2, <3>1
  <2>4. Len(q) \in Nat /\ Len(d) \in Nat /\ Len(to) \in Nat /\ Len(d) < Len(q)
    BY <1>1, <2>1, PathIs DEF Leads
  <2>5. PICK n \in 1..Len(q) : q[n] = ".debug"
    BY <1>3, <2>1, PathIs
  <2>6. ~(n <= Len(d))
    <3> SUFFICES ASSUME n <= Len(d) PROVE FALSE
      OBVIOUS
    <3>1. n \in 1..Len(d)
      BY <2>4
    <3>2. d[n] = ".debug"
      BY <2>1, <2>5, <3>1 DEF Leads
    <3> QED
      BY <1>1, <3>1, <3>2, PathIs
  <2>7. PICK j : j = n - Len(d)
    OBVIOUS
  <2>8. j \in 1..Len(q) - Len(d) /\ Len(d) + j = n /\ Len(to) + j \in 1..Len(r)
    BY <2>3, <2>4, <2>6, <2>7
  <2>9. r[Len(to) + j] = ".debug"
    BY <2>3, <2>5, <2>8
  <2> QED
    BY <2>2, <2>3, <2>8, <2>9, PathIs
<1>4. ASSUME NEW q \in Below(t, d), NEW a \in Above(Put(q, d, to)), a \notin Above(to), a # to
      PROVE  a \in Arrived(t, d, to) /\ Arriving(t, d, to)[a].kind = "dir"
  <2>1. q \in DOMAIN t /\ q \in Paths /\ d \in Above(q)
    BY <1>2
  <2>2. PICK b \in Above(q) : d \in Above(b) /\ a = Put(b, d, to)
    BY <1>4, <2>1, AbovePut
  <2>3. b \in DOMAIN t /\ t[b].kind = "dir"
    BY <2>1 DEF IsTree, Kind
  <2>4. b \in Below(t, d)
    BY <1>1, <2>2, <2>3, BelowIs
  <2>5. a \in Arrived(t, d, to)
    BY <2>2, <2>4 DEF Arrived
  <2> QED
    BY <1>2, <2>2, <2>3, <2>4, <2>5
<1>5. ASSUME NEW p \in Arrived(t, d, to)
      PROVE  \E q \in Below(t, d) :
                /\ p = Put(q, d, to) /\ p \in Paths /\ to \in Above(p) /\ p # d /\ p # to
                /\ Arriving(t, d, to)[p] = t[q] /\ (Debugging(q) => Debugging(p))
                /\ \A a \in Above(p) : \/ a \in Above(to) \/ a = to
                                       \/ /\ a \in Arrived(t, d, to)
                                          /\ Arriving(t, d, to)[a].kind = "dir"
  <2>1. PICK q \in Below(t, d) : p = Put(q, d, to)
    BY DEF Arrived
  <2>2. p \in Paths /\ to \in Above(p) /\ p # d /\ p # to /\ Arriving(t, d, to)[p] = t[q]
    BY <1>2, <2>1
  <2>3. Debugging(q) => Debugging(p)
    BY <1>3, <2>1
  <2>4. \A a \in Above(p) : a \in Above(to) \/ a = to \/ (a \in Arrived(t, d, to)
                                                       /\ Arriving(t, d, to)[a].kind = "dir")
    BY <1>4, <2>1
  <2> QED
    BY <2>1, <2>2, <2>3, <2>4
<1> QED
  BY <1>5

LEMMA MovedKeepsTree ==
    ASSUME NEW t, IsTree(t), Entries(t), NEW d \in Origins, NEW to \in Targets,
           Kind(t, d) = "dir", to \notin DOMAIN t, \A other \in Targets : WayFree(t, other)
    PROVE  LET moved == Moved(t, d, to) IN
           IsTree(moved) /\ Entries(moved) /\ \A other \in Targets : WayFree(moved, other)
<1>1. PICK t1, new : t1 = WithoutAll(t, Away(t, d)) /\ new = Arriving(t, d, to)
  OBVIOUS
<1>2. Moved(t, d, to) = With(t1, new)
  BY <1>1, MovedIs
<1>3. /\ d \in Paths /\ ~Debugging(d) /\ to \in Paths /\ d # to /\ d \notin Above(to)
      /\ d \in DOMAIN t /\ to \notin Above(to) /\ d \notin Above(d)
  BY TablesAre, NotAboveItself DEF Kind
<1>4. /\ DOMAIN t1 = DOMAIN t \ Away(t, d) /\ \A p \in DOMAIN t1 : t1[p] = t[p]
  <2>1. PICK gone : gone = Away(t, d)
    OBVIOUS
  <2>2. /\ DOMAIN WithoutAll(t, gone) = DOMAIN t \ gone
        /\ \A p \in DOMAIN t \ gone : WithoutAll(t, gone)[p] = t[p]
    BY WithoutIs
  <2> QED
    BY <1>1, <2>1, <2>2
<1>5. IsTree(t1) /\ Entries(t1) /\ \A other \in Targets : WayFree(t1, other)
  <2>1. \A p \in DOMAIN t \ Away(t, d) : Above(p) \cap Away(t, d) = {}
    <3> SUFFICES ASSUME NEW p \in DOMAIN t, NEW a \in Above(p), a \in Away(t, d) PROVE p \in Away(t, d)
      OBVIOUS
    <3>1. p \in Paths /\ a \in Paths
      BY <1>3, BelowBelow DEF IsTree, Away
    <3>2. d \in Above(p)
      <4>1. CASE a = d
        BY <4>1
      <4>2. CASE a \in Below(t, d)
        BY <1>3, <3>1, <4>2, BelowBelow, AboveAbove
      <4> QED
        BY <4>1, <4>2 DEF Away
    <3> QED
      BY <1>3, <3>2, BelowIs DEF Away
  <2> QED
    BY <1>1, <2>1, WithoutIsTree, EntriesWithout, WayStaysFreeWithout
<1>6. /\ DOMAIN new = Arrived(t, d, to) \cup {to, d}
      /\ new[d].kind = "link" /\ new[to].kind = "dir"
  BY <1>1, <1>3 DEF Arriving, Dir
<1>7. \A p \in Arrived(t, d, to) :
         /\ p \in Paths /\ to \in Above(p) /\ p # d /\ p # to
         /\ \A a \in Above(p) : a \in Above(to) \/ a = to \/ (a \in Arrived(t, d, to) /\ new[a].kind = "dir")
         /\ new[p].kind \in {"dir", "file", "elf", "debug", "link"}
         /\ new[p].kind = "debug" => Debugging(p)
  <2> SUFFICES ASSUME NEW p \in Arrived(t, d, to)
               PROVE  /\ p \in Paths /\ to \in Above(p) /\ p # d /\ p # to
                      /\ \A a \in Above(p) : a \in Above(to) \/ a = to
                                             \/ (a \in Arrived(t, d, to) /\ new[a].kind = "dir")
                      /\ new[p].kind \in {"dir", "file", "elf", "debug", "link"}
                      /\ new[p].kind = "debug" => Debugging(p)
    OBVIOUS
  <2>1. PICK q \in Below(t, d) :
          /\ p = Put(q, d, to) /\ p \in Paths /\ to \in Above(p) /\ p # d /\ p # to
          /\ new[p] = t[q] /\ (Debugging(q) => Debugging(p))
          /\ \A a \in Above(p) : \/ a \in Above(to) \/ a = to
                                 \/ /\ a \in Arrived(t, d, to)
                                    /\ new[a].kind = "dir"
    BY <1>1, <1>3, ArrivedAre
  <2>2. q \in DOMAIN t
    BY <1>3, BelowBelow
  <2> QED
    BY <2>1, <2>2 DEF Entries
<1>8. \A p \in DOMAIN t : to \notin Above(p) /\ Above(p) \cap Arrived(t, d, to) = {}
  <2>1. ASSUME NEW p \in DOMAIN t, to \in Above(p) PROVE FALSE
    BY <2>1 DEF IsTree, Kind
  <2>2. ASSUME NEW p \in DOMAIN t, NEW a \in Above(p), a \in Arrived(t, d, to) PROVE FALSE
    <3>1. p \in Paths /\ to \in Above(a)
      BY <1>7, <2>2 DEF IsTree
    <3> QED
      BY <2>1, <3>1, AboveAbove
  <2> QED
    BY <2>1, <2>2
<1>9. Above(to) \cap DOMAIN new = {}
  <2>1. ASSUME NEW a \in Above(to), a \in Arrived(t, d, to) PROVE FALSE
    <3>1. to \in Above(a)
      BY <1>7, <2>1
    <3> QED
      BY <1>3, <3>1, AboveAbove
  <2> QED
    BY <1>3, <1>6, <2>1
<1>10. IsTree(With(t1, new))
  <2>1. DOMAIN new \subseteq Paths
    BY <1>3, <1>6, <1>7
  <2>2. ASSUME NEW p \in DOMAIN new, NEW a \in Above(p)
        PROVE  IF a \in DOMAIN new THEN new[a].kind = "dir" ELSE a \in DOMAIN t1 => t1[a].kind = "dir"
    <3>1. ASSUME a \in Above(to) PROVE a \notin DOMAIN new /\ (a \in DOMAIN t1 => t1[a].kind = "dir")
      BY <1>5, <1>9, <3>1 DEF WayFree
    <3>2. CASE p = d
      <4>1. a \notin DOMAIN new /\ a \in DOMAIN t /\ t[a].kind = "dir"
        BY <1>3, <1>6, <1>8, <3>2 DEF IsTree, Kind
      <4> QED
        BY <1>4, <4>1
    <3>3. CASE p = to
      BY <3>1, <3>3
    <3>4. CASE p \in Arrived(t, d, to)
      BY <1>6, <1>7, <3>1, <3>4
    <3> QED
      BY <1>6, <3>2, <3>3, <3>4
  <2>3. ASSUME NEW p \in DOMAIN t1, NEW a \in Above(p), a \in DOMAIN new PROVE new[a].kind = "dir"
    <3>1. p \in DOMAIN t /\ p \notin Below(t, d)
      BY <1>4 DEF Away
    <3>2. a # d
      BY <1>3, <3>1, BelowIs
    <3> QED
      BY <1>6, <1>8, <2>3, <3>1, <3>2
  <2> QED
    BY <1>5, <2>1, <2>2, <2>3, WithIsTree
<1>11. Entries(With(t1, new))
  <2>1. Entries(new)
    BY <1>6, <1>7 DEF Entries
  <2> QED
    BY <1>5, <2>1, EntriesWith
<1>12. ASSUME NEW other \in Targets PROVE WayFree(With(t1, new), other)
  <2>1. other \in Paths /\ d \notin Above(other)
    BY TablesAre
  <2>2. ASSUME NEW a \in Above(other), a \in Arrived(t, d, to) PROVE FALSE
    <3>1. to \in Above(a)
      BY <1>7, <2>2
    <3>2. to \in Above(other)
      BY <2>1, <3>1, AboveAbove
    <3> QED
      BY <3>1, <3>2, TablesAre
  <2>3. \A a \in Above(other) : a \in DOMAIN new => new[a].kind = "dir"
    BY <1>6, <2>1, <2>2
  <2> QED
    BY <1>5, <2>3, WayStaysFree
<1> QED
  BY <1>2, <1>10, <1>11, <1>12

LEMMA LinkKeepsTree ==
    ASSUME SplitTreeInv, LinkDirectory, turn \in Nat \ {0}
    PROVE  SplitTreeInv'
<1>1. /\ splitStep = "links" /\ splitStep' = "links" /\ installed' = installed
      /\ turn <= Len(LinkTable)
  BY DEF LinkDirectory
<1>2. turn \in 1..Len(LinkTable)
  BY <1>1, TablesAssumption
<1>3. PICK d, to : d = LinkTable[turn][1] /\ to = LinkTable[turn][2]
  OBVIOUS
<1>4. d \in Origins /\ to \in Targets
  BY <1>2, <1>3 DEF Origins, Targets
<1>5. pkgd' = pkgd \/ (Kind(pkgd, d) = "dir" /\ to \notin DOMAIN pkgd /\ pkgd' = Moved(pkgd, d, to))
  BY <1>3 DEF LinkDirectory
<1>6. /\ installed \in DTrees /\ IsTree(pkgd) /\ Entries(pkgd)
      /\ \A p \in Targets : WayFree(pkgd, p)
  BY <1>1 DEF SplitTreeInv
<1>7. IsTree(pkgd') /\ Entries(pkgd') /\ \A p \in Targets : WayFree(pkgd', p)
  <2>1. PICK t : t = pkgd
    OBVIOUS
  <2>2. CASE pkgd' = pkgd
    BY <1>6, <2>2
  <2>3. CASE Kind(pkgd, d) = "dir" /\ to \notin DOMAIN pkgd /\ pkgd' = Moved(pkgd, d, to)
    <3>1. PICK moved : moved = Moved(t, d, to)
      OBVIOUS
    <3>2. IsTree(moved) /\ Entries(moved) /\ \A p \in Targets : WayFree(moved, p)
      BY <1>4, <1>6, <2>1, <2>3, <3>1, MovedKeepsTree
    <3>3. pkgd' = moved
      BY <2>1, <2>3, <3>1
    <3> QED
      BY <3>2, <3>3
  <2> QED
    BY <1>5, <2>2, <2>3
<1> QED
  BY <1>1, <1>6, <1>7 DEF SplitTreeInv

-----------------------------------------------------------------------------
LEMMA SplitStart ==
    SplitInit => SplitInv
<1> SUFFICES ASSUME SplitInit PROVE SplitInv
  OBVIOUS
<1>1. /\ installed \in DTrees /\ pkgd = installed /\ absent = {} /\ packageList = <<>> /\ seen = {}
      /\ turn = 1 /\ content = [k \in Packages |-> {}] /\ splitStep = "split"
  BY DEF SplitInit
<1>2. IsTree(pkgd) /\ Entries(pkgd)
  BY <1>1, TreesAssumption DEF IsTree, Entries, IsPath, Paths
<1>3. ASSUME NEW p \in {DebugSrc} \cup Sources \cup Targets PROVE WayFree(pkgd, p)
  <2> SUFFICES ASSUME NEW a \in Above(p), a \in DOMAIN pkgd PROVE pkgd[a].kind = "dir"
    BY DEF WayFree
  <2>1. Kind(pkgd, a) \in {"none", "dir"} /\ pkgd[a].kind \in {"dir", "file", "elf", "link"}
    BY <1>1, TreesAssumption
  <2> QED
    BY <2>1 DEF Kind
<1>4. SplitTreeInv
  BY <1>1, <1>2, <1>3, TreesAssumption DEF SplitTreeInv
<1>5. CacheInv
  BY <1>1 DEF CacheInv
<1>6. PackagesInv
  <2>1. packageList \in Seq(Packages) /\ Len(packageList) = 0 /\ DOMAIN packageList = {}
    BY <1>1
  <2>2. 1..Len(packageList) = {}
    BY <2>1
  <2> QED
    BY <1>1, <2>1, <2>2 DEF PackagesInv, IsInjective, Unfilled
<1>7. ShareInv
  BY <1>1 DEF ShareInv, Unfilled
<1> QED
  BY <1>1, <1>4, <1>5, <1>6, <1>7 DEF SplitInv

(* Until the packages are filled there is nothing in them.                 *)
LEMMA StaysEmpty ==
    ASSUME ShareInv, Unfilled, splitStep' \in {"split", "sources", "links", "list"},
           UNCHANGED <<content, seen>>
    PROVE  ShareInv'
<1>1. content' = [k \in Packages |-> {}] /\ seen' = {}
  BY DEF ShareInv
<1> QED
  BY <1>1 DEF ShareInv, Unfilled

LEMMA NothingListed ==
    ASSUME PackagesInv, splitStep \in {"split", "sources", "links"},
           splitStep' \in {"split", "sources", "links", "list"},
           packageList' = packageList, turn' \in Nat \ {0},
           splitStep' = "list" => turn' = 1
    PROVE  PackagesInv'
<1>1. packageList' \in Seq(Packages) /\ IsInjective(packageList') /\ packageList' = <<>>
  BY DEF PackagesInv
<1>2. 1..Len(packageList') = {}
  BY <1>1
<1>3. \A i \in 1..Len(PackageOrder) : ~(i < 1)
  BY TablesAssumption
<1> QED
  BY <1>1, <1>2, <1>3 DEF PackagesInv, Unfilled

LEMMA StripKeeps ==
    ASSUME SplitInv, SplitAndStrip
    PROVE  SplitInv'
<1>1. /\ splitStep = "split" /\ splitStep' = "sources"
      /\ UNCHANGED <<installed, filesVar, fixed, packageList, content, seen, unshipped, rdepends, turn>>
      /\ absent' = {FirstMissing(pkgd, pkgd[l].of) : l \in Dangling(pkgd)}
  BY DEF SplitAndStrip
<1>2. SplitTreeInv /\ CacheInv /\ PackagesInv /\ ShareInv
  BY DEF SplitInv
<1>3. CacheInv'
  <2>1. pkgd = installed
    BY <1>1, <1>2 DEF SplitTreeInv
  <2>2. \A d \in absent' : ByDangling(d)
    BY <1>1, <2>1 DEF ByDangling
  <2>3. \A d \in absent' : ByDangling(d)'
    BY <1>1, <2>2 DEF ByDangling
  <2> QED
    BY <1>1, <2>3 DEF CacheInv
<1>4. PackagesInv' /\ ShareInv'
  <2>1. turn' \in Nat \ {0}
    BY <1>1, <1>2 DEF PackagesInv
  <2> QED
    BY <1>1, <1>2, <2>1, NothingListed, StaysEmpty DEF Unfilled
<1> QED
  BY <1>1, <1>2, <1>3, <1>4, StripKeepsTree DEF SplitInv

LEMMA SourcesKeep ==
    ASSUME SplitInv, CopyDebugSources
    PROVE  SplitInv'
<1>1. /\ splitStep = "sources" /\ splitStep' = "links"
      /\ UNCHANGED <<installed, filesVar, fixed, packageList, content, seen, unshipped, rdepends, turn>>
  BY DEF CopyDebugSources
<1>2. SplitTreeInv /\ CacheInv /\ PackagesInv /\ ShareInv
  BY DEF SplitInv
<1>3. CacheInv'
  <2>1. \A d \in absent : ByDangling(d)
    BY <1>1, <1>2 DEF CacheInv
  <2>2. DOMAIN installed \subseteq DOMAIN pkgd
    BY <1>1, <1>2 DEF SplitTreeInv
  <2>3. ASSUME NEW d \in absent' PROVE ByDangling(d) \/ ByDebugSrc(d)
    <3>1. CASE absent' = absent
      BY <2>1, <2>3, <3>1
    <3>2. CASE absent' # absent
      <4>1. d \in absent \/ (d \in Above(DebugSrc) /\ (d \notin DOMAIN pkgd \/ d \in absent))
        BY <2>3, <3>2 DEF CopyDebugSources, KnownAfterSources
      <4>2. CASE d \in absent
        BY <2>1, <4>2
      <4>3. CASE d \in Above(DebugSrc) /\ d \notin DOMAIN pkgd
        BY <2>2, <4>3 DEF ByDebugSrc
      <4> QED
        BY <4>1, <4>2, <4>3
    <3> QED
      BY <3>1, <3>2
  <2>4. \A d \in absent' : ByDangling(d)' \/ ByDebugSrc(d)'
    BY <1>1, <2>3 DEF ByDangling, ByDebugSrc
  <2> QED
    BY <1>1, <2>4 DEF CacheInv
<1>4. PackagesInv' /\ ShareInv'
  <2>1. turn' \in Nat \ {0}
    BY <1>1, <1>2 DEF PackagesInv
  <2> QED
    BY <1>1, <1>2, <2>1, NothingListed, StaysEmpty DEF Unfilled
<1> QED
  BY <1>1, <1>2, <1>3, <1>4, SourcesKeepTree DEF SplitInv

LEMMA LinkKeeps ==
    ASSUME SplitInv, LinkDirectory
    PROVE  SplitInv'
<1>1. /\ splitStep = "links" /\ splitStep' = "links" /\ turn' = turn + 1 /\ turn <= Len(LinkTable)
      /\ UNCHANGED <<installed, filesVar, fixed, packageList, content, seen, unshipped, rdepends>>
  BY DEF LinkDirectory
<1>2. SplitTreeInv /\ CacheInv /\ PackagesInv /\ ShareInv /\ turn \in Nat \ {0}
  BY DEF SplitInv, PackagesInv
<1>3. CacheInv'
  <2>1. \A d \in absent : ByDangling(d) \/ ByDebugSrc(d) \/ d \in Origins
    BY <1>1, <1>2 DEF CacheInv
  <2>2. turn \in 1..Len(LinkTable)
    BY <1>1, <1>2, TablesAssumption
  <2>3. LinkTable[turn][1] \in Origins
    BY <2>2 DEF Origins
  <2>4. absent' \subseteq absent \cup {LinkTable[turn][1]}
    BY DEF LinkDirectory
  <2>5. \A d \in absent' : ByDangling(d)' \/ ByDebugSrc(d)' \/ d \in Origins
    BY <1>1, <2>1, <2>3, <2>4 DEF ByDangling, ByDebugSrc
  <2> QED
    BY <1>1, <2>5 DEF CacheInv
<1>4. PackagesInv' /\ ShareInv'
  <2>1. turn' \in Nat \ {0}
    BY <1>1, <1>2
  <2> QED
    BY <1>1, <1>2, <2>1, NothingListed, StaysEmpty DEF Unfilled
<1> QED
  BY <1>1, <1>2, <1>3, <1>4, LinkKeepsTree DEF SplitInv

LEMMA PkgdStays ==
    ASSUME SplitTreeInv, UNCHANGED <<installed, pkgd>>,
           splitStep' \notin {"split", "sources", "links"} \/ splitStep' = splitStep
    PROVE  SplitTreeInv'
<1>1. CASE splitStep' = splitStep
  BY <1>1 DEF SplitTreeInv
<1>2. CASE splitStep' \notin {"split", "sources", "links"}
  BY <1>2 DEF SplitTreeInv
<1> QED
  BY <1>1, <1>2

LEMMA FixKeeps ==
    ASSUME SplitInv, FixDirectories
    PROVE  SplitInv'
<1>1. /\ splitStep = "links" /\ splitStep' = "list" /\ turn' = 1 /\ absent' = {}
      /\ UNCHANGED <<installed, filesVar, pkgd, packageList, content, seen, unshipped, rdepends>>
  BY DEF FixDirectories, NewCache
<1>2. SplitTreeInv /\ CacheInv /\ PackagesInv /\ ShareInv
  BY DEF SplitInv
<1>3. CacheInv'
  <2>1. ASSUME NEW d \in DOMAIN PermsTable, Kind(pkgd, d) = "dir", d \notin fixed'
        PROVE  ByDebugSrc(d) \/ ByDangling(d)
    <3>1. d \in absent
      BY <2>1 DEF FixDirectories
    <3>2. d \notin Origins
      BY TablesAssumption
    <3> QED
      BY <1>1, <1>2, <3>1, <3>2 DEF CacheInv
  <2>2. ModesFixed'
    BY <1>1, <2>1 DEF ModesFixed, ByDebugSrc, ByDangling, Dangling, Kind
  <2> QED
    BY <1>1, <2>2 DEF CacheInv
<1>4. PackagesInv' /\ ShareInv'
  BY <1>1, <1>2, NothingListed, StaysEmpty DEF Unfilled
<1>5. SplitTreeInv'
  BY <1>1, <1>2, PkgdStays
<1> QED
  BY <1>1, <1>3, <1>4, <1>5 DEF SplitInv

(* From then on PKGD is left alone, and the cache knows it.                *)
LEMMA KnownPkgdStays ==
    ASSUME SplitTreeInv, CacheInv, UNCHANGED <<installed, pkgd, absent, fixed>>,
           splitStep \notin {"split", "sources", "links"},
           splitStep' \notin {"split", "sources", "links"}
    PROVE  SplitTreeInv' /\ CacheInv'
<1>1. SplitTreeInv'
  BY PkgdStays
<1>2. CacheInv'
  BY DEF CacheInv, ModesFixed, Dangling, Kind
<1> QED
  BY <1>1, <1>2

-----------------------------------------------------------------------------
LEMMA ListKeeps ==
    ASSUME SplitInv, ListPackage
    PROVE  SplitInv'
<1>1. /\ splitStep = "list" /\ splitStep' = "list" /\ turn <= Len(PackageOrder) /\ turn' = turn + 1
      /\ UNCHANGED <<installed, filesVar, pkgd, absent, fixed, content, seen, unshipped, rdepends>>
  BY DEF ListPackage
<1>2. SplitTreeInv /\ CacheInv /\ PackagesInv /\ ShareInv
  BY DEF SplitInv
<1>3. SplitTreeInv' /\ CacheInv'
  BY <1>1, <1>2, KnownPkgdStays
<1>4. ShareInv'
  BY <1>1, <1>2, StaysEmpty DEF Unfilled
<1>5. PICK k, list : k = PackageOrder[turn] /\ list = packageList
  OBVIOUS
<1>6. /\ turn \in 1..Len(PackageOrder) /\ turn \in Nat \ {0} /\ k \in Packages
      /\ list \in Seq(Packages) /\ IsInjective(list)
      /\ (\E i \in 1..Len(list) : list[i] \in DebugPackages) =>
            list # <<>> /\ list[1] \in DebugPackages
      /\ \A i \in 1..Len(PackageOrder) : i < turn => PackageOrder[i] \in Range(list)
  <2>1. /\ turn \in Nat \ {0} /\ list \in Seq(Packages) /\ IsInjective(list)
        /\ (\E i \in 1..Len(list) : list[i] \in DebugPackages) =>
            list # <<>> /\ list[1] \in DebugPackages
        /\ \A i \in 1..Len(PackageOrder) : i < turn => PackageOrder[i] \in Range(list)
    BY <1>1, <1>2, <1>5 DEF PackagesInv, Led
  <2>2. turn \in 1..Len(PackageOrder)
    BY <1>1, <2>1, TablesAssumption
  <2>3. k \in Packages
    BY <1>5, <2>2, TablesAssumption, ElementOfSeq
  <2> QED
    BY <2>1, <2>2, <2>3
<1>7. Len(list) \in Nat /\ DOMAIN list = 1..Len(list)
  BY <1>6, LenProperties
<1>8. PICK longer : longer = packageList'
  OBVIOUS
<1>9. /\ longer \in Seq(Packages) /\ IsInjective(longer)
      /\ (\E i \in 1..Len(longer) : longer[i] \in DebugPackages) =>
            longer # <<>> /\ longer[1] \in DebugPackages
      /\ Range(list) \cup {k} \subseteq Range(longer)
  <2>1. CASE k \in Range(list)
    <3>1. longer = list
      BY <1>5, <1>8, <2>1 DEF ListPackage
    <3> QED
      BY <1>6, <2>1, <3>1
  <2>2. CASE k \notin Range(list) /\ k \in DebugPackages
    <3>1. longer = <<k>> \o list
      BY <1>5, <1>8, <2>2 DEF ListPackage
    <3>2. <<k>> \in Seq(Packages) /\ Len(<<k>>) = 1 /\ <<k>>[1] = k
      BY <1>6
    <3>3. /\ longer \in Seq(Packages) /\ Len(longer) = 1 + Len(list)
          /\ \A i \in 1..1 + Len(list) : longer[i] = IF i <= 1 THEN <<k>>[i] ELSE list[i - 1]
      BY <1>6, <3>1, <3>2, ConcatProperties
    <3>4. /\ DOMAIN longer = 1..Len(list) + 1 /\ longer[1] = k /\ longer # <<>>
          /\ \A i \in 1..Len(list) : longer[i + 1] = list[i]
          /\ \A i \in 2..Len(list) + 1 : i - 1 \in 1..Len(list) /\ longer[i] = list[i - 1]
      <4>1. DOMAIN longer = 1..Len(longer) /\ Len(longer) # 0
        BY <1>7, <3>3, LenProperties
      <4>2. 1 \in 1..1 + Len(list) /\ longer # <<>>
        BY <1>7, <4>1, EmptySeq
      <4>3. longer[1] = k
        BY <3>2, <3>3, <4>2
      <4>4. \A i \in 1..Len(list) : i + 1 \in 1..1 + Len(list) /\ ~(i + 1 <= 1) /\ i + 1 - 1 = i
        BY <1>7
      <4>5. \A i \in 2..Len(list) + 1 : i - 1 \in 1..Len(list) /\ i \in 1..1 + Len(list) /\ ~(i <= 1)
        BY <1>7
      <4>6. 1..Len(longer) = 1..Len(list) + 1
        BY <1>7, <3>3
      <4> QED
        BY <3>3, <4>1, <4>2, <4>3, <4>4, <4>5, <4>6
    <3>5. IsInjective(longer)
      <4>1. \A i \in 2..Len(list) + 1 : longer[i] # k
        BY <1>7, <2>2, <3>4 DEF Range
      <4>2. ASSUME NEW i \in DOMAIN longer, NEW j \in DOMAIN longer, longer[i] = longer[j] PROVE i = j
        <5>1. \A n \in 1..Len(list) + 1 : n = 1 \/ n \in 2..Len(list) + 1
          BY <1>7
        <5>2. CASE i = 1 \/ j = 1
          BY <3>4, <4>1, <4>2, <5>1, <5>2
        <5>3. CASE i \in 2..Len(list) + 1 /\ j \in 2..Len(list) + 1
          <6>1. i - 1 \in DOMAIN list /\ j - 1 \in DOMAIN list /\ list[i - 1] = list[j - 1]
            BY <1>7, <3>4, <4>2, <5>3
          <6>2. i - 1 = j - 1
            BY <1>6, <6>1 DEF IsInjective
          <6> QED
            BY <5>3, <6>2
        <5> QED
          BY <3>4, <5>1, <5>2, <5>3
      <4> QED
        BY <4>2 DEF IsInjective
    <3>6. Range(list) \cup {k} \subseteq Range(longer)
      <4>1. k \in Range(longer)
        BY <1>7, <3>4 DEF Range
      <4>2. \A i \in 1..Len(list) : i + 1 \in 1..Len(list) + 1
        BY <1>7
      <4>3. Range(list) \subseteq Range(longer)
        BY <1>7, <3>4, <4>2 DEF Range
      <4> QED
        BY <4>1, <4>3
    <3> QED
      BY <2>2, <3>3, <3>4, <3>5, <3>6
  <2>3. CASE k \notin Range(list) /\ k \notin DebugPackages
    <3>1. longer = Append(list, k)
      BY <1>5, <1>8, <2>3 DEF ListPackage
    <3>2. /\ longer \in Seq(Packages) /\ Len(longer) = Len(list) + 1
          /\ \A i \in 1..Len(list) : longer[i] = list[i]
          /\ longer[Len(list) + 1] = k
      BY <1>6, <3>1, AppendProperties
    <3>3. /\ DOMAIN longer = 1..Len(list) + 1 /\ longer # <<>>
          /\ \A i \in 1..Len(list) + 1 : i \in 1..Len(list) \/ i = Len(list) + 1
          /\ Len(list) + 1 \in 1..Len(list) + 1 /\ 1..Len(list) \subseteq 1..Len(list) + 1
      <4>1. DOMAIN longer = 1..Len(longer) /\ Len(longer) # 0
        BY <1>7, <3>2, LenProperties
      <4> QED
        BY <1>7, <3>2, <4>1, EmptySeq
    <3>4. IsInjective(longer)
      <4>1. \A i \in 1..Len(list) : longer[i] # k
        BY <1>7, <2>3, <3>2 DEF Range
      <4> QED
        BY <1>6, <1>7, <3>2, <3>3, <4>1 DEF IsInjective
    <3>5. Range(list) \cup {k} \subseteq Range(longer)
      BY <1>7, <3>2, <3>3 DEF Range
    <3>6. ASSUME NEW i \in 1..Len(longer), longer[i] \in DebugPackages
          PROVE  longer[1] \in DebugPackages
      <4>1. i \in 1..Len(list) /\ list[i] \in DebugPackages
        BY <2>3, <3>2, <3>3, <3>6
      <4>2. list[1] \in DebugPackages
        BY <1>6, <4>1
      <4>3. 1 \in 1..Len(list)
        BY <1>7, <4>1
      <4> QED
        BY <3>2, <4>2, <4>3
    <3> QED
      BY <3>2, <3>3, <3>4, <3>5, <3>6
  <2> QED
    BY <2>1, <2>2, <2>3
<1>10. PackagesInv'
  <2>1. \A i \in 1..Len(PackageOrder) : i < turn + 1 => PackageOrder[i] \in Range(longer)
    <3>1. \A i \in 1..Len(PackageOrder) : i < turn + 1 => i < turn \/ i = turn
      BY <1>6, TablesAssumption
    <3> QED
      BY <1>5, <1>6, <1>9, <3>1
  <2>2. turn' \in Nat \ {0}
    BY <1>1, <1>6
  <2>3. ((\E i \in 1..Len(packageList) : packageList[i] \in DebugPackages) => Led)'
    BY <1>8, <1>9 DEF Led
  <2> QED
    BY <1>1, <1>8, <1>9, <2>1, <2>2, <2>3 DEF PackagesInv, Unfilled
<1> QED
  BY <1>1, <1>3, <1>4, <1>10 DEF SplitInv

LEMMA EndListKeeps ==
    ASSUME SplitInv, EndList
    PROVE  SplitInv'
<1>1. /\ splitStep = "list" /\ splitStep' = "populate" /\ turn > Len(PackageOrder) /\ turn' = 1
      /\ UNCHANGED <<installed, filesVar, pkgd, absent, fixed, packageList, content, seen, unshipped,
                     rdepends>>
  BY DEF EndList
<1>2. SplitTreeInv /\ CacheInv /\ PackagesInv /\ ShareInv
  BY DEF SplitInv
<1>3. SplitTreeInv' /\ CacheInv'
  BY <1>1, <1>2, KnownPkgdStays
<1>4. PackagesInv'
  <2>1. turn \in Nat /\ \A i \in 1..Len(PackageOrder) : i < turn => PackageOrder[i] \in Range(packageList)
    BY <1>1, <1>2 DEF PackagesInv
  <2>2. \A i \in 1..Len(PackageOrder) : i < turn
    BY <1>1, <2>1, TablesAssumption
  <2>3. DOMAIN PackageOrder = 1..Len(PackageOrder)
    BY TablesAssumption, LenProperties
  <2>4. Packages \subseteq Range(packageList)
    BY <2>1, <2>2, <2>3 DEF Packages, Range
  <2> QED
    BY <1>1, <1>2, <2>4 DEF PackagesInv, Led, Unfilled
<1>5. ShareInv'
  <2>1. content = [k \in Packages |-> {}] /\ seen = {}
    BY <1>1, <1>2 DEF ShareInv, Unfilled
  <2> QED
    BY <1>1, <2>1 DEF ShareInv, Unfilled
<1> QED
  BY <1>1, <1>3, <1>4, <1>5 DEF SplitInv

-----------------------------------------------------------------------------
(* A well-founded relation on the naturals has a least member of each set. *)
LEMMA LeastExists ==
  ASSUME NEW S \in SUBSET Nat, S # {}, NEW R, IsWellFoundedOn(R, Nat)
  PROVE  \E i \in S : \A j \in S : ~(<<j, i>> \in R)
  BY WFMin

(* Min finds the least number of a set.                                    *)
LEMMA LeastIsLess ==
  ASSUME NEW S \in SUBSET Nat, S # {}
  PROVE  Min(S) \in S /\ \A y \in S : Min(S) <= y
<1>1. PICK R : IsWellFoundedOn(R, Nat) /\ \A j, i \in Nat : j < i => <<j, i>> \in R
  BY NatLessThanWellFounded DEF OpToRel
<1>2. PICK i \in S : \A j \in S : ~(<<j, i>> \in R)
  BY <1>1, LeastExists
<1>3. \A j \in S : i <= j
  <2> SUFFICES ASSUME NEW j \in S PROVE i <= j
    OBVIOUS
  <2>1. ~(j < i) /\ i \in Nat /\ j \in Nat
    BY <1>1, <1>2
  <2> QED
    BY <2>1
<1> QED
  BY <1>3 DEF Min

-----------------------------------------------------------------------------
(* One package: what it takes, the rest of PACKAGES unchanged.             *)
Shipped(k) == {f \in FilesAndDebug(k) \ seen : f \in DOMAIN pkgd /\ f \notin absent}
Made(k) == (UNION {Above(f) : f \in Shipped(k)}) \cup {f \in Shipped(k) : pkgd[f].kind = "dir"}

LEMMA PopulateIs ==
    ASSUME SplitInv, PopulatePackage
    PROVE  LET k == packageList[turn] IN
           /\ splitStep = "populate" /\ turn \in 1..Len(packageList) /\ turn' = turn + 1
           /\ k \in Packages /\ content' = [content EXCEPT ![k] = Shipped(k) \cup Made(k)]
           /\ seen' = seen \cup Shipped(k) \cup Made(k) /\ splitStep' \in {"populate", "fatal"}
           /\ Shipped(k) \subseteq DOMAIN pkgd /\ Shipped(k) \cap seen = {}
           /\ \A p \in Made(k) : p \in DOMAIN pkgd /\ pkgd[p].kind = "dir"
           /\ content[k] = {}
<1>1. PICK k : k = packageList[turn]
  OBVIOUS
<1>2. SplitTreeInv /\ CacheInv /\ PackagesInv /\ ShareInv /\ splitStep = "populate"
  BY DEF SplitInv, PopulatePackage
<1>3. absent = {} /\ IsTree(pkgd)
  BY <1>2 DEF CacheInv, SplitTreeInv
<1>4. turn \in Nat \ {0} /\ turn <= Len(packageList) /\ packageList \in Seq(Packages) /\ IsInjective(packageList)
  BY <1>2 DEF PackagesInv, PopulatePackage
<1>5. DOMAIN packageList = 1..Len(packageList) /\ Len(packageList) \in Nat
  BY <1>4, LenProperties
<1>6. turn \in 1..Len(packageList) /\ k \in Packages
  BY <1>1, <1>4, <1>5, ElementOfSeq
<1>7. /\ turn' = turn + 1 /\ content' = [content EXCEPT ![k] = Shipped(k) \cup Made(k)]
      /\ seen' = seen \cup (Shipped(k) \cup Made(k))
      /\ Made(k) \cap absent = {} => splitStep' \in {"populate", "fatal"}
  BY <1>1 DEF PopulatePackage, Shipped, Made
<1>8. Shipped(k) \subseteq DOMAIN pkgd /\ Shipped(k) \cap seen = {}
  BY DEF Shipped
<1>9. \A p \in Made(k) : p \in DOMAIN pkgd /\ pkgd[p].kind = "dir"
  BY <1>3, <1>8 DEF Made, IsTree, Kind
<1>10. content[k] = {}
  <2> SUFFICES ASSUME content[k] # {} PROVE FALSE
    OBVIOUS
  <2>1. PICK i \in 1..Len(packageList) : i < turn /\ packageList[i] = k
    BY <1>2, <1>6 DEF ShareInv
  <2>2. i = turn
    BY <1>1, <1>4, <1>5, <1>6, <2>1 DEF IsInjective
  <2> QED
    BY <1>4, <2>1, <2>2
<1> QED
  BY <1>1, <1>2, <1>3, <1>6, <1>7, <1>8, <1>9, <1>10

LEMMA PopulateKeeps ==
    ASSUME SplitInv, PopulatePackage
    PROVE  SplitInv'
<1>1. PICK k : k = packageList[turn]
  OBVIOUS
<1>2. PICK root : root = Shipped(k) \cup Made(k)
  OBVIOUS
<1>3. /\ splitStep = "populate" /\ turn \in 1..Len(packageList) /\ turn' = turn + 1
      /\ k \in Packages /\ content' = [content EXCEPT ![k] = root]
      /\ seen' = seen \cup root /\ splitStep' \in {"populate", "fatal"}
      /\ Shipped(k) \subseteq DOMAIN pkgd /\ Shipped(k) \cap seen = {}
      /\ \A p \in Made(k) : p \in DOMAIN pkgd /\ pkgd[p].kind = "dir"
      /\ content[k] = {}
  BY <1>1, <1>2, PopulateIs
<1>4. SplitTreeInv /\ CacheInv /\ PackagesInv /\ ShareInv
  BY DEF SplitInv
<1>5. UNCHANGED <<installed, filesVar, pkgd, absent, fixed, packageList, unshipped, rdepends>>
  BY DEF PopulatePackage
<1>6. SplitTreeInv' /\ CacheInv'
  BY <1>3, <1>4, <1>5, KnownPkgdStays
<1>7. /\ packageList \in Seq(Packages) /\ IsInjective(packageList) /\ turn \in Nat \ {0}
      /\ DOMAIN packageList = 1..Len(packageList) /\ Len(packageList) \in Nat
  BY <1>4, LenProperties DEF PackagesInv
<1>8. PackagesInv'
  BY <1>3, <1>4, <1>5, <1>7 DEF PackagesInv, Led, Unfilled
<1>9. /\ content \in [Packages -> SUBSET DOMAIN pkgd]
      /\ seen = UNION {content[m] : m \in Packages}
      /\ \A m, n \in Packages : \A p \in content[m] \cap content[n] : m = n \/ pkgd[p].kind = "dir"
      /\ \A m \in Packages : content[m] # {} => \E i \in 1..Len(packageList) : i < turn /\ packageList[i] = m
      /\ turn > 1 => (Led => \A p \in DOMAIN pkgd : pkgd[p].kind = "debug" => p \in content[packageList[1]])
  BY <1>3, <1>4 DEF ShareInv
<1>10. root \in SUBSET DOMAIN pkgd
  BY <1>2, <1>3
<1>11. /\ content' \in [Packages -> SUBSET DOMAIN pkgd] /\ content'[k] = root
       /\ \A m \in Packages : m # k => content'[m] = content[m]
  BY <1>3, <1>9, <1>10
<1>12. seen' = UNION {content'[m] : m \in Packages}
  <2>1. seen' = seen \cup root
    BY <1>3
  <2>2. ASSUME NEW p \in seen PROVE p \in UNION {content'[m] : m \in Packages}
    <3>1. PICK m \in Packages : p \in content[m]
      BY <1>9
    <3> QED
      BY <1>3, <1>11, <3>1
  <2>3. ASSUME NEW m \in Packages PROVE content'[m] \subseteq seen \cup root
    BY <1>9, <1>11
  <2> QED
    BY <1>3, <1>11, <2>1, <2>2, <2>3
<1>13. ASSUME NEW m \in Packages, NEW p \in root, p \in content[m] PROVE pkgd[p].kind = "dir"
  <2>1. p \in seen
    BY <1>9, <1>13
  <2> QED
    BY <1>2, <1>3, <2>1
<1>14. \A m, n \in Packages : \A p \in content'[m] \cap content'[n] : m = n \/ pkgd[p].kind = "dir"
  <2> SUFFICES ASSUME NEW m \in Packages, NEW n \in Packages, NEW p \in content'[m] \cap content'[n], m # n
               PROVE  pkgd[p].kind = "dir"
    OBVIOUS
  <2>1. CASE m = k
    BY <1>11, <1>13, <2>1
  <2>2. CASE n = k
    BY <1>11, <1>13, <2>2
  <2>3. CASE m # k /\ n # k
    BY <1>9, <1>11, <2>3
  <2> QED
    BY <2>1, <2>2, <2>3
<1>15. ASSUME NEW m \in Packages, content'[m] # {}
       PROVE  \E i \in 1..Len(packageList) : i < turn + 1 /\ packageList[i] = m
  <2>1. CASE m = k
    <3>1. turn < turn + 1
      BY <1>7
    <3> QED
      BY <1>1, <1>3, <2>1, <3>1
  <2>2. CASE m # k
    <3>1. PICK i \in 1..Len(packageList) : i < turn /\ packageList[i] = m
      BY <1>9, <1>11, <1>15, <2>2
    <3>2. i < turn + 1
      BY <1>7, <3>1
    <3> QED
      BY <3>1, <3>2
  <2> QED
    BY <2>1, <2>2
<1>16. ASSUME Led, NEW p \in DOMAIN pkgd, pkgd[p].kind = "debug" PROVE p \in content'[packageList[1]]
  <2>1. 1 \in DOMAIN packageList /\ packageList[1] \in Packages /\ packageList[1] \in DebugPackages
    <3>1. 1 \in 1..Len(packageList)
      BY <1>3, <1>7
    <3> QED
      BY <1>7, <1>16, <3>1, ElementOfSeq DEF Led
  <2>2. CASE turn = 1
    <3>1. seen = {}
      <4>1. \A i \in 1..Len(packageList) : ~(i < 1)
        BY <1>7
      <4>2. \A m \in Packages : content[m] = {}
        BY <1>9, <2>2, <4>1
      <4> QED
        BY <1>9, <4>2
    <3>2. k = packageList[1]
      BY <1>1, <2>2
    <3>3. Debugging(p)
      BY <1>4, <1>16 DEF SplitTreeInv, Entries
    <3>4. absent = {}
      BY <1>3, <1>4 DEF CacheInv
    <3>5. p \in Shipped(k)
      BY <2>1, <3>1, <3>2, <3>3, <3>4 DEF Shipped, FilesAndDebug
    <3> QED
      BY <1>2, <1>11, <3>2, <3>5
  <2>3. CASE turn # 1
    <3>1. turn > 1
      BY <1>7, <2>3
    <3>2. p \in content[packageList[1]]
      BY <1>9, <1>16, <3>1
    <3>3. packageList[1] # k
      BY <1>1, <1>3, <1>7, <2>1, <2>3 DEF IsInjective
    <3> QED
      BY <1>11, <2>1, <3>2, <3>3
  <2> QED
    BY <2>2, <2>3
<1>17. ShareInv'
  <2>1. (splitStep = "populate" => \A m \in Packages :
           content[m] # {} => \E i \in 1..Len(packageList) : i < turn /\ packageList[i] = m)'
    BY <1>3, <1>5, <1>15
  <2>2. (Led => \A p \in DOMAIN pkgd : pkgd[p].kind = "debug" => p \in content[packageList[1]])'
    BY <1>5, <1>16 DEF Led
  <2>3. (\A m, n \in Packages : \A p \in content[m] \cap content[n] : m = n \/ pkgd[p].kind = "dir")'
    BY <1>5, <1>14
  <2>4. (content \in [Packages -> SUBSET DOMAIN pkgd])' /\ (seen = UNION {content[m] : m \in Packages})'
    BY <1>5, <1>11, <1>12
  <2>5. ~Unfilled'
    BY <1>3 DEF Unfilled
  <2> QED
    BY <2>1, <2>2, <2>3, <2>4, <2>5 DEF ShareInv
<1> QED
  BY <1>3, <1>6, <1>8, <1>17 DEF SplitInv

LEMMA ReportKeeps ==
    ASSUME SplitInv, ReportUnshipped
    PROVE  SplitInv'
<1>1. /\ splitStep = "populate" /\ turn > Len(packageList) /\ splitStep' = "fixsymlinks"
      /\ unshipped' = {p \in DOMAIN pkgd \ seen : Above(p) \cap absent = {}}
      /\ UNCHANGED <<installed, filesVar, pkgd, absent, fixed, packageList, content, seen, rdepends, turn>>
  BY DEF ReportUnshipped
<1>2. SplitTreeInv /\ CacheInv /\ PackagesInv /\ ShareInv /\ absent = {}
  BY <1>1 DEF SplitInv, CacheInv
<1>3. SplitTreeInv' /\ CacheInv'
  BY <1>1, <1>2, KnownPkgdStays
<1>4. PackagesInv'
  BY <1>1, <1>2 DEF PackagesInv, Led, Unfilled
<1>5. Led => turn > 1
  <2>1. packageList \in Seq(Packages) /\ turn \in Nat
    BY <1>2 DEF PackagesInv
  <2>2. packageList # <<>> => Len(packageList) \in Nat \ {0}
    BY <2>1, LenProperties, EmptySeq
  <2> QED
    BY <1>1, <2>1, <2>2 DEF Led
<1>6. ShareInv'
  BY <1>1, <1>2, <1>5 DEF ShareInv, Led, Unfilled
<1>7. unshipped' = DOMAIN pkgd \ seen
  BY <1>1, <1>2
<1> QED
  BY <1>1, <1>3, <1>4, <1>6, <1>7 DEF SplitInv

LEMMA FixSymlinksKeeps ==
    ASSUME SplitInv, FixSymlinks
    PROVE  SplitInv'
<1>1. /\ splitStep = "fixsymlinks" /\ splitStep' = "done"
      /\ UNCHANGED <<installed, filesVar, pkgd, absent, fixed, packageList, content, seen, unshipped, turn>>
      /\ rdepends' = [k \in Packages |->
           {packageList[Min(Providers(t))] : t \in {u \in DanglingLinks(k) : Providers(u) # {}}}]
  BY DEF FixSymlinks
<1>2. SplitTreeInv /\ CacheInv /\ PackagesInv /\ ShareInv
  BY DEF SplitInv
<1>3. SplitTreeInv' /\ CacheInv'
  BY <1>1, <1>2, KnownPkgdStays
<1>4. PackagesInv' /\ ShareInv'
  BY <1>1, <1>2 DEF PackagesInv, ShareInv, Led, Unfilled
<1>5. ASSUME NEW k \in Packages, NEW l \in content[k], pkgd[l].kind = "link",
             NEW m \in Packages, pkgd[l].of \in PkgFiles(m)
      PROVE  \E n \in rdepends'[k] \cup {k} : pkgd[l].of \in content[n]
  <2>1. PICK t : t = pkgd[l].of
    OBVIOUS
  <2>2. CASE t \in content[k]
    BY <2>1, <2>2
  <2>3. CASE t \notin content[k]
    <3>1. l \in PkgFiles(k)
      BY <1>5, <2>1, <2>3 DEF PkgFiles
    <3>2. t \in DanglingLinks(k)
      BY <1>5, <2>1, <2>3, <3>1 DEF DanglingLinks
    <3>3. /\ Packages \subseteq Range(packageList)
          /\ DOMAIN packageList = 1..Len(packageList) /\ Len(packageList) \in Nat
      BY <1>1, <1>2, LenProperties DEF PackagesInv, Unfilled
    <3>4. PICK i \in 1..Len(packageList) : packageList[i] = m
      BY <3>3 DEF Range
    <3>5. Providers(t) \in SUBSET Nat /\ Providers(t) # {}
      <4>1. i \in Providers(t)
        BY <1>5, <2>1, <3>4 DEF Providers
      <4>2. Providers(t) \subseteq 1..Len(packageList)
        BY DEF Providers
      <4>3. 1..Len(packageList) \subseteq Nat
        BY <3>3
      <4> QED
        BY <4>1, <4>2, <4>3
    <3>6. PICK j : j = Min(Providers(t))
      OBVIOUS
    <3>7. j \in Providers(t)
      BY <3>5, <3>6, LeastIsLess
    <3>8. t \in content[packageList[j]]
      BY <3>7 DEF Providers, PkgFiles
    <3>9. packageList[j] \in rdepends'[k]
      BY <1>1, <3>2, <3>5, <3>6
    <3> QED
      BY <2>1, <3>8, <3>9
  <2> QED
    BY <2>2, <2>3
<1>6. LinksFollowed'
  <2>1. \A k \in Packages : PkgFiles(k)' = PkgFiles(k)
    BY <1>1 DEF PkgFiles, Kind
  <2> QED
    BY <1>1, <1>5, <2>1 DEF LinksFollowed
<1> QED
  BY <1>1, <1>3, <1>4, <1>6 DEF SplitInv

LEMMA SplitStays ==
    ASSUME SplitInv, UNCHANGED splitVars
    PROVE  SplitInv'
<1>1. UNCHANGED <<installed, filesVar, pkgd, absent, fixed, packageList, content, seen, unshipped,
                  rdepends, turn, splitStep>>
  BY DEF splitVars
<1>2. SplitTreeInv' /\ CacheInv'
  BY <1>1 DEF SplitInv, SplitTreeInv, CacheInv, ModesFixed, ByDangling, ByDebugSrc, Dangling, Kind
<1>3. PackagesInv' /\ ShareInv'
  BY <1>1 DEF SplitInv, PackagesInv, ShareInv, Led, Unfilled
<1>4. (splitStep = "done" => LinksFollowed)'
  BY <1>1 DEF SplitInv, LinksFollowed, PkgFiles, Kind
<1> QED
  BY <1>1, <1>2, <1>3, <1>4 DEF SplitInv

LEMMA SplitDone ==
    SplitInv => SplitExact
<1> SUFFICES ASSUME SplitInv, splitStep = "done" PROVE FilesOnce /\ ModesFixed /\ LinksFollowed
  BY DEF SplitExact, SplitInv
<1>1. SplitTreeInv /\ CacheInv /\ PackagesInv /\ ShareInv /\ unshipped = DOMAIN pkgd \ seen /\ LinksFollowed
  BY DEF SplitInv
<1>2. ModesFixed
  BY <1>1 DEF CacheInv
<1>3. ASSUME NEW p \in DOMAIN pkgd
      PROVE  LET takers == {k \in Packages : p \in content[k]} IN
             /\ (p \in unshipped) <=> (takers = {})
             /\ pkgd[p].kind # "dir" => Cardinality(takers) <= 1
             /\ pkgd[p].kind = "debug" /\ Packages \cap DebugPackages # {} => takers = {packageList[1]}
  <2>1. PICK takers : takers = {k \in Packages : p \in content[k]}
    OBVIOUS
  <2>2. seen = UNION {content[k] : k \in Packages}
    BY <1>1 DEF ShareInv
  <2>3. (p \in unshipped) <=> (takers = {})
    BY <1>1, <2>1, <2>2
  <2>4. pkgd[p].kind # "dir" => \A k, m \in takers : k = m
    BY <1>1, <2>1 DEF ShareInv
  <2>5. pkgd[p].kind # "dir" => Cardinality(takers) <= 1
    <3>1. CASE takers = {}
      <4>1. Cardinality(takers) = 0
        BY <3>1, FS_EmptySet
      <4> QED
        BY <4>1
    <3>2. CASE takers # {} /\ pkgd[p].kind # "dir"
      <4>1. PICK k : k \in takers
        BY <3>2
      <4>2. takers = {k}
        BY <2>4, <3>2, <4>1
      <4>3. Cardinality(takers) = 1
        BY <4>2, FS_Singleton
      <4> QED
        BY <4>3
    <3> QED
      BY <3>1, <3>2
  <2>6. ASSUME pkgd[p].kind = "debug", Packages \cap DebugPackages # {} PROVE takers = {packageList[1]}
    <3>1. /\ Packages \subseteq Range(packageList) /\ packageList \in Seq(Packages)
          /\ (\E i \in 1..Len(packageList) : packageList[i] \in DebugPackages) => Led
      BY <1>1 DEF PackagesInv, Unfilled
    <3>2. DOMAIN packageList = 1..Len(packageList) /\ Len(packageList) \in Nat
      BY <3>1, LenProperties
    <3>3. PICK i \in 1..Len(packageList) : packageList[i] \in DebugPackages
      BY <2>6, <3>1, <3>2 DEF Range
    <3>4. Led
      BY <3>1, <3>3
    <3>5. p \in content[packageList[1]]
      BY <1>1, <2>6, <3>4 DEF ShareInv
    <3>6. packageList[1] \in Packages
      <4>1. 1 \in 1..Len(packageList)
        BY <3>2, <3>3
      <4> QED
        BY <3>1, <3>2, <4>1, ElementOfSeq
    <3>7. packageList[1] \in takers
      BY <2>1, <3>5, <3>6
    <3> QED
      BY <2>4, <2>6, <3>7
  <2> QED
    BY <2>1, <2>3, <2>5, <2>6
<1>4. FilesOnce
  BY <1>3 DEF FilesOnce
<1> QED
  BY <1>1, <1>2, <1>4

(* Whatever D holds and FILES say, do_package never stops for what its     *)
(* cache knows, and when it ends each file is in one package, has its mode *)
(* and is where the links to it lead (package.bbclass: fixup_perms,        *)
(* populate_packages, package_fixsymlinks; lib/oe/cachedpath.py).          *)
THEOREM SplitExactHolds == SplitSpec => []SplitExact
<1>1. SplitInit => SplitInv
  BY SplitStart
<1>2. SplitInv /\ [SplitNext]_splitVars => SplitInv'
  BY StripKeeps, SourcesKeep, LinkKeeps, FixKeeps, ListKeeps, EndListKeeps, PopulateKeeps,
     ReportKeeps, FixSymlinksKeeps, SplitStays DEF SplitNext
<1>3. SplitInv => SplitExact
  BY SplitDone
<1> QED
  BY <1>1, <1>2, <1>3, PTL DEF SplitSpec

-----------------------------------------------------------------------------
(* Of a path that is not there, some first part is missing and nothing     *)
(* above it is.                                                            *)
LEMMA FirstMissingIs ==
    ASSUME NEW t, NEW p \in Paths, p \notin DOMAIN t
    PROVE  FirstMissing(t, p) # <<>>
<1>1. PICK S : S = {n \in 1..Len(p) : SubSeq(p, 1, n) \notin DOMAIN t}
  OBVIOUS
<1>2. Len(p) \in Nat \ {0} /\ SubSeq(p, 1, Len(p)) = p
  BY PathIs, SubSeqFull
<1>3. S \in SUBSET Nat /\ S # {}
  <2>1. Len(p) \in 1..Len(p) /\ 1..Len(p) \subseteq Nat
    BY <1>2
  <2>2. Len(p) \in S
    BY <1>1, <1>2, <2>1
  <2> QED
    BY <1>1, <2>1, <2>2
<1>4. PICK n : n = Min(S)
  OBVIOUS
<1>5. n \in S /\ \A m \in S : n <= m
  BY <1>3, <1>4, LeastIsLess
<1>6. n \in 1..Len(p) /\ SubSeq(p, 1, n) \notin DOMAIN t
  BY <1>1, <1>5
<1>7. /\ SubSeq(p, 1, n) \in Paths /\ Len(SubSeq(p, 1, n)) = n
      /\ \A i \in 1..n : SubSeq(p, 1, n)[i] = p[i]
  BY <1>6, FirstNames
<1>8. PICK q \in Paths : q = SubSeq(p, 1, n) /\ Len(q) = n /\ \A i \in 1..n : q[i] = p[i]
  BY <1>7
<1>9. ASSUME NEW a \in Above(q) PROVE a \in DOMAIN t
  <2>1. a \in Paths /\ Len(a) < n /\ \A i \in 1..Len(a) : a[i] = q[i]
    BY <1>8, AboveIs DEF Leads
  <2>2. Len(a) \in Nat \ {0}
    BY <2>1, PathIs
  <2>3. Len(a) \in 1..Len(p) /\ \A i \in 1..Len(a) : a[i] = p[i]
    BY <1>2, <1>6, <1>8, <2>1, <2>2
  <2>4. /\ SubSeq(p, 1, Len(a)) \in Paths /\ Len(SubSeq(p, 1, Len(a))) = Len(a)
        /\ \A i \in 1..Len(a) : SubSeq(p, 1, Len(a))[i] = p[i]
    BY <2>3, FirstNames
  <2>5. a = SubSeq(p, 1, Len(a))
    BY <2>1, <2>3, <2>4, PathsEqual
  <2>6. Len(a) \notin S
    BY <1>5, <1>6, <2>1, <2>2
  <2> QED
    BY <1>1, <2>3, <2>5, <2>6
<1>10. q \in Prefixes(p) \ {<<>>}
  <2>1. n \in 0..Len(p)
    BY <1>2, <1>6
  <2> QED
    BY <1>8, <2>1 DEF Prefixes, Paths
<1>11. \E r \in Prefixes(p) \ {<<>>} : r \notin DOMAIN t /\ Above(r) \subseteq DOMAIN t
  BY <1>6, <1>8, <1>9, <1>10
<1> QED
  BY <1>11 DEF FirstMissing

(* What the other invariants leave open of the types.                      *)
SplitRestInv ==
    /\ <<>> \notin absent /\ fixed \subseteq DOMAIN pkgd /\ unshipped \subseteq DOMAIN pkgd
    /\ rdepends \in [Packages -> SUBSET Packages]
    /\ splitStep \in {"split", "sources", "links"} => fixed = {}
    /\ splitStep \in {"split", "sources", "links", "list", "populate"} => unshipped = {}

LEMMA ProvidersArePackages ==
    ASSUME PackagesInv, NEW t, Providers(t) # {}
    PROVE  packageList[Min(Providers(t))] \in Packages
<1>1. packageList \in Seq(Packages) /\ Len(packageList) \in Nat
  BY LenProperties DEF PackagesInv
<1>2. Providers(t) \subseteq 1..Len(packageList)
  BY DEF Providers
<1>3. 1..Len(packageList) \subseteq Nat
  BY <1>1
<1>4. PICK i : i = Min(Providers(t))
  OBVIOUS
<1>5. i \in Providers(t)
  BY <1>2, <1>3, <1>4, LeastIsLess
<1>6. packageList[i] \in Packages
  BY <1>1, <1>2, <1>5, ElementOfSeq
<1> QED
  BY <1>4, <1>6

LEMMA SplitRestStep ==
    ASSUME SplitInv, SplitRestInv, [SplitNext]_splitVars
    PROVE  SplitRestInv'
<1>1. SplitTreeInv /\ CacheInv /\ PackagesInv
  BY DEF SplitInv
<1>2. /\ <<>> \notin absent /\ fixed \subseteq DOMAIN pkgd /\ unshipped \subseteq DOMAIN pkgd
      /\ rdepends \in [Packages -> SUBSET Packages]
      /\ splitStep \in {"split", "sources", "links"} => fixed = {}
      /\ splitStep \in {"split", "sources", "links", "list", "populate"} => unshipped = {}
  BY DEF SplitRestInv
<1>3. CASE SplitAndStrip
  <2>1. /\ splitStep = "split" /\ splitStep' = "sources"
        /\ UNCHANGED <<fixed, unshipped, rdepends>>
        /\ absent' = {FirstMissing(pkgd, pkgd[l].of) : l \in Dangling(pkgd)}
    BY <1>3 DEF SplitAndStrip
  <2>2. pkgd \in DTrees
    BY <1>1, <2>1 DEF SplitTreeInv
  <2>3. ASSUME NEW l \in Dangling(pkgd) PROVE FirstMissing(pkgd, pkgd[l].of) # <<>>
    <3>1. l \in DOMAIN pkgd /\ pkgd[l].kind = "link" /\ pkgd[l].of \notin DOMAIN pkgd
      BY DEF Dangling
    <3>2. pkgd[l].of \in Paths
      BY <2>2, <3>1, TreesAssumption DEF IsPath, Paths
    <3>3. PICK o : o = pkgd[l].of
      OBVIOUS
    <3>4. FirstMissing(pkgd, o) # <<>>
      BY <3>1, <3>2, <3>3, FirstMissingIs
    <3> QED
      BY <3>3, <3>4
  <2>4. <<>> \notin absent'
    BY <2>1, <2>3
  <2> QED
    BY <1>2, <2>1, <2>4 DEF SplitRestInv
<1>4. CASE CopyDebugSources
  <2>1. /\ splitStep = "sources" /\ splitStep' = "links" /\ UNCHANGED <<fixed, unshipped, rdepends>>
    BY <1>4 DEF CopyDebugSources
  <2>2. absent' \subseteq absent \cup Above(DebugSrc) \cup {DebugSrc}
    BY <1>4 DEF CopyDebugSources, KnownAfterSources
  <2>3. <<>> \notin Above(DebugSrc) /\ DebugSrc # <<>>
    BY TablesAssumption DEF Above, IsPath
  <2> QED
    BY <1>2, <2>1, <2>2, <2>3 DEF SplitRestInv
<1>5. CASE LinkDirectory
  <2>1. /\ splitStep = "links" /\ splitStep' = "links" /\ turn <= Len(LinkTable)
        /\ UNCHANGED <<fixed, unshipped, rdepends>>
        /\ absent' \subseteq absent \cup {LinkTable[turn][1]}
    BY <1>5 DEF LinkDirectory
  <2>2. turn \in 1..Len(LinkTable)
    BY <1>1, <2>1, TablesAssumption DEF PackagesInv
  <2>3. LinkTable[turn][1] # <<>>
    BY <2>2, TablesAssumption DEF Origins, IsPath
  <2> QED
    BY <1>2, <2>1, <2>3 DEF SplitRestInv
<1>6. CASE FixDirectories
  <2>1. /\ splitStep = "links" /\ splitStep' = "list" /\ absent' = {} /\ pkgd' = pkgd
        /\ UNCHANGED <<unshipped, rdepends>>
    BY <1>6 DEF FixDirectories, NewCache
  <2>2. fixed' \subseteq DOMAIN pkgd
    <3>1. \A d : Kind(pkgd, d) = "dir" => d \in DOMAIN pkgd
      BY DEF Kind
    <3>2. \A d : Below(pkgd, d) \subseteq DOMAIN pkgd
      BY DEF Below
    <3> QED
      BY <1>6, <3>1, <3>2 DEF FixDirectories
  <2> QED
    BY <1>2, <2>1, <2>2 DEF SplitRestInv
<1>7. CASE ListPackage \/ EndList \/ PopulatePackage
  <2>1. /\ splitStep \in {"list", "populate"}
        /\ splitStep' \in {"list", "populate", "raised", "fatal"}
        /\ UNCHANGED <<pkgd, absent, fixed, unshipped, rdepends>>
    BY <1>7 DEF ListPackage, EndList, PopulatePackage
  <2> QED
    BY <1>2, <2>1 DEF SplitRestInv
<1>8. CASE ReportUnshipped
  <2>1. /\ splitStep' = "fixsymlinks" /\ UNCHANGED <<pkgd, absent, fixed, rdepends>>
        /\ unshipped' \subseteq DOMAIN pkgd
    BY <1>8 DEF ReportUnshipped
  <2> QED
    BY <1>2, <2>1 DEF SplitRestInv
<1>9. CASE FixSymlinks
  <2>1. /\ splitStep' = "done" /\ UNCHANGED <<pkgd, absent, fixed, unshipped>>
        /\ rdepends' = [k \in Packages |->
             {packageList[Min(Providers(t))] : t \in {u \in DanglingLinks(k) : Providers(u) # {}}}]
    BY <1>9 DEF FixSymlinks
  <2>2. \A t : Providers(t) # {} => packageList[Min(Providers(t))] \in Packages
    BY <1>1, ProvidersArePackages
  <2>3. rdepends' \in [Packages -> SUBSET Packages]
    BY <2>1, <2>2
  <2> QED
    BY <1>2, <2>1, <2>3 DEF SplitRestInv
<1>10. CASE UNCHANGED splitVars
  <2>1. UNCHANGED <<pkgd, absent, fixed, unshipped, rdepends, splitStep>>
    BY <1>10 DEF splitVars
  <2> QED
    BY <1>2, <2>1 DEF SplitRestInv
<1> QED
  BY <1>3, <1>4, <1>5, <1>6, <1>7, <1>8, <1>9, <1>10 DEF SplitNext

(* The state of do_package is what PackageSplit says, whatever D holds:    *)
(* what it ships, reports, and gives a mode to are paths of PKGD.          *)
THEOREM SplitTypeHolds == SplitSpec => []SplitTypeOK
<1>1. SplitInit => SplitInv /\ SplitRestInv
  <2>1. SplitInit => SplitRestInv
    BY DEF SplitInit, SplitRestInv
  <2> QED
    BY <2>1, SplitStart
<1>2. SplitInv /\ [SplitNext]_splitVars => SplitInv'
  BY StripKeeps, SourcesKeep, LinkKeeps, FixKeeps, ListKeeps, EndListKeeps, PopulateKeeps,
     ReportKeeps, FixSymlinksKeeps, SplitStays DEF SplitNext
<1>3. SplitInv /\ SplitRestInv /\ [SplitNext]_splitVars => SplitRestInv'
  BY SplitRestStep
<1>4. SplitInv /\ SplitRestInv => SplitTypeOK
  <2> SUFFICES ASSUME SplitInv, SplitRestInv PROVE SplitTypeOK
    OBVIOUS
  <2>1. SplitTreeInv /\ PackagesInv /\ ShareInv
    BY DEF SplitInv
  <2>2. \A p \in DOMAIN pkgd : pkgd[p].kind \in {"dir", "file", "elf", "debug", "link"}
    BY <2>1 DEF SplitTreeInv, Entries
  <2>3. content \in [Packages -> SUBSET DOMAIN pkgd] /\ seen \subseteq DOMAIN pkgd
    BY <2>1 DEF ShareInv
  <2>4. packageList \in Seq(Packages) /\ IsInjective(packageList) /\ turn \in Nat \ {0}
    BY <2>1 DEF PackagesInv
  <2>5. splitStep \in {"split", "sources", "links", "list", "populate", "fixsymlinks", "done", "fatal"}
    BY DEF SplitInv
  <2> QED
    BY <2>2, <2>3, <2>4, <2>5 DEF SplitRestInv, SplitTypeOK
<1> QED
  BY <1>1, <1>2, <1>3, <1>4, PTL DEF SplitSpec
=============================================================================
