-------------------------- MODULE SstateCacheProofs --------------------------
(* What holds of SstateCache for any builders, hashes and mirror, and any  *)
(* number of builds, kills and runs of the script.                         *)
EXTENDS SstateCache, SequenceTheorems, WellFoundedInduction, TLAPS

BuilderTypeOK ==
  /\ pkg \in [Hashes -> Content] /\ output \in [Builders -> Content]
  /\ pc \in [Builders -> Steps] /\ stamp \in [Builders -> Hashes \cup {None}]
  /\ want \in [Builders -> Hashes \cup {None}]
  /\ \A b \in Builders : pc[b] # "idle" => want[b] \in Hashes

(* A builder drops its stamp when it begins to change what is in WORKDIR,  *)
(* and has the whole output before it goes on to its new stamp.            *)
WholeInv == \A b \in Builders :
  /\ pc[b] \in {"unpack", "writable", "touch", "run", "create", "rename", "stamp"} => stamp[b] = None
  /\ pc[b] \in {"writable", "touch", "create", "rename", "stamp"} => output[b] = "whole"

BuilderInv == BuilderTypeOK /\ WholeInv /\ StampedWhole

LEMMA BuilderInit == Init => BuilderInv
  BY DEF Init, BuilderInv, BuilderTypeOK, WholeInv, StampedWhole, Content, Steps

LEMMA BuilderStep == BuilderInv /\ [Next]_vars => BuilderInv'
<1> SUFFICES ASSUME BuilderInv, [Next]_vars PROVE BuilderInv'
  OBVIOUS
<1>. USE DEF cache, builder, manager, count, BuilderTypeOK, WholeInv, StampedWhole, Content, Steps
<1>0. BuilderTypeOK /\ WholeInv /\ StampedWhole
  BY DEF BuilderInv
<1>1. CASE UNCHANGED vars
  BY <1>0, <1>1 DEF vars, BuilderInv
<1>2. CASE Script
  <2>1. CASE \E f \in Hashes \cup Temps : Remove(f)
    BY <1>0, <2>1 DEF Remove, BuilderInv
  <2>2. CASE Find("dup_pick") \/ Find("stamps_pick") \/ PickDuplicates \/ PickUnused \/ Finish
    <3>1. UNCHANGED builder
      BY <2>2 DEF Find, PickDuplicates, PickUnused, Finish
    <3>2. UNCHANGED cache
      BY <2>2 DEF Find, PickDuplicates, PickUnused, Finish
    <3> QED
      BY <1>0, <3>1, <3>2 DEF BuilderInv
  <2> QED
    BY <1>2, <2>1, <2>2 DEF Script
<1>3. ASSUME NEW b \in Builders, Build(b) \/ Kill(b) PROVE BuilderInv'
  <2>1. CASE Build(b)
    BY <1>0, <2>1 DEF Build, Goto, BuilderInv
  <2>2. CASE Kill(b)
    BY <1>0, <2>2 DEF Kill, BuilderInv
  <2> QED
    BY <1>3, <2>1, <2>2
<1>4. ASSUME NEW b \in Builders, Step(b) PROVE BuilderInv'
  <2>1. CASE Lookup(b) \/ Fetch(b) \/ Download(b)
    <3>1. CASE Lookup(b)
      BY <1>0, <3>1 DEF Lookup, Goto, BuilderInv
    <3>2. CASE Fetch(b)
      BY <1>0, <3>2 DEF Fetch, Goto, Put, BuilderInv
    <3>3. CASE Download(b)
      BY <1>0, <3>3 DEF Download, Goto, Put, BuilderInv
    <3> QED
      BY <2>1, <3>1, <3>2, <3>3
  <2>2. CASE IsFile(b)
    BY <1>0, <2>2 DEF IsFile, Goto, Stamp, BuilderInv
  <2>3. CASE Unpack(b)
    BY <1>0, <2>3 DEF Unpack, Goto, BuilderInv
  <2>4. CASE Writable(b) \/ Touch(b) \/ Run(b)
    <3>1. CASE Writable(b)
      BY <1>0, <3>1 DEF Writable, Goto, BuilderInv
    <3>2. CASE Touch(b)
      BY <1>0, <3>2 DEF Touch, Goto, BuilderInv
    <3>3. CASE Run(b)
      BY <1>0, <3>3 DEF Run, Goto, BuilderInv
    <3> QED
      BY <2>4, <3>1, <3>2, <3>3
  <2>5. CASE Create(b) \/ Rename(b)
    <3>1. CASE Create(b)
      BY <1>0, <3>1 DEF Create, Goto, BuilderInv
    <3>2. CASE Rename(b)
      BY <1>0, <3>2 DEF Rename, Goto, Put, BuilderInv
    <3> QED
      BY <2>5, <3>1, <3>2
  <2>6. CASE MakeStamp(b)
    BY <1>0, <2>6 DEF MakeStamp, Goto, Stamp, BuilderInv
  <2> QED
    BY <1>4, <2>1, <2>2, <2>3, <2>4, <2>5, <2>6 DEF Step
<1> QED
  BY <1>1, <1>2, <1>3, <1>4 DEF Next

(* A builder has a stamp only with the whole output, whatever is put at    *)
(* the names of the packages or removed meanwhile (sstate.bbclass:693-707, *)
(* 725-731).                                                               *)
THEOREM StampedWholeHolds == Spec => []StampedWhole
<1>1. Spec => []BuilderInv
  BY BuilderInit, BuilderStep, PTL DEF Spec
<1> QED
  BY <1>1, PTL DEF BuilderInv

-----------------------------------------------------------------------------
(* What the script is about to remove is not the package of a builder that *)
(* has had its stamp all along.                                            *)
SpareInv ==
  /\ steady \subseteq Builders
  /\ script = "stamps_remove" => \A b \in steady : stamp[b] \in Hashes => stamp[b] \notin doomed

LEMMA SpareInit == Init => SpareInv
  BY DEF Init, SpareInv

(* A builder that stays steady keeps its stamp.                            *)
LEMMA SteadyStamp ==
  ASSUME BuilderInv, SpareInv, NEW b \in Builders, Build(b) \/ Step(b) \/ Kill(b)
  PROVE  /\ steady' \subseteq steady /\ \A c \in steady' : stamp'[c] = stamp[c]
         /\ UNCHANGED manager
<1>. USE DEF cache, builder, manager, count
<1>1. CASE IsFile(b) \/ MakeStamp(b)
  BY <1>1 DEF IsFile, MakeStamp, Stamp, BuilderInv, BuilderTypeOK, SpareInv
<1>2. CASE ~(IsFile(b) \/ MakeStamp(b))
  BY <1>2 DEF Build, Kill, Step, Lookup, Fetch, Download, Unpack, Writable, Touch, Run, Create, Rename
<1> QED
  BY <1>1, <1>2

LEMMA SpareStep == BuilderInv /\ SpareInv /\ [Next]_vars => SpareInv'
<1> SUFFICES ASSUME BuilderInv, SpareInv, [Next]_vars PROVE SpareInv'
  OBVIOUS
<1>. USE DEF cache, builder, manager, count, SpareInv
<1>1. CASE UNCHANGED vars
  BY <1>1 DEF vars
<1>2. CASE PickUnused
  <2>1. ASSUME NEW b \in steady, stamp[b] \in Hashes, stamp[b] \in listed
        PROVE  stamp[b] \in KeepStamped
    BY <2>1 DEF KeepStamped, HashOf
  <2>2. CASE KeepStamped = {}
    BY <1>2, <2>2 DEF PickUnused
  <2>3. CASE doomed' = listed \ KeepStamped
    BY <1>2, <2>1, <2>3 DEF PickUnused
  <2>4. CASE script' = "off"
    BY <1>2, <2>4 DEF PickUnused
  <2> QED
    BY <1>2, <2>2, <2>3, <2>4 DEF PickUnused, Confirm
<1>3. CASE Find("dup_pick") \/ Find("stamps_pick")
  BY <1>3 DEF Find
<1>4. CASE PickDuplicates \/ Finish
  BY <1>4 DEF PickDuplicates, Confirm, Finish
<1>5. CASE \E f \in Hashes \cup Temps : Remove(f)
  BY <1>5 DEF Remove
<1>6. CASE \E b \in Builders : Build(b) \/ Step(b) \/ Kill(b)
  BY <1>6, SteadyStamp
<1> QED
  BY <1>1, <1>2, <1>3, <1>4, <1>5, <1>6 DEF Next, Script

(* --stamps-dir never takes a package whose user had its stamp before the  *)
(* script began and has it still, however the builds and the script take   *)
(* turns (sstate-cache-management.sh:330-360).                             *)
THEOREM UsedStaysHolds == Spec => UsedStays
<1>1. BuilderInv /\ SpareInv /\ [Next]_vars =>
        [\A b \in steady : script = "stamps_remove" /\ stamp[b] \in Present
                             => stamp[b] \in Present']_vars
  <2> SUFFICES ASSUME BuilderInv, SpareInv, [Next]_vars, NEW b \in steady,
                      script = "stamps_remove", stamp[b] \in Present
               PROVE  stamp[b] \in Present'
    OBVIOUS
  <2>. USE DEF cache, builder, manager, count
  <2>1. BuilderTypeOK /\ stamp[b] \in Hashes /\ pkg[stamp[b]] # "none" /\ stamp[b] \notin doomed
    BY DEF BuilderInv, SpareInv, Present
  <2>2. CASE \E f \in Hashes \cup Temps : Remove(f)
    BY <2>1, <2>2 DEF Remove, Present, BuilderTypeOK
  <2>3. CASE \E h \in Hashes, content \in {"part", "whole"} : Put(h, content)
    BY <2>1, <2>3 DEF Put, Present, BuilderTypeOK
  <2>4. CASE UNCHANGED pkg
    BY <2>1, <2>4 DEF Present
  <2>5. (\E f \in Hashes \cup Temps : Remove(f)) \/ UNCHANGED pkg
        \/ \E h \in Hashes, content \in {"part", "whole"} : Put(h, content)
    <3>1. CASE Script \/ UNCHANGED vars
      BY <3>1 DEF Script, Find, PickDuplicates, PickUnused, Finish, vars
    <3>2. ASSUME NEW c \in Builders, Build(c) \/ Step(c) \/ Kill(c)
          PROVE  UNCHANGED pkg \/ \E h \in Hashes, content \in {"part", "whole"} : Put(h, content)
      <4>1. pc[c] # "idle" => want[c] \in Hashes
        BY <2>1 DEF BuilderTypeOK
      <4>2. CASE Fetch(c) \/ Download(c) \/ Rename(c)
        BY <4>1, <4>2 DEF Fetch, Download, Rename, Goto
      <4>3. CASE ~(Fetch(c) \/ Download(c) \/ Rename(c))
        BY <3>2, <4>3 DEF Build, Kill, Step, Lookup, IsFile, Unpack, Writable, Touch, Run, Create, MakeStamp
      <4> QED
        BY <4>2, <4>3
    <3> QED
      BY <3>1, <3>2 DEF Next
  <2> QED
    BY <2>2, <2>3, <2>4, <2>5
<1> QED
  BY <1>1, BuilderInit, BuilderStep, SpareInit, SpareStep, PTL DEF Spec, UsedStays
-----------------------------------------------------------------------------
(* The modification times: an order of the packages there are.             *)
Distinct(s) == \A i, j \in DOMAIN s : s[i] = s[j] => i = j
Elems(s) == {s[i] : i \in DOMAIN s}

LEMMA WithoutLemma ==
  ASSUME recent \in Seq(Hashes), Distinct(recent), NEW h \in Hashes
  PROVE  /\ Without(h) \in Seq(Hashes) /\ Distinct(Without(h))
         /\ Elems(Without(h)) = Elems(recent) \ {h}
<1>1. CASE \A i \in DOMAIN recent : recent[i] # h
  BY <1>1 DEF Without, Elems, Distinct
<1>2. ASSUME NEW k \in DOMAIN recent, recent[k] = h PROVE Without(h) = SubSeq(recent, 1, k - 1) \o SubSeq(recent, k + 1, Len(recent))
  BY <1>2 DEF Without, Distinct
<1>3. ASSUME NEW k \in DOMAIN recent, recent[k] = h
      PROVE  /\ Without(h) \in Seq(Hashes) /\ Len(Without(h)) = Len(recent) - 1
             /\ \A i \in 1 .. Len(recent) - 1 : Without(h)[i] = IF i < k THEN recent[i] ELSE recent[i + 1]
  <2>. DEFINE a == SubSeq(recent, 1, k - 1)  b == SubSeq(recent, k + 1, Len(recent))
  <2>1. Len(recent) \in Nat /\ k \in 1 .. Len(recent) /\ \A i \in 1 .. Len(recent) : recent[i] \in Hashes
    BY <1>3
  <2>2. a \in Seq(Hashes) /\ Len(a) = k - 1 /\ \A i \in 1 .. k - 1 : a[i] = recent[i]
    BY <2>1, SubSeqProperties
  <2>3. /\ b \in Seq(Hashes) /\ Len(b) = Len(recent) - k
        /\ \A i \in 1 .. Len(recent) - k : b[i] = recent[i + k]
    BY <2>1, SubSeqProperties
  <2>4. Without(h) = a \o b
    BY <1>2, <1>3
  <2>. HIDE DEF a, b
  <2>5. /\ a \o b \in Seq(Hashes) /\ Len(a \o b) = Len(a) + Len(b)
        /\ \A i \in 1 .. Len(a) + Len(b) : (a \o b)[i] = IF i <= Len(a) THEN a[i] ELSE b[i - Len(a)]
    <3>1. a \o b \in Seq(Hashes) /\ Len(a \o b) = Len(a) + Len(b)
      BY <2>2, <2>3, ConcatProperties
    <3>2. \A i \in 1 .. Len(a) + Len(b) : (a \o b)[i] = IF i <= Len(a) THEN a[i] ELSE b[i - Len(a)]
      BY <2>2, <2>3, ConcatProperties
    <3> QED
      BY <3>1, <3>2
  <2>6. ASSUME NEW i \in 1 .. Len(recent) - 1
        PROVE  (a \o b)[i] = IF i < k THEN recent[i] ELSE recent[i + 1]
    <3>1. CASE i < k
      <4>1. i \in 1 .. k - 1 /\ i \in 1 .. (k - 1) + (Len(recent) - k) /\ i <= k - 1
        BY <2>1, <3>1
      <4> QED
        BY <2>2, <2>3, <2>5, <3>1, <4>1
    <3>2. CASE i >= k
      <4>1. /\ i - (k - 1) \in 1 .. Len(recent) - k /\ i - (k - 1) + k = i + 1
            /\ i \in 1 .. (k - 1) + (Len(recent) - k) /\ ~(i <= k - 1) /\ ~(i < k)
        BY <2>1, <3>2
      <4>2. b[i - (k - 1)] = recent[i + 1]
        BY <2>3, <4>1
      <4>3. (a \o b)[i] = b[i - (k - 1)]
        BY <2>2, <2>3, <2>5, <4>1
      <4> QED
        BY <4>1, <4>2, <4>3
    <3>3. i < k \/ i >= k
      BY <2>1
    <3> QED
      BY <3>1, <3>2, <3>3
  <2>7. Len(a) + Len(b) = Len(recent) - 1
    BY <2>1, <2>2, <2>3
  <2>8. Without(h) \in Seq(Hashes) /\ Len(Without(h)) = Len(recent) - 1
    BY <2>4, <2>5, <2>7
  <2> QED
    BY <2>4, <2>6, <2>8
<1>4. ASSUME NEW k \in DOMAIN recent, recent[k] = h
      PROVE  Distinct(Without(h))
  BY <1>3, <1>4 DEF Distinct
<1>5. ASSUME NEW k \in DOMAIN recent, recent[k] = h
      PROVE  Elems(Without(h)) = Elems(recent) \ {h}
  <2>1. ASSUME NEW g \in Elems(Without(h)) PROVE g \in Elems(recent) \ {h}
    BY <1>3, <1>5, <2>1 DEF Distinct, Elems
  <2>2. ASSUME NEW i \in DOMAIN recent, recent[i] # h PROVE recent[i] \in Elems(Without(h))
    <3>1. CASE i < k
      BY <1>3, <1>5, <3>1 DEF Elems
    <3>2. CASE i > k
      <4>0. /\ i - 1 \in 1 .. Len(recent) - 1 /\ i - 1 + 1 = i /\ ~(i - 1 < k)
        BY <1>5, <3>2
      <4>1. i - 1 \in 1 .. Len(recent) - 1 /\ Without(h)[i - 1] = recent[i]
        BY <1>3, <1>5, <4>0
      <4> QED
        BY <1>3, <1>5, <4>1 DEF Elems
    <3> QED
      BY <1>5, <2>2, <3>1, <3>2
  <2> QED
    BY <2>1, <2>2 DEF Elems
<1> QED
  BY <1>1, <1>3, <1>4, <1>5

LEMMA FrontLemma ==
  ASSUME recent \in Seq(Hashes), Distinct(recent), NEW h \in Hashes
  PROVE  /\ <<h>> \o Without(h) \in Seq(Hashes) /\ Distinct(<<h>> \o Without(h))
         /\ Elems(<<h>> \o Without(h)) = Elems(recent) \cup {h}
<1>. DEFINE w == Without(h)
<1>1. w \in Seq(Hashes) /\ Distinct(w) /\ Elems(w) = Elems(recent) \ {h}
  BY WithoutLemma
<1>. HIDE DEF w
<1>2. /\ <<h>> \o w \in Seq(Hashes) /\ Len(<<h>> \o w) = Len(w) + 1
      /\ \A i \in 1 .. Len(w) + 1 : (<<h>> \o w)[i] = IF i = 1 THEN h ELSE w[i - 1]
  BY <1>1
<1>3. Distinct(<<h>> \o w)
  <2>1. \A i \in 1 .. Len(w) : w[i] # h
    BY <1>1 DEF Elems
  <2> QED
    BY <1>1, <1>2, <2>1 DEF Distinct
<1>4. Elems(<<h>> \o w) = Elems(w) \cup {h}
  <2>1. ASSUME NEW i \in DOMAIN w PROVE w[i] \in Elems(<<h>> \o w)
    <3>1. i + 1 \in 1 .. Len(w) + 1 /\ (<<h>> \o w)[i + 1] = w[i]
      BY <1>1, <1>2, <2>1
    <3> QED
      BY <1>1, <1>2, <3>1 DEF Elems
  <2>2. h \in Elems(<<h>> \o w)
    BY <1>1, <1>2 DEF Elems
  <2>3. Elems(<<h>> \o w) \subseteq Elems(w) \cup {h}
    BY <1>1, <1>2 DEF Elems
  <2> QED
    BY <2>1, <2>2, <2>3 DEF Elems
<1> QED
  BY <1>1, <1>2, <1>3, <1>4 DEF w

LEMMA RelationMin ==
  ASSUME NEW T \in SUBSET Nat, T # {}, NEW R, IsWellFoundedOn(R, Nat)
  PROVE  \E i \in T : \A j \in T : ~(<<j, i>> \in R)
  BY WFMin

LEMMA NatMin ==
  ASSUME NEW T \in SUBSET Nat, T # {}
  PROVE  \E i \in T : \A j \in T : ~(j < i)
<1>1. PICK R : IsWellFoundedOn(R, Nat) /\ \A j, i \in Nat : j < i => <<j, i>> \in R
  BY NatLessThanWellFounded DEF OpToRel
<1>2. \E i \in T : \A j \in T : ~(<<j, i>> \in R)
  BY <1>1, RelationMin
<1> QED
  BY <1>1, <1>2

(* ls -t | head gives one of the files it was given.                       *)
LEMMA NewestLemma ==
  ASSUME recent \in Seq(Hashes), NEW hs, hs # {}, hs \subseteq Elems(recent)
  PROVE  Newest(hs) \in hs
<1>. DEFINE T == {i \in DOMAIN recent : recent[i] \in hs}
            First(k) == recent[k] \in hs /\ \A j \in 1 .. k - 1 : recent[j] \notin hs
<1>1. T # {} /\ T \in SUBSET Nat /\ Len(recent) \in Nat /\ DOMAIN recent = 1 .. Len(recent)
  BY DEF Elems
<1>2. PICK i \in T : \A j \in T : ~(j < i)
  <2>. HIDE DEF T
  <2> QED
    BY <1>1, NatMin
<1>3. i \in DOMAIN recent /\ recent[i] \in hs
  OBVIOUS
<1>4. ASSUME NEW j \in 1 .. i - 1 PROVE recent[j] \notin hs
  <2>1. j < i /\ j \in DOMAIN recent
    BY <1>1, <1>3
  <2> QED
    BY <1>2, <2>1
<1>5. First(CHOOSE k \in DOMAIN recent : First(k))
  <2>1. First(i)
    BY <1>3, <1>4
  <2>. HIDE DEF First
  <2> QED
    BY <1>3, <2>1
<1> QED
  BY <1>5 DEF Newest

OrderInv == recent \in Seq(Hashes) /\ Distinct(recent) /\ Elems(recent) = Present

ScriptInv ==
  /\ temps \subseteq Temps
  /\ script \in {"off", "dup_pick", "stamps_pick", "dup_remove", "stamps_remove"}
  /\ listed \subseteq Hashes \cup Temps /\ doomed \subseteq listed
  /\ script \in {"off", "dup_pick", "stamps_pick"} => doomed = {}

LEMMA PutOrder ==
  ASSUME BuilderTypeOK, OrderInv, NEW h \in Hashes, NEW c \in {"part", "whole"}, Put(h, c)
  PROVE  OrderInv'
<1>1. Present' = Present \cup {h}
  BY DEF Put, Present, BuilderTypeOK
<1> QED
  BY <1>1, FrontLemma DEF OrderInv, Put

LEMMA OrderStep == BuilderInv /\ OrderInv /\ [Next]_vars => OrderInv'
<1> SUFFICES ASSUME BuilderInv, OrderInv, [Next]_vars PROVE OrderInv'
  OBVIOUS
<1>. USE DEF cache, builder, manager, count
<1>0. BuilderTypeOK
  BY DEF BuilderInv
<1>1. CASE UNCHANGED <<pkg, recent>>
  BY <1>1 DEF OrderInv, Present, Distinct, Elems
<1>2. CASE Script
  <2>1. ASSUME NEW f \in Hashes \cup Temps, Remove(f), f \in Hashes PROVE OrderInv'
    <3>1. Present' = Present \ {f} /\ recent' = Without(f)
      BY <1>0, <2>1 DEF Remove, Present, BuilderTypeOK
    <3> QED
      BY <2>1, <3>1, WithoutLemma DEF OrderInv
  <2>2. CASE ~\E f \in Hashes \cup Temps : Remove(f) /\ f \in Hashes
    BY <1>1, <1>2, <2>2 DEF Script, Find, PickDuplicates, PickUnused, Finish, Remove
  <2> QED
    BY <2>1, <2>2
<1>3. ASSUME NEW b \in Builders, Build(b) \/ Step(b) \/ Kill(b) PROVE OrderInv'
  <2>1. pc[b] # "idle" => want[b] \in Hashes
    BY <1>0 DEF BuilderTypeOK
  <2>2. CASE \E c \in {"part", "whole"} : pc[b] # "idle" /\ Put(want[b], c)
    BY <1>0, <2>1, <2>2, PutOrder
  <2>3. CASE Touch(b)
    <3>1. CASE want[b] \in Present
      <4>1. want[b] \in Hashes /\ Present' = Present \cup {want[b]}
        BY <2>3, <3>1 DEF Touch, Present
      <4> QED
        BY <2>3, <3>1, <4>1, FrontLemma DEF OrderInv, Touch
    <3> QED
      BY <1>1, <2>3, <3>1 DEF Touch
  <2>4. CASE ~Touch(b) /\ ~\E c \in {"part", "whole"} : pc[b] # "idle" /\ Put(want[b], c)
    BY <1>1, <1>3, <2>4 DEF Build, Kill, Step, Lookup, Fetch, Download, IsFile, Unpack, Writable, Run,
                            Create, Rename, MakeStamp, Goto
  <2> QED
    BY <2>2, <2>3, <2>4
<1>4. CASE UNCHANGED vars
  BY <1>1, <1>4 DEF vars
<1> QED
  BY <1>2, <1>3, <1>4 DEF Next

LEMMA ScriptStep == BuilderInv /\ ScriptInv /\ [Next]_vars => ScriptInv'
<1> SUFFICES ASSUME BuilderInv, ScriptInv, [Next]_vars PROVE ScriptInv'
  OBVIOUS
<1>. USE DEF cache, builder, manager, count, ScriptInv
<1>1. CASE Find("dup_pick") \/ Find("stamps_pick")
  BY <1>1 DEF Find, Present
<1>2. CASE PickDuplicates
  BY <1>2 DEF PickDuplicates, Confirm
<1>3. CASE PickUnused
  BY <1>3 DEF PickUnused, Confirm
<1>4. CASE Finish \/ \E f \in Hashes \cup Temps : Remove(f)
  BY <1>4 DEF Finish, Remove
<1>5. ASSUME NEW b \in Builders, Build(b) \/ Step(b) \/ Kill(b) PROVE ScriptInv'
  <2>1. UNCHANGED manager
    BY <1>5 DEF Build, Kill, Step, Lookup, Fetch, Download, IsFile, Unpack, Writable, Touch, Run,
                Create, Rename, MakeStamp
  <2>2. pc[b] # "idle" => want[b] \in Hashes
    BY DEF BuilderInv, BuilderTypeOK
  <2>3. temps' \subseteq Temps
    <3>1. CASE Create(b)
      BY <2>2, <3>1 DEF Create, Goto, Temps
    <3>2. CASE ~Create(b)
      BY <1>5, <3>2 DEF Build, Kill, Step, Lookup, Fetch, Download, IsFile, Unpack, Writable, Touch,
                        Run, Rename, MakeStamp
    <3> QED
      BY <3>1, <3>2
  <2> QED
    BY <2>1, <2>3 DEF Temps
<1>6. CASE UNCHANGED vars
  BY <1>6 DEF vars
<1> QED
  BY <1>1, <1>2, <1>3, <1>4, <1>5, <1>6 DEF Next, Script

(* Every variable keeps its type, and the order of modification times has  *)
(* just the packages that are there, each once.                            *)
THEOREM TypeCorrect == Spec => []TypeOK
<1>1. Init => BuilderInv /\ OrderInv /\ ScriptInv
  <2>1. Init => OrderInv
    BY DEF Init, OrderInv, Distinct, Elems, Present
  <2> QED
    BY <2>1, BuilderInit DEF Init, ScriptInv
<1>2. BuilderInv /\ OrderInv /\ ScriptInv => TypeOK
  BY DEF BuilderInv, BuilderTypeOK, OrderInv, ScriptInv, TypeOK, Distinct, Elems
<1> QED
  BY <1>1, <1>2, BuilderStep, OrderStep, ScriptStep, PTL DEF Spec

-----------------------------------------------------------------------------
(* While the script removes duplicates, a package that it does not remove  *)
(* is there, if it means to remove one.                                    *)
SpareOne == script = "dup_remove" /\ doomed # {} => \E h \in Present : h \notin doomed

LEMMA SpareOneStep ==
  BuilderInv /\ OrderInv /\ ScriptInv /\ SpareOne /\ [Next]_vars => SpareOne'
<1> SUFFICES ASSUME BuilderInv, OrderInv, ScriptInv, SpareOne, [Next]_vars PROVE SpareOne'
  OBVIOUS
<1>. USE DEF cache, builder, manager, count, SpareOne
<1>0. BuilderTypeOK
  BY DEF BuilderInv
<1>1. CASE UNCHANGED <<pkg, manager>>
  BY <1>1 DEF Present
<1>2. CASE PickDuplicates
  <2>. DEFINE there == listed \cap Present
  <2>1. CASE there = {}
    BY <1>2, <2>1 DEF PickDuplicates, Confirm
  <2>2. CASE there # {}
    <3>1. Newest(there) \in there
      BY <2>2, NewestLemma DEF OrderInv
    <3> QED
      BY <1>2, <2>2, <3>1 DEF PickDuplicates, Confirm, Present
  <2> QED
    BY <2>1, <2>2
<1>3. CASE Find("dup_pick") \/ Find("stamps_pick") \/ PickUnused \/ Finish
  BY <1>3 DEF Find, PickUnused, Confirm, Finish
<1>4. ASSUME NEW f \in Hashes \cup Temps, Remove(f) PROVE SpareOne'
  BY <1>0, <1>4 DEF Remove, Present, BuilderTypeOK
<1>5. ASSUME NEW h \in Hashes, NEW c \in {"part", "whole"}, Put(h, c), UNCHANGED manager
      PROVE  SpareOne'
  BY <1>0, <1>5 DEF Put, Present, BuilderTypeOK
<1>6. ASSUME NEW b \in Builders, Build(b) \/ Step(b) \/ Kill(b) PROVE SpareOne'
  <2>1. pc[b] # "idle" => want[b] \in Hashes
    BY <1>0 DEF BuilderTypeOK
  <2>2. CASE Fetch(b) \/ Download(b) \/ Rename(b)
    BY <1>1, <1>5, <2>1, <2>2 DEF Fetch, Download, Rename, Goto
  <2>3. CASE ~(Fetch(b) \/ Download(b) \/ Rename(b))
    BY <1>1, <1>6, <2>3 DEF Build, Kill, Step, Lookup, IsFile, Unpack, Writable, Touch, Run, Create,
                            MakeStamp
  <2> QED
    BY <2>2, <2>3
<1>7. CASE UNCHANGED vars
  BY <1>1, <1>7 DEF vars
<1> QED
  BY <1>2, <1>3, <1>4, <1>6, <1>7 DEF Next, Script

(* --remove-duplicated never takes the last package: the one that was the  *)
(* newest when it picked stays, whatever the builders add or touch before  *)
(* it removes the others (sstate-cache-management.sh:248-301).             *)
THEOREM NeverEmptiesHolds == Spec => NeverEmpties
<1>1. Init => BuilderInv /\ OrderInv /\ ScriptInv /\ SpareOne
  <2>1. Init => OrderInv
    BY DEF Init, OrderInv, Distinct, Elems, Present
  <2> QED
    BY <2>1, BuilderInit DEF Init, ScriptInv, SpareOne
<1>2. BuilderInv /\ SpareOne /\ [Next]_vars =>
        [script = "dup_remove" /\ Present # {} => Present' # {}]_vars
  <2> SUFFICES ASSUME BuilderInv, SpareOne, [Next]_vars, script = "dup_remove", Present # {}
               PROVE  Present' # {}
    OBVIOUS
  <2>. USE DEF cache, builder, manager, count
  <2>0. BuilderTypeOK
    BY DEF BuilderInv
  <2>1. ASSUME NEW f \in Hashes \cup Temps, Remove(f) PROVE Present' # {}
    BY <2>0, <2>1 DEF Remove, Present, BuilderTypeOK, SpareOne
  <2>2. ASSUME NEW h \in Hashes, NEW c \in {"part", "whole"}, Put(h, c) PROVE Present' # {}
    BY <2>0, <2>2 DEF Put, Present, BuilderTypeOK
  <2>3. CASE UNCHANGED pkg
    BY <2>3 DEF Present
  <2>4. CASE Script \/ UNCHANGED vars
    BY <2>1, <2>3, <2>4 DEF Script, Find, PickDuplicates, PickUnused, Finish, vars
  <2>5. ASSUME NEW b \in Builders, Build(b) \/ Step(b) \/ Kill(b) PROVE Present' # {}
    <3>1. pc[b] # "idle" => want[b] \in Hashes
      BY <2>0 DEF BuilderTypeOK
    <3>2. CASE Fetch(b) \/ Download(b) \/ Rename(b)
      BY <2>2, <2>3, <3>1, <3>2 DEF Fetch, Download, Rename, Goto
    <3>3. CASE ~(Fetch(b) \/ Download(b) \/ Rename(b))
      BY <2>3, <2>5, <3>3 DEF Build, Kill, Step, Lookup, IsFile, Unpack, Writable, Touch, Run, Create,
                              MakeStamp
    <3> QED
      BY <3>2, <3>3
  <2> QED
    BY <2>4, <2>5 DEF Next
<1> QED
  BY <1>1, <1>2, BuilderStep, OrderStep, ScriptStep, SpareOneStep, PTL DEF Spec, NeverEmpties
=============================================================================
