------------------------------ MODULE WicProofs ------------------------------
(* What holds of an image that wic makes, of any kickstart files, and of   *)
(* the copy of a partition into it, of any file.                           *)
EXTENDS WicImage, SparseCopy, TLAPS, FiniteSetTheorems, WellFoundedInduction

(* Remainders, and the sectors that are multiples of an alignment.         *)
LEMMA RemainderOf ==
    ASSUME NEW s \in Nat, NEW m \in Nat \ {0}
    PROVE  /\ s % m \in Nat /\ s % m < m /\ s \div m \in Nat
           /\ s = m * (s \div m) + (s % m)
<1>1. s % m \in Nat /\ s % m < m
  OBVIOUS
<1>2. s \div m \in Int /\ m * (s \div m) \in Int
  OBVIOUS
<1>3. s = m * (s \div m) + (s % m)
  OBVIOUS
<1>4. s \div m \in Nat
  BY <1>1, <1>2, <1>3
<1> QED
  BY <1>1, <1>3, <1>4

LEMMA MultipleOf ==
    ASSUME NEW q \in Nat, NEW m \in Nat \ {0}
    PROVE  (m * q) % m = 0
  OBVIOUS

LEMMA AlignedIs ==
    ASSUME NEW s \in Nat, NEW a \in Nat
    PROVE  /\ Aligned(s, a) \in Nat /\ s <= Aligned(s, a)
           /\ a # 0 => Aligned(s, a) % (2 * a) = 0
<1>1. CASE a = 0 \/ s % (2 * a) = 0
  BY <1>1 DEF Aligned
<1>2. CASE ~(a = 0 \/ s % (2 * a) = 0)
  <2>1. PICK m : m = 2 * a /\ m \in Nat \ {0}
    BY <1>2
  <2>2. PICK r, q : r = s % m /\ q = s \div m
    OBVIOUS
  <2>3. r \in Nat /\ r < m /\ q \in Nat /\ s = m * q + r
    BY <2>1, <2>2, RemainderOf
  <2>4. Aligned(s, a) = (s + m) - r
    BY <1>2, <2>1, <2>2 DEF Aligned
  <2>5. q + 1 \in Nat /\ m * (q + 1) = m * q + m /\ m * q \in Nat
    BY <2>1, <2>3
  <2>6. Aligned(s, a) = m * (q + 1)
    BY <2>1, <2>3, <2>4, <2>5
  <2>7. Aligned(s, a) % m = 0
    <3>1. (m * (q + 1)) % m = 0
      BY <2>1, <2>5, MultipleOf
    <3> QED
      BY <2>6, <3>1
  <2>8. Aligned(s, a) \in Nat /\ s <= Aligned(s, a)
    BY <2>1, <2>3, <2>4
  <2> QED
    BY <2>1, <2>7, <2>8
<1> QED
  BY <1>1, <1>2

LEMMA FirstSectorIs ==
    ASSUME NEW s \in Nat, NEW real \in Nat, NEW a \in Nat
    PROVE  /\ FirstSector(s, real, a) \in Nat /\ s <= FirstSector(s, real, a)
           /\ Logical(real) => s + 1 <= FirstSector(s, real, a)
           /\ a # 0 => FirstSector(s, real, a) % (2 * a) = 0
<1>1. CASE Logical(real)
  <2>1. PICK t \in Nat : t = s + 1
    OBVIOUS
  <2>2. FirstSector(s, real, a) = Aligned(t, a)
    BY <1>1, <2>1 DEF FirstSector
  <2>3. /\ Aligned(t, a) \in Nat /\ t <= Aligned(t, a)
        /\ a # 0 => Aligned(t, a) % (2 * a) = 0
    BY AlignedIs
  <2> QED
    BY <2>1, <2>2, <2>3
<1>2. CASE ~Logical(real)
  <2>1. FirstSector(s, real, a) = Aligned(s, a)
    BY <1>2 DEF FirstSector
  <2>2. /\ Aligned(s, a) \in Nat /\ s <= Aligned(s, a)
        /\ a # 0 => Aligned(s, a) % (2 * a) = 0
    BY AlignedIs
  <2> QED
    BY <1>2, <2>1, <2>2
<1> QED
  BY <1>1, <1>2

(* The numbers below the fifth are not those of logical partitions.        *)
LEMMA NumberedIs ==
    ASSUME NEW real \in Nat, NEW b \in BOOLEAN
    PROVE  /\ Numbered(real, b) \in Nat
           /\ ptable = "msdos" => (Numbered(real, b) > 4 <=> Logical(real))
  BY DEF Numbered, Logical

-----------------------------------------------------------------------------
(* The partitions that are laid out, and where each disk ends.             *)
Sector == [start : Nat, end : Nat, num : Nat]
DiskState == [offset : Nat, real : Nat]
Ebr(j) == IF ptable = "msdos" /\ Num(j) > 4 THEN 1 ELSE 0
InTable(n) == {i \in 1..n : ~ks[i].noTable}

WicWorkInv ==
    /\ ks \in Kickstarts /\ ptable \in {"msdos", "gpt"}
    /\ wicStep \in {"idle", "prepare", "layout", "format", "assemble", "finished", "failed"}
    /\ parts \in Seq(Sector) /\ Len(parts) <= Len(ks) /\ disks \in [Disks -> DiskState]
    /\ wicStep = "prepare" => parts = <<>> /\ disks = NewDisks
    /\ wicStep = "layout" => Len(parts) < Len(ks)
    /\ wicStep \in {"format", "assemble", "finished"} => Len(parts) = Len(ks)

PartPlaced(i) ==
    LET d == ks[i].disk IN
    /\ Overhead <= Start(i) /\ Start(i) <= End(i) /\ End(i) <= disks[d].offset
    /\ ks[i].align # 0 => Start(i) % (2 * ks[i].align) = 0
    /\ ptable = "msdos" /\ Num(i) > 4 =>
         \E e \in DOMAIN parts : ks[e].disk = d /\ Num(e) = 5 /\ Start(e) <= Start(i)

PlacedInv ==
    /\ \A d \in Disks : Overhead <= disks[d].offset
    /\ \A d \in Disks : ptable = "msdos" /\ disks[d].real > 3 =>
          \E e \in DOMAIN parts : ks[e].disk = d /\ Num(e) = 5
    /\ \A i \in DOMAIN parts : PartPlaced(i)
    /\ \A i, j \in DOMAIN parts : i < j /\ ks[i].disk = ks[j].disk => End(i) + Ebr(j) <= Start(j)

(* With one disk a partition has the number that counting those before it  *)
(* gives.                                                                  *)
NumberInv ==
    \A d \in Disks : (\A i \in DOMAIN ks : ks[i].disk = d) =>
        /\ disks[d].real = Cardinality(InTable(Len(parts)))
        /\ \A n \in DOMAIN parts : Num(n) = Numbered(Cardinality(InTable(n)), ks[n].noTable)

LEMMA WicSizes ==
    ASSUME ks \in Kickstarts
    PROVE  /\ Len(ks) \in Nat \ {0} /\ DOMAIN ks = 1..Len(ks)
           /\ \A i \in DOMAIN ks : /\ ks[i].size \in Nat /\ ks[i].align \in Nat
                                    /\ ks[i].noTable \in BOOLEAN /\ ks[i].disk \in Disks
  BY KickstartsAssumption DEF Disks

LEMMA PartsAre ==
    ASSUME WicWorkInv
    PROVE  /\ Len(parts) \in Nat /\ DOMAIN parts = 1..Len(parts)
           /\ \A i \in DOMAIN parts : Start(i) \in Nat /\ End(i) \in Nat /\ Num(i) \in Nat /\ i \in Nat
           /\ DOMAIN parts \subseteq DOMAIN ks
           /\ \A d \in Disks : disks[d].offset \in Nat /\ disks[d].real \in Nat
           /\ Overhead \in Nat
<1>1. /\ Len(parts) \in Nat /\ DOMAIN parts = 1..Len(parts)
      /\ \A i \in DOMAIN parts : parts[i] \in Sector
  BY DEF WicWorkInv
<1>2. DOMAIN ks = 1..Len(ks) /\ Len(ks) \in Nat /\ Len(parts) <= Len(ks)
  BY WicSizes DEF WicWorkInv
<1>3. DOMAIN parts \subseteq DOMAIN ks
  BY <1>1, <1>2
<1>4. \A d \in Disks : disks[d] \in DiskState
  BY DEF WicWorkInv
<1> QED
  BY <1>1, <1>3, <1>4 DEF Sector, DiskState, Start, End, Num, Overhead

(* How many of the first n partitions are in the table.                    *)
LEMMA InTableGrows ==
    ASSUME NEW n \in Nat, ks[n + 1].noTable \in BOOLEAN
    PROVE  /\ IsFiniteSet(InTable(n)) /\ Cardinality(InTable(n)) \in Nat
           /\ Cardinality(InTable(n + 1))
                = Cardinality(InTable(n)) + (IF ks[n + 1].noTable THEN 0 ELSE 1)
<1>1. 1 \in Int /\ n \in Int /\ InTable(n) \subseteq 1..n
  BY DEF InTable
<1>2. IsFiniteSet(1..n)
  BY <1>1, FS_Interval
<1>3. IsFiniteSet(InTable(n)) /\ Cardinality(InTable(n)) \in Nat
  BY <1>1, <1>2, FS_Subset, FS_CardinalityType
<1>4. 1..(n + 1) = 1..n \cup {n + 1} /\ n + 1 \notin 1..n
  OBVIOUS
<1>5. CASE ks[n + 1].noTable
  <2>1. InTable(n + 1) = InTable(n)
    BY <1>4, <1>5 DEF InTable
  <2> QED
    BY <1>3, <1>5, <2>1
<1>6. CASE ~ks[n + 1].noTable
  <2>1. InTable(n + 1) = InTable(n) \cup {n + 1} /\ n + 1 \notin InTable(n)
    BY <1>4, <1>6 DEF InTable
  <2>2. Cardinality(InTable(n + 1)) = Cardinality(InTable(n)) + 1
    BY <1>3, <2>1, FS_AddElement
  <2> QED
    BY <1>3, <1>6, <2>2
<1> QED
  BY <1>3, <1>5, <1>6

LEMMA NewDisksAre ==
    ASSUME ptable \in {"msdos", "gpt"}
    PROVE  /\ NewDisks \in [Disks -> DiskState]
           /\ \A d \in Disks : NewDisks[d].offset = Overhead /\ NewDisks[d].real = 0
           /\ Overhead \in Nat
<1>1. Overhead \in Nat
  BY DEF Overhead
<1>2. \A d \in Disks : NewDisks[d] = [offset |-> Overhead, real |-> 0]
  BY DEF NewDisks
<1>3. \A d \in Disks : NewDisks[d] \in DiskState
  BY <1>1, <1>2 DEF DiskState
<1>4. DOMAIN NewDisks = Disks /\ NewDisks = [d \in Disks |-> NewDisks[d]]
  BY DEF NewDisks
<1> QED
  BY <1>1, <1>2, <1>3, <1>4

NothingLaidOut ==
    ptable \in {"msdos", "gpt"} /\ parts = <<>> /\ disks = NewDisks /\ ks \in Kickstarts

LEMMA NothingPlaced == NothingLaidOut => PlacedInv /\ NumberInv
<1> SUFFICES ASSUME NothingLaidOut PROVE PlacedInv /\ NumberInv
  OBVIOUS
<1>. USE DEF NothingLaidOut
<1>1. DOMAIN parts = {} /\ Len(parts) = 0
  OBVIOUS
<1>2. \A d \in Disks : disks[d].offset = Overhead /\ disks[d].real = 0 /\ Overhead \in Nat
  BY NewDisksAre
<1>3. InTable(0) = {} /\ Cardinality(InTable(0)) = 0
  <2>1. InTable(0) = {}
    BY DEF InTable
  <2> QED
    BY <2>1, FS_EmptySet
<1> QED
  BY <1>1, <1>2, <1>3 DEF PlacedInv, NumberInv

(* What a step that lays nothing out leaves of it.                         *)
LayoutStays == UNCHANGED <<ks, ptable, disks, parts>>

LEMMA PlacedStays ==
    ASSUME PlacedInv, NumberInv, LayoutStays
    PROVE  PlacedInv' /\ NumberInv'
<1>. USE DEF LayoutStays
<1>1. \A i : /\ Start(i)' = Start(i) /\ End(i)' = End(i) /\ Num(i)' = Num(i)
             /\ Ebr(i)' = Ebr(i) /\ InTable(i)' = InTable(i)
  BY DEF Start, End, Num, Ebr, InTable
<1>2. Overhead' = Overhead /\ \A r, b : Numbered(r, b)' = Numbered(r, b)
  BY DEF Overhead, Numbered, Logical
<1>3. \A i \in DOMAIN parts : PartPlaced(i)'
  BY <1>1, <1>2 DEF PlacedInv, PartPlaced
<1>4. PlacedInv'
  BY <1>1, <1>2, <1>3 DEF PlacedInv
<1>5. NumberInv'
  BY <1>1, <1>2 DEF NumberInv
<1> QED
  BY <1>4, <1>5

(* One turn of the loop: the partition, its disk and its number.           *)
LEMMA LaysOut ==
    ASSUME WicWorkInv, LayoutPartition, parts' # parts
    PROVE  \E n \in Nat, d \in Disks, start \in Nat, real \in Nat :
              LET end == start + 2 * ks[n].size
                  num == Numbered(real, ks[n].noTable)
              IN  /\ n = Len(parts) + 1 /\ n \in DOMAIN ks /\ ks[n].disk = d
                  /\ real = disks[d].real + (IF ks[n].noTable THEN 0 ELSE 1)
                  /\ start = FirstSector(disks[d].offset, real, ks[n].align)
                  /\ disks' = [disks EXCEPT ![d] = [offset |-> end, real |-> real]]
                  /\ parts' = Append(parts, [start |-> start, end |-> end, num |-> num])
                  /\ wicStep' = IF Len(parts') = Len(ks) THEN "format" ELSE "layout"
                  /\ UNCHANGED <<ks, ptable>>
<1>1. PICK n \in Nat : n = Len(parts) + 1
  BY PartsAre
<1>2. ks \in Kickstarts /\ wicStep = "layout" /\ Len(parts) < Len(ks)
  BY DEF WicWorkInv, LayoutPartition
<1>3. n \in DOMAIN ks
  BY <1>1, <1>2, WicSizes, PartsAre
<1>4. PICK d \in Disks : d = ks[n].disk
  BY <1>2, <1>3, WicSizes
<1>5. ks[n].noTable \in BOOLEAN /\ ks[n].size \in Nat /\ ks[n].align \in Nat
  BY <1>2, <1>3, WicSizes
<1>6. disks[d].real \in Nat /\ disks[d].offset \in Nat
  BY PartsAre
<1>7. PICK real \in Nat : real = disks[d].real + (IF ks[n].noTable THEN 0 ELSE 1)
  BY <1>5, <1>6
<1>8. PICK start \in Nat : start = FirstSector(disks[d].offset, real, ks[n].align)
  BY <1>5, <1>6, FirstSectorIs
<1>9. /\ disks' = [disks EXCEPT ![d] = [offset |-> start + 2 * ks[n].size, real |-> real]]
      /\ parts' = Append(parts, [start |-> start, end |-> start + 2 * ks[n].size,
                                 num |-> Numbered(real, ks[n].noTable)])
      /\ wicStep' = IF Len(parts') = Len(ks) THEN "format" ELSE "layout"
      /\ UNCHANGED <<ks, ptable>>
  BY <1>1, <1>4, <1>7, <1>8 DEF LayoutPartition
<1> QED
  BY <1>1, <1>3, <1>4, <1>7, <1>8, <1>9

LEMMA AppendIs ==
    ASSUME NEW T, NEW s \in Seq(T), NEW x \in T
    PROVE  /\ Append(s, x) \in Seq(T) /\ Len(Append(s, x)) = Len(s) + 1
           /\ DOMAIN Append(s, x) = 1..(Len(s) + 1) /\ Append(s, x)[Len(s) + 1] = x
           /\ \A i \in 1..Len(s) : Append(s, x)[i] = s[i]
  OBVIOUS

LEMMA PlacesOne ==
    ASSUME WicWorkInv, PlacedInv, NumberInv, LayoutPartition, parts' # parts
    PROVE  WicWorkInv' /\ PlacedInv' /\ NumberInv'
<1>1. PICK n \in Nat, d \in Disks, start \in Nat, real \in Nat :
              LET end == start + 2 * ks[n].size
                  num == Numbered(real, ks[n].noTable)
              IN  /\ n = Len(parts) + 1 /\ n \in DOMAIN ks /\ ks[n].disk = d
                  /\ real = disks[d].real + (IF ks[n].noTable THEN 0 ELSE 1)
                  /\ start = FirstSector(disks[d].offset, real, ks[n].align)
                  /\ disks' = [disks EXCEPT ![d] = [offset |-> end, real |-> real]]
                  /\ parts' = Append(parts, [start |-> start, end |-> end, num |-> num])
                  /\ wicStep' = IF Len(parts') = Len(ks) THEN "format" ELSE "layout"
                  /\ UNCHANGED <<ks, ptable>>
  BY LaysOut
<1>2. PICK end, num : end = start + 2 * ks[n].size /\ num = Numbered(real, ks[n].noTable)
  OBVIOUS
<1>3. ks[n].size \in Nat /\ ks[n].align \in Nat /\ ks[n].noTable \in BOOLEAN
  BY <1>1, WicSizes DEF WicWorkInv
<1>4. /\ n = Len(parts) + 1 /\ n \in DOMAIN ks /\ ks[n].disk = d
      /\ real = disks[d].real + (IF ks[n].noTable THEN 0 ELSE 1)
      /\ start = FirstSector(disks[d].offset, real, ks[n].align)
      /\ disks' = [disks EXCEPT ![d] = [offset |-> end, real |-> real]]
      /\ parts' = Append(parts, [start |-> start, end |-> end, num |-> num])
      /\ wicStep' = IF Len(parts') = Len(ks) THEN "format" ELSE "layout"
      /\ ks' = ks /\ ptable' = ptable
  BY <1>1, <1>2
<1>5. end \in Nat /\ start <= end
  BY <1>2, <1>3
<1>6. num \in Nat /\ (ptable = "msdos" => (num > 4 <=> Logical(real)))
  BY <1>2, <1>3, NumberedIs
<1>7. PICK off \in Nat : off = disks[d].offset
  BY PartsAre
<1>8. /\ off <= start /\ (Logical(real) => off + 1 <= start)
      /\ ks[n].align # 0 => start % (2 * ks[n].align) = 0
  <2>1. start = FirstSector(off, real, ks[n].align)
    BY <1>4, <1>7
  <2> QED
    BY <1>3, <2>1, FirstSectorIs
<1>9. /\ disks \in [Disks -> DiskState] /\ parts \in Seq(Sector) /\ Len(parts) < Len(ks)
      /\ Len(parts) \in Nat /\ DOMAIN parts = 1..Len(parts) /\ Len(ks) \in Nat
      /\ wicStep = "layout" /\ ks \in Kickstarts /\ ptable \in {"msdos", "gpt"}
  BY PartsAre, WicSizes DEF WicWorkInv, LayoutPartition
<1>10. [start |-> start, end |-> end, num |-> num] \in Sector
  BY <1>5, <1>6 DEF Sector
<1>11. /\ parts' \in Seq(Sector) /\ Len(parts') = n /\ DOMAIN parts' = 1..n
       /\ parts'[n] = [start |-> start, end |-> end, num |-> num]
       /\ \A i \in DOMAIN parts : parts'[i] = parts[i]
       /\ \A i \in DOMAIN parts' : i \in Nat /\ (i \in DOMAIN parts \/ i = n)
       /\ \A i \in DOMAIN parts : i \in Nat /\ i < n /\ i \in DOMAIN parts'
       /\ n \in DOMAIN parts' /\ n \notin DOMAIN parts
  <2>1. n = Len(parts) + 1
    BY <1>4
  <2>2. PICK new \in Sector : new = [start |-> start, end |-> end, num |-> num]
    BY <1>10
  <2>3. parts' = Append(parts, new)
    BY <1>4, <2>2
  <2>4. /\ parts' \in Seq(Sector) /\ Len(parts') = n /\ DOMAIN parts' = 1..n /\ parts'[n] = new
        /\ \A i \in 1..Len(parts) : parts'[i] = parts[i]
    <3>1. parts \in Seq(Sector)
      BY <1>9
    <3>2. /\ Append(parts, new) \in Seq(Sector) /\ Len(Append(parts, new)) = Len(parts) + 1
          /\ DOMAIN Append(parts, new) = 1..(Len(parts) + 1)
          /\ Append(parts, new)[Len(parts) + 1] = new
          /\ \A i \in 1..Len(parts) : Append(parts, new)[i] = parts[i]
      BY <3>1, AppendIs
    <3> QED
      BY <2>1, <2>3, <3>2
  <2>5. /\ \A i \in DOMAIN parts' : i \in Nat /\ (i \in DOMAIN parts \/ i = n)
        /\ \A i \in DOMAIN parts : i \in Nat /\ i < n /\ i \in DOMAIN parts'
        /\ n \in DOMAIN parts' /\ n \notin DOMAIN parts
    BY <1>9, <2>1, <2>4
  <2> QED
    BY <1>9, <2>2, <2>4, <2>5
<1>12. /\ disks' \in [Disks -> DiskState] /\ disks'[d] = [offset |-> end, real |-> real]
       /\ \A c \in Disks : c # d => disks'[c] = disks[c]
  <2>1. [offset |-> end, real |-> real] \in DiskState
    BY <1>5 DEF DiskState
  <2> QED
    BY <1>4, <1>9, <2>1
<1>13. /\ disks'[d].offset = end /\ disks'[d].real = real
  BY <1>12
<1>14. /\ Start(n)' = start /\ End(n)' = end /\ Num(n)' = num
       /\ \A i \in DOMAIN parts : Start(i)' = Start(i) /\ End(i)' = End(i) /\ Num(i)' = Num(i)
                                  /\ Ebr(i)' = Ebr(i)
  BY <1>4, <1>11 DEF Start, End, Num, Ebr
<1>15. Overhead' = Overhead /\ \A r, b : Numbered(r, b)' = Numbered(r, b)
  BY <1>4 DEF Overhead, Numbered, Logical
<1>16. WicWorkInv'
  <2>0. n = Len(parts) + 1
    BY <1>4
  <2>1. n <= Len(ks)
    BY <1>9, <2>0
  <2>2. wicStep' \in {"layout", "format"}
    BY <1>4
  <2>3. wicStep' = "layout" => n < Len(ks)
    <3>1. wicStep' = "layout" => Len(parts') # Len(ks)
      BY <1>4
    <3> QED
      BY <1>9, <1>11, <2>1, <3>1
  <2>4. wicStep' = "format" => n = Len(ks)
    BY <1>4, <1>11
  <2> QED
    BY <1>4, <1>9, <1>11, <1>12, <2>1, <2>2, <2>3, <2>4 DEF WicWorkInv
<1>17. \A c \in Disks : Overhead <= disks[c].offset /\ disks[c].offset \in Nat
                        /\ Overhead \in Nat /\ disks[c].offset <= disks'[c].offset
  <2>1. \A c \in Disks : Overhead <= disks[c].offset /\ disks[c].offset \in Nat /\ Overhead \in Nat
    BY PartsAre DEF PlacedInv
  <2>2. disks[d].offset <= disks'[d].offset
    BY <1>5, <1>7, <1>8, <1>13
  <2> QED
    BY <1>12, <2>1, <2>2
<1>18. /\ disks'[d].offset \in Nat /\ \A c \in Disks : Overhead' <= disks'[c].offset
  BY <1>5, <1>12, <1>13, <1>15, <1>17
<1>19. ASSUME ptable = "msdos", real > 3
       PROVE  num = 5 \/ \E e \in DOMAIN parts : ks[e].disk = d /\ Num(e) = 5
  <2>0. disks[d].real \in Nat
    BY PartsAre
  <2>1. CASE disks[d].real > 3
    BY <2>1, <1>19 DEF PlacedInv
  <2>2. CASE ~(disks[d].real > 3)
    <3>1. real = 4
      BY <1>3, <1>4, <1>19, <2>0, <2>2
    <3> QED
      BY <1>2, <1>19, <3>1 DEF Numbered, Logical
  <2> QED
    BY <2>1, <2>2
<1>20. \A c \in Disks : ptable' = "msdos" /\ disks'[c].real > 3 =>
          \E e \in DOMAIN parts' : ks'[e].disk = c /\ Num(e)' = 5
  <2> SUFFICES ASSUME NEW c \in Disks, ptable' = "msdos", disks'[c].real > 3
               PROVE  \E e \in DOMAIN parts' : ks'[e].disk = c /\ Num(e)' = 5
    OBVIOUS
  <2>1. CASE c = d
    BY <1>4, <1>11, <1>13, <1>14, <1>19, <2>1
  <2>2. CASE c # d
    <3>1. PICK e \in DOMAIN parts : ks[e].disk = c /\ Num(e) = 5
      BY <1>4, <1>12, <2>2 DEF PlacedInv
    <3> QED
      BY <1>4, <1>11, <1>14, <3>1
  <2> QED
    BY <2>1, <2>2
<1>21. ASSUME NEW i \in DOMAIN parts PROVE PartPlaced(i)'
  <2>1. PartPlaced(i)
    BY DEF PlacedInv
  <2>2. /\ Start(i) \in Nat /\ End(i) \in Nat /\ i \in DOMAIN ks
    BY PartsAre
  <2>3. ks[i].disk \in Disks
    BY <1>9, <2>2, WicSizes
  <2>4. disks'[ks[i].disk].offset \in Nat /\ disks[ks[i].disk].offset <= disks'[ks[i].disk].offset
    BY <1>12, <1>17, <1>18, <2>3
  <2>5. End(i) <= disks'[ks[i].disk].offset
    BY <1>17, <2>1, <2>2, <2>3, <2>4 DEF PartPlaced
  <2>6. ptable = "msdos" /\ Num(i) > 4 =>
         \E e \in DOMAIN parts' : ks[e].disk = ks[i].disk /\ Num(e)' = 5 /\ Start(e)' <= Start(i)
    BY <1>11, <1>14, <2>1 DEF PartPlaced
  <2> QED
    BY <1>4, <1>14, <1>15, <2>1, <2>5, <2>6 DEF PartPlaced
<1>22. PartPlaced(n)'
  <2>1. Overhead <= start
    BY <1>7, <1>8, <1>17
  <2>2. ASSUME ptable = "msdos", num > 4
        PROVE  \E e \in DOMAIN parts' : ks[e].disk = d /\ Num(e)' = 5 /\ Start(e)' <= start
    <3>1. real > 3
      BY <1>6, <2>2 DEF Logical
    <3>2. CASE num = 5
      <4>1. n \in DOMAIN parts' /\ ks[n].disk = d /\ Num(n)' = 5 /\ Start(n)' = start
        BY <1>4, <1>11, <1>14, <3>2
      <4> QED
        BY <4>1
    <3>3. CASE \E e \in DOMAIN parts : ks[e].disk = d /\ Num(e) = 5
      <4>1. PICK e \in DOMAIN parts : ks[e].disk = d /\ Num(e) = 5
        BY <3>3
      <4>2. Start(e) \in Nat /\ End(e) \in Nat /\ Start(e) <= End(e) /\ End(e) <= off
        BY <1>7, <4>1, PartsAre DEF PlacedInv, PartPlaced
      <4>3. Start(e) <= start
        BY <1>8, <4>2
      <4> QED
        BY <1>11, <1>14, <4>1, <4>3
    <3> QED
      BY <1>19, <2>2, <3>1, <3>2, <3>3
  <2>3. end <= disks'[d].offset
    BY <1>5, <1>13
  <2> QED
    BY <1>4, <1>5, <1>8, <1>14, <1>15, <2>1, <2>2, <2>3 DEF PartPlaced
<1>23. \A i, j \in DOMAIN parts' :
          i < j /\ ks'[i].disk = ks'[j].disk => End(i)' + Ebr(j)' <= Start(j)'
  <2> SUFFICES ASSUME NEW i \in DOMAIN parts', NEW j \in DOMAIN parts', i < j,
                      ks[i].disk = ks[j].disk
               PROVE  End(i)' + Ebr(j)' <= Start(j)'
    BY <1>4
  <2>1. i \in DOMAIN parts
    BY <1>11
  <2>2. CASE j \in DOMAIN parts
    BY <1>14, <2>1, <2>2 DEF PlacedInv
  <2>3. CASE j = n
    <3>1. End(i) \in Nat /\ End(i) <= off
      BY <1>4, <1>7, <2>1, <2>3, PartsAre DEF PlacedInv, PartPlaced
    <3>2. Ebr(j)' = IF ptable = "msdos" /\ num > 4 THEN 1 ELSE 0
      BY <1>4, <1>14, <2>3 DEF Ebr
    <3>3. CASE ptable = "msdos" /\ num > 4
      BY <1>6, <1>8, <1>14, <2>1, <2>3, <3>1, <3>2, <3>3
    <3>4. CASE ~(ptable = "msdos" /\ num > 4)
      BY <1>8, <1>14, <2>1, <2>3, <3>1, <3>2, <3>4
    <3> QED
      BY <3>3, <3>4
  <2> QED
    BY <1>11, <2>2, <2>3
<1>24. PlacedInv'
  <2>1. \A i \in DOMAIN parts' : PartPlaced(i)'
    BY <1>11, <1>21, <1>22
  <2> QED
    BY <1>18, <1>20, <1>23, <2>1 DEF PlacedInv
<1>25. NumberInv'
  <2> SUFFICES ASSUME NEW c \in Disks, \A i \in DOMAIN ks : ks[i].disk = c
               PROVE  /\ disks'[c].real = Cardinality(InTable(n))
                      /\ \A m \in DOMAIN parts' :
                            Num(m)' = Numbered(Cardinality(InTable(m)), ks[m].noTable)
    <3>1. \A m : InTable(m)' = InTable(m)
      BY <1>4 DEF InTable
    <3> QED
      BY <1>4, <1>11, <1>15, <3>1 DEF NumberInv
  <2>1. c = d
    BY <1>4
  <2>2. /\ disks[c].real = Cardinality(InTable(Len(parts)))
        /\ \A m \in DOMAIN parts : Num(m) = Numbered(Cardinality(InTable(m)), ks[m].noTable)
    BY DEF NumberInv
  <2>3. Cardinality(InTable(n)) = Cardinality(InTable(Len(parts))) + (IF ks[n].noTable THEN 0 ELSE 1)
    BY <1>3, <1>4, <1>9, InTableGrows
  <2>4. real = Cardinality(InTable(n))
    BY <1>4, <2>1, <2>2, <2>3
  <2> QED
    BY <1>2, <1>11, <1>13, <1>14, <2>1, <2>2, <2>4
<1> QED
  BY <1>16, <1>24, <1>25

-----------------------------------------------------------------------------
(* What wic appends to /etc/fstab, and what of it is there: without a      *)
(* failure before it is put back, the lines of one run.                    *)
FstabLines == {<<i, PartNum(i)>> : i \in {j \in Mounted : PartNum(j) # 0}}

FstabInv ==
    /\ FstabLines = {} => fstab = <<>> /\ fstabOrig = NoFile /\ ~fstabCut
    /\ FstabLines # {} =>
         /\ fstab \in Seq({FstabLines}) /\ fstabOrig \in {NoFile} \cup Seq({FstabLines})
         /\ wicStep = "prepare" => fstabOrig \in Seq({FstabLines})
         /\ ~fstabCut /\ wicStep = "prepare" => fstabOrig = <<>> /\ fstab = <<FstabLines>>
         /\ ~fstabCut /\ wicStep \in {"layout", "format", "assemble", "finished"} =>
              captured = <<FstabLines>>
    /\ ~fstabCut /\ wicStep # "prepare" => fstab = <<>>
    /\ fstabCut \in BOOLEAN

(* A finished image has all partitions on its one disk.                    *)
WrittenInv ==
    wicStep = "finished" =>
        /\ onDisk = [d \in Disks |-> IF d \in UsedDisks THEN Sourced ELSE {}]
        /\ Sourced = {} \/ Cardinality(UsedDisks) = 1

WicInv == WicWorkInv /\ PlacedInv /\ NumberInv /\ FstabInv /\ WrittenInv

LEMMA NotAFile == ASSUME NEW L, L # {} PROVE NoFile \notin Seq({L})
<1>1. NoFile[1] = {} /\ 1 \in DOMAIN NoFile
  BY DEF NoFile
<1>2. \A s \in Seq({L}) : \A i \in DOMAIN s : s[i] = L
  OBVIOUS
<1> QED
  BY <1>1, <1>2

LEMMA LinesStay ==
    ASSUME UNCHANGED <<ks, ptable>>
    PROVE  /\ FstabLines' = FstabLines /\ Sourced' = Sourced /\ UsedDisks' = UsedDisks
           /\ Mounted' = Mounted /\ \A n : PartNum(n)' = PartNum(n)
<1>1. \A r, b : Numbered(r, b)' = Numbered(r, b)
  BY DEF Numbered, Logical
<1>2. \A n : PartNum(n)' = PartNum(n)
  BY <1>1 DEF PartNum
<1>3. Mounted' = Mounted
  BY DEF Mounted
<1> QED
  BY <1>2, <1>3 DEF FstabLines, Sourced, UsedDisks

LEMMA WicStart == WicInit => WicInv
<1> SUFFICES ASSUME WicInit PROVE WicInv
  OBVIOUS
<1>1. /\ ks \in Kickstarts /\ ptable \in {"msdos", "gpt"} /\ wicStep = "idle" /\ disks = NewDisks
      /\ parts = <<>> /\ fstab = <<>> /\ fstabOrig = NoFile /\ fstabCut = FALSE
  BY DEF WicInit
<1>2. PlacedInv /\ NumberInv
  BY <1>1, NothingPlaced DEF NothingLaidOut
<1>3. WicWorkInv
  <2>1. disks \in [Disks -> DiskState]
    BY <1>1, NewDisksAre
  <2>2. parts \in Seq(Sector) /\ Len(parts) = 0
    BY <1>1
  <2>3. Len(parts) <= Len(ks)
    BY <1>1, <2>2, WicSizes
  <2> QED
    BY <1>1, <2>1, <2>2, <2>3 DEF WicWorkInv
<1>4. FstabInv
  <2>1. fstab \in Seq({FstabLines})
    BY <1>1
  <2> QED
    BY <1>1, <2>1 DEF FstabInv
<1>5. WrittenInv
  BY <1>1 DEF WrittenInv
<1> QED
  BY <1>2, <1>3, <1>4, <1>5 DEF WicInv

LEMMA WicWrites == ASSUME WicInv, WriteFstab PROVE WicInv'
<1>1. /\ wicStep \in {"idle", "finished", "failed"} /\ wicStep' = "prepare"
      /\ IF FstabLines = {} THEN UNCHANGED <<fstab, fstabOrig>>
         ELSE fstab' = Append(fstab, FstabLines) /\ fstabOrig' = fstab
      /\ disks' = NewDisks /\ parts' = <<>> /\ ks' = ks /\ ptable' = ptable /\ fstabCut' = fstabCut
  BY DEF WriteFstab, FstabLines
<1>2. ks \in Kickstarts /\ ptable \in {"msdos", "gpt"}
  BY DEF WicInv, WicWorkInv
<1>3. NewDisks' = NewDisks
  BY <1>1 DEF NewDisks, Overhead
<1>4. WicWorkInv'
  <2>1. disks' \in [Disks -> DiskState]
    BY <1>1, <1>2, NewDisksAre
  <2>2. parts' \in Seq(Sector) /\ Len(parts') = 0
    BY <1>1
  <2>3. Len(parts') <= Len(ks')
    BY <1>1, <1>2, <2>2, WicSizes
  <2> QED
    BY <1>1, <1>2, <1>3, <2>1, <2>2, <2>3 DEF WicWorkInv
<1>5. PlacedInv' /\ NumberInv'
  <2>1. NothingLaidOut'
    BY <1>1, <1>2, <1>3 DEF NothingLaidOut
  <2> QED
    BY <2>1, NothingPlaced, PTL
<1>6. FstabLines' = FstabLines
  BY <1>1, LinesStay
<1>7. FstabInv'
  <2>1. FstabInv
    BY DEF WicInv
  <2>2. CASE FstabLines = {}
    BY <1>1, <1>6, <2>1, <2>2 DEF FstabInv
  <2>3. CASE FstabLines # {}
    <3>1. fstab \in Seq({FstabLines}) /\ fstab' = Append(fstab, FstabLines) /\ fstabOrig' = fstab
      BY <1>1, <2>1, <2>3 DEF FstabInv
    <3>2. fstab' \in Seq({FstabLines})
      BY <3>1
    <3>3. ~fstabCut => fstab = <<>>
      BY <1>1, <2>1 DEF FstabInv
    <3>4. fstab = <<>> => fstab' = <<FstabLines>>
      BY <3>1
    <3> QED
      BY <1>1, <1>6, <2>1, <2>3, <3>1, <3>2, <3>3, <3>4 DEF FstabInv
  <2> QED
    BY <2>2, <2>3
<1>8. WrittenInv'
  BY <1>1 DEF WrittenInv
<1> QED
  BY <1>4, <1>5, <1>7, <1>8 DEF WicInv

LEMMA WicPrepares == ASSUME WicInv, Prepare PROVE WicInv'
<1>1. /\ wicStep = "prepare" /\ ks' = ks /\ ptable' = ptable /\ disks' = disks /\ parts' = parts
  BY DEF Prepare
<1>2. \/ /\ wicStep' = "layout" /\ captured' = fstab /\ fstabOrig' = NoFile /\ fstabCut' = fstabCut
         /\ fstab' = (IF fstabOrig = NoFile THEN fstab ELSE fstabOrig)
      \/ /\ wicStep' = "failed" /\ fstabCut' = (fstabOrig # NoFile)
         /\ fstab' = fstab /\ fstabOrig' = fstabOrig
  BY DEF Prepare
<1>3. WicWorkInv /\ PlacedInv /\ NumberInv /\ FstabInv
  BY DEF WicInv
<1>4. PlacedInv' /\ NumberInv'
  BY <1>1, <1>3, PlacedStays DEF LayoutStays
<1>5. parts = <<>> /\ Len(parts) < Len(ks)
  BY <1>1, <1>3, WicSizes DEF WicWorkInv
<1>6. WicWorkInv'
  BY <1>1, <1>2, <1>3, <1>5 DEF WicWorkInv
<1>7. FstabLines' = FstabLines
  BY <1>1, LinesStay
<1>8. FstabInv'
  <2>1. CASE FstabLines = {}
    <3>1. fstab' = <<>> /\ fstabOrig' = NoFile /\ ~fstabCut'
      BY <1>2, <1>3, <2>1 DEF FstabInv
    <3>2. fstabCut' \in BOOLEAN
      BY <1>2, <1>3 DEF FstabInv
    <3> QED
      BY <1>7, <2>1, <3>1, <3>2 DEF FstabInv
  <2>2. CASE FstabLines # {}
    <3>1. /\ fstab \in Seq({FstabLines}) /\ fstabOrig \in Seq({FstabLines})
          /\ ~fstabCut => fstabOrig = <<>> /\ fstab = <<FstabLines>>
          /\ fstabCut \in BOOLEAN
      BY <1>1, <1>3, <2>2 DEF FstabInv
    <3>2. fstabOrig # NoFile
      BY <2>2, <3>1, NotAFile
    <3>3. CASE wicStep' = "layout"
      <4>1. captured' = fstab /\ fstabOrig' = NoFile /\ fstabCut' = fstabCut /\ fstab' = fstabOrig
        BY <1>2, <3>2, <3>3
      <4> QED
        BY <1>7, <2>2, <3>1, <3>3, <4>1 DEF FstabInv
    <3>4. CASE wicStep' = "failed"
      <4>1. fstabCut' = (fstabOrig # NoFile) /\ fstab' = fstab /\ fstabOrig' = fstabOrig
        BY <1>2, <3>4
      <4>2. fstabCut' \in BOOLEAN /\ fstabCut'
        BY <3>2, <4>1
      <4>3. wicStep' # "prepare" /\ fstab' \in Seq({FstabLines})
            /\ fstabOrig' \in {NoFile} \cup Seq({FstabLines})
        BY <3>1, <3>4, <4>1
      <4>4. FstabLines' # {} /\ FstabLines' = FstabLines
        BY <1>7, <2>2
      <4> QED
        BY <4>2, <4>3, <4>4 DEF FstabInv
    <3> QED
      BY <1>2, <3>3, <3>4
  <2> QED
    BY <2>1, <2>2
<1>9. WrittenInv'
  BY <1>2 DEF WrittenInv
<1> QED
  BY <1>4, <1>6, <1>8, <1>9 DEF WicInv

(* Steps that leave fstab as it is.                                        *)
LEMMA FstabStays ==
    ASSUME FstabInv, UNCHANGED <<ks, ptable, fstab, fstabOrig, captured, fstabCut>>,
           wicStep \in {"layout", "format", "assemble"},
           wicStep' \in {"layout", "format", "assemble", "finished", "failed"}
    PROVE  FstabInv'
<1>1. FstabLines' = FstabLines
  BY LinesStay
<1> QED
  BY <1>1 DEF FstabInv

LEMMA WicLaysOut == ASSUME WicInv, LayoutPartition PROVE WicInv'
<1>1. /\ wicStep = "layout" /\ wicStep' \in {"format", "layout", "failed"}
      /\ UNCHANGED <<ks, ptable, fstab, fstabOrig, captured, fstabCut>>
  BY DEF LayoutPartition
<1>2. WicWorkInv /\ PlacedInv /\ NumberInv /\ FstabInv
  BY DEF WicInv
<1>3. FstabInv'
  BY <1>1, <1>2, FstabStays
<1>4. WrittenInv'
  BY <1>1 DEF WrittenInv
<1>5. CASE parts' # parts
  BY <1>2, <1>3, <1>4, <1>5, PlacesOne DEF WicInv
<1>6. CASE parts' = parts
  <2>1. \A x : Append(parts, x) # parts
    <3>1. \A x : Len(Append(parts, x)) = Len(parts) + 1 /\ Len(parts) \in Nat
      BY <1>2, AppendIs, PartsAre DEF WicWorkInv
    <3> QED
      BY <3>1
  <2>2. disks' = disks /\ wicStep' = "failed"
    BY <1>6, <2>1 DEF LayoutPartition
  <2>3. PlacedInv' /\ NumberInv'
    BY <1>1, <1>2, <1>6, <2>2, PlacedStays DEF LayoutStays
  <2>4. WicWorkInv'
    BY <1>1, <1>2, <1>6, <2>2 DEF WicWorkInv
  <2> QED
    BY <1>3, <1>4, <2>3, <2>4 DEF WicInv
<1> QED
  BY <1>5, <1>6

LEMMA WicFormats == ASSUME WicInv, Format PROVE WicInv'
<1>1. /\ wicStep = "format" /\ wicStep' \in {"failed", "assemble"}
      /\ UNCHANGED <<ks, ptable, disks, parts, fstab, fstabOrig, captured, fstabCut>>
  BY DEF Format
<1>2. WicWorkInv /\ PlacedInv /\ NumberInv /\ FstabInv
  BY DEF WicInv
<1>3. FstabInv'
  BY <1>1, <1>2, FstabStays
<1>4. PlacedInv' /\ NumberInv'
  BY <1>1, <1>2, PlacedStays DEF LayoutStays
<1>5. WicWorkInv'
  BY <1>1, <1>2 DEF WicWorkInv
<1>6. WrittenInv'
  BY <1>1 DEF WrittenInv
<1> QED
  BY <1>3, <1>4, <1>5, <1>6 DEF WicInv

LEMMA WicAssembles == ASSUME WicInv, Assemble PROVE WicInv'
<1>1. /\ wicStep = "assemble" /\ wicStep' \in {"failed", "finished"}
      /\ UNCHANGED <<ks, ptable, disks, parts, fstab, fstabOrig, captured, fstabCut>>
  BY DEF Assemble
<1>2. WicWorkInv /\ PlacedInv /\ NumberInv /\ FstabInv
  BY DEF WicInv
<1>3. FstabInv'
  BY <1>1, <1>2, FstabStays
<1>4. PlacedInv' /\ NumberInv'
  BY <1>1, <1>2, PlacedStays DEF LayoutStays
<1>5. WicWorkInv'
  BY <1>1, <1>2 DEF WicWorkInv
<1>6. WrittenInv'
  <2>1. Sourced' = Sourced /\ UsedDisks' = UsedDisks
    BY <1>1, LinesStay
  <2>2. wicStep' = "finished" =>
           /\ onDisk' = [d \in Disks |-> IF d \in UsedDisks THEN Sourced ELSE {}]
           /\ Sourced = {} \/ Cardinality(UsedDisks) = 1
    BY DEF Assemble
  <2> QED
    BY <2>1, <2>2 DEF WrittenInv
<1> QED
  BY <1>3, <1>4, <1>5, <1>6 DEF WicInv

LEMMA WicStays == ASSUME WicInv, UNCHANGED wicVars PROVE WicInv'
<1>1. UNCHANGED <<ks, ptable, wicStep, disks, parts, fstab, fstabOrig, captured, onDisk, fstabCut>>
  BY DEF wicVars
<1>2. WicWorkInv /\ PlacedInv /\ NumberInv /\ FstabInv /\ WrittenInv
  BY DEF WicInv
<1>3. PlacedInv' /\ NumberInv'
  BY <1>1, <1>2, PlacedStays DEF LayoutStays
<1>4. /\ FstabLines' = FstabLines /\ Sourced' = Sourced /\ UsedDisks' = UsedDisks
  BY <1>1, LinesStay
<1>5. NewDisks' = NewDisks
  BY <1>1 DEF NewDisks, Overhead
<1>6. WicWorkInv'
  BY <1>1, <1>2, <1>5 DEF WicWorkInv
<1>7. FstabInv'
  BY <1>1, <1>2, <1>4 DEF FstabInv
<1>8. WrittenInv'
  BY <1>1, <1>2, <1>4 DEF WrittenInv
<1> QED
  BY <1>3, <1>6, <1>7, <1>8 DEF WicInv

(* What is asked of a finished image.                                      *)
LEMMA WicDone == WicInv => WicPlaced
<1> SUFFICES ASSUME WicInv, wicStep = "finished" PROVE WicPlaced
  BY DEF WicPlaced
<1>1. WicWorkInv /\ PlacedInv /\ NumberInv /\ FstabInv /\ WrittenInv
  BY DEF WicInv
<1>2. /\ DOMAIN ks = DOMAIN parts /\ DOMAIN ks = 1..Len(ks) /\ Len(ks) \in Nat
      /\ \A i \in DOMAIN ks : ks[i].disk \in UsedDisks /\ ks[i].disk \in Disks
                              /\ ks[i].noTable \in BOOLEAN
  <2>1. Len(parts) = Len(ks) /\ ks \in Kickstarts
    BY <1>1 DEF WicWorkInv
  <2> QED
    BY <1>1, <2>1, PartsAre, WicSizes DEF UsedDisks
<1>3. \A i, j \in DOMAIN ks : i < j /\ ks[i].disk = ks[j].disk =>
              End(i) + (IF ptable = "msdos" /\ Num(j) > 4 THEN 1 ELSE 0) <= Start(j)
  BY <1>1, <1>2 DEF PlacedInv, Ebr
<1>4. /\ onDisk = [d \in Disks |-> IF d \in UsedDisks THEN Sourced ELSE {}]
      /\ Sourced = {} \/ Cardinality(UsedDisks) = 1
  BY <1>1 DEF WrittenInv
<1>5. ASSUME Cardinality(UsedDisks) = 1, NEW i \in DOMAIN ks, NEW j \in DOMAIN ks
      PROVE  ks[i].disk = ks[j].disk
  <2>1. IsFiniteSet(1..Len(ks))
    <3>1. 1 \in Int /\ Len(ks) \in Int
      BY <1>2
    <3> QED
      BY <3>1, FS_Interval
  <2>2. IsFiniteSet(UsedDisks)
    <3>1. UsedDisks = {ks[n].disk : n \in 1..Len(ks)}
      BY <1>2 DEF UsedDisks
    <3>2. [n \in 1..Len(ks) |-> ks[n].disk] \in Surjection(1..Len(ks), UsedDisks)
      BY <3>1 DEF Surjection
    <3> QED
      BY <2>1, <3>2, FS_Surjection
  <2>3. PICK d : UsedDisks = {d}
    BY <1>5, <2>2, FS_Singleton
  <2> QED
    BY <1>2, <2>3
<1>6. ASSUME NEW i \in DOMAIN ks
      PROVE  LET d == ks[i].disk IN
              /\ Overhead <= Start(i)
              /\ End(i) <= Size(d) - (IF ptable = "gpt" THEN 34 ELSE 0)
              /\ ks[i].align # 0 => Start(i) % (2 * ks[i].align) = 0
              /\ ptable = "msdos" /\ Num(i) > 4 => \E e \in Extended(d) : Start(e) <= Start(i)
              /\ i \in Sourced => i \in onDisk[d]
  <2>1. PICK d \in Disks : d = ks[i].disk /\ d \in UsedDisks
    BY <1>2
  <2>2. PartPlaced(i)
    BY <1>1, <1>2 DEF PlacedInv
  <2>3. disks[d].offset \in Nat
    BY <1>1, PartsAre
  <2>4. Size(d) - (IF ptable = "gpt" THEN 34 ELSE 0) = disks[d].offset
    <3>1. CASE ptable = "gpt"
      BY <2>3, <3>1 DEF Size
    <3>2. CASE ptable # "gpt"
      BY <2>3, <3>2 DEF Size
    <3> QED
      BY <3>1, <3>2
  <2>5. ptable = "msdos" /\ Num(i) > 4 => \E e \in Extended(d) : Start(e) <= Start(i)
    BY <1>2, <2>1, <2>2 DEF PartPlaced, Extended
  <2>6. i \in Sourced => i \in onDisk[d]
    BY <1>4, <2>1
  <2> QED
    BY <2>1, <2>2, <2>4, <2>5, <2>6 DEF PartPlaced
<1>7. ASSUME NEW d \in Disks, NEW i \in onDisk[d] PROVE ks[i].disk = d
  <2>1. d \in UsedDisks /\ i \in Sourced
    BY <1>4
  <2>2. PICK j \in DOMAIN ks : d = ks[j].disk
    BY <2>1 DEF UsedDisks
  <2>3. i \in DOMAIN ks /\ Cardinality(UsedDisks) = 1
    BY <1>4, <2>1 DEF Sourced
  <2> QED
    BY <1>5, <2>2, <2>3
<1>8. ASSUME NEW n \in DOMAIN ks
      PROVE  Cardinality(InTable(n)) \in Nat /\ (~ks[n].noTable => Cardinality(InTable(n)) # 0)
  <2>1. n \in Nat /\ n - 1 \in Nat /\ (n - 1) + 1 = n
    BY <1>2
  <2>2. PICK m \in Nat : m = n - 1 /\ n = m + 1
    BY <2>1
  <2>3. Cardinality(InTable(m)) \in Nat
        /\ Cardinality(InTable(n)) = Cardinality(InTable(m)) + (IF ks[n].noTable THEN 0 ELSE 1)
    BY <1>2, <2>2, InTableGrows
  <2>4. CASE ks[n].noTable
    BY <2>3, <2>4
  <2>5. CASE ~ks[n].noTable
    BY <2>3, <2>5
  <2> QED
    BY <2>4, <2>5
<1>9. ASSUME Cardinality(UsedDisks) = 1, \A i \in DOMAIN ks : ks[i].noTable => Num(i) = 0,
             NEW i \in DOMAIN ks
      PROVE  PartNum(i) = Num(i)
  <2>1. \A j \in DOMAIN ks : ks[j].disk = ks[i].disk
    BY <1>5, <1>9
  <2>2. Num(i) = Numbered(Cardinality(InTable(i)), ks[i].noTable)
    BY <1>1, <1>2, <2>1 DEF NumberInv
  <2>3. CASE ks[i].noTable
    BY <1>9, <2>3 DEF PartNum
  <2>4. CASE ~ks[i].noTable
    <3>1. ks[i].noTable = FALSE
      BY <1>2, <2>4
    <3> QED
      BY <2>2, <3>1 DEF PartNum, InTable
  <2> QED
    BY <2>3, <2>4
<1>10. ASSUME ~fstabCut, NEW i \in Mounted, ~ks[i].noTable
       PROVE  Cardinality({n \in DOMAIN captured : \E line \in captured[n] : line[1] = i}) = 1
  <2>1. i \in DOMAIN ks
    BY DEF Mounted
  <2>2. PartNum(i) # 0
    <3>1. PartNum(i) = Numbered(Cardinality(InTable(i)), FALSE)
      BY <1>10 DEF PartNum, InTable
    <3>2. Cardinality(InTable(i)) \in Nat /\ Cardinality(InTable(i)) # 0
      BY <1>8, <1>10, <2>1
    <3>3. \A r \in Nat : r # 0 => Numbered(r, FALSE) # 0
      BY DEF Numbered
    <3> QED
      BY <3>1, <3>2, <3>3
  <2>3. <<i, PartNum(i)>> \in FstabLines
    BY <2>2 DEF FstabLines
  <2>4. captured = <<FstabLines>>
    BY <1>1, <1>10, <2>3 DEF FstabInv
  <2>5. DOMAIN captured = {1} /\ captured[1] = FstabLines
    BY <2>4
  <2>6. \E line \in captured[1] : line[1] = i
    <3>1. <<i, PartNum(i)>>[1] = i
      OBVIOUS
    <3> QED
      BY <2>3, <2>5, <3>1
  <2>7. {n \in DOMAIN captured : \E line \in captured[n] : line[1] = i} = {1}
    BY <2>5, <2>6
  <2> QED
    BY <2>7, FS_Singleton
<1>11. ~fstabCut => fstab = <<>>
  BY <1>1 DEF FstabInv
<1> QED
  BY <1>3, <1>6, <1>7, <1>9, <1>10, <1>11 DEF WicPlaced

(* A finished image is as the property demands, for any kickstart files    *)
(* and any number of runs, failed ones among them.                         *)
THEOREM WicPlacedHolds == WicSpec => []WicPlaced
<1>1. WicInit => WicInv
  BY WicStart
<1>2. WicInv /\ [WicNext]_wicVars => WicInv'
  BY WicWrites, WicPrepares, WicLaysOut, WicFormats, WicAssembles, WicStays DEF WicNext
<1>3. WicInv => WicPlaced
  BY WicDone
<1> QED
  BY <1>1, <1>2, <1>3, PTL DEF WicSpec

(* What wic keeps beside the layout: the files of the prepared partitions, *)
(* the disks that have them, and whether a deployed image is still there.  *)
WicFilesInv ==
    /\ onDisk \in [Disks -> SUBSET DOMAIN ks] /\ deployed \in BOOLEAN
    /\ files \subseteq {File(i) : i \in DOMAIN ks}

LEMMA WicFilesStep == ASSUME WicFilesInv, [WicNext]_wicVars PROVE WicFilesInv'
<1>1. ASSUME ks' = ks, onDisk' \in [Disks -> SUBSET DOMAIN ks], deployed' \in BOOLEAN,
             files' \subseteq {File(i) : i \in DOMAIN ks}
      PROVE  WicFilesInv'
  BY <1>1 DEF WicFilesInv, File
<1>2. Sourced \subseteq DOMAIN ks
  BY DEF Sourced
<1>3. CASE WriteFstab
  <2>1. onDisk' = [d \in Disks |-> {}] /\ files' = {} /\ ks' = ks /\ deployed' = deployed
    BY <1>3 DEF WriteFstab
  <2> QED
    BY <1>1, <2>1 DEF WicFilesInv
<1>4. CASE Prepare
  <2>1. /\ ks' = ks /\ deployed' = deployed /\ onDisk' = onDisk
        /\ files' = {File(i) : i \in Sourced} \/ files' = files
    BY <1>4 DEF Prepare
  <2> QED
    BY <1>1, <1>2, <2>1 DEF WicFilesInv
<1>5. CASE LayoutPartition \/ Format
  <2>1. ks' = ks /\ deployed' = deployed /\ onDisk' = onDisk /\ files' = files
    BY <1>5 DEF LayoutPartition, Format
  <2> QED
    BY <1>1, <2>1 DEF WicFilesInv
<1>6. CASE Assemble
  <2>1. /\ ks' = ks /\ files' = {}
        /\ \/ /\ onDisk' = [d \in Disks |-> IF d \in UsedDisks THEN Sourced ELSE {}]
              /\ deployed' = (deployed /\ ~UsesDeployed)
           \/ onDisk' = onDisk /\ deployed' \in {deployed, deployed /\ ~UsesDeployed}
    BY <1>6 DEF Assemble
  <2>2. onDisk' \in [Disks -> SUBSET DOMAIN ks]
    BY <1>2, <2>1 DEF WicFilesInv
  <2>3. deployed' \in BOOLEAN
    BY <2>1 DEF WicFilesInv
  <2> QED
    BY <1>1, <2>1, <2>2, <2>3
<1>7. CASE UNCHANGED wicVars
  <2>1. ks' = ks /\ deployed' = deployed /\ onDisk' = onDisk /\ files' = files
    BY <1>7 DEF wicVars
  <2> QED
    BY <1>1, <2>1 DEF WicFilesInv
<1> QED
  BY <1>3, <1>4, <1>5, <1>6, <1>7 DEF WicNext

(* The state of wic is what WicImage says, for any kickstart files.        *)
THEOREM WicTypeHolds == WicSpec => []WicTypeOK
<1>1. WicInit => WicInv /\ WicFilesInv
  <2>1. WicInit => WicFilesInv
    BY DEF WicInit, WicFilesInv
  <2> QED
    BY <2>1, WicStart
<1>2. WicInv /\ [WicNext]_wicVars => WicInv'
  BY WicWrites, WicPrepares, WicLaysOut, WicFormats, WicAssembles, WicStays DEF WicNext
<1>3. WicFilesInv /\ [WicNext]_wicVars => WicFilesInv'
  BY WicFilesStep
<1>4. WicInv /\ WicFilesInv => WicTypeOK
  BY DEF WicInv, WicWorkInv, WicFilesInv, WicTypeOK
<1> QED
  BY <1>1, <1>2, <1>3, <1>4, PTL DEF WicSpec

-----------------------------------------------------------------------------
(* A well-founded relation on the naturals has a least member of each set. *)
LEMMA SmallestExists ==
  ASSUME NEW S \in SUBSET Nat, S # {}, NEW R, IsWellFoundedOn(R, Nat)
  PROVE  \E i \in S : \A j \in S : ~(<<j, i>> \in R)
  BY WFMin

(* Min finds the least number of a set.                                    *)
LEMMA SmallestIs ==
  ASSUME NEW S \in SUBSET Nat, S # {}
  PROVE  Min(S) \in S /\ \A y \in S : Min(S) <= y
<1>1. PICK R : IsWellFoundedOn(R, Nat) /\ \A j, i \in Nat : j < i => <<j, i>> \in R
  BY NatLessThanWellFounded DEF OpToRel
<1>2. PICK i \in S : \A j \in S : ~(<<j, i>> \in R)
  BY <1>1, SmallestExists
<1>3. \A j \in S : i <= j
  <2> SUFFICES ASSUME NEW j \in S PROVE i <= j
    OBVIOUS
  <2>1. ~(j < i) /\ i \in Nat /\ j \in Nat
    BY <1>1, <1>2
  <2> QED
    BY <2>1
<1> QED
  BY <1>3 DEF Min

(* And Max the greatest of a set that is bounded.                          *)
LEMMA GreatestOf ==
  ASSUME NEW n \in Nat, NEW S \in SUBSET (0..n), S # {}
  PROVE  Max(S) \in S /\ \A y \in S : y <= Max(S)
<1>. DEFINE T == {n - x : x \in S}
<1>1. T \in SUBSET Nat /\ T # {}
  <2>1. \A x \in S : n - x \in Nat
    OBVIOUS
  <2>2. PICK x \in S : TRUE
    OBVIOUS
  <2>3. n - x \in T
    OBVIOUS
  <2> QED
    BY <2>1, <2>3
<1>. HIDE DEF T
<1>2. Min(T) \in T /\ \A y \in T : Min(T) <= y
  BY <1>1, SmallestIs
<1>3. PICK x \in S : Min(T) = n - x
  BY <1>2 DEF T
<1>4. \A y \in S : y <= x
  BY <1>2, <1>3 DEF T
<1> QED
  BY <1>3, <1>4 DEF Max

-----------------------------------------------------------------------------
(* The file that is copied: its blocks with data and their extents.        *)
SourceInv ==
    /\ imageSize \in Nat /\ BlocksCnt \in Nat /\ mapped \subseteq 0..BlocksCnt
    /\ \A b \in mapped : b < BlocksCnt
    /\ extentStarts \subseteq mapped /\ \A b \in mapped : b - 1 \notin mapped => b \in extentStarts

LEMMA ExtentIs ==
    ASSUME SourceInv, NEW e \in extentStarts
    PROVE  /\ ExtentLast(e) \in mapped /\ ExtentLast(e) \in Nat /\ e \in Nat /\ e <= ExtentLast(e)
           /\ e..ExtentLast(e) \subseteq mapped
           /\ \A d \in extentStarts : d <= e \/ d > ExtentLast(e)
           /\ \A l \in mapped : e..l \subseteq mapped /\ (e + 1)..l \cap extentStarts = {}
                 => l <= ExtentLast(e)
<1>. DEFINE S == {l \in mapped : e..l \subseteq mapped /\ (e + 1)..l \cap extentStarts = {}}
<1>1. e \in mapped /\ BlocksCnt \in Nat /\ mapped \subseteq 0..BlocksCnt /\ e \in Nat
  BY DEF SourceInv
<1>2. e \in S
  BY <1>1
<1>3. S \in SUBSET (0..BlocksCnt)
  BY <1>1
<1>4. ExtentLast(e) = Max(S)
  BY DEF ExtentLast
<1>5. Max(S) \in S /\ \A y \in S : y <= Max(S)
  BY <1>1, <1>2, <1>3, GreatestOf
<1>6. ExtentLast(e) \in S /\ \A y \in S : y <= ExtentLast(e)
  BY <1>4, <1>5
<1>. HIDE <1>4, <1>5
<1>7. ExtentLast(e) \in Nat /\ e <= ExtentLast(e)
  BY <1>1, <1>2, <1>3, <1>6
<1>8. \A d \in extentStarts : d \in Nat
  BY <1>1 DEF SourceInv
<1> QED
  BY <1>1, <1>6, <1>7, <1>8

LEMMA ExtentsApart ==
    ASSUME SourceInv, NEW d \in extentStarts, NEW e \in extentStarts, d < e
    PROVE  ExtentLast(d) < e
  BY ExtentIs

(* Each block with data is in an extent.                                   *)
LEMMA ExtentOf ==
    ASSUME SourceInv, NEW m \in mapped
    PROVE  \E e \in extentStarts : e <= m /\ m <= ExtentLast(e)
<1>0. m \in Nat /\ BlocksCnt \in Nat /\ mapped \subseteq 0..BlocksCnt /\ mapped \subseteq Nat
      /\ extentStarts \subseteq mapped
  BY DEF SourceInv
<1>. DEFINE S == {s \in 0..m : s..m \subseteq mapped}
            T == {s \in extentStarts : s..m \subseteq mapped /\ s <= m}
<1>1. S \in SUBSET Nat /\ m \in S
  BY <1>0
<1>2. PICK s \in S : \A y \in S : s <= y
  BY <1>1, SmallestIs
<1>3. s \in extentStarts
  <2>1. s \in mapped /\ s \in Nat /\ s <= m
    BY <1>0, <1>2
  <2>2. ASSUME s - 1 \in mapped PROVE FALSE
    <3>1. s - 1 \in 0..m
      BY <1>0, <2>1, <2>2
    <3>2. (s - 1)..m \subseteq mapped
      BY <1>0, <1>2, <2>1, <2>2
    <3> QED
      BY <1>2, <2>1, <3>1, <3>2
  <2> QED
    BY <2>1, <2>2 DEF SourceInv
<1>4. s \in T
  BY <1>0, <1>2, <1>3
<1>5. T \in SUBSET (0..m)
  <2> SUFFICES ASSUME NEW y \in T PROVE y \in 0..m
    OBVIOUS
  <2>1. y \in extentStarts /\ y <= m
    OBVIOUS
  <2>2. y \in Nat
    BY <1>0, <2>1
  <2> QED
    BY <1>0, <2>1, <2>2
<1>6. PICK e \in T : \A y \in T : y <= e
  BY <1>0, <1>4, <1>5, GreatestOf
<1>7. (e + 1)..m \cap extentStarts = {}
  <2> SUFFICES ASSUME NEW d \in extentStarts, d \in (e + 1)..m PROVE FALSE
    OBVIOUS
  <2>1. d \in Nat /\ e \in Nat /\ e < d /\ d <= m
    BY <1>0, <1>5, <1>6
  <2>2. d \in T
    BY <1>0, <1>6, <2>1
  <2> QED
    BY <1>6, <2>1, <2>2
<1>8. m <= ExtentLast(e)
  BY <1>6, <1>7, ExtentIs
<1> QED
  BY <1>6, <1>8

(* The answer of the ioctl: the first of the extents that are to come, and *)
(* at least one if there is one.                                           *)
LEMMA BufferIs ==
    ASSUME SourceInv, NEW b \in Nat
    PROVE  /\ Buffer(b) \subseteq ExtentsFrom(b)
           /\ \A d \in ExtentsFrom(b), e \in Buffer(b) : d < e => d \in Buffer(b)
           /\ ExtentsFrom(b) # {} => Buffer(b) # {}
<1>. DEFINE E == ExtentsFrom(b)
            Before(e) == {d \in E : d < e}
<1>1. E \subseteq Nat /\ E \subseteq 0..BlocksCnt /\ BlocksCnt \in Nat
  <2>1. E \subseteq extentStarts
    BY DEF ExtentsFrom
  <2>2. extentStarts \subseteq 0..BlocksCnt /\ BlocksCnt \in Nat
    BY DEF SourceInv
  <2>. HIDE DEF E
  <2>3. 0..BlocksCnt \subseteq Nat
    BY <2>2
  <2> QED
    BY <2>1, <2>2, <2>3
<1>2. Buffer(b) = {e \in E : Cardinality(Before(e)) < MaxExtents}
  BY DEF Buffer
<1>. HIDE DEF E
<1>3. IsFiniteSet(0..BlocksCnt)
  BY <1>1, FS_Interval
<1>4. IsFiniteSet(E)
  BY <1>1, <1>3, FS_Subset
<1>5. ASSUME NEW d \in E, NEW e \in Buffer(b), d < e PROVE d \in Buffer(b)
  <2>1. e \in E /\ Cardinality(Before(e)) < MaxExtents
    BY <1>2
  <2>2. Before(d) \subseteq Before(e)
    <3>1. d \in Nat /\ e \in Nat /\ \A x \in E : x \in Nat /\ (x < d => x < e)
      BY <1>1, <1>5, <2>1
    <3> QED
      BY <3>1
  <2>3. IsFiniteSet(Before(e))
    BY <1>4, FS_Subset
  <2>4. Cardinality(Before(d)) <= Cardinality(Before(e)) /\ IsFiniteSet(Before(d))
    BY <2>2, <2>3, FS_Subset
  <2>5. Cardinality(Before(d)) \in Nat /\ Cardinality(Before(e)) \in Nat
    BY <2>3, <2>4, FS_CardinalityType
  <2>6. Cardinality(Before(d)) < MaxExtents
    BY <2>1, <2>4, <2>5, CopyAssumption
  <2> QED
    BY <1>2, <2>6
<1>6. ASSUME E # {} PROVE Buffer(b) # {}
  <2>1. PICK e \in E : \A y \in E : e <= y
    BY <1>1, <1>6, SmallestIs
  <2>2. Before(e) = {}
    <3>1. \A x \in E : ~(x < e)
      BY <1>1, <2>1
    <3> QED
      BY <3>1
  <2>3. Cardinality(Before(e)) = 0
    BY <2>2, FS_EmptySet
  <2>4. e \in Buffer(b)
    BY <1>2, <2>3, CopyAssumption
  <2> QED
    BY <2>4
<1>7. Buffer(b) \subseteq E
  BY <1>2
<1> QED
  BY <1>5, <1>6, <1>7 DEF E

-----------------------------------------------------------------------------
(* Blocks and bytes.                                                       *)
LEMMA BlocksGrow ==
    ASSUME NEW a \in Int, NEW b \in Int, a < b
    PROVE  a * BlockSize + BlockSize <= b * BlockSize
<1>1. b - a - 1 \in Nat
  OBVIOUS
<1>2. (b - a - 1) * BlockSize \in Nat
  BY <1>1, CopyAssumption
<1>3. (b - a - 1) * BlockSize = b * BlockSize - a * BlockSize - BlockSize
  BY CopyAssumption
<1>4. a * BlockSize \in Int /\ b * BlockSize \in Int
  BY CopyAssumption
<1> QED
  BY <1>2, <1>3, <1>4, CopyAssumption

LEMMA BlockOf ==
  ASSUME NEW x \in Nat
  PROVE  /\ x \div BlockSize \in Nat /\ (x \div BlockSize) * BlockSize <= x
         /\ x < (x \div BlockSize) * BlockSize + BlockSize
  BY CopyAssumption

LEMMA BlockIs ==
  ASSUME NEW x \in Nat, NEW q \in Nat, q * BlockSize <= x, x < q * BlockSize + BlockSize
  PROVE  x \div BlockSize = q
<1>. DEFINE r == x \div BlockSize
<1>1. r \in Nat /\ r * BlockSize <= x /\ x < r * BlockSize + BlockSize
  BY BlockOf
<1>. HIDE DEF r
<1>2. q * BlockSize \in Nat /\ r * BlockSize \in Nat
  BY <1>1, CopyAssumption
<1>3. ~(q < r)
  BY <1>1, <1>2, BlocksGrow, CopyAssumption
<1>4. ~(r < q)
  BY <1>1, <1>2, BlocksGrow, CopyAssumption
<1> QED
  BY <1>1, <1>3, <1>4 DEF r

LEMMA SizeInBlocks ==
    ASSUME imageSize \in Nat
    PROVE  /\ BlocksCnt \in Nat /\ imageSize <= BlocksCnt * BlockSize
           /\ \A b \in Nat : b < BlocksCnt <=> b * BlockSize < imageSize
<1>. DEFINE c == BlocksCnt
<1>1. imageSize + BlockSize - 1 \in Nat
  BY CopyAssumption
<1>2. /\ c \in Nat /\ c * BlockSize <= imageSize + BlockSize - 1
      /\ imageSize + BlockSize - 1 < c * BlockSize + BlockSize
  BY <1>1, BlockOf DEF BlocksCnt
<1>. HIDE DEF c
<1>3. c * BlockSize \in Nat
  BY <1>2, CopyAssumption
<1>4. imageSize <= c * BlockSize
  BY <1>2, <1>3, CopyAssumption
<1>5. ASSUME NEW b \in Nat PROVE b < c <=> b * BlockSize < imageSize
  <2>1. b * BlockSize \in Nat
    BY CopyAssumption
  <2>2. ASSUME b < c PROVE b * BlockSize < imageSize
    <3>1. b * BlockSize + BlockSize <= c * BlockSize
      BY <1>2, <2>2, BlocksGrow
    <3> QED
      BY <1>2, <1>3, <2>1, <3>1, CopyAssumption
  <2>3. ASSUME ~(b < c) PROVE ~(b * BlockSize < imageSize)
    <3>1. c = b \/ c * BlockSize + BlockSize <= b * BlockSize
      BY <1>2, <2>3, BlocksGrow
    <3>2. c * BlockSize <= b * BlockSize
      BY <1>3, <2>1, <3>1, CopyAssumption
    <3> QED
      BY <1>3, <1>4, <2>1, <3>2
  <2> QED
    BY <2>2, <2>3
<1> QED
  BY <1>2, <1>4, <1>5 DEF c

-----------------------------------------------------------------------------
(* The blocks of ranges, what get_mapped_ranges makes of them.             *)
InRange(b, rs) == \E i \in DOMAIN rs : rs[i][1] <= b /\ b <= rs[i][2]
RangesOK(rs) == rs \in Seq(Int \X Int) /\ \A i \in DOMAIN rs : rs[i][1] <= rs[i][2]

LEMMA AppendRange ==
    ASSUME NEW rs, RangesOK(rs), NEW first \in Int, NEW last \in Int, first <= last
    PROVE  /\ RangesOK(Append(rs, <<first, last>>))
           /\ \A b \in Int : InRange(b, Append(rs, <<first, last>>))
                 <=> InRange(b, rs) \/ (first <= b /\ b <= last)
<1>. DEFINE new == Append(rs, <<first, last>>)
<1>1. /\ new \in Seq(Int \X Int) /\ DOMAIN new = 1..(Len(rs) + 1) /\ DOMAIN rs = 1..Len(rs)
      /\ Len(rs) \in Nat /\ new[Len(rs) + 1] = <<first, last>>
      /\ \A i \in DOMAIN rs : new[i] = rs[i] /\ rs[i] \in Int \X Int
  BY DEF RangesOK
<1>. HIDE DEF new
<1>2. <<first, last>>[1] = first /\ <<first, last>>[2] = last
  OBVIOUS
<1>3. \A i \in DOMAIN new : i \in DOMAIN rs \/ i = Len(rs) + 1
  BY <1>1
<1>4. RangesOK(new)
  BY <1>1, <1>2, <1>3 DEF RangesOK
<1>5. ASSUME NEW b \in Int
      PROVE  InRange(b, new) <=> InRange(b, rs) \/ (first <= b /\ b <= last)
  <2>1. ASSUME NEW i \in DOMAIN new, new[i][1] <= b, b <= new[i][2]
        PROVE  InRange(b, rs) \/ (first <= b /\ b <= last)
    BY <1>1, <1>2, <1>3, <2>1 DEF InRange
  <2>2. ASSUME NEW i \in DOMAIN rs, rs[i][1] <= b, b <= rs[i][2] PROVE InRange(b, new)
    <3>1. i \in DOMAIN new /\ new[i] = rs[i]
      BY <1>1
    <3> QED
      BY <2>2, <3>1 DEF InRange
  <2>3. ASSUME first <= b, b <= last PROVE InRange(b, new)
    <3>1. Len(rs) + 1 \in DOMAIN new
      BY <1>1
    <3> QED
      BY <1>1, <1>2, <2>3, <3>1 DEF InRange
  <2> QED
    BY <2>1, <2>2, <2>3 DEF InRange
<1> QED
  BY <1>4, <1>5 DEF new

LEMMA MergedIs ==
    ASSUME NEW rs, RangesOK(rs), NEW first \in Int, NEW last \in Int, first <= last
    PROVE  /\ RangesOK(Merged(rs, first, last))
           /\ \A b \in Int : InRange(b, Merged(rs, first, last))
                 <=> InRange(b, rs) \/ (first <= b /\ b <= last)
<1>1. CASE ~(rs # <<>> /\ rs[Len(rs)][2] = first - 1)
  BY <1>1, AppendRange DEF Merged
<1>2. CASE rs # <<>> /\ rs[Len(rs)][2] = first - 1
  <2>. DEFINE n == Len(rs)
              new == [rs EXCEPT ![n] = <<rs[n][1], last>>]
  <2>1. /\ n \in DOMAIN rs /\ \A i \in DOMAIN rs : rs[i] \in Int \X Int /\ rs[i][1] <= rs[i][2]
    BY <1>2 DEF RangesOK
  <2>2. /\ new \in Seq(Int \X Int) /\ DOMAIN new = DOMAIN rs
        /\ new[n] = <<rs[n][1], last>> /\ \A i \in DOMAIN rs : i # n => new[i] = rs[i]
    BY <2>1 DEF RangesOK
  <2>3. Merged(rs, first, last) = new
    BY <1>2 DEF Merged
  <2>. HIDE DEF new
  <2>4. new[n][1] = rs[n][1] /\ new[n][2] = last
    BY <2>2
  <2>5. rs[n][1] \in Int /\ rs[n][2] = first - 1 /\ rs[n][1] <= first - 1
    BY <1>2, <2>1
  <2>. HIDE DEF n
  <2>6. RangesOK(new)
    <3>1. new[n][1] <= new[n][2]
      BY <2>4, <2>5
    <3>2. \A i \in DOMAIN new : new[i][1] <= new[i][2]
      BY <2>1, <2>2, <3>1
    <3> QED
      BY <2>2, <3>2 DEF RangesOK
  <2>7. ASSUME NEW b \in Int
        PROVE  InRange(b, new) <=> InRange(b, rs) \/ (first <= b /\ b <= last)
    <3>1. (new[n][1] <= b /\ b <= new[n][2])
             <=> (rs[n][1] <= b /\ b <= rs[n][2]) \/ (first <= b /\ b <= last)
      BY <2>4, <2>5
    <3> QED
      BY <2>1, <2>2, <3>1 DEF InRange
  <2> QED
    BY <2>3, <2>6, <2>7
<1> QED
  BY <1>1, <1>2

LEMMA TailIs ==
    ASSUME NEW T, NEW s \in Seq(T), s # <<>>
    PROVE  /\ Tail(s) \in Seq(T) /\ DOMAIN Tail(s) = 1..(Len(s) - 1) /\ s[1] \in T
           /\ Len(s) \in Nat /\ 1 <= Len(s) /\ DOMAIN s = 1..Len(s)
           /\ \A i \in 1..(Len(s) - 1) : Tail(s)[i] = s[i + 1]
  OBVIOUS

LEMMA TailOfRanges ==
    ASSUME NEW rs, RangesOK(rs), rs # <<>>
    PROVE  /\ RangesOK(Tail(rs)) /\ rs[1][1] \in Int /\ rs[1][2] \in Int
           /\ \A b \in Int : InRange(b, rs) <=> (rs[1][1] <= b /\ b <= rs[1][2]) \/ InRange(b, Tail(rs))
<1>1. /\ Tail(rs) \in Seq(Int \X Int) /\ DOMAIN Tail(rs) = 1..(Len(rs) - 1) /\ 1 \in DOMAIN rs
      /\ Len(rs) \in Nat /\ DOMAIN rs = 1..Len(rs) /\ rs[1] \in Int \X Int
      /\ \A i \in DOMAIN Tail(rs) : Tail(rs)[i] = rs[i + 1]
  <2>1. rs \in Seq(Int \X Int)
    BY DEF RangesOK
  <2> QED
    BY <2>1, TailIs
<1>0. PICK n \in Nat : n = Len(rs) /\ DOMAIN rs = 1..n /\ DOMAIN Tail(rs) = 1..(n - 1)
  BY <1>1
<1>2. \A i \in DOMAIN Tail(rs) : i + 1 \in DOMAIN rs
  BY <1>0
<1>3. \A i \in DOMAIN rs : i = 1 \/ (i - 1 \in DOMAIN Tail(rs) /\ (i - 1) + 1 = i)
  BY <1>0
<1>4. RangesOK(Tail(rs))
  BY <1>1, <1>2 DEF RangesOK
<1>5. ASSUME NEW b \in Int
      PROVE  InRange(b, rs) <=> (rs[1][1] <= b /\ b <= rs[1][2]) \/ InRange(b, Tail(rs))
  <2>1. ASSUME NEW i \in DOMAIN rs, i # 1, rs[i][1] <= b, b <= rs[i][2] PROVE InRange(b, Tail(rs))
    <3>1. i - 1 \in DOMAIN Tail(rs) /\ Tail(rs)[i - 1] = rs[i]
      BY <1>1, <1>3, <2>1
    <3> QED
      BY <2>1, <3>1 DEF InRange
  <2>2. ASSUME NEW i \in DOMAIN Tail(rs), Tail(rs)[i][1] <= b, b <= Tail(rs)[i][2] PROVE InRange(b, rs)
    BY <1>1, <1>2, <2>2 DEF InRange
  <2> QED
    BY <1>1, <2>1, <2>2 DEF InRange
<1> QED
  BY <1>1, <1>4, <1>5

-----------------------------------------------------------------------------
(* How far the ranges go: up to the block the ioctl is asked for next, or  *)
(* to the next extent of its answer; FilemapSeek's place is a byte where   *)
(* a block begins.                                                         *)
Frontier == IF buffer = {} THEN block ELSE Min(buffer)
UpTo(n) == \A b \in Int : InRange(b, ranges) <=> b \in mapped /\ b < n
FiemapInv ==
    /\ block \in Nat /\ \A e \in buffer : block <= e
    /\ \A d \in extentStarts, e \in buffer : Frontier <= d /\ d < e => d \in buffer
    /\ \A e \in extentStarts : e < Frontier => ExtentLast(e) < Frontier
    /\ UpTo(Frontier)
SeekInv == buffer = {} /\ \E k \in Nat : block = k * BlockSize /\ UpTo(k)

(* What is not copied yet is in the ranges, and what was copied is in its  *)
(* place.                                                                  *)
CopiedInv ==
    /\ \A b \in Int : InRange(b, ranges) => b \in mapped
    /\ \A x \in 0..imageSize - 1 :
          HasData(x) => dstOffset + x \in DOMAIN dst \/ InRange(x \div BlockSize, ranges)
    /\ \A y \in DOMAIN dst : /\ y - dstOffset \in 0..imageSize - 1 /\ HasData(y - dstOffset)
                              /\ y \in Int /\ dst[y] = y - dstOffset

CopyInv ==
    /\ CopyTypeOK /\ SourceInv /\ dstOffset \in Nat /\ RangesOK(ranges)
    /\ method \in {"fiemap", "seek"}
    /\ copyStep = "map" => dst = <<>>
    /\ copyStep = "map" /\ method = "fiemap" => FiemapInv
    /\ copyStep = "map" /\ method = "seek" => SeekInv
    /\ copyStep = "copy" => CopiedInv

(* The blocks below a number that have data, all of them, are ranges.      *)
LEMMA AllMapped ==
    ASSUME SourceInv, NEW n \in Nat, UpTo(n), \A m \in mapped : m < n,
           UNCHANGED <<mapped, imageSize, dstOffset, ranges, dst>>, dst = <<>>
    PROVE  CopiedInv'
<1>1. \A x \in 0..imageSize - 1 : HasData(x) => x \div BlockSize \in mapped
  BY DEF HasData
<1>2. mapped \subseteq Int /\ imageSize \in Nat
  BY DEF SourceInv
<1>3. \A b \in Int : InRange(b, ranges)' <=> b \in mapped
  BY <1>2 DEF UpTo, InRange
<1>4. \A x : HasData(x)' = HasData(x)
  BY DEF HasData
<1>5. \A x \in 0..imageSize - 1 : HasData(x) => InRange(x \div BlockSize, ranges)'
  BY <1>1, <1>2, <1>3
<1>6. DOMAIN dst' = {}
  OBVIOUS
<1> QED
  BY <1>3, <1>4, <1>5, <1>6 DEF CopiedInv

LEMMA FileStays ==
    ASSUME SourceInv, UNCHANGED <<mapped, extentStarts, imageSize>>
    PROVE  /\ SourceInv' /\ \A e : ExtentLast(e)' = ExtentLast(e)
           /\ \A x : HasData(x)' = HasData(x)
  BY DEF SourceInv, BlocksCnt, ExtentLast, HasData

LEMMA CopyStart == CopyInit => CopyInv
<1> SUFFICES ASSUME CopyInit PROVE CopyInv
  OBVIOUS
<1>1. /\ imageSize \in 0..MaxBlocks * BlockSize /\ mapped \subseteq 0..BlocksCnt - 1 /\ buffer = {}
      /\ method \in {"fiemap", "seek"} /\ block = 0 /\ ranges = <<>> /\ dstOffset \in Nat
      /\ dst = <<>> /\ copyStep = "map"
  BY CopyAssumption DEF CopyInit, Blocks
<1>2. imageSize \in Nat
  BY <1>1, CopyAssumption
<1>3. BlocksCnt \in Nat
  BY <1>2, SizeInBlocks
<1>4. extentStarts \subseteq mapped /\ \A b \in mapped : b - 1 \notin mapped => b \in extentStarts
  BY DEF CopyInit
<1>5. SourceInv
  BY <1>1, <1>2, <1>3, <1>4 DEF SourceInv
<1>6. CopyTypeOK
  BY <1>1, <1>4 DEF CopyTypeOK, Blocks
<1>7. RangesOK(ranges) /\ \A b : ~InRange(b, ranges)
  BY <1>1 DEF RangesOK, InRange
<1>8. UpTo(0)
  BY <1>3, <1>7, <1>5 DEF UpTo, SourceInv
<1>9. FiemapInv
  <2>1. \A e \in extentStarts : ~(e < 0)
    BY <1>5 DEF SourceInv
  <2> QED
    BY <1>1, <1>8, <2>1 DEF FiemapInv, Frontier
<1>10. SeekInv
  <2>1. 0 = 0 * BlockSize
    BY CopyAssumption
  <2> QED
    BY <1>1, <1>8, <2>1 DEF SeekInv
<1> QED
  BY <1>1, <1>5, <1>6, <1>7, <1>9, <1>10 DEF CopyInv

(* No block with data lies between where the ranges end and the next       *)
(* extent.                                                                 *)
LEMMA NoneBetween ==
    ASSUME SourceInv, NEW n \in Nat, NEW e \in Nat,
           \A d \in extentStarts : d < n => ExtentLast(d) < n,
           \A d \in extentStarts : n <= d => e <= d
    PROVE  \A m \in mapped : m < n \/ e <= m
<1> SUFFICES ASSUME NEW m \in mapped, ~(m < n), ~(e <= m) PROVE FALSE
  OBVIOUS
<1>1. PICK d \in extentStarts : d <= m /\ m <= ExtentLast(d)
  BY ExtentOf
<1>2. d \in Nat /\ ExtentLast(d) \in Nat /\ m \in Nat
  BY ExtentIs DEF SourceInv
<1> QED
  BY <1>1, <1>2

LEMMA CopyAsks == ASSUME CopyInv, InvokeFiemap PROVE CopyInv'
<1>1. /\ copyStep = "map" /\ method = "fiemap" /\ buffer = {} /\ buffer' = Buffer(block)
      /\ UNCHANGED <<mapped, extentStarts, imageSize, method, block, ranges, dstOffset, dst>>
  BY DEF InvokeFiemap
<1>2. SourceInv /\ FiemapInv /\ CopyTypeOK /\ dst = <<>> /\ block \in Nat /\ UpTo(block)
      /\ \A e \in extentStarts : e < block => ExtentLast(e) < block
  BY <1>1 DEF CopyInv, FiemapInv, Frontier
<1>3. SourceInv' /\ (\A e : ExtentLast(e)' = ExtentLast(e))
  BY <1>1, <1>2, FileStays
<1>4. buffer' \subseteq extentStarts
  BY <1>1, <1>2, BufferIs DEF ExtentsFrom
<1>5. CopyTypeOK'
  <2>1. copyStep' \in {"map", "copy"} /\ Blocks' = Blocks
    BY <1>1 DEF InvokeFiemap, Blocks, BlocksCnt
  <2> QED
    BY <1>1, <1>2, <1>4, <2>1 DEF CopyTypeOK
<1>6. ExtentsFrom(block) = {e \in extentStarts : block <= e}
  <2>1. \A e \in extentStarts : e \in Nat /\ ExtentLast(e) \in Nat /\ e <= ExtentLast(e)
    BY <1>2, ExtentIs
  <2>2. \A e \in extentStarts : ExtentLast(e) >= block <=> block <= e
    BY <1>2, <2>1
  <2> QED
    BY <2>2 DEF ExtentsFrom
<1>7. CASE buffer' = {}
  <2>1. copyStep' = "copy" /\ ExtentsFrom(block) = {}
    BY <1>1, <1>2, <1>7, BufferIs DEF InvokeFiemap
  <2>2. \A m \in mapped : m < block
    <3> SUFFICES ASSUME NEW m \in mapped PROVE m < block
      OBVIOUS
    <3>1. PICK e \in extentStarts : e <= m /\ m <= ExtentLast(e)
      BY <1>2, ExtentOf
    <3>2. e \in Nat /\ ExtentLast(e) \in Nat /\ m \in Nat
      BY <1>2, ExtentIs DEF SourceInv
    <3>3. ~(ExtentLast(e) >= block)
      BY <2>1 DEF ExtentsFrom
    <3> QED
      BY <1>2, <3>1, <3>2, <3>3
  <2>3. CopiedInv'
    BY <1>1, <1>2, <2>2, AllMapped
  <2> QED
    BY <1>1, <1>3, <1>5, <2>1, <2>3 DEF CopyInv, RangesOK
<1>8. CASE buffer' # {}
  <2>1. copyStep' = "map"
    BY <1>1, <1>8 DEF InvokeFiemap
  <2>2. buffer' \subseteq Nat /\ \A d \in buffer' : block <= d
    BY <1>1, <1>2, <1>6, BufferIs, ExtentIs
  <2>3. PICK e \in buffer' : e = Min(buffer') /\ e \in Nat /\ \A d \in buffer' : e <= d
    BY <1>8, <2>2, SmallestIs
  <2>4. \A d \in extentStarts : d \in Nat
    BY <1>2, ExtentIs
  <2>5. \A d \in extentStarts : block <= d => e <= d
    BY <1>1, <1>2, <1>6, <2>3, <2>4, BufferIs
  <2>6. \A m \in mapped : m < block \/ e <= m
    BY <1>2, <2>3, <2>5, NoneBetween
  <2>7. block <= e
    BY <2>2, <2>3
  <2>8. Frontier' = e
    BY <1>8, <2>3 DEF Frontier
  <2>9. UpTo(e)'
    <3>1. \A b \in Int : InRange(b, ranges)' <=> InRange(b, ranges)
      BY <1>1 DEF InRange
    <3>2. \A m \in mapped : m < e <=> m < block
      BY <1>2, <2>3, <2>6, <2>7 DEF SourceInv
    <3> QED
      BY <1>1, <1>2, <3>1, <3>2 DEF UpTo
  <2>10. \A d \in extentStarts : d < e => ExtentLast(d) < e
    BY <1>2, <1>4, <2>3, ExtentsApart
  <2>11. \A d \in extentStarts, c \in buffer' : e <= d /\ d < c => d \in buffer'
    <3> SUFFICES ASSUME NEW d \in extentStarts, NEW c \in buffer', e <= d, d < c PROVE d \in buffer'
      OBVIOUS
    <3>1. d \in ExtentsFrom(block)
      BY <1>2, <1>6, <2>3, <2>4, <2>7
    <3> QED
      BY <1>1, <1>2, <3>1, BufferIs
  <2>12. FiemapInv'
    BY <1>1, <1>2, <1>3, <2>2, <2>8, <2>9, <2>10, <2>11 DEF FiemapInv
  <2> QED
    BY <1>1, <1>2, <1>3, <1>5, <2>1, <2>12 DEF CopyInv, RangesOK
<1> QED
  BY <1>7, <1>8

LEMMA CopyYields == ASSUME CopyInv, YieldExtent PROVE CopyInv'
<1>0. PICK e, last : e = Min(buffer) /\ last = ExtentLast(e)
  OBVIOUS
<1>1. /\ copyStep = "map" /\ buffer # {} /\ buffer' = buffer \ {e}
      /\ ranges' = Merged(ranges, Max({e, block}), last)
      /\ block' = (IF buffer' = {} THEN last + 1 ELSE block)
      /\ UNCHANGED <<mapped, extentStarts, imageSize, method, dstOffset, dst, copyStep>>
  BY <1>0 DEF YieldExtent
<1>2. method = "fiemap"
  BY <1>1 DEF CopyInv, SeekInv
<1>3. SourceInv /\ FiemapInv /\ CopyTypeOK /\ dst = <<>> /\ block \in Nat /\ Frontier = e
      /\ buffer \subseteq extentStarts /\ UpTo(e) /\ RangesOK(ranges)
  BY <1>0, <1>1, <1>2 DEF CopyInv, FiemapInv, Frontier, CopyTypeOK
<1>4. \A d \in extentStarts : d \in Nat /\ ExtentLast(d) \in Nat
  BY <1>3, ExtentIs
<1>5. e \in buffer /\ e \in Nat /\ \A d \in buffer : e <= d
  <2>1. buffer \in SUBSET Nat
    BY <1>3, <1>4
  <2> QED
    BY <1>0, <1>1, <2>1, SmallestIs
<1>6. /\ last \in Nat /\ e <= last /\ e..last \subseteq mapped /\ e \in extentStarts
      /\ \A d \in extentStarts : d <= e \/ d > last
  BY <1>0, <1>3, <1>5, ExtentIs
<1>7. block <= e
  BY <1>3, <1>5 DEF FiemapInv
<1>8. Max({e, block}) = e
  <2>1. \A y \in {e, block} : e >= y
    BY <1>3, <1>5, <1>7
  <2>2. \A x \in {e, block} : (\A y \in {e, block} : x >= y) => x = e
    BY <1>3, <1>5, <1>7
  <2> QED
    BY <2>1, <2>2 DEF Max
<1>9. /\ RangesOK(ranges')
      /\ \A b \in Int : InRange(b, ranges') <=> (b \in mapped /\ b < e) \/ (e <= b /\ b <= last)
  <2>1. e \in Int /\ last \in Int /\ e <= last /\ ranges' = Merged(ranges, e, last)
    BY <1>1, <1>5, <1>6, <1>8
  <2>2. /\ RangesOK(ranges')
        /\ \A b \in Int : InRange(b, ranges') <=> InRange(b, ranges) \/ (e <= b /\ b <= last)
    BY <1>3, <2>1, MergedIs
  <2> QED
    BY <1>3, <2>2 DEF UpTo
<1>10. \A b \in Int : InRange(b, ranges') <=> b \in mapped /\ b < last + 1
  BY <1>5, <1>6, <1>9
<1>11. \A d \in extentStarts : d < last + 1 => ExtentLast(d) < last + 1
  <2> SUFFICES ASSUME NEW d \in extentStarts, d < last + 1 PROVE ExtentLast(d) < last + 1
    OBVIOUS
  <2>1. d = e \/ d < e
    BY <1>4, <1>5, <1>6
  <2>2. CASE d = e
    BY <1>0, <1>6, <2>2
  <2>3. CASE d < e
    BY <1>3, <1>4, <1>5, <1>6, <2>3, ExtentsApart
  <2> QED
    BY <2>1, <2>2, <2>3
<1>12. SourceInv' /\ (\A d : ExtentLast(d)' = ExtentLast(d))
  BY <1>1, <1>3, FileStays
<1>13. CopyTypeOK'
  BY <1>1, <1>3 DEF CopyTypeOK, Blocks, BlocksCnt
<1>14. \A n : UpTo(n)' <=> \A b \in Int : InRange(b, ranges') <=> b \in mapped /\ b < n
  BY <1>1 DEF UpTo, InRange
<1>15. FiemapInv'
  <2>1. CASE buffer' = {}
    <3>1. Frontier' = last + 1 /\ block' = last + 1
      BY <1>1, <2>1 DEF Frontier
    <3>2. UpTo(last + 1)'
      BY <1>10, <1>14
    <3> QED
      BY <1>1, <1>6, <1>11, <1>12, <2>1, <3>1, <3>2 DEF FiemapInv
  <2>2. CASE buffer' # {}
    <3>1. buffer' \in SUBSET Nat /\ buffer' \subseteq extentStarts
      BY <1>1, <1>3, <1>4
    <3>2. PICK f \in buffer' : f = Min(buffer') /\ f \in Nat /\ \A d \in buffer' : f <= d
      BY <2>2, <3>1, SmallestIs
    <3>3. Frontier' = f /\ block' = block
      BY <1>1, <2>2, <3>2 DEF Frontier
    <3>4. last + 1 <= f
      BY <1>1, <1>4, <1>5, <1>6, <3>1, <3>2
    <3>5. \A d \in extentStarts : last + 1 <= d => f <= d
      <4> SUFFICES ASSUME NEW d \in extentStarts, last + 1 <= d, d < f PROVE FALSE
        BY <1>4, <3>2
      <4>1. e <= d /\ d # e
        BY <1>4, <1>5, <1>6
      <4>2. d \in buffer
        BY <1>1, <1>3, <3>2, <4>1 DEF FiemapInv
      <4> QED
        BY <1>1, <1>4, <3>2, <4>1, <4>2
    <3>6. \A m \in mapped : m < last + 1 \/ f <= m
      BY <1>3, <1>6, <1>11, <3>2, <3>5, NoneBetween
    <3>7. UpTo(f)'
      <4>1. \A m \in mapped : m < f <=> m < last + 1
        BY <1>3, <1>6, <3>2, <3>4, <3>6 DEF SourceInv
      <4> QED
        BY <1>10, <1>14, <4>1
    <3>8. \A d \in extentStarts : d < f => ExtentLast(d) < f
      BY <1>3, <3>1, <3>2, ExtentsApart
    <3>9. \A d \in extentStarts, c \in buffer' : f <= d /\ d < c => d \in buffer'
      <4> SUFFICES ASSUME NEW d \in extentStarts, NEW c \in buffer', f <= d, d < c PROVE d \in buffer'
        OBVIOUS
      <4>1. e <= d /\ d # e
        BY <1>4, <1>5, <1>6, <3>2, <3>4
      <4>2. d \in buffer
        BY <1>1, <1>3, <4>1 DEF FiemapInv
      <4> QED
        BY <1>1, <4>1, <4>2
    <3>10. \A d \in buffer' : block <= d
      BY <1>1, <1>3 DEF FiemapInv
    <3> QED
      BY <1>1, <1>3, <1>12, <3>3, <3>7, <3>8, <3>9, <3>10 DEF FiemapInv
  <2> QED
    BY <2>1, <2>2
<1>16. RangesOK(ranges)'
  BY <1>9 DEF RangesOK
<1>17. dstOffset' \in Nat
  BY <1>1 DEF CopyInv
<1> QED
  BY <1>1, <1>2, <1>3, <1>12, <1>13, <1>15, <1>16, <1>17 DEF CopyInv

LEMMA CopyAsked == ASSUME CopyInv, FiemapEnds PROVE CopyInv'
<1>1. /\ copyStep = "map" /\ method = "fiemap" /\ buffer = {} /\ block >= BlocksCnt
      /\ copyStep' = "copy"
      /\ UNCHANGED <<mapped, extentStarts, imageSize, method, block, buffer, ranges, dstOffset, dst>>
  BY DEF FiemapEnds
<1>2. SourceInv /\ CopyTypeOK /\ dst = <<>> /\ block \in Nat /\ UpTo(block) /\ RangesOK(ranges)
      /\ dstOffset \in Nat
  BY <1>1 DEF CopyInv, FiemapInv, Frontier
<1>3. \A m \in mapped : m < block
  BY <1>1, <1>2 DEF SourceInv
<1>4. CopiedInv'
  BY <1>1, <1>2, <1>3, AllMapped
<1>5. CopyTypeOK'
  BY <1>1, <1>2 DEF CopyTypeOK, Blocks, BlocksCnt
<1>6. SourceInv'
  BY <1>1, <1>2, FileStays
<1> QED
  BY <1>1, <1>2, <1>4, <1>5, <1>6 DEF CopyInv, RangesOK

(* The place of SEEK_DATA: where the next block with data begins or later  *)
(* in it, and no block with data is passed over.                           *)
LEMMA SeekDataIs ==
    ASSUME SourceInv, NEW k \in Nat
    PROVE  \/ SeekData(k * BlockSize) = -1 /\ \A m \in mapped : m < k
           \/ \E q \in mapped :
                 /\ SeekData(k * BlockSize) \in Nat /\ SeekData(k * BlockSize) < imageSize
                 /\ q = SeekData(k * BlockSize) \div BlockSize /\ q * BlockSize <= SeekData(k * BlockSize)
                 /\ SeekData(k * BlockSize) < q * BlockSize + BlockSize
                 /\ k <= q /\ \A m \in mapped : m < k \/ q <= m
<1>. DEFINE places == {y \in k * BlockSize..imageSize - 1 : HasData(y)}
<1>1. /\ k * BlockSize \in Nat /\ BlockSize \in Nat \ {0} /\ imageSize \in Nat
      /\ \A m \in mapped : m \in Nat /\ m < BlocksCnt /\ m * BlockSize \in Nat
  BY CopyAssumption DEF SourceInv
<1>2. ASSUME NEW m \in mapped PROVE m * BlockSize < imageSize /\ HasData(m * BlockSize)
  <2>1. m * BlockSize < imageSize
    BY <1>1, SizeInBlocks
  <2>2. (m * BlockSize) \div BlockSize = m
    BY <1>1, BlockIs
  <2> QED
    BY <2>1, <2>2 DEF HasData
<1>3. ASSUME NEW m \in mapped, k <= m PROVE m * BlockSize \in places
  <2>1. k * BlockSize <= m * BlockSize
    <3>1. CASE k = m
      BY <1>1, <3>1
    <3>2. CASE k < m
      BY <1>1, <3>2, BlocksGrow
    <3> QED
      BY <1>1, <1>3, <3>1, <3>2
  <2> QED
    BY <1>1, <1>2, <2>1
<1>4. places \in SUBSET Nat /\ \A y \in places : y < imageSize /\ k * BlockSize <= y
                            /\ y \div BlockSize \in mapped
  <2>1. \A y \in places : y \in Nat /\ y < imageSize /\ k * BlockSize <= y
    BY <1>1
  <2> QED
    BY <2>1 DEF HasData
<1>5. SeekData(k * BlockSize) = IF places = {} THEN -1 ELSE Min(places)
  BY DEF SeekData
<1>. HIDE DEF places
<1>6. CASE places = {}
  BY <1>1, <1>3, <1>5, <1>6
<1>7. CASE places # {}
  <2>1. PICK s \in places : s = Min(places) /\ \A y \in places : s <= y
    BY <1>4, <1>7, SmallestIs
  <2>2. SeekData(k * BlockSize) = s /\ s \in Nat /\ s < imageSize /\ k * BlockSize <= s
    BY <1>4, <1>5, <1>7, <2>1
  <2>3. PICK q \in mapped : q = s \div BlockSize
    BY <1>4
  <2>4. q \in Nat /\ q * BlockSize <= s /\ s < q * BlockSize + BlockSize /\ q * BlockSize \in Nat
    BY <1>1, <2>2, <2>3, BlockOf
  <2>5. ~(q < k)
    BY <1>1, <2>2, <2>4, BlocksGrow
  <2>6. ASSUME NEW m \in mapped, k <= m, m < q PROVE FALSE
    <3>1. s <= m * BlockSize
      BY <1>3, <2>1, <2>6
    <3>2. m * BlockSize + BlockSize <= q * BlockSize
      BY <1>1, <2>4, <2>6, BlocksGrow
    <3> QED
      BY <1>1, <2>2, <2>4, <3>1, <3>2
  <2>7. k <= q /\ \A m \in mapped : m < k \/ q <= m
    BY <1>1, <2>4, <2>5, <2>6
  <2> QED
    BY <2>2, <2>3, <2>4, <2>7
<1> QED
  BY <1>6, <1>7

(* From there to the hole, or to the end of the file, all is data, and the *)
(* hole is where a block begins.                                           *)
LEMMA SeekHoleIs ==
    ASSUME SourceInv, NEW s \in Nat, s < imageSize, HasData(s), NEW q \in Nat,
           q * BlockSize <= s, s < q * BlockSize + BlockSize
    PROVE  \E j \in Nat :
              /\ q < j /\ q..(j - 1) \subseteq mapped
              /\ j * BlockSize = IF SeekHole(s) = -1 \/ SeekHole(s) = imageSize
                                 THEN BlocksCnt * BlockSize
                                 ELSE Min({SeekHole(s), BlocksCnt * BlockSize})
<1>. DEFINE holes == {y \in s..imageSize : ~HasData(y)}
<1>1. /\ BlockSize \in Nat \ {0} /\ imageSize \in Nat /\ BlocksCnt \in Nat
      /\ imageSize <= BlocksCnt * BlockSize /\ BlocksCnt * BlockSize \in Nat
      /\ \A b \in Nat : b < BlocksCnt <=> b * BlockSize < imageSize
      /\ \A b \in Nat : b * BlockSize \in Nat
  BY CopyAssumption, SizeInBlocks DEF SourceInv
<1>2. holes \in SUBSET Nat /\ imageSize \in holes
  <2>1. ~HasData(imageSize)
    BY <1>1 DEF HasData
  <2> QED
    BY <1>1, <2>1
<1>3. PICK h \in holes : h = Min(holes) /\ \A y \in holes : h <= y
  BY <1>2, SmallestIs
<1>4. h \in Nat /\ s < h /\ h <= imageSize /\ ~HasData(h)
  BY <1>1, <1>3
<1>5. \A y \in s..(h - 1) : HasData(y)
  BY <1>1, <1>3, <1>4
<1>6. SeekHole(s) = h
  BY <1>1, <1>3 DEF SeekHole
<1>. HIDE DEF holes
<1>7. ASSUME NEW b \in Nat, q <= b, b * BlockSize < h PROVE b \in mapped
  <2>1. CASE b = q
    <3>1. s \div BlockSize = q
      BY BlockIs
    <3> QED
      BY <2>1, <3>1 DEF HasData
  <2>2. CASE q < b
    <3>1. q * BlockSize + BlockSize <= b * BlockSize
      BY <2>2, BlocksGrow
    <3>2. b * BlockSize \in s..(h - 1)
      BY <1>1, <1>4, <1>7, <3>1
    <3>3. (b * BlockSize) \div BlockSize = b
      BY <1>1, BlockIs
    <3> QED
      BY <1>5, <3>2, <3>3 DEF HasData
  <2> QED
    BY <1>7, <2>1, <2>2
<1>8. CASE h = imageSize
  <2>1. q < BlocksCnt
    BY <1>1
  <2>2. ASSUME NEW b \in q..(BlocksCnt - 1) PROVE b \in mapped
    <3>1. b \in Nat /\ q <= b /\ b < BlocksCnt
      BY <1>1
    <3> QED
      BY <1>1, <1>7, <1>8, <3>1
  <2> QED
    BY <1>1, <1>6, <1>8, <2>1, <2>2
<1>9. CASE h # imageSize
  <2>1. PICK j \in Nat : j = h \div BlockSize /\ j * BlockSize <= h /\ h < j * BlockSize + BlockSize
    BY <1>4, BlockOf
  <2>2. h < imageSize
    BY <1>1, <1>4, <1>9
  <2>3. j * BlockSize = h
    <3> SUFFICES ASSUME j * BlockSize < h PROVE FALSE
      BY <1>1, <1>4, <2>1
    <3>1. h - 1 \in Nat /\ j * BlockSize <= h - 1 /\ h - 1 < j * BlockSize + BlockSize
      BY <1>1, <1>4, <2>1
    <3>2. (h - 1) \div BlockSize = j
      BY <3>1, BlockIs
    <3>3. h - 1 \in s..(h - 1)
      BY <1>4
    <3>4. j \in mapped
      BY <1>5, <3>2, <3>3 DEF HasData
    <3> QED
      BY <1>4, <2>1, <2>2, <3>4 DEF HasData
  <2>4. q < j
    <3>1. ~(j < q)
      BY <1>1, <1>4, <2>3, BlocksGrow
    <3>2. j # q
      BY <1>4, <2>3
    <3> QED
      BY <3>1, <3>2
  <2>5. ASSUME NEW b \in q..(j - 1) PROVE b \in mapped
    <3>1. b \in Nat /\ q <= b /\ b < j
      OBVIOUS
    <3>2. b * BlockSize + BlockSize <= j * BlockSize
      BY <3>1, BlocksGrow
    <3> QED
      BY <1>1, <1>7, <2>3, <3>1, <3>2
  <2>6. Min({h, BlocksCnt * BlockSize}) = h
    <3>1. h <= BlocksCnt * BlockSize
      BY <1>1, <1>4
    <3>2. Min({h, BlocksCnt * BlockSize}) \in {h, BlocksCnt * BlockSize}
          /\ \A y \in {h, BlocksCnt * BlockSize} : Min({h, BlocksCnt * BlockSize}) <= y
      BY <1>1, <1>4, SmallestIs
    <3> QED
      BY <1>1, <1>4, <3>1, <3>2
  <2>7. h # -1
    BY <1>4
  <2> QED
    BY <1>6, <1>9, <2>3, <2>4, <2>5, <2>6, <2>7
<1> QED
  BY <1>8, <1>9

LEMMA CopySeeks == ASSUME CopyInv, SeekRange PROVE CopyInv'
<1>. DEFINE start == SeekData(block)
            limit == BlocksCnt * BlockSize
            hole == SeekHole(start)
            end == IF hole = -1 \/ hole = imageSize THEN limit ELSE Min({hole, limit})
            done == start = -1 \/ start >= limit \/ start = imageSize
<1>1. /\ copyStep = "map" /\ method = "seek"
      /\ done => copyStep' = "copy" /\ UNCHANGED <<block, ranges>>
      /\ ~done => /\ ranges' = Append(ranges, <<start \div BlockSize, end \div BlockSize - 1>>)
                  /\ block' = end /\ copyStep' = "map"
      /\ UNCHANGED <<mapped, extentStarts, imageSize, method, buffer, dstOffset, dst>>
  BY DEF SeekRange
<1>2. SourceInv /\ CopyTypeOK /\ dst = <<>> /\ SeekInv /\ buffer = {} /\ RangesOK(ranges)
      /\ dstOffset \in Nat
  BY <1>1 DEF CopyInv, SeekInv
<1>3. PICK k \in Nat : block = k * BlockSize /\ UpTo(k)
  BY <1>2 DEF SeekInv
<1>4. SourceInv'
  BY <1>1, <1>2, FileStays
<1>5. CASE done
  <2>1. /\ copyStep' = "copy" /\ UNCHANGED <<block, ranges>>
    BY <1>1, <1>5
  <2>2. \A m \in mapped : m < k
    <3>1. imageSize <= limit /\ limit \in Nat /\ imageSize \in Nat
      BY <1>2, SizeInBlocks, CopyAssumption DEF SourceInv
    <3>. HIDE DEF limit, hole, end
    <3>2. start = -1 \/ (start \in Nat /\ start < imageSize)
      BY <1>2, <1>3, SeekDataIs
    <3>3. start = -1
      BY <1>5, <3>1, <3>2
    <3>4. ~(start \in Nat)
      BY <3>3
    <3> QED
      BY <1>2, <1>3, <3>4, SeekDataIs
  <2>3. CopiedInv'
    BY <1>1, <1>2, <1>3, <2>1, <2>2, AllMapped
  <2>4. CopyTypeOK'
    BY <1>1, <1>2, <2>1 DEF CopyTypeOK, Blocks, BlocksCnt
  <2> QED
    BY <1>1, <1>2, <1>4, <2>1, <2>3, <2>4 DEF CopyInv, RangesOK
<1>6. CASE ~done
  <2>1. /\ ranges' = Append(ranges, <<start \div BlockSize, end \div BlockSize - 1>>)
        /\ block' = end /\ copyStep' = "map"
    BY <1>1, <1>6
  <2>2. start # -1
    BY <1>6
  <2>. HIDE DEF start, limit, hole, end, done
  <2>3. PICK q \in mapped : /\ start \in Nat /\ start < imageSize /\ q = start \div BlockSize
                             /\ q * BlockSize <= start /\ start < q * BlockSize + BlockSize
                             /\ k <= q /\ \A m \in mapped : m < k \/ q <= m
    BY <1>2, <1>3, <2>2, SeekDataIs DEF start
  <2>4. q \in Nat /\ \A m \in mapped : m \in Nat
    BY <1>2 DEF SourceInv
  <2>5. HasData(start)
    BY <2>3 DEF HasData
  <2>6. PICK j \in Nat : q < j /\ q..(j - 1) \subseteq mapped /\ j * BlockSize = end
    BY <1>2, <2>3, <2>4, <2>5, SeekHoleIs DEF end, hole, limit
  <2>7. end \div BlockSize = j
    <3>1. end \in Nat /\ end < j * BlockSize + BlockSize
      BY <2>6, CopyAssumption
    <3> QED
      BY <2>6, <3>1, BlockIs
  <2>8. ranges' = Append(ranges, <<q, j - 1>>)
    BY <2>1, <2>3, <2>7
  <2>9. /\ RangesOK(ranges')
        /\ \A b \in Int : InRange(b, ranges') <=> InRange(b, ranges) \/ (q <= b /\ b <= j - 1)
    BY <1>2, <2>4, <2>6, <2>8, AppendRange
  <2>10. \A b \in Int : InRange(b, ranges') <=> b \in mapped /\ b < j
    <3> SUFFICES ASSUME NEW b \in Int PROVE InRange(b, ranges') <=> b \in mapped /\ b < j
      OBVIOUS
    <3>1. InRange(b, ranges') <=> (b \in mapped /\ b < k) \/ (q <= b /\ b <= j - 1)
      BY <1>3, <2>9 DEF UpTo
    <3>2. q <= b /\ b <= j - 1 => b \in mapped
      BY <2>4, <2>6
    <3>3. b \in mapped => b < k \/ q <= b
      BY <2>3
    <3> QED
      BY <2>3, <2>4, <2>6, <3>1, <3>2, <3>3
  <2>11. UpTo(j)'
    BY <1>1, <2>10 DEF UpTo, InRange
  <2>12. SeekInv'
    BY <1>1, <1>2, <2>1, <2>6, <2>11 DEF SeekInv
  <2>13. CopyTypeOK'
    BY <1>1, <1>2, <2>1 DEF CopyTypeOK, Blocks, BlocksCnt
  <2>14. RangesOK(ranges)'
    BY <2>9 DEF RangesOK
  <2> QED
    BY <1>1, <1>2, <1>4, <2>1, <2>12, <2>13, <2>14 DEF CopyInv
<1> QED
  BY <1>5, <1>6

(* A range that is copied: its bytes that the file has.                    *)
LEMMA CopyMoves == ASSUME CopyInv, CopyRange PROVE CopyInv'
<1>. DEFINE lo == ranges[1][1]
            hi == ranges[1][2]
            read == lo * BlockSize..Min({(hi + 1) * BlockSize, imageSize}) - 1
            place == {dstOffset + x : x \in read}
<1>1. /\ copyStep = "copy" /\ ranges # <<>> /\ ranges' = Tail(ranges)
      /\ dst' = [y \in DOMAIN dst \cup place |->
                    IF y \in place THEN y - dstOffset ELSE dst[y]]
      /\ UNCHANGED <<mapped, extentStarts, imageSize, method, block, buffer, dstOffset, copyStep>>
  BY DEF CopyRange
<1>2. SourceInv /\ CopyTypeOK /\ CopiedInv /\ dstOffset \in Nat /\ RangesOK(ranges)
  BY <1>1 DEF CopyInv
<1>3. /\ RangesOK(ranges') /\ lo \in Int /\ hi \in Int
      /\ \A b \in Int : InRange(b, ranges) <=> (lo <= b /\ b <= hi) \/ InRange(b, ranges')
  BY <1>1, <1>2, TailOfRanges
<1>4. lo <= hi
  BY <1>1, <1>2 DEF RangesOK
<1>5. SourceInv' /\ \A x : HasData(x)' = HasData(x)
  BY <1>1, <1>2, FileStays
<1>6. PICK top : top = Min({(hi + 1) * BlockSize, imageSize})
  OBVIOUS
<1>7. read = lo * BlockSize..top - 1
  BY <1>6
<1>. HIDE DEF lo, hi, read
<1>8. \A b \in Int : InRange(b, ranges) => b \in mapped /\ b \in Nat
  BY <1>2 DEF CopiedInv, SourceInv
<1>9. lo \in Nat /\ hi \in Nat /\ \A b \in lo..hi : b \in mapped
  BY <1>3, <1>4, <1>8
<1>10. /\ imageSize \in Nat /\ (hi + 1) * BlockSize \in Nat /\ lo * BlockSize \in Nat
       /\ BlockSize \in Nat \ {0}
  BY <1>2, <1>9, CopyAssumption DEF SourceInv
<1>11. /\ top \in Int /\ top <= (hi + 1) * BlockSize /\ top <= imageSize
       /\ top = (hi + 1) * BlockSize \/ top = imageSize
  BY <1>6, <1>10, SmallestIs
<1>12. \A x \in read : x \in Nat /\ x < imageSize /\ x \in 0..imageSize - 1 /\ HasData(x)
  <2> SUFFICES ASSUME NEW x \in read PROVE x \in Nat /\ x < imageSize /\ HasData(x)
    BY <1>10
  <2>1. x \in Nat /\ x < imageSize /\ lo * BlockSize <= x /\ x < (hi + 1) * BlockSize
    BY <1>7, <1>10, <1>11
  <2>2. PICK q \in Nat : q = x \div BlockSize /\ q * BlockSize <= x /\ x < q * BlockSize + BlockSize
    BY <2>1, BlockOf
  <2>3. q * BlockSize \in Nat
    BY <1>10
  <2>4. ~(q < lo)
    BY <1>9, <1>10, <2>1, <2>2, <2>3, BlocksGrow
  <2>5. ~(hi + 1 < q) /\ hi + 1 # q
    BY <1>9, <1>10, <2>1, <2>2, <2>3, BlocksGrow
  <2>6. q \in mapped
    BY <1>9, <2>4, <2>5
  <2> QED
    BY <2>1, <2>2, <2>6 DEF HasData
<1>13. ASSUME NEW x \in 0..imageSize - 1, HasData(x)
       PROVE  dstOffset + x \in DOMAIN dst' \/ InRange(x \div BlockSize, ranges')
  <2>1. x \in Nat /\ x < imageSize
    BY <1>10
  <2>2. PICK q \in Nat : q = x \div BlockSize /\ q * BlockSize <= x /\ x < q * BlockSize + BlockSize
    BY <2>1, BlockOf
  <2>3. dstOffset + x \in DOMAIN dst \/ InRange(q, ranges)
    BY <1>2, <1>13, <2>2 DEF CopiedInv
  <2>4. CASE lo <= q /\ q <= hi
    <3>1. lo * BlockSize <= x
      <4>1. lo = q \/ lo * BlockSize + BlockSize <= q * BlockSize
        BY <1>9, <2>4, BlocksGrow
      <4> QED
        BY <1>10, <2>1, <2>2, <4>1, CopyAssumption
    <3>2. x < (hi + 1) * BlockSize
      <4>1. q * BlockSize + BlockSize <= (hi + 1) * BlockSize
        BY <1>9, <2>4, BlocksGrow
      <4> QED
        BY <1>10, <2>1, <2>2, <4>1, CopyAssumption
    <3>3. x \in read
      BY <1>7, <1>10, <1>11, <2>1, <3>1, <3>2
    <3> QED
      BY <1>1, <3>3
  <2>5. CASE dstOffset + x \in DOMAIN dst
    BY <1>1, <2>5
  <2> QED
    BY <1>3, <2>2, <2>3, <2>4, <2>5
<1>14. ASSUME NEW y \in DOMAIN dst'
       PROVE  /\ y - dstOffset \in 0..imageSize - 1 /\ HasData(y - dstOffset)
              /\ y \in Int /\ dst'[y] = y - dstOffset
  <2>1. CASE y \in place
    <3>1. PICK x \in read : y = dstOffset + x
      BY <2>1
    <3>2. y - dstOffset = x /\ y \in Int
      BY <1>2, <1>12, <3>1
    <3> QED
      BY <1>1, <1>12, <2>1, <3>2
  <2>2. CASE y \notin place
    <3>1. y \in DOMAIN dst /\ dst'[y] = dst[y]
      BY <1>1, <2>2
    <3> QED
      BY <1>2, <3>1 DEF CopiedInv
  <2> QED
    BY <2>1, <2>2
<1>. HIDE DEF place
<1>15. CopiedInv'
  <2>1. \A b \in Int : InRange(b, ranges') => b \in mapped
    BY <1>3, <1>8
  <2>2. imageSize' = imageSize /\ mapped' = mapped /\ dstOffset' = dstOffset
    BY <1>1
  <2>3. (\A b \in Int : InRange(b, ranges) => b \in mapped)'
    BY <2>1, <2>2 DEF InRange
  <2>4. (\A x \in 0..imageSize - 1 :
          HasData(x) => dstOffset + x \in DOMAIN dst \/ InRange(x \div BlockSize, ranges))'
    BY <1>5, <1>13, <2>2 DEF InRange
  <2>5. (\A y \in DOMAIN dst : /\ y - dstOffset \in 0..imageSize - 1 /\ HasData(y - dstOffset)
                               /\ y \in Int /\ dst[y] = y - dstOffset)'
    BY <1>5, <1>14, <2>2
  <2> QED
    BY <2>3, <2>4, <2>5 DEF CopiedInv
<1>16. CopyTypeOK'
  BY <1>1, <1>2 DEF CopyTypeOK, Blocks, BlocksCnt
<1>17. RangesOK(ranges)' /\ dstOffset' \in Nat /\ copyStep' = "copy" /\ method' \in {"fiemap", "seek"}
  BY <1>1, <1>2, <1>3 DEF RangesOK, CopyInv
<1> QED
  BY <1>5, <1>15, <1>16, <1>17 DEF CopyInv

LEMMA CopyStep == ASSUME CopyInv, [CopyNext]_copyVars PROVE CopyInv'
<1>1. CASE UNCHANGED copyVars
  <2>1. UNCHANGED <<mapped, extentStarts, imageSize, method, block, buffer, ranges, dstOffset, dst,
                    copyStep>>
    BY <1>1 DEF copyVars
  <2>2. /\ SourceInv' /\ \A e : ExtentLast(e)' = ExtentLast(e)
        /\ \A x : HasData(x)' = HasData(x)
    BY <2>1, FileStays DEF CopyInv
  <2>3. /\ \A b : InRange(b, ranges)' = InRange(b, ranges)
        /\ CopyTypeOK => CopyTypeOK'
        /\ RangesOK(ranges) => RangesOK(ranges)'
    BY <2>1 DEF InRange, CopyTypeOK, Blocks, BlocksCnt, RangesOK
  <2>4. Frontier' = Frontier /\ \A n : UpTo(n) => UpTo(n)'
    BY <2>1, <2>3 DEF Frontier, UpTo
  <2>5. FiemapInv => FiemapInv'
    <3>1. UpTo(Frontier) => UpTo(Frontier)'
      BY <2>1, <2>3, <2>4 DEF UpTo
    <3> QED
      BY <2>1, <2>2, <2>4, <3>1 DEF FiemapInv
  <2>6. SeekInv => SeekInv'
    BY <2>1, <2>4 DEF SeekInv
  <2>7. CopiedInv => CopiedInv'
    BY <2>1, <2>2, <2>3 DEF CopiedInv
  <2> QED
    BY <2>1, <2>2, <2>3, <2>5, <2>6, <2>7 DEF CopyInv
<1>2. CASE CopyNext
  BY <1>2, CopyAsks, CopyYields, CopyAsked, CopySeeks, CopyMoves DEF CopyNext
<1> QED
  BY <1>1, <1>2

(* What is asked of a copy that is done.                                   *)
LEMMA CopyDone == CopyInv => CopyExact
<1> SUFFICES ASSUME CopyInv, copyStep = "copy", ranges = <<>>
             PROVE  /\ DOMAIN dst = {dstOffset + x : x \in {y \in 0..imageSize - 1 : HasData(y)}}
                    /\ \A y \in DOMAIN dst : dst[y] = y - dstOffset
  BY DEF CopyExact
<1>1. CopiedInv /\ dstOffset \in Nat /\ imageSize \in Nat
  BY DEF CopyInv, SourceInv
<1>2. \A b : ~InRange(b, ranges)
  BY DEF InRange
<1>3. ASSUME NEW y \in DOMAIN dst
      PROVE  \E x \in {z \in 0..imageSize - 1 : HasData(z)} : y = dstOffset + x
  <2>1. y - dstOffset \in 0..imageSize - 1 /\ HasData(y - dstOffset) /\ y \in Int
    BY <1>1 DEF CopiedInv
  <2>2. y = dstOffset + (y - dstOffset)
    BY <1>1, <2>1
  <2> QED
    BY <2>1, <2>2
<1>4. ASSUME NEW x \in 0..imageSize - 1, HasData(x) PROVE dstOffset + x \in DOMAIN dst
  BY <1>1, <1>2, <1>4 DEF CopiedInv
<1>5. \A y \in DOMAIN dst : dst[y] = y - dstOffset
  BY <1>1 DEF CopiedInv
<1> QED
  BY <1>3, <1>4, <1>5

THEOREM CopyExactHolds == CopySpec => []CopyExact
<1>1. CopyInit => CopyInv
  BY CopyStart
<1>2. CopyInv /\ [CopyNext]_copyVars => CopyInv'
  BY CopyStep
<1>3. CopyInv => CopyExact
  BY CopyDone
<1> QED
  BY <1>1, <1>2, <1>3, PTL DEF CopySpec
=============================================================================
