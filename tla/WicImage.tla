------------------------------ MODULE WicImage ------------------------------
(***************************************************************************)
(* wic create with the direct imager: imager/direct.py, partition.py and   *)
(* utils/partitionedfs.py of scripts/lib/wic.  A kickstart file is a       *)
(* sequence of partitions [disk, size, align, noTable, source], sizes and  *)
(* alignments in kB, positions in sectors of half a kB; the size is the    *)
(* one that Partition.prepare leaves, never less than the contents.  wic   *)
(* is run and run again on the same root file system.  parted is modelled  *)
(* by what it refuses: a partition that overlaps another one.              *)
(***************************************************************************)
EXTENDS Naturals, Sequences, FiniteSets

CONSTANTS Kickstarts,   \* kickstart files, each with at least one partition
          MaxWicRuns    \* bound on the runs

ASSUME KickstartsAssumption ==
    \A k \in Kickstarts :
        /\ Len(k) \in Nat \ {0} /\ DOMAIN k = 1..Len(k)
        /\ \A i \in DOMAIN k : k[i].size \in Nat /\ k[i].align \in Nat /\ k[i].noTable \in BOOLEAN

VARIABLES ks,           \* the kickstart file
          ptable,       \* --ptable, "msdos" or "gpt"
          wicStep,      \* "idle", "prepare", "layout", "format", "assemble", "finished", "failed"
          disks,        \* [Disks -> the next sector and the partitions in the table]
          parts,        \* the partitions that are laid out, [start, end, num]
          fstab,        \* what wic appended to /etc/fstab of the root file system
          fstabOrig,    \* /etc/fstab.orig, or NoFile
          files,        \* partition images, in the work directory or deployed
          deployed,     \* the image that fsimage partitions use is in DEPLOY_DIR_IMAGE
          captured,     \* fstab of the root file system that partitions were made of
          onDisk,       \* [Disks -> SUBSET DOMAIN ks]: the partitions written to it
          fstabCut,     \* a run failed between the change of fstab and its repair
          wicRuns       \* runs so far (bounded)
wicVars == <<ks, ptable, wicStep, disks, parts, fstab, fstabOrig, files, deployed, captured, onDisk,
             fstabCut, wicRuns>>

Disks == UNION {{k[i].disk : i \in DOMAIN k} : k \in Kickstarts}
NoFile == <<{}>>
Overhead == IF ptable = "gpt" THEN 34 ELSE 1

(***************************************************************************)
(* layout_partitions: one partition after the other, each disk with its    *)
(* own offset and count.  From the fourth in an msdos table on they are    *)
(* logical, with a sector reserved for the EBR before the alignment.       *)
(***************************************************************************)
Aligned(sector, align) ==
    IF align = 0 \/ sector % (2 * align) = 0 THEN sector
    ELSE (sector + 2 * align) - (sector % (2 * align))

Logical(real) == ptable = "msdos" /\ real > 3

\* mistake: the sector of the EBR is reserved after the alignment
FirstSectorLate(offset, real, align) ==
    Aligned(offset, align) + (IF Logical(real) THEN 1 ELSE 0)

FirstSector(offset, real, align) ==
    Aligned(offset + (IF Logical(real) THEN 1 ELSE 0), align)

Numbered(real, noTable) ==
    IF Logical(real) THEN real + 1 ELSE IF noTable THEN 0 ELSE real

NewDisks == [d \in Disks |-> [offset |-> Overhead, real |-> 0]]
Start(i) == parts[i].start
End(i) == parts[i].end                 \* the sector after the last
Num(i) == parts[i].num
Size(disk) == disks[disk].offset + (IF ptable = "gpt" THEN 34 ELSE 0)

(* The number that direct.py gives a partition, for fstab, the root device *)
(* and the PARTUUID, before anything is laid out: __get_part_num.          *)
PartNum(n) ==
    IF ks[n].noTable THEN 0 ELSE Numbered(Cardinality({i \in 1..n : ~ks[i].noTable}), FALSE)

(* What names a partition: the fstab has no line for / and /boot.          *)
Mounted == {i \in DOMAIN ks : ks[i].source \notin {"rootfs", "boot"}}

(* The image file of a partition: only root file systems have their own.   *)
File(i) == <<ks[i].source, IF ks[i].source = "rootfs" THEN i ELSE 0>>
UsesDeployed == \E i \in DOMAIN ks : ks[i].source = "fsimage"
Sourced == {i \in DOMAIN ks : ks[i].source # "none"}

WicInit ==
    /\ ks \in Kickstarts /\ ptable \in {"msdos", "gpt"}
    /\ wicStep = "idle" /\ disks = NewDisks /\ parts = <<>> /\ fstab = <<>> /\ fstabOrig = NoFile /\ files = {}
    /\ deployed = TRUE /\ captured = <<>> /\ onDisk = [d \in Disks |-> {}]
    /\ fstabCut = FALSE /\ wicRuns = 0

(***************************************************************************)
(* The start of _create: fstab gets a line for every partition in the      *)
(* table, what was there before is kept as fstab.orig, and the work        *)
(* directory is emptied.  A run has an Image of its own, with no disks.    *)
(***************************************************************************)
WriteFstab ==
    /\ wicStep \in {"idle", "finished", "failed"} /\ wicRuns < MaxWicRuns
    /\ wicStep' = "prepare" /\ wicRuns' = wicRuns + 1
    /\ LET lines == {<<i, PartNum(i)>> : i \in {j \in Mounted : PartNum(j) # 0}}
       IN IF lines = {} THEN UNCHANGED <<fstab, fstabOrig>>
          ELSE fstab' = Append(fstab, lines) /\ fstabOrig' = fstab
    /\ files' = {} /\ captured' = <<>> /\ onDisk' = [d \in Disks |-> {}]
    /\ disks' = NewDisks /\ parts' = <<>>
    /\ UNCHANGED <<ks, ptable, deployed, fstabCut>>

(***************************************************************************)
(* Partition.prepare of every partition, then fstab is moved back.  When   *)
(* one fails, as for a deployed image that is not there, nothing puts      *)
(* fstab back.                                                             *)
(***************************************************************************)
\* mistake: fstab is put back before the partitions are made
PrepareLate ==
    /\ wicStep = "prepare" /\ wicStep' = "layout"
    /\ files' = {File(i) : i \in Sourced}
    /\ captured' = (IF fstabOrig = NoFile THEN fstab ELSE fstabOrig)
    /\ fstab' = captured' /\ fstabOrig' = NoFile
    /\ UNCHANGED <<ks, ptable, disks, parts, deployed, onDisk, fstabCut, wicRuns>>

Prepare ==
    /\ wicStep = "prepare"
    /\ \/ /\ wicStep' = "layout" /\ (UsesDeployed => deployed)
          /\ files' = {File(i) : i \in Sourced}
          /\ captured' = fstab
          /\ fstab' = (IF fstabOrig = NoFile THEN fstab ELSE fstabOrig)
          /\ fstabOrig' = NoFile /\ UNCHANGED fstabCut
       \/ /\ wicStep' = "failed" /\ fstabCut' = (fstabOrig # NoFile)
          /\ UNCHANGED <<fstab, fstabOrig, files, captured>>
    /\ UNCHANGED <<ks, ptable, disks, parts, deployed, onDisk, wicRuns>>

(* One turn of the loop of layout_partitions, which refuses a --part-type  *)
(* in an msdos table.                                                      *)
LayoutPartition ==
    /\ wicStep = "layout"
    /\ LET part == ks[Len(parts) + 1]
           real == disks[part.disk].real + (IF part.noTable THEN 0 ELSE 1)
           start == FirstSector(disks[part.disk].offset, real, part.align)
           end == start + 2 * part.size
       IN  \/ /\ disks' = [disks EXCEPT ![part.disk] = [offset |-> end, real |-> real]]
              /\ parts' = Append(parts, [start |-> start, end |-> end,
                                         num |-> Numbered(real, part.noTable)])
              /\ wicStep' = IF Len(parts') = Len(ks) THEN "format" ELSE "layout"
           \/ ptable = "msdos" /\ wicStep' = "failed" /\ UNCHANGED <<disks, parts>>
    /\ UNCHANGED <<ks, ptable, fstab, fstabOrig, files, deployed, captured, onDisk,
                   fstabCut, wicRuns>>

(***************************************************************************)
(* Image.create, __format_disks: an extended partition is made before each *)
(* one with number 5, and parted makes one only.                           *)
(***************************************************************************)
TooManyExtended ==
    ptable = "msdos" /\ \E i, j \in DOMAIN ks :
                            i # j /\ ks[i].disk = ks[j].disk /\ Num(i) = 5 /\ Num(j) = 5
Format ==
    /\ wicStep = "format"
    /\ wicStep' \in {"failed"} \cup (IF TooManyExtended THEN {} ELSE {"assemble"})
    /\ UNCHANGED <<ks, ptable, disks, parts, fstab, fstabOrig, files, deployed, captured,
                   onDisk, fstabCut, wicRuns>>

(***************************************************************************)
(* assemble and finalize: every partition with an image is copied to its   *)
(* place in the file of every disk, whichever disk it is for, and then     *)
(* renamed, so that the next disk, or the next partition with the same     *)
(* file, does not find it and wic fails.  Images that were renamed, a      *)
(* deployed one as well, are removed in the end.                           *)
(***************************************************************************)
UsedDisks == {ks[i].disk : i \in DOMAIN ks}
\* mistake: the partitions that are not in the table are not written
AssembleTable ==
    /\ wicStep = "assemble" /\ wicStep' = "finished" /\ files' = {}
    /\ onDisk' = [d \in Disks |-> {i \in Sourced : Num(i) # 0}]
    /\ UNCHANGED <<ks, ptable, disks, parts, fstab, fstabOrig, deployed, captured, fstabCut,
                   wicRuns>>

Assemble ==
    /\ wicStep = "assemble" /\ files' = {}
    /\ \/ /\ Cardinality(files) = Cardinality(Sourced)
          /\ Sourced = {} \/ Cardinality(UsedDisks) = 1
          /\ wicStep' = "finished" /\ deployed' = (deployed /\ ~UsesDeployed)
          /\ onDisk' = [d \in Disks |-> IF d \in UsedDisks THEN Sourced ELSE {}]
       \/ /\ wicStep' = "failed" /\ UNCHANGED onDisk
          /\ deployed' \in {deployed, deployed /\ ~UsesDeployed}
    /\ UNCHANGED <<ks, ptable, disks, parts, fstab, fstabOrig, captured, fstabCut, wicRuns>>

WicNext == WriteFstab \/ Prepare \/ LayoutPartition \/ Format \/ Assemble
WicSpec == WicInit /\ [][WicNext]_wicVars

-----------------------------------------------------------------------------
WicTypeOK ==
    /\ wicStep \in {"idle", "prepare", "layout", "format", "assemble", "finished", "failed"}
    /\ onDisk \in [Disks -> SUBSET DOMAIN ks] /\ deployed \in BOOLEAN
    /\ files \subseteq {File(i) : i \in DOMAIN ks}

Extended(d) == {i \in DOMAIN ks : ks[i].disk = d /\ Num(i) = 5 /\ ptable = "msdos"}

(* In a finished image the partitions of a disk are aligned, share no      *)
(* sector with each other, the partition tables or the EBR before each     *)
(* logical partition, and the logical ones with their EBRs lie in the      *)
(* extended one; every image of a partition is written where its disk has  *)
(* the partition; and on one disk, unless a --no-table partition got into  *)
(* the table, every partition has the number there that fstab, the root    *)
(* device and PARTUUID name it by, and, unless an earlier run left fstab   *)
(* changed, the fstab in the image lists each mounted one once             *)
(* (partitionedfs.py:122, 239, 353, direct.py:100, 139).                   *)
WicPlaced ==
    wicStep = "finished" =>
        /\ \A i, j \in DOMAIN ks : i < j /\ ks[i].disk = ks[j].disk =>
              End(i) + (IF ptable = "msdos" /\ Num(j) > 4 THEN 1 ELSE 0) <= Start(j)
        /\ \A i \in DOMAIN ks : LET d == ks[i].disk IN
              /\ Overhead <= Start(i)
              /\ End(i) <= Size(d) - (IF ptable = "gpt" THEN 34 ELSE 0)
              /\ ks[i].align # 0 => Start(i) % (2 * ks[i].align) = 0
              /\ ptable = "msdos" /\ Num(i) > 4 => \E e \in Extended(d) : Start(e) <= Start(i)
              /\ i \in Sourced => i \in onDisk[d]
        /\ \A d \in Disks : \A i \in onDisk[d] : ks[i].disk = d
        /\ Cardinality(UsedDisks) = 1 =>
              /\ (\A i \in DOMAIN ks : ks[i].noTable => Num(i) = 0) =>
                    \A i \in DOMAIN ks : PartNum(i) = Num(i)
              /\ ~fstabCut => fstab = <<>> /\ \A i \in Mounted :
                    ~ks[i].noTable => Cardinality({n \in DOMAIN captured :
                                          \E line \in captured[n] : line[1] = i}) = 1
=============================================================================
