----------------------------- MODULE SparseCopy -----------------------------
(***************************************************************************)
(* sparse_copy of scripts/lib/wic/filemap.py, with which wic puts the      *)
(* images of partitions into that of a disk.  Which blocks have data is    *)
(* asked of the file system, by FIEMAP, whose answers come in buffers of   *)
(* extents, or by SEEK_DATA and SEEK_HOLE, which go by bytes.  A byte of   *)
(* the source stands for itself: its value is its place.                   *)
(***************************************************************************)
EXTENDS Integers, SequencesExt

CONSTANTS MaxBlocks,      \* bound on the size of a file
          BlockSize, MaxExtents, \* bytes of a block, extents of a buffer
          Offsets         \* where a copy may begin in the destination

ASSUME CopyAssumption ==
    /\ BlockSize \in Nat \ {0} /\ MaxExtents \in Nat \ {0} /\ MaxBlocks \in Nat
    /\ Offsets \subseteq Nat

VARIABLES mapped,         \* blocks that have data
          extentStarts,   \* blocks where an extent begins
          imageSize,      \* bytes
          method,         \* "fiemap" or "seek"
          block,          \* fiemap: the next block; seek: end, a byte
          buffer,         \* extents in the answer that are still to come
          ranges,         \* <<first, last>> in blocks, as they are yielded
          dstOffset, dst, \* the bytes written, [place -> byte of the source]
          copyStep
copyVars == <<mapped, extentStarts, imageSize, method, block, buffer, ranges, dstOffset, dst,
              copyStep>>

BlocksCnt == (imageSize + BlockSize - 1) \div BlockSize
Blocks == 0..BlocksCnt - 1

CopyInit ==
    /\ imageSize \in 0..MaxBlocks * BlockSize /\ mapped \in SUBSET Blocks
    /\ \E cuts \in SUBSET mapped :
         extentStarts = cuts \cup {b \in mapped : b - 1 \notin mapped}
    /\ method \in {"fiemap", "seek"} /\ block = 0 /\ buffer = {} /\ ranges = <<>>
    /\ dstOffset \in Offsets /\ dst = <<>> /\ copyStep = "map"

-----------------------------------------------------------------------------
(* The extent that begins at b, and those that the ioctl returns: from the *)
(* one that holds block b or comes after it, as many as the buffer takes.  *)
ExtentLast(b) == Max({l \in mapped : b..l \subseteq mapped /\ (b + 1)..l \cap extentStarts = {}})
ExtentsFrom(b) == {e \in extentStarts : ExtentLast(e) >= b}
Buffer(b) == {e \in ExtentsFrom(b) : Cardinality({d \in ExtentsFrom(b) : d < e}) < MaxExtents}

(* get_mapped_ranges makes one range of two that meet.                     *)
Merged(rs, first, last) ==
    IF rs # <<>> /\ rs[Len(rs)][2] = first - 1
    THEN [rs EXCEPT ![Len(rs)] = <<rs[Len(rs)][1], last>>]
    ELSE Append(rs, <<first, last>>)

(* The ioctl is asked again when all that it returned was looked at.       *)
InvokeFiemap ==
    /\ copyStep = "map" /\ method = "fiemap" /\ buffer = {} /\ block < BlocksCnt
    /\ buffer' = Buffer(block)
    /\ copyStep' = IF buffer' = {} THEN "copy" ELSE "map"
    /\ UNCHANGED <<mapped, extentStarts, imageSize, method, block, ranges, dstOffset, dst>>

\* mistake: the next buffer begins after the last extent, however many were looked at
YieldFirst ==
    /\ copyStep = "map" /\ buffer # {} /\ buffer' = {}
    /\ ranges' = Merged(ranges, Max({Min(buffer), block}), ExtentLast(Min(buffer)))
    /\ block' = ExtentLast(Max(buffer)) + 1
    /\ UNCHANGED <<mapped, extentStarts, imageSize, method, dstOffset, dst, copyStep>>

(* What of the next extent lies behind the block the ioctl was asked for.  *)
YieldExtent ==
    /\ copyStep = "map" /\ buffer # {} /\ buffer' = buffer \ {Min(buffer)}
    /\ ranges' = Merged(ranges, Max({Min(buffer), block}), ExtentLast(Min(buffer)))
    /\ block' = IF buffer' = {} THEN ExtentLast(Min(buffer)) + 1 ELSE block
    /\ UNCHANGED <<mapped, extentStarts, imageSize, method, dstOffset, dst, copyStep>>

-----------------------------------------------------------------------------
(* lseek: the next byte of data or of a hole, of which there is one at the *)
(* end of the file; -1 for ENXIO.                                          *)
HasData(x) == x < imageSize /\ x \div BlockSize \in mapped
SeekData(x) == LET places == {y \in x..imageSize - 1 : HasData(y)}
               IN IF places = {} THEN -1 ELSE Min(places)
SeekHole(x) == IF x >= imageSize THEN -1 ELSE Min({y \in x..imageSize : ~HasData(y)})

SeekRange ==
    /\ copyStep = "map" /\ method = "seek"
    /\ LET start == SeekData(block)
           limit == BlocksCnt * BlockSize
           hole == SeekHole(start)
           end == IF hole = -1 \/ hole = imageSize THEN limit ELSE Min({hole, limit})
       IN IF start = -1 \/ start >= limit \/ start = imageSize
          THEN copyStep' = "copy" /\ UNCHANGED <<block, ranges>>
          ELSE /\ ranges' = Append(ranges, <<start \div BlockSize, end \div BlockSize - 1>>)
               /\ block' = end /\ UNCHANGED copyStep
    /\ UNCHANGED <<mapped, extentStarts, imageSize, method, buffer, dstOffset, dst>>

FiemapEnds ==
    /\ copyStep = "map" /\ method = "fiemap" /\ buffer = {} /\ block >= BlocksCnt
    /\ copyStep' = "copy"
    /\ UNCHANGED <<mapped, extentStarts, imageSize, method, block, buffer, ranges, dstOffset, dst>>

(* A range is read, as far as the file goes, and written at the offset.    *)
CopyRange ==
    /\ copyStep = "copy" /\ ranges # <<>> /\ ranges' = Tail(ranges)
    /\ LET first == ranges[1][1] * BlockSize
           read == first..Min({(ranges[1][2] + 1) * BlockSize, imageSize}) - 1
           place == {dstOffset + x : x \in read}
       IN dst' = [y \in DOMAIN dst \cup place |->
                    IF y \in place THEN y - dstOffset ELSE dst[y]]
    /\ UNCHANGED <<mapped, extentStarts, imageSize, method, block, buffer, dstOffset, copyStep>>

CopyNext == InvokeFiemap \/ YieldExtent \/ FiemapEnds \/ SeekRange \/ CopyRange
CopySpec == CopyInit /\ [][CopyNext]_copyVars

-----------------------------------------------------------------------------
CopyTypeOK ==
    /\ imageSize \in 0..MaxBlocks * BlockSize /\ extentStarts \subseteq mapped
    /\ mapped \subseteq Blocks /\ buffer \subseteq extentStarts /\ copyStep \in {"map", "copy"}

(* The bytes of the source that have data, and no others, arrive each at   *)
(* its place in the destination, whatever the extents, the size of the     *)
(* buffer and of the file (filemap.py:443-478, 541-561).                   *)
CopyExact ==
    copyStep = "copy" /\ ranges = <<>> =>
        /\ DOMAIN dst = {dstOffset + x : x \in {y \in 0..imageSize - 1 : HasData(y)}}
        /\ \A y \in DOMAIN dst : dst[y] = y - dstOffset
=============================================================================
