------------------------------ MODULE FatMount ------------------------------
(***************************************************************************)
(* init_fat_driver: which volumes are mounted, with which type of table    *)
(* and which geometry.  It reads the disk three times, and does not learn  *)
(* when a read fails: the structure then holds whatever the stack held.    *)
(***************************************************************************)
EXTENDS Regions

CONSTANTS Disks,            \* see Disk
          Bpbs, Ebpbs       \* what the structures may hold after a failed read

DirentSize == 32

Byte  == 0 .. 255
Short == 0 .. 65535

\* Fields in the order of the structures: bytes_per_sector, sectors_per_cluster,
\* reserved_sectors, fat_count, root_dir_ents, sector_count, sectors_per_fat,
\* large_sector_count; and sectors_per_fat, root_cluster_number.
Bpb  == [bps : Short, spc : Byte, reserved : Short, fats : Byte,
         rootEnts : Short, sectors : Short, fatSize : Short, large : Word]
Ebpb == [fatSize : Word, root : Word]

\* A disk, and if it was formatted what the formatter had in mind: the type of the
\* table and its size, the clusters, the sectors too few for another cluster, and
\* the sectors set aside for the root directory.
Disk == [bpb : Bpb, ebpb : Ebpb, formatted : BOOLEAN, type : {12, 16, 32}, fatSize : Nat,
         clusters : Nat, rest : Nat, rootSectors : Nat]

\* Can a table of a type have entries for that many clusters?
Countable(type, clusters) ==
    CASE type = 12 -> clusters < 4085
      [] type = 16 -> 4085 <= clusters /\ clusters < 65525
      [] type = 32 -> clusters >= 65525

IsPowerOf2(n) == \E k \in 0 .. 15 : n = 2 ^ k

\* The sectors of a formatted volume, however many they are.
Total(d) == d.bpb.reserved + d.bpb.fats * d.fatSize + d.rootSectors
                + d.clusters * d.bpb.spc + d.rest

WellFormed(d) ==
    /\ IsPowerOf2(d.bpb.bps) /\ d.bpb.bps > 0 /\ d.bpb.spc > 0
    /\ d.rootSectors * d.bpb.bps >= d.bpb.rootEnts * DirentSize
    /\ d.rootSectors * d.bpb.bps < d.bpb.rootEnts * DirentSize + d.bpb.bps
    /\ d.rest < d.bpb.spc
    /\ Countable(d.type, d.clusters)
    /\ d.fatSize > 0
    /\ IF d.type = 32
       THEN d.bpb.fatSize = 0 /\ d.ebpb.fatSize = d.fatSize /\ d.bpb.rootEnts = 0
       ELSE d.bpb.fatSize = d.fatSize
    /\ Total(d) < WordSize
    /\ \/ d.bpb.sectors = Total(d) /\ Total(d) > 0
       \/ d.bpb.sectors = 0 /\ d.bpb.large = Total(d)

\* A uint32_t can count the sectors before the clusters, and more than 65525
\* clusters of any size besides.
ASSUME MountAssumption ==
    /\ WordSize >= 67108864
    /\ Bpbs \subseteq Bpb /\ Ebpbs \subseteq Ebpb
    /\ \A d \in Disks : d \in Disk /\ (d.formatted => WellFormed(d))

VARIABLES disk,
          misread,                                  \* has a read failed?
          bpb, type, fatStart, fatSize, rootCluster, rootStart,     \* the driver's state
          pc,
          result                                    \* what is returned

geometry == <<fatStart, fatSize, rootCluster, rootStart>>
vars     == <<disk, misread, bpb, type, geometry, pc, result>>

\* What is on the stack does not matter before it is read.
Blank == [bps |-> 0, spc |-> 0, reserved |-> 0, fats |-> 0,
          rootEnts |-> 0, sectors |-> 0, fatSize |-> 0, large |-> 0]

Init ==
    /\ disk \in Disks
    /\ misread = FALSE
    /\ bpb = Blank /\ type = 0
    /\ fatStart = 0 /\ fatSize = 0 /\ rootCluster = 0 /\ rootStart = 0
    /\ pc = "bpb" /\ result = 0

Return(r) ==
    /\ pc' = "done" /\ result' = r

\* read_disk: x is the structure on the disk, or anything after a failure.
Reads(x, truth, any) ==
    \/ x = truth /\ UNCHANGED misread
    \/ x \in any /\ misread' = TRUE

ReadBpb ==
    /\ pc = "bpb" /\ pc' = "sane"
    /\ \E b \in {disk.bpb} \cup Bpbs : Reads(b, disk.bpb, Bpbs) /\ bpb' = b
    /\ UNCHANGED <<disk, type, geometry, result>>

SaneBpbAnyCluster ==    \* mutant: clusters without sectors are not looked for
    bpb.bps # 0 /\ IsPowerOf2(bpb.bps)

\* n & (n - 1) is zero for powers of two, and for zero.
SaneBpb == bpb.spc # 0 /\ bpb.bps # 0 /\ IsPowerOf2(bpb.bps)

CheckBpb ==
    /\ pc = "sane"
    /\ IF SaneBpb THEN pc' = "detect" /\ UNCHANGED result ELSE Return(-1)
    /\ UNCHANGED <<disk, misread, bpb, type, geometry>>
-----------------------------------------------------------------------------
(***************************************************************************)
(* detect_fat_type, with e for the structure that it reads.                *)
(***************************************************************************)
SectorCount == IF bpb.sectors = 0 THEN bpb.large ELSE bpb.sectors

RootSectors == (bpb.rootEnts * DirentSize + (bpb.bps - 1)) \div bpb.bps

SectorsPerFat(e) == IF bpb.fatSize = 0 THEN e.fatSize ELSE bpb.fatSize

\* Reserved sectors, tables and root directory.
Overhead(e) == (bpb.reserved + bpb.fats * SectorsPerFat(e) + RootSectors) % WordSize

DataSectorsSaturated(e) ==      \* mutant: no less than none
    IF SectorCount < Overhead(e) THEN 0 ELSE SectorCount - Overhead(e)

\* The subtraction may wrap around.
DataSectors(e) == WSub(SectorCount, Overhead(e))

TotalClusters(e) == IF bpb.spc > 1 THEN DataSectors(e) \div bpb.spc ELSE DataSectors(e)

TypeForOffByOne(clusters) ==    \* mutant: one more cluster for a 12-bit table
    IF clusters <= 4085 THEN 12 ELSE IF clusters < 65525 THEN 16 ELSE 32

TypeForGap(clusters) ==         \* mutant: the first count of FAT32 falls through
    IF clusters < 4085 THEN 12 ELSE IF clusters < 65525 THEN 16
    ELSE IF clusters > 65525 THEN 32 ELSE 0

TypeFor(clusters) ==
    IF clusters < 4085 THEN 12 ELSE IF clusters < 65525 THEN 16 ELSE 32

DetectFatType ==
    /\ pc = "detect" /\ pc' = "type"
    /\ \E e \in {disk.ebpb} \cup Ebpbs :
           /\ Reads(e, disk.ebpb, Ebpbs)
           /\ type' = TypeFor(TotalClusters(e))
    /\ UNCHANGED <<disk, bpb, geometry, result>>
-----------------------------------------------------------------------------
\* Does the type fit the fields that only one of the types has?
SaneType == IF type = 32 THEN bpb.fatSize = 0 /\ bpb.rootEnts = 0
                         ELSE bpb.fatSize # 0

CheckType ==
    /\ pc = "type"
    /\ CASE ~SaneType                  -> Return(-2) /\ UNCHANGED fatStart
         [] SaneType /\ bpb.bps = 0    -> Return(-3) /\ UNCHANGED fatStart
         [] SaneType /\ bpb.bps # 0    -> /\ pc' = "size" /\ UNCHANGED result
                                          /\ fatStart' = bpb.reserved
    /\ UNCHANGED <<disk, misread, bpb, type, fatSize, rootCluster, rootStart>>

\* The size of a table of 32-bit entries is read again.
ReadSize ==
    /\ pc = "size" /\ pc' = "final"
    /\ \/ /\ type = 32
          /\ \E e \in {disk.ebpb} \cup Ebpbs :
                 /\ Reads(e, disk.ebpb, Ebpbs)
                 /\ fatSize' = e.fatSize /\ rootCluster' = e.root
       \/ /\ type # 32
          /\ fatSize' = bpb.fatSize
          /\ UNCHANGED <<misread, rootCluster>>
    /\ UNCHANGED <<disk, bpb, type, fatStart, rootStart, result>>


Finish ==
    /\ pc = "final"
    /\ rootStart' = (bpb.reserved + bpb.fats * fatSize) % WordSize
    /\ Return(IF fatSize = 0 THEN -4 ELSE 0)
    /\ UNCHANGED <<disk, misread, bpb, type, fatStart, fatSize, rootCluster>>

Done == pc = "done" /\ UNCHANGED vars

Next == \/ ReadBpb \/ CheckBpb \/ DetectFatType \/ CheckType \/ ReadSize \/ Finish
        \/ Done

Spec == Init /\ [][Next]_vars
-----------------------------------------------------------------------------
TypeOK ==
    /\ disk \in Disks
    /\ misread \in BOOLEAN
    /\ bpb \in Bpb
    /\ type \in {0, 12, 16, 32} /\ (pc \in {"type", "size", "final"} => type # 0)
    /\ fatStart \in Word /\ fatSize \in Word /\ rootCluster \in Word /\ rootStart \in Word
    /\ pc \in {"bpb", "sane", "detect", "type", "size", "final", "done"}
    /\ result \in -4 .. 0

Mounted == pc = "done" /\ result = 0

\* A formatted volume is mounted, unless reads fail: the type that follows from
\* the number of clusters is that of its table, and the table, the root directory
\* and the root cluster are where the formatter put them.
MountsFormatted ==
    pc = "done" /\ disk.formatted /\ ~misread =>
        /\ result = 0
        /\ type = disk.type
        /\ fatStart = disk.bpb.reserved /\ fatSize = disk.fatSize
        /\ rootStart = disk.bpb.reserved + disk.bpb.fats * disk.fatSize
        /\ type = 32 => rootCluster = disk.ebpb.root

\* Whatever is on the disk and whichever reads failed, a volume that is mounted
\* does not make the driver divide by zero, sectors are a power of two of bytes,
\* and there is a table.
SafeToUse ==
    Mounted => /\ bpb.spc > 0 /\ bpb.bps > 0 /\ IsPowerOf2(bpb.bps)
               /\ fatSize > 0

\* Whatever is on the disk and whichever reads failed, a volume that is mounted
\* with 12 or 16-bit entries has room for its tables, its root directory and as
\* many clusters as its type says: there the subtraction has not wrapped around.
TablesFit ==
    Mounted /\ type # 32 =>
        LET start == bpb.reserved + bpb.fats * fatSize + RootSectors
        IN  /\ rootStart = bpb.reserved + bpb.fats * fatSize
            /\ start <= SectorCount
            /\ Countable(type, (SectorCount - start) \div bpb.spc)
=============================================================================
