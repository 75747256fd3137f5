--------------------------- MODULE FatMountProofs ---------------------------
(***************************************************************************)
(* What init_fat_driver mounts, for every disk and every failure of the    *)
(* reads.                                                                  *)
(***************************************************************************)
EXTENDS FatMount, TLAPS

\* Multiplication keeps the order.
LEMMA Times ==
    ASSUME NEW a \in Nat, NEW b \in Nat, NEW d \in Nat
    PROVE  (a <= b => a * d <= b * d) /\ (a < b => a * d + d <= b * d)
    BY SMT

\* Quotient and remainder.
LEMMA DivMod ==
    ASSUME NEW x \in Nat, NEW d \in Nat \ {0}
    PROVE  /\ x \div d \in Nat /\ x % d \in 0 .. d - 1
           /\ x = (x \div d) * d + (x % d)
    BY SMT

\* They are unique.
LEMMA DivUnique ==
    ASSUME NEW m \in Nat, NEW d \in Nat \ {0}, NEW r \in 0 .. d - 1
    PROVE  (m * d + r) \div d = m /\ (m * d + r) % d = r
    BY SMT

\* What later steps rely on, from the check that establishes it.
Checked == pc \in {"detect", "type", "size", "final"} \/ Mounted
Typed   == pc \in {"type", "size", "final"} \/ Mounted
Fitting == pc \in {"size", "final"} \/ Mounted
Sized   == pc = "final" \/ Mounted

\* The clusters of a volume whose size of a table is in the BPB.
NoEbpb == [fatSize |-> 0, root |-> 0]

Facts ==
    /\ Checked => SaneBpb
    /\ Typed => /\ type \in {12, 16, 32}
                /\ bpb.fatSize # 0 => type = TypeFor(TotalClusters(NoEbpb))
    /\ Fitting => SaneType /\ fatStart = bpb.reserved
    /\ Sized /\ type # 32 => fatSize = bpb.fatSize
    /\ Mounted => fatSize # 0 /\ rootStart = (bpb.reserved + bpb.fats * fatSize) % WordSize

\* A formatted volume that is read without failures gets through.
Formatted ==
    disk.formatted /\ ~misread =>
        /\ pc # "bpb" => bpb = disk.bpb
        /\ Typed => type = disk.type
        /\ Sized => fatSize = disk.fatSize /\ (type = 32 => rootCluster = disk.ebpb.root)
        /\ pc = "done" => result = 0

IInv == TypeOK /\ Facts /\ Formatted
-----------------------------------------------------------------------------
\* The number of sectors that some bytes take.
LEMMA RoundedUp ==
    ASSUME NEW x \in Nat, NEW b \in Nat \ {0}, NEW r \in Nat, r * b >= x, r * b < x + b
    PROVE  (x + (b - 1)) \div b = r
<1> DEFINE y == (x + (b - 1)) - r * b
<1>1. r * b \in Nat
    BY SMT
<1>2. y \in 0 .. b - 1 /\ x + (b - 1) = r * b + y
    BY <1>1
<1> HIDE DEF y
<1>3. (r * b + y) \div b = r
    BY <1>2, DivUnique
<1> QED BY <1>2, <1>3

\* Products of bounded numbers.
LEMMA Product ==
    ASSUME NEW a \in Nat, NEW b \in Nat, NEW k \in Nat, NEW m \in Nat, a <= k, b <= m
    PROVE  a * b \in Nat /\ a * b <= k * m
<1>1. a * b <= k * b /\ b * k <= m * k
    BY Times
<1> QED BY <1>1, SMT

\* The fields of the structures.
LEMMA Fields ==
    ASSUME NEW b \in Bpb
    PROVE  /\ b.bps \in Nat /\ b.spc \in Nat /\ b.reserved \in Nat /\ b.fats \in Nat
           /\ b.rootEnts \in Nat /\ b.sectors \in Nat /\ b.fatSize \in Nat /\ b.large \in Nat
           /\ b.bps <= 65535 /\ b.spc <= 255 /\ b.reserved <= 65535 /\ b.fats <= 255
           /\ b.rootEnts <= 65535 /\ b.sectors <= 65535 /\ b.fatSize <= 65535
           /\ b.large < WordSize /\ b.sectors < WordSize
<1>1. /\ b.bps \in Short /\ b.spc \in Byte /\ b.reserved \in Short
      /\ b.fats \in Byte
    BY ZenonT(30) DEF Bpb
<1>6. /\ b.rootEnts \in Short /\ b.sectors \in Short
      /\ b.fatSize \in Short /\ b.large \in Word
    BY ZenonT(30) DEF Bpb
<1>4. \A x \in Short : x \in Nat /\ x <= 65535
    BY DEF Short
<1>5. \A x \in Byte : x \in Nat /\ x <= 255
    BY DEF Byte
<1>2. WordSize \in Nat /\ WordSize >= 67108864
    BY MountAssumption, WordSizeAssumption
<1>3. b.large \in Nat /\ b.large < WordSize
    BY <1>2, <1>6 DEF Word
<1> QED BY <1>1, <1>2, <1>3, <1>4, <1>5, <1>6

\* The root directory's sectors are few.
LEMMA RootBound ==
    ASSUME bpb \in Bpb, SaneBpb
    PROVE  RootSectors \in Nat /\ RootSectors <= 2162655
<1>1. bpb.bps \in Nat \ {0} /\ bpb.rootEnts \in Nat /\ bpb.bps <= 65535 /\ bpb.rootEnts <= 65535
    BY Fields DEF SaneBpb
<1>2. PICK x \in Nat : x = bpb.rootEnts * DirentSize + (bpb.bps - 1) /\ x <= 2162655
    BY <1>1 DEF DirentSize
<1>3. x \div bpb.bps \in Nat /\ x \div bpb.bps <= x
    <2> DEFINE q == x \div bpb.bps
               r == x % bpb.bps
    <2>1. q \in Nat /\ r \in 0 .. bpb.bps - 1 /\ x = q * bpb.bps + r
        <3>1. x \in Nat /\ bpb.bps \in Nat \ {0}
            BY <1>1
        <3> QED BY ONLY <3>1, DivMod
    <2> HIDE DEF q, r
    <2>2. q * 1 <= q * bpb.bps /\ q * bpb.bps \in Nat
        <3>1. \A u \in Nat, v \in Nat \ {0} : u * v \in Nat /\ u <= u * v
            BY SMT
        <3> QED BY <1>1, <2>1, <3>1
    <2>3. q <= x
        BY <1>1, <2>1, <2>2
    <2> QED BY <2>1, <2>3 DEF q
<1>4. RootSectors = x \div bpb.bps
    BY <1>2 DEF RootSectors
<1> QED BY <1>2, <1>3, <1>4

\* The number of clusters is one.
LEMMA ClustersType ==
    ASSUME bpb \in Bpb, SaneBpb, NEW e, SectorsPerFat(e) \in Nat
    PROVE  TotalClusters(e) \in Nat
<1>1. RootSectors \in Nat /\ bpb.reserved \in Nat /\ bpb.fats \in Nat /\ bpb.spc \in Nat \ {0}
    BY RootBound, Fields DEF SaneBpb
<1>2. WordSize \in Nat \ {0}
    BY WordSizeAssumption
<1>3. \A a, b, c, d \in Nat, w \in Nat \ {0} : (a + b * c + d) % w \in 0 .. w - 1
    BY SMT
<1>4. Overhead(e) \in 0 .. WordSize - 1
    BY <1>1, <1>2, <1>3 DEF Overhead
<1>5. SectorCount \in Nat /\ SectorCount < WordSize
    BY Fields DEF SectorCount
<1>6. DataSectors(e) \in Nat
    BY <1>2, <1>4, <1>5 DEF DataSectors, WSub
<1>7. DataSectors(e) \div bpb.spc \in Nat
    BY ONLY <1>1, <1>6, DivMod
<1> QED BY <1>6, <1>7 DEF TotalClusters

\* With the size of a table in the BPB, nothing in the sum wraps around, and a
\* difference that wraps around is a large number of clusters.
LEMMA NoWrap ==
    ASSUME bpb \in Bpb, SaneBpb, bpb.fatSize # 0, TotalClusters(NoEbpb) < 65525
    PROVE  LET start == bpb.reserved + bpb.fats * bpb.fatSize + RootSectors
           IN  /\ bpb.reserved + bpb.fats * bpb.fatSize \in Nat
               /\ bpb.reserved + bpb.fats * bpb.fatSize < WordSize
               /\ start <= SectorCount
               /\ (SectorCount - start) \div bpb.spc = TotalClusters(NoEbpb)
<1> DEFINE p == bpb.fats * bpb.fatSize
           start == bpb.reserved + p + RootSectors
           data == WSub(SectorCount, start)
<1>1. WordSize \in Nat /\ WordSize >= 67108864
    BY MountAssumption, WordSizeAssumption
<1>2. p \in Nat /\ p <= 16711425
    <2>1. 255 * 65535 = 16711425
        OBVIOUS
    <2> QED BY <2>1, Fields, Product
<1>3. RootSectors \in Nat /\ RootSectors <= 2162655
    BY RootBound
<1>4. SectorCount \in Nat /\ SectorCount < WordSize
    BY Fields DEF SectorCount
<1>5. SectorsPerFat(NoEbpb) = bpb.fatSize
    BY DEF SectorsPerFat
<1> HIDE DEF p
<1>6. start \in Nat /\ start <= 18939615
    BY <1>2, <1>3, Fields
<1>7. Overhead(NoEbpb) = start
    <2>1. Overhead(NoEbpb) = start % WordSize
        BY <1>5 DEF Overhead, p
    <2>2. \A x \in Nat, w \in Nat \ {0} : x < w => x % w = x
        BY SMT
    <2> HIDE DEF start
    <2> QED BY <1>1, <1>6, <2>1, <2>2
<1>8. DataSectors(NoEbpb) = data
    BY <1>7 DEF DataSectors
<1> HIDE DEF start
<1>9. data \in Nat
    BY <1>1, <1>4, <1>6 DEF WSub
<1>10. bpb.spc \in Nat \ {0} /\ bpb.spc <= 255
    BY Fields DEF SaneBpb
<1>11. TotalClusters(NoEbpb) = data \div bpb.spc
    <2>1. CASE bpb.spc > 1
        BY <1>8, <2>1 DEF TotalClusters
    <2>2. CASE bpb.spc = 1
        <3>1. \A x \in Nat : x \div 1 = x
            BY SMT
        <3> HIDE DEF data
        <3> QED BY <1>8, <1>9, <2>2, <3>1 DEF TotalClusters
    <2> QED BY <1>10, <2>1, <2>2
<1>12. start <= SectorCount
    <2> SUFFICES ASSUME SectorCount < start PROVE FALSE
        BY <1>4, <1>6
    <2>1. data >= 48169249
        BY <1>1, <1>4, <1>6 DEF WSub
    <2> HIDE DEF data
    <2> DEFINE q == data \div bpb.spc
               r == data % bpb.spc
    <2>2. q \in Nat /\ r \in 0 .. bpb.spc - 1 /\ data = q * bpb.spc + r
        <3>1. data \in Nat /\ bpb.spc \in Nat \ {0}
            BY <1>9, <1>10
        <3> QED BY ONLY <3>1, DivMod
    <2>5. q = TotalClusters(NoEbpb)
        BY <1>11
    <2> HIDE DEF q, r
    <2>3. q <= 65524
        BY <2>2, <2>5
    <2>4. q * bpb.spc \in Nat /\ q * bpb.spc <= 65524 * 255
        <3>1. q \in Nat /\ bpb.spc \in Nat /\ q <= 65524 /\ bpb.spc <= 255
            BY <1>10, <2>2, <2>3
        <3>2. q * bpb.spc \in Nat /\ q * bpb.spc <= 65524 * 255
            BY ONLY <3>1, Product
        <3> QED BY <3>2
    <2> QED BY <1>10, <2>1, <2>2, <2>4
<1>13. data = SectorCount - start
    BY <1>4, <1>6, <1>12 DEF WSub
<1>14. bpb.reserved + p \in Nat /\ bpb.reserved + p < WordSize
    BY <1>1, <1>2, Fields
<1> QED BY <1>11, <1>12, <1>13, <1>14 DEF start, p

\* What is known of a formatted volume, by parts.
LEMMA Shape ==
    ASSUME NEW d \in Disks, d.formatted
    PROVE  /\ d.bpb \in Bpb /\ d.ebpb \in Ebpb /\ d.type \in {12, 16, 32}
           /\ d.fatSize \in Nat \ {0} /\ d.clusters \in Nat /\ d.rest \in Nat /\ d.rootSectors \in Nat
           /\ WellFormed(d)
    BY MountAssumption DEF Disk, WellFormed

\* Products of the sizes are numbers.
LEMMA Sums ==
    ASSUME NEW d \in Disks, d.formatted
    PROVE  /\ d.bpb.fats * d.fatSize \in Nat /\ d.clusters * d.bpb.spc \in Nat
           /\ d.bpb.reserved \in Nat
           /\ d.bpb.reserved + d.bpb.fats * d.fatSize < WordSize
<1>1. \A a, b \in Nat : a * b \in Nat
    BY SMT
<1>2. d.bpb.fats * d.fatSize \in Nat /\ d.clusters * d.bpb.spc \in Nat /\ d.bpb.reserved \in Nat
    BY <1>1, Shape, Fields
<1>3. Total(d) < WordSize
    BY Shape DEF WellFormed
<1> DEFINE p == d.bpb.fats * d.fatSize
           c == d.clusters * d.bpb.spc
<1>4. d.bpb.reserved + p + d.rootSectors + c + d.rest < WordSize
    BY <1>3 DEF Total
<1>5. p \in Nat /\ c \in Nat /\ d.rootSectors \in Nat /\ d.rest \in Nat
    BY <1>2, Shape
<1> HIDE DEF p, c
<1>6. d.bpb.reserved + p < WordSize
    BY <1>2, <1>4, <1>5, WordSizeAssumption
<1> QED BY <1>2, <1>6 DEF p

\* A formatted volume passes the first check, and the second.
LEMMA FormattedIsSane ==
    ASSUME disk \in Disks, disk.formatted, bpb = disk.bpb
    PROVE  SaneBpb /\ (type = disk.type => SaneType)
<1>1. WellFormed(disk)
    BY Shape
<1>2. SaneBpb
    BY <1>1 DEF WellFormed, SaneBpb
<1> QED BY <1>1, <1>2, Shape DEF WellFormed, SaneType

\* The code's comparisons are the ranges of the types.
LEMMA CountableType ==
    ASSUME NEW t \in {12, 16, 32}, NEW c \in Nat
    PROVE  Countable(t, c) <=> TypeFor(c) = t
<1>1. Countable(12, c) <=> c < 4085
    BY DEF Countable
<1>2. Countable(16, c) <=> 4085 <= c /\ c < 65525
    BY DEF Countable
<1>3. Countable(32, c) <=> c >= 65525
    BY DEF Countable
<1>4. CASE t = 12
    BY <1>1, <1>4 DEF TypeFor
<1>5. CASE t = 16
    BY <1>2, <1>5 DEF TypeFor
<1>6. CASE t = 32
    BY <1>3, <1>6 DEF TypeFor
<1> QED BY <1>4, <1>5, <1>6

\* The type of a formatted volume is detected.
LEMMA Detected ==
    ASSUME disk \in Disks, disk.formatted, bpb = disk.bpb
    PROVE  TypeFor(TotalClusters(disk.ebpb)) = disk.type
<1> DEFINE p == disk.bpb.fats * disk.fatSize
           c == disk.clusters * disk.bpb.spc
           start == bpb.reserved + p + disk.rootSectors
<1>1. WellFormed(disk) /\ disk.type \in {12, 16, 32} /\ disk.fatSize \in Nat \ {0}
      /\ disk.clusters \in Nat /\ disk.rest \in Nat /\ disk.rootSectors \in Nat
    BY Shape
<1>2. p \in Nat /\ c \in Nat /\ bpb.reserved \in Nat
    BY Sums
<1>3. bpb \in Bpb /\ bpb.bps \in Nat \ {0} /\ bpb.spc \in Nat \ {0} /\ disk.rest < bpb.spc
    BY <1>1, Shape, Fields DEF WellFormed
<1>4. WordSize \in Nat \ {0}
    BY WordSizeAssumption
<1>5. Total(disk) = start + c + disk.rest /\ Total(disk) < WordSize
    BY <1>1 DEF WellFormed, Total
<1>6. SectorCount = Total(disk)
    <2>1. \/ bpb.sectors = Total(disk) /\ Total(disk) > 0
          \/ bpb.sectors = 0 /\ bpb.large = Total(disk)
        BY <1>1 DEF WellFormed
    <2>2. CASE bpb.sectors = Total(disk) /\ Total(disk) > 0
        <3>1. bpb.sectors # 0
            BY <1>3, <2>2, Fields
        <3> QED BY <2>2, <3>1 DEF SectorCount
    <2>3. CASE bpb.sectors = 0 /\ bpb.large = Total(disk)
        BY <2>3 DEF SectorCount
    <2> QED BY <2>1, <2>2, <2>3
<1>7. RootSectors = disk.rootSectors
    <2>1. PICK x \in Nat : x = bpb.rootEnts * DirentSize
        BY <1>3, Fields DEF DirentSize
    <2>2. disk.rootSectors * bpb.bps >= x /\ disk.rootSectors * bpb.bps < x + bpb.bps
        BY <1>1, <2>1 DEF WellFormed
    <2>3. (x + (bpb.bps - 1)) \div bpb.bps = disk.rootSectors
        BY ONLY <1>1, <1>3, <2>1, <2>2, RoundedUp
    <2> QED BY <2>1, <2>3 DEF RootSectors
<1>8. SectorsPerFat(disk.ebpb) = disk.fatSize
    BY <1>1 DEF WellFormed, SectorsPerFat
<1>9. Overhead(disk.ebpb) = start % WordSize
    BY <1>7, <1>8 DEF Overhead
<1> HIDE DEF p, c
<1>10. start \in Nat /\ start < WordSize
    BY <1>1, <1>2, <1>4, <1>5
<1> HIDE DEF start
<1>11. Overhead(disk.ebpb) = start
    <2>1. \A x \in Nat, w \in Nat \ {0} : x < w => x % w = x
        BY SMT
    <2> QED BY <1>4, <1>9, <1>10, <2>1
<1>12. DataSectors(disk.ebpb) = c + disk.rest
    <2>1. SectorCount >= start /\ SectorCount - start = c + disk.rest
        BY <1>1, <1>2, <1>5, <1>6, <1>10
    <2> QED BY <1>11, <2>1 DEF DataSectors, WSub
<1>13. TotalClusters(disk.ebpb) = disk.clusters
    <2>1. CASE bpb.spc > 1
        <3>1. disk.rest \in 0 .. bpb.spc - 1
            BY <1>1, <1>3
        <3>2. (disk.clusters * bpb.spc + disk.rest) \div bpb.spc = disk.clusters
            <4>1. disk.clusters \in Nat /\ bpb.spc \in Nat \ {0}
                BY <1>1, <1>3
            <4> QED BY ONLY <3>1, <4>1, DivUnique
        <3> QED BY <1>12, <2>1, <3>2 DEF TotalClusters, c
    <2>2. CASE bpb.spc = 1
        <3>1. disk.rest = 0
            BY <1>1, <1>3, <2>2
        <3>2. c = disk.clusters
            BY <1>1, <2>2 DEF c
        <3> QED BY <1>1, <1>12, <2>2, <3>1, <3>2 DEF TotalClusters
    <2> QED BY <1>3, <2>1, <2>2
<1>14. Countable(disk.type, disk.clusters)
    BY <1>1 DEF WellFormed
<1>15. TypeFor(disk.clusters) = disk.type
    BY ONLY <1>1, <1>14, CountableType
<1> QED BY <1>13, <1>15

\* The size of a table in the BPB makes the EBPB irrelevant.
LEMMA EbpbIgnored ==
    ASSUME NEW e, bpb.fatSize # 0
    PROVE  TotalClusters(e) = TotalClusters(NoEbpb)
    BY DEF TotalClusters, DataSectors, Overhead, SectorsPerFat
-----------------------------------------------------------------------------
\* The invariant holds at the beginning.
LEMMA IInvInit == Init => IInv
<1> SUFFICES ASSUME Init PROVE IInv
    OBVIOUS
<1>1. 0 \in Word /\ 0 \in Short /\ 0 \in Byte
    BY WordSizeAssumption DEF Word, Short, Byte
<1>2. bpb \in Bpb
    BY <1>1 DEF Init, Blank, Bpb
<1>3. TypeOK
    <2>1. misread \in BOOLEAN /\ result \in -4 .. 0 /\ type \in {0, 12, 16, 32}
        <3>1. 0 \in -4 .. 0
            BY SMT
        <3> QED BY <3>1 DEF Init
    <2> QED BY <1>1, <1>2, <2>1 DEF Init, TypeOK
<1> QED BY <1>3 DEF Init, IInv, Facts, Formatted, Checked, Typed, Fitting, Sized, Mounted

\* A read gives the truth or something of the same type.
LEMMA EbpbRead ==
    ASSUME TypeOK, NEW e \in {disk.ebpb} \cup Ebpbs, Reads(e, disk.ebpb, Ebpbs)
    PROVE  /\ e.fatSize \in Word /\ e.root \in Word /\ misread' \in BOOLEAN
           /\ ~misread' => ~misread /\ e = disk.ebpb
<1>1. disk.ebpb \in Ebpb /\ Ebpbs \subseteq Ebpb
    BY MountAssumption DEF TypeOK, Disk
<1>2. e \in Ebpb
    BY <1>1
<1> QED BY <1>2 DEF Ebpb, Reads, TypeOK

LEMMA ReadBpbStep == ASSUME IInv, ReadBpb PROVE IInv'
<1>1. disk.bpb \in Bpb /\ Bpbs \subseteq Bpb
    BY MountAssumption DEF IInv, TypeOK, Disk
<1>2. bpb' \in Bpb /\ misread' \in BOOLEAN /\ (~misread' => ~misread /\ bpb' = disk.bpb)
    <2>1. PICK b \in {disk.bpb} \cup Bpbs : Reads(b, disk.bpb, Bpbs) /\ bpb' = b
        BY DEF ReadBpb
    <2>2. misread \in BOOLEAN
        BY DEF IInv, TypeOK
    <2>3. CASE b = disk.bpb /\ misread' = misread
        BY <1>1, <2>1, <2>2, <2>3
    <2>4. CASE b \in Bpbs /\ misread' = TRUE
        BY <1>1, <2>1, <2>4
    <2> QED BY <2>1, <2>3, <2>4 DEF Reads
<1> QED BY <1>2 DEF ReadBpb, IInv, TypeOK, geometry, Facts, Formatted, Checked, Typed, Fitting, Sized, Mounted

LEMMA CheckBpbStep == ASSUME IInv, CheckBpb PROVE IInv'
<1>1. disk.formatted /\ ~misread => SaneBpb
    BY FormattedIsSane DEF IInv, TypeOK, Formatted, CheckBpb
<1>2. SaneBpb' <=> SaneBpb
    BY DEF CheckBpb, SaneBpb
<1>3. TypeOK'
    BY DEF CheckBpb, Return, IInv, TypeOK, geometry
<1> QED BY <1>1, <1>2, <1>3 DEF CheckBpb, Return, IInv, geometry, Facts, Formatted, Checked, Typed, Fitting, Sized, Mounted

LEMMA DetectStep == ASSUME IInv, DetectFatType PROVE IInv'
<1>1. PICK e \in {disk.ebpb} \cup Ebpbs : Reads(e, disk.ebpb, Ebpbs) /\ type' = TypeFor(TotalClusters(e))
    BY DEF DetectFatType
<1>2. misread' \in BOOLEAN /\ (~misread' => ~misread /\ e = disk.ebpb)
    BY <1>1, EbpbRead DEF IInv
<1>3. type' \in {12, 16, 32}
    BY <1>1 DEF TypeFor
<1>4. bpb' = bpb /\ disk' = disk /\ pc = "detect" /\ pc' = "type" /\ UNCHANGED <<geometry, result>>
    BY DEF DetectFatType
<1>5. SaneBpb'
    BY <1>4 DEF IInv, Facts, Checked, SaneBpb
<1>6. bpb.fatSize # 0 => type' = TypeFor(TotalClusters(NoEbpb))
    BY <1>1, EbpbIgnored
<1>7. TypeFor(TotalClusters(NoEbpb))' = TypeFor(TotalClusters(NoEbpb))
    BY <1>4 DEF TypeFor, TotalClusters, DataSectors, Overhead, SectorsPerFat, SectorCount, RootSectors
<1>8. disk.formatted /\ ~misread' => type' = disk.type
    BY <1>1, <1>2, <1>4, Detected DEF IInv, TypeOK, Formatted
<1>9. TypeOK'
    BY <1>2, <1>3, <1>4 DEF IInv, TypeOK, geometry
<1>10. Facts'
    BY <1>3, <1>4, <1>5, <1>6, <1>7 DEF Facts, Checked, Typed, Fitting, Sized, Mounted
<1>11. Formatted'
    BY <1>2, <1>4, <1>8 DEF IInv, Formatted, Typed, Sized, Mounted
<1> QED BY <1>9, <1>10, <1>11 DEF IInv

\* Clusters' number does not change while bpb does not.
LEMMA SameClusters ==
    ASSUME bpb' = bpb
    PROVE  TypeFor(TotalClusters(NoEbpb))' = TypeFor(TotalClusters(NoEbpb)) /\ SaneBpb' = SaneBpb
    BY DEF TypeFor, TotalClusters, DataSectors, Overhead, SectorsPerFat, SectorCount, RootSectors, SaneBpb

LEMMA CheckTypeStep == ASSUME IInv, CheckType PROVE IInv'
<1>1. disk.formatted /\ ~misread => SaneType
    BY FormattedIsSane DEF IInv, TypeOK, Formatted, Typed, CheckType
<1>2. bpb.bps # 0 /\ SaneBpb
    BY DEF IInv, Facts, Checked, CheckType, SaneBpb
<1>3. UNCHANGED <<disk, misread, bpb, type, fatSize, rootCluster, rootStart>>
    BY DEF CheckType
<1>4. SaneType' = SaneType /\ SaneBpb' = SaneBpb
      /\ TypeFor(TotalClusters(NoEbpb))' = TypeFor(TotalClusters(NoEbpb))
    BY <1>3, SameClusters DEF SaneType
<1>5. bpb.reserved \in Word
    <2>1. bpb.reserved \in Nat /\ bpb.reserved <= 65535
        BY Fields DEF IInv, TypeOK
    <2> QED BY <2>1, WordSizeAssumption, MountAssumption DEF Word
<1>6. CASE ~SaneType /\ Return(-2) /\ UNCHANGED fatStart
    BY <1>1, <1>2, <1>3, <1>4, <1>6 DEF CheckType, Return, IInv, TypeOK, Facts, Formatted, Checked, Typed, Fitting, Sized, Mounted
<1>7. CASE SaneType /\ pc' = "size" /\ UNCHANGED result /\ fatStart' = bpb.reserved
    BY <1>2, <1>3, <1>4, <1>5, <1>7 DEF CheckType, IInv, TypeOK, Facts, Formatted, Checked, Typed, Fitting, Sized, Mounted
<1> QED BY <1>2, <1>6, <1>7 DEF CheckType

LEMMA ReadSizeStep == ASSUME IInv, ReadSize PROVE IInv'
<1>1. pc = "size" /\ pc' = "final" /\ UNCHANGED <<disk, bpb, type, fatStart, rootStart, result>>
    BY DEF ReadSize
<1>2. SaneType' = SaneType /\ SaneBpb' = SaneBpb
      /\ TypeFor(TotalClusters(NoEbpb))' = TypeFor(TotalClusters(NoEbpb))
    BY <1>1, SameClusters DEF SaneType
<1>3. bpb.fatSize \in Word
    BY Fields, WordSizeAssumption, MountAssumption DEF IInv, TypeOK, Word
<1>4. CASE type = 32
    <2>1. PICK e \in {disk.ebpb} \cup Ebpbs : Reads(e, disk.ebpb, Ebpbs) /\ fatSize' = e.fatSize /\ rootCluster' = e.root
        BY <1>4 DEF ReadSize
    <2>2. /\ e.fatSize \in Word /\ e.root \in Word /\ misread' \in BOOLEAN
          /\ ~misread' => ~misread /\ e = disk.ebpb
        BY <2>1, EbpbRead DEF IInv
    <2>3. TypeOK'
        BY <1>1, <2>1, <2>2 DEF IInv, TypeOK
    <2>4. Facts'
        BY <1>1, <1>2, <1>4 DEF IInv, Facts, Checked, Typed, Fitting, Sized, Mounted
    <2>5. disk.formatted /\ ~misread' => fatSize' = disk.fatSize /\ rootCluster' = disk.ebpb.root
        <3>1. disk \in Disks /\ (disk.formatted /\ ~misread => type = disk.type)
            BY <1>1 DEF IInv, TypeOK, Formatted, Typed
        <3> QED BY <1>4, <2>1, <2>2, <3>1, Shape DEF WellFormed
    <2>6. Formatted'
        BY <1>1, <2>2, <2>5 DEF IInv, Formatted, Typed, Sized, Mounted
    <2> QED BY <2>3, <2>4, <2>6 DEF IInv
<1>5. CASE type # 32
    <2>1. fatSize' = bpb.fatSize /\ UNCHANGED <<misread, rootCluster>>
        BY <1>5 DEF ReadSize
    <2>2. TypeOK'
        BY <1>1, <1>3, <2>1 DEF IInv, TypeOK
    <2>3. Facts'
        BY <1>1, <1>2, <2>1 DEF IInv, Facts, Checked, Typed, Fitting, Sized, Mounted
    <2>4. disk.formatted /\ ~misread => fatSize' = disk.fatSize
        <3>1. disk \in Disks /\ (disk.formatted /\ ~misread => type = disk.type /\ bpb = disk.bpb)
            BY <1>1 DEF IInv, TypeOK, Formatted, Typed
        <3> QED BY <1>5, <2>1, <3>1, Shape DEF WellFormed
    <2>5. Formatted'
        BY <1>1, <1>5, <2>1, <2>4 DEF IInv, Formatted, Typed, Sized, Mounted
    <2> QED BY <2>2, <2>3, <2>5 DEF IInv
<1> QED BY <1>4, <1>5

LEMMA FinishStep == ASSUME IInv, Finish PROVE IInv'
<1>1. pc = "final" /\ pc' = "done" /\ UNCHANGED <<disk, misread, bpb, type, fatStart, fatSize, rootCluster>>
      /\ result' = (IF fatSize = 0 THEN -4 ELSE 0)
      /\ rootStart' = (bpb.reserved + bpb.fats * fatSize) % WordSize
    BY DEF Finish, Return
<1>2. SaneType' = SaneType /\ SaneBpb' = SaneBpb
      /\ TypeFor(TotalClusters(NoEbpb))' = TypeFor(TotalClusters(NoEbpb))
    BY <1>1, SameClusters DEF SaneType
<1>3. rootStart' \in Word
    <2>1. bpb.reserved \in Nat /\ bpb.fats \in Nat /\ fatSize \in Nat /\ WordSize \in Nat \ {0}
        BY Fields, WordSizeAssumption DEF IInv, TypeOK, Word
    <2>2. \A a, b, c \in Nat, w \in Nat \ {0} : (a + b * c) % w \in 0 .. w - 1
        BY SMT
    <2> QED BY ONLY <1>1, <2>1, <2>2 DEF Word
<1>4. TypeOK'
    BY <1>1, <1>3 DEF IInv, TypeOK
<1>5. Facts'
    BY <1>1, <1>2 DEF IInv, Facts, Checked, Typed, Fitting, Sized, Mounted
<1>6. disk.formatted => disk.fatSize # 0
    BY Shape DEF IInv, TypeOK
<1>7. Formatted'
    BY <1>1, <1>6 DEF IInv, Formatted, Typed, Sized, Mounted
<1> QED BY <1>4, <1>5, <1>7 DEF IInv

\* Every step keeps the invariant.
LEMMA IInvStep == IInv /\ [Next]_vars => IInv'
<1> SUFFICES ASSUME IInv, [Next]_vars PROVE IInv'
    OBVIOUS
<1>1. CASE UNCHANGED vars
    <2>1. SaneType' = SaneType /\ SaneBpb' = SaneBpb
          /\ TypeFor(TotalClusters(NoEbpb))' = TypeFor(TotalClusters(NoEbpb))
        BY <1>1, SameClusters DEF SaneType, vars
    <2> QED BY <1>1, <2>1 DEF vars, geometry, IInv, TypeOK, Facts, Formatted, Checked, Typed, Fitting, Sized, Mounted
<1> QED BY <1>1, ReadBpbStep, CheckBpbStep, DetectStep, CheckTypeStep, ReadSizeStep, FinishStep DEF Next, Done
-----------------------------------------------------------------------------
\* The invariant of init_fat_driver holds throughout.
THEOREM MountInvariant == Spec => []IInv
    BY IInvInit, IInvStep, PTL DEF Spec

\* Variables have their types.
THEOREM MountTypeCorrect == Spec => []TypeOK
<1>1. IInv => TypeOK
    BY DEF IInv
<1> QED BY <1>1, MountInvariant, PTL

\* Every volume that a formatter makes is mounted as what it is.
THEOREM FormattedIsMounted == Spec => []MountsFormatted
<1>1. IInv => MountsFormatted
    <2> SUFFICES ASSUME IInv, pc = "done", disk.formatted, ~misread PROVE MountsFormatted
        BY DEF MountsFormatted
    <2>1. result = 0 /\ bpb = disk.bpb /\ Mounted
        BY DEF IInv, Formatted, Mounted
    <2>2. type = disk.type /\ fatSize = disk.fatSize /\ (type = 32 => rootCluster = disk.ebpb.root)
        BY <2>1 DEF IInv, Formatted, Typed, Sized
    <2>3. fatStart = disk.bpb.reserved /\ rootStart = (disk.bpb.reserved + disk.bpb.fats * disk.fatSize) % WordSize
        BY <2>1, <2>2 DEF IInv, Facts, Fitting
    <2>4. rootStart = disk.bpb.reserved + disk.bpb.fats * disk.fatSize
        <3> DEFINE p == disk.bpb.fats * disk.fatSize
        <3>1. p \in Nat /\ disk.bpb.reserved \in Nat /\ disk.bpb.reserved + p < WordSize
            BY Sums DEF IInv, TypeOK
        <3> HIDE DEF p
        <3>2. PICK x \in Nat : x = disk.bpb.reserved + p
            BY <3>1
        <3>3. \A u \in Nat, w \in Nat \ {0} : u < w => u % w = u
            BY SMT
        <3>4. x % WordSize = x
            BY <3>1, <3>2, <3>3, WordSizeAssumption
        <3> QED BY <2>3, <3>2, <3>4 DEF p
    <2> QED BY <2>1, <2>2, <2>3, <2>4 DEF MountsFormatted
<1> QED BY <1>1, MountInvariant, PTL

\* Nothing that is mounted can make the driver divide by zero.
THEOREM MountedIsSafe == Spec => []SafeToUse
<1>1. IInv => SafeToUse
    <2> SUFFICES ASSUME IInv, Mounted PROVE SafeToUse
        BY DEF SafeToUse
    <2>1. SaneBpb /\ fatSize # 0 /\ bpb \in Bpb /\ fatSize \in Word
        BY DEF IInv, Facts, Checked, TypeOK
    <2> QED BY <2>1, Fields, WordSizeAssumption DEF SafeToUse, SaneBpb, Word
<1> QED BY <1>1, MountInvariant, PTL

\* Nothing that is mounted with 12 or 16-bit entries lacks room for its tables.
THEOREM MountedTablesFit == Spec => []TablesFit
<1>1. IInv => TablesFit
    <2> SUFFICES ASSUME IInv, Mounted, type # 32 PROVE TablesFit
        BY DEF TablesFit
    <2>1. /\ SaneBpb /\ fatSize = bpb.fatSize /\ bpb.fatSize # 0 /\ bpb \in Bpb
          /\ type \in {12, 16} /\ type = TypeFor(TotalClusters(NoEbpb))
          /\ rootStart = (bpb.reserved + bpb.fats * fatSize) % WordSize
        BY DEF IInv, Facts, Checked, Typed, Fitting, Sized, SaneType, TypeOK
    <2>2. TotalClusters(NoEbpb) < 65525 /\ Countable(type, TotalClusters(NoEbpb))
        <3>1. TotalClusters(NoEbpb) \in Nat
            <4>1. SectorsPerFat(NoEbpb) \in Nat
                BY <2>1, Fields DEF SectorsPerFat
            <4> QED BY <2>1, <4>1, ClustersType
        <3>2. Countable(type, TotalClusters(NoEbpb))
            <4>1. type \in {12, 16, 32} /\ TypeFor(TotalClusters(NoEbpb)) = type
                BY <2>1
            <4> QED BY ONLY <3>1, <4>1, CountableType
        <3>3. TotalClusters(NoEbpb) < 65525
            BY <2>1, <3>1 DEF TypeFor
        <3> QED BY <3>2, <3>3
    <2> DEFINE p == bpb.fats * bpb.fatSize
               start == bpb.reserved + p + RootSectors
    <2>3. /\ bpb.reserved + p \in Nat /\ bpb.reserved + p < WordSize /\ start <= SectorCount
          /\ (SectorCount - start) \div bpb.spc = TotalClusters(NoEbpb)
        BY <2>1, <2>2, NoWrap
    <2>4. rootStart = bpb.reserved + p
        <3>1. PICK x \in Nat : x = bpb.reserved + p
            BY <2>3
        <3>2. \A u \in Nat, w \in Nat \ {0} : u < w => u % w = u
            BY SMT
        <3>3. x % WordSize = x
            BY <2>3, <3>1, <3>2, WordSizeAssumption
        <3> QED BY <2>1, <3>1, <3>3
    <2> QED BY <2>1, <2>2, <2>3, <2>4 DEF TablesFit
<1> QED BY <1>1, MountInvariant, PTL
=============================================================================
