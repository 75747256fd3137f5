--------------------------- MODULE FatFileProofs ---------------------------
(***************************************************************************)
(* A handle implements a file: FatFile refines ByteFile, for every volume  *)
(* whose file lies where a uint32_t addresses it.                          *)
(***************************************************************************)
EXTENDS FatFile, TLAPS, SequenceTheorems

\* Multiplication keeps the order.
LEMMA Times ==
    ASSUME NEW a \in Nat, NEW b \in Nat, NEW d \in Nat
    PROVE  (a <= b => a * d <= b * d) /\ (a < b => a * d + d <= b * d)
    BY SMT

\* Quotient and remainder.
LEMMA DivMod ==
    ASSUME NEW x \in Nat, NEW d \in Nat \ {0}
    PROVE  /\ x \div d \in Nat /\ x % d \in 0 .. d - 1
           /\ x = (x \div d) * d + (x % d)
    BY SMT

\* They are unique.
LEMMA DivUnique ==
    ASSUME NEW m \in Nat, NEW d \in Nat \ {0}, NEW r \in 0 .. d - 1
    PROVE  (m * d + r) \div d = m /\ (m * d + r) % d = r
    BY SMT

\* They exist below zero, too.
LEMMA DivModInt ==
    ASSUME NEW x \in Int, NEW d \in Nat \ {0}
    PROVE  \E q \in Int : x % d \in 0 .. d - 1 /\ x = q * d + (x % d)
<1>1. x \div d \in Int /\ x % d \in 0 .. d - 1 /\ x = (x \div d) * d + (x % d)
    BY SMT
<1> QED BY ONLY <1>1

LEMMA ModUnique ==
    ASSUME NEW m \in Int, NEW d \in Nat \ {0}, NEW r \in 0 .. d - 1
    PROVE  (m * d + r) % d = r
    BY SMT

\* A multiple of the modulus makes no difference.
LEMMA Congruent ==
    ASSUME NEW x \in Int, NEW k \in Int, NEW d \in Nat \ {0}
    PROVE  (x + k * d) % d = x % d
<1>1. PICK q \in Int : x % d \in 0 .. d - 1 /\ x = q * d + (x % d)
    BY DivModInt
<1>2. PICK r \in 0 .. d - 1 : r = x % d
    BY <1>1
<1>3. x = q * d + r
    BY <1>1, <1>2
<1>4. x + k * d = (q + k) * d + r
    <2>1. \A a, b, w, s \in Int : (a * w + s) + b * w = (a + b) * w + s
        BY SMT
    <2> QED BY <1>3, <2>1
<1>5. q + k \in Int
    OBVIOUS
<1> QED BY <1>2, <1>4, <1>5, ModUnique

\* What fits in a word does not wrap around.
LEMMA Fits == ASSUME NEW x \in Nat, x < WordSize PROVE x % WordSize = x
<1>1. WordSize \in Nat \ {0}
    BY VolumesAssumption
<1>2. \A y \in Nat, w \in Nat \ {0} : y < w => y % w = y
    BY SMT
<1> QED BY <1>1, <1>2

\* The pieces of a volume's description.
LEMMA VolumeParts ==
    ASSUME NEW v \in Volumes
    PROVE  /\ v.type \in {12, 16, 32} /\ v.base \in Nat /\ v.reserved \in Nat
           /\ v.bps \in Nat \ {0} /\ v.spc \in Nat \ {0}
           /\ v.fats \in Nat /\ v.fatSize \in Nat /\ v.rootEnts \in Nat /\ v.rootSectors \in Nat
           /\ v.size \in Nat /\ v.size < WordSize /\ v.first \in Nat
           /\ v.fat \in Seq(0 .. 255) /\ v.entries \in Seq(Nat) /\ v.chain \in Seq(Nat)
           /\ WellFormed(v) /\ Addressable(v)
    BY VolumesAssumption DEF WellFormed, Volume

\* A cluster holds at least one byte.
LEMMA ClusterBytesType == ASSUME NEW v \in Volumes PROVE ClusterBytes(v) \in Nat \ {0}
<1>1. v.bps \in Nat \ {0} /\ v.spc \in Nat \ {0}
    BY VolumeParts
<1>2. \A a, b \in Nat \ {0} : a * b \in Nat \ {0}
    BY SMT
<1> QED BY <1>1, <1>2 DEF ClusterBytes
-----------------------------------------------------------------------------
\* An offset is that of a sector and a place in it.
LEMMA SectorOf ==
    ASSUME NEW v \in Volumes, NEW o \in Nat
    PROVE  /\ o \div v.bps \in Nat /\ o % v.bps \in Nat
           /\ o = (o \div v.bps) * v.bps + (o % v.bps)
<1> DEFINE d == v.bps
<1> HIDE DEF d
<1>1. d \in Nat \ {0}
    BY VolumeParts DEF d
<1>2. o \div d \in Nat /\ o % d \in 0 .. d - 1 /\ o = (o \div d) * d + (o % d)
    BY <1>1, DivMod
<1>3. o % d \in Nat
    BY <1>1, <1>2
<1> QED BY <1>2, <1>3 DEF d

\* An entry's address on the disk leads to its place in the table.
LEMMA EntryByte ==
    ASSUME NEW v \in Volumes, NEW o \in Nat, NEW k \in 0 .. 3, NEW c,
           o = EntryOffset(v.type, c), o < Len(v.fat)
    PROVE  TableByte(v, EntryAddress(v, c) + k) = v.fat[o + k + 1]
<1>1. v.base \in Nat /\ v.reserved \in Nat /\ v.bps \in Nat \ {0}
    BY VolumeParts
<1>2. o \div v.bps \in Nat /\ o % v.bps \in Nat /\ o = (o \div v.bps) * v.bps + (o % v.bps)
    BY SectorOf
<1> DEFINE q == o \div v.bps
           r == o % v.bps
<1>3. EntryAddress(v, c) = (v.base + (v.reserved + q) * v.bps + r) % WordSize
    BY DEF EntryAddress
<1> HIDE DEF q, r
<1>4. q \in Nat /\ r \in Nat /\ o = q * v.bps + r
    BY <1>2 DEF q, r
<1>5. (v.reserved + q) * v.bps = v.reserved * v.bps + q * v.bps
    BY <1>1, <1>4, SMT
<1>6. v.reserved * v.bps \in Nat /\ q * v.bps \in Nat
    BY <1>1, <1>4, SMT
<1>7. EntryAddress(v, c) = TableStart(v) + o /\ TableStart(v) \in Nat
    <2> DEFINE x == v.reserved * v.bps
               y == q * v.bps
    <2>1. TableStart(v) = v.base + x
        BY DEF TableStart
    <2> HIDE DEF x, y
    <2>2. x \in Nat /\ y \in Nat /\ o = y + r /\ (v.reserved + q) * v.bps = x + y
        BY <1>4, <1>5, <1>6 DEF x, y
    <2>3. EntryAddress(v, c) = (v.base + (x + y) + r) % WordSize
        BY <1>3, <2>2
    <2>4. TableStart(v) \in Nat /\ v.base + (x + y) + r = TableStart(v) + o
        <3>1. v.base \in Nat /\ r \in Nat
            BY <1>1, <1>4
        <3>2. \A b, s, t, u \in Nat : b + s \in Nat /\ b + (s + t) + u = (b + s) + (t + u)
            OBVIOUS
        <3> QED BY ONLY <2>1, <2>2, <3>1, <3>2
    <2>5. TableStart(v) + Len(v.fat) <= WordSize /\ Len(v.fat) \in Nat /\ WordSize \in Nat
        BY VolumeParts, VolumesAssumption DEF Addressable
    <2>6. PICK a \in Nat : a = TableStart(v) + o
        BY <2>4
    <2>7. a < WordSize
        BY <2>4, <2>5, <2>6
    <2> QED BY <2>3, <2>4, <2>6, <2>7, Fits
<1>8. EntryAddress(v, c) + k - TableStart(v) + 1 = o + k + 1
    BY <1>7
<1>9. EntryAddress(v, c) \in Int /\ TableStart(v) \in Int
    BY <1>7
<1> QED BY <1>8, <1>9 DEF TableByte

\* A number, put together from its four bytes.
Rejoined(e) == (e % 256) + 256 * ((e \div 256) % 256) + 65536 * ((e \div 65536) % 256)
                   + 16777216 * (e \div 16777216)

\* Four bytes make up a number.
LEMMA FourBytes == ASSUME NEW e \in Nat PROVE Rejoined(e) = e
<1> DEFINE a == e \div 256
           b == a \div 256
           c == b \div 256
<1>1. a \in Nat /\ b \in Nat /\ c \in Nat
    BY SMT
<1>2. e = 256 * a + (e % 256) /\ a = 256 * b + (a % 256) /\ b = 256 * c + (b % 256)
    BY <1>1, SMT
<1>3. b = e \div 65536
    BY SMT
<1>4. c = b \div 256 /\ c = e \div 16777216
    BY SMT
<1>5. e % 256 \in Int /\ a % 256 \in Int /\ b % 256 \in Int
    BY <1>1, SMT
<1> HIDE DEF a, b, c
<1>6. (e % 256) + 256 * (a % 256) + 65536 * (b % 256) + 16777216 * c = e
    BY <1>1, <1>2, <1>5, SMT
<1> QED BY <1>3, <1>4, <1>6 DEF a, Rejoined

\* What the three bytes of a pair of 12-bit entries are.
IsPair(v, c) ==
    /\ c + 2 <= Len(v.entries)
    /\ v.entries[c + 1] < 4096 /\ v.entries[c + 2] < 4096
    /\ 3 * (c \div 2) + 3 <= Len(v.fat)
    /\ v.fat[3 * (c \div 2) + 1] = v.entries[c + 1] % 256
    /\ v.fat[3 * (c \div 2) + 2] = v.entries[c + 1] \div 256 + 16 * (v.entries[c + 2] % 16)
    /\ v.fat[3 * (c \div 2) + 3] = v.entries[c + 2] \div 16

\* A table of 12-bit entries holds them in pairs.
LEMMA Pairs ==
    ASSUME NEW v \in Volumes, v.type = 12
    PROVE  \A c \in 0 .. Len(v.entries) - 1 : c % 2 = 0 => IsPair(v, c)
<1>1. v.entries \in Seq(Nat) /\ IsTable(v)
    BY VolumeParts DEF WellFormed
<1> QED BY <1>1 DEF IsTable, IsPair

\* The first of a pair of 12-bit entries is in the lower 12 bits of its two bytes.
LEMMA FirstOfPair ==
    ASSUME NEW e \in Nat, NEW f \in Nat, e < 4096, f < 4096
    PROVE  ((e % 256) + 256 * (e \div 256 + 16 * (f % 16))) % 4096 = e
<1>2. PICK a \in Nat, r \in Nat : a = e \div 256 /\ r = e % 256 /\ e = a * 256 + r
    <2>1. e \div 256 \in Nat /\ e % 256 \in 0 .. 256 - 1 /\ e = (e \div 256) * 256 + (e % 256)
        BY DivMod
    <2> QED BY ONLY <2>1
<1>3. PICK g \in Nat : g = f % 16
    <2>1. f % 16 \in 0 .. 16 - 1
        BY DivMod
    <2> QED BY ONLY <2>1
<1>4. r + 256 * (a + 16 * g) = e + g * 4096
    BY <1>2
<1>5. (e + g * 4096) % 4096 = e % 4096
    BY Congruent
<1>6. e % 4096 = e
    BY SMT
<1> QED BY ONLY <1>2, <1>3, <1>4, <1>5, <1>6

\* The second is in the upper 12 bits of the second and third byte.
LEMMA SecondOfPair ==
    ASSUME NEW e \in Nat, NEW f \in Nat, e < 4096, f < 4096
    PROVE  (e \div 256 + 16 * (f % 16) + 256 * (f \div 16)) \div 16 = f
<1>2. PICK a \in 0 .. 16 - 1 : a = e \div 256
    BY SMT
<1>3. PICK g \in Nat, h \in Nat : g = f % 16 /\ h = f \div 16 /\ f = h * 16 + g
    <2>1. f \div 16 \in Nat /\ f % 16 \in 0 .. 16 - 1 /\ f = (f \div 16) * 16 + (f % 16)
        BY DivMod
    <2> QED BY ONLY <2>1
<1>4. a + 16 * g + 256 * h = f * 16 + a
    BY <1>3
<1>5. (f * 16 + a) \div 16 = f
    BY DivUnique
<1> QED BY ONLY <1>2, <1>3, <1>4, <1>5

\* fat_get_next_cluster reads the entry that was written for the cluster, in a
\* table of any of the three widths.
LEMMA Decoded ==
    ASSUME NEW v \in Volumes, NEW c \in 0 .. Len(v.entries) - 1
    PROVE  NextCluster(v, c) = v.entries[c + 1]
<1> DEFINE o == CASE v.type = 12 -> c + (c \div 2) [] v.type = 16 -> c * 2 [] v.type = 32 -> c * 4
           B(k) == v.fat[o + k + 1]
           a == EntryAddress(v, c)
<1>1. v.type \in {12, 16, 32} /\ v.entries \in Seq(Nat) /\ v.fat \in Seq(0 .. 255) /\ IsTable(v)
    BY VolumeParts DEF WellFormed
<1>2. o \in Nat /\ c \in Nat
    BY <1>1, SMT
<1>13. /\ v.type = 12 => o = c + (c \div 2)
       /\ v.type = 16 => o = 2 * c
       /\ v.type = 32 => o = 4 * c
    BY <1>2
<1>12. EntryOffset(v.type, c) = o % WordSize
    BY DEF EntryOffset
<1> HIDE DEF o
<1>11. o < Len(v.fat) /\ Len(v.fat) \in Nat
    <2>1. Len(v.fat) \in Nat
        BY <1>1
    <2>2. CASE v.type = 32
        <3>1. o = 4 * c /\ 4 * c + 4 <= Len(v.fat)
            BY <1>1, <1>13, <2>2 DEF IsTable
        <3> QED BY ONLY <1>2, <2>1, <3>1
    <2>3. CASE v.type = 16
        <3>1. o = 2 * c /\ 2 * c + 2 <= Len(v.fat)
            BY <1>1, <1>13, <2>3 DEF IsTable
        <3> QED BY ONLY <1>2, <2>1, <3>1
    <2>4. CASE v.type = 12
        <3>1. PICK b \in 0 .. Len(v.entries) - 1 : b % 2 = 0 /\ (b = c \/ b = c - 1)
            <4>1. \A y \in Nat : y % 2 = 0 \/ (y - 1 \in Nat /\ (y - 1) % 2 = 0)
                BY SMT
            <4>2. c % 2 = 0 \/ (c - 1 \in Nat /\ (c - 1) % 2 = 0)
                BY ONLY <1>2, <4>1
            <4>3. Len(v.entries) \in Nat
                BY <1>1
            <4> QED BY <1>2, <4>2, <4>3
        <3>2. 3 * (b \div 2) + 3 <= Len(v.fat)
            BY <2>4, <3>1, Pairs DEF IsPair
        <3>3. o = c + (c \div 2)
            BY <1>13, <2>4
        <3>4. \A x, y \in Nat : (x % 2 = 0 /\ (x = y \/ x = y - 1))
                                    => y + (y \div 2) < 3 * (x \div 2) + 3 /\ x \div 2 \in Nat
            BY SMT
        <3>5. b \in Nat
            BY <3>1
        <3>6. o < 3 * (b \div 2) + 3 /\ b \div 2 \in Nat
            BY <1>2, <3>1, <3>3, <3>4, <3>5
        <3> QED BY ONLY <1>2, <2>1, <3>2, <3>6
    <2> QED BY <1>1, <2>1, <2>2, <2>3, <2>4
<1>14. o = EntryOffset(v.type, c)
    <2>1. Len(v.fat) <= WordSize
        <3>1. TableStart(v) + Len(v.fat) <= WordSize /\ WordSize \in Nat
            BY VolumeParts, VolumesAssumption DEF Addressable
        <3>2. TableStart(v) \in Nat
            <4>1. v.base \in Nat /\ v.reserved \in Nat /\ v.bps \in Nat
                BY VolumeParts
            <4>2. \A x, y, z \in Nat : x + y * z \in Nat
                BY SMT
            <4> QED BY <4>1, <4>2 DEF TableStart
        <3> QED BY <1>11, <3>1, <3>2
    <2>2. o < WordSize
        <3>1. WordSize \in Nat
            BY VolumesAssumption
        <3> QED BY <1>2, <1>11, <2>1, <3>1
    <2> QED BY <1>2, <1>12, <2>2, Fits
<1>3. \A k \in 0 .. 3 : TableByte(v, a + k) = B(k)
    BY <1>2, <1>11, <1>14, EntryByte
<1>4. a \in Int
    <2>1. v.base \in Nat /\ v.reserved \in Nat /\ v.bps \in Nat \ {0}
        BY VolumeParts
    <2>2. o \div v.bps \in Nat /\ o % v.bps \in Nat
        BY <1>2, SectorOf
    <2>3. a = (v.base + (v.reserved + (o \div v.bps)) * v.bps + (o % v.bps)) % WordSize
        BY <1>14 DEF EntryAddress
    <2> HIDE DEF a
    <2>4. PICK q \in Nat, r \in Nat : q = o \div v.bps /\ r = o % v.bps
        BY <2>2
    <2>5. \A x, y, z, s, t \in Nat : x + (y + s) * z + t \in Nat
        BY SMT
    <2>6. PICK x \in Nat : x = v.base + (v.reserved + q) * v.bps + r
        BY <2>1, <2>5
    <2>7. x % WordSize \in Int
        BY VolumesAssumption, DivModInt
    <2> QED BY <2>3, <2>4, <2>6, <2>7
<1>5. TableByte(v, a) = B(0) /\ TableByte(v, a + 1) = B(1)
      /\ TableByte(v, a + 2) = B(2) /\ TableByte(v, a + 3) = B(3)
    <2>1. a + 0 = a
        BY <1>4
    <2> QED BY <1>3, <2>1
<1>6. v.entries[c + 1] \in Nat
    BY <1>1
<1>10. \A k \in 1 .. Len(v.entries) : v.entries[k] \in Nat
    BY <1>1
<1> HIDE DEF a
<1>7. CASE v.type = 32
    <2> DEFINE e == v.entries[c + 1]
    <2>1. o = 4 * c
        BY <1>13, <1>7
    <2>2. B(0) = v.fat[4 * c + 1] /\ B(1) = v.fat[4 * c + 2]
          /\ B(2) = v.fat[4 * c + 3] /\ B(3) = v.fat[4 * c + 4]
        BY <1>2, <2>1
    <2>3. NextCluster(v, c) = B(0) + 256 * B(1) + 65536 * B(2) + 16777216 * B(3)
        BY <1>5, <1>7 DEF NextCluster, LittleEndian, a
    <2> HIDE DEF B, o
    <2>4. /\ v.fat[4 * c + 1] = e % 256 /\ v.fat[4 * c + 2] = (e \div 256) % 256
          /\ v.fat[4 * c + 3] = (e \div 65536) % 256 /\ v.fat[4 * c + 4] = e \div 16777216
        BY <1>1, <1>7 DEF IsTable
    <2> HIDE DEF e
    <2>5. e \in Nat
        BY <1>6 DEF e
    <2>6. NextCluster(v, c) = Rejoined(e)
        BY <2>2, <2>3, <2>4 DEF Rejoined
    <2>7. NextCluster(v, c) = e
        BY <2>5, <2>6, FourBytes
    <2> QED BY <2>7 DEF e
<1>8. CASE v.type = 16
    <2> DEFINE e == v.entries[c + 1]
    <2>1. o = 2 * c
        BY <1>13, <1>8
    <2>2. B(0) = v.fat[2 * c + 1] /\ B(1) = v.fat[2 * c + 2]
        BY <1>2, <2>1
    <2>3. NextCluster(v, c) = B(0) + 256 * B(1)
        BY <1>5, <1>8 DEF NextCluster, LittleEndian, a
    <2> HIDE DEF B, o
    <2>4. v.fat[2 * c + 1] = e % 256 /\ v.fat[2 * c + 2] = e \div 256
        BY <1>1, <1>8 DEF IsTable
    <2> HIDE DEF e
    <2>5. (e % 256) + 256 * (e \div 256) = e
        BY <1>6, SMT DEF e
    <2>6. NextCluster(v, c) = e
        BY <2>2, <2>3, <2>4, <2>5
    <2> QED BY <2>6 DEF e
<1>9. CASE v.type = 12
    <2>1. NextCluster(v, c) = IF c % 2 = 1 THEN (B(0) + 256 * B(1)) \div 16
                                           ELSE (B(0) + 256 * B(1)) % 4096
        BY <1>5, <1>9 DEF NextCluster, LittleEndian, a
    <2>2. CASE c % 2 = 0
        <3> DEFINE e == v.entries[c + 1]
                   f == v.entries[c + 2]
                   q == 3 * (c \div 2)
        <3>1. o = q /\ q \in Nat
            <4>1. o = c + (c \div 2)
                BY <1>9, <1>13
            <4>2. \A y \in Nat : y % 2 = 0 => y + (y \div 2) = 3 * (y \div 2) /\ 3 * (y \div 2) \in Nat
                BY SMT
            <4> QED BY <1>2, <2>2, <4>1, <4>2
        <3>2. B(0) = v.fat[q + 1] /\ B(1) = v.fat[q + 2]
            BY <3>1
        <3>3. c + 2 <= Len(v.entries)
              /\ e < 4096 /\ f < 4096
              /\ v.fat[q + 1] = e % 256 /\ v.fat[q + 2] = e \div 256 + 16 * (f % 16)
            BY <1>1, <1>9, <2>2 DEF IsTable
        <3>4. e \in Nat /\ f \in Nat
            <4>1. c + 1 \in 1 .. Len(v.entries) /\ c + 2 \in 1 .. Len(v.entries)
                BY <1>1, <1>2, <3>3
            <4> QED BY <1>10, <4>1
        <3> HIDE DEF B, o, e, f, q
        <3>6. ((e % 256) + 256 * (e \div 256 + 16 * (f % 16))) % 4096 = e
            BY ONLY <3>3, <3>4, FirstOfPair
        <3>7. NextCluster(v, c) = e
            BY <2>1, <2>2, <3>2, <3>3, <3>6
        <3> QED BY <3>7 DEF e
    <2>3. CASE c % 2 = 1
        <3>1. c - 1 \in 0 .. Len(v.entries) - 1 /\ (c - 1) % 2 = 0
            <4>1. c - 1 \in Nat /\ (c - 1) % 2 = 0
                BY <1>2, <2>3, SMT
            <4>2. Len(v.entries) \in Nat
                BY <1>1
            <4> QED BY <1>2, <4>1, <4>2
        <3>9. PICK b \in 0 .. Len(v.entries) - 1 : b = c - 1 /\ b % 2 = 0
            BY <3>1
        <3>10. b \in Nat /\ Len(v.entries) \in Nat
            BY <1>1, <3>9
        <3> DEFINE e == v.entries[b + 1]
                   f == v.entries[b + 2]
                   q == 3 * (b \div 2)
        <3>2. o = q + 1 /\ q \in Nat
            <4>1. o = c + (c \div 2)
                BY <1>9, <1>13
            <4>2. \A x, y \in Nat : x = y - 1 /\ x % 2 = 0
                        => y + (y \div 2) = 3 * (x \div 2) + 1 /\ 3 * (x \div 2) \in Nat
                BY SMT
            <4> QED BY <1>2, <3>9, <3>10, <4>1, <4>2
        <3>3. B(0) = v.fat[q + 2] /\ B(1) = v.fat[q + 3]
            BY <3>2
        <3>4. b + 2 <= Len(v.entries)
              /\ e < 4096 /\ f < 4096
              /\ v.fat[q + 2] = e \div 256 + 16 * (f % 16) /\ v.fat[q + 3] = f \div 16
            <4>1. \A x \in 0 .. Len(v.entries) - 1 : x % 2 = 0 => IsPair(v, x)
                BY <1>9, Pairs
            <4>2. IsPair(v, b)
                BY <3>9, <4>1
            <4> QED BY <4>2 DEF IsPair
        <3>5. e \in Nat /\ f \in Nat
            <4>1. b + 1 \in 1 .. Len(v.entries) /\ b + 2 \in 1 .. Len(v.entries)
                BY <3>9, <3>10, <3>4
            <4> QED BY <1>10, <4>1
        <3> HIDE DEF B, o, e, f, q
        <3>7. (e \div 256 + 16 * (f % 16) + 256 * (f \div 16)) \div 16 = f
            BY ONLY <3>4, <3>5, SecondOfPair
        <3>8. NextCluster(v, c) = f
            BY <2>1, <2>3, <3>3, <3>4, <3>7
        <3> QED BY <1>2, <3>8, <3>9 DEF f
    <2> QED BY <1>2, <2>2, <2>3, SMT
<1> QED BY <1>1, <1>7, <1>8, <1>9
-----------------------------------------------------------------------------
\* The driver follows a file's chain from cluster to cluster, and stops at its end.
LEMMA Followed ==
    ASSUME NEW v \in Volumes, NEW k \in 1 .. Len(v.chain)
    PROVE  /\ v.chain[k] \in Nat
           /\ k = 1 => v.chain[k] = v.first
           /\ HasNext(v, v.chain[k]) <=> k < Len(v.chain)
           /\ k < Len(v.chain) => NextCluster(v, v.chain[k]) = v.chain[k + 1]
<1>1. v.chain \in Seq(Nat) /\ v.entries \in Seq(Nat) /\ IsChain(v) /\ v.type \in {12, 16, 32}
    BY VolumeParts DEF WellFormed
<1>2. /\ v.chain[k] \in 2 .. Len(v.entries) - 1
      /\ k = 1 => v.chain[k] = v.first
      /\ k < Len(v.chain) => v.entries[v.chain[k] + 1] = v.chain[k + 1]
                             /\ v.entries[v.chain[k] + 1] < FirstEnd(v.type)
      /\ k = Len(v.chain) => v.entries[v.chain[k] + 1] >= FirstEnd(v.type)
    BY <1>1 DEF IsChain
<1>3. PICK c \in 0 .. Len(v.entries) - 1 : c = v.chain[k]
    BY <1>1, <1>2
<1>4. NextCluster(v, c) = v.entries[c + 1]
    BY Decoded
<1>5. v.entries[c + 1] \in Nat /\ FirstEnd(v.type) \in Nat /\ Len(v.chain) \in Nat
    <2>1. Len(v.entries) \in Nat /\ Len(v.chain) \in Nat
        BY <1>1
    <2>2. c + 1 \in 1 .. Len(v.entries)
        BY <1>3, <2>1
    <2>3. v.entries[c + 1] \in Nat
        BY <1>1, <2>2
    <2>4. FirstEnd(v.type) \in Nat
        BY <1>1 DEF FirstEnd
    <2> QED BY <2>1, <2>3, <2>4
<1>6. HasNext(v, c) <=> v.entries[c + 1] < FirstEnd(v.type)
    BY <1>4 DEF HasNext
<1>7. /\ k < Len(v.chain) => v.entries[c + 1] = v.chain[k + 1]
                             /\ v.entries[c + 1] < FirstEnd(v.type)
      /\ k = Len(v.chain) => v.entries[c + 1] >= FirstEnd(v.type)
    BY <1>2, <1>3
<1>8. HasNext(v, c) <=> k < Len(v.chain)
    BY <1>5, <1>6, <1>7
<1>9. k < Len(v.chain) => NextCluster(v, c) = v.chain[k + 1]
    BY <1>4, <1>7
<1>10. c \in Nat
    BY <1>1, <1>3
<1> QED BY <1>2, <1>3, <1>8, <1>9, <1>10

\* The driver's rounding of the root directory gives the formatter's sectors.
LEMMA RootSectors ==
    ASSUME NEW v, WellFormed(v)
    PROVE  (v.rootEnts * DirentSize + (v.bps - 1)) \div v.bps = v.rootSectors
<1> DEFINE d == v.bps
           k == v.rootSectors
           n == v.rootEnts * DirentSize
<1>1. d \in Nat \ {0} /\ k \in Nat /\ v.rootEnts \in Nat
      /\ k * d >= n /\ k * d < n + d
    BY DEF WellFormed, Volume
<1>2. n \in Nat
    BY <1>1, SMT DEF DirentSize
<1> HIDE DEF d, k, n
<1>3. k * d \in Nat
    BY <1>1, SMT
<1>4. n + (d - 1) - k * d \in 0 .. d - 1
    BY <1>1, <1>2, <1>3
<1>5. PICK r \in 0 .. d - 1 : n + (d - 1) = k * d + r
    <2> DEFINE m == k * d
    <2> HIDE DEF m
    <2>1. m \in Nat /\ n + (d - 1) - m \in 0 .. d - 1
        BY <1>3, <1>4 DEF m
    <2>2. n + (d - 1) = m + (n + (d - 1) - m)
        BY <1>1, <1>2, <2>1
    <2> QED BY <2>1, <2>2 DEF m
<1>6. (k * d + r) \div d = k
    BY <1>1, DivUnique
<1> QED BY <1>5, <1>6 DEF d, k, n

\* Where the driver looks for a byte of a cluster is where the formatter put it, but
\* for multiples of the word size: this is so on every volume, also one that is not
\* Addressable, where it means that the wrong bytes are read.
THEOREM AddressesWrap ==
    ASSUME NEW v, WellFormed(v), NEW c \in Nat, NEW o \in Nat
    PROVE  /\ ClusterAddress(v, c, o)
                  = (DataStart(v) + (c - 2) * ClusterBytes(v) + o) % WordSize
           /\ DataStart(v) \in Nat /\ (c - 2) * ClusterBytes(v) \in Int
<1>1. /\ v.base \in Nat /\ v.reserved \in Nat /\ v.bps \in Nat /\ v.spc \in Nat
      /\ v.fats \in Nat /\ v.fatSize \in Nat /\ v.rootSectors \in Nat
      /\ WordSize \in Nat \ {0}
    BY VolumesAssumption DEF WellFormed, Volume
<1> DEFINE s == v.reserved + v.fats * v.fatSize + v.rootSectors
           t == (c - 2) * v.spc + s
<1>2. s \in Nat /\ t \in Int /\ ClusterToSector(v, c) = t % WordSize
    <2>1. v.fats * v.fatSize \in Nat /\ (c - 2) * v.spc \in Int
        BY <1>1, SMT
    <2>2. ClusterToSector(v, c)
            = ((c - 2) * v.spc + (v.reserved + v.fats * v.fatSize + v.rootSectors)) % WordSize
        BY RootSectors DEF ClusterToSector
    <2> QED BY <1>1, <2>1, <2>2
<1>3. DataStart(v) = v.base + s * v.bps
    BY DEF DataStart
<1>4. /\ t * v.bps = s * v.bps + (c - 2) * (v.spc * v.bps)
      /\ s * v.bps \in Nat /\ (c - 2) * (v.spc * v.bps) \in Int
    <2> HIDE DEF s
    <2> DEFINE p == (c - 2) * v.spc
    <2>3. p \in Int /\ t = p + s /\ t * v.bps = (p + s) * v.bps
        BY <1>1, SMT
    <2>4. (p + s) * v.bps = s * v.bps + (c - 2) * (v.spc * v.bps)
          /\ s * v.bps \in Nat /\ (c - 2) * (v.spc * v.bps) \in Int
        <3>1. PICK e \in Int : e = c - 2
            OBVIOUS
        <3>2. PICK y \in Nat, z \in Nat, u \in Nat : y = v.spc /\ z = v.bps /\ u = s
            BY <1>1, <1>2
        <3>3. (e * y + u) * z = u * z + e * (y * z) /\ u * z \in Nat /\ e * (y * z) \in Int
            BY SMT
        <3> QED BY ONLY <3>1, <3>2, <3>3
    <2> QED BY <2>3, <2>4
<1> HIDE DEF s, t
<1>5. PICK q \in Int : t % WordSize \in 0 .. WordSize - 1 /\ t = q * WordSize + (t % WordSize)
    BY <1>1, <1>2, DivModInt
<1>6. PICK r \in 0 .. WordSize - 1 : r = t % WordSize
    BY <1>5
<1>7. r \in Nat /\ t = q * WordSize + r
    BY <1>1, <1>5, <1>6
<1>8. v.base + r * v.bps + o = (v.base + t * v.bps + o) + (-(q * v.bps)) * WordSize
    <2>1. \A b, k, w, m, n, e \in Int : b + m * n + e = (b + (k * w + m) * n + e) + (-(k * n)) * w
        BY SMT
    <2>2. v.base \in Int /\ q \in Int /\ WordSize \in Int /\ r \in Int /\ v.bps \in Int /\ o \in Int
        BY <1>1, <1>7
    <2> QED BY ONLY <1>7, <2>1, <2>2
<1>9. v.base + t * v.bps + o \in Int /\ -(q * v.bps) \in Int
    BY <1>1, <1>2, SMT
<1>10. (v.base + r * v.bps + o) % WordSize = (v.base + t * v.bps + o) % WordSize
    <2> DEFINE y == v.base + t * v.bps + o
               k == -(q * v.bps)
    <2>1. y \in Int /\ k \in Int /\ v.base + r * v.bps + o = y + k * WordSize
        BY <1>8, <1>9
    <2> HIDE DEF y, k
    <2>2. (y + k * WordSize) % WordSize = y % WordSize
        BY <1>1, <2>1, Congruent
    <2>3. (v.base + r * v.bps + o) % WordSize = y % WordSize
        BY ONLY <2>1, <2>2
    <2> QED BY <2>3 DEF y
<1>11. ClusterAddress(v, c, o) = (v.base + t * v.bps + o) % WordSize
    BY <1>2, <1>6, <1>10 DEF ClusterAddress
<1>12. v.base + t * v.bps + o = DataStart(v) + (c - 2) * ClusterBytes(v) + o
    BY <1>1, <1>3, <1>4 DEF ClusterBytes
<1> QED BY <1>1, <1>3, <1>4, <1>11, <1>12 DEF ClusterBytes

\* Where the driver looks for a byte of an addressable file is where the formatter
\* put it.
LEMMA Located ==
    ASSUME NEW v \in Volumes, NEW m \in 0 .. Len(v.chain) - 1, NEW o \in 0 .. ClusterBytes(v) - 1
    PROVE  ClusterAddress(v, v.chain[m + 1], o)
               = DataStart(v) + (v.chain[m + 1] - 2) * ClusterBytes(v) + o
<1>1. /\ v.chain \in Seq(Nat) /\ v.entries \in Seq(Nat) /\ WellFormed(v) /\ Addressable(v)
      /\ ClusterBytes(v) \in Nat \ {0} /\ WordSize \in Nat
    BY VolumeParts, ClusterBytesType, VolumesAssumption
<1>2. m + 1 \in 1 .. Len(v.chain) /\ o \in Nat
    BY <1>1
<1>3. PICK c \in Nat : c = v.chain[m + 1] /\ c >= 2
    <2>1. v.chain[m + 1] \in 2 .. Len(v.entries) - 1 /\ Len(v.entries) \in Nat
        BY <1>1, <1>2 DEF WellFormed, IsChain
    <2> QED BY <2>1
<1>4. PICK b \in Nat, a \in Nat : b = DataStart(v) /\ a = (c - 2) * ClusterBytes(v)
    <2>1. DataStart(v) \in Nat
        BY <1>1, <1>2, AddressesWrap
    <2>2. \A x, y \in Nat : x * y \in Nat
        BY SMT
    <2>3. c - 2 \in Nat
        BY <1>3
    <2> QED BY <1>1, <2>1, <2>2, <2>3
<1>5. b + a + ClusterBytes(v) <= WordSize
    BY <1>1, <1>2, <1>3, <1>4 DEF Addressable
<1>6. PICK x \in Nat : x = b + a + o /\ x < WordSize
    <2>1. PICK d \in Nat \ {0} : d = ClusterBytes(v)
        BY <1>1
    <2>2. b + a + d <= WordSize /\ o < d /\ o \in Nat
        BY <1>2, <1>5, <2>1
    <2>3. \A w, e, f, g, h \in Nat : e + f + g <= w /\ h < g => e + f + h < w /\ e + f + h \in Nat
        OBVIOUS
    <2> QED BY <1>1, <2>2, <2>3
<1>7. ClusterAddress(v, c, o) = x % WordSize
    BY <1>1, <1>2, <1>4, <1>6, AddressesWrap
<1>8. x % WordSize = x
    BY <1>6, Fits
<1> QED BY <1>3, <1>4, <1>6, <1>7, <1>8

-----------------------------------------------------------------------------
\* How much of a file its clusters hold.
LEMMA ContentLength ==
    ASSUME NEW v \in Volumes
    PROVE  /\ Len(v.chain) * ClusterBytes(v) \in Nat
           /\ Lesser(v.size, Len(v.chain) * ClusterBytes(v)) \in 0 .. v.size
           /\ Lesser(v.size, Len(v.chain) * ClusterBytes(v)) <= Len(v.chain) * ClusterBytes(v)
<1>1. v.size \in Nat /\ Len(v.chain) \in Nat /\ ClusterBytes(v) \in Nat
    BY VolumeParts, ClusterBytesType
<1>2. \A x, y \in Nat : x * y \in Nat
    BY SMT
<1> DEFINE n == Len(v.chain) * ClusterBytes(v)
<1>3. n \in Nat
    BY <1>1, <1>2
<1> HIDE DEF n
<1>4. Lesser(v.size, n) \in 0 .. v.size /\ Lesser(v.size, n) <= n
    BY <1>1, <1>3 DEF Lesser
<1> QED BY <1>3, <1>4 DEF n

\* A byte of the file, and the place of its cluster in the chain.
LEMMA InChain ==
    ASSUME NEW v \in Volumes, NEW p \in Nat, p < Len(v.chain) * ClusterBytes(v)
    PROVE  /\ p \div ClusterBytes(v) \in 0 .. Len(v.chain) - 1
           /\ p % ClusterBytes(v) \in 0 .. ClusterBytes(v) - 1
<1> DEFINE d == ClusterBytes(v)
           n == Len(v.chain)
<1>1. d \in Nat \ {0} /\ n \in Nat /\ p < n * d
    BY VolumeParts, ClusterBytesType
<1> HIDE DEF d, n
<1>2. PICK q \in Nat : q = p \div d
    BY <1>1, DivMod
<1>3. PICK r \in 0 .. d - 1 : r = p % d
    BY <1>1, DivMod
<1>4. p = q * d + r
    BY <1>1, <1>2, <1>3, DivMod
<1>5. n <= q => n * d <= q * d
    BY <1>1, Times
<1>6. n * d \in Nat /\ q * d \in Nat
    BY <1>1, SMT
<1>7. q < n
    <2> DEFINE x == n * d
               y == q * d
    <2> HIDE DEF x, y
    <2>1. x \in Nat /\ y \in Nat /\ p < x /\ p = y + r /\ (n <= q => x <= y)
        BY <1>1, <1>4, <1>5, <1>6 DEF x, y
    <2> QED BY <1>1, <2>1
<1> QED BY <1>1, <1>2, <1>3, <1>7 DEF d, n

\* The contents are a sequence of bytes, no longer than the file's size.
LEMMA ContentType ==
    ASSUME NEW v \in Volumes
    PROVE  /\ Content(v) \in Seq(Int)
           /\ Len(Content(v)) = Lesser(v.size, Len(v.chain) * ClusterBytes(v))
           /\ Len(Content(v)) \in 0 .. v.size
<1> DEFINE d == ClusterBytes(v)
           n == Lesser(v.size, Len(v.chain) * d)
           E(p) == DataStart(v) + (v.chain[(p - 1) \div d + 1] - 2) * d + ((p - 1) % d)
<1>1. n \in 0 .. v.size /\ v.size \in Nat /\ n <= Len(v.chain) * d /\ Len(v.chain) * d \in Nat
      /\ v.chain \in Seq(Nat)
    BY ContentLength, VolumeParts
<1>2. Content(v) = [p \in 1 .. n |-> E(p)]
    BY DEF Content
<1>3. ASSUME NEW p \in 1 .. n PROVE E(p) \in Int
    <2>1. p - 1 \in Nat /\ p - 1 < Len(v.chain) * d
        <3> HIDE DEF n, d
        <3> DEFINE x == Len(v.chain) * d
        <3> HIDE DEF x
        <3>1. n \in Nat /\ x \in Nat /\ n <= x
            BY <1>1 DEF x
        <3>2. p - 1 \in Nat /\ p - 1 < x
            BY <3>1
        <3> QED BY <3>2 DEF x
    <2>2. (p - 1) \div d \in 0 .. Len(v.chain) - 1 /\ (p - 1) % d \in 0 .. d - 1
        BY <2>1, InChain
    <2>3. PICK m \in 0 .. Len(v.chain) - 1 : m = (p - 1) \div d
        BY <2>2
    <2>4. v.chain[m + 1] \in Nat
        BY <1>1
    <2>5. (v.chain[m + 1] - 2) * d \in Int /\ DataStart(v) \in Nat
        BY <2>4, VolumeParts, AddressesWrap
    <2>6. (p - 1) % d \in Int
        BY <2>2, ClusterBytesType
    <2> QED BY <2>3, <2>5, <2>6
<1> HIDE DEF E, n
<1>4. n \in Nat
    BY <1>1
<1>5. Content(v) \in Seq(Int) /\ Len(Content(v)) = n
    <2>1. [p \in 1 .. n |-> E(p)] \in [1 .. n -> Int]
        BY <1>3
    <2>2. Content(v) \in [1 .. n -> Int]
        BY <1>2, <2>1
    <2> QED BY <1>4, <2>2
<1> QED BY <1>1, <1>5 DEF n

\* The byte at a place in a cluster is that byte of the file.
LEMMA Placed ==
    ASSUME NEW v \in Volumes, NEW m \in 0 .. Len(v.chain) - 1,
           NEW r \in 0 .. ClusterBytes(v) - 1, m * ClusterBytes(v) + r < v.size
    PROVE  /\ m * ClusterBytes(v) + r + 1 \in 1 .. Len(Content(v))
           /\ Content(v)[m * ClusterBytes(v) + r + 1] = ClusterAddress(v, v.chain[m + 1], r)
<1> DEFINE d == ClusterBytes(v)
           n == Len(v.chain)
<1>1. d \in Nat \ {0} /\ n \in Nat /\ v.size \in Nat /\ v.chain \in Seq(Nat)
    BY VolumeParts, ClusterBytesType
<1>2. m \in Nat /\ m < n /\ r \in 0 .. d - 1
    BY <1>1
<1>3. m * d \in Nat /\ n * d \in Nat /\ m * d + d <= n * d
    <2> HIDE DEF d, n
    <2>1. m * d \in Nat /\ n * d \in Nat
        BY <1>1, <1>2, SMT
    <2> QED BY <1>1, <1>2, <2>1, Times
<1>4. Len(Content(v)) = Lesser(v.size, n * d)
    BY ContentType
<1>5. PICK p \in Nat : p = m * d + r
    <2> DEFINE x == m * d
    <2>1. x \in Nat
        BY <1>3
    <2> HIDE DEF d, x
    <2>2. x + r \in Nat
        BY <1>1, <1>2, <2>1
    <2>3. \E p \in Nat : p = x + r
        BY <2>2
    <2> QED BY <2>3 DEF x
<1>6. p < v.size /\ p < n * d
    <2> HIDE DEF d, n
    <2> DEFINE x == m * d
               y == n * d
    <2> HIDE DEF x, y
    <2>1. x \in Nat /\ y \in Nat /\ x + d <= y /\ p = x + r
        BY <1>3, <1>5 DEF x, y
    <2>2. p < y
        BY <1>1, <1>2, <2>1
    <2>3. p < v.size
        BY <1>5 DEF d
    <2> QED BY <2>2, <2>3 DEF y
<1>7. p + 1 \in 1 .. Lesser(v.size, n * d)
    <2> DEFINE y == n * d
    <2>1. y \in Nat /\ p < y
        BY <1>3, <1>6
    <2> HIDE DEF y
    <2>2. p + 1 \in 1 .. Lesser(v.size, y)
        BY <1>1, <1>6, <2>1 DEF Lesser
    <2> QED BY <2>2 DEF y
<1>8. p \div d = m /\ p % d = r
    <2> HIDE DEF d
    <2> QED BY <1>1, <1>2, <1>5, DivUnique
<1>9. (p + 1) - 1 = p
    OBVIOUS
<1>10. Content(v)[p + 1] = DataStart(v) + (v.chain[m + 1] - 2) * d + r
    <2> DEFINE E(q) == DataStart(v) + (v.chain[(q - 1) \div d + 1] - 2) * d + ((q - 1) % d)
    <2>1. Content(v) = [q \in 1 .. Lesser(v.size, n * d) |-> E(q)]
        BY DEF Content
    <2>2. E(p + 1) = DataStart(v) + (v.chain[m + 1] - 2) * d + r
        BY <1>8, <1>9
    <2> HIDE DEF E
    <2> QED BY <1>7, <2>1, <2>2
<1>11. ClusterAddress(v, v.chain[m + 1], r) = DataStart(v) + (v.chain[m + 1] - 2) * d + r
    BY Located
<1> QED BY <1>4, <1>5, <1>7, <1>10, <1>11
-----------------------------------------------------------------------------
(***************************************************************************)
(* The inductive invariant: what is in the buffer is the file's, from the  *)
(* position where the read began; and the driver is at the file's cluster  *)
(* that its position says.                                                 *)
(***************************************************************************)
InBuffer ==
    pc # "idle" =>
        /\ count = Lesser(asked, vol.size - Position)
        /\ Position \in Nat
        /\ Len(buf) = count - left
        /\ Len(buf) > 0 => Position + Len(buf) <= Len(Content(vol))
        /\ \A k \in 1 .. Len(buf) : buf[k] = Content(vol)[Position + k]

Walking ==
    pc = "walk" =>
        /\ left = count
        /\ i <= seekpos \div ClusterBytes(vol)
        /\ vol.chain # <<>> => i < Len(vol.chain) /\ cluster = vol.chain[i + 1]

InCluster ==
    pc = "read" /\ vol.chain # <<>> =>
        \E m \in 0 .. Len(vol.chain) - 1 :
            cluster = vol.chain[m + 1] /\ seekpos = m * ClusterBytes(vol) + offset

IInv == TypeOK /\ InBuffer /\ Walking /\ InCluster

\* A file without clusters is empty.
LEMMA Clusterless ==
    ASSUME NEW v \in Volumes, v.chain = <<>>
    PROVE  v.size = 0
    BY VolumeParts DEF WellFormed, IsChain

\* A handle starts at rest.
LEMMA IInvInit == Init => IInv
<1> SUFFICES ASSUME Init PROVE IInv
    OBVIOUS
<1>1. vol \in Volumes /\ vol.size \in Nat /\ ClusterBytes(vol) \in Nat \ {0}
    BY VolumeParts, ClusterBytesType DEF Init
<1>2. TypeOK
    BY <1>1 DEF Init, TypeOK, Nothing
<1>3. InBuffer /\ Walking /\ InCluster
    BY DEF Init, InBuffer, Walking, InCluster
<1> QED BY <1>2, <1>3 DEF IInv

\* The invariant says nothing of a handle at rest but its type.
LEMMA AtRest ==
    ASSUME pc' = "idle", TypeOK'
    PROVE  IInv'
    BY DEF IInv, InBuffer, Walking, InCluster

\* A seek leaves the position in the file.
LEMMA SeekStep ==
    ASSUME IInv, NEW origin \in {"begin", "current", "end"}, NEW p \in Moves, Seek(origin, p)
    PROVE  IInv'
<1>1. vol.size \in Nat /\ WordSize \in Nat \ {0} /\ p \in Int /\ seekpos \in Nat
    BY VolumeParts, VolumesAssumption DEF IInv, TypeOK
<1>2. \A x \in Int : x % WordSize \in Nat
    BY <1>1, SMT
<1>3. \A x \in Nat : Lesser(vol.size, x) \in 0 .. vol.size
    BY <1>1 DEF Lesser
<1>4. seekpos' \in 0 .. vol.size
    <2> DEFINE x == CASE origin = "begin"   -> p % WordSize
                      [] origin = "current" -> (seekpos + p) % WordSize
                      [] origin = "end"     -> (vol.size + p) % WordSize
    <2>1. p % WordSize \in Nat /\ (seekpos + p) % WordSize \in Nat
          /\ (vol.size + p) % WordSize \in Nat
        <3>1. p \in Int /\ seekpos + p \in Int /\ vol.size + p \in Int
            BY <1>1
        <3> QED BY <1>2, <3>1
    <2>2. x \in Nat
        BY <2>1
    <2>3. seekpos' = IF ~open THEN seekpos ELSE Lesser(vol.size, x)
        BY DEF Seek
    <2> HIDE DEF x
    <2> QED BY <1>3, <2>2, <2>3 DEF IInv, TypeOK
<1>5. pc' = "idle"
    BY DEF Seek
<1>6. TypeOK'
    <2>1. ret' \in [op : {"none", "seek", "read"}, asked : Nat, value : Nat, data : Seq(Int)]
        BY <1>1, <1>4 DEF Seek
    <2> QED BY <1>4, <1>5, <2>1 DEF IInv, TypeOK, Seek, locals
<1> QED BY <1>5, <1>6, AtRest

\* A read of a closed handle changes nothing.
LEMMA ReadClosedStep ==
    ASSUME IInv, NEW n \in Counts, ReadClosed(n)
    PROVE  IInv'
<1>1. n \in Nat
    BY VolumesAssumption
<1>2. TypeOK'
    BY <1>1 DEF IInv, TypeOK, ReadClosed, locals
<1>3. pc' = "idle"
    BY DEF ReadClosed
<1> QED BY <1>2, <1>3, AtRest

\* A read begins with an empty buffer, at the first cluster.
LEMMA StartReadStep ==
    ASSUME IInv, NEW n \in Counts, StartRead(n)
    PROVE  IInv'
<1>1. /\ vol \in Volumes /\ vol.size \in Nat /\ n \in Nat /\ WordSize \in Nat \ {0}
      /\ seekpos \in 0 .. vol.size /\ vol.size + n < WordSize /\ vol.first \in Nat
      /\ vol.chain \in Seq(Nat)
    BY VolumeParts, VolumesAssumption DEF IInv, TypeOK
<1>2. (seekpos + n) % WordSize = seekpos + n
    <2>1. seekpos + n \in 0 .. WordSize - 1
        BY <1>1
    <2>2. \A x \in 0 .. WordSize - 1 : x % WordSize = x
        BY <1>1, SMT
    <2> QED BY <2>1, <2>2
<1>3. count' = Lesser(n, vol.size - seekpos) /\ count' \in Nat
    <2>1. count' = IF seekpos + n > vol.size THEN vol.size - seekpos ELSE n
        BY <1>2 DEF StartRead
    <2> QED BY <1>1, <2>1 DEF Lesser
<1>4. /\ pc' = "walk" /\ asked' = n /\ left' = count' /\ cluster' = vol.first /\ i' = 0
      /\ buf' = <<>> /\ UNCHANGED <<vol, open, seekpos, offset, ret>> /\ open
    BY DEF StartRead
<1>5. TypeOK'
    BY <1>1, <1>3, <1>4 DEF IInv, TypeOK
<1>6. InBuffer'
    <2>1. Position' = seekpos
        BY <1>1, <1>3, <1>4 DEF Position
    <2>2. Len(buf') = 0 /\ count' - left' = 0
        BY <1>3, <1>4
    <2> QED BY <1>1, <1>3, <1>4, <2>1, <2>2 DEF InBuffer
<1>7. Walking'
    <2>1. 0 <= seekpos \div ClusterBytes(vol)
        <3>1. seekpos \in Nat /\ ClusterBytes(vol) \in Nat \ {0}
            BY <1>1, ClusterBytesType
        <3>2. seekpos \div ClusterBytes(vol) \in Nat
            BY <3>1, DivMod
        <3> QED BY <3>2
    <2>2. ASSUME vol.chain # <<>> PROVE 0 < Len(vol.chain) /\ vol.first = vol.chain[1]
        <3>1. 1 \in 1 .. Len(vol.chain)
            BY <1>1, <2>2
        <3>2. vol.chain[1] = vol.first
            BY <1>1, <3>1, Followed
        <3> QED BY <3>1, <3>2
    <2> QED BY <1>4, <2>1, <2>2 DEF Walking, ClusterBytes
<1>8. InCluster'
    BY <1>4 DEF InCluster
<1> QED BY <1>5, <1>6, <1>7, <1>8 DEF IInv

\* A read in progress, as the invariant has it.
LEMMA InProgress ==
    ASSUME IInv, pc # "idle"
    PROVE  /\ vol \in Volumes /\ vol.size \in Nat /\ vol.chain \in Seq(Nat) /\ open
           /\ ClusterBytes(vol) \in Nat \ {0}
           /\ seekpos \in 0 .. vol.size /\ count \in Nat /\ left \in 0 .. count /\ asked \in Nat
           /\ cluster \in Nat /\ i \in Nat /\ offset \in 0 .. ClusterBytes(vol)
           /\ buf \in Seq(Int) /\ Len(buf) = count - left
           /\ Position = seekpos - (count - left) /\ Position \in Nat
           /\ count = Lesser(asked, vol.size - Position)
           /\ seekpos + left <= vol.size
<1>1. vol \in Volumes /\ vol.size \in Nat /\ vol.chain \in Seq(Nat) /\ ClusterBytes(vol) \in Nat \ {0}
    BY VolumeParts, ClusterBytesType DEF IInv, TypeOK
<1>2. /\ open /\ seekpos \in 0 .. vol.size /\ count \in Nat /\ left \in 0 .. count /\ asked \in Nat
      /\ cluster \in Nat /\ i \in Nat /\ offset \in 0 .. ClusterBytes(vol) /\ buf \in Seq(Int)
    BY DEF IInv, TypeOK
<1>3. /\ Len(buf) = count - left /\ Position = seekpos - (count - left) /\ Position \in Nat
      /\ count = Lesser(asked, vol.size - Position)
    BY DEF IInv, InBuffer, Position
<1>4. seekpos + left <= vol.size
    <2>1. PICK p \in Nat : p = Position
        BY <1>3
    <2>2. \A x \in Int : Lesser(asked, x) <= x
        BY <1>2 DEF Lesser
    <2>3. count <= vol.size - p
        BY <1>1, <1>3, <2>1, <2>2
    <2>4. p = seekpos - (count - left)
        BY <1>3, <2>1
    <2> QED BY <1>1, <1>2, <2>3, <2>4
<1> QED BY <1>1, <1>2, <1>3, <1>4

\* Returning leaves the handle at rest.
LEMMA ReturnStep ==
    ASSUME IInv, pc # "idle", NEW n \in Nat, Return(n)
    PROVE  IInv'
<1>1. buf \in Seq(Int) /\ asked \in Nat
    BY DEF IInv, TypeOK
<1>2. ret' \in [op : {"none", "seek", "read"}, asked : Nat, value : Nat, data : Seq(Int)]
    BY <1>1 DEF Return
<1>3. TypeOK'
    BY <1>2 DEF IInv, TypeOK, Return, locals
<1>4. pc' = "idle"
    BY DEF Return
<1> QED BY <1>3, <1>4, AtRest

\* Nothing else changed, the buffer still holds what it did.
LEMMA SameBuffer ==
    ASSUME InBuffer, pc # "idle", UNCHANGED <<vol, seekpos, asked, count, left, buf>>, pc' # "idle"
    PROVE  InBuffer'
<1>1. Position' = Position
    BY DEF Position
<1> QED BY <1>1 DEF InBuffer

\* The walk goes from a cluster of the file to the next, or returns.
LEMMA WalkStep == ASSUME IInv, Walk PROVE IInv'
<1>1. pc = "walk" /\ i < seekpos \div ClusterBytes(vol)
    BY DEF Walk
<1>2. vol \in Volumes /\ vol.chain \in Seq(Nat) /\ i \in Nat
      /\ seekpos \in 0 .. vol.size /\ vol.size \in Nat /\ ClusterBytes(vol) \in Nat \ {0}
    BY <1>1, InProgress
<1>3. CASE ~HasNext(vol, cluster)
    <2>1. Return(0)
        BY <1>3 DEF Walk
    <2> QED BY <1>1, <2>1, ReturnStep
<1>4. CASE HasNext(vol, cluster)
    <2>1. /\ cluster' = NextCluster(vol, cluster) /\ i' = i + 1 /\ pc' = "walk"
          /\ UNCHANGED <<vol, open, seekpos, asked, count, left, offset, buf, ret>>
        BY <1>1, <1>4 DEF Walk, Return
    <2>2. vol.chain # <<>>
        <3>1. SUFFICES ASSUME vol.chain = <<>> PROVE FALSE
            OBVIOUS
        <3>2. seekpos = 0
            BY <1>2, <3>1, Clusterless
        <3>3. 0 \div ClusterBytes(vol) = 0
            BY <1>2, SMT
        <3> QED BY <1>1, <1>2, <3>2, <3>3
    <2>3. i < Len(vol.chain) /\ cluster = vol.chain[i + 1] /\ left = count
        BY <1>1, <2>2 DEF IInv, Walking
    <2>4. PICK k \in 1 .. Len(vol.chain) : k = i + 1
        BY <1>2, <2>3
    <2>5. k < Len(vol.chain) /\ cluster' = vol.chain[k + 1]
        BY <1>2, <1>4, <2>1, <2>3, <2>4, Followed
    <2>6. cluster' \in Nat
        BY <1>2, <2>4, <2>5
    <2>7. TypeOK'
        BY <1>1, <1>2, <2>1, <2>6 DEF IInv, TypeOK
    <2>8. InBuffer'
        BY <1>1, <2>1, SameBuffer DEF IInv
    <2>9. Walking'
        <3>1. i' <= seekpos \div ClusterBytes(vol)
            <4>1. seekpos \in Nat
                BY <1>2
            <4>2. PICK q \in Nat : q = seekpos \div ClusterBytes(vol)
                BY <1>2, <4>1, DivMod
            <4> QED BY <1>1, <1>2, <2>1, <4>2
        <3>2. i' < Len(vol.chain) /\ cluster' = vol.chain[i' + 1]
            BY <1>2, <2>1, <2>4, <2>5
        <3>3. ClusterBytes(vol') = ClusterBytes(vol)
            BY <2>1
        <3> QED BY <2>1, <2>3, <3>1, <3>2, <3>3 DEF Walking
    <2>10. InCluster'
        BY <2>1 DEF InCluster
    <2> QED BY <2>7, <2>8, <2>9, <2>10 DEF IInv
<1> QED BY <1>3, <1>4

\* The walk ends at the cluster of the position.
LEMMA EndWalkStep == ASSUME IInv, EndWalk PROVE IInv'
<1>1. /\ pc = "walk" /\ i >= seekpos \div ClusterBytes(vol) /\ pc' = "read"
      /\ offset' = seekpos % ClusterBytes(vol)
      /\ UNCHANGED <<vol, open, seekpos, asked, count, left, cluster, i, buf, ret>>
    BY DEF EndWalk
<1>2. vol \in Volumes /\ vol.chain \in Seq(Nat) /\ i \in Nat
      /\ seekpos \in Nat /\ ClusterBytes(vol) \in Nat \ {0}
    BY <1>1, InProgress
<1>3. PICK q \in Nat : q = seekpos \div ClusterBytes(vol)
    BY <1>2, DivMod
<1>4. offset' \in 0 .. ClusterBytes(vol) - 1 /\ seekpos = q * ClusterBytes(vol) + offset'
    BY <1>1, <1>2, <1>3, DivMod
<1>5. i = q
    BY <1>1, <1>2, <1>3 DEF IInv, Walking
<1>6. TypeOK'
    <2>1. offset' \in 0 .. ClusterBytes(vol)
        BY <1>2, <1>4
    <2> QED BY <1>1, <2>1 DEF IInv, TypeOK, ClusterBytes
<1>7. InBuffer'
    BY <1>1, SameBuffer DEF IInv
<1>8. Walking'
    BY <1>1 DEF Walking
<1>9. InCluster'
    <2>1. ASSUME vol.chain # <<>>
          PROVE  i \in 0 .. Len(vol.chain) - 1 /\ cluster = vol.chain[i + 1]
        BY <1>1, <1>2, <2>1 DEF IInv, Walking
    <2>2. ClusterBytes(vol') = ClusterBytes(vol)
        BY <1>1
    <2> QED BY <1>1, <1>4, <1>5, <2>1, <2>2 DEF InCluster
<1> QED BY <1>6, <1>7, <1>8, <1>9 DEF IInv

\* The driver goes to the file's next cluster when it has read one to its end.
LEMMA AdvanceStep == ASSUME IInv, Advance PROVE IInv'
<1>1. pc = "read" /\ left # 0 /\ offset >= ClusterBytes(vol)
    BY DEF Advance
<1>2. /\ vol \in Volumes /\ vol.chain \in Seq(Nat) /\ left \in Nat
      /\ seekpos \in Nat /\ vol.size \in Nat /\ ClusterBytes(vol) \in Nat \ {0}
      /\ offset \in 0 .. ClusterBytes(vol) /\ seekpos + left <= vol.size
    BY <1>1, InProgress
<1>3. CASE ~HasNext(vol, cluster)
    <2>1. PICK n \in Nat : n = count - left
        BY <1>1, InProgress
    <2>2. Return(n)
        BY <1>3, <2>1 DEF Advance
    <2> QED BY <1>1, <2>2, ReturnStep
<1>4. CASE HasNext(vol, cluster)
    <2>1. /\ cluster' = NextCluster(vol, cluster) /\ offset' = 0 /\ pc' = "read"
          /\ UNCHANGED <<vol, open, seekpos, asked, count, left, i, buf, ret>>
        BY <1>1, <1>4 DEF Advance, Return
    <2>2. vol.chain # <<>>
        BY <1>1, <1>2, Clusterless
    <2>3. PICK m \in 0 .. Len(vol.chain) - 1 :
              cluster = vol.chain[m + 1] /\ seekpos = m * ClusterBytes(vol) + offset
        BY <1>1, <2>2 DEF IInv, InCluster
    <2>4. PICK k \in 1 .. Len(vol.chain) : k = m + 1
        BY <1>2
    <2>5. k < Len(vol.chain) /\ cluster' = vol.chain[k + 1]
        BY <1>2, <1>4, <2>1, <2>3, <2>4, Followed
    <2>6. cluster' \in Nat
        BY <1>2, <2>4, <2>5
    <2>7. TypeOK'
        <3>1. offset' \in 0 .. ClusterBytes(vol)
            BY <1>2, <2>1
        <3> QED BY <1>1, <2>1, <2>6, <3>1 DEF IInv, TypeOK, ClusterBytes
    <2>8. InBuffer'
        BY <1>1, <2>1, SameBuffer DEF IInv
    <2>9. Walking'
        BY <2>1 DEF Walking
    <2>10. InCluster'
        <3>1. k \in 0 .. Len(vol.chain) - 1
            BY <1>2, <2>5
        <3>2. seekpos = k * ClusterBytes(vol) + 0
            <4>1. offset = ClusterBytes(vol)
                BY <1>1, <1>2
            <4>2. \A x, y \in Nat : x * y + y = (x + 1) * y
                BY SMT
            <4>3. m \in Nat
                BY <2>3
            <4>4. \A x, y \in Nat : x * y + 0 = x * y
                BY SMT
            <4>5. seekpos = m * ClusterBytes(vol) + ClusterBytes(vol)
                BY <2>3, <4>1
            <4>6. seekpos = (m + 1) * ClusterBytes(vol)
                BY <1>2, <4>2, <4>3, <4>5
            <4>7. seekpos = k * ClusterBytes(vol)
                BY <2>4, <4>6
            <4> QED BY <1>2, <2>4, <4>4, <4>7
        <3>3. ClusterBytes(vol') = ClusterBytes(vol)
            BY <2>1
        <3> QED BY <2>1, <2>5, <3>1, <3>2, <3>3 DEF InCluster
    <2> QED BY <2>7, <2>8, <2>9, <2>10 DEF IInv
<1> QED BY <1>3, <1>4

\* What a piece of the file on the disk holds.
LEMMA Piece ==
    ASSUME NEW v \in Volumes, NEW m \in 0 .. Len(v.chain) - 1, NEW o \in Nat, NEW n \in Nat \ {0},
           o + n <= ClusterBytes(v), m * ClusterBytes(v) + o + n <= v.size
    PROVE  /\ m * ClusterBytes(v) + o + n <= Len(Content(v))
           /\ \A k \in 1 .. n : OnDisk(ClusterAddress(v, v.chain[m + 1], o), n)[k]
                                    = Content(v)[m * ClusterBytes(v) + o + k]
           /\ OnDisk(ClusterAddress(v, v.chain[m + 1], o), n) \in Seq(Int)
           /\ Len(OnDisk(ClusterAddress(v, v.chain[m + 1], o), n)) = n
<1> DEFINE d == ClusterBytes(v)
           a == DataStart(v) + (v.chain[m + 1] - 2) * d
           x == m * d
<1>1. d \in Nat \ {0} /\ v.size \in Nat /\ Len(v.chain) \in Nat /\ v.chain \in Seq(Nat)
    BY VolumeParts, ClusterBytesType
<1>2. a \in Int
    <2>1. v.chain[m + 1] \in Nat
        <3>1. m + 1 \in 1 .. Len(v.chain) /\ v.chain \in Seq(Nat)
            BY <1>1
        <3> QED BY ONLY <3>1
    <2>2. PICK c \in Nat : c = v.chain[m + 1]
        BY <2>1
    <2>3. DataStart(v) \in Nat /\ (c - 2) * d \in Int
        BY VolumeParts, AddressesWrap
    <2> QED BY <2>2, <2>3
<1>3. x \in Nat
    BY <1>1, SMT
<1>4. ASSUME NEW r \in 0 .. d - 1, x + r < v.size
      PROVE  x + r + 1 \in 1 .. Len(Content(v)) /\ Content(v)[x + r + 1] = a + r
    BY <1>4, Placed, Located
<1>5. o + n <= d /\ x + o + n <= v.size
    OBVIOUS
<1>10. ClusterAddress(v, v.chain[m + 1], o) = a + o
    <2>1. o \in 0 .. d - 1
        BY <1>1, <1>5
    <2> QED BY <2>1, Located
<1> HIDE DEF d, x, a
<1>6. Len(Content(v)) \in Nat
    BY <1>1, ContentType
<1>7. x + o + n <= Len(Content(v))
    <2>1. PICK r \in 0 .. d - 1 : r = o + n - 1
        BY <1>1, <1>5
    <2>2. x + r < v.size
        BY <1>1, <1>3, <1>5, <2>1
    <2>3. x + r + 1 \in 1 .. Len(Content(v))
        BY <1>4, <2>2
    <2> QED BY <1>3, <1>6, <2>1, <2>3
<1>8. ASSUME NEW k \in 1 .. n
      PROVE  OnDisk(a + o, n)[k] = Content(v)[x + o + k]
    <2>1. PICK r \in 0 .. d - 1 : r = o + k - 1
        BY <1>1, <1>5
    <2>2. x + r < v.size
        BY <1>1, <1>3, <1>5, <2>1
    <2>3. Content(v)[x + r + 1] = a + r
        BY <1>4, <2>2
    <2>4. x + r + 1 = x + o + k /\ a + r = a + o + k - 1
        BY <1>2, <1>3, <2>1
    <2>5. OnDisk(a + o, n)[k] = a + o + k - 1
        BY DEF OnDisk
    <2> QED BY <2>3, <2>4, <2>5
<1>9. OnDisk(a + o, n) \in Seq(Int) /\ Len(OnDisk(a + o, n)) = n
    <2>1. OnDisk(a + o, n) \in [1 .. n -> Int]
        BY <1>2 DEF OnDisk
    <2> QED BY <2>1
<1> QED BY <1>7, <1>8, <1>9, <1>10 DEF d, x

\* One sequence after another.
LEMMA Joined ==
    ASSUME NEW s \in Seq(Int), NEW t \in Seq(Int)
    PROVE  /\ s \o t \in Seq(Int) /\ Len(s \o t) = Len(s) + Len(t)
           /\ \A k \in 1 .. Len(s) : (s \o t)[k] = s[k]
           /\ \A k \in 1 .. Len(t) : (s \o t)[Len(s) + k] = t[k]
<1>1. s \o t \in Seq(Int) /\ Len(s \o t) = Len(s) + Len(t) /\ Len(s) \in Nat /\ Len(t) \in Nat
    BY SMT
<1>2. \A k \in 1 .. Len(s) : (s \o t)[k] = s[k]
    BY SMT
<1>3. ASSUME NEW k \in 1 .. Len(t) PROVE (s \o t)[Len(s) + k] = t[k]
    BY <1>3, SMT
<1> QED BY <1>1, <1>2, <1>3

\* A piece is read into the buffer behind what is there, and is what follows it in
\* the file.
LEMMA ReadPieceStep == ASSUME IInv, ReadPiece PROVE IInv'
<1>1. pc = "read" /\ left # 0 /\ offset < ClusterBytes(vol)
    BY DEF ReadPiece
<1>2. /\ vol \in Volumes /\ vol.chain \in Seq(Nat) /\ left \in Nat /\ count \in Nat /\ left <= count
      /\ seekpos \in Nat /\ vol.size \in Nat /\ ClusterBytes(vol) \in Nat \ {0}
      /\ offset \in Nat /\ seekpos + left <= vol.size
      /\ buf \in Seq(Int) /\ Len(buf) = count - left
      /\ Position = seekpos - (count - left) /\ Position \in Nat
    BY <1>1, InProgress
<1>3. vol.chain # <<>>
    BY <1>1, <1>2, Clusterless
<1>4. PICK m \in 0 .. Len(vol.chain) - 1 :
          cluster = vol.chain[m + 1] /\ seekpos = m * ClusterBytes(vol) + offset
    BY <1>1, <1>3 DEF IInv, InCluster
<1>5. PICK n \in Nat \ {0} :
          n = Lesser(left, ClusterBytes(vol) - offset) /\ n <= left /\ offset + n <= ClusterBytes(vol)
    <2>1. PICK d \in Nat \ {0} : d = ClusterBytes(vol)
        BY <1>2
    <2>2. offset < d /\ left \in Nat \ {0} /\ offset \in Nat
        BY <1>1, <1>2, <2>1
    <2>3. /\ Lesser(left, d - offset) \in Nat \ {0}
          /\ Lesser(left, d - offset) <= left /\ offset + Lesser(left, d - offset) <= d
        BY <2>1, <2>2 DEF Lesser
    <2> QED BY <2>1, <2>3
<1>14. PICK x \in Nat : x = m * ClusterBytes(vol)
    <2>1. m \in Nat /\ ClusterBytes(vol) \in Nat
        BY <1>2, <1>4
    <2>2. \A y, z \in Nat : y * z \in Nat
        BY SMT
    <2> QED BY <2>1, <2>2
<1>15. seekpos = x + offset
    BY <1>4, <1>14
<1>16. /\ seekpos \in Nat /\ left \in Nat /\ count \in Nat /\ left <= count /\ offset \in Nat
      /\ vol.size \in Nat /\ seekpos + left <= vol.size /\ n <= left /\ n \in Nat
    BY <1>2, <1>5
<1> DEFINE piece == OnDisk(ClusterAddress(vol, cluster, offset), n)
<1>6. /\ buf' = SubSeq(buf, 1, count - left) \o piece
      /\ offset' = offset + n /\ seekpos' = seekpos + n /\ left' = left - n
      /\ pc' = "read" /\ UNCHANGED <<vol, open, asked, count, cluster, i, ret>>
    BY <1>1, <1>5 DEF ReadPiece
<1>7. /\ seekpos + n <= Len(Content(vol))
      /\ \A k \in 1 .. n : piece[k] = Content(vol)[seekpos + k]
      /\ piece \in Seq(Int) /\ Len(piece) = n
    <2>1. m * ClusterBytes(vol) + offset + n <= vol.size
        <3>1. x + offset + n <= vol.size
            BY <1>15, <1>16
        <3> QED BY <1>14, <3>1
    <2>2. m * ClusterBytes(vol) + offset = seekpos
        BY <1>4
    <2>4. ClusterAddress(vol, cluster, offset) = ClusterAddress(vol, vol.chain[m + 1], offset)
        BY <1>4
    <2> DEFINE placed == OnDisk(ClusterAddress(vol, vol.chain[m + 1], offset), n)
    <2>5. /\ m * ClusterBytes(vol) + offset + n <= Len(Content(vol))
          /\ \A k \in 1 .. n : placed[k] = Content(vol)[m * ClusterBytes(vol) + offset + k]
          /\ placed \in Seq(Int) /\ Len(placed) = n
        <3>1. offset \in Nat /\ n \in Nat \ {0} /\ offset + n <= ClusterBytes(vol) /\ vol \in Volumes
            BY <1>2, <1>5
        <3> HIDE DEF piece
        <3> QED BY <1>4, <2>1, <3>1, Piece
    <2>3. /\ m * ClusterBytes(vol) + offset + n <= Len(Content(vol))
          /\ \A k \in 1 .. n : piece[k] = Content(vol)[m * ClusterBytes(vol) + offset + k]
          /\ piece \in Seq(Int) /\ Len(piece) = n
        BY <2>4, <2>5
    <2> HIDE DEF piece
    <2> QED BY <2>2, <2>3
<1> HIDE DEF piece
<1>8. SubSeq(buf, 1, count - left) = buf
    BY <1>2
<1>9. buf' \in Seq(Int) /\ Len(buf') = (count - left) + n
      /\ (\A k \in 1 .. count - left : buf'[k] = buf[k])
      /\ (\A k \in 1 .. n : buf'[(count - left) + k] = piece[k])
    <2>1. buf' = buf \o piece
        BY <1>6, <1>8
    <2>2. /\ Len(buf) = count - left /\ buf \in Seq(Int) /\ piece \in Seq(Int) /\ Len(piece) = n
          /\ count - left \in Nat
        BY <1>2, <1>7, <1>16
    <2>3. /\ buf \o piece \in Seq(Int) /\ Len(buf \o piece) = Len(buf) + Len(piece)
          /\ \A k \in 1 .. Len(buf) : (buf \o piece)[k] = buf[k]
          /\ \A k \in 1 .. Len(piece) : (buf \o piece)[Len(buf) + k] = piece[k]
        BY <2>2, Joined
    <2> QED BY <2>1, <2>2, <2>3
<1>10. TypeOK'
    <2>1. offset' \in 0 .. ClusterBytes(vol) /\ seekpos' \in 0 .. vol.size /\ left' \in 0 .. count
        <3>1. offset + n \in 0 .. ClusterBytes(vol)
            BY <1>2, <1>5
        <3>2. seekpos + n \in 0 .. vol.size /\ left - n \in 0 .. count
            BY <1>16
        <3> QED BY <1>6, <3>1, <3>2
    <2>2. ClusterBytes(vol') = ClusterBytes(vol)
        BY <1>6
    <2> QED BY <1>1, <1>6, <1>9, <2>1, <2>2 DEF IInv, TypeOK
<1>11. InBuffer'
    <2>1. Position' = Position
        <3>1. Position' = seekpos' - (count' - left')
            BY <1>6 DEF Position
        <3>2. (seekpos + n) - (count - (left - n)) = seekpos - (count - left)
            BY <1>16
        <3> QED BY <1>2, <1>6, <3>1, <3>2
    <2>2. PICK s \in Nat : s = Position
        BY <1>2
    <2>3. s + (count - left) = seekpos
        BY <1>2, <2>2
    <2>4. ASSUME NEW k \in 1 .. Len(buf') PROVE buf'[k] = Content(vol)[s + k]
        <3>1. CASE k <= count - left
            <4>1. k \in 1 .. count - left
                BY <1>2, <1>9, <3>1
            <4>2. buf[k] = Content(vol)[s + k]
                BY <1>1, <1>2, <2>2, <4>1 DEF IInv, InBuffer
            <4> QED BY <1>9, <4>1, <4>2
        <3>2. CASE k > count - left
            <4>1. PICK j \in 1 .. n : k = (count - left) + j
                <5>1. k - (count - left) \in 1 .. n /\ k = (count - left) + (k - (count - left))
                    BY <1>2, <1>5, <1>9, <3>2
                <5> QED BY <5>1
            <4>2. buf'[k] = Content(vol)[seekpos + j]
                BY <1>7, <1>9, <4>1
            <4>3. seekpos + j = s + k
                BY <1>2, <2>3, <4>1
            <4> QED BY <4>2, <4>3
        <3> QED BY <1>2, <1>9, <3>1, <3>2
    <2>5. Len(buf') = count' - left'
        BY <1>2, <1>5, <1>6, <1>9
    <2>6. s + Len(buf') <= Len(Content(vol))
        <3>1. PICK y \in Nat : y = Len(Content(vol))
            BY <1>2, ContentType
        <3> QED BY <1>7, <1>9, <1>16, <2>3, <3>1
    <2>7. count = Lesser(asked, vol.size - s)
        BY <1>1, <2>2 DEF IInv, InBuffer
    <2> QED BY <1>6, <2>1, <2>2, <2>4, <2>5, <2>6, <2>7 DEF InBuffer
<1>12. Walking'
    BY <1>6 DEF Walking
<1>13. InCluster'
    <2>1. seekpos' = m * ClusterBytes(vol) + offset'
        <3>1. seekpos + n = x + (offset + n)
            BY <1>15, <1>16
        <3> QED BY <1>6, <1>14, <3>1
    <2>2. ClusterBytes(vol') = ClusterBytes(vol)
        BY <1>6
    <2> QED BY <1>4, <1>6, <2>1, <2>2 DEF InCluster
<1> QED BY <1>10, <1>11, <1>12, <1>13 DEF IInv

\* The last piece read, the read returns.
LEMMA EndReadStep == ASSUME IInv, EndRead PROVE IInv'
<1>1. pc # "idle" /\ Return(count)
    BY DEF EndRead
<1>2. count \in Nat
    BY <1>1, InProgress
<1> QED BY <1>1, <1>2, ReturnStep

\* Every step preserves the invariant.
LEMMA IInvStep == IInv /\ [Next]_vars => IInv'
<1> SUFFICES ASSUME IInv, [Next]_vars PROVE IInv'
    OBVIOUS
<1>1. ASSUME NEW origin \in {"begin", "current", "end"}, NEW p \in Moves, Seek(origin, p) PROVE IInv'
    BY <1>1, SeekStep
<1>2. ASSUME NEW n \in Counts, ReadClosed(n) PROVE IInv'
    BY <1>2, ReadClosedStep
<1>3. ASSUME NEW n \in Counts, StartRead(n) PROVE IInv'
    BY <1>3, StartReadStep
<1>4. CASE Walk
    BY <1>4, WalkStep
<1>5. CASE EndWalk
    BY <1>5, EndWalkStep
<1>6. CASE Advance
    BY <1>6, AdvanceStep
<1>7. CASE ReadPiece
    BY <1>7, ReadPieceStep
<1>8. CASE EndRead
    BY <1>8, EndReadStep
<1>9. CASE UNCHANGED vars
    <2>1. /\ UNCHANGED <<vol, open, seekpos, pc, ret>>
          /\ UNCHANGED <<asked, count, left, cluster, i, offset, buf>>
        BY <1>9 DEF vars, locals
    <2>2. TypeOK'
        BY <2>1 DEF IInv, TypeOK, ClusterBytes
    <2>3. Position' = Position /\ ClusterBytes(vol') = ClusterBytes(vol)
        BY <2>1 DEF Position
    <2>4. InBuffer'
        BY <2>1, <2>3 DEF IInv, InBuffer
    <2>5. Walking' /\ InCluster'
        BY <2>1, <2>3 DEF IInv, Walking, InCluster
    <2> QED BY <2>2, <2>4, <2>5 DEF IInv
<1> QED BY <1>1, <1>2, <1>3, <1>4, <1>5, <1>6, <1>7, <1>8, <1>9 DEF Next, Reading

\* The driver's state is what the invariant says, in every behaviour.
THEOREM HandleInvariant == Spec => []IInv
    BY IInvInit, IInvStep, PTL DEF Spec

\* Types hold: the position stays in the file, the offset in its cluster, and no
\* more is left to read than was asked for.
THEOREM FatTypeCorrect == Spec => []TypeOK
<1>1. IInv => TypeOK
    BY DEF IInv
<1> QED BY <1>1, HandleInvariant, PTL
-----------------------------------------------------------------------------
(***************************************************************************)
(* Refinement: fat_read is one read of the file when it returns, fat_seek  *)
(* is a seek, and the steps in between are none.                           *)
(***************************************************************************)

\* Every handle starts as a file does.
LEMMA InitIsFile == Init => File!Init
<1> SUFFICES ASSUME Init PROVE File!Init
    OBVIOUS
<1>1. vol \in Volumes /\ vol.size \in Nat /\ seekpos = 0 /\ pc = "idle" /\ ret = Nothing
    BY VolumeParts DEF Init
<1>2. Content(vol) \in Seq(Int) /\ Len(Content(vol)) \in 0 .. vol.size
    BY <1>1, ContentType
<1>3. CASE open
    BY <1>1, <1>2, <1>3 DEF File!Init, File!Nothing, Nothing, Position
<1>4. CASE ~open
    BY <1>1, <1>4 DEF File!Init, File!Nothing, Nothing, Position
<1> QED BY <1>3, <1>4

\* A step that neither moves the file's position nor answers a call.
LEMMA Internal ==
    ASSUME UNCHANGED <<vol, open, ret>>, Position' = Position
    PROVE  UNCHANGED File!vars
<1>1. Content(vol)' = Content(vol)
    BY DEF Content, ClusterBytes, DataStart
<1> QED BY <1>1 DEF File!vars

\* A read that returns what is in the buffer.
LEMMA ReturnIsRead ==
    ASSUME IInv, pc # "idle", Return(count - left),
           count - left = asked \/ seekpos >= Len(Content(vol))
    PROVE  File!Read(asked)
<1>1. /\ vol \in Volumes /\ vol.size \in Nat /\ open /\ seekpos \in Nat /\ count \in Nat
      /\ left \in 0 .. count /\ asked \in Nat /\ buf \in Seq(Int) /\ Len(buf) = count - left
      /\ Position = seekpos - (count - left) /\ Position \in Nat
      /\ count = Lesser(asked, vol.size - Position)
    BY InProgress
<1>2. /\ pc' = "idle" /\ UNCHANGED <<vol, open, seekpos, count, left, buf, asked>>
      /\ ret' = [op |-> "read", asked |-> asked, value |-> count - left, data |-> buf]
    BY DEF Return, locals
<1> DEFINE b == Content(vol)
           n == count - left
<1>3. b \in Seq(Int) /\ Len(b) \in 0 .. vol.size
    BY <1>1, ContentType
<1>4. PICK s \in Nat : s = Position
    BY <1>1
<1>5. n \in Nat /\ seekpos = s + n /\ n <= asked
    <2>1. \A x \in Int : Lesser(asked, x) <= asked
        BY <1>1 DEF Lesser
    <2>2. vol.size - Position \in Int
        BY <1>1
    <2>3. count <= asked
        BY <1>1, <2>1, <2>2
    <2>4. n \in Nat
        BY <1>1
    <2>5. seekpos = Position + n
        BY <1>1
    <2>6. n <= count
        BY <1>1
    <2> HIDE DEF n
    <2>7. seekpos = s + n
        BY <1>4, <2>5
    <2>8. count \in Nat /\ asked \in Nat
        BY <1>1
    <2>9. n <= asked
        BY <2>3, <2>4, <2>6, <2>8
    <2> QED BY <2>4, <2>7, <2>9
<1>6. n > 0 => s + n <= Len(b)
    BY <1>1, <1>4 DEF IInv, InBuffer
<1>7. n = IF asked < (IF s < Len(b) THEN Len(b) - s ELSE 0)
          THEN asked ELSE (IF s < Len(b) THEN Len(b) - s ELSE 0)
    <2>1. PICK l \in Nat : l = Len(b)
        BY <1>3
    <2>2. n = asked \/ s + n >= l
        BY <1>5, <2>1
    <2> HIDE DEF b, n
    <2>3. n > 0 => s + n <= l
        BY <1>6, <2>1
    <2>4. n = IF asked < (IF s < l THEN l - s ELSE 0) THEN asked ELSE (IF s < l THEN l - s ELSE 0)
        BY <1>1, <1>5, <2>2, <2>3
    <2> QED BY <2>1, <2>4
<1>8. SubSeq(b, s + 1, s + n) = buf
    <2>1. PICK l \in Nat : l = Len(b)
        BY <1>3
    <2>2. Len(buf) = n
        BY <1>1
    <2>3. \A k \in 1 .. n : buf[k] = b[s + k]
        BY <1>1, <1>4 DEF IInv, InBuffer
    <2> HIDE DEF b, n
    <2>4. Len(SubSeq(b, s + 1, s + n)) = n
        BY <1>3, <1>5, <1>6, <2>1
    <2>5. SubSeq(b, s + 1, s + n) \in Seq(Int)
        BY <1>3, <1>5, <1>6, <2>1
    <2>6. ASSUME NEW k \in 1 .. n PROVE SubSeq(b, s + 1, s + n)[k] = buf[k]
        <3>1. SubSeq(b, s + 1, s + n)[k] = b[s + k]
            BY <1>3, <1>5, <1>6, <2>1
        <3> QED BY <2>3, <3>1
    <2>7. buf \in Seq(Int)
        BY <1>1
    <2> QED BY <2>2, <2>4, <2>5, <2>6, <2>7, SeqEqual
<1>9. Position' = s + n /\ open' /\ b' = b /\ (vol.size)' = vol.size
    <2>1. Position' = seekpos
        BY <1>2 DEF Position
    <2>2. b' = b
        BY <1>2 DEF Content, ClusterBytes, DataStart
    <2> QED BY <1>1, <1>2, <1>5, <2>1, <2>2
<1> HIDE DEF b, n
<1>10. ret' = [op |-> "read", asked |-> asked, value |-> n, data |-> buf]
    BY <1>2 DEF n
<1> QED BY <1>1, <1>4, <1>7, <1>8, <1>9, <1>10 DEF File!Read, File!Lesser, b

\* A step of a seek is a seek of the file.
LEMMA SeekIsSeek ==
    ASSUME IInv, NEW origin \in {"begin", "current", "end"}, NEW p \in Moves, Seek(origin, p)
    PROVE  File!Seek(origin, p)
<1>1. vol.size \in Nat /\ WordSize \in Nat \ {0} /\ p \in Int /\ seekpos \in 0 .. vol.size
      /\ vol.size < WordSize
    BY VolumeParts, VolumesAssumption DEF IInv, TypeOK
<1>2. pc = "idle" /\ pc' = "idle" /\ UNCHANGED <<vol, open>>
    BY DEF Seek, locals
<1>3. Position = seekpos /\ Position' = seekpos'
    BY <1>2 DEF Position
<1>4. Content(vol)' = Content(vol) /\ (vol.size)' = vol.size
    BY <1>2 DEF Content, ClusterBytes, DataStart
<1>5. CASE ~open
    <2>1. ret' = [op |-> "seek", asked |-> 0, data |-> <<>>, value |-> 0]
        BY <1>5 DEF Seek
    <2> QED BY <1>2, <1>5, <2>1 DEF File!Seek, File!From
<1>6. CASE open
    <2> DEFINE target == CASE origin = "begin"   -> 0 + p
                           [] origin = "current" -> seekpos + p
                           [] origin = "end"     -> vol.size + p
    <2>1. seekpos' = Lesser(vol.size, target % WordSize)
        BY <1>1, <1>6 DEF Seek
    <2>2. target \in Int
        BY <1>1
    <2>3. File!From(origin) + p = target
        BY <1>1, <1>3, <1>6 DEF File!From
    <2> HIDE DEF target
    <2>4. target % WordSize \in Nat
        BY <1>1, <2>2, SMT
    <2>5. seekpos' \in 0 .. vol.size
        BY <1>1, <2>1, <2>4 DEF Lesser
    <2>6. target \in 0 .. vol.size => seekpos' = target
        <3>1. ASSUME target \in 0 .. vol.size PROVE target % WordSize = target
            <4>1. target \in 0 .. WordSize - 1
                BY <1>1, <3>1
            <4>2. \A x \in 0 .. WordSize - 1 : x % WordSize = x
                BY <1>1, SMT
            <4> QED BY <4>1, <4>2
        <3> QED BY <1>1, <2>1, <3>1 DEF Lesser
    <2>7. ret' = [op |-> "seek", asked |-> 0, data |-> <<>>, value |-> seekpos']
        BY <1>6 DEF Seek
    <2> QED BY <1>2, <1>3, <1>4, <1>6, <2>3, <2>5, <2>6, <2>7 DEF File!Seek
<1> QED BY <1>5, <1>6

\* A read of a closed handle is one of an empty file.
LEMMA ClosedIsRead ==
    ASSUME IInv, NEW n \in Counts, ReadClosed(n)
    PROVE  File!Read(n)
<1>1. n \in Nat
    BY VolumesAssumption
<1>2. /\ ~open /\ UNCHANGED <<vol, open>>
      /\ ret' = [op |-> "read", asked |-> n, value |-> 0, data |-> <<>>]
    BY DEF ReadClosed
<1>3. SubSeq(<<>>, 1, 0) = <<>>
    OBVIOUS
<1>4. Len(<<>>) = 0
    OBVIOUS
<1> QED BY <1>1, <1>2, <1>3, <1>4 DEF File!Read, File!Lesser

\* A walk that finds no next cluster is past the end of the file's.
LEMMA WalkedPast ==
    ASSUME IInv, Walk, ~HasNext(vol, cluster)
    PROVE  seekpos >= Len(Content(vol))
<1>1. pc = "walk" /\ i < seekpos \div ClusterBytes(vol)
    BY DEF Walk
<1>2. /\ vol \in Volumes /\ vol.size \in Nat /\ vol.chain \in Seq(Nat) /\ i \in Nat
      /\ seekpos \in Nat /\ seekpos <= vol.size /\ ClusterBytes(vol) \in Nat \ {0}
    BY <1>1, InProgress
<1>3. PICK l \in Nat : l = Len(Content(vol))
    BY <1>2, ContentType
<1>4. SUFFICES ASSUME seekpos < l PROVE FALSE
    BY <1>2, <1>3
<1>5. PICK n \in Nat : n = Len(vol.chain)
    BY <1>2
<1>6. l <= vol.size /\ l <= n * ClusterBytes(vol) /\ n * ClusterBytes(vol) \in Nat
    BY <1>2, <1>3, <1>5, ContentType, ContentLength
<1>7. seekpos < Len(vol.chain) * ClusterBytes(vol)
    <2> DEFINE x == n * ClusterBytes(vol)
    <2>1. x \in Nat /\ l <= x
        BY <1>6
    <2> HIDE DEF x
    <2>2. seekpos < x
        BY <1>2, <1>4, <2>1
    <2> QED BY <1>5, <2>2 DEF x
<1>8. PICK q \in 0 .. n - 1 : q = seekpos \div ClusterBytes(vol)
    BY <1>2, <1>5, <1>7, InChain
<1>9. i + 1 < n
    BY <1>1, <1>2, <1>8
<1>10. vol.chain # <<>>
    BY <1>2, <1>5, <1>9
<1>11. cluster = vol.chain[i + 1]
    BY <1>1, <1>10 DEF IInv, Walking
<1>12. PICK k \in 1 .. n : k = i + 1
    BY <1>2, <1>9
<1>13. HasNext(vol, vol.chain[k])
    BY <1>2, <1>5, <1>9, <1>12, Followed
<1> QED BY <1>11, <1>12, <1>13

\* So is a read that finds none.
LEMMA AdvancedPast ==
    ASSUME IInv, Advance, ~HasNext(vol, cluster)
    PROVE  seekpos >= Len(Content(vol))
<1>1. pc = "read" /\ left # 0 /\ offset >= ClusterBytes(vol)
    BY DEF Advance
<1>2. /\ vol \in Volumes /\ vol.size \in Nat /\ vol.chain \in Seq(Nat) /\ left \in Nat
      /\ seekpos \in Nat /\ seekpos + left <= vol.size /\ ClusterBytes(vol) \in Nat \ {0}
      /\ offset = ClusterBytes(vol)
    BY <1>1, InProgress
<1>3. vol.chain # <<>>
    BY <1>1, <1>2, Clusterless
<1>4. PICK n \in Nat : n = Len(vol.chain)
    BY <1>2
<1>5. PICK m \in 0 .. n - 1 : cluster = vol.chain[m + 1] /\ seekpos = m * ClusterBytes(vol) + offset
    BY <1>1, <1>3, <1>4 DEF IInv, InCluster
<1>6. PICK k \in 1 .. n : k = m + 1
    BY <1>4
<1>7. ~(k < n)
    BY <1>2, <1>4, <1>5, <1>6, Followed
<1>8. seekpos = n * ClusterBytes(vol)
    <2>1. \A x, y \in Nat : x * y + y = (x + 1) * y
        BY SMT
    <2>2. seekpos = (m + 1) * ClusterBytes(vol)
        BY <1>2, <1>5, <2>1
    <2>3. m + 1 = n
        BY <1>6, <1>7
    <2> QED BY <2>2, <2>3
<1>9. PICK l \in Nat : l = Len(Content(vol))
    BY <1>2, ContentType
<1>10. l <= n * ClusterBytes(vol)
    BY <1>2, <1>4, <1>9, ContentType, ContentLength
<1> QED BY <1>2, <1>8, <1>9, <1>10

\* A read that returns all it set out to read has read what was asked for, or up to
\* the end of the file.
LEMMA AllRead ==
    ASSUME IInv, pc # "idle", left = 0
    PROVE  count = asked \/ seekpos >= Len(Content(vol))
<1>1. /\ vol \in Volumes /\ vol.size \in Nat /\ seekpos \in Nat /\ count \in Nat /\ asked \in Nat
      /\ Position = seekpos - (count - left) /\ Position \in Nat
      /\ count = Lesser(asked, vol.size - Position)
    BY InProgress
<1>2. PICK s \in Nat : s = Position
    BY <1>1
<1>3. seekpos = s + count
    <2>1. s = seekpos - (count - 0)
        BY <1>1, <1>2
    <2>2. seekpos \in Nat /\ count \in Nat
        BY <1>1
    <2> QED BY <2>1, <2>2
<1>4. PICK l \in Nat : l = Len(Content(vol)) /\ l <= vol.size
    BY <1>1, ContentType
<1>5. count = asked \/ count = vol.size - s
    BY <1>1, <1>2 DEF Lesser
<1> QED BY <1>1, <1>3, <1>4, <1>5

\* The size of a read in progress is one the caller asks for.
LEMMA AskedIsACount ==
    ASSUME pc # "idle" => asked \in Counts, [Next]_vars
    PROVE  pc' # "idle" => asked' \in Counts
<1>1. CASE \E n \in Counts : StartRead(n)
    BY <1>1 DEF StartRead
<1>2. CASE \E origin \in {"begin", "current", "end"}, p \in Moves : Seek(origin, p)
    BY <1>2 DEF Seek
<1>3. CASE \E n \in Counts : ReadClosed(n)
    BY <1>3 DEF ReadClosed
<1>4. CASE Reading
    BY <1>4 DEF Reading, Walk, EndWalk, Advance, ReadPiece, EndRead, Return, locals
<1>5. CASE UNCHANGED vars
    BY <1>5 DEF vars, locals
<1> QED BY <1>1, <1>2, <1>3, <1>4, <1>5 DEF Next

\* Every step of a handle is a step of the file or changes nothing of it.
LEMMA StepIsFile ==
    ASSUME IInv, pc # "idle" => asked \in Counts, [Next]_vars
    PROVE  [File!Next]_(File!vars)
<1>1. ASSUME NEW origin \in {"begin", "current", "end"}, NEW p \in Moves, Seek(origin, p)
      PROVE  File!Next
    BY <1>1, SeekIsSeek DEF File!Next, File!Origins
<1>2. ASSUME NEW n \in Counts, ReadClosed(n) PROVE File!Next
    BY <1>2, ClosedIsRead DEF File!Next
<1>3. ASSUME NEW n \in Counts, StartRead(n) PROVE UNCHANGED File!vars
    <2>1. /\ pc = "idle" /\ pc' = "walk" /\ left' = count'
          /\ UNCHANGED <<vol, open, seekpos, ret>>
        BY <1>3 DEF StartRead
    <2>2. IInv'
        BY <1>3, StartReadStep
    <2>3. seekpos \in Int /\ count' \in Int
        <3>1. vol.size \in Nat
            BY VolumeParts DEF IInv, TypeOK
        <3> QED BY <2>2, <3>1 DEF IInv, TypeOK
    <2>4. Position' = Position
        <3>1. Position = seekpos /\ Position' = seekpos' - (count' - left')
            BY <2>1 DEF Position
        <3>2. PICK n1 \in Int : n1 = count'
            BY <2>3
        <3>3. seekpos - (n1 - n1) = seekpos
            BY <2>3
        <3> QED BY <2>1, <3>1, <3>2, <3>3
    <2> QED BY <2>1, <2>4, Internal
<1>4. ASSUME pc # "idle", Return(count - left),
             count - left = asked \/ seekpos >= Len(Content(vol))
      PROVE  File!Next
    BY <1>4, ReturnIsRead DEF File!Next
<1>5. ASSUME pc # "idle", pc' # "idle", UNCHANGED <<vol, open, seekpos, count, left, ret>>
      PROVE  UNCHANGED File!vars
    <2>1. Position' = Position
        BY <1>5 DEF Position
    <2> QED BY <1>5, <2>1, Internal
<1>6. CASE Walk
    <2>1. CASE HasNext(vol, cluster)
        BY <1>5, <1>6, <2>1 DEF Walk, Return
    <2>2. CASE ~HasNext(vol, cluster)
        <3>1. pc = "walk" /\ Return(0) /\ i < seekpos \div ClusterBytes(vol)
            BY <1>6, <2>2 DEF Walk
        <3>2. count - left = 0
            BY <3>1, InProgress DEF IInv, Walking
        <3>3. seekpos >= Len(Content(vol))
            BY <1>6, <2>2, WalkedPast
        <3> QED BY <1>4, <3>1, <3>2, <3>3
    <2> QED BY <2>1, <2>2
<1>7. CASE EndWalk
    BY <1>5, <1>7 DEF EndWalk
<1>8. CASE Advance
    <2>1. CASE HasNext(vol, cluster)
        BY <1>5, <1>8, <2>1 DEF Advance, Return
    <2>2. CASE ~HasNext(vol, cluster)
        <3>1. pc = "read" /\ Return(count - left)
            BY <1>8, <2>2 DEF Advance
        <3>2. seekpos >= Len(Content(vol))
            BY <1>8, <2>2, AdvancedPast
        <3> QED BY <1>4, <3>1, <3>2
    <2> QED BY <2>1, <2>2
<1>9. CASE ReadPiece
    <2>1. /\ pc = "read" /\ pc' = "read" /\ UNCHANGED <<vol, open, count, ret>>
          /\ seekpos' = seekpos + Lesser(left, ClusterBytes(vol) - offset)
          /\ left' = left - Lesser(left, ClusterBytes(vol) - offset)
        BY <1>9 DEF ReadPiece
    <2>2. seekpos \in Int /\ count \in Int /\ left \in Int
          /\ ClusterBytes(vol) \in Int /\ offset \in Int
        BY <2>1, InProgress
    <2>3. PICK n \in Int : n = Lesser(left, ClusterBytes(vol) - offset)
        BY <2>2 DEF Lesser
    <2>4. Position' = Position
        BY <2>1, <2>2, <2>3 DEF Position
    <2> QED BY <2>1, <2>4, Internal
<1>10. CASE EndRead
    <2>1. pc = "read" /\ left = 0 /\ Return(count)
        BY <1>10 DEF EndRead
    <2>2. count - left = count
        BY <2>1, InProgress
    <2>3. count = asked \/ seekpos >= Len(Content(vol))
        BY <2>1, AllRead
    <2> QED BY <1>4, <2>1, <2>2, <2>3
<1>11. CASE UNCHANGED vars
    <2>1. UNCHANGED <<vol, open, seekpos, pc, count, left, ret>>
        BY <1>11 DEF vars, locals
    <2>2. Position' = Position
        BY <2>1 DEF Position
    <2> QED BY <2>1, <2>2, Internal
<1> QED BY <1>1, <1>2, <1>3, <1>6, <1>7, <1>8, <1>9, <1>10, <1>11 DEF Next, Reading

\* A handle is a file: fat_read returns the file's bytes, for every geometry and
\* fragmentation of a volume whose table and file have addresses that fit a uint32_t
\* (Addressable).  AddressesWrap says what happens on the others.
THEOREM HandleIsFile == Spec => IsByteFile
<1> DEFINE J == IInv /\ (pc # "idle" => asked \in Counts)
<1>1. Init => J
    BY IInvInit DEF Init
<1>2. J /\ [Next]_vars => J'
    BY IInvStep, AskedIsACount
<1>3. J /\ [Next]_vars => [File!Next]_(File!vars)
    BY StepIsFile
<1> QED BY <1>1, <1>2, <1>3, InitIsFile, PTL DEF Spec, IsByteFile, File!Spec

-----------------------------------------------------------------------------
(***************************************************************************)
(* That a read ends, as far as it can be said without fairness: a number   *)
(* of steps that it has left, at most, which each of its steps lowers.     *)
(***************************************************************************)
\* While the walk goes on, a step for each cluster before the position and one to end
\* it; then at most two for each byte, and one to return.
StepsLeft ==
    CASE pc = "walk" -> (seekpos \div ClusterBytes(vol) - i) + 2 * left + 2
      [] pc = "read" -> 2 * left + (IF offset >= ClusterBytes(vol) THEN 2 ELSE 1)
      [] OTHER       -> 0

\* The quotient in it is a number.
LEMMA WalkLength ==
    ASSUME IInv, pc # "idle"
    PROVE  \E q \in Nat : q = seekpos \div ClusterBytes(vol)
<1>1. seekpos \in Nat /\ ClusterBytes(vol) \in Nat \ {0}
    BY InProgress
<1> QED BY <1>1, DivMod

LEMMA StepsLeftType == IInv => StepsLeft \in Nat
<1> SUFFICES ASSUME IInv PROVE StepsLeft \in Nat
    OBVIOUS
<1>1. pc \in {"idle", "walk", "read"}
    BY DEF IInv, TypeOK
<1>2. CASE pc = "walk"
    <2>1. PICK q \in Nat : q = seekpos \div ClusterBytes(vol)
        BY <1>2, WalkLength
    <2>2. left \in Nat /\ i \in Nat /\ i <= q
        BY <1>2, <2>1, InProgress DEF IInv, Walking
    <2> QED BY <1>2, <2>1, <2>2 DEF StepsLeft
<1>3. CASE pc = "read"
    <2>1. left \in Nat
        BY <1>3, InProgress
    <2> QED BY <1>3, <2>1 DEF StepsLeft
<1>4. CASE pc = "idle"
    BY <1>4 DEF StepsLeft
<1> QED BY <1>1, <1>2, <1>3, <1>4

LEMMA StepsLower == IInv /\ Reading => StepsLeft' < StepsLeft
<1> SUFFICES ASSUME IInv, Reading PROVE StepsLeft' < StepsLeft
    OBVIOUS
<1>1. pc \in {"walk", "read"}
    BY DEF Reading, Walk, EndWalk, Advance, ReadPiece, EndRead
<1>2. PICK q \in Nat : q = seekpos \div ClusterBytes(vol)
    BY <1>1, WalkLength
<1>3. /\ left \in Nat /\ i \in Nat /\ offset \in Nat /\ seekpos \in Nat
      /\ ClusterBytes(vol) \in Nat \ {0} /\ (pc = "walk" => i <= q)
    BY <1>1, <1>2, InProgress DEF IInv, Walking
<1>4. StepsLeft = IF pc = "walk" THEN (q - i) + 2 * left + 2
                  ELSE 2 * left + (IF offset >= ClusterBytes(vol) THEN 2 ELSE 1)
    BY <1>1, <1>2 DEF StepsLeft
<1>5. StepsLeft > 0
    BY <1>1, <1>3, <1>4
<1>6. CASE pc' = "idle"
    BY <1>5, <1>6 DEF StepsLeft
<1>7. CASE Walk /\ pc' # "idle"
    <2>1. pc = "walk" /\ pc' = "walk" /\ i < q /\ i' = i + 1 /\ UNCHANGED <<vol, seekpos, left>>
        BY <1>2, <1>7 DEF Walk, Return
    <2>2. ClusterBytes(vol)' = ClusterBytes(vol)
        BY <2>1
    <2>3. StepsLeft' = (q - (i + 1)) + 2 * left + 2
        BY <1>2, <2>1, <2>2 DEF StepsLeft
    <2> QED BY <1>3, <1>4, <2>1, <2>3
<1>8. CASE EndWalk
    <2>1. /\ pc = "walk" /\ pc' = "read" /\ offset' = seekpos % ClusterBytes(vol)
          /\ UNCHANGED <<vol, left>>
        BY <1>8 DEF EndWalk
    <2>2. offset' < ClusterBytes(vol)
        BY <1>3, <2>1, DivMod
    <2>3. ClusterBytes(vol)' = ClusterBytes(vol) /\ offset' \in Nat
        BY <1>3, <2>1, DivMod
    <2>4. StepsLeft' = 2 * left + 1
        BY <1>3, <2>1, <2>2, <2>3 DEF StepsLeft
    <2> QED BY <1>3, <1>4, <2>1, <2>4
<1>9. CASE Advance /\ pc' # "idle"
    <2>1. /\ pc = "read" /\ pc' = "read" /\ offset' = 0 /\ offset >= ClusterBytes(vol)
          /\ UNCHANGED <<vol, left>>
        BY <1>9 DEF Advance, Return
    <2>2. ClusterBytes(vol)' = ClusterBytes(vol)
        BY <2>1
    <2>3. StepsLeft' = 2 * left + 1
        BY <1>3, <2>1, <2>2 DEF StepsLeft
    <2> QED BY <1>3, <1>4, <2>1, <2>3
<1>10. CASE ReadPiece
    <2>1. /\ pc = "read" /\ pc' = "read" /\ left # 0 /\ offset < ClusterBytes(vol)
          /\ left' = left - Lesser(left, ClusterBytes(vol) - offset)
        BY <1>10 DEF ReadPiece
    <2>2. left' <= left - 1 /\ left' \in Nat
        BY <1>3, <2>1 DEF Lesser
    <2>3. StepsLeft' <= 2 * left' + 2
        BY <2>1, <2>2 DEF StepsLeft
    <2>4. StepsLeft >= 2 * left + 1
        BY <1>3, <1>4, <2>1
    <2>5. StepsLeft' \in Int /\ StepsLeft \in Int
        BY <1>3, <1>4, <2>1, <2>2 DEF StepsLeft
    <2>6. \A k, m \in Nat, s, t \in Int : m <= k - 1 /\ s <= 2 * m + 2 /\ t >= 2 * k + 1 => s < t
        OBVIOUS
    <2> QED BY ONLY <1>3, <2>2, <2>3, <2>4, <2>5, <2>6
<1>11. CASE EndRead
    BY <1>6, <1>11 DEF EndRead, Return
<1> QED BY <1>6, <1>7, <1>8, <1>9, <1>10, <1>11 DEF Reading

\* fat_read ends: every step of it lowers a natural number, whatever the position, the
\* count and the cluster chain.
THEOREM ReadGetsShorter == Spec => [](StepsLeft \in Nat) /\ [][Reading => StepsLeft' < StepsLeft]_vars
<1>1. IInv /\ [Next]_vars => [Reading => StepsLeft' < StepsLeft]_vars
    BY StepsLower
<1> QED BY <1>1, StepsLeftType, HandleInvariant, PTL DEF Spec
=============================================================================
