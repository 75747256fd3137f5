------------------------------ MODULE FatFile ------------------------------
(***************************************************************************)
(* A handle of an opened file on a FAT volume: fat_seek, and fat_read with *)
(* its walk along the cluster chain.                                       *)
(*                                                                         *)
(* What a byte of a file is does not matter, where it comes from does: a   *)
(* byte of the data area is represented by its offset on the disk, so that *)
(* the contents of a buffer tell which parts of the disk were read into    *)
(* it.  The bytes of the file allocation table are real.                   *)
(***************************************************************************)
EXTENDS Integers, Sequences

CONSTANTS WordSize,     \* number of values of a uint32_t
          Volumes,      \* volumes with the file in question
          Counts,       \* the sizes of reads
          Moves         \* the distances of seeks, int32_t

Word == 0 .. WordSize - 1

\* bpb and ebpb, the table's bytes, and the directory entry of the file.  The
\* last fields are what the formatter had in mind: how many sectors to set aside
\* for the root directory, the table's entries (cluster c's is the c+1st), and
\* the clusters in which to put the file.
Volume == [type : {12, 16, 32}, base : Nat, bps : Nat \ {0}, spc : Nat \ {0},
           reserved : Nat, fats : Nat, fatSize : Nat, rootEnts : Nat,
           fat : Seq(0 .. 255), first : Nat, size : Nat,
           rootSectors : Nat, entries : Seq(Nat), chain : Seq(Nat)]

DirentSize == 32

\* sectors_per_cluster * bytes_per_sector
ClusterBytes(v) == v.spc * v.bps

VARIABLES vol, open,    \* the volume; has fat_open_file found the file?
          seekpos,
          pc,           \* where fat_read is, or "idle"
          asked, count, left, cluster, i, offset,    \* its parameter and locals
          buf,          \* what it has put into the caller's buffer
          ret           \* the last call and what it returned

locals == <<asked, count, left, cluster, i, offset, buf>>
vars   == <<vol, open, seekpos, pc, locals, ret>>
-----------------------------------------------------------------------------
(***************************************************************************)
(* The volume's layout.                                                    *)
(***************************************************************************)
\* Values from here on end a cluster chain.
FirstEnd(t) == CASE t = 12 -> 4088 [] t = 16 -> 65528 [] t = 32 -> 268435448

\* Offsets, sectors and addresses are uint32_t: what does not fit wraps around.
EntryOffset(t, c) ==
    (CASE t = 12 -> c + (c \div 2) [] t = 16 -> c * 2 [] t = 32 -> c * 4) % WordSize

\* The sector of an entry and its place there, as an offset on the disk.
EntryAddress(v, c) ==
    LET o == EntryOffset(v.type, c)
    IN  (v.base + (v.reserved + (o \div v.bps)) * v.bps + (o % v.bps)) % WordSize

TableStart(v) == v.base + v.reserved * v.bps

\* The byte of the table at offset a of the disk.
TableByte(v, a) == v.fat[a - TableStart(v) + 1]

LittleEndian(v, a, n) ==
    IF n = 2 THEN TableByte(v, a) + 256 * TableByte(v, a + 1)
    ELSE TableByte(v, a) + 256 * TableByte(v, a + 1)
            + 65536 * TableByte(v, a + 2) + 16777216 * TableByte(v, a + 3)

\* What fat_get_next_cluster finds in the table.
NextCluster(v, c) ==
    LET a == EntryAddress(v, c)
    IN  IF v.type = 32 THEN LittleEndian(v, a, 4)
        ELSE IF v.type = 16 THEN LittleEndian(v, a, 2)
        ELSE IF c % 2 = 1 THEN LittleEndian(v, a, 2) \div 16
        ELSE LittleEndian(v, a, 2) % 4096

\* What it returns: is there a next cluster?
HasNext(v, c) == NextCluster(v, c) < FirstEnd(v.type)

ClusterToSectorTruncated(v, c) ==   \* mutant: the root directory is rounded down
    ((c - 2) * v.spc
        + (v.reserved + v.fats * v.fatSize + ((v.rootEnts * DirentSize) \div v.bps))) % WordSize

\* The root directory's entries and a sector are a uint16_t each, and small.
ClusterToSector(v, c) ==
    ((c - 2) * v.spc
        + (v.reserved + v.fats * v.fatSize
            + ((v.rootEnts * DirentSize + (v.bps - 1)) \div v.bps))) % WordSize

\* Where fat_read reads from: offset o in the cluster.
ClusterAddress(v, c, o) == (v.base + ClusterToSector(v, c) * v.bps + o) % WordSize
-----------------------------------------------------------------------------
(***************************************************************************)
(* What the formatter put on the volume.                                   *)
(***************************************************************************)
\* The data area follows the reserved sectors, the tables and the root directory.
DataStart(v) == v.base + (v.reserved + v.fats * v.fatSize + v.rootSectors) * v.bps

Lesser(a, b) == IF a < b THEN a ELSE b

\* As much of the file as its clusters hold.
Content(v) ==
    [p \in 1 .. Lesser(v.size, Len(v.chain) * ClusterBytes(v)) |->
        DataStart(v) + (v.chain[(p - 1) \div ClusterBytes(v) + 1] - 2) * ClusterBytes(v)
            + ((p - 1) % ClusterBytes(v))]

\* A table of 16 or 32-bit entries is little endian; 12-bit entries come in pairs of
\* three bytes, of which the middle one is shared.
IsTable(v) ==
    CASE v.type = 12 ->
            \A c \in 0 .. Len(v.entries) - 1 : c % 2 = 0 =>
                LET e == v.entries[c + 1]
                    f == v.entries[c + 2]
                    o == 3 * (c \div 2)
                IN  /\ c + 2 <= Len(v.entries) /\ o + 3 <= Len(v.fat)
                    /\ e < 4096 /\ f < 4096
                    /\ v.fat[o + 1] = e % 256
                    /\ v.fat[o + 2] = e \div 256 + 16 * (f % 16)
                    /\ v.fat[o + 3] = f \div 16
      [] v.type = 16 ->
            \A c \in 0 .. Len(v.entries) - 1 :
                LET e == v.entries[c + 1]
                IN  /\ 2 * c + 2 <= Len(v.fat) /\ e < 65536
                    /\ v.fat[2 * c + 1] = e % 256 /\ v.fat[2 * c + 2] = e \div 256
      [] v.type = 32 ->
            \A c \in 0 .. Len(v.entries) - 1 :
                LET e == v.entries[c + 1]
                IN  /\ 4 * c + 4 <= Len(v.fat) /\ e < 268435456
                    /\ v.fat[4 * c + 1] = e % 256
                    /\ v.fat[4 * c + 2] = (e \div 256) % 256
                    /\ v.fat[4 * c + 3] = (e \div 65536) % 256
                    /\ v.fat[4 * c + 4] = e \div 16777216

\* The entries link the file's clusters and end there.
IsChain(v) ==
    /\ v.chain = <<>> => v.size = 0
    /\ \A k \in 1 .. Len(v.chain) :
        LET c == v.chain[k]
        IN  /\ c \in 2 .. Len(v.entries) - 1
            /\ k = 1 => c = v.first
            /\ k < Len(v.chain) => v.entries[c + 1] = v.chain[k + 1]
                                   /\ v.entries[c + 1] < FirstEnd(v.type)
            /\ k = Len(v.chain) => v.entries[c + 1] >= FirstEnd(v.type)

\* The root directory takes as many sectors as its entries need.  A chain may be
\* too short for the size in the directory entry.
WellFormed(v) ==
    /\ v \in Volume
    /\ v.rootSectors * v.bps >= v.rootEnts * DirentSize
    /\ v.rootSectors * v.bps < v.rootEnts * DirentSize + v.bps
    /\ IsTable(v) /\ IsChain(v)

\* The table and the file's clusters lie in the part of the disk that a uint32_t
\* addresses, the first 4 GiB.  The code does not see to it: init_fat_driver mounts
\* larger volumes too, and an address beyond wraps around to the disk's beginning.
Addressable(v) ==
    /\ TableStart(v) + Len(v.fat) <= WordSize
    /\ \A k \in 1 .. Len(v.chain) :
        DataStart(v) + (v.chain[k] - 2) * ClusterBytes(v) + ClusterBytes(v) <= WordSize

\* No position in a file plus the size of a read exceeds a uint32_t.
ASSUME VolumesAssumption ==
    /\ WordSize \in Nat \ {0}
    /\ Counts \subseteq Nat /\ Moves \subseteq Int
    /\ \A v \in Volumes : WellFormed(v) /\ Addressable(v) /\ v.size < WordSize
    /\ \A v \in Volumes, n \in Counts : v.size + n < WordSize
-----------------------------------------------------------------------------
Nothing == [op |-> "none", asked |-> 0, value |-> 0, data |-> <<>>]

Init ==
    /\ vol \in Volumes
    /\ open \in BOOLEAN
    /\ seekpos = 0
    /\ pc = "idle"
    /\ asked = 0 /\ count = 0 /\ left = 0 /\ cluster = 0 /\ i = 0 /\ offset = 0
    /\ buf = <<>>
    /\ ret = Nothing

SeekUnclipped(origin, p) ==     \* mutant: seekpos may lie past the end of the file
    /\ pc = "idle"
    /\ seekpos' = IF ~open THEN seekpos
                  ELSE CASE origin = "begin"   -> p % WordSize
                         [] origin = "current" -> (seekpos + p) % WordSize
                         [] origin = "end"     -> (vol.size + p) % WordSize
    /\ ret' = [op |-> "seek", asked |-> 0, data |-> <<>>,
               value |-> IF open THEN seekpos' ELSE 0]
    /\ UNCHANGED <<vol, open, pc, locals>>

\* fat_seek
Seek(origin, p) ==
    /\ pc = "idle"
    /\ seekpos' = IF ~open THEN seekpos
                  ELSE Lesser(vol.size,
                         CASE origin = "begin"   -> p % WordSize
                           [] origin = "current" -> (seekpos + p) % WordSize
                           [] origin = "end"     -> (vol.size + p) % WordSize)
    /\ ret' = [op |-> "seek", asked |-> 0, data |-> <<>>,
               value |-> IF open THEN seekpos' ELSE 0]
    /\ UNCHANGED <<vol, open, pc, locals>>

\* fat_read of a handle that is not open.
ReadClosed(n) ==
    /\ pc = "idle" /\ ~open
    /\ ret' = [op |-> "read", asked |-> n, value |-> 0, data |-> <<>>]
    /\ UNCHANGED <<vol, open, seekpos, pc, locals>>

\* fat_read: the count is cut to what is left of the file.
StartRead(n) ==
    /\ pc = "idle" /\ open
    /\ pc' = "walk"
    /\ asked' = n
    /\ count' = IF (seekpos + n) % WordSize > vol.size THEN vol.size - seekpos ELSE n
    /\ left' = count'
    /\ cluster' = vol.first
    /\ i' = 0
    /\ buf' = <<>>
    /\ UNCHANGED <<vol, open, seekpos, offset, ret>>

Return(n) ==
    /\ pc' = "idle"
    /\ ret' = [op |-> "read", asked |-> asked, value |-> n, data |-> buf]
    /\ UNCHANGED <<vol, open, seekpos, locals>>

\* One round of the loop that looks for the cluster at seekpos.
Walk ==
    /\ pc = "walk" /\ i < seekpos \div ClusterBytes(vol)
    /\ \/ /\ HasNext(vol, cluster)
          /\ cluster' = NextCluster(vol, cluster)
          /\ i' = i + 1
          /\ UNCHANGED <<vol, open, seekpos, pc, asked, count, left, offset, buf, ret>>
       \/ ~HasNext(vol, cluster) /\ Return(0)

EndWalk ==
    /\ pc = "walk" /\ i >= seekpos \div ClusterBytes(vol)
    /\ offset' = seekpos % ClusterBytes(vol)
    /\ pc' = "read"
    /\ UNCHANGED <<vol, open, seekpos, asked, count, left, cluster, i, buf, ret>>

AdvanceLate ==      \* mutant: not yet when the offset is the cluster's size
    /\ pc = "read" /\ left # 0 /\ offset > ClusterBytes(vol)
    /\ \/ /\ HasNext(vol, cluster)
          /\ cluster' = NextCluster(vol, cluster)
          /\ offset' = 0
          /\ UNCHANGED <<vol, open, seekpos, pc, asked, count, left, i, buf, ret>>
       \/ ~HasNext(vol, cluster) /\ Return(count - left)

\* The next cluster, when this one is used up.
Advance ==
    /\ pc = "read" /\ left # 0 /\ offset >= ClusterBytes(vol)
    /\ \/ /\ HasNext(vol, cluster)
          /\ cluster' = NextCluster(vol, cluster)
          /\ offset' = 0
          /\ UNCHANGED <<vol, open, seekpos, pc, asked, count, left, i, buf, ret>>
       \/ ~HasNext(vol, cluster) /\ Return(count - left)

\* read_disk: the bytes of the disk from offset a on.
OnDisk(a, n) == [k \in 1 .. n |-> a + k - 1]

\* As much of the rest as this cluster holds, read into the buffer behind what is there.
ReadPiece ==
    /\ pc = "read" /\ left # 0 /\ offset < ClusterBytes(vol)
    /\ LET amount == Lesser(left, ClusterBytes(vol) - offset)
       IN  /\ buf' = SubSeq(buf, 1, count - left)
                        \o OnDisk(ClusterAddress(vol, cluster, offset), amount)
           /\ offset' = offset + amount
           /\ seekpos' = seekpos + amount
           /\ left' = left - amount
    /\ UNCHANGED <<vol, open, pc, asked, count, cluster, i, ret>>

EndRead == pc = "read" /\ left = 0 /\ Return(count)

Reading == Walk \/ EndWalk \/ Advance \/ ReadPiece \/ EndRead

Next ==
    \/ \E origin \in {"begin", "current", "end"}, p \in Moves : Seek(origin, p)
    \/ \E n \in Counts : ReadClosed(n) \/ StartRead(n)
    \/ Reading

\* The caller may stop calling; a read that has begun goes on.
Spec == Init /\ [][Next]_vars /\ WF_vars(Reading)
-----------------------------------------------------------------------------
TypeOK ==
    /\ vol \in Volumes
    /\ open \in BOOLEAN
    /\ seekpos \in 0 .. vol.size
    /\ pc \in {"idle", "walk", "read"} /\ (pc # "idle" => open)
    /\ asked \in Nat /\ count \in Nat /\ left \in 0 .. count
    /\ cluster \in Nat /\ i \in Nat /\ offset \in 0 .. ClusterBytes(vol)
    /\ buf \in Seq(Int)
    /\ ret \in [op : {"none", "seek", "read"}, asked : Nat, value : Nat, data : Seq(Int)]

\* A handle behaves as a file: whatever the sizes of sectors and clusters, the width
\* of the table's entries and the fragmentation of the file, as long as the file lies
\* in the first 4 GiB of the disk (Addressable), every read returns the
\* bytes that the formatter put there, from the position where the previous call
\* left off, as many as were asked for and exist; and seeks are exact.  A read in
\* progress is at the position where it began.
Position == IF pc = "idle" THEN seekpos ELSE seekpos - (count - left)

File == INSTANCE ByteFile WITH
            bytes <- IF open THEN Content(vol) ELSE <<>>,
            size  <- IF open THEN vol.size ELSE 0,
            pos   <- IF open THEN Position ELSE 0,
            ret   <- ret

IsByteFile == File!Spec

\* Every read returns.
ReadEnds == pc # "idle" ~> pc = "idle"
=============================================================================
