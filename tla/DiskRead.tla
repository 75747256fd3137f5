------------------------------ MODULE DiskRead ------------------------------
(***************************************************************************)
(* disk::read of both architectures: a read of any bytes of the boot disk, *)
(* made of reads of whole sectors by the ROM, some of them by way of a     *)
(* buffer for one sector on the bump allocator's heap.                     *)
(***************************************************************************)
EXTENDS Regions

CONSTANTS Sector,       \* 512, the size of a sector and of the scratch buffer
          Machines,     \* see Machine
          Requests      \* offsets and sizes of reads

\* arch: the driver; room: what the heap has left; reliable: do the ROM's reads
\* of sectors that exist succeed?  disk: the disk's size.
Machine == [arch : {"m68k", "funnyarch"}, room : Nat, reliable : BOOLEAN, disk : Word]

\* No request goes past the last byte that an offset can address.
ASSUME DiskAssumption ==
    /\ Sector \in Nat \ {0}
    /\ \A m \in Machines : m \in Machine /\ m.disk % Sector = 0
    /\ \A r \in Requests : r \in [offset : Word, n : Word] /\ r.offset + r.n <= WordSize

VARIABLES machine,
          request,              \* the caller's
          offset, n,            \* disk::read's parameters, as it advances them
          at,                   \* buf, as an index into the caller's buffer
          buf,                  \* what was written to the caller's buffer
          room,                 \* what the heap has left
          scratch,              \* buf_l: the offset of the sector it holds, or GARBAGE
          pc,
          status                \* of the last call

locals == <<offset, n, at, buf, scratch>>
vars   == <<machine, request, locals, room, pc, status>>

Range == INSTANCE DiskRange WITH
            size    <- machine.disk,
            checked <- machine.arch = "m68k",
            status  <- IF pc = "idle" THEN status ELSE "reading"

GARBAGE == -1
Nothing == [i \in {} |-> GARBAGE]

Lesser(a, b) == IF a < b THEN a ELSE b

Init ==
    /\ machine \in Machines
    /\ room = machine.room
    /\ request = [offset |-> 0, n |-> 0]
    /\ offset = 0 /\ n = 0 /\ at = 0
    /\ buf = Nothing
    /\ scratch = GARBAGE
    /\ pc = "idle" /\ status = "none"

Call(r) ==
    /\ pc = "idle" /\ pc' = "called"
    /\ request' = r
    /\ offset' = r.offset /\ n' = r.n /\ at' = 0
    /\ buf' = Nothing
    /\ UNCHANGED <<machine, room, scratch, status>>

Return(s) ==
    /\ pc' = "idle"
    /\ status' = IF s THEN "read" ELSE "failed"
    /\ UNCHANGED <<machine, request>>
-----------------------------------------------------------------------------
(***************************************************************************)
(* The ROM.                                                                *)
(***************************************************************************)
\* rom::read_boot_disk of the Macintosh: reads of no sectors succeed, those that
\* do not begin with a sector or go past the disk's end do not, others may fail.
ReadBootDisk(o, blocks, ok) ==
    /\ ok \in BOOLEAN
    /\ blocks = 0 => ok
    /\ blocks > 0 /\ (o % Sector # 0 \/ o + blocks * Sector > machine.disk) => ~ok
    /\ blocks > 0 /\ ~ok =>
           o % Sector # 0 \/ o + blocks * Sector > machine.disk \/ ~machine.reliable

\* rom_disk_read_sector of funnyarch reads the sector with a number, and does not
\* tell if there is none.
SectorRead(number) ==
    IF (number + 1) * Sector <= machine.disk THEN number * Sector ELSE GARBAGE

\* Byte k of what was read from offset o; after a failure it may be anything.
Byte(o, k) == IF o = GARBAGE THEN GARBAGE ELSE o + k

StoreFromStart(o, k, count) ==      \* mutant: the bytes from the sector's beginning
    buf' = [j \in DOMAIN buf \cup at .. at + count - 1 |->
                IF j \in at .. at + count - 1 THEN Byte(o, j - at) ELSE buf[j]]

\* count bytes, from index k of what was read at o, go to the caller's buffer.
Store(o, k, count) ==
    buf' = [j \in DOMAIN buf \cup at .. at + count - 1 |->
                IF j \in at .. at + count - 1 THEN Byte(o, k + (j - at)) ELSE buf[j]]

AdvanceBy(count) ==
    /\ n' = n - count
    /\ offset' = WAdd(offset, count)
    /\ at' = at + count
-----------------------------------------------------------------------------
OutOfMemory ==
    /\ room < Sector
    /\ Return(FALSE)
    /\ UNCHANGED <<locals, room>>

\* bump_malloc(512)
TakeScratch(next) ==
    /\ room >= Sector
    /\ room' = room - Sector
    /\ scratch' = GARBAGE
    /\ pc' = next
    /\ UNCHANGED <<machine, request, offset, n, at, buf, status>>

\* bump_dealloc(512)
DropScratch == room' = room + Sector

GiveUpKeeping == Return(FALSE) /\ UNCHANGED room   \* mutant: an early return keeps the heap

\* Returning false after a failed read.
GiveUp == DropScratch /\ Return(FALSE)

MacStart ==
    /\ pc = "called" /\ machine.arch = "m68k"
    /\ OutOfMemory \/ TakeScratch(IF offset % Sector = 0 THEN "sectors" ELSE "pieces")

WholeRoundedUp == (n + (Sector - 1)) \div Sector    \* mutant: also the one that is needed in part

Whole == n \div Sector

\* All whole sectors at once, from the beginning of a sector.
MacSectors ==
    /\ pc = "sectors" /\ machine.arch = "m68k"
    /\ \/ /\ ReadBootDisk(offset, Whole, TRUE)
          /\ Store(offset, 0, Whole * Sector) /\ AdvanceBy(Whole * Sector)
          /\ pc' = "last"
          /\ UNCHANGED <<machine, request, room, scratch, status>>
       \/ /\ ReadBootDisk(offset, Whole, FALSE)
          /\ Store(GARBAGE, 0, Whole * Sector)
          /\ GiveUp
          /\ UNCHANGED <<offset, n, at, scratch>>

\* Another sector for the rest, also if there is none, and whatever comes of it.
MacLast ==
    /\ pc = "last"
    /\ \E ok \in BOOLEAN :
           /\ ReadBootDisk(offset, 1, ok)
           /\ scratch' = IF ok THEN offset ELSE GARBAGE
           /\ Return(ok)
    /\ Store(scratch', 0, n)
    /\ DropScratch
    /\ UNCHANGED <<offset, n, at>>
-----------------------------------------------------------------------------
FunnyarchStart ==
    /\ pc = "called" /\ machine.arch = "funnyarch"
    /\ \/ /\ offset % Sector = 0 /\ n % Sector = 0
          /\ pc' = "sectors"
          /\ UNCHANGED <<machine, request, locals, room, status>>
       \/ /\ ~(offset % Sector = 0 /\ n % Sector = 0)
          /\ OutOfMemory \/ TakeScratch("pieces")

\* The loop over whole sectors, for which n counts down the bytes of sectors.
FunnyarchSector ==
    /\ pc = "sectors" /\ machine.arch = "funnyarch" /\ n > 0
    /\ Store(SectorRead(offset \div Sector), 0, Sector) /\ AdvanceBy(Sector)
    /\ UNCHANGED <<machine, request, room, scratch, pc, status>>

FunnyarchEnd ==
    /\ pc = "sectors" /\ machine.arch = "funnyarch" /\ n = 0
    /\ Return(TRUE)
    /\ UNCHANGED <<locals, room>>
-----------------------------------------------------------------------------
StartUnaligned == offset    \* mutant: the sector is asked for by the offset in it

\* offset - boff
Start == offset - (offset % Sector)

InSectorShort == Lesser(n, Sector - 1 - (offset % Sector))  \* mutant: not its last byte

\* The part of the rest that lies in the sector where the rest begins.
InSector == Lesser(n, Sector - (offset % Sector))

\* The loop over the parts of a read that begins inside a sector, or on funnyarch
\* also of one that only ends inside a sector.
Piece ==
    /\ pc = "pieces" /\ n # 0
    /\ \/ /\ machine.arch = "m68k" => ReadBootDisk(Start, 1, TRUE)
          /\ scratch' = IF machine.arch = "m68k" THEN Start ELSE SectorRead(Start \div Sector)
          /\ Store(scratch', offset - Start, InSector) /\ AdvanceBy(InSector)
          /\ UNCHANGED <<machine, request, room, pc, status>>
       \/ /\ machine.arch = "m68k" /\ ReadBootDisk(Start, 1, FALSE)
          /\ scratch' = GARBAGE
          /\ GiveUp
          /\ UNCHANGED <<offset, n, at, buf>>

PiecesEnd ==
    /\ pc = "pieces" /\ n = 0
    /\ DropScratch /\ Return(TRUE)
    /\ UNCHANGED locals

Reading == \/ MacStart \/ MacSectors \/ MacLast
           \/ FunnyarchStart \/ FunnyarchSector \/ FunnyarchEnd
           \/ Piece \/ PiecesEnd

Next == (\E r \in Requests : Call(r)) \/ Reading

\* The caller may stop calling; a read that has begun goes on.
Spec == Init /\ [][Next]_vars /\ WF_vars(Reading)
-----------------------------------------------------------------------------
TypeOK ==
    /\ machine \in Machines
    /\ request \in [offset : Word, n : Word]
    /\ offset \in Word /\ n \in 0 .. request.n /\ at = request.n - n
    /\ room \in Nat
    /\ scratch \in {GARBAGE} \cup Word
    /\ DOMAIN buf \subseteq 0 .. request.n - 1
    /\ pc \in {"idle", "called", "sectors", "last", "pieces"}
    /\ status \in {"none", "read", "failed"}

\* A read is what the FAT driver takes it for: whether it begins and ends with a
\* sector or not, the caller's buffer gets the bytes from the offset on, no byte
\* past the buffer's end is touched, and on the Macintosh a read that touches a
\* sector that does not exist is reported as failed.
IsDiskRange == Range!Spec

\* Every path through a read gives back the heap that it took.
HeapReturned ==
    room = machine.room - (IF pc = "last" \/ pc = "pieces"
                              \/ (pc = "sectors" /\ machine.arch = "m68k") THEN Sector ELSE 0)

\* The end of the sectors that a read of the Macintosh asks for.  A read that
\* begins with a sector asks for one more than it has whole sectors, even if
\* nothing of it is needed.
Touched ==
    IF request.offset % Sector = 0
    THEN request.offset + (request.n \div Sector + 1) * Sector
    ELSE ((request.offset + request.n + Sector - 1) \div Sector) * Sector

\* A read does not fail without a reason: the heap lacks the scratch buffer, the
\* ROM fails, or a sector that is asked for lies past the disk's end.
FailsForReason ==
    pc = "idle" /\ status = "failed" =>
        \/ machine.room < Sector
        \/ machine.arch = "m68k" /\ (~machine.reliable \/ Touched > machine.disk)

\* Every read returns.
ReadEnds == pc # "idle" ~> pc = "idle"
=============================================================================
