--------------------------- MODULE DiskReadProofs ---------------------------
(***************************************************************************)
(* disk::read puts the right bytes into the caller's buffer and nothing    *)
(* elsewhere, gives back the heap, and fails only for a reason, for every  *)
(* size of sectors, every disk and every request.                          *)
(***************************************************************************)
EXTENDS DiskRead, TLAPS

\* Multiplication keeps the order.
LEMMA Times ==
    ASSUME NEW a \in Nat, NEW b \in Nat, NEW d \in Nat
    PROVE  (a <= b => a * d <= b * d) /\ (a < b => a * d + d <= b * d)
    BY SMT

\* Quotient and remainder.
LEMMA DivMod ==
    ASSUME NEW x \in Nat, NEW d \in Nat \ {0}
    PROVE  /\ x \div d \in Nat /\ x % d \in 0 .. d - 1
           /\ x = (x \div d) * d + (x % d)
    BY SMT

\* They are unique.
LEMMA DivUnique ==
    ASSUME NEW m \in Nat, NEW d \in Nat \ {0}, NEW r \in 0 .. d - 1
    PROVE  (m * d + r) \div d = m /\ (m * d + r) % d = r
    BY SMT

Multiple(x, d) == \E q \in Nat : x = q * d

\* The multiples of a number are those that it divides.
LEMMA MultipleMod ==
    ASSUME NEW x \in Nat, NEW d \in Nat \ {0}
    PROVE  x % d = 0 <=> Multiple(x, d)
<1>1. ASSUME x % d = 0 PROVE Multiple(x, d)
    <2>1. x = (x \div d) * d /\ x \div d \in Nat
        BY <1>1, DivMod
    <2> QED BY <2>1 DEF Multiple
<1>2. ASSUME NEW q \in Nat, x = q * d PROVE x % d = 0
    <2>1. (q * d + 0) % d = 0
        BY DivUnique
    <2>2. q * d + 0 = x
        BY <1>2
    <2> QED BY <2>1, <2>2
<1> QED BY <1>1, <1>2 DEF Multiple

\* Products are multiples, and so is what is left of a number without its remainder.
LEMMA MultipleOf ==
    ASSUME NEW x \in Nat, NEW d \in Nat \ {0}
    PROVE  /\ Multiple(x * d, d) /\ x * d \in Nat
           /\ Multiple(x - (x % d), d) /\ x - (x % d) \in Nat
<1>1. x - (x % d) = (x \div d) * d /\ x \div d \in Nat
    BY DivMod
<1>2. \A a \in Nat : a * d \in Nat
    BY SMT
<1> QED BY <1>1, <1>2 DEF Multiple

\* A number is a multiple of itself.
LEMMA MultipleOfItself == ASSUME NEW d \in Nat \ {0} PROVE Multiple(d, d)
<1>1. d = 1 * d
    OBVIOUS
<1> QED BY <1>1 DEF Multiple

\* Sums and differences of multiples are multiples.
LEMMA MultipleSum ==
    ASSUME NEW x \in Nat, NEW y \in Nat, NEW d \in Nat \ {0}, Multiple(x, d), Multiple(y, d)
    PROVE  Multiple(x + y, d) /\ (y <= x => Multiple(x - y, d))
<1>1. PICK p \in Nat, q \in Nat : x = p * d /\ y = q * d
    BY DEF Multiple
<1>2. x + y = (p + q) * d /\ p + q \in Nat
    BY <1>1, SMT
<1>3. ASSUME y <= x PROVE p - q \in Nat /\ x - y = (p - q) * d
    <2>1. ~(p < q)
        BY <1>1, <1>3, Times, SMT
    <2> QED BY <1>1, <2>1, SMT
<1> QED BY <1>2, <1>3 DEF Multiple

\* Two multiples are equal or a whole step apart.
LEMMA MultipleStep ==
    ASSUME NEW x \in Nat, NEW y \in Nat, NEW d \in Nat \ {0}, Multiple(x, d), Multiple(y, d), x < y
    PROVE  x + d <= y
<1>1. PICK p \in Nat, q \in Nat : x = p * d /\ y = q * d
    BY DEF Multiple
<1>2. p < q
    BY <1>1, Times, SMT
<1> QED BY <1>1, <1>2, Times

\* The first m bytes of the request, as the disk has them.
Content(m) == [k \in 0 .. m - 1 |-> Range!DiskByte(request.offset + k)]

Mac == machine.arch = "m68k"

IsMultiple(x) == Multiple(x, Sector)

RequestFits == request.offset + request.n <= WordSize

\* While a read goes on, the buffer holds the bytes up to where offset is.
Progress ==
    pc # "idle" =>
        /\ buf = Content(at)
        /\ n > 0 => offset = request.offset + at
        /\ Mac => at = 0 \/ request.offset + at <= machine.disk

\* What is known at the places of the two functions.
Places ==
    /\ pc = "called" \/ (pc = "sectors" /\ Mac) => at = 0 /\ offset = request.offset
    /\ pc = "sectors" => IsMultiple(offset)
    /\ pc = "sectors" /\ ~Mac => IsMultiple(n)
    /\ pc = "last" =>
           /\ Mac /\ IsMultiple(request.offset)
           /\ at = (request.n \div Sector) * Sector /\ n < Sector
           /\ offset = WAdd(request.offset, at)
    /\ pc = "pieces" /\ Mac => ~IsMultiple(request.offset)

\* What a read that succeeded has done.
ReadRight ==
    pc = "idle" /\ status = "read" =>
        /\ buf = Content(request.n)
        /\ Mac => request.n = 0 \/ request.offset + request.n <= machine.disk

IInv == /\ TypeOK /\ RequestFits /\ HeapReturned
        /\ Progress /\ Places /\ ReadRight /\ FailsForReason
-----------------------------------------------------------------------------
\* The types of what a step uses.
LEMMA Types ==
    ASSUME TypeOK
    PROVE  /\ Sector \in Nat \ {0} /\ WordSize \in Nat \ {0, 1}
           /\ request.offset \in Nat /\ request.n \in Nat /\ request.offset < WordSize
           /\ offset \in Nat /\ offset < WordSize /\ n \in Nat /\ at \in Nat
           /\ n <= request.n /\ at = request.n - n
           /\ machine \in Machines /\ machine.disk \in Nat /\ machine.disk < WordSize
           /\ machine.arch \in {"m68k", "funnyarch"} /\ machine.room \in Nat
           /\ IsMultiple(machine.disk) /\ IsMultiple(0)
<1>1. machine \in Machine /\ machine.disk % Sector = 0 /\ Sector \in Nat \ {0}
    BY DiskAssumption DEF TypeOK
<1>2. WordSize \in Nat \ {0, 1}
    BY WordSizeAssumption
<1>3. machine.disk \in Nat
    BY <1>1, <1>2 DEF Machine, Word
<1>4. IsMultiple(machine.disk)
    BY <1>1, <1>3, MultipleMod DEF IsMultiple
<1>5. IsMultiple(0)
    <2>1. 0 * Sector = 0
        BY <1>1
    <2> QED BY <2>1 DEF IsMultiple, Multiple
<1> QED BY <1>1, <1>2, <1>3, <1>4, <1>5 DEF TypeOK, Machine, Word

\* Advancing keeps the offset where the next byte of the request is.
LEMMA Advanced ==
    ASSUME TypeOK, RequestFits, pc # "idle", n > 0 => offset = request.offset + at,
           NEW c \in Nat, c <= n, c > 0
    PROVE  /\ WAdd(offset, c) \in Word
           /\ n - c > 0 => WAdd(offset, c) = request.offset + (at + c)
           /\ n - c \in 0 .. request.n /\ at + c = request.n - (n - c)
<1>1. offset = request.offset + at
    BY Types
<1>2. offset + c = request.offset + (at + c) /\ offset + c <= WordSize
    BY <1>1, Types DEF RequestFits
<1> QED BY <1>1, <1>2, Types DEF WAdd, Word, RequestFits

\* Bytes of the disk stored behind those that are in the buffer.
LEMMA Stored ==
    ASSUME TypeOK, NEW m \in Nat, at = m, buf = Content(m), NEW o, NEW k, NEW c \in Nat, Store(o, k, c),
           \A j \in m .. m + c - 1 : Byte(o, k + (j - m)) = Range!DiskByte(request.offset + j)
    PROVE  buf' = Content(m + c)
<1>1. DOMAIN buf = 0 .. m - 1
    BY DEF Content
<1>2. 0 .. m - 1 \cup m .. m + c - 1 = 0 .. m + c - 1
    BY SMT
<1>3. buf' = [j \in 0 .. m + c - 1 |->
                IF j \in m .. m + c - 1 THEN Byte(o, k + (j - m)) ELSE buf[j]]
    BY <1>1, <1>2 DEF Store
<1>4. ASSUME NEW j \in 0 .. m + c - 1
      PROVE  (IF j \in m .. m + c - 1 THEN Byte(o, k + (j - m)) ELSE buf[j])
                 = Range!DiskByte(request.offset + j)
    <2>1. CASE j \in m .. m + c - 1
        BY <2>1
    <2>2. CASE ~(j \in m .. m + c - 1)
        <3>1. j \in 0 .. m - 1
            BY <2>2
        <3> QED BY <2>2, <3>1 DEF Content
    <2> QED BY <2>1, <2>2
<1> QED BY <1>3, <1>4 DEF Content

\* The indices that are written.
LEMMA StoredDomain ==
    ASSUME TypeOK, NEW c \in Nat, c <= n, NEW o, NEW k, Store(o, k, c)
    PROVE  DOMAIN buf' \subseteq 0 .. request.n - 1
<1>1. DOMAIN buf' = DOMAIN buf \cup at .. at + c - 1
    BY DEF Store
<1>2. at .. at + c - 1 \subseteq 0 .. request.n - 1
    BY Types
<1> QED BY <1>1, <1>2 DEF TypeOK
-----------------------------------------------------------------------------
\* The invariant holds at the beginning.
LEMMA IInvInit == Init => IInv
<1> SUFFICES ASSUME Init PROVE IInv
    OBVIOUS
<1>1. machine.room \in Nat
    BY DiskAssumption DEF Init, Machine
<1>2. 0 \in Word
    BY WordSizeAssumption DEF Word
<1>3. TypeOK
    BY <1>1, <1>2, WordSizeAssumption DEF TypeOK, Init, Nothing
<1>4. RequestFits
    BY WordSizeAssumption DEF Init, RequestFits
<1>5. HeapReturned
    BY <1>1 DEF Init, HeapReturned
<1> QED BY <1>3, <1>4, <1>5 DEF IInv, Init, Progress, Places, ReadRight, FailsForReason

\* A call.
LEMMA CallStep == ASSUME IInv, NEW r \in Requests, Call(r) PROVE IInv'
<1>1. r \in [offset : Word, n : Word] /\ r.offset + r.n <= WordSize
    BY DiskAssumption
<1>2. r.n \in Nat /\ r.offset \in Nat
    BY <1>1, WordSizeAssumption DEF Word
<1>3. TypeOK'
    BY <1>1, <1>2 DEF IInv, TypeOK, Call, Nothing, Word
<1>4. buf' = Content(at)'
    BY DEF Call, Nothing, Content
<1>5. Progress'
    BY <1>2, <1>4 DEF Progress, Call, Mac
<1>6. Places'
    BY DEF Places, Call
<1> QED BY <1>1, <1>3, <1>5, <1>6 DEF IInv, Call, RequestFits, HeapReturned, ReadRight, FailsForReason

\* A read that fails for want of heap.
LEMMA OutOfMemoryStep == ASSUME IInv, pc = "called", OutOfMemory PROVE IInv'
<1>1. TypeOK' /\ RequestFits' /\ HeapReturned'
    BY DEF IInv, OutOfMemory, Return, TypeOK, RequestFits, HeapReturned, locals
<1>2. pc' = "idle" /\ status' = "failed" /\ machine' = machine /\ room < Sector
    BY DEF OutOfMemory, Return
<1>3. machine.room = room
    BY Types DEF IInv, HeapReturned
<1> QED BY <1>1, <1>2, <1>3 DEF IInv, Progress, Places, ReadRight, FailsForReason

\* The scratch buffer is taken.
LEMMA TakeStep ==
    ASSUME IInv, pc = "called", NEW next \in {"sectors", "pieces"}, TakeScratch(next),
           next = "sectors" => Mac /\ IsMultiple(offset),
           next = "pieces" /\ Mac => ~IsMultiple(offset)
    PROVE  IInv'
<1>1. TypeOK'
    BY Types DEF IInv, TypeOK, TakeScratch
<1>2. RequestFits' /\ FailsForReason' /\ ReadRight'
    BY DEF IInv, TakeScratch, RequestFits, FailsForReason, ReadRight
<1>3. HeapReturned'
    BY Types DEF IInv, TakeScratch, HeapReturned, Mac, TypeOK
<1>4. Progress'
    BY DEF IInv, TakeScratch, Progress, Content, Range!DiskByte, Mac
<1>5. Places'
    BY DEF IInv, TakeScratch, Places, Mac, IsMultiple
<1> QED BY <1>1, <1>2, <1>3, <1>4, <1>5 DEF IInv

\* Entry into the driver of the Macintosh.
LEMMA MacStartStep == ASSUME IInv, MacStart PROVE IInv'
<1>1. CASE OutOfMemory
    BY <1>1, OutOfMemoryStep DEF MacStart
<1>2. CASE TakeScratch(IF offset % Sector = 0 THEN "sectors" ELSE "pieces")
    <2>1. offset % Sector = 0 <=> IsMultiple(offset)
        BY Types, MultipleMod DEF IInv, IsMultiple
    <2>2. Mac /\ pc = "called"
        BY DEF MacStart, Mac
    <2>3. CASE offset % Sector = 0
        BY <1>2, <2>1, <2>2, <2>3, TakeStep
    <2>4. CASE offset % Sector # 0
        BY <1>2, <2>1, <2>2, <2>4, TakeStep
    <2> QED BY <2>3, <2>4
<1> QED BY <1>1, <1>2 DEF MacStart

\* Entry into the driver of funnyarch.
LEMMA FunnyarchStartStep == ASSUME IInv, FunnyarchStart PROVE IInv'
<1>1. ~Mac /\ pc = "called"
    BY DEF FunnyarchStart, Mac
<1>2. CASE OutOfMemory
    BY <1>1, <1>2, OutOfMemoryStep
<1>3. CASE TakeScratch("pieces")
    BY <1>1, <1>3, TakeStep
<1>4. CASE /\ offset % Sector = 0 /\ n % Sector = 0 /\ pc' = "sectors"
           /\ UNCHANGED <<machine, request, locals, room, status>>
    <2>1. IsMultiple(offset) /\ IsMultiple(n)
        BY <1>4, Types, MultipleMod DEF IInv, IsMultiple
    <2>2. TypeOK' /\ RequestFits' /\ FailsForReason' /\ ReadRight'
        BY <1>4 DEF IInv, TypeOK, RequestFits, FailsForReason, ReadRight, locals
    <2>3. HeapReturned'
        BY <1>1, <1>4 DEF IInv, HeapReturned, Mac
    <2>4. Progress'
        BY <1>1, <1>4 DEF IInv, Progress, Content, Range!DiskByte, Mac, locals
    <2>5. Places'
        BY <1>1, <1>4, <2>1 DEF Places, Mac, locals, IsMultiple
    <2> QED BY <2>2, <2>3, <2>4, <2>5 DEF IInv
<1> QED BY <1>2, <1>3, <1>4 DEF FunnyarchStart
-----------------------------------------------------------------------------
\* Why a read may fail.
Reason == machine.room < Sector \/ (Mac /\ (~machine.reliable \/ Touched > machine.disk))

\* Does the read hold the scratch buffer?
Holds == pc = "last" \/ pc = "pieces" \/ (pc = "sectors" /\ Mac)

\* What is given back is what was taken.
LEMMA Dropped == ASSUME IInv, Holds, DropScratch PROVE room' = machine.room /\ room' \in Nat
    BY Types DEF IInv, HeapReturned, Holds, DropScratch, Mac, TypeOK

\* The end of what is asked for is a number.
LEMMA TouchedType == ASSUME TypeOK PROVE Touched \in Int
<1>1. \A q \in Int, d \in Nat : q * d \in Int
    BY SMT
<1>2. request.n \div Sector \in Nat /\ (request.offset + request.n + Sector - 1) \div Sector \in Int
    BY Types, SMT
<1>3. ((request.n \div Sector) + 1) * Sector \in Int
      /\ ((request.offset + request.n + Sector - 1) \div Sector) * Sector \in Int
    BY <1>1, <1>2, Types
<1> QED BY <1>3, Types DEF Touched

\* A read ends early.
LEMMA GiveUpStep ==
    ASSUME IInv, Holds, GiveUp, Reason, UNCHANGED <<offset, n, at>>,
           scratch' \in {GARBAGE} \cup Word, DOMAIN buf' \subseteq 0 .. request.n - 1
    PROVE  IInv'
<1>1. room' = machine.room /\ room' \in Nat
    BY Dropped DEF GiveUp
<1>2. pc' = "idle" /\ status' = "failed" /\ machine' = machine /\ request' = request
    BY DEF GiveUp, Return
<1>3. TypeOK'
    BY <1>1, <1>2 DEF IInv, TypeOK
<1>4. HeapReturned'
    BY <1>1, <1>2, Types DEF IInv, HeapReturned
<1>5. FailsForReason'
    BY <1>2 DEF Reason, FailsForReason, Mac, Touched
<1> QED BY <1>2, <1>3, <1>4, <1>5 DEF IInv, RequestFits, Progress, Places, ReadRight

\* A read that has everything ends.
LEMMA ReturnTrueStep ==
    ASSUME IInv, pc # "idle", Return(TRUE), UNCHANGED <<offset, n, at>>, buf' = Content(request.n),
           scratch' \in {GARBAGE} \cup Word, room' = machine.room, room' \in Nat,
           Mac => request.n = 0 \/ request.offset + request.n <= machine.disk
    PROVE  IInv'
<1>1. pc' = "idle" /\ status' = "read" /\ machine' = machine /\ request' = request
    BY DEF Return
<1>2. TypeOK'
    BY <1>1 DEF IInv, TypeOK, Content
<1>3. HeapReturned'
    BY <1>1, Types DEF IInv, HeapReturned
<1>4. Content(request.n)' = Content(request.n)
    BY <1>1 DEF Content, Range!DiskByte
<1>5. ReadRight'
    BY <1>1, <1>4 DEF ReadRight, Mac, Content, Range!DiskByte
<1> QED BY <1>1, <1>2, <1>3, <1>5 DEF IInv, RequestFits, Progress, Places, FailsForReason

\* The whole sectors, and how many bytes they are.
LEMMA WholeFacts ==
    ASSUME TypeOK
    PROVE  /\ Whole \in Nat /\ Whole * Sector \in Nat /\ Whole * Sector <= n
           /\ n - Whole * Sector < Sector /\ IsMultiple(Whole * Sector)
           /\ Whole > 0 <=> Whole * Sector > 0
           /\ (Whole + 1) * Sector = Whole * Sector + Sector
<1>1. Whole \in Nat /\ n % Sector \in 0 .. Sector - 1 /\ n = Whole * Sector + (n % Sector)
    BY Types, DivMod DEF Whole
<1>2. Whole * Sector \in Nat /\ IsMultiple(Whole * Sector)
    BY <1>1, Types, MultipleOf DEF IsMultiple
<1>3. ASSUME NEW w \in Nat, NEW s \in Nat \ {0} PROVE (w > 0 <=> w * s > 0) /\ (w + 1) * s = w * s + s
    BY SMT
<1>4. (Whole > 0 <=> Whole * Sector > 0) /\ (Whole + 1) * Sector = Whole * Sector + Sector
    BY <1>1, <1>3, Types
<1> QED BY <1>1, <1>2, <1>4, Types

\* All whole sectors are read at once.
LEMMA MacSectorsStep == ASSUME IInv, MacSectors PROVE IInv'
<1> DEFINE w == Whole * Sector
<1>1. Mac /\ pc = "sectors" /\ at = 0 /\ offset = request.offset /\ n = request.n /\ IsMultiple(offset)
    BY Types DEF MacSectors, Mac, IInv, Places
<1>2. Whole \in Nat /\ w \in Nat /\ w <= n /\ n - w < Sector /\ (Whole > 0 <=> w > 0)
    BY WholeFacts DEF IInv
<1>3. TypeOK /\ RequestFits /\ buf = Content(0)
    BY <1>1 DEF IInv, Progress
<1>4. offset % Sector = 0
    BY <1>1, <1>3, Types, MultipleMod DEF IsMultiple
<1>5. CASE /\ ReadBootDisk(offset, Whole, TRUE)
           /\ Store(offset, 0, w) /\ AdvanceBy(w)
           /\ pc' = "last"
           /\ UNCHANGED <<machine, request, room, scratch, status>>
    <2>1. w = 0 \/ offset + w <= machine.disk
        <3>1. Whole > 0 => ~(offset + w > machine.disk)
            BY <1>5 DEF ReadBootDisk
        <3> HIDE DEF w
        <3> QED BY <1>2, <1>3, <3>1, Types
    <2>2. \A j \in 0 .. w - 1 : Byte(offset, 0 + (j - 0)) = Range!DiskByte(request.offset + j)
        BY <1>1, <1>2, <1>3, <2>1, Types DEF Byte, Range!DiskByte, GARBAGE
    <2>3. Store(offset, 0, w)
        BY <1>5
    <2> HIDE DEF w
    <2>4. 0 + w = w
        BY <1>2
    <2>5. buf' = Content(w)
        <3>1. buf' = Content(0 + w)
            BY <1>1, <1>2, <1>3, <2>2, <2>3, Stored
        <3> QED BY <3>1, <2>4
    <2>6. n' = n - w /\ offset' = WAdd(offset, w) /\ at' = w
        BY <1>1, <1>2, <1>5 DEF AdvanceBy
    <2>7. WAdd(offset, w) \in Word /\ (n - w > 0 => WAdd(offset, w) = request.offset + w)
        <3>1. offset + w <= WordSize
            BY <1>1, <1>2, <1>3, Types DEF RequestFits
        <3>2. n - w > 0 => offset + w < WordSize
            BY <1>1, <1>2, <1>3, Types DEF RequestFits
        <3> QED BY <1>1, <1>2, <1>3, <3>1, <3>2, Types DEF WAdd, Word
    <2>8. TypeOK'
        <3>1. n' \in 0 .. request.n /\ at' = request.n - n'
            BY <1>1, <1>2, <1>3, <2>6, Types
        <3>2. DOMAIN buf' \subseteq 0 .. request.n - 1
            BY <1>1, <1>2, <1>3, <2>5, Types DEF Content
        <3> QED BY <1>3, <1>5, <2>6, <2>7, <3>1, <3>2 DEF TypeOK
    <2>9. RequestFits' /\ ReadRight' /\ FailsForReason'
        BY <1>3, <1>5 DEF RequestFits, ReadRight, FailsForReason
    <2>10. HeapReturned'
        BY <1>1, <1>5 DEF IInv, HeapReturned, Mac
    <2>11. Progress'
        <3>2. n' > 0 => offset' = request.offset + at'
            BY <2>6, <2>7
        <3> QED BY <1>1, <1>5, <2>1, <2>5, <2>6, <3>2 DEF Progress, Mac, Content, Range!DiskByte
    <2>12. Places'
        <3>1. w = (request.n \div Sector) * Sector
            BY <1>1 DEF w, Whole
        <3>2. n' < Sector
            BY <1>2, <2>6
        <3>3. offset' = WAdd(request.offset, at')
            BY <1>1, <2>6
        <3> QED BY <1>1, <1>5, <2>6, <3>1, <3>2, <3>3 DEF Places, Mac, IsMultiple
    <2> QED BY <2>8, <2>9, <2>10, <2>11, <2>12 DEF IInv
<1>6. CASE /\ ReadBootDisk(offset, Whole, FALSE)
           /\ Store(GARBAGE, 0, w)
           /\ GiveUp
           /\ UNCHANGED <<offset, n, at, scratch>>
    <2>1. offset + w > machine.disk \/ ~machine.reliable
        BY <1>2, <1>4, <1>6 DEF ReadBootDisk
    <2>2. Touched = offset + (w + Sector)
        BY <1>1, <1>3, <1>4, WholeFacts DEF Touched, Whole
    <2>3. Reason
        BY <1>1, <1>2, <1>3, <2>1, <2>2, Types DEF Reason
    <2>4. DOMAIN buf' \subseteq 0 .. request.n - 1
        BY <1>2, <1>3, <1>6, StoredDomain
    <2>5. scratch' \in {GARBAGE} \cup Word
        BY <1>3, <1>6 DEF TypeOK
    <2> QED BY <1>1, <1>6, <2>3, <2>4, <2>5, GiveUpStep DEF Holds
<1> QED BY <1>5, <1>6 DEF MacSectors

\* What is read for the last part.
LEMMA MacLastStep == ASSUME IInv, MacLast PROVE IInv'
<1>1. Mac /\ pc = "last" /\ at = (request.n \div Sector) * Sector /\ n < Sector
      /\ IsMultiple(request.offset) /\ offset = WAdd(request.offset, at)
    BY DEF MacLast, IInv, Places
<1>2. TypeOK /\ RequestFits /\ buf = Content(at) /\ (n > 0 => offset = request.offset + at)
      /\ (at = 0 \/ request.offset + at <= machine.disk)
    BY <1>1 DEF IInv, Progress
<1>3. PICK ok \in BOOLEAN : /\ ReadBootDisk(offset, 1, ok)
                            /\ scratch' = IF ok THEN offset ELSE GARBAGE
                            /\ Return(ok)
    BY DEF MacLast
<1>4. Store(scratch', 0, n) /\ DropScratch /\ UNCHANGED <<offset, n, at>>
    BY DEF MacLast
<1>5. room' = machine.room /\ room' \in Nat
    BY <1>1, <1>4, Dropped DEF Holds
<1>6. scratch' \in {GARBAGE} \cup Word
    BY <1>2, <1>3 DEF TypeOK
<1>7. at + n = request.n
    BY <1>2, Types
<1>8. CASE ok
    <2>1. offset + Sector <= machine.disk
        BY <1>2, <1>3, <1>8, Types DEF ReadBootDisk
    <2>2. \A j \in at .. at + n - 1 : Byte(scratch', 0 + (j - at)) = Range!DiskByte(request.offset + j)
        <3> SUFFICES ASSUME NEW j \in at .. at + n - 1
                     PROVE  Byte(scratch', 0 + (j - at)) = Range!DiskByte(request.offset + j)
            OBVIOUS
        <3>1. scratch' = request.offset + at /\ request.offset + j < machine.disk
            BY <1>1, <1>2, <1>3, <1>8, <2>1, Types
        <3> QED BY <1>2, <3>1, Types DEF Byte, Range!DiskByte, GARBAGE
    <2>3. buf' = Content(request.n)
        <3>1. buf' = Content(at + n)
            BY <1>2, <1>4, <2>2, Types, Stored
        <3> QED BY <1>7, <3>1
    <2>4. request.n = 0 \/ request.offset + request.n <= machine.disk
        <3>1. CASE n = 0
            BY <1>2, <1>7, <3>1, Types
        <3>2. CASE n > 0
            <4>1. (request.offset + at) + Sector <= machine.disk
                BY <1>2, <2>1, <3>2
            <4>2. n < Sector
                BY <1>1
            <4> QED BY <1>2, <1>7, <4>1, <4>2, Types
        <3> QED BY <1>2, <3>1, <3>2, Types
    <2> QED BY <1>1, <1>3, <1>4, <1>5, <1>6, <1>8, <2>3, <2>4, ReturnTrueStep
<1>9. CASE ~ok
    <2>1. offset % Sector # 0 \/ offset + Sector > machine.disk \/ ~machine.reliable
        BY <1>2, <1>3, <1>9, Types DEF ReadBootDisk
    <2>2. at \in Nat /\ IsMultiple(at) /\ request.offset + at <= WordSize
        <3>1. request.n \div Sector \in Nat
            BY <1>2, Types, DivMod
        <3>2. at \in Nat /\ IsMultiple(at)
            BY <1>1, <1>2, <3>1, Types, MultipleOf DEF IsMultiple
        <3>3. request.offset + at <= WordSize
            BY <1>2, <1>7, Types DEF RequestFits
        <3> QED BY <3>2, <3>3
    <2>3. IsMultiple(request.offset + at)
        BY <1>1, <1>2, <2>2, Types, MultipleSum DEF IsMultiple
    <2>4. offset = request.offset + at \/ (offset = 0 /\ request.offset + at = WordSize)
        BY <1>1, <1>2, <2>2, Types DEF WAdd
    <2>5. offset % Sector = 0
        BY <1>2, <2>3, <2>4, Types, MultipleMod DEF IsMultiple
    <2>6. Touched = request.offset + (at + Sector)
        <3>1. request.offset % Sector = 0
            BY <1>1, <1>2, Types, MultipleMod DEF IsMultiple
        <3>2. request.n \div Sector \in Nat
            BY <1>2, Types, DivMod
        <3>3. \A q \in Nat, d \in Nat \ {0} : (q + 1) * d = q * d + d
            BY SMT
        <3> QED BY <1>1, <1>2, <3>1, <3>2, <3>3, Types DEF Touched
    <2>7. Reason
        <3>1. offset + Sector > machine.disk \/ ~machine.reliable
            BY <2>1, <2>5
        <3>2. offset + Sector > machine.disk => Touched > machine.disk
            BY <1>2, <2>2, <2>4, <2>6, Types
        <3> QED BY <1>1, <3>1, <3>2 DEF Reason
    <2>8. DOMAIN buf' \subseteq 0 .. request.n - 1
        BY <1>2, <1>4, Types, StoredDomain
    <2>9. GiveUp
        <3>1. Return(FALSE)
            BY <1>3, <1>9
        <3> QED BY <1>4, <3>1 DEF GiveUp
    <2> QED BY <1>1, <1>4, <1>6, <2>7, <2>8, <2>9, GiveUpStep DEF Holds
<1> QED BY <1>8, <1>9

\* The sector with the number that belongs to a multiple.
LEMMA SectorReadAt ==
    ASSUME TypeOK, NEW o \in Nat, IsMultiple(o)
    PROVE  SectorRead(o \div Sector) = IF o + Sector <= machine.disk THEN o ELSE GARBAGE
<1>1. o % Sector = 0 /\ o = (o \div Sector) * Sector + (o % Sector) /\ o \div Sector \in Nat
    BY Types, MultipleMod, DivMod DEF IsMultiple
<1>2. (o \div Sector) * Sector = o
    BY <1>1, Types
<1>3. \A q \in Nat, d \in Nat \ {0} : (q + 1) * d = q * d + d
    BY SMT
<1>4. ((o \div Sector) + 1) * Sector = o + Sector
    BY <1>1, <1>2, <1>3, Types
<1> QED BY <1>2, <1>4 DEF SectorRead

\* The bytes of a sector that is read, or of one that is not there.
LEMMA SectorBytes ==
    ASSUME TypeOK, NEW o \in Nat, IsMultiple(o), NEW k \in 0 .. Sector - 1,
           NEW s, s = IF o + Sector <= machine.disk THEN o ELSE GARBAGE
    PROVE  Byte(s, k) = Range!DiskByte(o + k)
<1>1. o < machine.disk => o + Sector <= machine.disk
    BY Types, MultipleStep DEF IsMultiple
<1> QED BY <1>1, Types DEF Byte, Range!DiskByte, GARBAGE, Range!GARBAGE

\* One round of the loop over whole sectors.
LEMMA FunnyarchSectorStep == ASSUME IInv, FunnyarchSector PROVE IInv'
<1>1. ~Mac /\ pc = "sectors" /\ n > 0 /\ IsMultiple(offset) /\ IsMultiple(n)
    BY DEF FunnyarchSector, Mac, IInv, Places
<1>2. TypeOK /\ RequestFits /\ buf = Content(at) /\ offset = request.offset + at
    BY <1>1 DEF IInv, Progress
<1>3. Sector <= n
    <2>1. 0 + Sector <= n
        BY <1>1, <1>2, Types, MultipleStep DEF IsMultiple
    <2> QED BY <2>1, <1>2, Types
<1>4. PICK s : s = SectorRead(offset \div Sector)
    OBVIOUS
<1>5. Store(s, 0, Sector) /\ AdvanceBy(Sector) /\ UNCHANGED <<machine, request, room, scratch, pc, status>>
    BY <1>4 DEF FunnyarchSector
<1>6. s = IF offset + Sector <= machine.disk THEN offset ELSE GARBAGE
    BY <1>1, <1>2, <1>4, Types, SectorReadAt
<1>7. \A j \in at .. at + Sector - 1 : Byte(s, 0 + (j - at)) = Range!DiskByte(request.offset + j)
    <2> SUFFICES ASSUME NEW j \in at .. at + Sector - 1
                 PROVE  Byte(s, 0 + (j - at)) = Range!DiskByte(request.offset + j)
        OBVIOUS
    <2>1. 0 + (j - at) \in 0 .. Sector - 1 /\ offset + (0 + (j - at)) = request.offset + j
        BY <1>2, Types
    <2>2. Byte(s, 0 + (j - at)) = Range!DiskByte(offset + (0 + (j - at)))
        BY <1>1, <1>2, <1>6, <2>1, Types, SectorBytes
    <2> QED BY <2>1, <2>2
<1>8. buf' = Content(at + Sector)
    BY <1>2, <1>5, <1>7, Types, Stored
<1>9. n' = n - Sector /\ offset' = WAdd(offset, Sector) /\ at' = at + Sector
    BY <1>5 DEF AdvanceBy
<1>10. /\ offset' \in Word
       /\ n' > 0 => offset' = request.offset + at'
       /\ n' \in 0 .. request.n /\ at' = request.n - n'
    BY <1>1, <1>2, <1>3, <1>9, Types, Advanced
<1>11. TypeOK'
    <2>1. DOMAIN buf' \subseteq 0 .. request.n - 1
        BY <1>2, <1>3, <1>5, Types, StoredDomain
    <2> QED BY <1>2, <1>5, <1>10, <2>1 DEF TypeOK
<1>12. Progress'
    BY <1>1, <1>5, <1>8, <1>9, <1>10 DEF Progress, Mac, Content, Range!DiskByte
<1>13. Places'
    <2>1. IsMultiple(n')
        BY <1>1, <1>2, <1>3, <1>9, Types, MultipleSum, MultipleOfItself DEF IsMultiple
    <2>2. IsMultiple(offset')
        <3>1. IsMultiple(offset + Sector) /\ offset + Sector \in Nat
            <4>1. offset \in Nat /\ Sector \in Nat \ {0} /\ Multiple(offset, Sector)
                BY <1>1, <1>2, Types DEF IsMultiple
            <4>2. Multiple(Sector, Sector)
                BY <4>1, MultipleOfItself
            <4>3. Multiple(offset + Sector, Sector)
                BY <4>1, <4>2, MultipleSum
            <4> QED BY <4>1, <4>3 DEF IsMultiple
        <3>2. WAdd(offset, Sector) = offset + Sector \/ WAdd(offset, Sector) = 0
            <4>1. offset + Sector <= WordSize
                BY <1>2, <1>3, Types DEF RequestFits
            <4> QED BY <1>2, <4>1, Types DEF WAdd
        <3> QED BY <1>2, <1>9, <3>1, <3>2, Types
    <2> QED BY <1>1, <1>5, <2>1, <2>2 DEF Places, Mac, IsMultiple
<1>14. RequestFits' /\ ReadRight' /\ FailsForReason' /\ HeapReturned'
    BY <1>1, <1>5 DEF IInv, RequestFits, ReadRight, FailsForReason, HeapReturned, Mac
<1> QED BY <1>11, <1>12, <1>13, <1>14 DEF IInv

\* The end of that loop, and of the one over pieces.
LEMMA EndStep == ASSUME IInv, FunnyarchEnd \/ PiecesEnd PROVE IInv'
<1>1. pc # "idle" /\ n = 0 /\ Return(TRUE) /\ UNCHANGED locals
    BY DEF FunnyarchEnd, PiecesEnd
<1>2. TypeOK /\ buf = Content(at) /\ at = request.n /\ (Mac => at = 0 \/ request.offset + at <= machine.disk)
    BY <1>1, Types DEF IInv, Progress
<1>3. room' = machine.room /\ room' \in Nat
    <2>1. CASE FunnyarchEnd
        BY <2>1, Types DEF FunnyarchEnd, IInv, HeapReturned, Mac
    <2>2. CASE PiecesEnd
        BY <2>2, Dropped DEF PiecesEnd, Holds
    <2> QED BY <2>1, <2>2
<1>4. buf' = Content(request.n) /\ scratch' \in {GARBAGE} \cup Word /\ UNCHANGED <<offset, n, at>>
    BY <1>1, <1>2 DEF locals, TypeOK
<1> QED BY <1>1, <1>2, <1>3, <1>4, ReturnTrueStep

\* One round of the loop over pieces.
LEMMA PieceStep == ASSUME IInv, Piece PROVE IInv'
<1> DEFINE boff == offset % Sector
<1> HIDE DEF boff
<1>1. pc = "pieces" /\ n # 0 /\ (Mac => ~IsMultiple(request.offset))
    BY DEF Piece, IInv, Places
<1>2. TypeOK /\ RequestFits /\ buf = Content(at) /\ offset = request.offset + at
    BY <1>1, Types DEF IInv, Progress
<1>3. boff \in 0 .. Sector - 1 /\ Start = offset - boff /\ Start \in Nat /\ IsMultiple(Start)
    BY <1>2, Types, DivMod, MultipleOf DEF boff, Start, IsMultiple
<1>4. InSector = Lesser(n, Sector - boff)
    BY DEF InSector, boff
<1>5. PICK c : c = InSector
    OBVIOUS
<1>6. c \in Nat /\ c > 0 /\ c <= n /\ boff + c <= Sector
    BY <1>1, <1>2, <1>3, <1>4, <1>5, Types DEF Lesser
<1>7. Start % Sector = 0 /\ Start < WordSize
    BY <1>2, <1>3, Types, MultipleMod DEF IsMultiple
<1>8. CASE /\ machine.arch = "m68k" => ReadBootDisk(Start, 1, TRUE)
           /\ scratch' = IF machine.arch = "m68k" THEN Start ELSE SectorRead(Start \div Sector)
           /\ Store(scratch', offset - Start, InSector) /\ AdvanceBy(InSector)
           /\ UNCHANGED <<machine, request, room, pc, status>>
    <2>1. Mac => Start + Sector <= machine.disk
        BY <1>2, <1>3, <1>8, Types DEF ReadBootDisk, Mac
    <2>2. scratch' = IF Start + Sector <= machine.disk THEN Start ELSE GARBAGE
        BY <1>2, <1>3, <1>8, <2>1, SectorReadAt DEF Mac
    <2>3. offset - Start = boff
        BY <1>2, <1>3, Types
    <2>4. Store(scratch', boff, c)
        BY <1>5, <1>8, <2>3
    <2>5. \A j \in at .. at + c - 1 : Byte(scratch', boff + (j - at)) = Range!DiskByte(request.offset + j)
        <3> SUFFICES ASSUME NEW j \in at .. at + c - 1
                     PROVE  Byte(scratch', boff + (j - at)) = Range!DiskByte(request.offset + j)
            OBVIOUS
        <3>1. boff + (j - at) \in 0 .. Sector - 1 /\ Start + (boff + (j - at)) = request.offset + j
            BY <1>2, <1>3, <1>6, Types
        <3>2. Byte(scratch', boff + (j - at)) = Range!DiskByte(Start + (boff + (j - at)))
            BY <1>2, <1>3, <2>2, <3>1, SectorBytes
        <3> QED BY <3>1, <3>2
    <2>6. buf' = Content(at + c)
        BY <1>2, <1>6, <2>4, <2>5, Types, Stored
    <2>7. n' = n - c /\ offset' = WAdd(offset, c) /\ at' = at + c
        BY <1>5, <1>8 DEF AdvanceBy
    <2>8. /\ offset' \in Word
          /\ n' > 0 => offset' = request.offset + at'
          /\ n' \in 0 .. request.n /\ at' = request.n - n'
        BY <1>1, <1>2, <1>6, <2>7, Advanced
    <2>9. TypeOK'
        <3>1. DOMAIN buf' \subseteq 0 .. request.n - 1
            BY <1>2, <1>6, <2>4, StoredDomain
        <3>2. scratch' \in {GARBAGE} \cup Word
            <4>1. Start \in Word
                <5>1. Start \in Nat /\ Start < WordSize /\ WordSize \in Nat
                    BY <1>2, <1>3, <1>7, Types
                <5> QED BY <5>1 DEF Word
            <4> QED BY <2>2, <4>1
        <3> QED BY <1>2, <1>8, <2>8, <3>1, <3>2 DEF TypeOK
    <2>10. Progress'
        <3>1. Mac => request.offset + (at + c) <= machine.disk
            BY <1>2, <1>3, <1>6, <2>1, Types
        <3>2. buf' = Content(at)'
            BY <1>8, <2>6, <2>7 DEF Content, Range!DiskByte
        <3> QED BY <1>8, <2>7, <2>8, <3>1, <3>2 DEF Progress, Mac
    <2>11. Places'
        BY <1>1, <1>8 DEF Places, Mac, IsMultiple
    <2>12. RequestFits' /\ ReadRight' /\ FailsForReason' /\ HeapReturned'
        BY <1>1, <1>2, <1>8 DEF IInv, RequestFits, ReadRight, FailsForReason, HeapReturned
    <2> QED BY <2>9, <2>10, <2>11, <2>12 DEF IInv
<1>9. CASE /\ machine.arch = "m68k" /\ ReadBootDisk(Start, 1, FALSE)
           /\ scratch' = GARBAGE
           /\ GiveUp
           /\ UNCHANGED <<offset, n, at, buf>>
    <2>1. Start + Sector > machine.disk \/ ~machine.reliable
        BY <1>2, <1>3, <1>7, <1>9, Types DEF ReadBootDisk
    <2>2. Touched >= Start + Sector
        <3> DEFINE e == request.offset + request.n
        <3>1. request.offset % Sector # 0
            BY <1>1, <1>2, <1>9, Types, MultipleMod DEF IsMultiple, Mac
        <3>2. Touched = ((e + Sector - 1) \div Sector) * Sector
            BY <3>1 DEF Touched
        <3> HIDE DEF e
        <3>3. e \in Nat /\ Start < e
            BY <1>1, <1>2, <1>3, Types DEF e
        <3>4. e + Sector - 1 \in Nat
            BY <1>2, <3>3, Types
        <3>5. PICK x \in Nat : x = e + Sector - 1
            BY <3>4
        <3>6. x \div Sector \in Nat /\ x % Sector \in 0 .. Sector - 1 /\ x = (x \div Sector) * Sector + (x % Sector)
            BY <1>2, Types, DivMod
        <3>7. PICK t \in Nat : t = (x \div Sector) * Sector /\ Multiple(t, Sector)
            BY <1>2, <3>6, Types, MultipleOf
        <3>8. Start < t
            <4>1. PICK r : r = x % Sector
                OBVIOUS
            <4>2. r \in 0 .. Sector - 1 /\ x = t + r
                BY <3>6, <3>7, <4>1
            <4> QED BY <1>2, <1>3, <3>3, <3>5, <4>2, Types
        <3>9. Start + Sector <= t
            BY <1>2, <1>3, <3>7, <3>8, Types, MultipleStep DEF IsMultiple
        <3> QED BY <1>2, <1>3, <3>2, <3>5, <3>7, <3>9, Types
    <2>3. Reason
        <3>1. Start + Sector > machine.disk => Touched > machine.disk
            <4>1. Touched \in Int
                BY <1>2, Types, TouchedType
            <4> QED BY <1>2, <1>3, <2>2, <4>1, Types
        <3> QED BY <1>9, <2>1, <3>1 DEF Reason, Mac
    <2>4. DOMAIN buf' \subseteq 0 .. request.n - 1 /\ scratch' \in {GARBAGE} \cup Word
        BY <1>2, <1>9 DEF TypeOK
    <2> QED BY <1>1, <1>9, <2>3, <2>4, GiveUpStep DEF Holds
<1> QED BY <1>8, <1>9 DEF Piece

\* Every step keeps the invariant.
LEMMA IInvStep == IInv /\ [Next]_vars => IInv'
<1> SUFFICES ASSUME IInv, [Next]_vars PROVE IInv'
    OBVIOUS
<1>1. ASSUME NEW r \in Requests, Call(r) PROVE IInv'
    BY <1>1, CallStep
<1>2. CASE Reading
    BY <1>2, MacStartStep, MacSectorsStep, MacLastStep, FunnyarchStartStep, FunnyarchSectorStep,
       EndStep, PieceStep DEF Reading
<1>3. CASE UNCHANGED vars
    BY <1>3 DEF vars, locals, IInv, TypeOK, RequestFits, HeapReturned, Progress, Places, ReadRight,
                FailsForReason, Content, Range!DiskByte, Mac, IsMultiple, Touched
<1> QED BY <1>1, <1>2, <1>3 DEF Next
-----------------------------------------------------------------------------
\* The invariant of disk::read holds throughout.
THEOREM ReadInvariant == Spec => []IInv
    BY IInvInit, IInvStep, PTL DEF Spec

\* Variables have their types; in particular nothing is written to the caller's
\* buffer at an index that it does not have, and n does not wrap.
THEOREM DiskReadTypeCorrect == Spec => []TypeOK
<1>1. IInv => TypeOK
    BY DEF IInv
<1> QED BY <1>1, ReadInvariant, PTL

\* A read leaves the heap as it found it, on every path.
THEOREM HeapIsReturned == Spec => []HeapReturned
<1>1. IInv => HeapReturned
    BY DEF IInv
<1> QED BY <1>1, ReadInvariant, PTL

\* A read fails only if the heap is used up, the ROM fails, or the disk ends.
THEOREM ReadsFailForReason == Spec => []FailsForReason
<1>1. IInv => FailsForReason
    BY DEF IInv
<1> QED BY <1>1, ReadInvariant, PTL
-----------------------------------------------------------------------------
\* In its first state disk::read is a range reader.
LEMMA InitIsRange == Init => Range!Init
<1> SUFFICES ASSUME Init PROVE Range!Init
    OBVIOUS
<1>1. TypeOK
    BY IInvInit DEF IInv
<1> QED BY <1>1, Types DEF Init, Range!Init, Range!Nothing, Nothing, GARBAGE, Range!GARBAGE

\* A call, a step inside a read, a read that succeeds and one that fails are the
\* abstract reader's.
LEMMA StepIsRange == IInv /\ IInv' /\ [Next]_vars => [Range!Next]_Range!vars
<1> SUFFICES ASSUME IInv, IInv', [Next]_vars PROVE [Range!Next]_Range!vars
    OBVIOUS
<1> USE DEF Range!vars
<1>1. ASSUME NEW r \in Requests, Call(r) PROVE Range!Call
    <2>1. request' \in [offset : Nat, n : Nat]
        BY <1>1, DiskAssumption, WordSizeAssumption DEF Call, Word
    <2>2. status \in {"none", "read", "failed"}
        BY DEF IInv, TypeOK
    <2> QED BY <1>1, <2>1, <2>2 DEF Call, Range!Call, Nothing, Range!Nothing, GARBAGE, Range!GARBAGE
<1>2. CASE Reading
    <2>1. pc # "idle" /\ UNCHANGED <<machine, request>>
        BY <1>2 DEF Reading, MacStart, MacSectors, MacLast, FunnyarchStart, FunnyarchSector, FunnyarchEnd,
                    Piece, PiecesEnd, OutOfMemory, TakeScratch, Return, GiveUp
    <2>2. Range!InBuffer(buf')
        BY <2>1 DEF IInv, TypeOK, Range!InBuffer
    <2>3. CASE pc' # "idle"
        BY <2>1, <2>2, <2>3 DEF Range!Next, Range!Write
    <2>4. CASE pc' = "idle" /\ status' = "failed"
        BY <2>1, <2>2, <2>4 DEF Range!Next, Range!Fail
    <2>5. CASE pc' = "idle" /\ status' = "read"
        <3>1. buf' = Content(request.n)' /\ (Mac' => request.n = 0 \/ request.offset + request.n <= machine.disk)
            BY <2>1, <2>5 DEF IInv, ReadRight
        <3>2. buf' = [k \in 0 .. request.n - 1 |-> Range!DiskByte(request.offset + k)]
            BY <2>1, <3>1 DEF Content, Range!DiskByte
        <3> QED BY <2>1, <2>5, <3>1, <3>2 DEF Range!Next, Range!Succeed, Mac
    <2>6. pc' = "idle" => status' \in {"read", "failed"}
        BY <1>2 DEF Reading, MacStart, MacSectors, MacLast, FunnyarchStart, FunnyarchSector, FunnyarchEnd,
                    Piece, PiecesEnd, OutOfMemory, TakeScratch, Return, GiveUp
    <2> QED BY <2>3, <2>4, <2>5, <2>6
<1>3. CASE UNCHANGED vars
    BY <1>3 DEF vars, locals
<1> QED BY <1>1, <1>2, <1>3 DEF Next, Range!Next

\* disk::read implements a reader of any range of the disk's bytes, on both
\* architectures.
THEOREM ReadIsDiskRange == Spec => IsDiskRange
<1>1. Init => Range!Init
    BY InitIsRange
<1>2. IInv /\ IInv' /\ [Next]_vars => [Range!Next]_Range!vars
    BY StepIsRange
<1> QED BY <1>1, <1>2, ReadInvariant, PTL DEF Spec, IsDiskRange, Range!Spec

-----------------------------------------------------------------------------
(***************************************************************************)
(* That a read ends, as far as it can be said without fairness: a number   *)
(* of steps that it has left, at most, which each of its steps lowers.     *)
(***************************************************************************)
\* A step for each byte, and one each to begin, for the last sector, and to return.
StepsLeft ==
    CASE pc = "called"               -> n + 3
      [] pc \in {"sectors", "pieces"} -> n + 2
      [] pc = "last"                 -> 1
      [] OTHER                       -> 0

LEMMA StepsLower == IInv /\ IInv' /\ Reading => StepsLeft' < StepsLeft
<1> SUFFICES ASSUME IInv, IInv', Reading PROVE StepsLeft' < StepsLeft
    OBVIOUS
<1>1. n \in Nat /\ n' \in Nat /\ offset \in Nat /\ Sector \in Nat \ {0}
    BY Types DEF IInv, TypeOK
<1>2. pc \in {"called", "sectors", "pieces", "last"}
    BY DEF Reading, MacStart, MacSectors, MacLast, FunnyarchStart, FunnyarchSector,
           FunnyarchEnd, Piece, PiecesEnd
<1>3. CASE pc' = "idle"
    BY <1>1, <1>2, <1>3 DEF StepsLeft
<1>4. CASE (MacStart \/ FunnyarchStart) /\ pc' # "idle"
    <2>1. pc = "called" /\ pc' \in {"sectors", "pieces"} /\ n' = n
        BY <1>4 DEF MacStart, FunnyarchStart, OutOfMemory, TakeScratch, Return, locals
    <2> QED BY <1>1, <2>1 DEF StepsLeft
<1>5. CASE MacSectors /\ pc' # "idle"
    <2>1. pc = "sectors" /\ pc' = "last"
        BY <1>5 DEF MacSectors, GiveUp, Return
    <2> QED BY <1>1, <2>1 DEF StepsLeft
<1>6. CASE FunnyarchSector
    <2>1. pc = "sectors" /\ pc' = "sectors" /\ n' = n - Sector
        BY <1>6 DEF FunnyarchSector, AdvanceBy
    <2> QED BY <1>1, <2>1 DEF StepsLeft
<1>7. CASE Piece /\ pc' # "idle"
    <2>1. pc = "pieces" /\ pc' = "pieces" /\ n # 0 /\ n' = n - InSector
        BY <1>7 DEF Piece, AdvanceBy, GiveUp, Return
    <2>2. offset % Sector \in 0 .. Sector - 1
        BY <1>1, DivMod
    <2>3. InSector \in Nat \ {0}
        BY <1>1, <2>1, <2>2 DEF InSector, Lesser
    <2> QED BY <1>1, <2>1, <2>3 DEF StepsLeft
<1>8. CASE MacLast \/ FunnyarchEnd \/ PiecesEnd
    BY <1>3, <1>8 DEF MacLast, FunnyarchEnd, PiecesEnd, Return
<1> QED BY <1>3, <1>4, <1>5, <1>6, <1>7, <1>8 DEF Reading

\* disk::read ends on both architectures: every step of it lowers a natural number.
THEOREM ReadGetsShorter == Spec => [](StepsLeft \in Nat) /\ [][Reading => StepsLeft' < StepsLeft]_vars
<1>1. IInv => StepsLeft \in Nat
    BY Types DEF IInv, TypeOK, StepsLeft
<1>2. IInv /\ IInv' /\ [Next]_vars => [Reading => StepsLeft' < StepsLeft]_vars
    BY StepsLower
<1> QED BY <1>1, <1>2, ReadInvariant, PTL DEF Spec
=============================================================================
