------------------------------- MODULE MemMap -------------------------------
(***************************************************************************)
(* From reset to the memory map: what startup checks of the machine's RAM, *)
(* where bumpalloc_init puts the heap, and the regions memmap::iter hands  *)
(* out, on the Macintosh and on funnyarch.  All arithmetic is uint32_t's.  *)
(***************************************************************************)
EXTENDS Regions

CONSTANTS Macs,         \* Macintoshes: ROM globals and the linker's symbols
          Funnyarches   \* funnyarch machines: the ROM's RAM block, image size

Mac == [arch : {"m68k"}, RAMBase : Word, MemTop : Word,
        begin : Word, end : Word, malloc : Word]

Funnyarch == [arch : {"funnyarch"}, membase : Word, membytes : Word, image : Word]

\* What the ROM keeps for itself at the bottom of memory, and config.h.
ROMVariables == 4096
StackBytes   == 1024
HeapBytes    == 131072

\* The linker puts the Macintosh bootloader clear of the ROM's variables and
\* below the half of the address space that a signed comparison takes for negative.
ASSUME HardwareAssumption ==
    /\ WordSize % 4 = 0 /\ WordSize > HeapBytes
    /\ Macs \subseteq Mac
    /\ \A m \in Macs : /\ ROMVariables <= m.begin /\ m.begin <= m.malloc
                       /\ m.malloc <= m.end /\ 2 * m.end < WordSize
    /\ Funnyarches \subseteq Funnyarch

VARIABLES hw,       \* the machine
          pc,
          mem,      \* funnyarch's mem_* globals
          heap,     \* bumpalloc_begin and bumpalloc_end
          ctx,      \* the iterator's context
          map       \* the regions it has reported

vars == <<hw, pc, mem, heap, ctx, map>>

NoMem  == [start1 |-> 0, size1 |-> 0, start2 |-> 0, usable |-> 0, usableSize |-> 0, bump |-> 0]
NoHeap == [begin |-> 0, end |-> 0]

Init ==
    /\ hw \in Macs \cup Funnyarches
    /\ pc = "startup"
    /\ mem = NoMem
    /\ heap = NoHeap
    /\ ctx = 0
    /\ map = <<>>

\* A word as cmpi.l's signed conditions (ble, bgt) see it.
Signed(x) == IF 2 * x < WordSize THEN x ELSE x - WordSize

AlignDown(x) == x - (x % 4)       \* x & ~0x3

AlignUp(x) == AlignDown(WAdd(x, 3))

Larger(a, b) == IF a > b THEN a ELSE b
-----------------------------------------------------------------------------
MacStartupTopOnly ==    \* mutant: does not look at RAMBase
    /\ pc = "startup" /\ hw.arch = "m68k"
    /\ pc' = IF Signed(hw.MemTop) <= Signed(hw.end) THEN "error" ELSE "heap"
    /\ UNCHANGED <<hw, mem, heap, ctx, map>>

MacStartup ==
    /\ pc = "startup" /\ hw.arch = "m68k"
    /\ pc' = IF \/ Signed(hw.MemTop) <= Signed(hw.end)
                \/ Signed(hw.RAMBase) > Signed(hw.begin)
             THEN "error" ELSE "heap"
    /\ UNCHANGED <<hw, mem, heap, ctx, map>>

MemInitUnaligned(m) ==  \* mutant: RAM's end is not aligned
    LET size1  == WAdd(m.image, HeapBytes)
        start2 == WSub(WAdd(m.membase, m.membytes), StackBytes)
        end1   == WAdd(m.membase, size1)
    IN  [start1 |-> m.membase, size1 |-> size1, start2 |-> start2,
         usable |-> end1, usableSize |-> WSub(start2, end1),
         bump |-> WAdd(m.membase, m.image)]

MemInitSigned(m) ==     \* mutant: the size of what remains is a signed number
    LET size1  == WAdd(m.image, HeapBytes)
        start2 == WSub(AlignDown(WAdd(m.membase, m.membytes)), StackBytes)
        end1   == WAdd(m.membase, size1)
    IN  [start1 |-> m.membase, size1 |-> size1, start2 |-> start2,
         usable |-> end1, usableSize |-> start2 - end1,
         bump |-> WAdd(m.membase, m.image)]

\* funnyarch_mem_init's assignments.
MemInit(m) ==
    LET size1  == WAdd(m.image, HeapBytes)
        start2 == WSub(AlignDown(WAdd(m.membase, m.membytes)), StackBytes)
        end1   == WAdd(m.membase, size1)
    IN  [start1 |-> m.membase, size1 |-> size1, start2 |-> start2,
         usable |-> end1, usableSize |-> WSub(start2, end1),
         bump |-> WAdd(m.membase, m.image)]

FunnyarchStartup ==
    /\ pc = "startup" /\ hw.arch = "funnyarch"
    /\ mem' = MemInit(hw)
    /\ pc' = IF WAdd(mem'.start1, mem'.size1) > mem'.start2 THEN "error" ELSE "heap"
    /\ UNCHANGED <<hw, heap, ctx, map>>

\* bumpalloc_init of the two architectures.
HeapOf(h, m) ==
    IF h.arch = "m68k" THEN [begin |-> h.malloc, end |-> h.end]
                       ELSE [begin |-> AlignUp(m.bump), end |-> WAdd(m.bump, HeapBytes)]

InitHeap ==
    /\ pc = "heap"
    /\ heap' = HeapOf(hw, mem)
    /\ pc' = "iter"
    /\ UNCHANGED <<hw, mem, ctx, map>>

Reported(b, s, t) == [base |-> b, size |-> s, type |-> t]

MacRegions ==
    LET memstart == Larger(hw.RAMBase, ROMVariables)
    IN  << Reported(hw.end, WSub(hw.MemTop, hw.end), USABLE),
           Reported(hw.begin, WSub(hw.end, hw.begin), RECLAIMABLE),
           Reported(memstart, WSub(hw.begin, memstart), USABLE) >>

FunnyarchRegions ==
    << Reported(mem.start1, mem.size1, RECLAIMABLE),
       Reported(mem.start2, StackBytes, RECLAIMABLE),
       Reported(mem.usable, mem.usableSize, USABLE) >>

Reports == IF hw.arch = "m68k" THEN MacRegions ELSE FunnyarchRegions

IterNoEnd ==            \* mutant: never returns false
    /\ pc = "iter"
    /\ IF ctx < 3
       THEN map' = Append(map, Reports[ctx + 1]) /\ ctx' = ctx + 1
       ELSE UNCHANGED <<ctx, map>>
    /\ UNCHANGED <<hw, pc, mem, heap>>

\* One call of memmap::iter: a region, or false after the third.
Iter ==
    /\ pc = "iter"
    /\ IF ctx < 3
       THEN map' = Append(map, Reports[ctx + 1]) /\ ctx' = ctx + 1 /\ UNCHANGED pc
       ELSE pc' = "done" /\ UNCHANGED <<ctx, map>>
    /\ UNCHANGED <<hw, mem, heap>>

Done == pc \in {"error", "done"} /\ UNCHANGED vars

Next == MacStartup \/ FunnyarchStartup \/ InitHeap \/ Iter \/ Done

Spec == Init /\ [][Next]_vars /\ WF_vars(Next)
-----------------------------------------------------------------------------
TypeOK ==
    /\ hw \in Macs \cup Funnyarches
    /\ pc \in {"startup", "heap", "iter", "done", "error"}
    /\ mem \in [start1 : Word, size1 : Word, start2 : Word,
                usable : Word, usableSize : Word, bump : Word]
    /\ heap \in [begin : Word, end : Word]
    /\ ctx \in 0 .. 3
    /\ map \in Seq([base : Word, size : Word, type : {USABLE, RECLAIMABLE}]) /\ Len(map) = ctx

\* RAM that the ROM's addresses can describe: below the sign bit on the
\* Macintosh; on funnyarch neither its end nor that of the heap the bootloader
\* puts into it wraps around, and it ends above a stack's worth of addresses.
PlausibleRam(h) ==
    IF h.arch = "m68k" THEN 2 * h.RAMBase < WordSize
    ELSE /\ h.membase + h.membytes < WordSize
         /\ h.membase + h.image + HeapBytes < WordSize
         /\ h.membase + h.membytes >= StackBytes

RamStart(h) == IF h.arch = "m68k" THEN Larger(h.RAMBase, ROMVariables) ELSE h.membase
RamEnd(h) == IF h.arch = "m68k" THEN h.MemTop ELSE AlignDown(h.membase + h.membytes)

\* What boot() relies on: when startup lets a machine pass, the map's regions do
\* not wrap or overlap, and the heap lies in a reclaimable one.
MapSound ==
    pc = "done" /\ PlausibleRam(hw) =>
        /\ heap.begin <= heap.end
        /\ SoundMap(map, Block(heap.begin, heap.end - heap.begin))

\* The map tells the kernel of all of RAM, once, and of nothing else: its
\* regions fill RAM from its first usable address to its end.
MapTilesRam ==
    pc = "done" /\ PlausibleRam(hw) =>
        Tiled({map[k] : k \in DOMAIN map}, RamStart(hw), RamEnd(hw))

\* Startup ends, and the iterator says so after its last region.
IterEnds == <>(pc \in {"done", "error"})
=============================================================================
