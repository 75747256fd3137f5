----------------------------- MODULE BootProofs -----------------------------
(***************************************************************************)
(* Theorems about Boot, for every machine, disk and kernel.                *)
(***************************************************************************)
EXTENDS Boot, TLAPS

\* A block put at the top extends a tiling.
LEMMA TiledGrow ==
    ASSUME NEW B \in SUBSET Struct, NEW lo \in Nat, NEW hi \in Nat,
           NEW n \in Struct, n.base = hi, Tiled(B, lo, hi), lo <= hi
    PROVE  Tiled(B \cup {n}, lo, hi + n.size)
<1> DEFINE C == B \cup {n}
<1>1. \A b \in C : lo <= b.base /\ End(b) <= hi + n.size
    BY DEF Tiled, End, Struct
<1>2. \A b, c \in C : b # c => Apart(b, c)
    BY DEF Tiled, End, Struct, Apart
<1>3. ASSUME NEW a \in {b.base : b \in C} \cup {hi + n.size}
      PROVE  a = lo \/ \E b \in C : End(b) = a
    <2>1. CASE a = hi + n.size
        BY <2>1 DEF End
    <2>2. CASE a \in {b.base : b \in B} \cup {hi}
        <3>1. a = lo \/ \E b \in B : End(b) = a
            BY <2>2 DEF Tiled
        <3> QED BY <3>1
    <2> QED BY <1>3, <2>1, <2>2
<1> QED BY <1>1, <1>2, <1>3 DEF Tiled

\* Writing the next fields of structures leaves a tiling as it is.
LEMMA TiledLinked ==
    ASSUME blocks \in SUBSET Struct, NEW lo \in Nat, NEW hi \in Nat,
           NEW p, NEW w, NEW a \in Nat, Tiled(blocks, lo, hi)
    PROVE  Linked(p, w, a) \in SUBSET Struct /\ Tiled(Linked(p, w, a), lo, hi)
<1> DEFINE f(b) == IF b.base = p /\ b.what = w THEN [b EXCEPT !.next = a] ELSE b
           C == Linked(p, w, a)
<1>1. \A b \in blocks : /\ f(b) \in Struct
                        /\ f(b).base = b.base /\ f(b).size = b.size
    BY DEF Struct
<1>2. C = {f(b) : b \in blocks}
    BY Zenon DEF Linked
<1> HIDE DEF f, C
<1>3. C \in SUBSET Struct
    BY <1>1, <1>2
<1>4. \A b \in blocks : f(b).base = b.base /\ End(f(b)) = End(b)
    BY <1>1 DEF End
<1>5. \A c \in C : lo <= c.base /\ End(c) <= hi
    BY <1>2, <1>4 DEF Tiled
<1>6. \A c, d \in C : c # d => Apart(c, d)
    BY <1>2, <1>4 DEF Tiled, Apart
<1>7. ASSUME NEW x \in {c.base : c \in C} \cup {hi}
      PROVE  x = lo \/ \E c \in C : End(c) = x
    <2>1. x \in {b.base : b \in blocks} \cup {hi}
        BY <1>2, <1>4, <1>7
    <2>2. x = lo \/ \E b \in blocks : End(b) = x
        BY <2>1 DEF Tiled
    <2> QED BY <1>2, <1>4, <2>2
<1>8. Tiled(C, lo, hi)
    BY <1>5, <1>6, <1>7 DEF Tiled
<1> QED BY <1>3, <1>8 DEF C

\* Taking the top block away leaves a tiling of what is below it.
LEMMA TiledDrop ==
    ASSUME NEW B \in SUBSET Struct, NEW C \in SUBSET B, NEW lo \in Nat, NEW hi \in Nat,
           NEW top \in Nat, top < hi, Tiled(B, lo, hi),
           \A b \in C : End(b) <= top,
           \A b \in B \ C : b.base = top /\ End(b) = hi,
           B \ C # {}
    PROVE  Tiled(C, lo, top)
<1>1. \A b \in C : lo <= b.base /\ End(b) <= top
    BY DEF Tiled
<1>2. \A b, c \in C : b # c => Apart(b, c)
    BY DEF Tiled
<1>3. ASSUME NEW x \in {b.base : b \in C} \cup {top}
      PROVE  x = lo \/ \E b \in C : End(b) = x
    <2>1. x \in {b.base : b \in B} \cup {hi}
        BY <1>3
    <2>2. x <= top
        BY <1>1, <1>3 DEF End, Struct
    <2>3. x = lo \/ \E b \in B : End(b) = x
        BY <2>1 DEF Tiled
    <2> QED BY <2>2, <2>3
<1> QED BY <1>1, <1>2, <1>3 DEF Tiled

\* Unsigned subtraction stays among the words.
LEMMA WSubType == \A a, b \in Word : WSub(a, b) \in Word
    BY WordSizeAssumption DEF WSub, Word

\* A step's reads only add to misread; for want of scratch memory only if there
\* is too little of it.
LEMMA MisreadsGrow ==
    ASSUME TypeOK, NEW h, NEW m \in Misreads(h)
    PROVE  /\ m \subseteq {"scratch", "rom"} /\ misread \subseteq m
           /\ "scratch" \in m => "scratch" \in misread \/ Room(h) < Scratch
<1>1. PICK f : /\ m = misread \cup f
               /\ \/ f = {"scratch"} /\ Room(h) < Scratch
                  \/ f = {} \/ f = {"rom"}
    BY Zenon DEF Misreads
<1> QED BY <1>1 DEF TypeOK

\* What a read sees is of the type it should be.
LEMMA SawType ==
    ASSUME NEW m, NEW S, NEW t \in S, NEW v \in Saw(m, t, S)
    PROVE  v \in S
    BY DEF Saw
-----------------------------------------------------------------------------
\* boot() starts well typed.
LEMMA TypeInit == Init => TypeOK
<1> SUFFICES ASSUME Init PROVE TypeOK
    OBVIOUS
<1>1. machine.arena.base \in Nat
    BY MachinesAssumption DEF Init, Machine
<1>2. 0 \in Word
    BY WordSizeAssumption DEF Word
<1>3. file \in File
    BY <1>2 DEF Init, NoFile, File
<1>4. hdr \in Header /\ image \in [base : Word, size : Word]
    BY <1>2 DEF Init, NoImage, Header
<1>5. list.n <= MaxModules
    BY DisksAssumption DEF Init, NoList
<1>6. list \in [n : Nat, first : Nat, prev : Nat, data : Nat]
    BY DEF Init, NoList
<1>7. reqs \in Seq(Nat) /\ resp \in [DOMAIN reqs -> Nat]
    BY DEF Init
<1>8. pc \in Points
    BY DEF Init, Points
<1>9. /\ machine \in Machines /\ disk \in Disks /\ heap \in Nat /\ blocks \subseteq Struct
      /\ i \in Nat \ {0} /\ misread \subseteq {"scratch", "rom"} /\ pc = "fat"
    BY <1>1 DEF Init
<1>10. nullWrite \in BOOLEAN
    BY DEF Init
<1> QED BY <1>3, <1>4, <1>5, <1>6, <1>7, <1>8, <1>9, <1>10 DEF TypeOK

\* The constant parts of a state.
LEMMA Inputs ==
    ASSUME TypeOK
    PROVE  /\ machine.map \in Seq(Region) /\ SoundMap(machine.map, machine.arena)
           /\ machine.arena.base \in Nat \ {0} /\ machine.arena.size \in Nat
           /\ End(machine.arena) \in Nat
           /\ disk.fat \in BOOLEAN /\ disk.cfg \in BOOLEAN /\ disk.path \in BOOLEAN
           /\ disk.cmdline \in BOOLEAN /\ disk.magic \in BOOLEAN
           /\ disk.kernel \in Files /\ disk.header \in Headers
           /\ disk.requests \in RequestLists
           /\ disk.modules \in Seq(Files) /\ Len(disk.modules) <= MaxModules
<1>1. machine \in Machine /\ SoundMap(machine.map, machine.arena)
    BY MachinesAssumption DEF TypeOK
<1>2. disk \in Disks
    BY DEF TypeOK
<1>3. disk \in Disk /\ Len(disk.modules) <= MaxModules
    BY <1>2, DisksAssumption
<1> QED BY <1>1, <1>3 DEF Machine, Disk, End

\* A step that asks the disk for one fact keeps the types.
LEMMA TypeRequires ==
    ASSUME TypeOK, NEW at, NEW fact \in BOOLEAN, NEW next \in {"config", "path", "kernel"},
           Requires(at, fact, next)
    PROVE  TypeOK'
<1>1. misread' \in Misreads(heap) /\ pc' \in {next, "halted"}
    BY DEF Requires
<1>2. misread' \subseteq {"scratch", "rom"}
    BY <1>1, MisreadsGrow
<1>3. pc' \in Points
    BY <1>1 DEF Points, Final
<1> QED BY <1>2, <1>3 DEF Requires, TypeOK, input, memory, kernel, scan

\* So does every other step of boot().
LEMMA TypeStep == TypeOK /\ [Next]_vars => TypeOK'
<1> SUFFICES ASSUME TypeOK, [Next]_vars PROVE TypeOK'
    OBVIOUS
<1>0. \A h : \A m \in Misreads(h) : m \subseteq {"scratch", "rom"}
    BY MisreadsGrow
<1>1. CASE InitFat \/ OpenConfig \/ ReadPath
    BY <1>1, Inputs, TypeRequires DEF InitFat, OpenConfig, ReadPath
<1>2. CASE OpenKernel
    <2>1. file' \in File
        BY <1>2, Inputs, SawType, DisksAssumption DEF OpenKernel
    <2> QED BY <1>0, <1>2, <2>1 DEF OpenKernel, TypeOK, Points, Final, input, memory, kernel, scan
<1>3. CASE ReadHeader
    <2>1. hdr' \in Header
        BY <1>3, Inputs, SawType, DisksAssumption DEF ReadHeader
    <2> QED BY <1>0, <1>3, <2>1 DEF ReadHeader, TypeOK, Points, Final, input, memory, scan
<1>4. CASE CheckHeader
    BY <1>4 DEF CheckHeader, TypeOK, Points, Final, input, memory, kernel, scan
<1>5. CASE LoadKernel
    <2>1. image' \in [base : Word, size : Word]
        BY <1>5, WSubType DEF LoadKernel, LoadSize, Block, TypeOK, Header
    <2>2. reqs' \in Seq(Nat) /\ resp' \in [DOMAIN reqs' -> Nat]
        BY <1>5, Inputs, SawType, DisksAssumption DEF LoadKernel
    <2>3. misread' \subseteq {"scratch", "rom"} /\ pc' \in Points
        BY <1>0, <1>5 DEF LoadKernel, Points, Final
    <2> QED BY <1>5, <2>1, <2>2, <2>3 DEF LoadKernel, TypeOK, input, memory
<1>6. CASE Unknown
    BY <1>6 DEF Unknown, TypeOK, input, memory, kernel
<1>7. ASSUME OutOfMemory, misread' \subseteq {"scratch", "rom"}
      PROVE  TypeOK'
    BY <1>7 DEF OutOfMemory, TypeOK, Points, Final, input, memory, kernel, scan
<1>8. \A what \in Kinds : \A size, ref \in Nat : New(what, size, ref) \in Struct
    BY DEF New, Struct, TypeOK
<1>9. ASSUME NEW id, NEW what \in Kinds, NEW size \in Nat, Simple(id, what, size)
      PROVE  TypeOK'
    <2>1. misread' \subseteq {"scratch", "rom"}
        BY <1>9 DEF Simple, TypeOK
    <2>2. CASE OutOfMemory
        BY <1>7, <2>1, <2>2
    <2>3. CASE ~OutOfMemory
        <3>1. blocks' \subseteq Struct /\ heap' \in Nat
            BY <1>8, <1>9, <2>3 DEF Simple, TypeOK
        <3>2. resp' \in [DOMAIN reqs' -> Nat]
            BY <1>9, <2>3 DEF Simple, TypeOK, kernel
        <3> QED BY <1>9, <2>1, <2>3, <3>1, <3>2 DEF Simple, Serving, TypeOK, input, kernel
    <2> QED BY <2>2, <2>3
<1>10. CASE Kmem \/ Framebuffer \/ Terminal
    BY <1>9, <1>10 DEF Kmem, Framebuffer, Terminal, Kinds, KmemSize, FramebufferSize, TerminalSize
<1>11. CASE StartMemmap \/ StartModules
    <2>1. list'.n <= MaxModules /\ list' \in [n : Nat, first : Nat, prev : Nat, data : Nat]
        BY <1>11, DisksAssumption DEF StartMemmap, StartModules, NoList
    <2> QED BY <1>11, <2>1 DEF StartMemmap, StartModules, TypeOK, Points, input, memory, kernel, scan
<1>12. \A p : \A w : \A a \in Nat : Linked(p, w, a) \subseteq Struct
    BY DEF Linked, Struct, TypeOK
<1>13. CASE AddNode
    <2>1. list.n + 1 \in Nat /\ New("node", NodeSize, list.n + 1) \in Struct
        BY <1>8 DEF Kinds, NodeSize, TypeOK
    <2>2. blocks' \subseteq Struct /\ heap' \in Nat
        BY <1>12, <1>13, <2>1 DEF AddNode, NodeSize, TypeOK
    <2>3. list' \in [n : Nat, first : Nat, prev : Nat, data : Nat] /\ list'.n = list.n + 1
        BY <1>13, <2>1 DEF AddNode, TypeOK
    <2>4. list'.n <= Len(machine.map)
        BY <1>13, <2>1, <2>3, Inputs DEF AddNode, TypeOK
    <2> QED BY <1>13, <2>2, <2>3, <2>4 DEF AddNode, TypeOK, input, kernel, scan
<1>14. CASE AddNullNode
    <2>0. list.n + 1 \in Nat
        BY DEF TypeOK
    <2>1. list' \in [n : Nat, first : Nat, prev : Nat, data : Nat] /\ list'.n = list.n + 1
        BY <1>14, <2>0 DEF AddNullNode, TypeOK
    <2>2. list'.n <= Len(machine.map)
        BY <1>14, <2>1, Inputs DEF AddNullNode, TypeOK
    <2> QED BY <1>14, <2>1, <2>2 DEF AddNullNode, TypeOK, input, memory, kernel, scan
<1>15. CASE ReturnMemmap
    <2>1. resp' \in [DOMAIN reqs' -> Nat]
        BY <1>15 DEF ReturnMemmap, TypeOK, kernel
    <2> QED BY <1>15, <2>1 DEF ReturnMemmap, TypeOK, Points, input, memory, kernel
<1>16. CASE TakeBuffer
    <2>1. CASE OutOfMemory
        BY <1>7, <1>16, <2>1 DEF TakeBuffer, TypeOK
    <2>2. CASE ~OutOfMemory
        <3>1. blocks' \subseteq Struct /\ heap' \in Nat /\ heap' >= CmdlineBuffer
            BY <1>8, <1>16, <2>2 DEF TakeBuffer, TypeOK, Kinds, CmdlineBuffer
        <3> QED BY <1>16, <2>2, <3>1 DEF TakeBuffer, TypeOK, Points, input, kernel, scan
    <2> QED BY <2>1, <2>2
<1>17. CASE ReadCmdline
    <2>1. misread' \subseteq {"scratch", "rom"}
        BY <1>0, <1>17 DEF ReadCmdline
    <2>2. CASE DropBuffer
        <3>1. heap' \in Nat
            BY <1>17, <2>2 DEF ReadCmdline, DropBuffer, TypeOK, CmdlineBuffer
        <3>2. blocks' \subseteq Struct
            BY <2>2 DEF DropBuffer, TypeOK
        <3> QED BY <2>1, <2>2, <3>1, <3>2 DEF DropBuffer, TypeOK, Points, input, kernel
    <2>3. CASE PublishCmdline
        <3>1. heap - CmdlineBuffer \in Nat
            BY <1>17 DEF ReadCmdline, TypeOK, CmdlineBuffer
        <3>2. New("cmdline", CmdlineSize, heap - CmdlineBuffer) \in Struct
            BY <1>8, <3>1 DEF Kinds, CmdlineSize
        <3>3. blocks' \subseteq Struct /\ heap' \in Nat
            BY <2>3, <3>2 DEF PublishCmdline, TypeOK, CmdlineSize
        <3>4. resp' \in [DOMAIN reqs' -> Nat]
            BY <2>3 DEF PublishCmdline, TypeOK, kernel
        <3> QED BY <2>1, <2>3, <3>3, <3>4 DEF PublishCmdline, TypeOK, Points, input, kernel
    <2>4. CASE OutOfMemory
        BY <1>7, <2>1, <2>4
    <2> QED BY <1>17, <2>2, <2>3, <2>4 DEF ReadCmdline
<1>18. CASE FindModule
    <2>1. misread' \subseteq {"scratch", "rom"}
        BY <1>0, <1>18 DEF FindModule
    <2>2. CASE EndModules
        BY <1>18, <2>1, <2>2 DEF EndModules, TypeOK, Points, input, memory, kernel
    <2>3. PICK f : /\ \/ f = NextModule
                      \/ f \in AnyModule
                   /\ \/ f = NoModule /\ EndModules
                      \/ f # NoModule /\ TakeData(f)
                      \/ OutOfMemory
        BY <1>18 DEF FindModule, Saw
    <2>4. CASE f # NoModule /\ TakeData(f)
        <3>1. /\ f \in Files
              /\ list.n + 1 <= Len(machine.map) \/ list.n + 1 <= MaxModules
            BY <2>3, <2>4, Inputs, DisksAssumption DEF NextModule, AnyModule, TypeOK
        <3>2. f \in File /\ f.size \in Nat
            BY <3>1, DisksAssumption, WordSizeAssumption DEF File, Word
        <3>3. list.n + 1 \in Nat
            BY DEF TypeOK
        <3>4. blocks' \subseteq Struct /\ heap' \in Nat
            BY <1>8, <2>4, <3>2, <3>3 DEF TakeData, TypeOK, Kinds
        <3>5. /\ list' \in [n : Nat, first : Nat, prev : Nat, data : Nat]
              /\ list'.n = list.n + 1
            BY <2>4, <3>3 DEF TakeData, TypeOK
        <3> QED BY <2>1, <2>4, <3>1, <3>2, <3>4, <3>5
                DEF TakeData, TypeOK, Points, input, kernel, scan
    <2>5. CASE OutOfMemory
        BY <1>7, <2>1, <2>5
    <2> QED BY <2>2, <2>3, <2>4, <2>5
<1>19. CASE LoadModule
    <2>1. misread' \subseteq {"scratch", "rom"}
        BY <1>0, <1>19 DEF LoadModule, TypeOK
    <2>2. CASE PublishModule
        <3>1. New("module", ModuleSize, list.data) \in Struct
            BY <1>8 DEF Kinds, ModuleSize, TypeOK
        <3>2. blocks' \subseteq Struct /\ heap' \in Nat
            BY <1>12, <2>2, <3>1 DEF PublishModule, ModuleSize, TypeOK
        <3>3. resp' \in [DOMAIN reqs' -> Nat]
            BY <2>2 DEF PublishModule, TypeOK, kernel
        <3>4. /\ list' \in [n : Nat, first : Nat, prev : Nat, data : Nat]
              /\ list'.n = list.n
            BY <2>2 DEF PublishModule, TypeOK
        <3> QED BY <2>1, <2>2, <3>2, <3>3, <3>4 DEF PublishModule, TypeOK, Points, input, kernel
    <2>3. CASE OutOfMemory
        BY <1>7, <2>1, <2>3
    <2> QED BY <1>19, <2>2, <2>3 DEF LoadModule
<1>20. CASE EnterKernel
    <2>1. CASE OutOfMemory
        BY <1>7, <1>20, <2>1 DEF EnterKernel, TypeOK
    <2>2. CASE ~OutOfMemory
        <3>1. blocks' \subseteq Struct /\ heap' \in Nat
            BY <1>8, <1>20, <2>2 DEF EnterKernel, TypeOK, Kinds, StackSize
        <3> QED BY <1>20, <2>2, <3>1 DEF EnterKernel, TypeOK, Points, Final, input, kernel, scan
    <2> QED BY <2>1, <2>2
<1>21. CASE Hang
    BY <1>21 DEF Hang, TypeOK, Points, Final, input, memory, kernel, scan
<1>22. CASE UNCHANGED vars
    BY <1>22 DEF vars, TypeOK, input, memory, kernel, scan
<1> QED
    BY <1>1, <1>2, <1>3, <1>4, <1>5, <1>6, <1>10, <1>11, <1>13, <1>14, <1>15, <1>16,
       <1>17, <1>18, <1>19, <1>20, <1>21, <1>22 DEF Next, Answer, Done

\* The state of boot() is well typed at every moment.
THEOREM TypeCorrect == Spec => []TypeOK
    BY TypeInit, TypeStep, PTL DEF Spec
-----------------------------------------------------------------------------
(***************************************************************************)
(* The inductive invariant of the heap.                                    *)
(***************************************************************************)
\* While the command line is looked up, its buffer is the top block.
BufferOnTop ==
    /\ \A b \in blocks : b.what = "buffer" => b.size = CmdlineBuffer
    /\ pc = "cmdline" =>
           /\ \E b \in blocks : b.what = "buffer" /\ b.base = heap - CmdlineBuffer
           /\ \A b \in blocks : \/ b.what = "buffer" /\ b.base = heap - CmdlineBuffer
                                \/ End(b) <= heap - CmdlineBuffer

\* What a failed allocation says of the room that will ever be left.
Held == IF pc = "cmdline" THEN CmdlineBuffer ELSE 0

Scarce ==
    /\ "scratch" \in misread => Room(heap) + Held < Scratch + CmdlineBuffer
    /\ nullWrite => Room(heap) + Held < NodeSize

\* Where the kernel is, from the check of its header on.
Serves == {"scan", "memmap", "cmdline", "modules", "module", "entered"}

ImageSafe ==
    /\ pc = "load" => \E k \in DOMAIN machine.map : InRegion(hdr, machine.map[k])
    /\ pc \in Serves =>
           \E k \in DOMAIN machine.map :
               machine.map[k].type = USABLE /\ Inside(image, machine.map[k])

StackOnTop ==
    pc = "entered" => \E s \in blocks : s.what = "stack" /\ s.size = 1024 /\ End(s) = heap

HeapInv == /\ TypeOK /\ HeapTiled /\ BufferOnTop /\ Scarce
           /\ ImageSafe /\ StackOnTop /\ NoGarbageFromHeap

\* The empty heap that bumpalloc_init leaves is in order.
LEMMA HeapInit == Init => HeapInv
<1> SUFFICES ASSUME Init PROVE HeapInv
    OBVIOUS
<1>1. TypeOK
    BY TypeInit
<1>2. HeapTiled
    <2>1. blocks = {} /\ heap = machine.arena.base
        BY DEF Init
    <2>2. Tiled(blocks, machine.arena.base, heap)
        BY <2>1 DEF Tiled
    <2>3. heap <= End(machine.arena)
        BY <1>1, <2>1, Inputs DEF End
    <2>4. machine.arena.base <= heap
        BY <1>1, <2>1, Inputs
    <2> QED BY <2>2, <2>3, <2>4 DEF HeapTiled
<1>3. pc = "fat" /\ blocks = {} /\ misread = {} /\ nullWrite = FALSE
    BY DEF Init
<1>4. BufferOnTop /\ ImageSafe /\ StackOnTop /\ Scarce /\ NoGarbageFromHeap
    BY <1>3 DEF BufferOnTop, ImageSafe, StackOnTop, Serves, Scarce, NoGarbageFromHeap
<1> QED BY <1>1, <1>2, <1>4 DEF HeapInv

\* Writing next fields leaves every other field of every block as it is.
LEMMA LinkedSame ==
    ASSUME TypeOK, NEW p, NEW w, NEW a \in Nat
    PROVE  /\ \A c \in Linked(p, w, a) : \E b \in blocks :
                  /\ c.base = b.base /\ c.size = b.size /\ c.what = b.what
                  /\ c.ref = b.ref /\ c.next \in {b.next, a}
           /\ \A b \in blocks : \E c \in Linked(p, w, a) :
                  /\ c.base = b.base /\ c.size = b.size /\ c.what = b.what
                  /\ c.ref = b.ref /\ c.next \in {b.next, a}
<1> DEFINE f(b) == IF b.base = p /\ b.what = w THEN [b EXCEPT !.next = a] ELSE b
<1>1. \A b \in blocks : /\ f(b).base = b.base /\ f(b).size = b.size /\ f(b).what = b.what
                        /\ f(b).ref = b.ref /\ f(b).next \in {b.next, a}
    BY DEF TypeOK, Struct
<1>2. Linked(p, w, a) = {f(b) : b \in blocks}
    BY Zenon DEF Linked
<1> HIDE DEF f
<1> QED BY <1>1, <1>2

\* A step that allocates one block, whatever links it writes, keeps the tiling.
LEMMA HeapGrows ==
    ASSUME TypeOK, HeapTiled, machine' = machine,
           NEW what \in Kinds, NEW size \in Nat, NEW ref \in Nat, Fits(size),
           heap' = heap + size,
           NEW p, NEW w, NEW B, B = blocks \/ B = Linked(p, w, heap),
           blocks' = B \cup {New(what, size, ref)}
    PROVE  HeapTiled'
<1> DEFINE n == New(what, size, ref)
           lo == machine.arena.base
<1>1. n \in Struct /\ n.base = heap /\ n.size = size
    BY DEF New, Struct, TypeOK
<1>2. heap \in Nat /\ lo \in Nat /\ blocks \in SUBSET Struct /\ End(machine.arena) \in Nat
    BY Inputs DEF TypeOK
<1>3. B \in SUBSET Struct /\ Tiled(B, lo, heap)
    <2>1. Tiled(blocks, lo, heap)
        BY DEF HeapTiled
    <2>2. CASE B = Linked(p, w, heap)
        BY <1>2, <2>1, <2>2, TiledLinked
    <2> QED BY <1>2, <2>1, <2>2
<1>4. lo <= heap /\ heap + size <= End(machine.arena)
    BY <1>2 DEF HeapTiled, Fits, Room
<1>5. Tiled(B \cup {n}, lo, heap + size)
    BY <1>1, <1>2, <1>3, <1>4, TiledGrow
<1> QED BY <1>2, <1>4, <1>5 DEF HeapTiled

\* What a step that allocates one block does to the rest of the invariant.
LEMMA BlocksAfter ==
    ASSUME TypeOK, HeapTiled, BufferOnTop,
           NEW what \in Kinds, NEW size \in Nat, NEW ref \in Nat,
           NEW p, NEW w, NEW B, B = blocks \/ B = Linked(p, w, heap),
           blocks' = B \cup {New(what, size, ref)},
           what = "buffer" => size = CmdlineBuffer
    PROVE  /\ \A b \in blocks' : b.what = "buffer" => b.size = CmdlineBuffer
           /\ \A b \in blocks' : b = New(what, size, ref) \/ End(b) <= heap
<1>1. \A c \in B : \E b \in blocks :
          c.base = b.base /\ c.size = b.size /\ c.what = b.what
    BY LinkedSame DEF TypeOK
<1>2. \A c \in B : (c.what = "buffer" => c.size = CmdlineBuffer) /\ End(c) <= heap
    BY <1>1 DEF BufferOnTop, HeapTiled, Tiled, End
<1>3. New(what, size, ref).what = what /\ New(what, size, ref).size = size
    BY DEF New
<1> QED BY <1>2, <1>3

\* A step of the scan that allocates one block, for anything but the kernel's
\* stack, keeps the invariant.
LEMMA GrowKeeps ==
    ASSUME HeapInv, TypeOK', machine' = machine, image' = image,
           NEW what \in Kinds, NEW size \in Nat, NEW ref \in Nat, Fits(size),
           heap' = heap + size,
           NEW p, NEW w, NEW B, B = blocks \/ B = Linked(p, w, heap),
           blocks' = B \cup {New(what, size, ref)},
           what = "buffer" => size = CmdlineBuffer,
           pc' = "cmdline" => pc # "cmdline" /\ what = "buffer",
           pc \in Serves, pc' \in Serves \ {"entered"},
           "scratch" \in misread' => "scratch" \in misread \/ Room(heap) < Scratch,
           nullWrite' = nullWrite
    PROVE  HeapInv'
<1>1. TypeOK /\ HeapTiled /\ BufferOnTop /\ Scarce /\ ImageSafe
    BY DEF HeapInv
<1>2. HeapTiled'
    BY <1>1, HeapGrows
<1>3. heap \in Nat /\ End(machine.arena) \in Nat /\ blocks' \subseteq Struct
    BY <1>1, Inputs DEF TypeOK
<1>4. BufferOnTop'
    <2> DEFINE n == New(what, size, ref)
    <2>1. /\ \A b \in blocks' : b.what = "buffer" => b.size = CmdlineBuffer
          /\ \A b \in blocks' : b = n \/ End(b) <= heap
        BY <1>1, BlocksAfter
    <2>2. ASSUME pc' = "cmdline"
          PROVE  heap' - CmdlineBuffer = heap /\ n.what = "buffer" /\ n.base = heap /\ n \in blocks'
        BY <1>3, <2>2 DEF New, CmdlineBuffer
    <2> HIDE DEF n
    <2> QED BY <2>1, <2>2 DEF BufferOnTop
<1>5. Scarce'
    BY <1>1, <1>3 DEF Scarce, Held, Room, CmdlineBuffer, Scratch, NodeSize
<1>6. ImageSafe' /\ StackOnTop' /\ NoGarbageFromHeap'
    BY <1>1 DEF ImageSafe, StackOnTop, NoGarbageFromHeap, Serves, TypeOK
<1> QED BY <1>2, <1>4, <1>5, <1>6 DEF HeapInv

\* A step that leaves the heap alone keeps the invariant, unless it is the one
\* that loads the kernel.
LEMMA StillKeeps ==
    ASSUME HeapInv, TypeOK', machine' = machine, heap' = heap /\ blocks' = blocks,
           pc' \notin {"load", "cmdline", "entered"},
           pc' \in Serves => pc \in Serves /\ image' = image,
           "scratch" \in misread' => "scratch" \in misread \/ Room(heap) < Scratch,
           nullWrite' = nullWrite
    PROVE  HeapInv'
<1>1. TypeOK /\ HeapTiled /\ BufferOnTop /\ Scarce /\ ImageSafe
    BY DEF HeapInv
<1>2. heap \in Nat /\ End(machine.arena) \in Nat
    BY <1>1, Inputs DEF TypeOK
<1>3. HeapTiled' /\ BufferOnTop'
    BY <1>1, <1>2 DEF HeapTiled, BufferOnTop
<1>4. Scarce'
    BY <1>1, <1>2 DEF Scarce, Held, Room, CmdlineBuffer, Scratch, NodeSize
<1>5. ImageSafe' /\ StackOnTop' /\ NoGarbageFromHeap'
    BY <1>1 DEF ImageSafe, StackOnTop, NoGarbageFromHeap
<1> QED BY <1>3, <1>4, <1>5 DEF HeapInv

\* Every step of boot() keeps the heap in order.
LEMMA HeapStep == HeapInv /\ [Next]_vars => HeapInv'
<1> SUFFICES ASSUME HeapInv, [Next]_vars PROVE HeapInv'
    OBVIOUS
<1>0. TypeOK /\ TypeOK'
    BY TypeStep DEF HeapInv
<1>1. \A m \in Misreads(heap) :
          "scratch" \in m => "scratch" \in misread \/ Room(heap) < Scratch
    BY <1>0, MisreadsGrow
<1>2. CASE InitFat \/ OpenConfig \/ ReadPath \/ OpenKernel \/ ReadHeader
    <2>1. /\ machine' = machine /\ heap' = heap /\ blocks' = blocks /\ nullWrite' = nullWrite
          /\ misread' \in Misreads(heap)
          /\ pc' \in {"config", "path", "kernel", "header", "check", "halted"}
        BY <1>2 DEF InitFat, OpenConfig, ReadPath, Requires, OpenKernel, ReadHeader, input, memory
    <2>2. "scratch" \in misread' => "scratch" \in misread \/ Room(heap) < Scratch
        BY <1>1, <2>1
    <2>3. pc' \notin {"load", "cmdline", "entered"} /\ pc' \notin Serves
        BY <2>1 DEF Serves
    <2> QED BY <1>0, <2>1, <2>2, <2>3, StillKeeps
<1>3. CASE CheckHeader
    <2>1. CASE pc' = "halted"
        <3>1. /\ machine' = machine /\ heap' = heap /\ blocks' = blocks /\ nullWrite' = nullWrite
              /\ misread' = misread
            BY <1>3 DEF CheckHeader, input, memory
        <3>2. pc' \notin {"load", "cmdline", "entered"} /\ pc' \notin Serves
            BY <2>1 DEF Serves
        <3> QED BY <1>0, <3>1, <3>2, StillKeeps
    <2>2. CASE pc' = "load"
        <3>1. \E k \in DOMAIN machine'.map : InRegion(hdr', machine'.map[k])
            BY <1>3, <2>2 DEF CheckHeader, input, kernel
        <3> QED BY <1>0, <1>3, <2>2, <3>1 DEF CheckHeader, HeapInv, HeapTiled, BufferOnTop,
                Scarce, Held, Room, ImageSafe, StackOnTop, NoGarbageFromHeap, Serves, input, memory
    <2> QED BY <1>3, <2>1, <2>2 DEF CheckHeader
<1>4. CASE LoadKernel
    <2>1. /\ machine' = machine /\ heap' = heap /\ blocks' = blocks /\ nullWrite' = nullWrite
          /\ misread' \in Misreads(heap) /\ pc = "load"
          /\ pc' \in {"lost", "halted", "scan"}
          /\ pc' = "scan" => hdr.load <= hdr.end
        BY <1>0, <1>4 DEF LoadKernel, input, memory, TypeOK, Header, Word
    <2>2. CASE pc' # "scan"
        <3>1. "scratch" \in misread' => "scratch" \in misread \/ Room(heap) < Scratch
            BY <1>1, <2>1
        <3>2. pc' \notin {"load", "cmdline", "entered"} /\ pc' \notin Serves
            BY <2>1, <2>2 DEF Serves
        <3> QED BY <1>0, <2>1, <3>1, <3>2, StillKeeps
    <2>3. CASE pc' = "scan"
        <3>1. PICK k \in DOMAIN machine.map : InRegion(hdr, machine.map[k])
            BY <2>1 DEF HeapInv, ImageSafe
        <3>2. image' = [base |-> hdr.load, size |-> hdr.end - hdr.load]
            BY <1>0, <1>4, <2>1, <2>3 DEF LoadKernel, LoadSize, WSub, Block, TypeOK, Header, Word
        <3>3. machine.map[k] \in Region
            BY <1>0, <3>1, Inputs
        <3>4. machine.map[k].type = USABLE /\ Inside(image', machine.map[k])
            <4>1. hdr.load \in Nat /\ hdr.end \in Nat
                BY <1>0 DEF TypeOK, Header, Word
            <4>2. image'.base = hdr.load /\ End(image') = hdr.end
                BY <3>2, <4>1 DEF End
            <4> QED BY <2>1, <2>3, <3>1, <3>3, <4>1, <4>2 DEF InRegion, Inside, End, Region
        <3>5. heap' = heap /\ blocks' = blocks /\ heap \in Nat /\ End(machine.arena) \in Nat
            BY <1>0, <2>1, Inputs DEF TypeOK, memory
        <3>6. ImageSafe'
            BY <2>1, <2>3, <3>1, <3>4 DEF ImageSafe
        <3>7. Scarce'
            BY <1>1, <2>1, <2>3, <3>5
               DEF HeapInv, Scarce, Held, Room, Scratch, CmdlineBuffer, NodeSize
        <3> QED BY <1>0, <2>1, <2>3, <3>5, <3>6, <3>7
                DEF HeapInv, HeapTiled, BufferOnTop, StackOnTop, NoGarbageFromHeap
    <2> QED BY <2>2, <2>3
<1>5. CASE Unknown \/ StartMemmap \/ ReturnMemmap \/ StartModules
    <2>1. /\ machine' = machine /\ heap' = heap /\ blocks' = blocks /\ nullWrite' = nullWrite
          /\ misread' = misread /\ image' = image
        BY <1>5 DEF Unknown, StartMemmap, ReturnMemmap, StartModules, input, memory, kernel
    <2>2. pc' \notin {"load", "cmdline", "entered"} /\ pc \in Serves
        BY <1>5 DEF Unknown, StartMemmap, ReturnMemmap, StartModules, Serving, Serves
    <2> QED BY <1>0, <2>1, <2>2, StillKeeps
<1>6. CASE AddNullNode
    <2>1. /\ machine' = machine /\ heap' = heap /\ blocks' = blocks
          /\ misread' = misread /\ image' = image
          /\ pc = "memmap" /\ pc' = "memmap" /\ ~Fits(NodeSize)
        BY <1>6 DEF AddNullNode, input, memory, kernel
    <2>2. Room(heap) \in Int
        BY <1>0, Inputs DEF Room, TypeOK
    <2>3. Room(heap)' = Room(heap) /\ Room(heap) < NodeSize
        BY <2>1, <2>2 DEF Fits, Room, NodeSize
    <2>4. Scarce'
        BY <2>1, <2>2, <2>3 DEF HeapInv, Scarce, Held
    <2> QED BY <1>0, <2>1, <2>4
            DEF HeapInv, HeapTiled, BufferOnTop, ImageSafe, StackOnTop, NoGarbageFromHeap, Serves
<1>7. ASSUME OutOfMemory, "scratch" \in misread' => "scratch" \in misread \/ Room(heap) < Scratch
      PROVE  HeapInv'
    <2>1. machine' = machine /\ heap' = heap /\ blocks' = blocks /\ nullWrite' = nullWrite /\ pc' = "halted"
        BY <1>7 DEF OutOfMemory, input, memory
    <2>2. pc' \notin {"load", "cmdline", "entered"} /\ pc' \notin Serves
        BY <2>1 DEF Serves
    <2> QED BY <1>0, <1>7, <2>1, <2>2, StillKeeps
<1>8. CASE Hang
    <2>1. /\ machine' = machine /\ heap' = heap /\ blocks' = blocks /\ nullWrite' = nullWrite
          /\ misread' = misread /\ pc' = "hung"
        BY <1>8 DEF Hang, input, memory
    <2>2. pc' \notin {"load", "cmdline", "entered"} /\ pc' \notin Serves
        BY <2>1 DEF Serves
    <2> QED BY <1>0, <2>1, <2>2, StillKeeps
<1>9. CASE UNCHANGED vars
    BY <1>9 DEF vars, HeapInv, TypeOK, HeapTiled, BufferOnTop, Scarce, Held, Room, ImageSafe,
       StackOnTop, NoGarbageFromHeap, input, memory, kernel, scan
<1>10. ASSUME NEW id, NEW what \in Kinds \ {"buffer"}, NEW size \in Nat, Simple(id, what, size)
      PROVE  HeapInv'
    <2>1. CASE OutOfMemory
        BY <1>7, <1>10, <2>1 DEF Simple
    <2>2. CASE ~OutOfMemory
        <3>1. /\ machine' = machine /\ image' = image /\ misread' = misread
              /\ nullWrite' = nullWrite /\ Fits(size) /\ heap' = heap + size
              /\ blocks' = blocks \cup {New(what, size, 0)}
              /\ pc = "scan" /\ pc' = "scan"
            BY <1>10, <2>2 DEF Simple, Serving, input, kernel
        <3>2. pc \in Serves /\ pc' \in Serves \ {"entered"} /\ pc' # "cmdline"
            BY <3>1 DEF Serves
        <3> QED BY <1>0, <3>1, <3>2, GrowKeeps
    <2> QED BY <2>1, <2>2
<1>11. CASE Kmem \/ Framebuffer \/ Terminal
    BY <1>10, <1>11 DEF Kmem, Framebuffer, Terminal, Kinds, KmemSize, FramebufferSize, TerminalSize
<1>12. CASE AddNode
    <2>1. /\ machine' = machine /\ image' = image /\ misread' = misread
          /\ nullWrite' = nullWrite /\ Fits(NodeSize) /\ heap' = heap + NodeSize
          /\ blocks' = Linked(list.prev, "node", heap)
                          \cup {New("node", NodeSize, list.n + 1)}
          /\ pc = "memmap" /\ pc' = "memmap"
        BY <1>12 DEF AddNode, input, kernel
    <2>2. pc \in Serves /\ pc' \in Serves \ {"entered"} /\ pc' # "cmdline"
        BY <2>1 DEF Serves
    <2>3. list.n + 1 \in Nat /\ NodeSize \in Nat /\ "node" \in Kinds
        BY <1>0 DEF TypeOK, NodeSize, Kinds
    <2> QED BY <1>0, <2>1, <2>2, <2>3, GrowKeeps
<1>13. CASE TakeBuffer
    <2>1. CASE OutOfMemory
        BY <1>7, <1>13, <2>1 DEF TakeBuffer
    <2>2. CASE ~OutOfMemory
        <3>1. /\ machine' = machine /\ image' = image /\ misread' = misread
              /\ nullWrite' = nullWrite /\ Fits(CmdlineBuffer) /\ heap' = heap + CmdlineBuffer
              /\ blocks' = blocks \cup {New("buffer", CmdlineBuffer, 0)}
              /\ pc = "scan" /\ pc' = "cmdline"
            BY <1>13, <2>2 DEF TakeBuffer, Serving, input, kernel
        <3>2. pc \in Serves /\ pc' \in Serves \ {"entered"}
            BY <3>1 DEF Serves
        <3>3. CmdlineBuffer \in Nat /\ "buffer" \in Kinds
            BY DEF CmdlineBuffer, Kinds
        <3> QED BY <1>0, <3>1, <3>2, <3>3, GrowKeeps
    <2> QED BY <2>1, <2>2
<1>14. CASE ReadCmdline
    <2>1. /\ misread' \in Misreads(heap) /\ pc = "cmdline"
          /\ DropBuffer \/ PublishCmdline \/ OutOfMemory
        BY <1>14 DEF ReadCmdline
    <2>2. "scratch" \in misread' => "scratch" \in misread \/ Room(heap) < Scratch
        BY <1>1, <2>1
    <2>3. heap - CmdlineBuffer \in Nat
        BY <1>0, <2>1 DEF TypeOK, CmdlineBuffer
    <2>4. CASE DropBuffer
        <3>1. /\ machine' = machine /\ image' = image /\ nullWrite' = nullWrite
              /\ heap' = heap - CmdlineBuffer /\ pc' = "scan"
              /\ blocks' = {b \in blocks : b.what # "buffer" \/ b.base # heap - CmdlineBuffer}
            BY <2>4 DEF DropBuffer, input, kernel
        <3>2. /\ blocks \in SUBSET Struct /\ blocks' \in SUBSET blocks
              /\ machine.arena.base \in Nat /\ heap \in Nat /\ End(machine.arena) \in Nat
            BY <1>0, <3>1, Inputs DEF TypeOK
        <3>3. /\ \A b \in blocks' : End(b) <= heap - CmdlineBuffer
              /\ \A b \in blocks \ blocks' : b.base = heap - CmdlineBuffer /\ End(b) = heap
              /\ \E b \in blocks \ blocks' : TRUE
            BY <2>1, <3>1, <3>2 DEF HeapInv, BufferOnTop, End, CmdlineBuffer
        <3>4. Tiled(blocks, machine.arena.base, heap)
            BY DEF HeapInv, HeapTiled
        <3>5. heap - CmdlineBuffer < heap
            BY <3>2 DEF CmdlineBuffer
        <3>6. Tiled(blocks', machine.arena.base, heap - CmdlineBuffer)
            BY <2>3, <3>2, <3>3, <3>4, <3>5, TiledDrop
        <3>7. HeapTiled'
            <4>1. machine.arena.base <= heap - CmdlineBuffer
                BY <3>2, <3>3, <3>4 DEF Tiled
            <4>2. heap - CmdlineBuffer <= End(machine.arena)
                BY <3>2 DEF HeapInv, HeapTiled, CmdlineBuffer
            <4> QED BY <3>1, <3>6, <4>1, <4>2 DEF HeapTiled
        <3>8. BufferOnTop'
            BY <3>1, <3>2 DEF HeapInv, BufferOnTop
        <3>9. Scarce'
            BY <2>1, <2>2, <3>1, <3>2
               DEF HeapInv, Scarce, Held, Room, CmdlineBuffer, Scratch, NodeSize
        <3>10. ImageSafe' /\ StackOnTop' /\ NoGarbageFromHeap'
            BY <2>1, <3>1 DEF HeapInv, ImageSafe, StackOnTop, NoGarbageFromHeap, Serves
        <3> QED BY <1>0, <3>7, <3>8, <3>9, <3>10 DEF HeapInv
    <2>5. CASE PublishCmdline
        <3>1. /\ machine' = machine /\ image' = image
              /\ nullWrite' = nullWrite /\ Fits(CmdlineSize) /\ heap' = heap + CmdlineSize
              /\ blocks' = blocks \cup {New("cmdline", CmdlineSize, heap - CmdlineBuffer)}
              /\ pc' = "scan"
            BY <2>5 DEF PublishCmdline, input, kernel
        <3>2. pc \in Serves /\ pc' \in Serves \ {"entered"} /\ pc' # "cmdline"
            BY <2>1, <3>1 DEF Serves
        <3>3. CmdlineSize \in Nat /\ "cmdline" \in Kinds
            BY DEF CmdlineSize, Kinds
        <3> QED BY <1>0, <2>2, <2>3, <3>1, <3>2, <3>3, GrowKeeps
    <2>6. CASE OutOfMemory
        BY <1>7, <2>2, <2>6
    <2> QED BY <2>1, <2>4, <2>5, <2>6
<1>15. CASE FindModule
    <2>1. /\ misread' \in Misreads(heap) /\ pc = "modules"
          /\ \/ EndModules \/ OutOfMemory
             \/ \E f \in Files : TakeData(f)
        <3>1. NextModule \in Files \cup {NoModule} /\ AnyModule \subseteq Files \cup {NoModule}
            <4>1. list.n \in Nat
                BY <1>0 DEF TypeOK
            <4>2. list.n < Len(disk.modules) => disk.modules[list.n + 1] \in Files
                BY <1>0, <4>1, Inputs
            <4> QED BY <4>2 DEF NextModule, AnyModule
        <3>2. \A m : Saw(m, NextModule, AnyModule) \subseteq Files \cup {NoModule}
            BY <3>1 DEF Saw
        <3> QED BY <1>15, <3>2 DEF FindModule
    <2>2. "scratch" \in misread' => "scratch" \in misread \/ Room(heap) < Scratch
        BY <1>1, <2>1
    <2>3. CASE EndModules
        <3>1. /\ machine' = machine /\ heap' = heap /\ blocks' = blocks
              /\ nullWrite' = nullWrite /\ image' = image /\ pc' = "scan"
            BY <2>3 DEF EndModules, input, memory, kernel
        <3>2. pc' \notin {"load", "cmdline", "entered"} /\ pc \in Serves
            BY <2>1, <3>1 DEF Serves
        <3> QED BY <1>0, <2>2, <3>1, <3>2, StillKeeps
    <2>4. ASSUME NEW f \in Files, TakeData(f)
          PROVE  HeapInv'
        <3>1. /\ machine' = machine /\ image' = image
              /\ nullWrite' = nullWrite /\ Fits(f.size) /\ heap' = heap + f.size
              /\ blocks' = blocks \cup {New("data", f.size, list.n + 1)}
              /\ pc' = "module"
            BY <2>4 DEF TakeData, input, kernel
        <3>2. pc \in Serves /\ pc' \in Serves \ {"entered"} /\ pc' # "cmdline"
            BY <2>1, <3>1 DEF Serves
        <3>3. f.size \in Nat /\ list.n + 1 \in Nat /\ "data" \in Kinds
            <4>1. f.size \in Word
                BY DisksAssumption DEF File
            <4>2. f.size \in Nat
                BY <4>1, WordSizeAssumption DEF Word
            <4> QED BY <1>0, <4>2 DEF TypeOK, Kinds
        <3> QED BY <1>0, <2>2, <3>1, <3>2, <3>3, GrowKeeps
    <2>5. CASE OutOfMemory
        BY <1>7, <2>2, <2>5
    <2> QED BY <2>1, <2>3, <2>4, <2>5
<1>16. CASE LoadModule
    <2>1. /\ misread' = misread \/ misread' \in Misreads(heap)
          /\ \/ pc = "module" /\ PublishModule
             \/ OutOfMemory
        BY <1>16 DEF LoadModule
    <2>2. "scratch" \in misread' => "scratch" \in misread \/ Room(heap) < Scratch
        BY <1>1, <2>1
    <2>3. CASE PublishModule
        <3>1. /\ machine' = machine /\ image' = image
              /\ nullWrite' = nullWrite /\ Fits(ModuleSize) /\ heap' = heap + ModuleSize
              /\ blocks' = Linked(list.prev, "module", heap)
                              \cup {New("module", ModuleSize, list.data)}
              /\ pc' = "modules"
            BY <2>3 DEF PublishModule, input, kernel
        <3>2. pc \in Serves /\ pc' \in Serves \ {"entered"} /\ pc' # "cmdline"
            BY <1>16, <3>1 DEF LoadModule, Serves
        <3>3. ModuleSize \in Nat /\ list.data \in Nat /\ "module" \in Kinds
            BY <1>0 DEF ModuleSize, Kinds, TypeOK
        <3> QED BY <1>0, <2>2, <3>1, <3>2, <3>3, GrowKeeps
    <2>4. CASE OutOfMemory
        BY <1>7, <2>2, <2>4
    <2> QED BY <1>16, <2>3, <2>4 DEF LoadModule
<1>17. CASE EnterKernel
    <2>1. CASE OutOfMemory
        BY <1>7, <1>17, <2>1 DEF EnterKernel
    <2>2. CASE ~OutOfMemory
        <3>1. /\ machine' = machine /\ image' = image /\ misread' = misread
              /\ nullWrite' = nullWrite /\ Fits(StackSize) /\ heap' = heap + StackSize
              /\ blocks' = blocks \cup {New("stack", StackSize, 0)}
              /\ pc = "scan" /\ pc' = "entered"
            BY <1>17, <2>2 DEF EnterKernel, input, kernel
        <3>2. /\ heap \in Nat /\ End(machine.arena) \in Nat /\ StackSize \in Nat
              /\ "stack" \in Kinds /\ blocks \cup {New("stack", StackSize, 0)} = blocks'
            BY <1>0, <3>1, Inputs DEF TypeOK, StackSize, Kinds
        <3>3. HeapTiled /\ BufferOnTop /\ Scarce /\ ImageSafe
            BY DEF HeapInv
        <3>4. HeapTiled'
            BY <1>0, <3>1, <3>2, <3>3, HeapGrows
        <3>5. BufferOnTop'
            BY <1>0, <3>1, <3>2, <3>3, BlocksAfter DEF BufferOnTop
        <3>6. "scratch" \notin misread /\ nullWrite = FALSE
            BY <1>0, <3>1, <3>2, <3>3
               DEF Scarce, Held, Fits, Room, StackSize, Scratch, CmdlineBuffer, NodeSize, TypeOK
        <3>7. Scarce' /\ NoGarbageFromHeap'
            BY <3>1, <3>6 DEF Scarce, NoGarbageFromHeap
        <3>8. StackOnTop'
            <4> DEFINE n == New("stack", StackSize, 0)
            <4>1. n.what = "stack" /\ n.size = 1024 /\ End(n) = heap' /\ n \in blocks'
                BY <3>1, <3>2 DEF New, End, StackSize
            <4> HIDE DEF n
            <4> QED BY <4>1 DEF StackOnTop
        <3>9. ImageSafe'
            BY <3>1, <3>3 DEF ImageSafe, Serves
        <3> QED BY <1>0, <3>4, <3>5, <3>7, <3>8, <3>9 DEF HeapInv
    <2> QED BY <2>1, <2>2
<1> QED
    BY <1>2, <1>3, <1>4, <1>5, <1>6, <1>8, <1>9, <1>11, <1>12, <1>13, <1>14, <1>15, <1>16, <1>17
       DEF Next, Answer, Done

\* The heap is in order at every moment: the inductive invariant that the theorems
\* below follow from.
THEOREM HeapCorrect == Spec => []HeapInv
    BY HeapInit, HeapStep, PTL DEF Spec

\* The heap's live blocks tile it from its start to bumpalloc_begin at every
\* moment, on every machine and disk: no dealloc ever frees a live block.
THEOREM HeapStaysTiled == Spec => []HeapTiled
<1>1. HeapInv => HeapTiled
    BY DEF HeapInv
<1> QED BY <1>1, HeapCorrect, PTL

\* No kernel is entered after a disk read that lacked scratch memory or after a
\* memory map node written through a null pointer.
THEOREM EnteredCleanly == Spec => []NoGarbageFromHeap
<1>1. HeapInv => NoGarbageFromHeap
    BY DEF HeapInv
<1> QED BY <1>1, HeapCorrect, PTL

\* What lies in blocks apart from each other is apart.
LEMMA ApartInside ==
    ASSUME NEW r, NEW s, NEW R, NEW S, Inside(r, R), Inside(s, S), Apart(S, R),
           r.base \in Nat, r.size \in Nat, s.base \in Nat, s.size \in Nat,
           R.base \in Nat, R.size \in Nat, S.base \in Nat, S.size \in Nat
    PROVE  Apart(r, s)
    BY DEF Inside, Apart, End

\* A block inside another is inside what that is inside of.
LEMMA InsideInside ==
    ASSUME NEW r, NEW s, NEW t, Inside(r, s), Inside(s, t),
           r.base \in Nat, r.size \in Nat, s.base \in Nat, s.size \in Nat,
           t.base \in Nat, t.size \in Nat
    PROVE  Inside(r, t)
    BY DEF Inside, End

\* A block of the heap is clear of a block in usable memory.
LEMMA HeapApartFromUsable ==
    ASSUME TypeOK, HeapTiled, NEW k \in DOMAIN machine.map,
           machine.map[k].type = USABLE, NEW r, r.base \in Nat, r.size \in Nat,
           Inside(r, machine.map[k]), NEW b \in blocks
    PROVE  Apart(r, b)
<1>0. machine.arena.base <= b.base /\ End(b) <= heap /\ heap <= End(machine.arena)
    BY DEF HeapTiled, Tiled
<1>1. PICK j \in 1 .. Len(machine.map) :
          machine.map[j].type = RECLAIMABLE /\ Inside(machine.arena, machine.map[j])
    BY Inputs DEF SoundMap
<1>2. k \in 1 .. Len(machine.map) /\ j # k
    BY <1>1, Inputs DEF USABLE, RECLAIMABLE
<1>3. Apart(machine.map[j], machine.map[k])
    BY <1>1, <1>2, Inputs DEF SoundMap
<1>4. machine.map[j] \in Region /\ machine.map[k] \in Region
    BY <1>1, <1>2, Inputs
<1>5. /\ b.base \in Nat /\ b.size \in Nat /\ heap \in Nat
      /\ machine.arena.base \in Nat /\ machine.arena.size \in Nat
    BY Inputs DEF TypeOK, Struct
<1>6. /\ machine.map[j].base \in Nat /\ machine.map[j].size \in Nat
      /\ machine.map[k].base \in Nat /\ machine.map[k].size \in Nat
    BY <1>4 DEF Region
<1>7. machine.arena.base <= b.base /\ End(b) <= End(machine.arena)
    BY <1>0, <1>5 DEF End
<1>8. Inside(b, machine.map[j])
    BY <1>1, <1>5, <1>6, <1>7, InsideInside DEF Inside
<1> QED BY <1>3, <1>5, <1>6, <1>8, ApartInside

\* An entered kernel lies in usable memory clear of the heap, on a stack of 1024
\* bytes in reclaimable memory clear of every response.
THEOREM EnteredInItsMemory == Spec => []EntryMemory
<1>1. HeapInv => EntryMemory
    <2> SUFFICES ASSUME HeapInv, pc = "entered" PROVE EntryMemory
        BY DEF EntryMemory
    <2>1. TypeOK /\ HeapTiled
        BY DEF HeapInv
    <2>2. PICK k \in DOMAIN machine.map :
              machine.map[k].type = USABLE /\ Inside(image, machine.map[k])
        BY DEF HeapInv, ImageSafe, Serves
    <2>3. \A b \in blocks : Apart(image, b)
        <3>1. image.base \in Nat /\ image.size \in Nat
            BY <2>1, WordSizeAssumption DEF TypeOK, Word
        <3> QED BY <2>1, <2>2, <3>1, HeapApartFromUsable
    <2>4. PICK s \in blocks : s.what = "stack" /\ s.size = 1024 /\ End(s) = heap
        BY DEF HeapInv, StackOnTop
    <2>5. \A b \in blocks \ {s} : Apart(s, b)
        BY <2>1 DEF HeapTiled, Tiled
    <2>6. PICK j \in 1 .. Len(machine.map) :
              machine.map[j].type = RECLAIMABLE /\ Inside(machine.arena, machine.map[j])
        BY <2>1, Inputs DEF SoundMap
    <2>7. Inside(s, machine.map[j]) /\ j \in DOMAIN machine.map
        <3>1. machine.map[j] \in Region /\ j \in DOMAIN machine.map
            BY <2>1, <2>6, Inputs
        <3>2. /\ s.base \in Nat /\ s.size \in Nat /\ heap \in Nat
              /\ machine.arena.base \in Nat /\ End(machine.arena) \in Nat
            BY <2>1, Inputs DEF TypeOK, Struct
        <3>3. machine.arena.base <= s.base /\ End(s) <= End(machine.arena)
            BY <2>1, <3>2 DEF HeapTiled, Tiled, End
        <3> QED BY <2>6, <3>1, <3>2, <3>3 DEF Inside, End, Region
    <2> QED BY <2>2, <2>3, <2>4, <2>5, <2>6, <2>7 DEF EntryMemory
<1> QED BY <1>1, HeapCorrect, PTL
-----------------------------------------------------------------------------
(***************************************************************************)
(* The inductive invariant of what the kernel will follow.                 *)
(***************************************************************************)
\* Of the responses and of the blocks, what NoDangling says of them, and that the
\* structures of lists take room and are the only ones with a link.
Answered == \A k \in DOMAIN resp :
                resp[k] # 0 => reqs[k] \in 1 .. 6 /\ Holds(Answers[reqs[k]], resp[k])

Sound(b) ==
    /\ b.next # 0 => b.next > b.base /\ Holds(b.what, b.next)
    /\ b.what = "cmdline" => Holds("buffer", b.ref) /\ b.ref + CmdlineBuffer <= b.base
    /\ b.what = "module" => Holds("data", b.ref)
    /\ b.what \in {"node", "module"} => b.size > 0
    /\ b.what \notin {"node", "module"} => b.next = 0

\* The structure that the next one of its list is linked to is the list's end.
EndsAt(B, what, p) == \A b \in B : b.what = what /\ b.base = p => b.next = 0

\* Holds, for the blocks of any state.
Has(B, what, a) == \E b \in B : b.what = what /\ b.base = a

Asked(id) == i \in DOMAIN reqs /\ reqs[i] = id

\* What the list in the making is made for, and of.
Making ==
    /\ pc = "memmap" => /\ Asked(2) /\ EndsAt(blocks, "node", list.prev)
                        /\ list.first # 0 => Holds("node", list.first)
    /\ pc = "cmdline" => Asked(4)
    /\ pc \in {"modules", "module"} => Asked(6) /\ EndsAt(blocks, "module", list.prev)
    /\ pc = "module" => Holds("data", list.data)

LinkInv == Answered /\ (\A b \in blocks : Sound(b)) /\ Making

\* There is nothing to follow at the start.
LEMMA LinkInit == Init => LinkInv
    BY DEF Init, LinkInv, Answered, Making

\* Address 0 is below the heap, and so are the structures of lists below its top.
LEMMA BelowTop ==
    ASSUME HeapInv, LinkInv
    PROVE  /\ heap \in Nat \ {0} /\ blocks \subseteq Struct
           /\ \A b \in blocks : b.base > 0 /\ b.base <= heap
           /\ \A b \in blocks : b.what \in {"node", "module"} => b.base < heap
<1>1. TypeOK /\ HeapTiled
    BY DEF HeapInv
<1>2. /\ heap \in Nat /\ machine.arena.base \in Nat \ {0} /\ blocks \subseteq Struct
      /\ machine.arena.base <= heap
    BY <1>1, Inputs DEF TypeOK, HeapTiled
<1>3. \A b \in blocks : machine.arena.base <= b.base /\ b.base + b.size <= heap
    BY <1>1 DEF HeapTiled, Tiled, End
<1>4. \A b \in blocks : b.base \in Nat /\ b.size \in Nat
    BY <1>2 DEF Struct
<1>5. \A b \in blocks : b.what \in {"node", "module"} => b.size > 0
    BY DEF LinkInv, Sound
<1> QED BY ONLY <1>2, <1>3, <1>4, <1>5

\* Responses stay answered in a step that keeps the structures they point at.
LEMMA AnsweredKept ==
    ASSUME TypeOK, Answered, reqs' = reqs,
           \A w \in Kinds \ {"buffer"}, a \in Nat : Has(blocks, w, a) => Has(blocks', w, a),
           \/ resp' = resp
           \/ \E a \in Nat, id \in 1 .. 6 :
                  /\ Asked(id) /\ resp' = [resp EXCEPT ![i] = a]
                  /\ a # 0 => Has(blocks', Answers[id], a)
    PROVE  Answered'
<1>1. \A id \in 1 .. 6 : Answers[id] \in Kinds \ {"buffer"}
    BY DEF Answers, Kinds
<1>2. resp \in [DOMAIN reqs -> Nat]
    BY DEF TypeOK
<1>3. ASSUME NEW k \in DOMAIN resp, resp[k] # 0
      PROVE  reqs[k] \in 1 .. 6 /\ Has(blocks', Answers[reqs[k]], resp[k])
    <2>1. reqs[k] \in 1 .. 6 /\ Has(blocks, Answers[reqs[k]], resp[k])
        BY <1>3 DEF Answered, Holds, Has
    <2>2. resp[k] \in Nat
        BY <1>2
    <2> QED BY <1>1, <2>1, <2>2
<1>4. (\A k \in DOMAIN resp' :
          resp'[k] # 0 => reqs[k] \in 1 .. 6 /\ Has(blocks', Answers[reqs[k]], resp'[k])) => Answered'
    BY DEF Answered, Holds, Has
<1>5. CASE resp' = resp
    BY <1>3, <1>4, <1>5
<1>6. ASSUME NEW a \in Nat, NEW id \in 1 .. 6, Asked(id), resp' = [resp EXCEPT ![i] = a],
             a # 0 => Has(blocks', Answers[id], a)
      PROVE  Answered'
    <2>1. ASSUME NEW k \in DOMAIN resp', resp'[k] # 0
          PROVE  reqs[k] \in 1 .. 6 /\ Has(blocks', Answers[reqs[k]], resp'[k])
        <3>1. k \in DOMAIN resp
            BY <1>2, <1>6, <2>1
        <3>2. CASE k = i
            <4>1. resp'[k] = a /\ reqs[k] = id
                BY <1>6, <3>1, <3>2 DEF Asked
            <4> QED BY <1>6, <2>1, <4>1
        <3>3. CASE k # i
            <4>1. resp'[k] = resp[k]
                BY <1>2, <1>6, <3>1, <3>3
            <4> QED BY <1>3, <2>1, <3>1, <4>1
        <3> QED BY <3>2, <3>3
    <2> QED BY <1>4, <2>1
<1> QED BY <1>5, <1>6

\* A step that leaves the heap and the requests alone keeps the blocks sound, and
\* the responses too if it answers with a structure there is.
LEMMA LinkStill ==
    ASSUME HeapInv, LinkInv, blocks' = blocks, reqs' = reqs,
           \/ resp' = resp
           \/ \E a \in Nat, id \in 1 .. 6 :
                  /\ Asked(id) /\ resp' = [resp EXCEPT ![i] = a]
                  /\ a # 0 => Has(blocks, Answers[id], a),
           Making'
    PROVE  LinkInv'
<1>1. \A w, a : Holds(w, a)' <=> Holds(w, a)
    BY DEF Holds
<1>2. \A b \in blocks' : Sound(b)'
    BY <1>1 DEF LinkInv, Sound
<1>3. Answered'
    BY AnsweredKept DEF LinkInv, HeapInv
<1> QED BY <1>2, <1>3 DEF LinkInv

\* A step that allocates a structure, and may link the end of its list to it,
\* keeps the blocks sound and every structure there was.
LEMMA LinkGrows ==
    ASSUME HeapInv, LinkInv,
           NEW what \in Kinds, NEW size \in Nat, NEW ref \in Nat, NEW p,
           NEW B, B = blocks \/ (what \in {"node", "module"} /\ B = Linked(p, what, heap)),
           blocks' = B \cup {New(what, size, ref)},
           what = "cmdline" => Has(blocks, "buffer", ref) /\ ref + CmdlineBuffer <= heap,
           what = "module" => Has(blocks, "data", ref),
           what \in {"node", "module"} => size > 0
    PROVE  /\ \A b \in blocks' : Sound(b)'
           /\ \A w, a : Has(blocks, w, a) => Has(blocks', w, a)
           /\ Has(blocks', what, heap)
           /\ what \in {"node", "module"} => EndsAt(blocks', what, heap)
<1>0. PICK n : n = New(what, size, ref)
    OBVIOUS
<1>1. /\ n.base = heap /\ n.what = what /\ n.size = size /\ n.ref = ref /\ n.next = 0
      /\ n \in blocks'
    BY <1>0 DEF New
<1>2. /\ \A c \in B : \E b \in blocks :
             /\ c.base = b.base /\ c.size = b.size /\ c.what = b.what /\ c.ref = b.ref
             /\ c.next = b.next \/ (c.next = heap /\ b.what = what /\ what \in {"node", "module"})
      /\ \A b \in blocks : \E c \in B : c.base = b.base /\ c.what = b.what
    <2>1. CASE B = blocks
        BY <2>1
    <2>2. CASE what \in {"node", "module"} /\ B = Linked(p, what, heap)
        <3>1. TypeOK /\ heap \in Nat
            BY DEF HeapInv, TypeOK
        <3> DEFINE f(b) == IF b.base = p /\ b.what = what THEN [b EXCEPT !.next = heap] ELSE b
        <3>2. \A b \in blocks : /\ f(b).base = b.base /\ f(b).size = b.size
                                /\ f(b).what = b.what /\ f(b).ref = b.ref
                                /\ f(b).next = b.next \/ (f(b).next = heap /\ b.what = what)
            BY <3>1 DEF TypeOK, Struct
        <3>3. B = {f(b) : b \in blocks}
            BY <2>2, Zenon DEF Linked
        <3> HIDE DEF f
        <3> QED BY <2>2, <3>2, <3>3
    <2> QED BY <2>1, <2>2
<1>3. \A w, a : Has(blocks, w, a) => Has(blocks', w, a)
    BY <1>2 DEF Has
<1>4. Has(blocks', what, heap)
    BY <1>1 DEF Has
<1>5. /\ heap \in Nat \ {0}
      /\ \A b \in blocks : b.what \in {"node", "module"} => b.base < heap
    BY BelowTop
<1>6. \A b \in blocks : Sound(b)
    BY DEF LinkInv
<1>7. ASSUME NEW c \in B PROVE Sound(c)'
    <2>1. PICK b \in blocks :
             /\ c.base = b.base /\ c.size = b.size /\ c.what = b.what /\ c.ref = b.ref
             /\ c.next = b.next \/ (c.next = heap /\ b.what = what /\ what \in {"node", "module"})
        BY <1>2
    <2>2. Sound(b)
        BY <1>6
    <2>3. c.next # 0 => c.next > c.base /\ Has(blocks', c.what, c.next)
        <3>1. CASE c.next = b.next
            BY <1>3, <2>1, <2>2, <3>1 DEF Sound, Holds, Has
        <3>2. CASE c.next = heap /\ b.what = what /\ what \in {"node", "module"}
            BY <1>4, <1>5, <2>1, <3>2
        <3> QED BY <2>1, <3>1, <3>2
    <2>4. /\ c.what = "cmdline" => Has(blocks', "buffer", c.ref) /\ c.ref + CmdlineBuffer <= c.base
          /\ c.what = "module" => Has(blocks', "data", c.ref)
        BY <1>3, <2>1, <2>2 DEF Sound, Holds, Has
    <2>5. /\ c.what \in {"node", "module"} => c.size > 0
          /\ c.what \notin {"node", "module"} => c.next = 0
        BY <2>1, <2>2 DEF Sound, Holds, Has
    <2> QED BY <2>3, <2>4, <2>5 DEF Sound, Holds, Has
<1>8. Sound(n)'
    BY <1>1, <1>3 DEF Sound, Holds, Has
<1>9. ASSUME what \in {"node", "module"} PROVE EndsAt(blocks', what, heap)
    <2>1. ASSUME NEW c \in B, c.what = what PROVE c.base # heap
        <3>1. PICK b \in blocks : c.base = b.base /\ c.what = b.what
            BY <1>2
        <3>2. b.base < heap /\ heap \in Nat
            BY <1>5, <1>9, <2>1, <3>1
        <3> QED BY <3>1, <3>2
    <2>2. \A c \in blocks' : c \in B \/ c = n
        BY <1>0
    <2> QED BY <1>1, <2>1, <2>2 DEF EndsAt
<1>10. \A b \in blocks' : b \in B \/ b = n
    BY <1>0
<1> QED BY <1>3, <1>4, <1>7, <1>8, <1>9, <1>10

\* A step that allocates a structure, links it or not, and answers the request
\* with it or with nothing.
LEMMA GrowLinks ==
    ASSUME HeapInv, LinkInv, reqs' = reqs,
           NEW what \in Kinds, NEW size \in Nat, NEW ref \in Nat, NEW p,
           NEW B, B = blocks \/ (what \in {"node", "module"} /\ B = Linked(p, what, heap)),
           blocks' = B \cup {New(what, size, ref)},
           what = "cmdline" => Has(blocks, "buffer", ref) /\ ref + CmdlineBuffer <= heap,
           what = "module" => Has(blocks, "data", ref),
           what \in {"node", "module"} => size > 0,
           \/ resp' = resp
           \/ \E id \in 1 .. 6 :
                  Asked(id) /\ Answers[id] = what /\ resp' = [resp EXCEPT ![i] = heap],
           Making'
    PROVE  LinkInv'
<1>1. /\ \A b \in blocks' : Sound(b)'
      /\ \A w, a : Has(blocks, w, a) => Has(blocks', w, a)
      /\ Has(blocks', what, heap)
    BY LinkGrows
<1>2. TypeOK /\ Answered /\ heap \in Nat
    BY DEF HeapInv, LinkInv, TypeOK
<1>3. \/ resp' = resp
      \/ \E a \in Nat, id \in 1 .. 6 :
             /\ Asked(id) /\ resp' = [resp EXCEPT ![i] = a]
             /\ a # 0 => Has(blocks', Answers[id], a)
    BY <1>1, <1>2
<1>4. Answered'
    BY <1>1, <1>2, <1>3, AnsweredKept
<1> QED BY <1>1, <1>4 DEF LinkInv

\* Taking back the buffer of a missing command line takes nothing that is
\* pointed at.
LEMMA LinkDrop ==
    ASSUME HeapInv, LinkInv, pc = "cmdline", DropBuffer
    PROVE  LinkInv'
<1>1. /\ reqs' = reqs /\ resp' = resp /\ pc' = "scan"
      /\ blocks' = {b \in blocks : b.what # "buffer" \/ b.base # heap - CmdlineBuffer}
    BY DEF DropBuffer, kernel
<1>2. TypeOK /\ Answered /\ heap \in Nat /\ blocks \subseteq Struct
    BY DEF HeapInv, LinkInv, TypeOK
<1>3. \A w \in Kinds \ {"buffer"} : \A a : Has(blocks, w, a) => Has(blocks', w, a)
    BY <1>1 DEF Has
<1>4. Answered'
    BY <1>1, <1>2, <1>3, AnsweredKept
<1>5. ASSUME NEW b \in blocks' PROVE Sound(b)'
    <2>1. b \in blocks /\ Sound(b) /\ b \in Struct
        BY <1>1, <1>2 DEF LinkInv
    <2>2. CASE b.what = "buffer"
        BY <2>1, <2>2 DEF Sound
    <2>3. CASE b.what # "buffer"
        <3>1. b.next # 0 => b.next > b.base /\ Has(blocks', b.what, b.next)
            BY <1>3, <2>1, <2>3 DEF Sound, Holds, Has, Struct
        <3>2. b.what = "module" => Has(blocks', "data", b.ref)
            BY <1>3, <2>1 DEF Sound, Holds, Has, Kinds
        <3>3. ASSUME b.what = "cmdline" PROVE Has(blocks', "buffer", b.ref)
            <4>1. Has(blocks, "buffer", b.ref) /\ b.ref + CmdlineBuffer <= b.base
                BY <2>1, <3>3 DEF Sound, Holds, Has
            <4>2. End(b) <= heap - CmdlineBuffer
                BY <2>1, <2>3 DEF HeapInv, BufferOnTop
            <4>3. b.ref \in Nat /\ b.base \in Nat /\ b.size \in Nat
                BY <2>1 DEF Struct
            <4>4. b.ref # heap - CmdlineBuffer
                BY ONLY <1>2, <4>1, <4>2, <4>3 DEF End, CmdlineBuffer
            <4> QED BY <1>1, <4>1, <4>4 DEF Has
        <3> QED BY <2>1, <3>1, <3>2, <3>3 DEF Sound, Holds, Has
    <2> QED BY <2>2, <2>3
<1>6. Making'
    BY <1>1 DEF Making
<1> QED BY <1>4, <1>5, <1>6 DEF LinkInv

\* Every step of boot() keeps what the kernel will follow in order.
LEMMA LinkStep == HeapInv /\ LinkInv /\ [Next]_vars => LinkInv'
<1> SUFFICES ASSUME HeapInv, LinkInv, [Next]_vars PROVE LinkInv'
    OBVIOUS
<1>0. TypeOK /\ TypeOK' /\ Making
    BY TypeStep DEF HeapInv, LinkInv
<1>1. /\ heap \in Nat \ {0} /\ blocks \subseteq Struct
      /\ \A b \in blocks : b.base > 0
    BY BelowTop
<1>2. EndsAt(blocks, "node", 0) /\ EndsAt(blocks, "module", 0)
    BY <1>1 DEF EndsAt
<1>3. ASSUME blocks' = blocks, reqs' = reqs, resp' = resp,
             pc' \notin {"memmap", "cmdline", "modules", "module"}
      PROVE  LinkInv'
    <2>1. Making'
        BY <1>3 DEF Making
    <2> QED BY <1>3, <2>1, LinkStill
<1>4. CASE InitFat \/ OpenConfig \/ ReadPath \/ OpenKernel \/ ReadHeader \/ CheckHeader
    <2>1. /\ blocks' = blocks /\ reqs' = reqs /\ resp' = resp
          /\ pc' \in {"config", "path", "kernel", "header", "check", "load", "halted"}
        BY <1>4 DEF InitFat, OpenConfig, ReadPath, Requires, OpenKernel, ReadHeader, CheckHeader,
           memory, kernel, scan
    <2> QED BY <1>3, <2>1
<1>5. CASE LoadKernel
    <2>1. /\ blocks' = blocks /\ resp' = [k \in DOMAIN reqs' |-> 0]
          /\ pc' \notin {"memmap", "cmdline", "modules", "module"}
        BY <1>5 DEF LoadKernel, memory
    <2>2. Making' /\ Answered'
        BY <2>1 DEF Making, Answered
    <2>3. \A b \in blocks' : Sound(b)'
        BY <2>1 DEF LinkInv, Sound, Holds
    <2> QED BY <2>2, <2>3 DEF LinkInv
<1>6. ASSUME OutOfMemory PROVE LinkInv'
    BY <1>3, <1>6 DEF OutOfMemory, memory, kernel, scan
<1>7. CASE Unknown \/ Hang
    BY <1>3, <1>7 DEF Unknown, Hang, memory, kernel, scan
<1>8. CASE UNCHANGED vars
    <2>1. blocks' = blocks /\ reqs' = reqs /\ resp' = resp /\ pc' = pc /\ list' = list /\ i' = i
        BY <1>8 DEF vars, memory, kernel, scan
    <2>2. Making'
        BY <1>0, <2>1 DEF Making, Asked, EndsAt, Holds
    <2> QED BY <2>1, <2>2, LinkStill
<1>9. ASSUME NEW id \in {1, 3, 5}, NEW what \in Kinds \ {"node", "cmdline", "module"},
             NEW size \in Nat, Simple(id, what, size), Answers[id] = what
      PROVE  LinkInv'
    <2>1. CASE OutOfMemory
        BY <1>6, <2>1
    <2>2. CASE ~OutOfMemory
        <3>1. /\ Asked(id) /\ blocks' = blocks \cup {New(what, size, 0)} /\ pc' = "scan"
              /\ resp' = [resp EXCEPT ![i] = heap] /\ reqs' = reqs
            BY <1>9, <2>2 DEF Simple, Serving, Asked, kernel
        <3>2. Making'
            BY <3>1 DEF Making
        <3> QED BY <1>9, <3>1, <3>2, GrowLinks
    <2> QED BY <2>1, <2>2
<1>10. CASE Kmem \/ Framebuffer \/ Terminal
    BY <1>9, <1>10 DEF Kmem, Framebuffer, Terminal, Kinds, Answers, KmemSize, FramebufferSize, TerminalSize
<1>11. CASE StartMemmap \/ StartModules
    <2>1. /\ blocks' = blocks /\ reqs' = reqs /\ resp' = resp /\ i' = i /\ list' = NoList
          /\ \/ pc' = "memmap" /\ Asked(2)
             \/ pc' = "modules" /\ Asked(6)
        BY <1>11 DEF StartMemmap, StartModules, Serving, Asked, memory, kernel, scan
    <2>2. list'.prev = 0 /\ list'.first = 0
        BY <2>1 DEF NoList
    <2>3. Making'
        BY <1>2, <2>1, <2>2 DEF Making, Asked
    <2> QED BY <2>1, <2>3, LinkStill
<1>12. CASE AddNode
    <2>1. /\ blocks' = Linked(list.prev, "node", heap) \cup {New("node", NodeSize, list.n + 1)}
          /\ reqs' = reqs /\ resp' = resp /\ i' = i /\ pc = "memmap" /\ pc' = "memmap"
          /\ list' = [list EXCEPT !.n = list.n + 1, !.prev = heap,
                                  !.first = IF list.first = 0 THEN heap ELSE list.first]
        BY <1>12 DEF AddNode, kernel, scan
    <2>2. list'.prev = heap /\ list'.first \in {list.first, heap}
        BY <1>0, <2>1 DEF TypeOK
    <2>3. list.n + 1 \in Nat /\ NodeSize \in Nat /\ NodeSize > 0 /\ "node" \in Kinds
        BY <1>0 DEF TypeOK, NodeSize, Kinds
    <2>4. /\ \A w, a : Has(blocks, w, a) => Has(blocks', w, a)
          /\ Has(blocks', "node", heap) /\ EndsAt(blocks', "node", heap)
        BY <2>1, <2>3, LinkGrows
    <2>5. Asked(2) /\ (list.first # 0 => Has(blocks, "node", list.first))
        BY <1>0, <2>1 DEF Making, Holds, Has
    <2>6. list'.first # 0 => Has(blocks', "node", list'.first)
        BY <2>2, <2>4, <2>5
    <2>7. EndsAt(blocks', "node", list'.prev)
        BY <2>2, <2>4
    <2>8. Making'
        BY <2>1, <2>5, <2>6, <2>7 DEF Making, Asked, Holds, Has
    <2> QED BY <2>1, <2>3, <2>8, GrowLinks
<1>13. CASE AddNullNode
    <2>1. /\ blocks' = blocks /\ reqs' = reqs /\ resp' = resp /\ i' = i
          /\ pc = "memmap" /\ pc' = "memmap" /\ list'.prev = 0 /\ list'.first = list.first
        BY <1>0, <1>13 DEF AddNullNode, memory, kernel, scan, TypeOK
    <2>2. Making'
        BY <1>0, <1>2, <2>1 DEF Making, Asked, Holds
    <2> QED BY <2>1, <2>2, LinkStill
<1>14. CASE ReturnMemmap
    <2>1. /\ blocks' = blocks /\ reqs' = reqs /\ pc = "memmap" /\ pc' = "scan"
          /\ resp' = [resp EXCEPT ![i] = list.first]
        BY <1>14 DEF ReturnMemmap, memory, kernel
    <2>2. Asked(2) /\ list.first \in Nat /\ (list.first # 0 => Has(blocks, Answers[2], list.first))
        BY <1>0, <2>1 DEF Making, Holds, Has, Answers, TypeOK
    <2>3. Making'
        BY <2>1 DEF Making
    <2>4. \E a \in Nat, id \in 1 .. 6 :
             /\ Asked(id) /\ resp' = [resp EXCEPT ![i] = a]
             /\ a # 0 => Has(blocks, Answers[id], a)
        <3>1. PICK a \in Nat, id \in 1 .. 6 : a = list.first /\ id = 2
            BY <2>2
        <3>2. /\ Asked(id) /\ resp' = [resp EXCEPT ![i] = a]
              /\ a # 0 => Has(blocks, Answers[id], a)
            BY <2>1, <2>2, <3>1
        <3> QED BY <3>2
    <2> QED BY <2>1, <2>3, <2>4, LinkStill
<1>15. CASE TakeBuffer
    <2>1. CASE OutOfMemory
        BY <1>6, <2>1
    <2>2. CASE ~OutOfMemory
        <3>1. /\ Asked(4) /\ blocks' = blocks \cup {New("buffer", CmdlineBuffer, 0)}
              /\ pc' = "cmdline" /\ resp' = resp /\ reqs' = reqs /\ i' = i
            BY <1>15, <2>2 DEF TakeBuffer, Serving, Asked, kernel, scan
        <3>2. Making' /\ CmdlineBuffer \in Nat /\ "buffer" \in Kinds
            BY <3>1 DEF Making, Asked, CmdlineBuffer, Kinds
        <3> QED BY <3>1, <3>2, GrowLinks
    <2> QED BY <2>1, <2>2
<1>16. CASE ReadCmdline
    <2>1. pc = "cmdline" /\ (DropBuffer \/ PublishCmdline \/ OutOfMemory)
        BY <1>16 DEF ReadCmdline
    <2>2. CASE PublishCmdline
        <3>1. /\ blocks' = blocks \cup {New("cmdline", CmdlineSize, heap - CmdlineBuffer)}
              /\ pc' = "scan" /\ resp' = [resp EXCEPT ![i] = heap] /\ reqs' = reqs
            BY <2>2 DEF PublishCmdline, kernel
        <3>2. Making' /\ CmdlineSize \in Nat /\ "cmdline" \in Kinds
            BY <3>1 DEF Making, CmdlineSize, Kinds
        <3>3. Asked(4) /\ Answers[4] = "cmdline"
            BY <1>0, <2>1 DEF Making, Answers
        <3>4. /\ heap - CmdlineBuffer \in Nat
              /\ heap - CmdlineBuffer + CmdlineBuffer <= heap
            BY <1>0, <2>1 DEF TypeOK, CmdlineBuffer
        <3>5. Has(blocks, "buffer", heap - CmdlineBuffer)
            BY <2>1 DEF HeapInv, BufferOnTop, Has
        <3> QED BY <3>1, <3>2, <3>3, <3>4, <3>5, GrowLinks
    <2> QED BY <1>6, <2>1, <2>2, LinkDrop
<1>17. CASE FindModule
    <2>1. pc = "modules" /\ (EndModules \/ OutOfMemory \/ \E f \in Files : TakeData(f))
        <3>1. NextModule \in Files \cup {NoModule} /\ AnyModule \subseteq Files \cup {NoModule}
            <4>1. list.n \in Nat
                BY <1>0 DEF TypeOK
            <4>2. list.n < Len(disk.modules) => disk.modules[list.n + 1] \in Files
                BY <1>0, <4>1, Inputs
            <4> QED BY <4>2 DEF NextModule, AnyModule
        <3>2. \A m : Saw(m, NextModule, AnyModule) \subseteq Files \cup {NoModule}
            BY <3>1 DEF Saw
        <3> QED BY <1>17, <3>2 DEF FindModule
    <2>2. CASE EndModules
        BY <1>3, <2>2 DEF EndModules, memory, kernel
    <2>3. ASSUME NEW f \in Files, TakeData(f) PROVE LinkInv'
        <3>1. /\ blocks' = blocks \cup {New("data", f.size, list.n + 1)}
              /\ list' = [list EXCEPT !.n = list.n + 1, !.data = heap]
              /\ pc' = "module" /\ resp' = resp /\ reqs' = reqs /\ i' = i
            BY <2>3 DEF TakeData, kernel, scan
        <3>2. f.size \in Nat /\ list.n + 1 \in Nat /\ "data" \in Kinds
            <4>1. f.size \in Word
                BY DisksAssumption DEF File
            <4>2. f.size \in Nat
                BY <4>1, WordSizeAssumption DEF Word
            <4> QED BY <1>0, <4>2 DEF TypeOK, Kinds
        <3>3. list'.prev = list.prev /\ list'.data = heap
            BY <1>0, <3>1 DEF TypeOK
        <3>4. Has(blocks', "data", heap)
            BY <3>1, <3>2, LinkGrows
        <3>5. Asked(6) /\ EndsAt(blocks, "module", list.prev)
            BY <1>0, <2>1 DEF Making
        <3>6. EndsAt(blocks', "module", list.prev)
            BY <3>1, <3>5 DEF EndsAt, New
        <3>7. Has(blocks', "data", list'.data) /\ EndsAt(blocks', "module", list'.prev)
            BY <3>3, <3>4, <3>6
        <3>8. Making'
            BY <3>1, <3>5, <3>7 DEF Making, Asked, Holds, Has
        <3> QED BY <3>1, <3>2, <3>8, GrowLinks
    <2> QED BY <1>6, <2>1, <2>2, <2>3
<1>18. CASE LoadModule
    <2>1. pc = "module" /\ (PublishModule \/ OutOfMemory)
        BY <1>18 DEF LoadModule
    <2>2. CASE PublishModule
        <3>1. /\ blocks' = Linked(list.prev, "module", heap)
                              \cup {New("module", ModuleSize, list.data)}
              /\ list' = [list EXCEPT !.prev = heap]
              /\ pc' = "modules" /\ reqs' = reqs /\ i' = i
              /\ resp' = resp \/ resp' = [resp EXCEPT ![i] = heap]
            BY <2>2 DEF PublishModule, kernel
        <3>2. list'.prev = heap /\ list.data \in Nat
            BY <1>0, <3>1 DEF TypeOK
        <3>3. ModuleSize \in Nat /\ ModuleSize > 0 /\ "module" \in Kinds
            BY DEF ModuleSize, Kinds
        <3>4. Asked(6) /\ Answers[6] = "module" /\ Has(blocks, "data", list.data)
            BY <1>0, <2>1 DEF Making, Answers, Holds, Has
        <3>5. EndsAt(blocks', "module", heap)
            BY <3>1, <3>2, <3>3, <3>4, LinkGrows
        <3>6. EndsAt(blocks', "module", list'.prev)
            BY <3>2, <3>5
        <3>7. Making'
            BY <3>1, <3>4, <3>6 DEF Making, Asked
        <3> QED BY <3>1, <3>2, <3>3, <3>4, <3>7, GrowLinks
    <2> QED BY <1>6, <2>1, <2>2
<1>19. CASE EnterKernel
    <2>1. CASE OutOfMemory
        BY <1>6, <2>1
    <2>2. CASE ~OutOfMemory
        <3>1. /\ blocks' = blocks \cup {New("stack", StackSize, 0)}
              /\ pc' = "entered" /\ resp' = resp /\ reqs' = reqs
            BY <1>19, <2>2 DEF EnterKernel, kernel, scan
        <3>2. Making' /\ StackSize \in Nat /\ "stack" \in Kinds
            BY <3>1 DEF Making, StackSize, Kinds
        <3> QED BY <3>1, <3>2, GrowLinks
    <2> QED BY <2>1, <2>2
<1> QED
    BY <1>4, <1>5, <1>7, <1>8, <1>10, <1>11, <1>12, <1>13, <1>14, <1>15, <1>16, <1>17, <1>18, <1>19
       DEF Next, Answer, Done

\* What the kernel will follow is in order at every moment.
THEOREM LinksCorrect == Spec => [](HeapInv /\ LinkInv)
<1>1. Init => HeapInv /\ LinkInv
    BY HeapInit, LinkInit
<1>2. HeapInv /\ LinkInv /\ [Next]_vars => (HeapInv /\ LinkInv)'
    BY HeapStep, LinkStep
<1> QED BY <1>1, <1>2, PTL DEF Spec

\* At every moment of every boot, whatever a response, a list, a command line or
\* a module points at is a live block of the right kind, and lists end.
THEOREM NothingDangles == Spec => []NoDangling
<1>1. LinkInv => NoDangling
    BY DEF LinkInv, Answered, Sound, NoDangling
<1> QED BY <1>1, LinksCorrect, PTL

\* A structure stays as it is, or is linked to the one that follows it; or it is
\* the buffer of a command line that is looked up.
Stays(b) == \/ b.what = "buffer" /\ pc = "cmdline"
            \/ \E c \in blocks' : c = [b EXCEPT !.next = c.next] /\ b.next \in {0, c.next}

\* A structure that a step neither links nor takes back stays as it is.
LEMMA SameStays == ASSUME TypeOK, NEW b \in blocks, b \in blocks' PROVE Stays(b)
<1>1. b = [b EXCEPT !.next = b.next]
    BY DEF TypeOK, Struct
<1> QED BY <1>1 DEF Stays

\* Linking the end of a list changes nothing but its next field, which was 0.
LEMMA LinkedStays ==
    ASSUME TypeOK, NEW b \in blocks, NEW what, NEW p, EndsAt(blocks, what, p),
           Linked(p, what, heap) \subseteq blocks'
    PROVE  Stays(b)
<1>1. CASE b.base = p /\ b.what = what
    <2>1. [b EXCEPT !.next = heap] \in blocks'
        BY <1>1, Zenon DEF Linked
    <2>2. PICK c \in blocks' : c = [b EXCEPT !.next = heap]
        BY <2>1
    <2>3. b \in Struct /\ heap \in Nat /\ b.next = 0
        BY <1>1 DEF TypeOK, EndsAt
    <2>4. c.next = heap
        BY <2>2, <2>3 DEF Struct
    <2> QED BY <2>2, <2>3, <2>4 DEF Stays
<1>2. CASE ~(b.base = p /\ b.what = what)
    <2>1. b \in Linked(p, what, heap)
        BY <1>2, Zenon DEF Linked
    <2> QED BY <2>1, SameStays
<1> QED BY <1>1, <1>2

\* Every step leaves the structures as they are, but for the end of a list.
LEMMA StableStep ==
    ASSUME HeapInv, LinkInv, [Next]_vars, NEW b \in blocks
    PROVE  Stays(b)
<1>0. TypeOK /\ Making
    BY DEF HeapInv, LinkInv
<1>1. CASE b \in blocks'
    BY <1>0, <1>1, SameStays
<1>2. CASE AddNode
    BY <1>0, <1>2, LinkedStays DEF AddNode, Making
<1>3. CASE LoadModule /\ PublishModule
    BY <1>0, <1>3, LinkedStays DEF LoadModule, PublishModule, Making
<1>4. CASE ReadCmdline /\ DropBuffer
    <2>1. pc = "cmdline" /\ (b \in blocks' \/ b.what = "buffer")
        BY <1>4 DEF ReadCmdline, DropBuffer
    <2> QED BY <1>1, <2>1 DEF Stays
<1>5. OutOfMemory => blocks' = blocks
    BY DEF OutOfMemory, memory
<1>6. CASE InitFat \/ OpenConfig \/ ReadPath \/ OpenKernel \/ ReadHeader \/ CheckHeader
           \/ LoadKernel \/ Unknown \/ StartMemmap \/ AddNullNode \/ ReturnMemmap
           \/ StartModules \/ Hang \/ UNCHANGED vars
    <2>1. blocks' = blocks
        BY <1>6 DEF InitFat, OpenConfig, ReadPath, Requires, OpenKernel, ReadHeader, CheckHeader,
           LoadKernel, Unknown, StartMemmap, AddNullNode, ReturnMemmap, StartModules, Hang,
           vars, memory
    <2> QED BY <1>1, <2>1
<1>7. CASE Kmem \/ Framebuffer \/ Terminal \/ TakeBuffer \/ EnterKernel
    <2>1. blocks \subseteq blocks'
        BY <1>5, <1>7 DEF Kmem, Framebuffer, Terminal, Simple, TakeBuffer, EnterKernel
    <2> QED BY <1>1, <2>1
<1>8. CASE ReadCmdline /\ ~DropBuffer
    <2>1. blocks \subseteq blocks'
        BY <1>5, <1>8 DEF ReadCmdline, PublishCmdline
    <2> QED BY <1>1, <2>1
<1>9. CASE FindModule
    <2>1. blocks \subseteq blocks'
        BY <1>5, <1>9 DEF FindModule, EndModules, TakeData, memory
    <2> QED BY <1>1, <2>1
<1>10. CASE LoadModule /\ ~PublishModule
    <2>1. blocks \subseteq blocks'
        BY <1>5, <1>10 DEF LoadModule
    <2> QED BY <1>1, <2>1
<1> QED
    BY <1>2, <1>3, <1>4, <1>6, <1>7, <1>8, <1>9, <1>10 DEF Next, Answer, Done

\* Once the kernel could have been told of a structure, no step changes it, but
\* for the link from the end of a list: nothing moves under a pointer.
THEOREM StructuresStable == Spec => PublishedStable
<1>1. HeapInv /\ LinkInv /\ [Next]_vars =>
          [\A b \in blocks :
              \/ b.what = "buffer" /\ pc = "cmdline"
              \/ \E c \in blocks' : /\ c = [b EXCEPT !.next = c.next]
                                    /\ b.next \in {0, c.next}]_vars
    BY StableStep DEF Stays
<1> QED BY <1>1, LinksCorrect, PTL DEF Spec, PublishedStable
-----------------------------------------------------------------------------
(***************************************************************************)
(* The inductive invariant of the responses, for a boot without misreads.  *)
(***************************************************************************)
Modules == disk.modules

\* What the n-th structure of a list says: the n-th region, or where the n-th
\* module of D is.
Tells(D, B, what, n, b) ==
    IF what = "node" THEN b.ref = n
    ELSE \E d \in B : /\ d.what = "data" /\ d.base = b.ref
                      /\ d.ref = n /\ d.size = D[n].size

\* The blocks B hold a list of n structures, the first at a and the last at z.
Chain(D, B, what, a, n, z) ==
    IF n = 0 THEN a = 0 /\ z = 0
    ELSE \E nodes \in [1 .. n -> {b \in B : b.what = what}] :
            /\ nodes[1].base = a /\ nodes[n].next = 0 /\ nodes[n].base = z
            /\ \A k \in 1 .. n - 1 : nodes[k].next = nodes[k + 1].base
            /\ \A k \in 1 .. n : Tells(D, B, what, k, nodes[k])

\* The structure that the next one will be linked to, if a list is in the making.
Open == IF pc \in {"memmap", "modules", "module"} THEN list.prev ELSE 0

\* A list that no later step can reach.
Closed(what, a, n) ==
    \E z \in Nat : Chain(Modules, blocks, what, a, n, z) /\ (z = 0 \/ z # Open)

\* Request k is answered in full.
Complete(k) ==
    /\ reqs[k] \in {1, 3, 5} => resp[k] # 0
    /\ reqs[k] = 2 => Closed("node", resp[k], Len(machine.map))
    /\ reqs[k] = 4 => (resp[k] # 0 <=> disk.cmdline)
    /\ reqs[k] = 6 => Closed("module", resp[k], Len(disk.modules))
    /\ reqs[k] \notin 1 .. 6 => resp[k] = 0

Served == \A k \in DOMAIN reqs : (k < i => Complete(k)) /\ (k > i => resp[k] = 0)

Blank == i \in DOMAIN reqs /\ pc \notin {"modules", "module"} => resp[i] = 0

\* The list in the making holds what the loop has been through.
Current ==
    /\ pc = "memmap" => Chain(Modules, blocks, "node", list.first, list.n, list.prev)
    /\ pc = "modules" => /\ Chain(Modules, blocks, "module", resp[i], list.n, list.prev)
                         /\ list.n <= Len(disk.modules)
    /\ pc = "module" => /\ Chain(Modules, blocks, "module", resp[i], list.n - 1, list.prev)
                        /\ list.n >= 1 /\ list.n <= Len(disk.modules)
                        /\ \E d \in blocks : /\ d.what = "data" /\ d.base = list.data
                                             /\ d.ref = list.n
                                             /\ d.size = disk.modules[list.n].size
    /\ pc = "entered" => i \notin DOMAIN reqs

Clean == misread = {} /\ ~nullWrite /\ pc \in Serves

FullInv ==
    /\ pc \notin Serves \cup Final => i = 1
    /\ Clean => Served /\ Blank /\ Current

\* Only the end of the list in the making and a buffer are ever not kept.
Kept == \A b \in blocks :
            b.what # "buffer" =>
                b \in blocks' \/ (b.what \in {"node", "module"} /\ b.base = Open /\ b.next = 0)

\* A list is empty if it has no first structure, or no last one.
LEMMA ChainEmpty ==
    ASSUME HeapInv, LinkInv, NEW D, NEW what, NEW a, NEW z, NEW n \in Nat,
           Chain(D, blocks, what, a, n, z)
    PROVE  (n = 0 <=> a = 0) /\ (n = 0 <=> z = 0)
<1>1. \A b \in blocks : b.base # 0
    BY BelowTop
<1>2. CASE n = 0
    BY <1>2 DEF Chain
<1>3. CASE n # 0
    <2>1. PICK nodes \in [1 .. n -> {b \in blocks : b.what = what}] :
              nodes[1].base = a /\ nodes[n].base = z
        BY <1>3 DEF Chain
    <2>2. nodes[1] \in blocks /\ nodes[n] \in blocks
        BY <1>3, <2>1
    <2> QED BY <1>1, <1>3, <2>1, <2>2
<1> QED BY <1>2, <1>3

\* A step that only adds to the heap keeps every list as it is.
LEMMA ChainStays ==
    ASSUME NEW D, NEW what, NEW a, NEW z, NEW n \in Nat, n # 0, blocks \subseteq blocks',
           Chain(D, blocks, what, a, n, z)
    PROVE  Chain(D, blocks', what, a, n, z)
<1>1. PICK nodes \in [1 .. n -> {b \in blocks : b.what = what}] :
          /\ nodes[1].base = a /\ nodes[n].next = 0 /\ nodes[n].base = z
          /\ \A k \in 1 .. n - 1 : nodes[k].next = nodes[k + 1].base
          /\ \A k \in 1 .. n : Tells(D, blocks, what, k, nodes[k])
    BY DEF Chain
<1>2. \A k \in 1 .. n : Tells(D, blocks', what, k, nodes[k])
    BY <1>1 DEF Tells
<1>3. nodes \in [1 .. n -> {b \in blocks' : b.what = what}]
    BY <1>1
<1> QED BY <1>1, <1>2, <1>3 DEF Chain

\* A list that is not in the making stays, below the heap's top.
LEMMA ChainKept ==
    ASSUME HeapInv, LinkInv, Kept, NEW D, NEW what \in {"node", "module"}, NEW a, NEW z,
           NEW n \in Nat, Chain(D, blocks, what, a, n, z), z = 0 \/ z # Open
    PROVE  Chain(D, blocks', what, a, n, z) /\ (z = 0 \/ z < heap)
<1>1. CASE n = 0
    BY <1>1 DEF Chain
<1>2. CASE n # 0
    <2>1. PICK nodes \in [1 .. n -> {b \in blocks : b.what = what}] :
              /\ nodes[1].base = a /\ nodes[n].next = 0 /\ nodes[n].base = z
              /\ \A k \in 1 .. n - 1 : nodes[k].next = nodes[k + 1].base
              /\ \A k \in 1 .. n : Tells(D, blocks, what, k, nodes[k])
        BY <1>2 DEF Chain
    <2>2. \A k \in 1 .. n : nodes[k] \in blocks /\ nodes[k].what = what
        BY <2>1
    <2>3. \A b \in blocks : b.base # 0 /\ (b.what \in {"node", "module"} => b.base < heap)
        BY BelowTop
    <2>4. n \in 1 .. n /\ z # 0 /\ z < heap
        BY <1>2, <2>1, <2>2, <2>3
    <2>5. ASSUME NEW k \in 1 .. n PROVE nodes[k] \in blocks'
        <3>1. CASE k = n
            BY <2>1, <2>2, <2>4, <3>1 DEF Kept
        <3>2. CASE k # n
            <4>1. k \in 1 .. n - 1 /\ k + 1 \in 1 .. n
                BY <3>2
            <4>2. nodes[k].next # 0
                BY <2>1, <2>2, <2>3, <4>1
            <4> QED BY <2>2, <4>2 DEF Kept
        <3> QED BY <3>1, <3>2
    <2>6. ASSUME NEW k \in 1 .. n PROVE Tells(D, blocks', what, k, nodes[k])
        BY <2>1, <2>6 DEF Tells, Kept
    <2>7. nodes \in [1 .. n -> {b \in blocks' : b.what = what}]
        BY <2>1, <2>2, <2>5
    <2> QED BY <1>2, <2>1, <2>4, <2>6, <2>7 DEF Chain
<1> QED BY <1>1, <1>2

\* The structure that AddNode or PublishModule allocates becomes the list's end.
LEMMA ChainGrows ==
    ASSUME HeapInv, LinkInv, NEW D, NEW what \in {"node", "module"}, NEW a, NEW p,
           NEW n \in Nat, NEW size \in Nat, NEW ref \in Nat,
           Chain(D, blocks, what, a, n, p), EndsAt(blocks, what, p),
           blocks' = Linked(p, what, heap) \cup {New(what, size, ref)},
           Tells(D, blocks', what, n + 1, New(what, size, ref))
    PROVE  Chain(D, blocks', what, IF n = 0 THEN heap ELSE a, n + 1, heap)
<1>0. PICK new : new = New(what, size, ref)
    OBVIOUS
<1>1. /\ new \in blocks' /\ new.base = heap /\ new.what = what /\ new.next = 0
      /\ Tells(D, blocks', what, n + 1, new)
    BY <1>0 DEF New
<1>2. CASE n = 0
    <2> DEFINE m == [j \in 1 .. 1 |-> new]
    <2>1. m \in [1 .. n + 1 -> {b \in blocks' : b.what = what}]
        BY <1>1, <1>2
    <2>2. m[1] = new /\ m[n + 1] = new
        BY <1>2
    <2>3. \A k \in 1 .. n + 1 : m[k] = new /\ k = n + 1
        BY <1>2
    <2>4. 1 .. (n + 1) - 1 = {} /\ n + 1 # 0
        BY <1>2
    <2> HIDE DEF m
    <2> QED BY <1>1, <1>2, <2>1, <2>2, <2>3, <2>4 DEF Chain
<1>3. CASE n # 0
    <2>1. PICK nodes \in [1 .. n -> {b \in blocks : b.what = what}] :
              /\ nodes[1].base = a /\ nodes[n].next = 0 /\ nodes[n].base = p
              /\ \A k \in 1 .. n - 1 : nodes[k].next = nodes[k + 1].base
              /\ \A k \in 1 .. n : Tells(D, blocks, what, k, nodes[k])
        BY <1>3 DEF Chain
    <2>2. /\ \A k \in 1 .. n : nodes[k] \in blocks /\ nodes[k].what = what
          /\ \A b \in blocks : b.base # 0 /\ b \in Struct
          /\ heap \in Nat
        BY <2>1, BelowTop
    <2>3. PICK end : end = [nodes[n] EXCEPT !.next = heap]
        OBVIOUS
    <2>4. /\ end \in blocks' /\ end.base = p /\ end.what = what /\ end.next = heap
          /\ end.ref = nodes[n].ref
        <3>1. nodes[n] \in blocks /\ nodes[n] \in Struct /\ nodes[n].base = p /\ nodes[n].what = what
            BY <1>3, <2>1, <2>2
        <3>2. end \in Linked(p, what, heap)
            BY <2>3, <3>1, Zenon DEF Linked
        <3> QED BY <2>2, <2>3, <3>1, <3>2 DEF Struct
    <2>5. ASSUME NEW b \in blocks, b.next # 0 \/ b.what # what PROVE b \in blocks'
        <3>1. ~(b.base = p /\ b.what = what)
            BY <2>5 DEF EndsAt
        <3>2. b \in Linked(p, what, heap)
            BY <3>1, Zenon DEF Linked
        <3> QED BY <3>2
    <2> DEFINE m == [j \in 1 .. n + 1 |-> IF j = n + 1 THEN new ELSE IF j = n THEN end ELSE nodes[j]]
    <2>6. /\ m[n + 1] = new /\ m[n] = end /\ DOMAIN m = 1 .. n + 1
          /\ \A k \in 1 .. n - 1 : m[k] = nodes[k]
        BY <1>3
    <2>7. \A k \in 1 .. n + 1 : k = n + 1 \/ k = n \/ k \in 1 .. n - 1
        OBVIOUS
    <2>8. ASSUME NEW k \in 1 .. n - 1
          PROVE  nodes[k] \in blocks' /\ nodes[k].next = nodes[k + 1].base
        <3>1. k \in 1 .. n /\ k + 1 \in 1 .. n /\ nodes[k].next = nodes[k + 1].base
            BY <2>1
        <3>2. nodes[k].next # 0
            BY <2>2, <3>1
        <3> QED BY <2>2, <2>5, <3>1, <3>2
    <2>9. m \in [1 .. n + 1 -> {b \in blocks' : b.what = what}]
        <3>1. ASSUME NEW k \in 1 .. n + 1 PROVE m[k] \in blocks' /\ m[k].what = what
            <4>1. CASE k \in 1 .. n - 1
                <5>1. m[k] = nodes[k] /\ k \in 1 .. n
                    BY <2>6, <4>1
                <5> QED BY <2>2, <2>8, <4>1, <5>1
            <4> QED BY <1>1, <2>4, <2>6, <2>7, <4>1
        <3> QED BY <3>1
    <2>10. m[1].base = a
        <3>1. CASE n = 1
            BY <2>1, <2>4, <2>6, <3>1
        <3>2. CASE n # 1
            <4>1. 1 \in 1 .. n - 1
                BY <1>3, <3>2
            <4> QED BY <2>1, <2>6, <4>1
        <3> QED BY <3>1, <3>2
    <2>11. ASSUME NEW k \in 1 .. (n + 1) - 1 PROVE m[k].next = m[k + 1].base
        <3>1. CASE k = n
            BY <1>1, <2>4, <2>6, <3>1
        <3>2. CASE k # n
            <4>1. k \in 1 .. n - 1
                BY <3>2
            <4>2. m[k] = nodes[k] /\ nodes[k].next = nodes[k + 1].base
                BY <2>6, <2>8, <4>1
            <4>3. m[k + 1].base = nodes[k + 1].base
                <5>1. CASE k + 1 = n
                    BY <2>1, <2>4, <2>6, <5>1
                <5>2. CASE k + 1 # n
                    <6>1. k + 1 \in 1 .. n - 1
                        BY <4>1, <5>2
                    <6> QED BY <2>6, <6>1
                <5> QED BY <5>1, <5>2
            <4> QED BY <4>2, <4>3
        <3> QED BY <3>1, <3>2
    <2>12. ASSUME NEW k \in 1 .. n + 1 PROVE Tells(D, blocks', what, k, m[k])
        <3>1. CASE k = n + 1
            BY <1>1, <2>6, <3>1
        <3>2. CASE k # n + 1
            <4>1. k \in 1 .. n
                BY <3>2
            <4>2. m[k].ref = nodes[k].ref
                BY <2>4, <2>6, <2>7, <3>2
            <4>3. Tells(D, blocks, what, k, nodes[k])
                BY <2>1, <4>1
            <4>4. \A d \in blocks : d.what = "data" => d \in blocks'
                BY <2>5
            <4> HIDE DEF m
            <4> QED BY <4>2, <4>3, <4>4 DEF Tells
        <3> QED BY <3>1, <3>2
    <2>13. m[n + 1].next = 0 /\ m[n + 1].base = heap /\ n + 1 # 0
        BY <1>1, <2>6
    <2> HIDE DEF m
    <2>14. Chain(D, blocks', what, a, n + 1, heap)
        BY <2>9, <2>10, <2>11, <2>12, <2>13, Zenon DEF Chain
    <2> QED BY <1>3, <2>14
<1> QED BY <1>2, <1>3

\* So does a list that is complete.
LEMMA ClosedKept ==
    ASSUME HeapInv, LinkInv, Kept, disk' = disk, Open' \in {0, Open, heap},
           NEW what \in {"node", "module"}, NEW a, NEW n \in Nat, Closed(what, a, n)
    PROVE  \E z \in Nat : Chain(Modules', blocks', what, a, n, z) /\ (z = 0 \/ z # Open')
<1>1. PICK z \in Nat : Chain(Modules, blocks, what, a, n, z) /\ (z = 0 \/ z # Open)
    BY DEF Closed
<1>2. Chain(Modules, blocks', what, a, n, z) /\ (z = 0 \/ z < heap)
    BY <1>1, ChainKept
<1>3. heap \in Nat
    BY DEF HeapInv, TypeOK
<1>4. z = 0 \/ z # Open'
    BY <1>1, <1>2, <1>3
<1>5. Modules' = Modules
    BY DEF Modules
<1> QED BY <1>2, <1>4, <1>5

\* What has been answered in full stays so.
LEMMA CompleteKept ==
    ASSUME HeapInv, LinkInv, Kept, machine' = machine, disk' = disk, reqs' = reqs,
           Open' \in {0, Open, heap},
           NEW k \in DOMAIN reqs, resp'[k] = resp[k], Complete(k)
    PROVE  Complete(k)'
<1>1. Len(machine.map) \in Nat /\ Len(disk.modules) \in Nat
    BY Inputs DEF HeapInv
<1>2. ASSUME reqs[k] = 2 PROVE Closed("node", resp[k], Len(machine.map))'
    <2>1. Closed("node", resp[k], Len(machine.map))
        BY <1>2 DEF Complete
    <2> QED BY <1>1, <2>1, ClosedKept DEF Closed
<1>3. ASSUME reqs[k] = 6 PROVE Closed("module", resp[k], Len(disk.modules))'
    <2>1. Closed("module", resp[k], Len(disk.modules))
        BY <1>3 DEF Complete
    <2> QED BY <1>1, <2>1, ClosedKept DEF Closed
<1>4. /\ reqs'[k] \in {1, 3, 5} => resp'[k] # 0
      /\ reqs'[k] = 4 => (resp'[k] # 0 <=> disk'.cmdline)
      /\ reqs'[k] \notin 1 .. 6 => resp'[k] = 0
    BY DEF Complete
<1> QED BY <1>2, <1>3, <1>4 DEF Complete

\* A step that goes on to the next request, if this one is answered, keeps the
\* rest as it is.
LEMMA ServedKept ==
    ASSUME HeapInv, LinkInv, Served, Blank, Kept,
           machine' = machine, disk' = disk, reqs' = reqs, Open' \in {0, Open, heap},
           \A k \in DOMAIN reqs : k # i => resp'[k] = resp[k],
           \/ i' = i + 1 /\ \E k \in DOMAIN reqs : k = i /\ Complete(k)'
           \/ i' = i /\ pc' \in {"modules", "module"}
           \/ i' = i /\ pc \notin {"modules", "module"} /\ resp' = resp
    PROVE  Served' /\ Blank'
<1>1. DOMAIN reqs \subseteq Nat /\ i \in Nat
    BY DEF HeapInv, TypeOK
<1>2. ASSUME NEW k \in DOMAIN reqs, k < i PROVE Complete(k)'
    <2>1. Complete(k) /\ resp'[k] = resp[k]
        BY <1>1, <1>2 DEF Served
    <2> QED BY <2>1, CompleteKept
<1>3. ASSUME NEW k \in DOMAIN reqs, k > i PROVE resp'[k] = 0
    BY <1>1, <1>3 DEF Served
<1>4. Served'
    <2>1. ASSUME NEW k \in DOMAIN reqs, k < i' PROVE Complete(k)'
        <3>1. k < i \/ (k = i /\ i' = i + 1)
            BY <1>1, <2>1
        <3>2. CASE k < i
            BY <1>2, <3>2
        <3>3. CASE k = i /\ i' = i + 1
            <4>1. PICK j \in DOMAIN reqs : j = i /\ Complete(j)'
                BY <1>1, <3>3
            <4> QED BY <3>3, <4>1
        <3> QED BY <3>1, <3>2, <3>3
    <2>2. ASSUME NEW k \in DOMAIN reqs, k > i' PROVE resp'[k] = 0
        BY <1>1, <1>3, <2>2
    <2> QED BY <2>1, <2>2 DEF Served
<1>5. Blank'
    BY <1>1, <1>3 DEF Blank
<1> QED BY <1>4, <1>5

\* Until a kernel is loaded no request has been seen.
LEMMA BeforeScan ==
    ASSUME HeapInv, FullInv, [Next]_vars, pc' \notin Serves \cup Final
    PROVE  i' = 1
<1>1. pc \notin Serves \cup Final => i = 1
    BY DEF FullInv
<1>2. CASE InitFat \/ OpenConfig \/ ReadPath \/ OpenKernel \/ ReadHeader \/ CheckHeader
    BY <1>1, <1>2 DEF InitFat, OpenConfig, ReadPath, Requires, OpenKernel, ReadHeader, CheckHeader,
       scan, Serves, Final
<1>3. CASE LoadKernel \/ Answer \/ EnterKernel \/ Hang
    <2>1. OutOfMemory => pc' \in Final
        BY DEF OutOfMemory, Final
    <2>2. CASE LoadKernel \/ Hang \/ EnterKernel
        BY <2>1, <2>2 DEF LoadKernel, Hang, EnterKernel, Serves, Final
    <2>3. CASE Answer
        BY <2>1, <2>3 DEF Answer, Kmem, Framebuffer, Terminal, Simple, Serving, Unknown, StartMemmap,
           AddNode, AddNullNode, ReturnMemmap, TakeBuffer, ReadCmdline, DropBuffer, PublishCmdline,
           StartModules, FindModule, EndModules, TakeData, LoadModule, PublishModule, Serves, Final
    <2> QED BY <1>3, <2>2, <2>3
<1>4. CASE UNCHANGED vars
    BY <1>1, <1>4 DEF vars, scan
<1> QED BY <1>2, <1>3, <1>4 DEF Next, Done

\* A step after which nothing has been misread came from such a state, unless it
\* loaded the kernel.
LEMMA CleanBefore ==
    ASSUME HeapInv, [Next]_vars, Clean'
    PROVE  /\ misread = {} /\ nullWrite = FALSE
           /\ pc \in Serves \/ LoadKernel
           /\ ~AddNullNode /\ ~Hang /\ ~OutOfMemory
<1>0. TypeOK
    BY DEF HeapInv
<1>1. \A m \in Misreads(heap) : misread \subseteq m
    BY <1>0, MisreadsGrow
<1>2. misread' = {} /\ nullWrite' = FALSE /\ pc' \in Serves
    BY TypeStep, <1>0 DEF Clean, TypeOK
<1>3. ~OutOfMemory /\ ~Hang /\ ~AddNullNode
    BY <1>2 DEF OutOfMemory, Hang, AddNullNode, Serves
<1>4. pc \in Serves \/ LoadKernel
    <2>1. CASE InitFat \/ OpenConfig \/ ReadPath \/ OpenKernel \/ ReadHeader \/ CheckHeader
        BY <1>2, <2>1 DEF InitFat, OpenConfig, ReadPath, Requires, OpenKernel, ReadHeader,
           CheckHeader, Serves
    <2>2. CASE Answer \/ EnterKernel
        BY <2>2 DEF Answer, Kmem, Framebuffer, Terminal, Simple, Serving, Unknown, StartMemmap,
           AddNode, AddNullNode, ReturnMemmap, TakeBuffer, ReadCmdline, StartModules, FindModule,
           LoadModule, EnterKernel, Serves
    <2>3. CASE UNCHANGED vars
        BY <1>2, <2>3 DEF vars
    <2> QED BY <1>3, <2>1, <2>2, <2>3 DEF Next, Done
<1>5. misread = {} /\ nullWrite = FALSE
    <2>1. misread' = misread \/ misread' \in Misreads(heap)
        <3>1. CASE InitFat \/ OpenConfig \/ ReadPath \/ OpenKernel \/ ReadHeader \/ CheckHeader
                   \/ LoadKernel \/ EnterKernel
            BY <3>1 DEF InitFat, OpenConfig, ReadPath, Requires, OpenKernel, ReadHeader,
               CheckHeader, LoadKernel, EnterKernel
        <3>2. CASE Answer
            BY <3>2 DEF Answer, Kmem, Framebuffer, Terminal, Simple, Unknown, StartMemmap,
               AddNode, AddNullNode, ReturnMemmap, TakeBuffer, ReadCmdline, StartModules,
               FindModule, LoadModule
        <3>3. CASE UNCHANGED vars
            BY <3>3 DEF vars
        <3> QED BY <1>3, <3>1, <3>2, <3>3 DEF Next, Done
    <2>2. nullWrite' = nullWrite
        <3>1. CASE InitFat \/ OpenConfig \/ ReadPath \/ OpenKernel \/ ReadHeader \/ CheckHeader
                   \/ LoadKernel \/ EnterKernel
            BY <1>3, <3>1 DEF InitFat, OpenConfig, ReadPath, Requires, OpenKernel, ReadHeader,
               CheckHeader, LoadKernel, EnterKernel
        <3>2. CASE Answer
            BY <1>3, <3>2 DEF Answer, Kmem, Framebuffer, Terminal, Simple, Unknown, StartMemmap,
               AddNode, ReturnMemmap, TakeBuffer, ReadCmdline, DropBuffer, PublishCmdline,
               StartModules, FindModule, EndModules, TakeData, LoadModule, PublishModule
        <3>3. CASE UNCHANGED vars
            BY <3>3 DEF vars
        <3> QED BY <1>3, <3>1, <3>2, <3>3 DEF Next, Done
    <2> QED BY <1>1, <1>2, <2>1, <2>2
<1> QED BY <1>3, <1>4, <1>5

\* A step that links the end of the list in the making keeps everything else.
LEMMA LinkedKept ==
    ASSUME TypeOK, NEW what \in {"node", "module"}, EndsAt(blocks, what, list.prev),
           pc \in {"memmap", "modules", "module"},
           Linked(list.prev, what, heap) \subseteq blocks'
    PROVE  Kept
<1> SUFFICES ASSUME NEW b \in blocks
             PROVE  b \in blocks' \/ (b.what \in {"node", "module"} /\ b.base = Open /\ b.next = 0)
    BY DEF Kept
<1>1. CASE b.base = list.prev /\ b.what = what
    BY <1>1 DEF EndsAt, Open
<1>2. CASE ~(b.base = list.prev /\ b.what = what)
    <2>1. b \in Linked(list.prev, what, heap)
        BY <1>2, Zenon DEF Linked
    <2> QED BY <2>1
<1> QED BY <1>1, <1>2

\* Every step of boot() answers the requests in full, as long as it misreads
\* nothing.
LEMMA FullStep == HeapInv /\ LinkInv /\ FullInv /\ [Next]_vars => FullInv'
<1> SUFFICES ASSUME HeapInv, LinkInv, FullInv, [Next]_vars PROVE FullInv'
    OBVIOUS
<1> SUFFICES ASSUME Clean' PROVE (Served /\ Blank /\ Current)'
    BY BeforeScan DEF FullInv
<1>0. /\ misread = {} /\ nullWrite = FALSE
      /\ pc \in Serves \/ LoadKernel
      /\ ~AddNullNode /\ ~Hang /\ ~OutOfMemory
    BY CleanBefore
<1>1. TypeOK /\ TypeOK' /\ Making /\ misread' = {} /\ pc' \in Serves
    BY TypeStep DEF HeapInv, LinkInv, Clean
<1>2. CASE LoadKernel
    <2>1. i' = 1 /\ resp' = [k \in DOMAIN reqs' |-> 0] /\ pc' = "scan"
        BY <1>1, <1>2 DEF LoadKernel, FullInv, Serves, Final
    <2>2. DOMAIN reqs' \subseteq Nat \ {0}
        <3>1. reqs' \in Seq(Nat)
            BY <1>1 DEF TypeOK
        <3>2. DOMAIN reqs' = 1 .. Len(reqs')
            BY <3>1
        <3> QED BY <3>2
    <2>3. Served' /\ Blank'
        BY <2>1, <2>2 DEF Served, Blank
    <2> QED BY <2>1, <2>3 DEF Current
<1> SUFFICES ASSUME pc \in Serves PROVE (Served /\ Blank /\ Current)'
    BY <1>0, <1>2
<1>3. Served /\ Blank /\ Current
    BY <1>0 DEF FullInv, Clean
<1>4. /\ heap \in Nat \ {0} /\ list.n \in Nat /\ list.prev \in Nat /\ list.first \in Nat
      /\ list.data \in Nat /\ i \in Nat /\ resp \in [DOMAIN reqs -> Nat]
      /\ Len(machine.map) \in Nat /\ Len(disk.modules) \in Nat
      /\ disk.cmdline \in BOOLEAN
    <2>1. heap \in Nat \ {0}
        BY BelowTop
    <2>2. machine.map \in Seq(Region) /\ disk.modules \in Seq(Files) /\ disk.cmdline \in BOOLEAN
        BY <1>1, Inputs
    <2>3. /\ list.n \in Nat /\ list.prev \in Nat /\ list.first \in Nat
          /\ list.data \in Nat /\ i \in Nat /\ resp \in [DOMAIN reqs -> Nat]
        BY <1>1 DEF TypeOK
    <2> QED BY <2>1, <2>2, <2>3
<1>5. blocks \subseteq blocks' => Kept
    BY DEF Kept
<1>6. pc' \notin {"memmap", "modules", "module"} => Open' = 0
    BY DEF Open
<1>7. pc' \notin {"memmap", "modules", "module", "entered"} => Current'
    BY DEF Current
<1>9. ASSUME NEW id \in {1, 3, 5}, NEW what, NEW size, Simple(id, what, size)
      PROVE  (Served /\ Blank /\ Current)'
    <2>1. /\ Asked(id) /\ blocks \subseteq blocks' /\ pc' = "scan" /\ reqs' = reqs
          /\ resp' = [resp EXCEPT ![i] = heap] /\ i' = i + 1
          /\ machine' = machine /\ disk' = disk
        BY <1>0, <1>9 DEF Simple, Serving, Asked, kernel, input
    <2>2. \A k \in DOMAIN reqs : k # i => resp'[k] = resp[k]
        BY <1>4, <2>1
    <2>3. PICK k \in DOMAIN reqs : k = i
        BY <2>1 DEF Asked
    <2>4. reqs'[k] = id /\ resp'[k] # 0
        BY <1>4, <2>1, <2>3 DEF Asked
    <2>5. Complete(k)'
        BY <2>4 DEF Complete
    <2>6. Kept /\ Open' = 0
        BY <1>5, <1>6, <2>1
    <2>7. Served' /\ Blank'
        BY <1>3, <2>1, <2>2, <2>3, <2>5, <2>6, ServedKept
    <2> QED BY <1>7, <2>1, <2>7
<1>10. CASE Kmem \/ Framebuffer \/ Terminal
    BY <1>9, <1>10 DEF Kmem, Framebuffer, Terminal
<1>11. CASE Unknown
    <2>1. /\ i \in DOMAIN reqs /\ reqs[i] \notin 1 .. 6 /\ blocks' = blocks /\ pc = "scan" /\ pc' = "scan"
          /\ reqs' = reqs /\ resp' = resp /\ i' = i + 1 /\ machine' = machine /\ disk' = disk
        BY <1>11 DEF Unknown, memory, kernel, input
    <2>2. PICK k \in DOMAIN reqs : k = i
        BY <2>1
    <2>3. reqs'[k] \notin 1 .. 6 /\ resp'[k] = 0
        BY <1>3, <2>1, <2>2 DEF Blank
    <2>4. Complete(k)'
        BY <2>3 DEF Complete
    <2>5. Kept /\ Open' = 0
        BY <1>5, <1>6, <2>1
    <2>6. Served' /\ Blank'
        BY <1>3, <2>1, <2>2, <2>4, <2>5, ServedKept
    <2> QED BY <1>7, <2>1, <2>6
<1>12. CASE StartMemmap \/ StartModules
    <2>1. /\ i \in DOMAIN reqs /\ blocks' = blocks /\ reqs' = reqs /\ resp' = resp /\ i' = i
          /\ list' = NoList /\ machine' = machine /\ disk' = disk
          /\ pc = "scan" /\ pc' \in {"memmap", "modules"}
        BY <1>12 DEF StartMemmap, StartModules, Serving, memory, kernel, scan, input
    <2>2. list'.prev = 0 /\ list'.first = 0 /\ list'.n = 0
        BY <2>1 DEF NoList
    <2>3. Kept /\ Open' = 0
        BY <1>5, <2>1, <2>2 DEF Open
    <2>4. Served' /\ Blank'
        BY <1>3, <2>1, <2>3, ServedKept
    <2>5. resp'[i'] = 0
        BY <1>3, <2>1 DEF Blank
    <2>6. Current'
        BY <1>4, <2>1, <2>2, <2>5 DEF Current, Chain
    <2> QED BY <2>4, <2>6
<1>13. CASE AddNode
    <2>1. /\ blocks' = Linked(list.prev, "node", heap) \cup {New("node", NodeSize, list.n + 1)}
          /\ reqs' = reqs /\ resp' = resp /\ i' = i /\ pc = "memmap" /\ pc' = "memmap"
          /\ machine' = machine /\ disk' = disk
          /\ list' = [list EXCEPT !.n = list.n + 1, !.prev = heap,
                                  !.first = IF list.first = 0 THEN heap ELSE list.first]
        BY <1>13 DEF AddNode, kernel, scan, input
    <2>2. /\ list'.prev = heap /\ list'.n = list.n + 1
          /\ list'.first = IF list.first = 0 THEN heap ELSE list.first
        BY <1>1, <2>1 DEF TypeOK
    <2>3. EndsAt(blocks, "node", list.prev)
        BY <1>1, <2>1 DEF Making
    <2>4. Kept /\ Open' = heap
        BY <1>1, <2>1, <2>2, <2>3, LinkedKept DEF Open
    <2>5. Served' /\ Blank'
        BY <1>3, <2>1, <2>4, ServedKept
    <2>6. Chain(Modules, blocks, "node", list.first, list.n, list.prev)
        BY <1>3, <2>1 DEF Current
    <2>7. /\ NodeSize \in Nat /\ list.n + 1 \in Nat
          /\ Tells(Modules, blocks', "node", list.n + 1, New("node", NodeSize, list.n + 1))
        BY <1>4 DEF NodeSize, Tells, New
    <2>8. Chain(Modules, blocks', "node", IF list.n = 0 THEN heap ELSE list.first, list.n + 1, heap)
        BY <1>4, <2>1, <2>3, <2>6, <2>7, ChainGrows
    <2>9. list.n = 0 <=> list.first = 0
        BY <1>4, <2>6, ChainEmpty
    <2>10. list'.first = IF list.n = 0 THEN heap ELSE list.first
        BY <2>2, <2>9
    <2>11. Modules' = Modules
        BY <2>1 DEF Modules
    <2>12. Chain(Modules', blocks', "node", list'.first, list'.n, list'.prev)
        BY <2>2, <2>8, <2>10, <2>11
    <2>13. Current'
        BY <2>1, <2>12 DEF Current
    <2> QED BY <2>5, <2>13
<1>14. CASE ReturnMemmap
    <2>1. /\ blocks' = blocks /\ reqs' = reqs /\ pc = "memmap" /\ pc' = "scan" /\ i' = i + 1
          /\ resp' = [resp EXCEPT ![i] = list.first] /\ machine' = machine /\ disk' = disk
          /\ list.n = Len(machine.map)
        BY <1>14 DEF ReturnMemmap, memory, kernel, input
    <2>2. Asked(2)
        BY <1>1, <2>1 DEF Making
    <2>3. PICK k \in DOMAIN reqs : k = i
        BY <2>2 DEF Asked
    <2>4. /\ reqs'[k] = 2 /\ resp'[k] = list.first
          /\ \A j \in DOMAIN reqs : j # i => resp'[j] = resp[j]
        BY <1>4, <2>1, <2>2, <2>3 DEF Asked
    <2>5. Kept /\ Open' = 0 /\ Modules' = Modules
        BY <1>5, <1>6, <2>1 DEF Modules
    <2>6. Chain(Modules, blocks, "node", list.first, Len(machine.map), list.prev)
        BY <1>3, <2>1 DEF Current
    <2>7. Closed("node", resp[k], Len(machine.map))'
        BY <1>4, <2>1, <2>4, <2>5, <2>6 DEF Closed
    <2>8. Complete(k)'
        BY <2>4, <2>7 DEF Complete
    <2>9. Served' /\ Blank'
        BY <1>3, <2>1, <2>3, <2>4, <2>5, <2>8, ServedKept
    <2> QED BY <1>7, <2>1, <2>9
<1>15. CASE TakeBuffer
    <2>1. /\ blocks \subseteq blocks' /\ reqs' = reqs /\ resp' = resp /\ i' = i
          /\ pc = "scan" /\ pc' = "cmdline" /\ machine' = machine /\ disk' = disk
        BY <1>0, <1>15 DEF TakeBuffer, Serving, kernel, scan, input
    <2>2. Kept /\ Open' = 0
        BY <1>5, <1>6, <2>1
    <2>3. Served' /\ Blank'
        BY <1>3, <2>1, <2>2, ServedKept
    <2> QED BY <1>7, <2>1, <2>3
<1>16. CASE ReadCmdline
    <2>1. /\ pc = "cmdline"
          /\ \/ disk.cmdline = FALSE /\ DropBuffer
             \/ disk.cmdline = TRUE /\ PublishCmdline
        BY <1>0, <1>1, <1>4, <1>16 DEF ReadCmdline, Saw
    <2>2. /\ reqs' = reqs /\ i' = i + 1 /\ pc' = "scan" /\ machine' = machine /\ disk' = disk
          /\ \/ disk.cmdline = FALSE /\ resp' = resp
             \/ disk.cmdline = TRUE /\ resp' = [resp EXCEPT ![i] = heap]
        BY <2>1 DEF DropBuffer, PublishCmdline, kernel, input
    <2>3. Asked(4)
        BY <1>1, <2>1 DEF Making
    <2>4. PICK k \in DOMAIN reqs : k = i
        BY <2>3 DEF Asked
    <2>5. /\ reqs'[k] = 4
          /\ \A j \in DOMAIN reqs : j # i => resp'[j] = resp[j]
        BY <1>4, <2>2, <2>3, <2>4 DEF Asked
    <2>6. resp[k] = 0
        BY <1>3, <2>1, <2>4 DEF Blank
    <2>7. resp'[k] # 0 <=> disk'.cmdline
        <3>1. CASE disk.cmdline = FALSE /\ resp' = resp
            BY <2>2, <2>6, <3>1
        <3>2. CASE disk.cmdline = TRUE /\ resp' = [resp EXCEPT ![i] = heap]
            BY <1>4, <2>2, <2>4, <3>2
        <3> QED BY <2>2, <3>1, <3>2
    <2>8. Complete(k)'
        BY <2>5, <2>7 DEF Complete
    <2>9. Kept /\ Open' = 0
        <3>1. CASE DropBuffer
            BY <1>6, <2>2, <3>1 DEF DropBuffer, Kept
        <3>2. CASE PublishCmdline
            BY <1>5, <1>6, <2>2, <3>2 DEF PublishCmdline
        <3> QED BY <2>1, <3>1, <3>2
    <2>10. Served' /\ Blank'
        BY <1>3, <2>2, <2>4, <2>5, <2>8, <2>9, ServedKept
    <2> QED BY <1>7, <2>2, <2>10
<1>17. CASE FindModule
    <2>1. /\ pc = "modules"
          /\ \/ NextModule = NoModule /\ EndModules
             \/ NextModule # NoModule /\ TakeData(NextModule)
        BY <1>0, <1>1, <1>17 DEF FindModule, Saw
    <2>2. /\ Chain(Modules, blocks, "module", resp[i], list.n, list.prev)
          /\ list.n <= Len(disk.modules)
        BY <1>3, <2>1 DEF Current
    <2>3. Asked(6)
        BY <1>1, <2>1 DEF Making
    <2>4. PICK k \in DOMAIN reqs : k = i
        BY <2>3 DEF Asked
    <2>5. reqs[k] = 6 /\ Modules = disk.modules
        BY <2>3, <2>4 DEF Asked, Modules
    <2>6. CASE NextModule = NoModule /\ EndModules
        <3>1. /\ blocks' = blocks /\ reqs' = reqs /\ pc' = "scan" /\ i' = i + 1
              /\ resp' = resp /\ machine' = machine /\ disk' = disk
            BY <2>6 DEF EndModules, memory, kernel, input
        <3>2. list.n = Len(disk.modules)
            <4>1. ASSUME list.n < Len(disk.modules) PROVE FALSE
                <5>1. NextModule = disk.modules[list.n + 1] /\ disk.modules[list.n + 1] \in Files
                    BY <1>1, <1>4, <4>1, Inputs DEF NextModule
                <5>2. NextModule.status \in {"missing", "whole", "short"}
                    BY <5>1, DisksAssumption DEF File
                <5> QED BY <2>6, <5>2 DEF NoModule
            <4> QED BY <1>4, <2>2, <4>1
        <3>3. Kept /\ Open' = 0 /\ Modules' = Modules
            BY <1>5, <1>6, <3>1 DEF Modules
        <3>4. Closed("module", resp[k], Len(disk.modules))'
            BY <1>4, <2>2, <2>4, <3>1, <3>2, <3>3 DEF Closed
        <3>5. Complete(k)'
            BY <2>5, <3>1, <3>4 DEF Complete
        <3>6. Served' /\ Blank'
            BY <1>3, <2>4, <3>1, <3>3, <3>5, ServedKept
        <3> QED BY <1>7, <3>1, <3>6
    <2>7. CASE NextModule # NoModule /\ TakeData(NextModule)
        <3>1. list.n < Len(disk.modules) /\ NextModule = disk.modules[list.n + 1]
            BY <2>7 DEF NextModule
        <3>2. /\ blocks' = blocks \cup {New("data", NextModule.size, list.n + 1)}
              /\ list' = [list EXCEPT !.n = list.n + 1, !.data = heap]
              /\ pc' = "module" /\ resp' = resp /\ reqs' = reqs /\ i' = i
              /\ machine' = machine /\ disk' = disk
            BY <2>7 DEF TakeData, kernel, scan, input
        <3>3. list'.prev = list.prev /\ list'.data = heap /\ list'.n = list.n + 1
            BY <1>1, <3>2 DEF TypeOK
        <3>4. Kept /\ Open' = Open /\ Open = list.prev /\ Modules' = Modules
            BY <1>5, <2>1, <3>2, <3>3 DEF Open, Modules
        <3>5. Served' /\ Blank'
            BY <1>3, <3>2, <3>4, ServedKept
        <3>6. Chain(Modules, blocks', "module", resp[i], list.n, list.prev)
            <4>1. list.n = 0 => Chain(Modules, blocks', "module", resp[i], list.n, list.prev)
                BY <2>2 DEF Chain
            <4>2. ASSUME list.n # 0
                  PROVE  Chain(Modules, blocks', "module", resp[i], list.n, list.prev)
                <5>1. blocks \subseteq blocks'
                    BY <3>2
                <5> QED BY <1>4, <2>2, <4>2, <5>1, ChainStays
            <4> QED BY <4>1, <4>2
        <3>7. \E d \in blocks' : /\ d.what = "data" /\ d.base = list'.data /\ d.ref = list'.n
                                 /\ d.size = disk'.modules[list'.n].size
            <4>1. PICK d \in blocks' : d = New("data", NextModule.size, list.n + 1)
                BY <3>2
            <4> QED BY <3>1, <3>2, <3>3, <4>1 DEF New
        <3>8. /\ list'.n - 1 = list.n /\ list'.n >= 1 /\ list'.n <= Len(disk'.modules)
              /\ resp'[i'] = resp[i]
            BY <1>4, <3>1, <3>2, <3>3
        <3>9. Chain(Modules', blocks', "module", resp'[i'], list'.n - 1, list'.prev)
            BY <3>3, <3>4, <3>6, <3>8
        <3>10. Current'
            BY <3>2, <3>7, <3>8, <3>9 DEF Current
        <3> QED BY <3>5, <3>10
    <2> QED BY <2>1, <2>6, <2>7
<1>18. CASE LoadModule
    <2>1. pc = "module" /\ PublishModule
        BY <1>0, <1>18 DEF LoadModule
    <2>2. /\ blocks' = Linked(list.prev, "module", heap) \cup {New("module", ModuleSize, list.data)}
          /\ resp' = IF list.prev = 0 THEN [resp EXCEPT ![i] = heap] ELSE resp
          /\ list' = [list EXCEPT !.prev = heap]
          /\ pc' = "modules" /\ reqs' = reqs /\ i' = i /\ machine' = machine /\ disk' = disk
        BY <2>1 DEF PublishModule, kernel, input
    <2>3. list'.prev = heap /\ list'.n = list.n
        BY <1>1, <2>2 DEF TypeOK
    <2>4. Asked(6) /\ EndsAt(blocks, "module", list.prev)
        BY <1>1, <2>1 DEF Making
    <2>5. Kept /\ Open' = heap /\ Modules' = Modules
        BY <1>1, <2>1, <2>2, <2>3, <2>4, LinkedKept DEF Open, Modules
    <2>6. \A k \in DOMAIN reqs : k # i => resp'[k] = resp[k]
        BY <1>4, <2>2
    <2>7. Served' /\ Blank'
        BY <1>3, <2>2, <2>5, <2>6, ServedKept
    <2>8. /\ Chain(Modules, blocks, "module", resp[i], list.n - 1, list.prev)
          /\ list.n >= 1 /\ list.n <= Len(disk.modules)
          /\ \E d \in blocks : /\ d.what = "data" /\ d.base = list.data /\ d.ref = list.n
                               /\ d.size = disk.modules[list.n].size
        BY <1>3, <2>1 DEF Current
    <2>9. PICK n \in Nat : n = list.n - 1
        BY <1>4, <2>8
    <2>10. Tells(Modules, blocks', "module", n + 1, New("module", ModuleSize, list.data))
        <3>1. PICK d \in blocks : /\ d.what = "data" /\ d.base = list.data /\ d.ref = list.n
                                  /\ d.size = disk.modules[list.n].size
            BY <2>8
        <3>2. d \in Linked(list.prev, "module", heap)
            BY <3>1, Zenon DEF Linked
        <3>3. n + 1 = list.n /\ New("module", ModuleSize, list.data).ref = list.data
            BY <1>4, <2>9 DEF New
        <3>4. d \in blocks'
            BY <2>2, <3>2
        <3> QED BY <3>1, <3>3, <3>4 DEF Tells, Modules
    <2>11. Chain(Modules, blocks, "module", resp[i], n, list.prev) /\ ModuleSize \in Nat
        BY <2>8, <2>9 DEF ModuleSize
    <2>12. Chain(Modules, blocks', "module", IF n = 0 THEN heap ELSE resp[i], n + 1, heap)
        BY <1>4, <2>2, <2>4, <2>10, <2>11, ChainGrows
    <2>13. n = 0 <=> list.prev = 0
        BY <2>11, ChainEmpty
    <2>14. resp'[i'] = (IF n = 0 THEN heap ELSE resp[i]) /\ n + 1 = list'.n
        BY <1>4, <2>2, <2>3, <2>4, <2>9, <2>13 DEF Asked
    <2>15. Chain(Modules', blocks', "module", resp'[i'], list'.n, list'.prev)
        BY <2>3, <2>5, <2>12, <2>14
    <2>16. Current'
        BY <2>2, <2>3, <2>8, <2>15 DEF Current
    <2> QED BY <2>7, <2>16
<1>19. CASE EnterKernel
    <2>1. /\ blocks \subseteq blocks' /\ reqs' = reqs /\ resp' = resp /\ i' = i
          /\ pc = "scan" /\ pc' = "entered" /\ machine' = machine /\ disk' = disk
          /\ i \notin DOMAIN reqs
        BY <1>0, <1>19 DEF EnterKernel, kernel, scan, input
    <2>2. Kept /\ Open' = 0
        BY <1>5, <1>6, <2>1
    <2>3. Served' /\ Blank'
        BY <1>3, <2>1, <2>2, ServedKept
    <2> QED BY <2>1, <2>3 DEF Current
<1>20. CASE UNCHANGED vars
    BY <1>3, <1>20 DEF vars, input, memory, kernel, scan, Served, Blank, Current, Complete, Closed,
       Open, Modules
<1>21. CASE InitFat \/ OpenConfig \/ ReadPath \/ OpenKernel \/ ReadHeader \/ CheckHeader
    BY <1>21 DEF InitFat, OpenConfig, ReadPath, Requires, OpenKernel, ReadHeader, CheckHeader, Serves
<1> QED
    BY <1>0, <1>2, <1>10, <1>11, <1>12, <1>13, <1>14, <1>15, <1>16, <1>17, <1>18, <1>19, <1>20, <1>21
       DEF Next, Answer, Done

\* No request has been seen at the start.
LEMMA FullInit == Init => FullInv
    BY DEF Init, FullInv, Clean, Serves

\* What the kernel is told is in order and complete: the inductive invariant
\* that the theorem below follows from.
THEOREM BootCorrect == Spec => [](HeapInv /\ LinkInv /\ FullInv)
<1>1. Init => HeapInv /\ LinkInv /\ FullInv
    BY HeapInit, LinkInit, FullInit
<1>2. HeapInv /\ LinkInv /\ FullInv /\ [Next]_vars => (HeapInv /\ LinkInv /\ FullInv)'
    BY HeapStep, LinkStep, FullStep
<1> QED BY <1>1, <1>2, PTL DEF Spec

\* A kernel entered after reads that all succeeded finds every request answered
\* in full: every region and every module listed once and in order, whatever the
\* requests and their order.
THEOREM RequestsAnswered == Spec => []ResponsesComplete
<1>1. HeapInv /\ FullInv => ResponsesComplete
    <2> SUFFICES ASSUME HeapInv, FullInv, pc = "entered", misread = {} PROVE ResponsesComplete
        BY DEF ResponsesComplete
    <2>1. TypeOK /\ Served /\ i \notin DOMAIN reqs
        BY DEF HeapInv, FullInv, NoGarbageFromHeap, Clean, Serves, Current
    <2>2. \A k \in DOMAIN reqs : Complete(k)
        <3>1. DOMAIN reqs = 1 .. Len(reqs) /\ Len(reqs) \in Nat /\ i \in Nat \ {0}
            BY <2>1 DEF TypeOK
        <3>2. \A k \in DOMAIN reqs : k < i
            BY <2>1, <3>1
        <3> QED BY <2>1, <3>2 DEF Served
    <2>3. ASSUME NEW k \in DOMAIN reqs, reqs[k] = 2
          PROVE  IsList(resp[k], "node", Len(machine.map), LAMBDA n, b : b.ref = n)
        <3>1. PICK z \in Nat : Chain(Modules, blocks, "node", resp[k], Len(machine.map), z)
            BY <2>2, <2>3 DEF Complete, Closed
        <3> QED BY <3>1 DEF Chain, IsList, Tells
    <2>4. ASSUME NEW k \in DOMAIN reqs, reqs[k] = 6
          PROVE  IsList(resp[k], "module", Len(disk.modules), LAMBDA n, b :
                     \E d \in blocks : /\ d.what = "data" /\ d.base = b.ref
                                       /\ d.ref = n
                                       /\ d.size = disk.modules[n].size)
        <3>1. PICK z \in Nat : Chain(Modules, blocks, "module", resp[k], Len(disk.modules), z)
            BY <2>2, <2>4 DEF Complete, Closed
        <3> QED BY <3>1 DEF Chain, IsList, Tells, Modules
    <2>5. \A k \in DOMAIN reqs :
              /\ reqs[k] \in {1, 3, 5} => resp[k] # 0
              /\ reqs[k] = 4 => (resp[k] # 0) = disk.cmdline
              /\ reqs[k] \notin 1 .. 6 => resp[k] = 0
        BY <2>1, <2>2, Inputs DEF Complete
    <2> QED BY <2>3, <2>4, <2>5 DEF ResponsesComplete, IsList
<1> QED BY <1>1, BootCorrect, PTL
=============================================================================
