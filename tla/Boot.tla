-------------------------------- MODULE Boot --------------------------------
(***************************************************************************)
(* boot(): from an initialised heap to the kernel.  It mounts the FAT      *)
(* volume, reads boot.cfg and the kernel's header, checks and loads the    *)
(* kernel, scans the loaded image for requests, answers each of them with  *)
(* structures taken from the bump allocator, and jumps to the kernel on a  *)
(* stack taken from it too.                                                *)
(*                                                                         *)
(* What files hold is abstract (a disk is a record of what boot() would    *)
(* read from it); addresses and sizes are the program's.  The read_disk    *)
(* callback returns nothing, so a disk read that failed, for want of its   *)
(* 512 bytes of scratch memory or because the ROM's driver failed, leaves  *)
(* its buffer as it was and boot() goes on: misread records it, and        *)
(* whatever boot() reads from then on may be anything.                     *)
(***************************************************************************)
EXTENDS Regions, FiniteSets

CONSTANTS
    Machines,       \* the machines to boot: memory map, heap, disk driver
    Disks,          \* the disks to boot from
    Headers,        \* the kernel headers a read may see
    Files,          \* the files an open may find
    RequestLists,   \* the requests a loaded image may hold, in address order
    MaxModules      \* bound on the MODULE_PATH lines of a boot.cfg

\* A file is "missing", "whole", or its cluster chain is too "short" for its size.
File == [size : Word, status : {"missing", "whole", "short"}]

Header == [load : Word, end : Word]

Machine == [map : Seq(Region), arena : [base : Nat \ {0}, size : Nat],
            scratchAlways : BOOLEAN,    \* does every disk::read take scratch memory?
            romFails : BOOLEAN]         \* can the ROM's disk driver report an error?

Disk == [fat : BOOLEAN,         \* init_fat_driver accepts the volume
         cfg : BOOLEAN,         \* boot.cfg exists
         path : BOOLEAN,        \* boot.cfg has KERNEL_PATH
         cmdline : BOOLEAN,     \* boot.cfg has CMDLINE
         magic : BOOLEAN,       \* the kernel starts with MAGIC1, MAGIC3
         kernel : Files, header : Headers, requests : RequestLists,
         modules : Seq(Files)]  \* the files of the MODULE_PATH lines

ASSUME MachinesAssumption ==
    \A m \in Machines : m \in Machine /\ SoundMap(m.map, m.arena)

ASSUME DisksAssumption ==
    /\ MaxModules \in Nat
    /\ Headers \subseteq Header
    /\ Files \subseteq File
    /\ RequestLists \subseteq Seq(Nat)
    /\ \A d \in Disks : d \in Disk /\ Len(d.modules) <= MaxModules

\* sizeof: the structures of proto.h, and the buffers the code asks for.
KmemSize        == 8
NodeSize        == 16
FramebufferSize == 18
CmdlineSize     == 4
TerminalSize    == 4
ModuleSize      == 12
HeaderSize      == 28
CmdlineBuffer   == 100
Scratch         == 512
StackSizeHalved == 512    \* mutant: half the stack PROTOCOL.md promises
StackSize       == 1024

Kinds == {"kmem", "node", "framebuffer", "buffer", "cmdline", "terminal",
          "data", "module", "stack"}

\* A block of the heap: ref is what a field of it refers to (the region of a
\* node, the buffer of a cmdline, the data of a module), next links a list.
Struct == [base : Nat, size : Nat, what : Kinds, ref : Nat, next : Nat]

NoImage == [base |-> 0, size |-> 0]
NoFile  == [size |-> 0, status |-> "missing"]
NoList  == [n |-> 0, first |-> 0, prev |-> 0, data |-> 0]

VARIABLES
    machine, disk,  \* what is booted: never changes
    pc,             \* how far boot() is
    heap,           \* bumpalloc_begin
    blocks,         \* the blocks allocated and not freed
    file,           \* the last file opened: kernel_file, then module_file
    hdr,            \* kheader
    image,          \* the memory memset and filled with the kernel
    reqs, resp, i,  \* requests of the image, their response fields, the scan
    list,           \* ctx or seek_pos, first, prev and data of the list in the making
    misread,        \* why reads have failed so far, of {"scratch", "rom"}
    nullWrite       \* has a structure been written to address 0?

input  == <<machine, disk>>
memory == <<heap, blocks>>
kernel == <<hdr, image, reqs>>
scan   == <<resp, i>>
vars   == <<input, pc, memory, file, kernel, scan, list, misread, nullWrite>>

Final  == {"entered", "halted", "lost", "hung"}
Points == {"fat", "config", "path", "kernel", "header", "check", "load", "scan",
           "memmap", "cmdline", "modules", "module"} \cup Final

Init ==
    /\ machine \in Machines
    /\ disk \in Disks
    /\ pc = "fat"
    /\ heap = machine.arena.base
    /\ blocks = {}
    /\ file = NoFile
    /\ hdr = [load |-> 0, end |-> 0]
    /\ image = NoImage
    /\ reqs = <<>>
    /\ resp = <<>>
    /\ i = 1
    /\ list = NoList
    /\ misread = {}
    /\ nullWrite = FALSE
-----------------------------------------------------------------------------
(***************************************************************************)
(* The heap, and what a disk read can do.                                  *)
(***************************************************************************)
Room(h) == End(machine.arena) - h

\* bump_malloc(n) succeeds.
Fits(n) == Room(heap) >= n

New(what, size, ref) ==
    [base |-> heap, size |-> size, what |-> what, ref |-> ref, next |-> 0]

\* prev->next = a, for the structure of this kind at address p if there is one.
Linked(p, what, a) ==
    {IF b.base = p /\ b.what = what THEN [b EXCEPT !.next = a] ELSE b : b \in blocks}

\* misread after the reads of one step, made with bumpalloc_begin at h.
Misreads(h) ==
    LET failures == IF Room(h) < Scratch
                    THEN IF machine.scratchAlways THEN {{"scratch"}}
                                                  ELSE {{}, {"scratch"}}
                    ELSE IF machine.romFails THEN {{}, {"rom"}} ELSE {{}}
    IN  {misread \cup f : f \in failures}

\* What the program may take a value it reads for.
Saw(m, truth, any) == IF m = {} THEN {truth} ELSE any
-----------------------------------------------------------------------------
(***************************************************************************)
(* Mount the volume, find the kernel, check and load it.                   *)
(***************************************************************************)
\* A step that reads one fact from the disk and returns from boot() without it.
Requires(at, fact, next) ==
    /\ pc = at
    /\ \E m \in Misreads(heap) :
        /\ misread' = m
        /\ \E seen \in Saw(m, fact, BOOLEAN) : pc' = IF seen THEN next ELSE "halted"
    /\ UNCHANGED <<input, memory, file, kernel, scan, list, nullWrite>>

InitFat    == Requires("fat", disk.fat, "config")
OpenConfig == Requires("config", disk.cfg, "path")
ReadPath   == Requires("path", disk.path, "kernel")

OpenKernel ==
    /\ pc = "kernel"
    /\ \E m \in Misreads(heap) :
        /\ misread' = m
        /\ file' \in Saw(m, disk.kernel, Files)
    /\ pc' = IF file'.status = "missing" THEN "halted" ELSE "header"
    /\ UNCHANGED <<input, memory, kernel, scan, list, nullWrite>>

ReadHeader ==
    /\ pc = "header"
    /\ \E m \in Misreads(heap) :
        /\ misread' = m
        /\ hdr' \in Saw(m, disk.header, Headers)
        /\ \E magic \in Saw(m, disk.magic, BOOLEAN) :
            pc' = IF file.size >= HeaderSize /\ magic THEN "check" ELSE "halted"
    /\ UNCHANGED <<input, memory, file, image, reqs, scan, list, nullWrite>>

InRegionAnyType(h, r) ==    \* mutant: any region will do
    h.load >= r.base /\ h.end < End(r)

\* within_usable_mem is set for header h and region r.
InRegion(h, r) == r.type = USABLE /\ h.load >= r.base /\ h.end < End(r)

\* load_end_address - load_address, in uint32_t.
LoadSize(h) == WSub(h.end, h.load)

CheckHeader ==
    /\ pc = "check"
    /\ pc' = IF /\ \E k \in DOMAIN machine.map : InRegion(hdr, machine.map[k])
                /\ file.size <= LoadSize(hdr)
             THEN "load" ELSE "halted"
    /\ UNCHANGED <<input, memory, file, kernel, scan, list, misread, nullWrite>>

\* memset from load_address, then read the file there.  A load_end_address below
\* load_address makes memset run over all memory, this program included.
LoadKernel ==
    /\ pc = "load"
    /\ image' = Block(hdr.load, LoadSize(hdr))
    /\ \E m \in Misreads(heap) :
        /\ misread' = m
        /\ reqs' \in Saw(m, disk.requests, RequestLists)
        /\ \E whole \in Saw(m, file.status = "whole", BOOLEAN) :
            pc' = IF hdr.end < hdr.load THEN "lost"
                  ELSE IF whole THEN "scan" ELSE "halted"
    /\ resp' = [k \in DOMAIN reqs' |-> 0]
    /\ UNCHANGED <<input, memory, file, hdr, i, list, nullWrite>>
-----------------------------------------------------------------------------
(***************************************************************************)
(* Answer the requests found in the image.                                 *)
(***************************************************************************)
Serving(id) == pc = "scan" /\ i \in DOMAIN reqs /\ reqs[i] = id

OutOfMemory ==
    /\ pc' = "halted"
    /\ UNCHANGED <<input, memory, file, kernel, scan, list, nullWrite>>

\* Requests answered with one structure whose fields are at hand.
Simple(id, what, size) ==
    /\ Serving(id)
    /\ \/ /\ Fits(size)
          /\ heap' = heap + size
          /\ blocks' = blocks \cup {New(what, size, 0)}
          /\ resp' = [resp EXCEPT ![i] = heap]
          /\ i' = i + 1
          /\ UNCHANGED <<input, pc, file, kernel, list, nullWrite>>
       \/ ~Fits(size) /\ OutOfMemory
    /\ UNCHANGED misread

Kmem        == Simple(1, "kmem", KmemSize)
Framebuffer == Simple(3, "framebuffer", FramebufferSize)
Terminal    == Simple(5, "terminal", TerminalSize)

\* An id the switch has no case for.
Unknown ==
    /\ pc = "scan" /\ i \in DOMAIN reqs /\ reqs[i] \notin 1 .. 6
    /\ i' = i + 1
    /\ UNCHANGED <<input, pc, memory, file, kernel, resp, list, misread, nullWrite>>

\* gen_memmap: one round of the iterator at a time.
StartMemmap ==
    /\ Serving(2)
    /\ pc' = "memmap"
    /\ list' = NoList
    /\ UNCHANGED <<input, memory, file, kernel, scan, misread, nullWrite>>

AddNodeFirstLost ==     \* mutant: first is set in every round
    /\ pc = "memmap" /\ list.n < Len(machine.map) /\ Fits(NodeSize)
    /\ heap' = heap + NodeSize
    /\ blocks' = Linked(list.prev, "node", heap) \cup {New("node", NodeSize, list.n + 1)}
    /\ list' = [list EXCEPT !.n = list.n + 1, !.prev = heap, !.first = heap]
    /\ UNCHANGED <<input, pc, file, kernel, scan, misread, nullWrite>>

AddNode ==
    /\ pc = "memmap" /\ list.n < Len(machine.map) /\ Fits(NodeSize)
    /\ heap' = heap + NodeSize
    /\ blocks' = Linked(list.prev, "node", heap) \cup {New("node", NodeSize, list.n + 1)}
    /\ list' = [list EXCEPT !.n = list.n + 1, !.prev = heap,
                            !.first = IF list.first = 0 THEN heap ELSE list.first]
    /\ UNCHANGED <<input, pc, file, kernel, scan, misread, nullWrite>>

AddNullNodeRetry ==     \* mutant: the iterator does not go on
    /\ pc = "memmap" /\ list.n < Len(machine.map) /\ ~Fits(NodeSize)
    /\ nullWrite' = TRUE
    /\ list' = [list EXCEPT !.prev = 0]
    /\ UNCHANGED <<input, pc, memory, file, kernel, scan, misread>>

AddNullNodeNoEnd ==     \* mutant: the iterator runs past its last region
    /\ pc = "memmap" /\ ~Fits(NodeSize)
    /\ nullWrite' = TRUE
    /\ list' = [list EXCEPT !.n = list.n + 1, !.prev = 0]
    /\ UNCHANGED <<input, pc, memory, file, kernel, scan, misread>>

\* bump_malloc returned nullptr, and the node is written all the same.
AddNullNode ==
    /\ pc = "memmap" /\ list.n < Len(machine.map) /\ ~Fits(NodeSize)
    /\ nullWrite' = TRUE
    /\ list' = [list EXCEPT !.n = list.n + 1, !.prev = 0]
    /\ UNCHANGED <<input, pc, memory, file, kernel, scan, misread>>

ReturnMemmap ==
    /\ pc = "memmap" /\ list.n = Len(machine.map)
    /\ resp' = [resp EXCEPT ![i] = list.first]
    /\ i' = i + 1
    /\ pc' = "scan"
    /\ UNCHANGED <<input, memory, file, kernel, list, misread, nullWrite>>

TakeBuffer ==
    /\ Serving(4)
    /\ \/ /\ Fits(CmdlineBuffer)
          /\ heap' = heap + CmdlineBuffer
          /\ blocks' = blocks \cup {New("buffer", CmdlineBuffer, 0)}
          /\ pc' = "cmdline"
          /\ UNCHANGED <<input, file, kernel, scan, list, nullWrite>>
       \/ ~Fits(CmdlineBuffer) /\ OutOfMemory
    /\ UNCHANGED misread

DropBufferShort ==      \* mutant: gives back the string, not its end
    /\ heap' = heap - (CmdlineBuffer - 1)
    /\ blocks' = {b \in blocks : b.what # "buffer" \/ b.base # heap - CmdlineBuffer}
    /\ i' = i + 1
    /\ pc' = "scan"
    /\ UNCHANGED <<input, file, kernel, resp, list, nullWrite>>

DropBufferAnswered ==   \* mutant: the response was set before the look-up
    /\ heap' = heap - CmdlineBuffer
    /\ blocks' = {b \in blocks : b.what # "buffer" \/ b.base # heap - CmdlineBuffer}
    /\ resp' = [resp EXCEPT ![i] = heap - CmdlineBuffer]
    /\ i' = i + 1
    /\ pc' = "scan"
    /\ UNCHANGED <<input, file, kernel, list, nullWrite>>

\* boot.cfg has no CMDLINE: the buffer, the last block, goes back to the heap.
DropBuffer ==
    /\ heap' = heap - CmdlineBuffer
    /\ blocks' = {b \in blocks : b.what # "buffer" \/ b.base # heap - CmdlineBuffer}
    /\ i' = i + 1
    /\ pc' = "scan"
    /\ UNCHANGED <<input, file, kernel, resp, list, nullWrite>>

PublishCmdline ==
    /\ Fits(CmdlineSize)
    /\ heap' = heap + CmdlineSize
    /\ blocks' = blocks \cup {New("cmdline", CmdlineSize, heap - CmdlineBuffer)}
    /\ resp' = [resp EXCEPT ![i] = heap]
    /\ i' = i + 1
    /\ pc' = "scan"
    /\ UNCHANGED <<input, file, kernel, list, nullWrite>>

ReadCmdline ==
    /\ pc = "cmdline"
    /\ \E m \in Misreads(heap) :
        /\ misread' = m
        /\ \E found \in Saw(m, disk.cmdline, BOOLEAN) :
            \/ ~found /\ DropBuffer
            \/ found /\ PublishCmdline
            \/ found /\ ~Fits(CmdlineSize) /\ OutOfMemory

StartModules ==
    /\ Serving(6)
    /\ pc' = "modules"
    /\ list' = NoList
    /\ UNCHANGED <<input, memory, file, kernel, scan, misread, nullWrite>>

\* The next MODULE_PATH line, opened; or NoModule at the end of boot.cfg.
NoModule == [size |-> 0, status |-> "none"]

NextModule == IF list.n < Len(disk.modules) THEN disk.modules[list.n + 1] ELSE NoModule

AnyModule == {NoModule} \cup (IF list.n < MaxModules THEN Files ELSE {})

EndModules ==
    /\ i' = i + 1
    /\ pc' = "scan"
    /\ UNCHANGED <<input, memory, file, kernel, resp, list, nullWrite>>

TakeData(f) ==
    /\ Fits(f.size)
    /\ heap' = heap + f.size
    /\ blocks' = blocks \cup {New("data", f.size, list.n + 1)}
    /\ file' = f
    /\ list' = [list EXCEPT !.n = list.n + 1, !.data = heap]
    /\ pc' = "module"
    /\ UNCHANGED <<input, kernel, scan, nullWrite>>

FindModule ==
    /\ pc = "modules"
    /\ \E m \in Misreads(heap) :
        /\ misread' = m
        /\ \E f \in Saw(m, NextModule, AnyModule) :
            \/ f = NoModule /\ EndModules
            \/ f # NoModule /\ f.status # "missing" /\ TakeData(f)
            \/ /\ f # NoModule /\ (f.status = "missing" \/ ~Fits(f.size))
               /\ OutOfMemory

PublishModuleAfterFirst ==      \* mutant: prev_rs stays at the first module
    /\ Fits(ModuleSize)
    /\ heap' = heap + ModuleSize
    /\ blocks' = Linked(list.prev, "module", heap)
                    \cup {New("module", ModuleSize, list.data)}
    /\ resp' = IF list.prev = 0 THEN [resp EXCEPT ![i] = heap] ELSE resp
    /\ list' = [list EXCEPT !.prev = IF list.prev = 0 THEN heap ELSE list.prev]
    /\ pc' = "modules"
    /\ UNCHANGED <<input, file, kernel, i, nullWrite>>

PublishModule ==
    /\ Fits(ModuleSize)
    /\ heap' = heap + ModuleSize
    /\ blocks' = Linked(list.prev, "module", heap)
                    \cup {New("module", ModuleSize, list.data)}
    /\ resp' = IF list.prev = 0 THEN [resp EXCEPT ![i] = heap] ELSE resp
    /\ list' = [list EXCEPT !.prev = heap]
    /\ pc' = "modules"
    /\ UNCHANGED <<input, file, kernel, i, nullWrite>>

\* fat_read of the module's data (an empty file takes no read), and its structure.
LoadModule ==
    /\ pc = "module"
    /\ \E m \in IF file.size = 0 THEN {misread} ELSE Misreads(heap) :
        /\ misread' = m
        /\ \E whole \in Saw(m, file.status = "whole", BOOLEAN) :
            \/ whole /\ PublishModule
            \/ (~whole \/ ~Fits(ModuleSize)) /\ OutOfMemory
-----------------------------------------------------------------------------
\* enter_kernel: the kernel's stack is the last block.
EnterKernel ==
    /\ pc = "scan" /\ i \notin DOMAIN reqs
    /\ \/ /\ Fits(StackSize)
          /\ heap' = heap + StackSize
          /\ blocks' = blocks \cup {New("stack", StackSize, 0)}
          /\ pc' = "entered"
          /\ UNCHANGED <<input, file, kernel, scan, list, nullWrite>>
       \/ ~Fits(StackSize) /\ OutOfMemory
    /\ UNCHANGED misread

\* A cluster chain or a geometry made of misread bytes may keep fat.cpp in a loop.
Hang ==
    /\ misread # {} /\ pc \notin Final
    /\ pc' = "hung"
    /\ UNCHANGED <<input, memory, file, kernel, scan, list, misread, nullWrite>>

\* The kernel, die() or a loop of fat.cpp runs for ever; or anything goes ("lost").
Done == pc \in Final /\ UNCHANGED vars

Answer ==
    \/ Kmem \/ Framebuffer \/ Terminal \/ Unknown
    \/ StartMemmap \/ AddNode \/ AddNullNode \/ ReturnMemmap
    \/ TakeBuffer \/ ReadCmdline
    \/ StartModules \/ FindModule \/ LoadModule

Next ==
    \/ InitFat \/ OpenConfig \/ ReadPath \/ OpenKernel
    \/ ReadHeader \/ CheckHeader \/ LoadKernel
    \/ Answer \/ EnterKernel \/ Hang \/ Done

Spec == Init /\ [][Next]_vars /\ WF_vars(Next)
-----------------------------------------------------------------------------
TypeOK ==
    /\ machine \in Machines
    /\ disk \in Disks
    /\ pc \in Points
    /\ heap \in Nat /\ (pc = "cmdline" => heap >= CmdlineBuffer)
    /\ blocks \subseteq Struct
    /\ file \in File
    /\ hdr \in Header
    /\ image \in [base : Word, size : Word]
    /\ reqs \in Seq(Nat)
    /\ resp \in [DOMAIN reqs -> Nat]
    /\ i \in Nat \ {0}
    /\ list \in [n : Nat, first : Nat, prev : Nat, data : Nat]
    /\ list.n <= Len(machine.map) \/ list.n <= MaxModules
    /\ misread \subseteq {"scratch", "rom"}
    /\ nullWrite \in BOOLEAN

\* The blocks that bump_malloc gave out and nobody gave back fill the heap from
\* its start to bumpalloc_begin, which stays in the heap: no bump_dealloc takes
\* back more, less or other than the last block allocated.
HeapTiled ==
    /\ machine.arena.base <= heap /\ heap <= End(machine.arena)
    /\ Tiled(blocks, machine.arena.base, heap)

Holds(what, a) == \E b \in blocks : b.what = what /\ b.base = a

\* The structure each request is answered with.
Answers == <<"kmem", "node", "framebuffer", "cmdline", "terminal", "module">>

\* At every moment, whatever a response field, a list, a cmdline or a module
\* points at is a live block of the right kind, and lists run towards higher
\* addresses, so a kernel that follows them stays in live memory and stops.
NoDangling ==
    /\ \A k \in DOMAIN resp :
           resp[k] # 0 => reqs[k] \in 1 .. 6 /\ Holds(Answers[reqs[k]], resp[k])
    /\ \A b \in blocks :
           /\ b.next # 0 => b.next > b.base /\ Holds(b.what, b.next)
           /\ b.what = "cmdline" => Holds("buffer", b.ref)
           /\ b.what = "module" => Holds("data", b.ref)

\* A kernel that is entered never got what a failed allocation left behind: no
\* disk read went without its scratch memory on the way, and no structure was
\* written to address 0.  The code checks neither; it is the kernel's stack,
\* larger than a sector and a command line together, that no longer fits.
NoGarbageFromHeap == pc = "entered" => "scratch" \notin misread /\ ~nullWrite

\* When the kernel is entered its image lies in usable memory, clear of
\* everything the bootloader handed to it, and its stack of 1024 bytes lies in
\* bootloader reclaimable memory (PROTOCOL.md), clear of every other block.
EntryMemory ==
    pc = "entered" =>
        /\ \E k \in DOMAIN machine.map :
               machine.map[k].type = USABLE /\ Inside(image, machine.map[k])
        /\ \A b \in blocks : Apart(image, b)
        /\ \E s \in blocks :
               /\ s.what = "stack" /\ s.size = 1024 /\ End(s) = heap
               /\ \E k \in DOMAIN machine.map :
                      machine.map[k].type = RECLAIMABLE /\ Inside(s, machine.map[k])
               /\ \A b \in blocks \ {s} : Apart(s, b)

\* The list of n structures of a kind that starts at address a, of which the
\* k-th satisfies P(k, _), and which ends there.
IsList(a, what, n, P(_, _)) ==
    IF n = 0 THEN a = 0
    ELSE \E nodes \in [1 .. n -> {b \in blocks : b.what = what}] :
            /\ nodes[1].base = a /\ nodes[n].next = 0
            /\ \A k \in 1 .. n - 1 : nodes[k].next = nodes[k + 1].base
            /\ \A k \in 1 .. n : P(k, nodes[k])

\* A kernel entered after reads that all succeeded finds every request it made
\* answered in full: the memory map lists every region once and in order, the
\* modules are those of boot.cfg, in order, with their data, and the response of
\* a command line is missing only if boot.cfg has none.
ResponsesComplete ==
    pc = "entered" /\ misread = {} =>
        \A k \in DOMAIN reqs :
            CASE reqs[k] = 2 ->
                     IsList(resp[k], "node", Len(machine.map), LAMBDA n, b : b.ref = n)
              [] reqs[k] = 4 -> (resp[k] # 0) = disk.cmdline
              [] reqs[k] = 6 ->
                     IsList(resp[k], "module", Len(disk.modules), LAMBDA n, b :
                         \E d \in blocks : /\ d.what = "data" /\ d.base = b.ref
                                           /\ d.ref = n
                                           /\ d.size = disk.modules[n].size)
              [] reqs[k] \in {1, 3, 5} -> resp[k] # 0
              [] OTHER -> resp[k] = 0

\* A structure, once allocated, stays as it is: only the buffer of a missing
\* command line is taken back, and only the end of a list is ever linked on.
PublishedStable ==
    [][\A b \in blocks : \/ b.what = "buffer" /\ pc = "cmdline"
                         \/ \E c \in blocks' : /\ c = [b EXCEPT !.next = c.next]
                                               /\ b.next \in {0, c.next}]_vars

\* As long as the disk is read without error, booting ends: in the kernel, in
\* die(), or in a memset that a header with its ends swapped sent over memory.
BootEnds == <>(pc \in Final \/ misread # {})

\* The comment at boot.cpp:83: a kernel whose load address conflicts with the
\* bootloader's space or is outside of RAM is not loaded.
LoadedInUsableMemory ==
    image # NoImage =>
        \E k \in DOMAIN machine.map :
            machine.map[k].type = USABLE /\ Inside(image, machine.map[k])

\* The messages at boot.cpp:111 and 214: a kernel or a module that could not be
\* read from the disk ends the boot, so a ROM error never precedes the kernel.
ReadErrorsEndTheBoot == pc = "entered" => "rom" \notin misread
=============================================================================
