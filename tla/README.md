# littleboot in TLA+

littleboot boots a kernel on the m68k Macintosh and on funnyarch.  It is one
thread of C++ without an operating system below it: startup code checks the
machine, a bump allocator is set up, the FAT volume behind the bootloader is
mounted, `boot.cfg` names a kernel, the kernel is loaded, the *requests* in its
image are answered with structures in bootloader memory, and the kernel is
entered.  Nothing is persisted and nothing runs concurrently.  What makes it hard
is what a single run can meet: memory that runs out at any allocation, disk reads
that fail at any place and are not noticed, addresses that wrap around, volumes
of any geometry, and pointers that must stay good until a kernel, much later,
follows them.

Paths below are relative to the repository.

## The system

| Part | State | Operations | Talks to |
|---|---|---|---|
| startup (`arch/*/startup.S`, `startup_arch.cpp`) | ROM's description of RAM | checks that the bootloader fits | `start()` |
| memory map (`arch/*/memmap.cpp`) | RAM's ends, `mem_*` globals, the iterator's context | `funnyarch_mem_init`, `memmap::iter` | read by `boot()` and `gen_memmap` |
| bump allocator (`bumpalloc.cpp`, `arch/*/bumpalloc.cpp`) | `bumpalloc_begin`, `bumpalloc_end` | `bumpalloc_init`, `bump_malloc`, `bump_dealloc` | `boot()`, `enter_kernel`, the disk drivers |
| disk drivers (`arch/*/disk.cpp`, `arch/m68k/rom/disk.cpp`) | none but scratch memory from the heap | `disk::read` | the ROM; called by the FAT driver through `read_disk`, a callback that returns nothing |
| FAT driver (`fat/fat.cpp`) | `fat_driver_state`, `fat_file_handle` | `init_fat_driver`, `fat_open_file`, `fat_seek`, `fat_read` | the disk driver |
| `boot.cfg` reader (`boot/config.cpp`) | the handle's position, `seek_pos` | `get_cfg_value` | the FAT driver |
| `boot()` (`boot/boot.cpp`) | the kernel's header and image, the request scan, lists of responses | the whole boot | all of the above |
| kernel entry (`arch/*/boot.cpp`, `kernelentry.S`) | the kernel's stack | `enter_kernel` | the allocator |
| screen (`screen.cpp`, `arch/*/screen.cpp`) | cursor, framebuffer | `puts`, `clear` | everyone; also handed to the kernel |
| compiler support (`libgcc_math.h`, `libcxx/`) | none | `mul`, `div`, `mod`, `memset`, `memcpy`, `strncpy` | the compiler |

What makes each part correct:

* **startup and memory map**: when startup lets a machine pass, the regions do
  not overlap, do not wrap, tell of all of RAM and of nothing else, and the heap
  lies in a reclaimable one.
* **allocator**: what was given out and not given back is exactly what lies below
  `bumpalloc_begin`; `bump_dealloc`, which only subtracts, never takes back a
  block somebody still uses.
* **FAT handles**: whatever the sizes of sectors and clusters and the file's fragmentation,
  a handle of a file in the first 4 GiB of the disk is a sequence of bytes with a position.
* **boot()**: a kernel that is entered lies in usable memory, clear of everything
  it is handed, on a stack of its own; every request is answered completely or
  booting stopped; every pointer handed out leads to live memory; a failure on
  the way leaves nothing behind that a kernel would trust; booting ends.

* **mount**: a formatted volume is mounted as what it is; what is mounted never
  makes the driver divide by zero.
* **disk drivers**: the buffer gets the bytes of the range or the caller is told;
  scratch memory is given back on every path.
* **boot.cfg reader**: the value of the first line with the key, cut to the buffer.
* **screen**: text appears cell by cell, and nothing outside the framebuffer or the
  font is touched; multiplication and division are those of words.

Hard behaviours, each listed with its line in `PROJECT.json` under "hazards":
allocation failure (checked everywhere but in `gen_memmap`), scratch memory
shared between disk reads and responses, read errors swallowed by the callback,
unsigned and signed comparisons of addresses, and the boundaries of clusters,
chains and files.

## The modules

```
Regions ---- MemMap ----- MemMapProofs        MCMemMap
   |\-------- Boot ------- BootProofs          MCBoot
   |\-------- FatMount --- FatMountProofs      MCFatMount
   |\-------- DiskRead --- DiskReadProofs      MCDiskRead     (implements DiskRange)
   \-------- LibMath --- Screen --- ScreenProofs   MCScreen   (implements Terminal)
FatFile ------------- FatFileProofs           MCFatFile      (implements ByteFile)
Config (of ByteFile) --- ConfigProofs         MCConfig
FatDir -------------- FatDirProofs            MCFatDir
```

**Regions** has words with wrap-around, blocks of memory, what it means that
blocks tile a range, and `SoundMap`, the interface between MemMap, which
guarantees it, and Boot, which assumes it.

**MemMap** is the way from reset to the memory map.  `MacStartup` and
`FunnyarchStartup` are the checks (the Macintosh's `cmpi.l` with signed
conditions is `Signed`), `MemInit` is `funnyarch_mem_init`, `InitHeap` both
`bumpalloc_init`, and each `Iter` one call of `memmap::iter`.

**Boot** is `boot()` with `gen_memmap`, `enter_kernel` and the allocator.  One
action is one stretch of the code between two places where it can return or
allocate; `pc` names the place.  `heap` is `bumpalloc_begin` and `blocks` the
blocks given out and not given back, each with what it is, what its pointer field
refers to and its `next` field, which is all a property needs to tell of a
structure.  A disk is the record of what `boot()` would read from it.  Every
action that reads the disk may find that the read failed: for want of 512 bytes of
scratch memory (always on m68k, depending on alignment on funnyarch) or because
the ROM failed (m68k only).  A failed read is remembered in `misread` and, from then on,
whatever is read may be any value of its type: that is what the
`read_disk` callback, which returns nothing, does to its callers.  A write
through a null pointer is remembered in `nullWrite`.

**ByteFile** is what the callers of an open handle rely on: bytes, a position,
`Read` and `Seek`.  **FatFile** is the driver's side, with the actions
`StartRead`, `Walk`, `EndWalk`, `Advance`, `ReadPiece` and `EndRead` for the two
loops of `fat_read`, and `Seek` for `fat_seek`.  A byte of the data area is
represented by its offset on the disk, so the buffer shows which parts of the disk
were read; the table's bytes are real and decoded the way
`fat_get_next_cluster` does.  What the volume should look like (`WellFormed`,
`Content`) is written from the formatter's side: it lays out the data area by
sectors, writes entries of 12, 16 or 32 bits, links a chain.  `IsByteFile` says
that the driver, looking from its side, implements ByteFile.  The driver computes
sectors and addresses in `uint32_t` (`fat.cpp:97-105`, `132-136` and `347-349`), and so do
`EntryAddress`, `ClusterToSector` and `ClusterAddress`, modulo `WordSize`: on a
volume with data past the first 4 GiB of the disk, which is nothing unusual with
FAT32, the address wraps around and `fat_read` returns other bytes, without an error.
`IsByteFile` is therefore about files that lie, with their table, below that
(`Addressable`); nothing in the code ensures it.

**FatMount** is `init_fat_driver`, one action for each of its reads and groups of
checks, with `detect_fat_type` as the operators `RootSectors`, `Overhead`,
`DataSectors`, `TotalClusters` and `TypeFor`, in words that wrap around.  A disk
is its two structures and, if it was formatted, what the formatter had in mind;
each read may fail, and the structure is then any of `Bpbs` or `Ebpbs`, since
`read_disk` returns nothing and the buffer is on the stack.  The result is what
FatFile takes as `Volume`.

**DiskRange** is what a read promises: bytes of a range, or a failure the caller is
told of, and nothing written outside the buffer.  **DiskRead** is `disk::read` of both
architectures: `MacStart`, `MacSectors`, `MacLast`, `FunnyarchStart`,
`FunnyarchSector`, `FunnyarchEnd`, and the loop `Piece`, `PiecesEnd` that both
have.  A byte of the disk is its offset, so the buffer shows what was read from
where; `room` is what the heap has left.  `ReadBootDisk` is the Macintosh's ROM, with its checks and
failures, `SectorRead` funnyarch's, which reports nothing.

**LibMath** has the loops of `mul`, `div` and `mod`, a step for a round.
**Screen** extends it with `screen::init` (`Init_fb`), `clear` and `puts` down to
`putpx`; where the compiler makes a call of a multiplication or division, the
model does.  A bit of the framebuffer shows which bit of the font it got, so
that the picture of a glyph is recognised wherever it appears.  **Terminal** is the
grid of characters a reader sees.  The mapping computes the cells from the bits
in memory, by where a pixel is on a screen of the given pitch and bit order.

**FatDir** is `fat_open_file`.  One action is one round of its inner loop: `Pass`
goes on to the next entry, `Descend` into a directory, `Open`, `GiveUp` and
`EndRoot` return.  `SplitFileName` and `Namecmp` are the functions of these names
on paths as sequences of characters.  `WellFormed` says, from the formatter's
side, how a directory's listing lies in its chain or in the root area.  What a
path names is defined without the driver: `Part` cuts it at slashes, `Display`
writes an entry the way a user would, `Named` follows the parts through the
listings.  A well-formed volume has no two entries of the same name in a
directory, no dots inside a name, and directories that lead to clusters with a
listing; the entry `..` may have cluster 0, which a formatter writes for the root.
The driver does not know of that cluster's meaning, but only a part like `...`, which
`split_file_name` cuts into the name `..`, can lead to it: `DirectoriesAssumption`
excludes such paths.

**Config** is `get_cfg_value` with one action per `fgetc`, and its caller: `Get`
for single values, `GetAll` and `GetNext` for the loop over `MODULE_PATH`.  It
composes with ByteFile: every access to the file is ByteFile's `Read` or `Seek`,
which `HandleIsFile` proves of the driver.  `Lines` and `Value` say what
boot.cfg means.

Modules named `MC...` give the constants small values for TLC.

## The runs

| Run | Shows | States |
|---|---|---|
| `boot` | `boot()` on 6 machines and 37 disks: types, heap, pointers, kernel memory, responses, stability, termination | 293 000 |
| `boot_header` | counterexample: a header with its ends swapped is loaded outside usable memory | |
| `boot_rom` | counterexample: a ROM error does not end the boot | |
| `memmap` | startup and memory map of 246 machines | 1 000 |
| `fatfile` | seeks and reads on 16 volumes implement an abstract file and end | 36 000 |
| `fatdir` | 516 paths on 5 volumes: what is opened is what is named, ordinary files are found, the search ends | 15 000 |
| `fatdir_letter` | counterexample: a file with a one-letter name is not found | |
| `fatdir_attr` | counterexample: hidden, read-only and system entries are not found | |
| `fatmount` | mounts of 60 disks, with reads that fail: formatted volumes are mounted right, mounted ones are safe to use | 147 000 |
| `diskread` | all short reads by both drivers implement a read of a range, return the heap, fail for a reason, and end | 58 000 |
| `screen` | 42 texts on 8 screens implement a terminal, stay in the framebuffer and the font, and are printed; products, quotients and remainders are right | 111 000 |
| `config` | look-ups in 366 files: first value, all values in order, termination | 52 000 |

Bounds, and why they are enough:

* `boot`: the heaps have room for nothing (the first read fails), for some of a
  list, for a list but not the stack, and for all of a boot, so that each of the
  allocations fails in some behaviour and succeeds in others.  Headers lie inside
  a region, at its end, one past it, in the bootloader, the wrong way round, and
  one byte too small for the file.  Request lists repeat and mix list-building
  requests; module lists are empty, have empty modules, one missing, one with a short chain.
  `MaxModules` (3) bounds the lines a misread `boot.cfg` may seem to have.
  Addresses have 24 bits instead of 32, as many as the Macintosh has.
* `memmap`: RAM begins and ends at, one before and one after each address that
  the code compares it with, with every alignment, in 24-bit words.
* `fatfile`: clusters of 4, 8 and 64 bytes; files that are empty, end inside, at the
  end of and beyond their last cluster; positions and counts up to twice a
  file's size.  `WordSize` is 1764, so that the farthest cluster ends just at the last
  address, and seeks to before the start wrap.  With
  sectors of 4 bytes a 12-bit entry straddles two sectors.

* `fatdir`: names of 3 and extensions of 2 characters, so that short paths can be
  too long for them; 2 entries to a cluster, so that directories end inside and at
  the end of a chain; root directories with room, full and empty, fixed and in
  clusters.  Paths have up to three parts, with single and repeated slashes, as
  deep as the directories and one deeper.
* `fatmount`: formatted volumes have 1, 4084, 4085, 65524, 65525 and a million
  clusters, of 1 and 8 sectors, with and without the last sectors that are too
  few for a cluster.  Structures that failed reads leave have each field at zero
  and at its largest, or so that the sums wrap around.  Words have 26 bits, the fewest
  that a volume with a FAT32 table and clusters of any size needs.
* `diskread`: sectors of 4 bytes, all offsets in a word of 32 values, counts up to
  9, which is two sectors and a byte: reads that begin and end at, before and after each sector
  boundary, the disk's end and the last address.  The heap has room for the
  scratch buffer or lacks one byte.
* `screen`: glyphs of 3 by 3 pixels (`G` is 8 in the code), two to four columns
  and two rows, with margins of every size; words of 128 values.  The screens are a
  Macintosh's without and with a main device, of the same and of another size, with pixels of
  1, 2, 4, 8 and 16 bits, and funnyarch's.  Texts have the characters before and
  after each range of the font, fill a line and the screen exactly and by one more, and
  have newlines at the end of a full line and past the bottom.
* `config`: all files of up to five characters over a letter, `=` and newline,
  which is enough for two lines with a key; one key begins like the other; buffers
  for no characters and for two.  Two longer files add values cut by the buffer,
  lines that only look like the key's, and a value that repeats it.

Properties that hold are broken by the mutants in `PROJECT.json`, each a
plausible bug in one definition.

The counterexamples:

* `boot.cpp:94` compares each end of the kernel with one end of the region but
  not the ends with each other.  With `load_end_address < load_address` the
  check passes and `memset` at line 108 is given a size near 2^32
  (`pc = "lost"`).
* The messages at `boot.cpp:111` and `214` are meant for a disk read error, but
  the callback at line 40 drops the error; only a chain that is too short gets
  there.
* `fat.cpp:36` means to recognise the end of the path, but recognises a part of one
  character.
* `fat.cpp:258` means to skip long names, which have four attributes set, but
  skips every entry with one of them.

That `NoGarbageFromHeap` holds is less obvious than it looks: `gen_memmap` does
not check its allocations and `disk::read` reports the lack of scratch memory to
nobody.  What saves the kernel is that its stack, 1024 bytes, is taken last from
the same heap, and does not fit where 512 bytes, or a node, did not: at most
the 100 bytes of a command line's buffer have been given back since.

## Fairness and liveness

`Boot` and `MemMap` have weak fairness on their whole next-state relation: the
processor goes on executing, and nothing else can happen.  `FatFile` has it on
the steps of `fat_read` only, and `Config` on those of `get_cfg_value`; whether
the caller calls again is its business.  `DiskRead` has it on the steps of a read, `Screen` on
the steps of the processor.  `FatMount` has no loop and no liveness property.  `FatDir` is one call, with weak fairness on its steps.
`BootEnds` claims nothing after a misread, since a cluster chain
of garbage may be a cycle (`Hang`).  The programs' final states are stuttering steps
(`Done`): the code loops in `die()` or has left for the kernel, so TLC's deadlock
check stays on.

## What is proved

TLAPS checks the theorems for every value of the constants: any machines with a
sound map, any disks, headers, files and request lists (`MachinesAssumption`,
`DisksAssumption`); any Macintoshes the linker script can build for and any
funnyarch machines (`HardwareAssumption`); any well-formed volumes whose files lie in the
4 GiB that a `uint32_t` addresses (`VolumesAssumption`, `DirectoriesAssumption`).  TLC evaluates these assumptions in the runs.
The modules that need facts about quotients and remainders and start with them.

* **BootProofs**: every safety property of Boot: `TypeCorrect`, `HeapStaysTiled`,
  `EnteredCleanly`, `EnteredInItsMemory`, `NothingDangles`, `StructuresStable` and
  `RequestsAnswered`.  The inductive invariant `HeapInv` adds to the properties
  where the command line's buffer is when it is given back (`BufferOnTop`: it is
  the last block, which is why a subtraction frees it), that the heap is nearly
  exhausted once a read has lacked scratch memory or a node was written
  to address 0 (`Scarce`, from which the stack's failure follows), that an image
  that reached the scan was checked (`ImageSafe`), and where the stack is
  (`StackOnTop`).  `LinkInv` is about what is pointed at: which request the list in the
  making answers and that the structure the next one is linked to is a list's
  end (`EndsAt`), so that a link is only ever written over 0; and that a command
  line lies right above its buffer, so that the buffer given back is nobody's.
  `FullInv` is about a boot that misread nothing: the requests before `i` are answered
  in full, those after it not at all, and the list in the making holds
  what its loop has been through (`Current`).  `ChainGrows` extends such a list by
  the structure just allocated; `ChainKept` shows that a finished one, which the
  pointer to the end of the list in the making (`Open`) cannot reach, stays.
* **MemMapProofs**: `MapTypeCorrect`, `MapIsSound`, `MapCoversRam`.  `Progress`
  says that the reported regions are a prefix of the three that `memmap::iter`
  hands out, and what startup's checks found out; `MacLayout` and `FunnyarchLayout` then do the
  arithmetic without wrap-around.  `MapIsSound` is what `MachinesAssumption` of
  Boot asks for.
* **FatFileProofs**: `HandleIsFile`, the refinement `Spec => IsByteFile`, and
  `FatTypeCorrect`.  `Decoded` shows that the bytes the formatter wrote for an entry are
  read back as that entry, for the three widths (four cases, as 12-bit
  entries differ between even and odd clusters); `Followed` lifts that to the chain.
  `AddressesWrap` shows of all volumes, also too large ones, that the driver looks for
  a byte where the formatter put it modulo the word size, and `Located` that this is the
  place itself if the file is addressable; `Placed` is about a byte of the file.  The
  inductive invariant `IInv` says that the buffer holds the file's bytes from the
  position where the read began (`InBuffer`), and which cluster of the chain the
  two loops are at (`Walking`, `InCluster`).  Every return is then one `Read` of
  the abstract file, every other step of `fat_read` a stuttering step.

* **FatMountProofs**: `FormattedIsMounted`, `MountedIsSafe`, `MountedTablesFit`.
  That the subtraction of `detect_fat_type` does not wrap for a formatted volume
  follows from its total; that the quotient is the number of clusters from the
  uniqueness of division (`DivUnique`).  For volumes that are not well formed,
  `MountedTablesFit` shows that a difference that wrapped is too large for a
  table of 12 or 16 bits, since a word has at least 26.
* **DiskReadProofs**: `ReadIsDiskRange`, the refinement, `HeapIsReturned` and
  `ReadsFailForReason`.  The inductive invariant says that the buffer holds the
  range's bytes up to where the loop is, and that what is left lies before the
  request's end, so that no offset wraps around.
* **ScreenProofs**: `ArithmeticIsRight`, `WritesInFramebuffer`, `ReadsInFont`, and
  the refinement `ScreenIsTerminal`.
  The loops' invariants are `a * b + acc` modulo the word size for `mul`, and
  `args.a = acc * b + a` for `div` and `mod`; a pixel's address is then below
  `height * pitch` because the cursor leaves room for a glyph.  For the refinement,
  `TermInv` adds that the cursor is at a cell of the grid (`LinedUp`), that the
  newlines that may still come do not wrap it around (`HasRoom`), and that the
  glyph's cell shows the pixels before the one that is drawn (`Painted`).
  `PixelsApart` and `CellsApart` show that no two pixels of the cells share a bit of
  memory, whatever the pitch and the bit order, so that `PutpxBit` changes one
  pixel of one cell (`CellWritten`) and the last pixel completes the letter
  (`LetterShown`).
* **ConfigProofs**: `FirstValueReturned` and `AllValuesCollected`.  `Searched` says of each part of the
  loop that no line with the key was passed: what matched has no newline in it, so
  no line begins inside it (`NoneInside`), and a mismatch rules out the line itself
  (`NoneHere`); `ValueIs` identifies what was stored with the text up to the
  newline, the end or the buffer's.  For the caller's loop, `LoopInv` says that the
  lines with the key that begin before the caller's position are as many as the
  values it got, in their order (`Collected`); `NextLines` shows that from the end of
  a value on there are exactly the lines behind it, so that a look-up adds the next
  one or finds that there is none.
* **FatDirProofs**: `DirTypeCorrect`, `OpensNamedCorrect` and `FindsNamedCorrect`,
  for all well-formed volumes (with their directories in the first 4 GiB of the disk,
  since the model leaves out at which address an entry lies) and all paths.  First it shows that the two ways to
  cut a path agree: the characters from `Offset(p, n)` to `EndOfPart` are
  `Part(p, n + 1)` (`PartFact`), and its split matches an entry just if its
  displayed name does (`MatchFact`).  The inductive invariant `IInv` says that the
  search is at entry `k` of a directory `d` (`Place`: which cluster of the chain,
  which index), that the path's first parts lead to `d` (`LeadsTo`), that if they
  lead to anything ordinary it is `d` (`LeadsOnlyTo`), and that none of the entries
  before `k` has the next part's name (`Passed`).  `Offset` and `Named` are
  recursive functions; that they have values at all is shown by a least
  counterexample (`OffsetDefined`, `NamedDefined`).

That a loop ends is liveness, which the prover cannot do under fairness; what it can do
is the argument behind it.  `ReadGetsShorter` (of FatFileProofs and of DiskReadProofs)
and `SearchesGetShorter` give for `fat_read`, for `disk::read` and for
`get_cfg_value` a natural number, `StepsLeft`, that every step lowers, for all
volumes, requests and files; and the loop over a key's values ends as each search
begins nearer to the end of the file (`CharactersAhead`).

Only model-checked: liveness itself (`BootEnds`, `ReadEnds`, `IterEnds`, `SearchEnds`,
`CallEnds`, `PutsEnds`).  All invariants and action properties that the runs check,
and the three refinements, are proved.

## Not modelled, and why

* Contents: what the kernel's bytes, a module's data or a message on the screen
  are.  The scan's request list is an input, as a sequence of ids.
* Processor traps: odd addresses on a 68000, and where exactly a `memset` over all memory
  ends up.
* The registers in `kernelentry.S` and `romcall.S`, the assembly that loads the
  bootloader itself, the example kernel, the build.
* Volumes that are not well formed, but for chains that are too short: a cyclic
  directory chain, cluster numbers 0 and 1, reserved bits in FAT32 entries.
* Data past the first 4 GiB of the disk, where the addresses of `fat_read`,
  `fat_get_next_cluster` and `fat_open_file` wrap around (`fat.cpp:105`, `240`, `244`, `349`).
  FatFile computes the wrapping addresses, but its property is about files
  that do not reach there; FatDir has no addresses of entries, and its "every well-formed
  volume" is to be read with the same restriction.
* A file of nearly 2^32 bytes, on which `seekpos + count` wraps (`fat.cpp:324`).

* `disk::get_boot_fat_offset`, a constant of the linker; `memcpy` and `strncpy`, one
  step where they are called; `__muldi3`, the loop of `mul` on wider words; `__modsi3`,
  which nothing calls.
* What indexed framebuffers of 1 or 2 bits write past a line's end: `InFramebuffer` makes no
  claim of them.

## Plan

* Termination as far as the prover reaches, for the modules that lack it: FatDir,
  where the number needs the distance to the end of a chain and the depth of the path,
  Screen, MemMap and Boot.
* The seams between components: that what FatMount mounts from a formatted volume
  is what FatFile asks of its volume, and that the map that MemMap reports is what
  Boot asks of a machine.
