------------------------------ MODULE Regions ------------------------------
(***************************************************************************)
(* Blocks of memory and the unsigned words that address them.  A block is  *)
(* a record with the fields base and size; a region is a block that        *)
(* memmap::iter reports, with a type.                                      *)
(***************************************************************************)
EXTENDS Integers, Sequences

CONSTANT WordSize   \* number of values of a uint32_t

ASSUME WordSizeAssumption == WordSize \in Nat \ {0, 1}

Word == 0 .. WordSize - 1

\* Unsigned addition and subtraction of two words, with wrap-around.
WAdd(a, b) == IF a + b < WordSize THEN a + b ELSE a + b - WordSize
WSub(a, b) == IF a >= b THEN a - b ELSE a - b + WordSize

Block(b, s) == [base |-> b, size |-> s]

End(r) == r.base + r.size

Inside(r, s) == s.base <= r.base /\ End(r) <= End(s)

Apart(r, s) == End(r) <= s.base \/ End(s) <= r.base

\* The blocks of B fill the addresses from lo to hi, without an overlap or a hole.
Tiled(B, lo, hi) ==
    /\ \A b \in B : lo <= b.base /\ End(b) <= hi
    /\ \A b, c \in B : b # c => Apart(b, c)
    /\ \A a \in {b.base : b \in B} \cup {hi} : a = lo \/ \E b \in B : End(b) = a

\* The values of a region's type: LITTLEBOOT_MEMMAP_*.
USABLE      == 1
RESERVED    == 2
RECLAIMABLE == 3

Region == [base : Nat, size : Nat, type : {USABLE, RESERVED, RECLAIMABLE}]

\* What the boot code relies on in a memory map: its regions do not wrap or
\* overlap, and the bump allocator's arena lies in a region that the kernel may
\* reclaim only when it is done with the bootloader.
SoundMap(map, arena) ==
    /\ map \in Seq(Region)
    /\ \A k \in 1 .. Len(map) : End(map[k]) < WordSize
    /\ \A j, k \in 1 .. Len(map) : j # k => Apart(map[j], map[k])
    /\ \E k \in 1 .. Len(map) :
           map[k].type = RECLAIMABLE /\ Inside(arena, map[k])
=============================================================================
