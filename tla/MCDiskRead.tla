----------------------------- MODULE MCDiskRead -----------------------------
(***************************************************************************)
(* Sectors of four bytes, offsets of a word of 32 values, and all reads of *)
(* up to nine bytes: within a sector, over two sector boundaries, to the   *)
(* end of the disk, past it, and to the last byte that can be addressed.   *)
(***************************************************************************)
EXTENDS DiskRead

MCMachines ==
    [arch : {"m68k", "funnyarch"}, room : {3, 4}, reliable : BOOLEAN, disk : {0, 16, 28}]

MCRequests == {r \in [offset : Word, n : 0 .. 9] : r.offset + r.n <= WordSize}
=============================================================================
