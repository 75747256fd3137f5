----------------------------- MODULE MCFatFile -----------------------------
(***************************************************************************)
(* Small volumes for checking FatFile with TLC: sectors of 4 bytes, and    *)
(* files of a few clusters, in and out of order.  The file that lies       *)
(* farthest from the disk's beginning ends where the addresses do.         *)
(***************************************************************************)
EXTENDS FatFile

\* The k-th byte of a number.
Part(n, k) == CASE k = 0 -> n % 256
                [] k = 1 -> (n \div 256) % 256
                [] k = 2 -> (n \div 65536) % 256
                [] k = 3 -> n \div 16777216

\* The bytes of a table with entries e, of which there is an even number.
Table(t, e) ==
    CASE t = 12 ->
            [k \in 1 .. 3 * (Len(e) \div 2) |->
                LET a == e[2 * ((k - 1) \div 3) + 1]
                    b == e[2 * ((k - 1) \div 3) + 2]
                IN  CASE k % 3 = 1 -> a % 256
                      [] k % 3 = 2 -> (a \div 256) + 16 * (b % 16)
                      [] k % 3 = 0 -> b \div 16]
      [] t = 16 -> [k \in 1 .. 2 * Len(e) |-> Part(e[(k + 1) \div 2], (k - 1) % 2)]
      [] t = 32 -> [k \in 1 .. 4 * Len(e) |-> Part(e[(k + 3) \div 4], (k - 1) % 4)]

\* The last entry of a chain: one of the values that mark its end.
EndMark(t) == CASE t = 12 -> 4095 [] t = 16 -> 65528 [] t = 32 -> 268435455

\* 8 entries: the clusters of the chain are linked, the others are of other files.
Entries(t, chain) ==
    [n \in 1 .. 8 |->
        IF \E k \in 1 .. Len(chain) - 1 : chain[k] = n - 1
        THEN chain[(CHOOSE k \in 1 .. Len(chain) - 1 : chain[k] = n - 1) + 1]
        ELSE EndMark(t)]

Made(t, bps, spc, size, chain) ==
    [type |-> t, base |-> 100, bps |-> bps, spc |-> spc, reserved |-> 2, fats |-> 2,
     fatSize |-> 8, rootEnts |-> IF t = 32 THEN 0 ELSE 3,
     fat |-> Table(t, Entries(t, chain)),
     first |-> IF chain = <<>> THEN 0 ELSE chain[1], size |-> size,
     rootSectors |-> CASE t = 32 -> 0 [] t # 32 /\ bps = 4 -> 24 [] t # 32 /\ bps = 64 -> 2,
     entries |-> Entries(t, chain), chain |-> chain]

\* No clusters; the last one full, started, not needed, and missing.
MCVolumes ==
    {Made(t, 4, 1, 0, <<>>) : t \in {12, 16, 32}}
      \cup {Made(t, 4, 1, size, <<5, 2, 3>>) : t \in {12, 16, 32}, size \in {9, 12, 14}}
      \cup {Made(12, 4, 2, size, <<3, 6>>) : size \in {7, 16, 18}}
      \cup {Made(16, 64, 1, 9, <<7>>)}

MCCounts == {0, 1, 6, 20}
MCMoves == {-2, 0, 3, 21}
=============================================================================
