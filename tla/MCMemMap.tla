------------------------------ MODULE MCMemMap ------------------------------
(***************************************************************************)
(* Machines for checking MemMap with TLC, with words of 24 bits.           *)
(***************************************************************************)
EXTENDS MemMap

\* RAM bases around 0, the ROM's variables and the bootloader; RAM tops around the
\* bootloader's end and the sign bit.
MCMacs ==
    [arch : {"m68k"},
     RAMBase : {0, 4095, 4097, 65535, 65536, 65537, 8388608},
     MemTop : {0, 65536, 77823, 77824, 77825, 131072, 8388607, 8388608, 16777215},
     begin : {65536}, end : {77824}, malloc : {70000, 77824}]

\* Bases with every alignment; amounts around what heap, stack and image take,
\* and up to the end of the address space.
MCFunnyarches ==
    [arch : {"funnyarch"},
     membase : {0, 1, 1000002, 16777216 - 200000},
     membytes : {100, 1027, 132096 + 9000, 132096 + 9001, 132096 + 9003, 132096 + 9004,
                 132096 + 9007, 199999, 200000, 1000000},
     image : {9000, 9001, 9003}]
=============================================================================
