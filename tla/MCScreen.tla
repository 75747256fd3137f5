------------------------------ MODULE MCScreen ------------------------------
(***************************************************************************)
(* Glyphs of three by three pixels on screens of two to four columns and   *)
(* two rows, words of 128 values.                                          *)
(***************************************************************************)
EXTENDS Screen

Map(w, h, r, bitmap, size, type) ==
    [width |-> w, height |-> h, rowBytes |-> r,
     isBitMap |-> bitmap, pixelSize |-> size, pixelType |-> type]

Mac(w, h, r, map) ==
    [arch |-> "m68k", device |-> TRUE, map |-> map,
     bits |-> [width |-> w, height |-> h, rowBytes |-> r]]

MCMachines ==
    { [Mac(10, 9, 2, Map(10, 9, 3, FALSE, 2, 0)) EXCEPT !.device = FALSE],
      [Mac(9, 8, 2, Map(9, 8, 2, FALSE, 4, 0)) EXCEPT !.arch = "funnyarch"],
      Mac(7, 8, 1, Map(8, 8, 4, FALSE, 4, 0)),      \* the map of another screen
      Mac(7, 8, 1, Map(7, 8, 4, FALSE, 4, 0)),
      Mac(7, 8, 1, Map(7, 8, 7, FALSE, 8, 0)),
      Mac(7, 4, 1, Map(7, 4, 14, FALSE, 16, 16)),
      Mac(7, 8, 1, Map(7, 8, 1, FALSE, 1, 0)),      \* indexed bits
      Mac(7, 8, 1, Map(7, 8, 2, TRUE, 8, 0)) }

MCTexts ==
    { <<c>> : c \in {1, 47, 48, 57, 58, 64, 65, 90, 91, 96, 97, 122, 123} } \cup
    { <<65, c, 97, d, 49, 66, e, 67, 57>> : c, d, e \in {NL, SPACE, 90} } \cup
    { <<NL, NL, NL, 88, NL, NL, 89>>, <<>> }
MCOperands == 0 .. 9 \cup 63 .. 66 \cup 126 .. 127
=============================================================================
