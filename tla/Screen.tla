------------------------------- MODULE Screen -------------------------------
(***************************************************************************)
(* The text output: screen::init, clear and puts, pixel by pixel, with the *)
(* multiplications and divisions that the compiler makes calls of.         *)
(***************************************************************************)
EXTENDS LibMath, Sequences

CONSTANTS G,            \* 8, the pixels of a glyph's line and the lines of a glyph
          Machines,     \* see Machine
          Texts,        \* see Text
          Operands      \* what other parts of the program multiply and divide

\* What QuickDraw describes a screen by; rowBytes without its two flags.
BitMap == [width : Word, height : Word, rowBytes : Word]
PixMap == [width : Word, height : Word, rowBytes : Word,
           isBitMap : BOOLEAN, pixelSize : Word \ {0}, pixelType : {0, 16}]

\* bits: the screen without colors, or the only one of funnyarch; device: is there
\* a main device that has a map, and then its map.
Machine == [arch : {"m68k", "funnyarch"}, bits : BitMap, device : BOOLEAN, map : PixMap]

\* Characters that matter, by their ASCII codes.
NL == 10
SPACE == 32
Digits == 48 .. 57
Capitals == 65 .. 90
Smalls == 97 .. 122

\* All that is ever printed, by however many calls.
Text == Seq(0 .. 127)

FbOfBits(m) ==
    [width |-> m.bits.width, height |-> m.bits.height, pitch |-> m.bits.rowBytes,
     bpp |-> 1, indexed |-> FALSE, bit_be |-> m.arch = "m68k"]

\* screen::init: the device's map is used only if it has the size of the screen.
Init_fb(m) ==
    IF \/ m.arch = "funnyarch" \/ ~m.device
       \/ m.bits.width # m.map.width \/ m.bits.height # m.map.height
    THEN FbOfBits(m)
    ELSE [width |-> m.map.width, height |-> m.map.height, pitch |-> m.map.rowBytes,
          bpp     |-> IF m.map.isBitMap THEN 1 ELSE m.map.pixelSize,
          indexed |-> ~m.map.isBitMap /\ m.map.pixelType = 0, bit_be |-> TRUE]

Glyphs == 36    \* in the font: A to Z, and 0 to 9

\* A screen has room for a glyph and the margin before it, its lines have room for
\* its pixels, and a newline at its bottom is still counted by a uint32_t.
ASSUME ScreenAssumption ==
    /\ G \in Nat \ {0} /\ Glyphs < WordSize - 1 /\ Operands \subseteq Word
    /\ \A m \in Machines :
           LET f == Init_fb(m)
           IN  /\ m \in Machine
               /\ f.width > G /\ f.height > G
               /\ f.width + G < WordSize /\ f.height + G < WordSize
               /\ f.pitch * 8 >= f.width * f.bpp
               /\ f.height * f.pitch < WordSize
    /\ \A t \in Texts :
           t \in Text /\ \A m \in Machines : Init_fb(m).height + (Len(t) + 2) * (G + 1) < WordSize

VARIABLES fb,           \* what screen::init found out
          text,         \* what is still to be printed
          mem,          \* bits that were written: <<byte, bit>>, from fb.base on
          xbase, ybase,
          i, count,     \* of drawc: the glyph, and its pixels so far
          x, y,         \* the pixel that is drawn
          line,         \* of putpx: y * fb.pitch
          pc

drawn == <<i, count, x, y, line>>
vars  == <<fb, text, mem, xbase, ybase, drawn, pc, math>>

\* A pixel shows a bit of a byte of the font, or none.
OFF == <<-1, 0>>

\* Elsewhere: another part of the program computes.
Init ==
    /\ \E m \in Machines : fb = Init_fb(m)
    /\ mem = [p \in {} |-> OFF]
    /\ xbase = 1 /\ ybase = 1
    /\ i = 0 /\ count = 0 /\ x = 0 /\ y = 0 /\ line = 0
    /\ \/ pc = "start" /\ text \in Texts
       \/ pc = "elsewhere" /\ text = <<>>
    /\ MathInit

Call(o, m, n, next) ==
    /\ MathCall(o, m, n)
    /\ pc' = next

\* The bits of one byte get the value v.
Write(byte, bits, v) ==
    mem' = [p \in DOMAIN mem \cup ({byte} \X bits) |->
                IF p \in {byte} \X bits THEN v ELSE mem[p]]
-----------------------------------------------------------------------------
Elsewhere ==
    /\ pc = "elsewhere"
    /\ \E o \in Operations, m, n \in Operands : Call(o, m, n, "returning")
    /\ UNCHANGED <<fb, text, mem, xbase, ybase, drawn>>

Clear ==
    /\ pc = "start" /\ Call("mul", fb.height, fb.pitch, "memset")
    /\ UNCHANGED <<fb, text, mem, xbase, ybase, drawn>>

Memset ==
    /\ pc = "memset" /\ op = "idle" /\ pc' = "puts"
    /\ mem' = [p \in (0 .. result - 1) \X (0 .. 7) |-> OFF]
    /\ UNCHANGED <<fb, text, xbase, ybase, drawn, math>>
-----------------------------------------------------------------------------
GlyphOfNextDigit(c) ==      \* mutant: Z is counted as 0
    CASE c \in Digits   -> (c - 48) + 90 - 65
      [] c \in Capitals -> c - 65
      [] c \in Smalls   -> (c - 32) - 65
      [] OTHER          -> WordSize - 1

\* The glyph that putc passes to drawc.
Glyph(c) ==
    CASE c \in Digits   -> (c - 48) + 90 + 1 - 65
      [] c \in Capitals -> c - 65
      [] c \in Smalls   -> (c - 32) - 65
      [] OTHER          -> WordSize - 1

EmptySigned ==      \* mutant: i compared as an int
    (IF 2 * i >= WordSize THEN i - WordSize ELSE i) > Glyphs

Empty == i > Glyphs

Newline ==
    /\ pc = "puts" /\ text # <<>> /\ Head(text) = NL
    /\ text' = Tail(text)
    /\ ybase' = WAdd(ybase, G + 1) /\ xbase' = 1
    /\ UNCHANGED <<fb, mem, drawn, pc, math>>

LineFullLate == xbase > fb.width    \* mutant: any room is enough

LineFull == xbase + G > fb.width

\* Is there no room for another line?
ScreenFullLate(top) == top > fb.height  \* mutant: any room is enough

ScreenFull(top) == top + G > fb.height

\* A character other than a newline, up to the first pixel.
StartGlyph ==
    /\ pc = "puts" /\ text # <<>> /\ Head(text) # NL
    /\ LET top == IF LineFull THEN WAdd(ybase, G + 1) ELSE ybase
       IN  ybase' = IF ScreenFull(top) THEN 1 ELSE top
    /\ xbase' = IF LineFull THEN 1 ELSE xbase
    /\ i' = Glyph(Head(text)) /\ count' = 0
    /\ x' = xbase' /\ y' = ybase'
    /\ pc' = "putpx"
    /\ UNCHANGED <<fb, text, mem, line, math>>

\* The value of the pixel: the bit of the font's byte g that bitget returns.
FontByte == i * G + count \div G
State == IF Empty THEN OFF ELSE <<FontByte, count % G>>

PixelDrawnContinue ==   \* mutant: continue goes past the increments
    IF Empty THEN pc' = "putpx" /\ UNCHANGED <<text, xbase, count, x, y>>
    ELSE /\ count' = count + 1
         /\ IF x + 1 < xbase + G
            THEN x' = x + 1 /\ pc' = "putpx" /\ UNCHANGED <<text, xbase, y>>
            ELSE IF y + 1 < ybase + G
            THEN x' = xbase /\ y' = y + 1 /\ pc' = "putpx" /\ UNCHANGED <<text, xbase>>
            ELSE /\ text' = Tail(text) /\ xbase' = xbase + G /\ pc' = "puts"
                 /\ UNCHANGED <<x, y>>

\* The ends of the two loops, and of drawc.
PixelDrawn ==
    /\ count' = IF Empty THEN count ELSE count + 1
    /\ IF x + 1 < xbase + G
       THEN x' = x + 1 /\ pc' = "putpx" /\ UNCHANGED <<text, xbase, y>>
       ELSE IF y + 1 < ybase + G
       THEN x' = xbase /\ y' = y + 1 /\ pc' = "putpx" /\ UNCHANGED <<text, xbase>>
       ELSE /\ text' = Tail(text) /\ xbase' = xbase + G /\ pc' = "puts"
            /\ UNCHANGED <<x, y>>
-----------------------------------------------------------------------------
(***************************************************************************)
(* putpx: a bit of a byte, or a byte of an indexed pixel, whatever its     *)
(* number of bits; other pixels are not drawn.                             *)
(***************************************************************************)
PutpxNothing ==
    /\ pc = "putpx" /\ ~fb.indexed /\ fb.bpp # 1
    /\ PixelDrawn
    /\ UNCHANGED <<fb, mem, ybase, i, line, math>>

PutpxLine ==
    /\ pc = "putpx" /\ (fb.indexed \/ fb.bpp = 1)
    /\ Call("mul", y, fb.pitch, "line")
    /\ UNCHANGED <<fb, text, mem, xbase, ybase, drawn>>

Bitpos == IF fb.bit_be THEN 7 - (x % 8) ELSE x % 8

PutpxBit ==
    /\ pc = "line" /\ op = "idle" /\ ~fb.indexed
    /\ Write(WAdd(result, x \div 8), {Bitpos}, State)
    /\ PixelDrawn
    /\ UNCHANGED <<fb, ybase, i, line, math>>

PutpxDivide ==
    /\ pc = "line" /\ op = "idle" /\ fb.indexed
    /\ line' = result
    /\ Call("div", x, fb.bpp, "byte")
    /\ UNCHANGED <<fb, text, mem, xbase, ybase, i, count, x, y>>

PutpxByte ==
    /\ pc = "byte" /\ op = "idle"
    /\ Write(WAdd(line, result), 0 .. 7, State)
    /\ PixelDrawn
    /\ UNCHANGED <<fb, ybase, i, line, math>>
-----------------------------------------------------------------------------
Computing == MathStep /\ UNCHANGED <<fb, text, mem, xbase, ybase, drawn, pc>>

Running == \/ Elsewhere \/ Clear \/ Memset
           \/ Newline \/ StartGlyph
           \/ PutpxNothing \/ PutpxLine \/ PutpxBit \/ PutpxDivide \/ PutpxByte
           \/ Computing

Finished == \/ pc = "puts" /\ text = <<>>
            \/ pc = "returning" /\ op = "idle"

Next == Running \/ (Finished /\ UNCHANGED vars)

\* A single processor, which goes on.
Spec == Init /\ [][Next]_vars /\ WF_vars(Running)
-----------------------------------------------------------------------------
TypeOK ==
    /\ fb \in {Init_fb(m) : m \in Machines}
    /\ text \in Text
    /\ \A p \in DOMAIN mem : p \in Nat \X (0 .. 7)
    /\ xbase \in 1 .. fb.width /\ ybase \in Word
    /\ i \in Word /\ count \in 0 .. G * G
    /\ x \in 0 .. fb.width /\ y \in 0 .. fb.height
    /\ line \in Word
    /\ pc \in {"start", "elsewhere", "returning", "memset", "puts", "putpx", "line", "byte"}
    /\ MathTypeOK

\* Text never writes outside the framebuffer, wherever a line, the screen or a text
\* ends.  Indexed pixels of less than four bits are the exception: as many bytes
\* as they have pixels for each of their bits are more than the line has.
InFramebuffer ==
    (fb.indexed => fb.bpp >= 4) =>
        \A p \in DOMAIN mem : p[1] < fb.height * fb.pitch

\* While a glyph's pixel is drawn, the byte it comes from is one of the font.
FontInBounds ==
    pc \in {"putpx", "line", "byte"} /\ ~Empty => FontByte < Glyphs * G

\* What a reader sees: the pixel in a column and a line of a screen of bits.
PixelAt(u, v) == <<v * fb.pitch + u \div 8, IF fb.bit_be THEN 7 - (u % 8) ELSE u % 8>>

\* The characters of the font, in its order.
FontChar(k) == IF k < 26 THEN 65 + k ELSE 48 + (k - 26)
Letters == {FontChar(k) : k \in 0 .. Glyphs - 1} \cup {SPACE}

\* What a character is shown as.
Shown(c) == CASE c \in Digits \cup Capitals -> c
              [] c \in Smalls -> c - 32
              [] OTHER -> SPACE

\* Does a cell show nothing, or the glyph whose first byte in the font this is?
CellPixel(cell, u, v) ==
    LET p == PixelAt(1 + cell[1] * G + u, 1 + cell[2] * (G + 1) + v)
    IN  IF p \in DOMAIN mem THEN mem[p] ELSE <<-2, 0>>

ShowsNothing(cell) == \A u, v \in 0 .. G - 1 : CellPixel(cell, u, v) = OFF

ShowsGlyph(cell, byte) ==
    \A u, v \in 0 .. G - 1 : CellPixel(cell, u, v) = <<byte + v, u>>

CellLetter(cell) ==
    LET byte == CellPixel(cell, 0, 0)[1]
    IN  IF ShowsNothing(cell) THEN SPACE
        ELSE IF byte % G = 0 /\ byte \in 0 .. Glyphs * G - 1 /\ ShowsGlyph(cell, byte)
        THEN FontChar(byte \div G) ELSE -1

Columns == (fb.width - 1) \div G
Rows    == fb.height \div (G + 1)

\* A screen of other pixels than bits shows nothing that could be read.
Readable == ~fb.indexed /\ fb.bpp = 1

Cells ==
    [cell \in (0 .. Columns - 1) \X (0 .. Rows - 1) |->
        IF Readable THEN CellLetter(cell) ELSE SPACE]

Term == INSTANCE Terminal WITH
            Blank   <- SPACE,
            cols    <- Columns,
            rows    <- Rows,
            cells   <- Cells,
            col     <- (xbase - 1) \div G,
            row     <- (ybase - 1) \div (G + 1),
            drawing <- IF pc \in {"putpx", "line", "byte"}
                       THEN {IF Readable THEN Shown(Head(text)) ELSE SPACE} ELSE {}

\* On a screen of bits, in either order, each character appears in the next cell as
\* the glyph that the font has for it and nothing else changes.  On other screens,
\* the cells are at least gone through in that order.
IsTerminal == Term!Spec

\* All of a text is printed.
PutsEnds == pc = "start" ~> (pc = "puts" /\ text = <<>>)
=============================================================================
