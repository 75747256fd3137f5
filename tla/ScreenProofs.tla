---------------------------- MODULE ScreenProofs ----------------------------
(***************************************************************************)
(* That multiplication and division are right for words of every size,     *)
(* that text stays in the framebuffer of every screen, and that it appears *)
(* there as on a terminal.                                                 *)
(***************************************************************************)
EXTENDS Screen, TLAPS, SequenceTheorems

\* Multiplication keeps the order.
LEMMA Times ==
    ASSUME NEW m \in Nat, NEW n \in Nat, NEW d \in Nat
    PROVE  (m <= n => m * d <= n * d) /\ (m < n => m * d + d <= n * d)
    BY SMT

\* Quotient and remainder.
LEMMA DivMod ==
    ASSUME NEW p \in Nat, NEW d \in Nat \ {0}
    PROVE  /\ p \div d \in Nat /\ p % d \in 0 .. d - 1
           /\ p = (p \div d) * d + (p % d)
    BY SMT

\* They are unique.
LEMMA DivUnique ==
    ASSUME NEW m \in Nat, NEW d \in Nat \ {0}, NEW r \in 0 .. d - 1
    PROVE  (m * d + r) \div d = m /\ (m * d + r) % d = r
    BY SMT

\* What the loops keep: the product of the parameters, up to whole turns of a
\* word, and the dividend.
MathInv ==
    /\ MathTypeOK
    /\ MathRight
    /\ op = "mul" => \E k \in Int : acc + a * b = args.a * args.b + k * WordSize
    /\ op \in {"div", "mod"} => b = args.b /\ args.a = acc * b + a
-----------------------------------------------------------------------------
\* A word is the remainder of all numbers it is whole turns away from.
LEMMA Turns ==
    ASSUME NEW w \in Nat \ {0}, NEW z \in 0 .. w - 1, NEW p \in Nat, NEW k \in Int, z = p + k * w
    PROVE  z = p % w
<1>1. p = (p \div w) * w + (p % w) /\ p \div w \in Nat /\ p % w \in 0 .. w - 1
    BY DivMod
<1> DEFINE q == p \div w
           r == p % w
<1>2. q \in Nat /\ r \in 0 .. w - 1 /\ p = q * w + r
    BY <1>1
<1> HIDE DEF q, r
<1>3. z = (q + k) * w + r
    BY <1>2
<1>4. PICK m \in Int : m = q + k
    BY <1>2
<1>5. z = m * w + r
    BY <1>3, <1>4
<1>6. ~(m >= 1)
    <2>1. SUFFICES ASSUME m >= 1 PROVE FALSE
        OBVIOUS
    <2>2. 1 * w <= m * w
        BY <2>1, <1>4, Times
    <2> QED BY <1>2, <1>5, <2>2
<1>7. ~(m <= -1)
    <2>1. SUFFICES ASSUME m <= -1 PROVE FALSE
        OBVIOUS
    <2>2. 1 * w <= (-m) * w
        BY <2>1, <1>4, Times
    <2>3. (-m) * w = -(m * w)
        BY <1>4
    <2> QED BY <1>2, <1>5, <2>2, <2>3
<1>8. m = 0
    BY <1>4, <1>6, <1>7
<1>9. m * w = 0
    BY ONLY <1>8
<1>10. z = r
    BY ONLY <1>2, <1>5, <1>9
<1> QED BY ONLY <1>10 DEF r

\* A sum of words is a word, at most one turn away.
LEMMA Sums ==
    ASSUME NEW u \in Word, NEW v \in Word
    PROVE  WAdd(u, v) \in Word /\ \E t \in {0, 1} : WAdd(u, v) = u + v - t * WordSize
    BY WordSizeAssumption DEF WAdd, Word

\* Half of a times twice b: the loop's sum stays the same, up to whole turns.
LEMMA HalfTwice ==
    ASSUME NEW h \in Nat, NEW e \in {0, 1}, NEW s \in Nat, NEW v \in Nat, NEW w \in Nat,
           NEW t \in {0, 1}, NEW u \in {0, 1}
    PROVE  (s + e * v - u * w) + h * (v + v - t * w) = s + (2 * h + e) * v + (-(h * t + u)) * w
<1>1. CASE t = 0
    BY <1>1, SMT
<1>2. CASE t = 1
    BY <1>2, SMT
<1> QED BY <1>1, <1>2

\* A turn of the loop of mul.
LEMMA MulStepKeeps == ASSUME MathInv, MulStep PROVE MathInv'
<1> DEFINE h == a \div 2
           e == a % 2
<1>1. /\ op = "mul" /\ op' = "mul" /\ args' = args /\ result' = result
      /\ a \in Nat /\ a < WordSize /\ b \in Word /\ acc \in Word
      /\ a' = h /\ b' = WAdd(b, b) /\ acc' = IF e = 1 THEN WAdd(acc, b) ELSE acc
    BY WordSizeAssumption DEF MulStep, MathInv, MathTypeOK, Word
<1>2. h \in Nat /\ e \in {0, 1} /\ a = 2 * h + e /\ h <= a
    BY <1>1
<1> HIDE DEF h, e
<1>3. PICK t \in {0, 1} : b' = b + b - t * WordSize
    BY <1>1, Sums
<1>4. \E u \in {0, 1} : acc' = acc + e * b - u * WordSize
    <2>1. CASE e = 1
        <3>1. e * b = b
            BY <1>1, <2>1, WordSizeAssumption DEF Word
        <3> QED BY <1>1, <2>1, <3>1, Sums
    <2>2. CASE e = 0
        <3>1. acc' = acc /\ acc \in Int /\ b \in Int
            BY <1>1, <2>2, WordSizeAssumption DEF Word
        <3>2. acc = acc + e * b - 0 * WordSize
            BY <2>2, <3>1, WordSizeAssumption
        <3> QED BY <3>1, <3>2
    <2> QED BY <1>2, <2>1, <2>2
<1>5. PICK u \in {0, 1} : acc' = acc + e * b - u * WordSize
    BY <1>4
<1>6. acc \in Nat /\ b \in Nat /\ WordSize \in Nat
    BY <1>1, WordSizeAssumption DEF Word
<1>7. acc' + a' * b' = acc + a * b + (-(h * t + u)) * WordSize
    <2>1. (acc + e * b - u * WordSize) + h * (b + b - t * WordSize)
              = acc + (2 * h + e) * b + (-(h * t + u)) * WordSize
        BY <1>2, <1>6, HalfTwice
    <2> QED BY <1>1, <1>2, <1>3, <1>5, <2>1
<1>8. PICK k \in Int : acc + a * b = args.a * args.b + k * WordSize
    BY <1>1 DEF MathInv
<1>9. \E j \in Int : acc' + a' * b' = args'.a * args'.b + j * WordSize
    <2>1. PICK j \in Int : j = -(h * t + u)
        BY <1>2
    <2>2. args.a \in Nat /\ args.b \in Nat
        BY WordSizeAssumption DEF MathInv, MathTypeOK, Word
    <2>3. PICK q \in Nat : q = args.a * args.b
        BY <2>2
    <2>4. acc' + a' * b' = q + k * WordSize + j * WordSize
        BY <1>7, <1>8, <2>1, <2>3
    <2>5. k * WordSize + j * WordSize = (k + j) * WordSize
        BY <1>6
    <2>6. acc' + a' * b' = q + (k + j) * WordSize
        BY ONLY <2>4, <2>5, <1>6, k \in Int, j \in Int, q \in Nat
    <2> QED BY <1>1, <2>3, <2>6
<1>10. MathTypeOK'
    <2>1. acc' \in Word /\ b' \in Word
        BY <1>1, Sums
    <2>2. a' \in Word
        BY <1>1, <1>2, WordSizeAssumption DEF Word
    <2> QED BY <1>1, <2>1, <2>2 DEF MathInv, MathTypeOK
<1>11. MathRight'
    BY <1>1 DEF MathRight
<1> QED BY <1>1, <1>9, <1>10, <1>11 DEF MathInv

\* A turn of the loop of div and mod.
LEMMA DivStepKeeps == ASSUME MathInv, DivStep PROVE MathInv'
<1>1. /\ op \in {"div", "mod"} /\ op' = op /\ args' = args /\ result' = result
      /\ a \in Nat /\ b \in Nat \ {0} /\ acc \in Nat /\ a >= b
      /\ a' = a - b /\ b' = b /\ acc' = acc + 1
      /\ args.a \in Nat /\ args.a < WordSize /\ a < WordSize
      /\ b = args.b /\ args.a = acc * b + a
    BY WordSizeAssumption DEF DivStep, MathInv, MathTypeOK, Word
<1>2. (acc + 1) * b = acc * b + b
    BY <1>1
<1>3. args.a = (acc + 1) * b + (a - b)
    BY <1>1, <1>2
<1>4. acc + 1 <= (acc + 1) * b
    <2>1. 1 * (acc + 1) <= b * (acc + 1)
        BY <1>1, Times
    <2> QED BY <1>1, <2>1
<1>5. acc' \in Word /\ a' \in Word
    BY <1>1, <1>3, <1>4, WordSizeAssumption DEF Word
<1>6. MathTypeOK'
    BY <1>1, <1>5 DEF MathInv, MathTypeOK
<1>7. MathRight'
    BY <1>1 DEF MathRight
<1> QED BY <1>1, <1>3, <1>6, <1>7 DEF MathInv

\* The product when the loop ends.
LEMMA MulEndKeeps == ASSUME MathInv, MulEnd PROVE MathInv'
<1>1. /\ op = "mul" /\ op' = "idle" /\ args' = args /\ result' = acc /\ a = 0
      /\ a' = a /\ b' = b /\ acc' = acc
    BY DEF MulEnd, MathReturn
<1>2. /\ acc \in 0 .. WordSize - 1 /\ b \in Nat /\ args.a \in Nat /\ args.b \in Nat
      /\ args.op = "mul" /\ WordSize \in Nat \ {0}
    BY <1>1, WordSizeAssumption DEF MathInv, MathTypeOK, Word
<1>3. PICK k \in Int : acc + a * b = args.a * args.b + k * WordSize
    BY <1>1 DEF MathInv
<1>4. PICK p \in Nat : p = args.a * args.b
    BY <1>2
<1>5. acc = p + k * WordSize
    BY <1>1, <1>2, <1>3, <1>4
<1>6. acc = p % WordSize
    BY ONLY <1>2, <1>5, Turns, k \in Int, p \in Nat
<1>7. MathRight'
    BY <1>1, <1>2, <1>4, <1>6 DEF MathRight
<1>8. MathTypeOK'
    BY <1>1 DEF MathInv, MathTypeOK
<1> QED BY <1>1, <1>7, <1>8 DEF MathInv

\* Quotient and remainder when the loop ends, or is not begun.
LEMMA DivEndKeeps == ASSUME MathInv, DivZero \/ DivEnd PROVE MathInv'
<1>1. /\ op \in {"div", "mod"} /\ op' = "idle" /\ args' = args
      /\ a' = a /\ b' = b /\ acc' = acc /\ args.op = op
      /\ a \in Nat /\ b \in Nat /\ acc \in Nat /\ b = args.b /\ args.a = acc * b + a
      /\ IF b = 0 THEN result' = 0 ELSE a < b /\ result' = IF op = "div" THEN acc ELSE a
    BY WordSizeAssumption DEF DivZero, DivEnd, MathReturn, MathInv, MathTypeOK, Word
<1>2. ASSUME b # 0 PROVE args.a \div b = acc /\ args.a % b = a
    <2>1. a \in 0 .. b - 1
        BY <1>1, <1>2
    <2>2. (acc * b + a) \div b = acc /\ (acc * b + a) % b = a
        <3>1. acc \in Nat /\ b \in Nat \ {0}
            BY <1>1, <1>2
        <3> QED BY ONLY <2>1, <3>1, DivUnique
    <2> QED BY <1>1, <2>2
<1>3. MathRight'
    BY <1>1, <1>2 DEF MathRight
<1>4. result' \in Word
    BY <1>1, WordSizeAssumption DEF MathInv, MathTypeOK, Word
<1>5. MathTypeOK'
    BY <1>1, <1>4 DEF MathInv, MathTypeOK
<1> QED BY <1>1, <1>3, <1>5 DEF MathInv

\* Steps of the arithmetic, and calls of it.
LEMMA MathStepKeeps == ASSUME MathInv, MathStep PROVE MathInv'
    BY MulStepKeeps, DivStepKeeps, MulEndKeeps, DivEndKeeps DEF MathStep

LEMMA MathCallKeeps ==
    ASSUME MathInv, NEW o \in Operations, NEW m \in Word, NEW n \in Word, MathCall(o, m, n)
    PROVE  MathInv' /\ args' = [op |-> o, a |-> m, b |-> n] /\ op' = o
<1>1. /\ op' = o /\ args' = [op |-> o, a |-> m, b |-> n] /\ a' = m /\ b' = n /\ acc' = 0
      /\ result' = result /\ m \in Nat /\ n \in Nat /\ 0 \in Word
    BY WordSizeAssumption DEF MathCall, Word
<1>2. args' \in [op : {"none"} \cup Operations, a : Word, b : Word]
    BY <1>1
<1>3. MathTypeOK'
    BY <1>1, <1>2 DEF MathInv, MathTypeOK
<1>4. MathRight'
    BY <1>1 DEF MathRight, Operations
<1>5. acc' + a' * b' = args'.a * args'.b + 0 * WordSize
    <2>1. PICK p \in Nat : p = m * n
        BY <1>1
    <2>2. 0 + p = p + 0 * WordSize
        BY <2>1, WordSizeAssumption
    <2> QED BY <1>1, <2>1, <2>2
<1>6. m = 0 * n + m
    BY <1>1
<1> QED BY <1>1, <1>3, <1>4, <1>5, <1>6 DEF MathInv

LEMMA MathUnchanged == ASSUME MathInv, UNCHANGED math PROVE MathInv'
    BY DEF MathInv, MathTypeOK, MathRight, math
-----------------------------------------------------------------------------
Drawing == pc \in {"putpx", "line", "byte"}

\* The variables except those of the arithmetic.
Shape ==
    /\ text \in Text
    /\ xbase \in 1 .. fb.width /\ ybase \in Word
    /\ i \in Word /\ count \in 0 .. G * G
    /\ x \in 0 .. fb.width /\ y \in 0 .. fb.height

\* The glyph fits where it is drawn, the pixel is one of it, and count has counted
\* those before it.
Place ==
    Drawing =>
        /\ text # <<>>
        /\ xbase + G <= fb.width /\ ybase + G <= fb.height
        /\ x \in xbase .. xbase + G - 1 /\ y \in ybase .. ybase + G - 1
        /\ i \in 0 .. Glyphs - 1 \cup {WordSize - 1}
        /\ count = IF Empty THEN 0 ELSE (y - ybase) * G + (x - xbase)

\* What the call that runs, or has returned, computes.
Calls ==
    /\ pc \in {"start", "elsewhere", "puts", "putpx"} => op = "idle"
    /\ pc = "memset" => args = [op |-> "mul", a |-> fb.height, b |-> fb.pitch]
    /\ pc = "line" => /\ args = [op |-> "mul", a |-> y, b |-> fb.pitch]
                      /\ ~fb.indexed => fb.bpp = 1
    /\ pc = "byte" => /\ args = [op |-> "div", a |-> x, b |-> fb.bpp]
                      /\ fb.indexed /\ line = y * fb.pitch

IInv == TypeOK /\ MathInv /\ Place /\ Calls /\ InFramebuffer
-----------------------------------------------------------------------------
\* What screen::init finds.
LEMMA Framebuffers ==
    ASSUME NEW f \in {Init_fb(m) : m \in Machines}
    PROVE  /\ f.width \in Nat /\ f.height \in Nat /\ f.pitch \in Nat /\ f.bpp \in Nat \ {0}
           /\ f.width \in Word /\ f.height \in Word /\ f.pitch \in Word /\ f.bpp \in Word
           /\ f.indexed \in BOOLEAN
           /\ f.width > G /\ f.height > G
           /\ f.width + G < WordSize /\ f.height + G < WordSize
           /\ f.pitch * 8 >= f.width * f.bpp /\ f.height * f.pitch < WordSize
<1>1. PICK m \in Machines : f = Init_fb(m)
    OBVIOUS
<1>2. /\ f.width > G /\ f.height > G
      /\ f.width + G < WordSize /\ f.height + G < WordSize
      /\ f.pitch * 8 >= f.width * f.bpp /\ f.height * f.pitch < WordSize
      /\ m \in Machine
    BY <1>1, ScreenAssumption
<1>3. /\ m.bits.width \in Word /\ m.bits.height \in Word /\ m.bits.rowBytes \in Word
      /\ m.map.width \in Word /\ m.map.height \in Word /\ m.map.rowBytes \in Word
      /\ m.map.pixelSize \in Word \ {0} /\ m.map.isBitMap \in BOOLEAN
    BY <1>2 DEF Machine, BitMap, PixMap
<1>4. 1 \in Word \ {0}
    BY ScreenAssumption, WordSizeAssumption DEF Word
<1>5. f.width \in Word /\ f.height \in Word /\ f.pitch \in Word
    BY <1>1, <1>3 DEF Init_fb, FbOfBits
<1>6. f.bpp \in Word \ {0}
    BY <1>1, <1>3, <1>4 DEF Init_fb, FbOfBits
<1>7. f.indexed \in BOOLEAN
    BY <1>1, <1>3 DEF Init_fb, FbOfBits
<1> QED BY <1>2, <1>5, <1>6, <1>7, WordSizeAssumption DEF Word

\* The sizes that the code has.
LEMMA Sizes ==
    G \in Nat \ {0} /\ WordSize \in Nat /\ Glyphs = 36 /\ 37 < WordSize /\ Word \subseteq Nat
        /\ Operands \subseteq Word
    BY ScreenAssumption, WordSizeAssumption DEF Glyphs, Word

\* A product that is a word is what mul returns.
LEMMA SmallProduct ==
    ASSUME MathRight, op = "idle", args.op = "mul", NEW m \in Nat, NEW n \in Nat,
           args.a = m, args.b = n, m * n < WordSize
    PROVE  result = m * n
<1>1. PICK p \in Nat : p = m * n
    OBVIOUS
<1>2. \A v \in Nat, w \in Nat \ {0} : v < w => v % w = v
    BY SMT
<1>3. p % WordSize = p
    BY ONLY <1>1, <1>2, m * n < WordSize, Sizes
<1> QED BY <1>1, <1>3 DEF MathRight

\* A byte of a line is one of the framebuffer.
LEMMA InLine ==
    ASSUME NEW h \in Nat, NEW p \in Nat, NEW v \in Nat, NEW q \in Nat, v < h, q < p
    PROVE  v * p \in Nat /\ v * p + q < h * p
<1>1. v * p + p <= h * p
    BY Times
<1>2. v * p \in Nat /\ h * p \in Nat
    OBVIOUS
<1> QED BY <1>1, <1>2

\* The quotient stays in the line if a pixel has at least four bits.
LEMMA InIndexedLine ==
    ASSUME NEW w \in Nat, NEW d \in Nat \ {0}, NEW p \in Nat, NEW u \in Nat,
           p * 8 >= w * d, u < w, d >= 4
    PROVE  u \div d < p
<1>1. 4 * w <= d * w /\ 4 * p <= d * p
    BY Times
<1>2. PICK dw \in Nat, dp \in Nat : dw = d * w /\ dp = d * p
    OBVIOUS
<1>3. w * d = dw /\ p * d = dp
    BY <1>2
<1>4. u < dp
    BY <1>1, <1>2, <1>3
<1>5. PICK q \in Nat : q = u \div d /\ q * d <= u
    <2>1. u \div d \in Nat /\ u = (u \div d) * d + (u % d) /\ u % d \in Nat
        BY DivMod
    <2> QED BY <2>1
<1>6. ~(p <= q)
    <2>1. p <= q => p * d <= q * d
        BY <1>5, Times
    <2> QED BY <1>3, <1>4, <1>5, <2>1
<1> QED BY <1>5, <1>6

\* The pixels that are counted before one, the next one, and all.
LEMMA Counted ==
    ASSUME NEW g \in Nat \ {0}, NEW v \in 0 .. g - 1, NEW u \in 0 .. g - 1
    PROVE  /\ v * g + u \in 0 .. g * g /\ (v * g + u) + 1 \in 0 .. g * g
           /\ (v * g + u) + 1 = v * g + (u + 1)
           /\ (v * g + (g - 1)) + 1 = (v + 1) * g + 0
<1>1. v * g + g <= g * g /\ v * g \in Nat /\ g * g \in Nat
    BY Times
<1>2. (v + 1) * g = v * g + g
    OBVIOUS
<1> QED BY <1>1, <1>2

\* The ends of the loops over pixels.
LEMMA PixelDrawnKeeps ==
    ASSUME IInv, Drawing, PixelDrawn, UNCHANGED <<fb, ybase, i>>
    PROVE  Shape' /\ Place' /\ pc' \in {"putpx", "puts"}
<1> DEFINE before == (y - ybase) * G + (x - xbase)
           next == IF Empty THEN 0 ELSE before + 1
<1>1. /\ xbase \in Nat /\ ybase \in Nat /\ x \in Nat /\ y \in Nat /\ xbase >= 1
      /\ xbase + G <= fb.width /\ ybase + G <= fb.height
      /\ x \in xbase .. xbase + G - 1 /\ y \in ybase .. ybase + G - 1
      /\ count = IF Empty THEN 0 ELSE before
      /\ i \in 0 .. Glyphs - 1 \cup {WordSize - 1} /\ i \in Word /\ ybase \in Word
      /\ text # <<>> /\ text \in Seq(0 .. 127)
      /\ fb.width \in Nat /\ fb.height \in Nat
    BY Framebuffers, Sizes DEF IInv, TypeOK, Place, Text
<1>2. G \in Nat \ {0} /\ y - ybase \in 0 .. G - 1 /\ x - xbase \in 0 .. G - 1
    BY <1>1, Sizes
<1>3. /\ before \in 0 .. G * G /\ before + 1 \in 0 .. G * G
      /\ before + 1 = (y - ybase) * G + ((x - xbase) + 1)
      /\ ((y - ybase) * G + (G - 1)) + 1 = ((y - ybase) + 1) * G + 0
    BY <1>2, Counted
<1>4. count' = next /\ next \in 0 .. G * G /\ Empty' = Empty
    BY <1>1, <1>3, Sizes DEF PixelDrawn, Empty
<1>5. Tail(text) \in Text
    BY <1>1 DEF Text
<1> HIDE DEF before
<1>6. CASE x + 1 < xbase + G
    <2>1. /\ x' = x + 1 /\ pc' = "putpx" /\ text' = text /\ xbase' = xbase /\ y' = y
          /\ fb' = fb /\ ybase' = ybase /\ i' = i
        BY <1>6 DEF PixelDrawn
    <2>2. x' \in xbase' .. xbase' + G - 1 /\ x' \in 0 .. fb.width /\ y \in 0 .. fb.height
        BY <1>1, <1>2, <1>6, <2>1
    <2>3. x' - xbase' = (x - xbase) + 1
        BY <1>1, <2>1
    <2>4. count' = IF Empty' THEN 0 ELSE (y' - ybase') * G + (x' - xbase')
        BY <1>3, <1>4, <2>1, <2>3
    <2> QED BY <1>1, <1>4, <2>1, <2>2, <2>4 DEF Shape, Place, Text, IInv, TypeOK
<1>7. CASE ~(x + 1 < xbase + G) /\ y + 1 < ybase + G
    <2>1. /\ x' = xbase /\ y' = y + 1 /\ pc' = "putpx" /\ text' = text /\ xbase' = xbase
          /\ fb' = fb /\ ybase' = ybase /\ i' = i
        BY <1>7 DEF PixelDrawn
    <2>2. /\ y' \in ybase' .. ybase' + G - 1 /\ x' \in xbase' .. xbase' + G - 1
          /\ x' \in 0 .. fb.width /\ y' \in 0 .. fb.height
        BY <1>1, <1>2, <1>7, <2>1
    <2>3. x - xbase = G - 1 /\ y' - ybase' = (y - ybase) + 1 /\ x' - xbase' = 0
        BY <1>1, <1>2, <1>7, <2>1
    <2>4. count' = IF Empty' THEN 0 ELSE (y' - ybase') * G + (x' - xbase')
        BY <1>3, <1>4, <2>3 DEF before
    <2> QED BY <1>1, <1>4, <2>1, <2>2, <2>4 DEF Shape, Place, Text, IInv, TypeOK
<1>8. CASE ~(x + 1 < xbase + G) /\ ~(y + 1 < ybase + G)
    <2>1. /\ text' = Tail(text) /\ xbase' = xbase + G /\ pc' = "puts" /\ x' = x /\ y' = y
          /\ fb' = fb /\ ybase' = ybase /\ i' = i
        BY <1>8 DEF PixelDrawn
    <2>2. xbase' \in 1 .. fb.width
        BY <1>1, <1>2, <2>1
    <2>3. Shape'
        BY <1>1, <1>4, <1>5, <2>1, <2>2 DEF Shape, IInv, TypeOK
    <2> QED BY <2>1, <2>3 DEF Place, Drawing
<1> QED BY <1>6, <1>7, <1>8

\* The glyph of a character.
LEMMA GlyphOf ==
    ASSUME NEW c \in 0 .. 127
    PROVE  Glyph(c) \in 0 .. Glyphs - 1 \cup {WordSize - 1} /\ Glyph(c) \in Word
    BY Sizes DEF Glyph, Word, Digits, Capitals, Smalls

\* The beginning of drawc.
LEMMA StartGlyphKeeps == ASSUME IInv, StartGlyph PROVE Shape' /\ Place' /\ pc' = "putpx"
<1>1. /\ text # <<>> /\ text \in Seq(0 .. 127) /\ text' = text /\ fb' = fb
      /\ pc' = "putpx" /\ count' = 0
      /\ x' = xbase' /\ y' = ybase'
    BY DEF StartGlyph, IInv, TypeOK, Text
<1>2. /\ G \in Nat \ {0} /\ fb.width \in Nat /\ fb.height \in Nat
      /\ fb.width > G /\ fb.height > G /\ fb.height + G < WordSize
      /\ xbase \in Nat /\ xbase >= 1 /\ xbase <= fb.width /\ ybase \in Word
      /\ G + 1 \in Word /\ fb.height \in Word
    BY Framebuffers, Sizes DEF IInv, TypeOK, Word
<1>3. xbase' \in 1 .. fb.width /\ xbase' + G <= fb.width
    BY <1>2 DEF StartGlyph, LineFull
<1>4. ybase' \in Word /\ ybase' \in Nat /\ ybase' + G <= fb.height
    <2>1. PICK top \in Word : ybase' = IF ScreenFull(top) THEN 1 ELSE top
        BY <1>2, Sums DEF StartGlyph
    <2>2. top \in Nat /\ 1 \in Word
        BY Sizes DEF Word
    <2> QED BY <1>2, <2>1, <2>2 DEF ScreenFull
<1>5. i' \in 0 .. Glyphs - 1 \cup {WordSize - 1} /\ i' \in Word
    <2>1. Head(text) \in 0 .. 127
        BY <1>1, HeadTailProperties
    <2>2. i' = Glyph(Head(text))
        BY DEF StartGlyph
    <2> QED BY <2>1, <2>2, GlyphOf
<1>6. PICK u \in Nat, v \in Nat : xbase' = u /\ x' = u /\ ybase' = v /\ y' = v
    <2>1. xbase' \in Nat /\ ybase' \in Nat
        BY <1>2, <1>3, <1>4
    <2> QED BY <1>1, <2>1, Zenon
<1>7. (y' - ybase') * G + (x' - xbase') = 0
    <2>1. y' - ybase' = 0 /\ x' - xbase' = 0
        BY <1>6
    <2>2. 0 * G + 0 = 0
        BY <1>2
    <2> QED BY <2>1, <2>2
<1>8. count' \in 0 .. G * G
    BY <1>1, <1>2
<1>9. x' \in xbase' .. xbase' + G - 1 /\ y' \in ybase' .. ybase' + G - 1
    BY <1>2, <1>6
<1>10. x' \in 0 .. fb'.width /\ y' \in 0 .. fb'.height
    BY <1>1, <1>2, <1>3, <1>4, <1>6
<1>11. Shape'
    BY <1>1, <1>3, <1>4, <1>5, <1>8, <1>10 DEF Shape, IInv, TypeOK
<1> QED BY <1>1, <1>3, <1>4, <1>5, <1>7, <1>11, <1>9 DEF Place

\* A byte that is written in a line of the glyph, or of the whole framebuffer.
LEMMA WriteKeeps ==
    ASSUME NEW byte \in Nat, NEW bits \in SUBSET (0 .. 7), NEW v, Write(byte, bits, v),
           TypeOK, InFramebuffer, UNCHANGED fb,
           (fb.indexed => fb.bpp >= 4) => byte < fb.height * fb.pitch
    PROVE  /\ \A p \in (DOMAIN mem)' : p \in Nat \X (0 .. 7)
           /\ InFramebuffer'
<1>1. (DOMAIN mem)' = DOMAIN mem \cup ({byte} \X bits)
    BY DEF Write
<1>2. \A p \in {byte} \X bits : p \in Nat \X (0 .. 7) /\ p[1] = byte
    OBVIOUS
<1>3. \A p \in (DOMAIN mem)' : p \in Nat \X (0 .. 7)
    BY <1>1, <1>2 DEF TypeOK
<1>4. PICK size : size = fb.height * fb.pitch
    OBVIOUS
<1>5. (fb.indexed => fb.bpp >= 4) => \A p \in (DOMAIN mem)' : p[1] < size
    BY <1>1, <1>2, <1>4 DEF InFramebuffer
<1> QED BY <1>3, <1>4, <1>5 DEF InFramebuffer

\* A pixel that is being drawn is on the screen.
LEMMA OnScreen ==
    ASSUME IInv, Drawing
    PROVE  y \in Nat /\ y < fb.height /\ x \in Nat /\ x < fb.width
<1>1. fb.width \in Nat /\ fb.height \in Nat /\ G \in Nat \ {0}
    BY Framebuffers, Sizes DEF IInv, TypeOK
<1>2. ybase \in Nat /\ xbase \in Nat
    BY Sizes DEF IInv, TypeOK
<1>3. /\ xbase + G <= fb.width /\ ybase + G <= fb.height
      /\ x \in xbase .. xbase + G - 1 /\ y \in ybase .. ybase + G - 1
    BY DEF IInv, Place
<1> QED BY ONLY <1>1, <1>2, <1>3

\* The line that putpx multiplies out.
LEMMA LineOf ==
    ASSUME IInv, pc = "line", op = "idle"
    PROVE  /\ result = y * fb.pitch /\ result \in Word
           /\ y \in Nat /\ y < fb.height /\ x \in Nat /\ x < fb.width /\ x \in Word
           /\ \A q \in Nat : q < fb.pitch =>
                  y * fb.pitch + q < fb.height * fb.pitch /\ y * fb.pitch + q < WordSize
<1>1. /\ fb.width \in Nat /\ fb.height \in Nat /\ fb.pitch \in Nat /\ fb.width + G < WordSize
      /\ fb.height * fb.pitch < WordSize /\ G \in Nat \ {0} /\ WordSize \in Nat
    BY Framebuffers, Sizes DEF IInv, TypeOK
<1>2. y \in Nat /\ y < fb.height /\ x \in Nat /\ x < fb.width
    BY OnScreen DEF Drawing
<1>3. ASSUME NEW q \in Nat, q < fb.pitch
      PROVE  /\ y * fb.pitch + q < fb.height * fb.pitch /\ y * fb.pitch + q < WordSize
    <2>1. y * fb.pitch + q < fb.height * fb.pitch /\ y * fb.pitch \in Nat
        BY <1>1, <1>2, <1>3, InLine
    <2>2. PICK s \in Nat, t \in Nat : s = y * fb.pitch + q /\ t = fb.height * fb.pitch
        BY <1>1, <2>1
    <2> QED BY <1>1, <2>1, <2>2
<1>4. y * fb.pitch < WordSize
    <2>1. y * fb.pitch <= fb.height * fb.pitch
        BY <1>1, <1>2, Times
    <2>2. PICK s \in Nat, t \in Nat : s = y * fb.pitch /\ t = fb.height * fb.pitch
        BY <1>1, <1>2
    <2> QED BY <1>1, <2>1, <2>2
<1>5. result = y * fb.pitch
    <2>1. args.op = "mul" /\ args.a = y /\ args.b = fb.pitch /\ MathRight
        BY DEF IInv, MathInv, Calls
    <2> QED BY <1>1, <1>2, <1>4, <2>1, SmallProduct
<1>6. result \in Word /\ x \in Word
    BY <1>1, <1>2 DEF IInv, MathInv, MathTypeOK, Word
<1> QED BY <1>2, <1>3, <1>5, <1>6
-----------------------------------------------------------------------------
LEMMA InitKeeps == Init => IInv
<1> SUFFICES ASSUME Init PROVE IInv
    OBVIOUS
<1>1. /\ fb \in {Init_fb(m) : m \in Machines} /\ xbase = 1 /\ ybase = 1
      /\ i = 0 /\ count = 0 /\ x = 0 /\ y = 0 /\ line = 0 /\ pc \in {"start", "elsewhere"}
      /\ DOMAIN mem = {} /\ op = "idle" /\ a = 0 /\ b = 0 /\ acc = 0 /\ result = 0
      /\ args = [op |-> "none", a |-> 0, b |-> 0]
    BY DEF Init, MathInit
<1>2. text \in Text
    <2>1. CASE text \in Texts
        BY <2>1, ScreenAssumption
    <2>2. CASE text = <<>>
        BY <2>2 DEF Text
    <2> QED BY <2>1, <2>2 DEF Init
<1>3. 0 \in Word /\ 1 \in Word /\ G * G \in Nat
    BY Sizes DEF Word
<1>4. MathInv
    BY <1>1, <1>3 DEF MathInv, MathTypeOK, MathRight
<1>5. TypeOK
    BY <1>1, <1>2, <1>3, <1>4, Framebuffers, Sizes DEF TypeOK, MathInv
<1>6. Place /\ Calls /\ InFramebuffer
    BY <1>1 DEF Place, Drawing, Calls, InFramebuffer
<1> QED BY <1>4, <1>5, <1>6 DEF IInv

\* The parts of the invariant about what a step leaves alone.
LEMMA SameBits == ASSUME IInv, UNCHANGED <<fb, mem>> PROVE InFramebuffer'
    BY DEF IInv, InFramebuffer

LEMMA Assembled ==
    ASSUME Shape', MathInv', fb' \in {Init_fb(m) : m \in Machines}, line' \in Word,
           pc' \in {"start", "elsewhere", "returning", "memset", "puts", "putpx", "line", "byte"},
           \A p \in (DOMAIN mem)' : p \in Nat \X (0 .. 7)
    PROVE  TypeOK'
    BY DEF Shape, TypeOK, MathInv

LEMMA SameShape ==
    ASSUME IInv, UNCHANGED <<fb, text, xbase, ybase, i, count, x, y>>
    PROVE  Shape' /\ (Drawing /\ Drawing' => Place')
    BY DEF IInv, TypeOK, Shape, Place, Empty

\* Calls of the arithmetic.
LEMMA CallKeeps ==
    ASSUME IInv, NEW o \in Operations, NEW m \in Word, NEW n \in Word,
           NEW next \in {"returning", "memset", "line", "byte"}, Call(o, m, n, next),
           UNCHANGED <<fb, text, mem, xbase, ybase, i, count, x, y>>,
           line' \in Word, next \in {"line", "byte"} => Drawing
    PROVE  /\ TypeOK' /\ MathInv' /\ Place' /\ InFramebuffer'
           /\ pc' = next /\ args' = [op |-> o, a |-> m, b |-> n]
<1>1. MathInv' /\ args' = [op |-> o, a |-> m, b |-> n] /\ pc' = next
    BY MathCallKeeps DEF Call, IInv
<1>2. Shape' /\ Place'
    BY <1>1, SameShape DEF Place, Drawing
<1>3. TypeOK'
    BY <1>1, <1>2, Assembled DEF IInv, TypeOK
<1> QED BY <1>1, <1>2, <1>3, SameBits

LEMMA ElsewhereKeeps == ASSUME IInv, Elsewhere PROVE IInv'
<1>1. PICK o \in Operations, m \in Operands, n \in Operands : Call(o, m, n, "returning")
    BY DEF Elsewhere
<1>2. /\ m \in Word /\ n \in Word
      /\ UNCHANGED <<fb, text, mem, xbase, ybase, i, count, x, y, line>>
    BY Sizes DEF Elsewhere, drawn
<1>3. line' \in Word
    BY <1>2 DEF IInv, TypeOK
<1>4. TypeOK' /\ MathInv' /\ Place' /\ InFramebuffer' /\ pc' = "returning"
    BY <1>1, <1>2, <1>3, CallKeeps
<1> QED BY <1>4 DEF IInv, Calls

LEMMA ClearKeeps == ASSUME IInv, Clear PROVE IInv'
<1>1. /\ Call("mul", fb.height, fb.pitch, "memset")
      /\ UNCHANGED <<fb, text, mem, xbase, ybase, i, count, x, y, line>>
    BY DEF Clear, drawn
<1>2. fb.height \in Word /\ fb.pitch \in Word /\ line' \in Word /\ "mul" \in Operations
    BY <1>1, Framebuffers DEF IInv, TypeOK, Operations
<1>3. /\ TypeOK' /\ MathInv' /\ Place' /\ InFramebuffer' /\ pc' = "memset"
      /\ args' = [op |-> "mul", a |-> fb.height, b |-> fb.pitch]
    BY <1>1, <1>2, CallKeeps
<1>4. Calls'
    BY <1>1, <1>3 DEF Calls
<1> QED BY <1>3, <1>4 DEF IInv

LEMMA PutpxLineKeeps == ASSUME IInv, PutpxLine PROVE IInv'
<1>1. /\ Call("mul", y, fb.pitch, "line") /\ pc = "putpx" /\ (fb.indexed \/ fb.bpp = 1)
      /\ UNCHANGED <<fb, text, mem, xbase, ybase, i, count, x, y, line>>
    BY DEF PutpxLine, drawn
<1>2. y \in Word /\ fb.pitch \in Word /\ line' \in Word /\ "mul" \in Operations
    BY <1>1, Framebuffers, Sizes DEF IInv, TypeOK, Operations, Word
<1>3. /\ TypeOK' /\ MathInv' /\ Place' /\ InFramebuffer' /\ pc' = "line"
      /\ args' = [op |-> "mul", a |-> y, b |-> fb.pitch]
    BY <1>1, <1>2, CallKeeps DEF Drawing
<1>4. Calls'
    BY <1>1, <1>3 DEF Calls
<1> QED BY <1>3, <1>4 DEF IInv

LEMMA PutpxDivideKeeps == ASSUME IInv, PutpxDivide PROVE IInv'
<1>1. /\ Call("div", x, fb.bpp, "byte") /\ pc = "line" /\ fb.indexed /\ op = "idle"
      /\ line' = result
      /\ UNCHANGED <<fb, text, mem, xbase, ybase, i, count, x, y>>
    BY DEF PutpxDivide
<1>2. x \in Word /\ fb.bpp \in Word /\ result \in Word /\ "div" \in Operations
          /\ result = y * fb.pitch
    BY <1>1, LineOf, Framebuffers DEF IInv, TypeOK, Operations
<1>3. /\ TypeOK' /\ MathInv' /\ Place' /\ InFramebuffer' /\ pc' = "byte"
      /\ args' = [op |-> "div", a |-> x, b |-> fb.bpp]
    BY <1>1, <1>2, CallKeeps DEF Drawing
<1>4. Calls'
    BY <1>1, <1>2, <1>3 DEF Calls
<1> QED BY <1>3, <1>4 DEF IInv

LEMMA MemsetKeeps == ASSUME IInv, Memset PROVE IInv'
<1>1. /\ pc = "memset" /\ op = "idle" /\ pc' = "puts"
      /\ mem' = [p \in (0 .. result - 1) \X (0 .. 7) |-> OFF]
      /\ UNCHANGED <<fb, text, xbase, ybase, i, count, x, y, line, math>>
    BY DEF Memset, drawn
<1>2. MathInv' /\ op' = "idle"
    BY <1>1, MathUnchanged DEF IInv, math
<1>3. result = fb.height * fb.pitch /\ result \in Nat
    <2>1. args.op = "mul" /\ args.a = fb.height /\ args.b = fb.pitch /\ MathRight
        BY <1>1 DEF IInv, MathInv, Calls
    <2>2. fb.height \in Nat /\ fb.pitch \in Nat /\ fb.height * fb.pitch < WordSize
        BY Framebuffers DEF IInv, TypeOK
    <2>3. result \in Nat
        BY Sizes DEF IInv, MathInv, MathTypeOK
    <2> QED BY <1>1, <2>1, <2>2, <2>3, SmallProduct
<1>4. (DOMAIN mem)' = (0 .. result - 1) \X (0 .. 7)
    BY <1>1
<1>5. \A p \in (DOMAIN mem)' : p \in Nat \X (0 .. 7) /\ p[1] < result
    BY <1>3, <1>4
<1>6. InFramebuffer'
    <2>1. fb' = fb
        BY <1>1
    <2>2. result = fb'.height * fb'.pitch
        BY <1>3, <2>1
    <2> QED BY <1>5, <2>2 DEF InFramebuffer
<1>7. TypeOK'
    <2>1. line' \in Word /\ fb' \in {Init_fb(m) : m \in Machines} /\ Shape'
        BY <1>1, SameShape DEF IInv, TypeOK
    <2> QED BY <1>1, <1>2, <1>5, <2>1, Assembled
<1>8. Place' /\ Calls'
    BY <1>1, <1>2 DEF Place, Drawing, Calls
<1> QED BY <1>2, <1>6, <1>7, <1>8 DEF IInv

LEMMA NewlineKeeps == ASSUME IInv, Newline PROVE IInv'
<1>1. /\ pc = "puts" /\ pc' = "puts" /\ text # <<>> /\ text' = Tail(text)
      /\ ybase' = WAdd(ybase, G + 1) /\ xbase' = 1
      /\ UNCHANGED <<fb, mem, i, count, x, y, line, math>>
    BY DEF Newline, drawn
<1>2. MathInv' /\ op' = "idle"
    BY <1>1, MathUnchanged DEF IInv, Calls, math
<1>3. Tail(text) \in Text
    BY <1>1, HeadTailProperties DEF IInv, TypeOK, Text
<1>4. G + 1 \in Word /\ fb.width >= 1 /\ fb.width \in Nat
    BY Framebuffers, Sizes DEF IInv, TypeOK, Word
<1>5. ybase' \in Word
    BY <1>1, <1>4, Sums DEF IInv, TypeOK
<1>6. Shape'
    BY <1>1, <1>3, <1>4, <1>5 DEF IInv, TypeOK, Shape
<1>7. TypeOK'
    BY <1>1, <1>2, <1>6, Assembled DEF IInv, TypeOK
<1>8. Place' /\ Calls'
    BY <1>1, <1>2 DEF Place, Drawing, Calls
<1> QED BY <1>1, <1>2, <1>7, <1>8, SameBits DEF IInv

LEMMA StartGlyphStep == ASSUME IInv, StartGlyph PROVE IInv'
<1>1. pc = "puts" /\ UNCHANGED <<fb, mem, line, math>>
    BY DEF StartGlyph
<1>2. Shape' /\ Place' /\ pc' = "putpx"
    BY StartGlyphKeeps
<1>3. MathInv' /\ op' = "idle"
    BY <1>1, MathUnchanged DEF IInv, Calls, math
<1>4. TypeOK'
    BY <1>1, <1>2, <1>3, Assembled DEF IInv, TypeOK
<1>5. Calls'
    BY <1>2, <1>3 DEF Calls
<1> QED BY <1>1, <1>2, <1>3, <1>4, <1>5, SameBits DEF IInv

\* The three ways in which a pixel is done.
LEMMA PixelStep ==
    ASSUME IInv, Drawing, PixelDrawn, UNCHANGED <<fb, ybase, i, line, math>>, op = "idle",
           \A p \in (DOMAIN mem)' : p \in Nat \X (0 .. 7), InFramebuffer'
    PROVE  IInv'
<1>1. Shape' /\ Place' /\ pc' \in {"putpx", "puts"}
    BY PixelDrawnKeeps
<1>2. MathInv' /\ op' = "idle"
    BY MathUnchanged DEF IInv, math
<1>3. TypeOK'
    BY <1>1, <1>2, Assembled DEF IInv, TypeOK
<1>4. Calls'
    BY <1>1, <1>2 DEF Calls
<1> QED BY <1>1, <1>2, <1>3, <1>4 DEF IInv

LEMMA PutpxNothingKeeps == ASSUME IInv, PutpxNothing PROVE IInv'
<1>1. /\ pc = "putpx" /\ PixelDrawn /\ UNCHANGED <<fb, mem, ybase, i, line, math>>
    BY DEF PutpxNothing
<1>2. Drawing /\ op = "idle" /\ InFramebuffer'
    BY <1>1, SameBits DEF Drawing, IInv, Calls
<1>3. \A p \in (DOMAIN mem)' : p \in Nat \X (0 .. 7)
    BY <1>1 DEF IInv, TypeOK
<1> QED BY <1>1, <1>2, <1>3, PixelStep

LEMMA PutpxBitKeeps == ASSUME IInv, PutpxBit PROVE IInv'
<1>1. /\ pc = "line" /\ op = "idle" /\ ~fb.indexed /\ PixelDrawn
      /\ Write(WAdd(result, x \div 8), {Bitpos}, State)
      /\ UNCHANGED <<fb, ybase, i, line, math>>
    BY DEF PutpxBit
<1>2. /\ result = y * fb.pitch /\ result \in Word /\ x \in Nat /\ x < fb.width
      /\ \A q \in Nat : q < fb.pitch =>
             y * fb.pitch + q < fb.height * fb.pitch /\ y * fb.pitch + q < WordSize
    BY <1>1, LineOf
<1>3. fb.bpp = 1 /\ fb.pitch * 8 >= fb.width * fb.bpp /\ fb.pitch \in Nat /\ fb.width \in Nat
    BY <1>1, Framebuffers DEF IInv, TypeOK, Calls
<1>4. x \div 8 \in Nat /\ x \div 8 < fb.pitch
    BY <1>2, <1>3
<1>5. PICK q \in Nat : q = x \div 8
    BY <1>4
<1>6. result + q < fb.height * fb.pitch /\ result + q < WordSize /\ result + q \in Nat
    BY <1>2, <1>4, <1>5, Sizes
<1>7. WAdd(result, x \div 8) = result + q
    BY <1>5, <1>6 DEF WAdd
<1>8. {Bitpos} \in SUBSET (0 .. 7)
    BY <1>2 DEF Bitpos
<1>9. (\A p \in (DOMAIN mem)' : p \in Nat \X (0 .. 7)) /\ InFramebuffer'
    BY <1>1, <1>6, <1>7, <1>8, WriteKeeps DEF IInv
<1> QED BY <1>1, <1>9, PixelStep DEF Drawing

LEMMA PutpxByteKeeps == ASSUME IInv, PutpxByte PROVE IInv'
<1>1. /\ pc = "byte" /\ op = "idle" /\ PixelDrawn /\ Write(WAdd(line, result), 0 .. 7, State)
      /\ UNCHANGED <<fb, ybase, i, line, math>>
    BY DEF PutpxByte
<1>2. /\ line = y * fb.pitch /\ fb.indexed /\ line \in Word /\ result \in Word
      /\ args.op = "div" /\ args.a = x /\ args.b = fb.bpp /\ MathRight
    BY <1>1 DEF IInv, Calls, TypeOK, MathInv, MathTypeOK
<1>3. /\ fb.width \in Nat /\ fb.height \in Nat /\ fb.pitch \in Nat /\ fb.bpp \in Nat \ {0}
      /\ fb.pitch * 8 >= fb.width * fb.bpp /\ fb.height * fb.pitch < WordSize
    BY Framebuffers DEF IInv, TypeOK
<1>4. y \in Nat /\ y < fb.height /\ x \in Nat /\ x < fb.width
    BY <1>1, OnScreen DEF Drawing
<1>5. result = x \div fb.bpp
    BY <1>1, <1>2, <1>3 DEF MathRight
<1>6. WAdd(line, result) \in Nat
    BY <1>2, Sums, Sizes
<1>7. ASSUME fb.indexed => fb.bpp >= 4
      PROVE  WAdd(line, result) < fb.height * fb.pitch
    <2>1. result < fb.pitch /\ result \in Nat
        BY <1>2, <1>3, <1>4, <1>5, <1>7, InIndexedLine, Sizes
    <2>2. y * fb.pitch + result < fb.height * fb.pitch
        BY <1>3, <1>4, <2>1, InLine
    <2>3. PICK h \in Nat : h = fb.height * fb.pitch
        BY <1>3
    <2>4. line + result < h /\ line \in Nat
        BY <1>2, <2>2, <2>3, Sizes
    <2>5. WAdd(line, result) = line + result
        BY <1>3, <2>1, <2>3, <2>4, Sizes DEF WAdd
    <2> QED BY <2>3, <2>4, <2>5
<1>8. (\A p \in (DOMAIN mem)' : p \in Nat \X (0 .. 7)) /\ InFramebuffer'
    BY <1>1, <1>6, <1>7, WriteKeeps DEF IInv
<1> QED BY <1>1, <1>8, PixelStep DEF Drawing

LEMMA ComputingKeeps == ASSUME IInv, Computing PROVE IInv'
<1>1. MathStep /\ UNCHANGED <<fb, text, mem, xbase, ybase, i, count, x, y, line, pc>>
    BY DEF Computing, drawn
<1>2. MathInv' /\ op # "idle" /\ args' = args
    BY <1>1, MathStepKeeps
       DEF IInv, MathStep, MulStep, MulEnd, DivZero, DivStep, DivEnd, MathReturn
<1>3. Shape' /\ Place'
    BY <1>1, SameShape DEF Place, Drawing
<1>4. TypeOK'
    BY <1>1, <1>2, <1>3, Assembled DEF IInv, TypeOK
<1>5. Calls'
    BY <1>1, <1>2 DEF IInv, Calls
<1> QED BY <1>1, <1>2, <1>3, <1>4, <1>5, SameBits DEF IInv

LEMMA NextKeeps == IInv /\ [Next]_vars => IInv'
<1> SUFFICES ASSUME IInv, [Next]_vars PROVE IInv'
    OBVIOUS
<1>1. CASE Running
    BY <1>1, ElsewhereKeeps, ClearKeeps, MemsetKeeps, NewlineKeeps, StartGlyphStep,
       PutpxNothingKeeps, PutpxLineKeeps, PutpxBitKeeps, PutpxDivideKeeps, PutpxByteKeeps,
       ComputingKeeps DEF Running
<1>2. CASE UNCHANGED vars
    <2>1. UNCHANGED <<fb, text, mem, xbase, ybase, i, count, x, y, line, pc, math>>
              /\ UNCHANGED <<op, args>>
        BY <1>2 DEF vars, drawn, math
    <2>2. MathInv' /\ Shape' /\ Place'
        BY <2>1, MathUnchanged, SameShape DEF IInv, Place, Drawing
    <2>3. TypeOK'
        BY <2>1, <2>2, Assembled DEF IInv, TypeOK
    <2>4. Calls'
        BY <2>1 DEF IInv, Calls
    <2> QED BY <2>1, <2>2, <2>3, <2>4, SameBits DEF IInv
<1> QED BY <1>1, <1>2 DEF Next

\* The font byte that a pixel comes from.
LEMMA FontBytes == IInv => FontInBounds
<1> SUFFICES ASSUME IInv, Drawing, ~Empty PROVE FontByte < Glyphs * G
    BY DEF FontInBounds, Drawing
<1>1. /\ G \in Nat \ {0} /\ Glyphs = 36 /\ 37 < WordSize /\ WordSize \in Nat
      /\ ybase \in Nat /\ xbase \in Nat
    BY Sizes DEF IInv, TypeOK, Word
<1>2. PICK v \in 0 .. G - 1, u \in 0 .. G - 1 : count = v * G + u
    <2>1. y - ybase \in 0 .. G - 1 /\ x - xbase \in 0 .. G - 1
        BY <1>1 DEF IInv, Place
    <2> QED BY <2>1 DEF IInv, Place
<1>3. i \in Nat /\ i <= 35
    <2>1. i \in 0 .. Glyphs - 1 \cup {WordSize - 1}
        BY DEF IInv, Place
    <2>2. ~(i > 36)
        BY <1>1 DEF Empty
    <2> QED BY <1>1, <2>1, <2>2
<1>4. count \div G = v
    BY <1>1, <1>2, DivUnique
<1>5. i * G + G <= 36 * G
    <2>1. i * G + G <= (35 + 1) * G
        BY <1>1, <1>3, Times
    <2> QED BY <2>1
<1>6. i * G + v < 36 * G
    BY <1>1, <1>3, <1>5
<1> QED BY <1>1, <1>4, <1>6 DEF FontByte
-----------------------------------------------------------------------------
\* The inductive invariant.
THEOREM ScreenInvariant == Spec => []IInv
<1> QED BY InitKeeps, NextKeeps, PTL DEF Spec

\* The variables keep to their ranges: text never leaves the screen on the right or
\* below, for screens of all sizes.
THEOREM ScreenTypeCorrect == Spec => []TypeOK
<1>1. IInv => TypeOK
    BY DEF IInv
<1> QED BY <1>1, ScreenInvariant, PTL

\* __mulsi3, __udivsi3 and __umodsi3 return product, quotient and remainder, for
\* words of every size and all parameters.
THEOREM ArithmeticIsRight == Spec => []MathRight
<1>1. IInv => MathRight
    BY DEF IInv, MathInv
<1> QED BY <1>1, ScreenInvariant, PTL

\* clear and putpx write in the framebuffer only, whatever its size and pitch.
THEOREM WritesInFramebuffer == Spec => []InFramebuffer
<1>1. IInv => InFramebuffer
    BY DEF IInv
<1> QED BY <1>1, ScreenInvariant, PTL

\* drawc reads bytes of the font only, whatever is printed.
THEOREM ReadsInFont == Spec => []FontInBounds
<1> QED BY FontBytes, ScreenInvariant, PTL
-----------------------------------------------------------------------------
(***************************************************************************)
(* That the text output is a terminal.                                     *)
(***************************************************************************)
Col == (xbase - 1) \div G
Row == (ybase - 1) \div (G + 1)

\* The cursor is at a cell, or below the last row.
LinedUp ==
    /\ xbase = Col * G + 1 /\ Col \in 0 .. Columns
    /\ ybase = Row * (G + 1) + 1 /\ Row \in Nat

\* Newlines, as many as there are characters left, do not wrap ybase around.
HasRoom ==
    pc \notin {"elsewhere", "returning"} =>
        /\ fb.height + (Len(text) + 2) * (G + 1) < WordSize
        /\ ybase + (Len(text) + 2) * (G + 1) < WordSize

\* The value that a pixel of the glyph gets.
Ink(u, v) == IF Empty THEN OFF ELSE <<i * G + v, u>>

\* Is a pixel of the glyph before the one that is drawn?
Before(u, v) == v < y - ybase \/ (v = y - ybase /\ u < x - xbase)

\* Does a cell show the glyph up to the pixel that is drawn?
PaintedIn(cell) == \A u, v \in 0 .. G - 1 : Before(u, v) => CellPixel(cell, u, v) = Ink(u, v)

\* The glyph is the character's, and the cell at the cursor shows it so far.
Painted ==
    Drawing =>
        /\ i = Glyph(Head(text))
        /\ Readable => \A c \in 0 .. Columns - 1, r \in 0 .. Rows - 1 :
                            c = Col /\ r = Row => PaintedIn(<<c, r>>)

TermInv == IInv /\ LinedUp /\ HasRoom /\ Painted

\* Pixels of bits lie apart: no two have the same place in memory.
LEMMA BitsApart ==
    ASSUME NEW p \in Nat, NEW w \in Nat, p * 8 >= w,
           NEW u \in Nat, u < w, NEW t \in Nat, t < w, NEW v \in Nat, NEW s \in Nat,
           v * p + u \div 8 = s * p + t \div 8, u % 8 = t % 8
    PROVE  u = t /\ v = s
<1>1. PICK q \in Nat, r \in Nat : q = u \div 8 /\ r = t \div 8
    BY SMT
<1>2. q < p /\ r < p /\ p \in Nat \ {0}
    <2>1. 8 * q <= u /\ 8 * r <= t
        BY <1>1
    <2> QED BY <1>1, <2>1
<1>3. v * p + q = s * p + r
    BY <1>1
<1>4. v = (v * p + q) \div p /\ q = (v * p + q) % p
    BY <1>2, DivUnique
<1>5. s = (s * p + r) \div p /\ r = (s * p + r) % p
    BY <1>2, DivUnique
<1>6. v = s /\ q = r
    BY ONLY <1>3, <1>4, <1>5
<1>7. u = 8 * q + (u % 8) /\ t = 8 * r + (t % 8)
    <2>1. \A k \in Nat : k = (k \div 8) * 8 + (k % 8)
        BY DivMod
    <2>2. u = q * 8 + (u % 8) /\ t = r * 8 + (t % 8)
        BY <1>1, <2>1, Zenon
    <2> QED BY ONLY <2>2, q \in Nat, r \in Nat
<1> QED BY ONLY <1>6, <1>7, u % 8 = t % 8

LEMMA PixelsApart ==
    ASSUME IInv, Readable, NEW u \in Nat, u < fb.width, NEW t \in Nat, t < fb.width,
           NEW v \in Nat, NEW s \in Nat, PixelAt(u, v) = PixelAt(t, s)
    PROVE  u = t /\ v = s
<1>1. fb.width \in Nat /\ fb.pitch \in Nat /\ fb.pitch * 8 >= fb.width
    BY Framebuffers DEF IInv, TypeOK, Readable
<1>2. v * fb.pitch + u \div 8 = s * fb.pitch + t \div 8
    BY DEF PixelAt
<1>3. u % 8 = t % 8
    <2>1. (IF fb.bit_be THEN 7 - (u % 8) ELSE u % 8) = (IF fb.bit_be THEN 7 - (t % 8) ELSE t % 8)
        BY DEF PixelAt
    <2>2. u % 8 \in Nat /\ t % 8 \in Nat
        OBVIOUS
    <2> QED BY <2>1, <2>2
<1> QED BY <1>1, <1>2, <1>3, BitsApart

\* How many cells a screen has room for.
LEMMA GridSize ==
    ASSUME NEW f \in {Init_fb(m) : m \in Machines}
    PROVE  LET c == (f.width - 1) \div G
               r == f.height \div (G + 1)
           IN  /\ c \in Nat \ {0} /\ r \in Nat \ {0}
               /\ c * G + 1 <= f.width /\ f.width < c * G + G + 1
               /\ r * (G + 1) <= f.height /\ f.height < r * (G + 1) + (G + 1)
<1>1. f.width \in Nat /\ f.height \in Nat /\ G \in Nat \ {0} /\ f.width > G /\ f.height > G
    BY Framebuffers, Sizes
<1> DEFINE c == (f.width - 1) \div G
           r == f.height \div (G + 1)
<1>2. /\ c \in Nat /\ (f.width - 1) % G \in 0 .. G - 1
      /\ f.width - 1 = c * G + ((f.width - 1) % G)
    <2>1. f.width - 1 \in Nat
        BY <1>1
    <2>2. \A k \in Nat : k \div G \in Nat /\ k % G \in 0 .. G - 1 /\ k = (k \div G) * G + (k % G)
        BY <1>1, DivMod
    <2> QED BY ONLY <2>1, <2>2, Zenon DEF c
<1>3. /\ r \in Nat /\ f.height % (G + 1) \in 0 .. (G + 1) - 1
      /\ f.height = r * (G + 1) + (f.height % (G + 1))
    <2>1. G + 1 \in Nat \ {0}
        BY <1>1
    <2>2. \A h \in Nat : /\ h \div (G + 1) \in Nat /\ h % (G + 1) \in 0 .. (G + 1) - 1
                         /\ h = (h \div (G + 1)) * (G + 1) + (h % (G + 1))
        BY <2>1, DivMod
    <2> QED BY ONLY <1>1, <2>2, Zenon DEF r
<1> HIDE DEF c, r
<1>4. PICK cg \in Nat, rg \in Nat : cg = c * G /\ rg = r * (G + 1)
    BY <1>1, <1>2, <1>3
<1>5. /\ c * G + 1 <= f.width /\ f.width < c * G + G + 1
      /\ r * (G + 1) <= f.height /\ f.height < r * (G + 1) + (G + 1)
    BY <1>1, <1>2, <1>3, <1>4
<1>6. c # 0 /\ r # 0
    <2>1. 0 * G = 0 /\ 0 * (G + 1) = 0
        BY <1>1
    <2> QED BY <1>1, <1>5, <2>1
<1> QED BY <1>2, <1>3, <1>5, <1>6 DEF c, r

LEMMA Grid ==
    ASSUME TypeOK
    PROVE  /\ Columns \in Nat \ {0} /\ Rows \in Nat \ {0} /\ G \in Nat \ {0}
           /\ fb.width \in Nat /\ fb.height \in Nat
           /\ Columns * G + 1 <= fb.width /\ fb.width < Columns * G + G + 1
           /\ Rows * (G + 1) <= fb.height /\ fb.height < Rows * (G + 1) + (G + 1)
    BY GridSize, Framebuffers, Sizes DEF TypeOK, Columns, Rows

\* A cell's pixels are on the screen.
LEMMA CellOnScreen ==
    ASSUME TypeOK, NEW c \in 0 .. Columns - 1, NEW r \in 0 .. Rows - 1,
           NEW u \in 0 .. G - 1, NEW v \in 0 .. G - 1
    PROVE  /\ 1 + c * G + u \in Nat /\ 1 + c * G + u < fb.width
           /\ 1 + r * (G + 1) + v \in Nat /\ 1 + r * (G + 1) + v < fb.height
<1>1. /\ c \in Nat /\ r \in Nat /\ Columns \in Nat /\ Rows \in Nat /\ G \in Nat
      /\ c < Columns /\ r < Rows
    BY Grid
<1>2. c * G + G <= Columns * G /\ r * (G + 1) + (G + 1) <= Rows * (G + 1)
    BY <1>1, Times
<1>3. PICK cg \in Nat, rg \in Nat, Cg \in Nat, Rg \in Nat :
            cg = c * G /\ rg = r * (G + 1) /\ Cg = Columns * G /\ Rg = Rows * (G + 1)
    BY <1>1
<1> QED BY <1>1, <1>2, <1>3, Grid

\* Each of them belongs to one cell.
LEMMA CellsApart ==
    ASSUME TypeOK, NEW c \in Nat, NEW d \in Nat, NEW r \in Nat, NEW s \in Nat,
           NEW u \in 0 .. G - 1, NEW t \in 0 .. G - 1, NEW v \in 0 .. G - 1, NEW w \in 0 .. G - 1,
           1 + c * G + u = 1 + d * G + t, 1 + r * (G + 1) + v = 1 + s * (G + 1) + w
    PROVE  c = d /\ u = t /\ r = s /\ v = w
<1>1. G \in Nat \ {0} /\ G + 1 \in Nat \ {0} /\ v \in 0 .. (G + 1) - 1 /\ w \in 0 .. (G + 1) - 1
    BY Grid
<1>2. PICK cg \in Nat, dg \in Nat, rg \in Nat, sg \in Nat :
            cg = c * G /\ dg = d * G /\ rg = r * (G + 1) /\ sg = s * (G + 1)
    BY <1>1
<1>3. c * G + u = d * G + t /\ r * (G + 1) + v = s * (G + 1) + w
    BY <1>1, <1>2
<1>4. c = (c * G + u) \div G /\ u = (c * G + u) % G /\ d = (d * G + t) \div G /\ t = (d * G + t) % G
    BY <1>1, DivUnique
<1>5. /\ r = (r * (G + 1) + v) \div (G + 1) /\ v = (r * (G + 1) + v) % (G + 1)
      /\ s = (s * (G + 1) + w) \div (G + 1) /\ w = (s * (G + 1) + w) % (G + 1)
    BY <1>1, DivUnique
<1> QED BY ONLY <1>3, <1>4, <1>5

\* The cursor is in the grid while something is drawn.
LEMMA CursorInGrid ==
    ASSUME IInv, LinedUp, Drawing
    PROVE  Col \in 0 .. Columns - 1 /\ Row \in 0 .. Rows - 1
<1>1. TypeOK /\ xbase + G <= fb.width /\ ybase + G <= fb.height
    BY DEF IInv, Place
<1>2. Col \in Nat /\ Row \in Nat /\ xbase = Col * G + 1 /\ ybase = Row * (G + 1) + 1
    BY <1>1, Grid DEF LinedUp
<1>3. Columns <= Col => Columns * G <= Col * G
    BY <1>1, <1>2, Grid, Times
<1>4. Rows <= Row => Rows * (G + 1) <= Row * (G + 1)
    <2>1. G + 1 \in Nat /\ Rows \in Nat
        BY <1>1, Grid
    <2> QED BY <1>2, <2>1, Times
<1>5. PICK cg \in Nat, rg \in Nat, Cg \in Nat, Rg \in Nat :
            cg = Col * G /\ rg = Row * (G + 1) /\ Cg = Columns * G /\ Rg = Rows * (G + 1)
    BY <1>1, <1>2, Grid
<1> QED BY <1>1, <1>2, <1>3, <1>4, <1>5, Grid
-----------------------------------------------------------------------------
\* What stays the same when neither the screen nor its pixels change.
LEMMA SameCells ==
    ASSUME UNCHANGED <<fb, mem>>
    PROVE  /\ Columns' = Columns /\ Rows' = Rows /\ Readable' = Readable /\ Cells' = Cells
           /\ \A cell, u, v : CellPixel(cell, u, v)' = CellPixel(cell, u, v)
<1>1. Columns' = Columns /\ Rows' = Rows /\ Readable' = Readable
    BY DEF Columns, Rows, Readable
<1>2. \A u, v : PixelAt(u, v)' = PixelAt(u, v)
    BY DEF PixelAt
<1>3. \A cell, u, v : CellPixel(cell, u, v)' = CellPixel(cell, u, v)
    BY <1>2 DEF CellPixel
<1>4. \A cell : ShowsNothing(cell)' = ShowsNothing(cell)
    BY <1>3 DEF ShowsNothing
<1>5. \A cell, byte : ShowsGlyph(cell, byte)' = ShowsGlyph(cell, byte)
    BY <1>3 DEF ShowsGlyph
<1>6. \A cell : CellLetter(cell)' = CellLetter(cell)
    BY <1>3, <1>4, <1>5 DEF CellLetter
<1> QED BY <1>1, <1>3, <1>6 DEF Cells

\* Screens of other pixels show nothing.
LEMMA Unreadable ==
    ASSUME UNCHANGED fb, ~Readable
    PROVE  Columns' = Columns /\ Rows' = Rows /\ Readable' = Readable /\ Cells' = Cells
<1>1. Columns' = Columns /\ Rows' = Rows /\ Readable' = Readable
    BY DEF Columns, Rows, Readable
<1> QED BY <1>1 DEF Cells

\* A cell whose pixels stay shows what it did.
LEMMA SameLetter ==
    ASSUME NEW cell, \A u, v \in 0 .. G - 1 : CellPixel(cell, u, v)' = CellPixel(cell, u, v)
    PROVE  CellLetter(cell)' = CellLetter(cell)
<1>1. CellPixel(cell, 0, 0)' = CellPixel(cell, 0, 0)
    BY Sizes
<1>2. ShowsNothing(cell)' = ShowsNothing(cell)
    BY DEF ShowsNothing
<1>3. \A byte : ShowsGlyph(cell, byte)' = ShowsGlyph(cell, byte)
    BY DEF ShowsGlyph
<1> QED BY <1>1, <1>2, <1>3 DEF CellLetter

\* What putpx writes is the value of the pixel that is drawn, at its place.
LEMMA BitWritten ==
    ASSUME IInv, PutpxBit
    PROVE  /\ Readable /\ x \in Nat /\ x < fb.width /\ y \in Nat
           /\ mem' = [p \in DOMAIN mem \cup {PixelAt(x, y)} |->
                            IF p = PixelAt(x, y) THEN State ELSE mem[p]]
<1>1. /\ pc = "line" /\ op = "idle" /\ ~fb.indexed /\ fb.bpp = 1
      /\ Write(WAdd(result, x \div 8), {Bitpos}, State)
    BY DEF PutpxBit, IInv, Calls
<1>2. /\ result = y * fb.pitch /\ result \in Word /\ x \in Nat /\ x < fb.width /\ y \in Nat
      /\ \A q \in Nat : q < fb.pitch => y * fb.pitch + q < WordSize
    BY <1>1, LineOf
<1>3. fb.pitch * 8 >= fb.width /\ fb.pitch \in Nat /\ fb.width \in Nat
    BY <1>1, Framebuffers DEF IInv, TypeOK
<1>4. x \div 8 \in Nat /\ x \div 8 < fb.pitch
    BY <1>2, <1>3
<1>5. result + x \div 8 < WordSize
    BY <1>2, <1>4
<1>6. WAdd(result, x \div 8) = y * fb.pitch + x \div 8
    BY <1>2, <1>5 DEF WAdd
<1>7. PixelAt(x, y) = <<WAdd(result, x \div 8), Bitpos>>
    BY <1>6 DEF PixelAt, Bitpos
<1>8. \A s, t : {s} \X {t} = {<<s, t>>}
    OBVIOUS
<1>9. {WAdd(result, x \div 8)} \X {Bitpos} = {PixelAt(x, y)}
    BY <1>7, <1>8
<1>10. mem' = [p \in DOMAIN mem \cup {PixelAt(x, y)} |->
                    IF p \in {PixelAt(x, y)} THEN State ELSE mem[p]]
    BY <1>1, <1>9 DEF Write
<1> QED BY <1>1, <1>2, <1>10 DEF Readable

\* So one pixel of one cell changes.
LEMMA CellWritten ==
    ASSUME IInv, LinedUp, PutpxBit,
           NEW c \in 0 .. Columns - 1, NEW r \in 0 .. Rows - 1,
           NEW u \in 0 .. G - 1, NEW v \in 0 .. G - 1
    PROVE  CellPixel(<<c, r>>, u, v)' =
                IF c = Col /\ r = Row /\ u = x - xbase /\ v = y - ybase THEN State
                ELSE CellPixel(<<c, r>>, u, v)
<1> DEFINE s == 1 + c * G + u
           t == 1 + r * (G + 1) + v
<1>1. s \in Nat /\ s < fb.width /\ t \in Nat
    BY CellOnScreen DEF IInv
<1>2. /\ Readable /\ x \in Nat /\ x < fb.width /\ y \in Nat
      /\ mem' = [p \in DOMAIN mem \cup {PixelAt(x, y)} |->
                        IF p = PixelAt(x, y) THEN State ELSE mem[p]]
    BY BitWritten
<1>3. fb' = fb /\ Drawing
    BY DEF PutpxBit, Drawing
<1>4. Col \in 0 .. Columns - 1 /\ Row \in 0 .. Rows - 1
    BY <1>3, CursorInGrid
<1>5. /\ TypeOK /\ G \in Nat \ {0} /\ Columns \in Nat /\ Rows \in Nat
      /\ xbase = Col * G + 1 /\ ybase = Row * (G + 1) + 1
      /\ x \in xbase .. xbase + G - 1 /\ y \in ybase .. ybase + G - 1
    BY <1>3, Grid DEF IInv, LinedUp, Place
<1>6. s = x /\ t = y <=> c = Col /\ r = Row /\ u = x - xbase /\ v = y - ybase
    <2>1. PICK cg \in Nat, rg \in Nat : cg = Col * G /\ rg = Row * (G + 1)
        BY <1>4, <1>5
    <2>2. PICK dg \in Nat, sg \in Nat : dg = c * G /\ sg = r * (G + 1)
        BY <1>5
    <2>3. x - xbase \in 0 .. G - 1 /\ y - ybase \in 0 .. G - 1
        BY <1>5, <2>1
    <2>4. x = 1 + Col * G + (x - xbase) /\ y = 1 + Row * (G + 1) + (y - ybase)
        BY <1>5, <2>1
    <2>5. ASSUME s = x, t = y PROVE c = Col /\ r = Row /\ u = x - xbase /\ v = y - ybase
        <3>1. c \in Nat /\ r \in Nat /\ Col \in Nat /\ Row \in Nat
            BY <1>4, <1>5
        <3>2. 1 + c * G + u = 1 + Col * G + (x - xbase)
            BY <2>4, <2>5
        <3>3. 1 + r * (G + 1) + v = 1 + Row * (G + 1) + (y - ybase)
            BY <2>4, <2>5
        <3> HIDE DEF s, t
        <3> QED BY <1>5, <2>3, <3>1, <3>2, <3>3, CellsApart
    <2>6. ASSUME c = Col, r = Row, u = x - xbase, v = y - ybase PROVE s = x /\ t = y
        BY <2>4, <2>6
    <2> QED BY <2>5, <2>6
<1> HIDE DEF s, t
<1>7. PixelAt(s, t) = PixelAt(x, y) <=> s = x /\ t = y
    BY <1>1, <1>2, PixelsApart
<1>8. PixelAt(s, t)' = PixelAt(s, t)
    BY <1>3 DEF PixelAt
<1>9. CellPixel(<<c, r>>, u, v) =
            IF PixelAt(s, t) \in DOMAIN mem THEN mem[PixelAt(s, t)] ELSE <<-2, 0>>
    BY DEF CellPixel, s, t
<1>10. CellPixel(<<c, r>>, u, v)' =
            IF PixelAt(s, t) \in (DOMAIN mem)' THEN mem'[PixelAt(s, t)] ELSE <<-2, 0>>
    BY <1>8 DEF CellPixel, s, t
<1> QED BY <1>2, <1>6, <1>7, <1>9, <1>10
-----------------------------------------------------------------------------
\* The characters and their glyphs.
LEMMA CharacterGlyph ==
    ASSUME NEW c \in 0 .. 127
    PROVE  /\ Glyph(c) > Glyphs => Shown(c) = SPACE
           /\ ~(Glyph(c) > Glyphs) =>
                    Glyph(c) \in 0 .. Glyphs - 1 /\ FontChar(Glyph(c)) = Shown(c)
           /\ Shown(c) \in Letters
<1>1. 37 < WordSize /\ WordSize \in Nat /\ Glyphs = 36
    BY Sizes
<1>2. CASE c \in Digits
    <2>1. Glyph(c) = (c - 48) + 26 /\ Shown(c) = c /\ c \in 48 .. 57
        BY <1>2 DEF Glyph, Shown, Digits, Capitals, Smalls
    <2>2. Glyph(c) \in 0 .. Glyphs - 1 /\ FontChar(Glyph(c)) = Shown(c)
        BY <1>1, <2>1 DEF FontChar
    <2> QED BY <1>1, <2>2 DEF Letters
<1>3. CASE c \in Capitals
    <2>1. Glyph(c) = c - 65 /\ Shown(c) = c /\ c \in 65 .. 90
        BY <1>3 DEF Glyph, Shown, Digits, Capitals, Smalls
    <2>2. Glyph(c) \in 0 .. Glyphs - 1 /\ FontChar(Glyph(c)) = Shown(c)
        BY <1>1, <2>1 DEF FontChar
    <2> QED BY <1>1, <2>2 DEF Letters
<1>4. CASE c \in Smalls
    <2>1. Glyph(c) = (c - 32) - 65 /\ Shown(c) = c - 32 /\ c \in 97 .. 122
        BY <1>4 DEF Glyph, Shown, Digits, Capitals, Smalls
    <2>2. Glyph(c) \in 0 .. Glyphs - 1 /\ FontChar(Glyph(c)) = Shown(c)
        BY <1>1, <2>1 DEF FontChar
    <2> QED BY <1>1, <2>2 DEF Letters
<1>5. CASE c \notin Digits \cup Capitals \cup Smalls
    <2>1. Glyph(c) = WordSize - 1 /\ Shown(c) = SPACE
        BY <1>5 DEF Glyph, Shown
    <2> QED BY <1>1, <2>1 DEF Letters
<1> QED BY <1>2, <1>3, <1>4, <1>5

\* A cell with all of a glyph's pixels shows its character.
LEMMA LetterShown ==
    ASSUME NEW cell, NEW c \in 0 .. 127, i = Glyph(c),
           \A u, v \in 0 .. G - 1 : CellPixel(cell, u, v)' = Ink(u, v)
    PROVE  CellLetter(cell)' = Shown(c)
<1>1. G \in Nat \ {0} /\ 0 \in 0 .. G - 1 /\ Glyphs = 36
    BY Sizes
<1>2. CASE Empty
    <2>1. \A u, v \in 0 .. G - 1 : CellPixel(cell, u, v)' = OFF
        BY <1>2 DEF Ink
    <2>2. ShowsNothing(cell)'
        BY <2>1 DEF ShowsNothing, OFF
    <2>3. CellLetter(cell)' = SPACE
        BY <2>2 DEF CellLetter
    <2> QED BY <1>2, <2>3, CharacterGlyph DEF Empty
<1>3. CASE ~Empty
    <2>1. i \in 0 .. 35 /\ FontChar(i) = Shown(c)
        BY <1>1, <1>3, CharacterGlyph DEF Empty
    <2>2. \A u, v \in 0 .. G - 1 : CellPixel(cell, u, v)' = <<i * G + v, u>>
        BY <1>3 DEF Ink
    <2> DEFINE byte == i * G
    <2>3. byte \in Nat /\ byte + 0 = byte /\ byte < Glyphs * G
        <3>1. i * G + G <= 36 * G /\ i * G \in Nat
            BY <1>1, <2>1, Times
        <3>2. PICK s \in Nat, t \in Nat : s = i * G /\ t = 36 * G
            BY <1>1, <3>1
        <3> QED BY <1>1, <3>1, <3>2
    <2>4. byte \div G = i /\ byte % G = 0
        <3>1. (i * G + 0) \div G = i /\ (i * G + 0) % G = 0
            <4>1. i \in Nat
                BY <2>1
            <4> QED BY ONLY <1>1, <4>1, DivUnique
        <3> QED BY <2>3, <3>1
    <2>5. byte \in 0 .. Glyphs * G - 1
        <3>1. PICK t \in Nat : t = Glyphs * G
            BY <1>1
        <3> QED BY <2>3, <3>1
    <2>6. \A u, v \in 0 .. G - 1 : CellPixel(cell, u, v)' = <<byte + v, u>>
        BY <2>2
    <2> HIDE DEF byte
    <2>7. PICK k \in Nat : k = byte
        BY <2>3
    <2>8. CellPixel(cell, 0, 0)' = <<k, 0>>
        BY <1>1, <2>3, <2>6, <2>7
    <2>9. ~ShowsNothing(cell)'
        <3>1. k # -1
            OBVIOUS
        <3>2. CellPixel(cell, 0, 0)' # OFF
            BY <2>8, <3>1 DEF OFF
        <3>3. OFF' = OFF
            BY DEF OFF
        <3> QED BY <1>1, <3>2, <3>3 DEF ShowsNothing
    <2>10. ShowsGlyph(cell, k)'
        BY <2>6, <2>7 DEF ShowsGlyph
    <2>11. CellPixel(cell, 0, 0)'[1] = k
        BY <2>8
    <2>12. CellLetter(cell)' = FontChar(k \div G)
        BY <2>4, <2>5, <2>7, <2>9, <2>10, <2>11 DEF CellLetter, FontChar
    <2> QED BY <2>1, <2>4, <2>7, <2>12
<1> QED BY <1>2, <1>3

\* The pixel that is drawn gets its value.
LEMMA StateIsInk == ASSUME IInv, Drawing PROVE State = Ink(x - xbase, y - ybase)
<1>1. /\ G \in Nat \ {0} /\ xbase \in Nat /\ ybase \in Nat
      /\ x \in xbase .. xbase + G - 1 /\ y \in ybase .. ybase + G - 1
      /\ count = IF Empty THEN 0 ELSE (y - ybase) * G + (x - xbase)
    BY Sizes DEF IInv, TypeOK, Place
<1>2. PICK u \in 0 .. G - 1, v \in 0 .. G - 1 : u = x - xbase /\ v = y - ybase
    BY <1>1
<1>3. (v * G + u) \div G = v /\ (v * G + u) % G = u
    BY <1>1, DivUnique
<1>4. CASE ~Empty
    <2>1. count = v * G + u
        BY <1>1, <1>2, <1>4
    <2> QED BY <1>2, <1>3, <1>4, <2>1 DEF State, Ink, FontByte
<1>5. CASE Empty
    BY <1>5 DEF State, Ink
<1> QED BY <1>4, <1>5

\* Where a cell is.
LEMMA CellAt ==
    ASSUME NEW g \in Nat \ {0}, NEW c \in Nat
    PROVE  ((c * g + 1) - 1) \div g = c
<1>1. PICK s \in Nat : s = c * g
    OBVIOUS
<1>2. (c * g + 0) \div g = c
    BY DivUnique
<1>3. (s + 1) - 1 = s + 0
    OBVIOUS
<1> QED BY <1>1, <1>2, <1>3

\* A cursor at a cell.
LEMMA AtCell ==
    ASSUME TypeOK, UNCHANGED fb, NEW c \in 0 .. Columns, NEW r \in Nat,
           xbase' = c * G + 1, ybase' = r * (G + 1) + 1
    PROVE  LinedUp' /\ Col' = c /\ Row' = r
<1>1. G \in Nat \ {0} /\ G + 1 \in Nat \ {0} /\ Columns \in Nat /\ c \in Nat
    BY Grid
<1>2. Col' = c /\ Row' = r
    BY <1>1, CellAt DEF Col, Row
<1>3. Columns' = Columns
    BY DEF Columns
<1> QED BY <1>2, <1>3 DEF LinedUp

-----------------------------------------------------------------------------
\* What is being drawn.
Inks == IF Drawing THEN {IF Readable THEN Shown(Head(text)) ELSE SPACE} ELSE {}

\* The steps of the terminal, in terms of the screen.
LEMMA TermSteps ==
    LET Others == /\ (DOMAIN Cells)' = (0 .. Columns - 1) \X (0 .. Rows - 1)
                  /\ \A g \in ((0 .. Columns - 1) \X (0 .. Rows - 1)) \ {<<Col, Row>>} :
                        Cells'[g] = Cells[g]
        Size   == UNCHANGED <<Columns, Rows>>
    IN  /\ Term!Init <=> /\ Columns \in Nat \ {0} /\ Rows \in Nat \ {0}
                         /\ DOMAIN Cells = (0 .. Columns - 1) \X (0 .. Rows - 1)
                         /\ Col = 0 /\ Row = 0 /\ Inks = {}
        /\ Term!Clear <=> /\ Inks = {} /\ Inks' = {} /\ Size /\ UNCHANGED <<Col, Row>>
                          /\ Cells' = [g \in (0 .. Columns - 1) \X (0 .. Rows - 1) |-> SPACE]
        /\ \A letter : Term!Start(letter) <=>
                /\ Inks = {} /\ Inks' = {letter} /\ Size /\ UNCHANGED Cells
                /\ IF Col = Columns
                   THEN Col' = 0   /\ Row' = IF Row + 1 >= Rows THEN 0 ELSE Row + 1
                   ELSE Col' = Col /\ Row' = IF Row >= Rows THEN 0 ELSE Row
        /\ Term!Draw <=> /\ Inks # {} /\ Inks' = Inks /\ Size /\ Others
                         /\ UNCHANGED <<Col, Row>>
        /\ Term!Finish <=> /\ Inks # {} /\ Inks' = {} /\ Size /\ Others
                           /\ Cells'[<<Col, Row>>] \in Inks
                           /\ Col' = Col + 1 /\ Row' = Row
        /\ Term!Newline <=> /\ Inks = {} /\ Inks' = {} /\ Size /\ UNCHANGED Cells
                            /\ Col' = 0 /\ Row' = Row + 1
        /\ UNCHANGED Term!vars <=> UNCHANGED <<Columns, Rows, Cells, Col, Row, Inks>>
    BY DEF Term!Init, Term!Clear, Term!Start, Term!Draw, Term!Finish, Term!Newline, Term!vars,
           Term!Grid, Term!OneCell, Inks, Drawing, Col, Row

LEMMA InitIsTerm == Init => TermInv /\ Term!Init
<1> SUFFICES ASSUME Init PROVE TermInv /\ Term!Init
    OBVIOUS
<1>1. IInv /\ TypeOK
    BY InitKeeps DEF IInv
<1>2. xbase = 1 /\ ybase = 1 /\ pc \in {"start", "elsewhere"} /\ ~Drawing
    BY DEF Init, Drawing
<1>3. Col = 0 /\ Row = 0
    <2>1. G \in Nat \ {0} /\ G + 1 \in Nat \ {0}
        BY Sizes
    <2>2. ((0 * G + 1) - 1) \div G = 0 /\ ((0 * (G + 1) + 1) - 1) \div (G + 1) = 0
        BY <2>1, CellAt
    <2>3. 0 * G = 0 /\ 0 * (G + 1) = 0
        BY <2>1
    <2> QED BY <1>2, <2>2, <2>3 DEF Col, Row
<1>4. LinedUp
    <2>1. G \in Nat \ {0} /\ Columns \in Nat
        BY <1>1, Grid
    <2>2. 0 * G = 0 /\ 0 * (G + 1) = 0
        BY <2>1
    <2> QED BY <1>2, <1>3, <2>1, <2>2 DEF LinedUp
<1>5. HasRoom
    <2>1. SUFFICES ASSUME pc = "start" PROVE HasRoom
        BY <1>2 DEF HasRoom
    <2>2. PICK m \in Machines : fb = Init_fb(m)
        BY DEF Init
    <2>3. text \in Texts
        BY <2>1 DEF Init
    <2>4. fb.height + (Len(text) + 2) * (G + 1) < WordSize
        BY <2>2, <2>3, ScreenAssumption
    <2>5. fb.height \in Nat /\ fb.height >= 1 /\ WordSize \in Nat /\ G \in Nat
        BY <1>1, Grid, Framebuffers, Sizes DEF TypeOK
    <2>6. PICK s \in Nat : s = (Len(text) + 2) * (G + 1)
        <3>1. Len(text) \in Nat
            BY <1>1, LenProperties DEF TypeOK, Text
        <3> QED BY <2>5, <3>1
    <2>7. 1 + s < WordSize
        BY <2>4, <2>5, <2>6
    <2> QED BY <1>2, <2>4, <2>6, <2>7 DEF HasRoom
<1>6. Painted /\ Inks = {}
    BY <1>2 DEF Painted, Inks
<1>7. Columns \in Nat \ {0} /\ Rows \in Nat \ {0}
    BY <1>1, Grid
<1> QED BY <1>1, <1>3, <1>4, <1>5, <1>6, <1>7, TermSteps DEF TermInv, Cells

\* Steps that the terminal does not see.
LEMMA Waits ==
    ASSUME TermInv, IInv', UNCHANGED <<fb, text, mem, xbase, ybase, i, x, y>>,
           Drawing' <=> Drawing,
           pc' \notin {"elsewhere", "returning"} => pc \notin {"elsewhere", "returning"}
    PROVE  TermInv' /\ UNCHANGED Term!vars
<1>1. /\ Columns' = Columns /\ Rows' = Rows /\ Readable' = Readable /\ Cells' = Cells
      /\ \A cell, u, v : CellPixel(cell, u, v)' = CellPixel(cell, u, v)
    BY SameCells
<1>2. Col' = Col /\ Row' = Row /\ Inks' = Inks
    BY <1>1 DEF Col, Row, Inks
<1>3. LinedUp' /\ HasRoom'
    BY <1>1, <1>2 DEF TermInv, LinedUp, HasRoom
<1>4. \A u, v : Ink(u, v)' = Ink(u, v) /\ (Before(u, v)' <=> Before(u, v))
    BY DEF Ink, Before, Empty
<1>5. \A cell : PaintedIn(cell)' <=> PaintedIn(cell)
    BY <1>1, <1>4 DEF PaintedIn
<1>6. Painted'
    BY <1>1, <1>2, <1>5 DEF TermInv, Painted
<1> QED BY <1>1, <1>2, <1>3, <1>6, TermSteps DEF TermInv

\* memset clears all cells.
LEMMA MemsetIsClear == ASSUME TermInv, Memset PROVE TermInv' /\ Term!Clear
<1>1. /\ pc = "memset" /\ op = "idle" /\ pc' = "puts" /\ IInv /\ TypeOK
      /\ mem' = [p \in (0 .. result - 1) \X (0 .. 7) |-> OFF]
      /\ UNCHANGED <<fb, text, xbase, ybase>>
    BY DEF Memset, TermInv, IInv
<1>2. IInv'
    BY <1>1, MemsetKeeps
<1>3. result = fb.height * fb.pitch
    <2>1. args.op = "mul" /\ args.a = fb.height /\ args.b = fb.pitch /\ MathRight
        BY <1>1 DEF IInv, MathInv, Calls
    <2>2. fb.height \in Nat /\ fb.pitch \in Nat /\ fb.height * fb.pitch < WordSize
        BY <1>1, Framebuffers DEF TypeOK
    <2> QED BY <1>1, <2>1, <2>2, SmallProduct
<1>4. Columns' = Columns /\ Rows' = Rows /\ Readable' = Readable /\ Col' = Col /\ Row' = Row
    BY <1>1 DEF Columns, Rows, Readable, Col, Row
<1>5. ASSUME Readable, NEW c \in 0 .. Columns - 1, NEW r \in 0 .. Rows - 1
      PROVE  CellLetter(<<c, r>>)' = SPACE
    <2>1. ASSUME NEW u \in 0 .. G - 1, NEW v \in 0 .. G - 1
          PROVE  CellPixel(<<c, r>>, u, v)' = OFF
        <3> DEFINE s == 1 + c * G + u
                   t == 1 + r * (G + 1) + v
        <3>1. s \in Nat /\ s < fb.width /\ t \in Nat /\ t < fb.height
            BY <1>1, <2>1, CellOnScreen
        <3>2. CellPixel(<<c, r>>, u, v)' =
                IF PixelAt(s, t)' \in (DOMAIN mem)' THEN mem'[PixelAt(s, t)'] ELSE <<-2, 0>>
            BY DEF CellPixel
        <3> HIDE DEF s, t
        <3>3. PixelAt(s, t)' = PixelAt(s, t)
            BY <1>1 DEF PixelAt
        <3>4. /\ fb.width \in Nat /\ fb.height \in Nat /\ fb.pitch \in Nat
              /\ fb.pitch * 8 >= fb.width
            BY <1>1, <1>5, Framebuffers DEF TypeOK, Readable
        <3>5. PICK q \in Nat : q = s \div 8 /\ q < fb.pitch
            BY <3>1, <3>4
        <3>6. t * fb.pitch \in Nat /\ t * fb.pitch + q < fb.height * fb.pitch
            BY <3>1, <3>4, <3>5, InLine
        <3>7. t * fb.pitch + q \in 0 .. result - 1
            <4>1. PICK k \in Nat, n \in Nat : k = t * fb.pitch /\ n = fb.height * fb.pitch
                BY <3>4, <3>6
            <4> QED BY <1>3, <3>5, <3>6, <4>1
        <3>8. (IF fb.bit_be THEN 7 - (s % 8) ELSE s % 8) \in 0 .. 7
            BY <3>1
        <3>9. PixelAt(s, t) \in (0 .. result - 1) \X (0 .. 7)
            BY <3>5, <3>7, <3>8 DEF PixelAt
        <3> QED BY <1>1, <3>2, <3>3, <3>9
    <2>2. ShowsNothing(<<c, r>>)'
        BY <2>1 DEF ShowsNothing, OFF
    <2> QED BY <2>2 DEF CellLetter
<1>6. Cells' = [g \in (0 .. Columns - 1) \X (0 .. Rows - 1) |-> SPACE]
    <2>1. ASSUME NEW g \in (0 .. Columns - 1) \X (0 .. Rows - 1)
          PROVE  (IF Readable THEN CellLetter(g) ELSE SPACE)' = SPACE
        <3>1. PICK c \in 0 .. Columns - 1, r \in 0 .. Rows - 1 : g = <<c, r>>
            OBVIOUS
        <3> QED BY <1>4, <1>5, <3>1
    <2> QED BY <1>4, <2>1 DEF Cells
<1>7. Inks = {} /\ Inks' = {} /\ ~Drawing'
    BY <1>1 DEF Inks, Drawing
<1>8. LinedUp' /\ HasRoom' /\ Painted'
    BY <1>1, <1>4, <1>7 DEF TermInv, LinedUp, HasRoom, Painted
<1> QED BY <1>2, <1>4, <1>6, <1>7, <1>8, TermSteps DEF TermInv

\* There is room for one newline less after a character.
LEMMA RoomBelow ==
    ASSUME NEW t \in Text, t # <<>>
    PROVE  /\ Tail(t) \in Text /\ Len(t) \in Nat /\ Len(Tail(t)) \in Nat
           /\ (Len(t) + 2) * (G + 1) = (Len(Tail(t)) + 2) * (G + 1) + (G + 1)
           /\ (Len(Tail(t)) + 2) * (G + 1) \in Nat
<1>1. t \in Seq(0 .. 127) /\ G \in Nat
    BY Sizes DEF Text
<1>2. Tail(t) \in Seq(0 .. 127) /\ Len(Tail(t)) = Len(t) - 1 /\ Len(t) \in Nat
    BY <1>1, HeadTailProperties, LenProperties
<1>3. Len(Tail(t)) \in Nat
    <2>1. \A q \in Seq(0 .. 127) : Len(q) \in Nat
        BY LenProperties
    <2> QED BY <1>2, <2>1
<1>4. PICK n \in Nat : n = Len(Tail(t)) /\ Len(t) = n + 1
    <2>1. PICK n \in Nat : n = Len(Tail(t))
        BY <1>3, Zenon
    <2>2. Len(t) = n + 1
        BY ONLY <1>2, <2>1
    <2> QED BY <2>1, <2>2, Zenon
<1>5. ((n + 1) + 2) * (G + 1) = (n + 2) * (G + 1) + (G + 1) /\ (n + 2) * (G + 1) \in Nat
    BY <1>1
<1> QED BY <1>2, <1>4, <1>5 DEF Text

\* A newline begins the next line.
LEMMA NewlineIsNewline == ASSUME TermInv, Newline PROVE TermInv' /\ Term!Newline
<1>1. /\ pc = "puts" /\ pc' = "puts" /\ text # <<>> /\ text' = Tail(text) /\ text \in Text
      /\ ybase' = WAdd(ybase, G + 1) /\ xbase' = 1 /\ UNCHANGED <<fb, mem>> /\ TypeOK
    BY DEF Newline, TermInv, IInv, TypeOK
<1>2. IInv'
    BY NewlineKeeps DEF TermInv
<1>3. /\ Row \in Nat /\ ybase = Row * (G + 1) + 1 /\ G \in Nat \ {0} /\ Columns \in Nat
      /\ ybase \in Nat /\ WordSize \in Nat
    BY <1>1, Grid, Sizes DEF TermInv, LinedUp, TypeOK
<1>4. PICK room \in Nat : /\ room = (Len(text') + 2) * (G + 1)
                          /\ (Len(text) + 2) * (G + 1) = room + (G + 1)
    BY <1>1, RoomBelow
<1>5. fb.height + (room + (G + 1)) < WordSize /\ ybase + (room + (G + 1)) < WordSize
    BY <1>1, <1>4 DEF TermInv, HasRoom
<1>6. ybase' = ybase + (G + 1)
    <2>1. ybase + (G + 1) < WordSize
        BY <1>3, <1>5
    <2> QED BY <1>1, <2>1 DEF WAdd
<1>7. ybase' = (Row + 1) * (G + 1) + 1 /\ xbase' = 0 * G + 1
    <2>1. (Row + 1) * (G + 1) = Row * (G + 1) + (G + 1) /\ 0 * G = 0 /\ Row * (G + 1) \in Nat
        BY <1>3
    <2> QED BY <1>1, <1>3, <1>6, <2>1
<1>8. LinedUp' /\ Col' = 0 /\ Row' = Row + 1
    <2>1. 0 \in 0 .. Columns /\ Row + 1 \in Nat
        BY <1>3
    <2> QED BY <1>1, <1>7, <2>1, AtCell
<1>9. HasRoom'
    <2>1. fb.height \in Nat
        BY <1>1, Grid
    <2>2. fb.height + room < WordSize /\ ybase' + room < WordSize
        BY <1>3, <1>5, <1>6, <2>1
    <2> QED BY <1>1, <1>4, <2>2 DEF HasRoom
<1>10. Columns' = Columns /\ Rows' = Rows /\ Cells' = Cells
    BY <1>1, SameCells
<1>11. Inks = {} /\ Inks' = {} /\ Painted'
    BY <1>1 DEF Inks, Drawing, Painted
<1> QED BY <1>2, <1>8, <1>9, <1>10, <1>11, TermSteps DEF TermInv

\* Where a line and the screen are full.
LEMMA LastColumn == ASSUME TypeOK, LinedUp PROVE LineFull <=> Col = Columns
<1>1. /\ Col \in Nat /\ Columns \in Nat /\ G \in Nat /\ Col <= Columns /\ xbase = Col * G + 1
      /\ fb.width \in Nat /\ Columns * G + 1 <= fb.width /\ fb.width < Columns * G + G + 1
    BY Grid DEF LinedUp
<1>2. Col < Columns => Col * G + G <= Columns * G
    BY <1>1, Times
<1>3. PICK cg \in Nat, Cg \in Nat :
            cg = Col * G /\ Cg = Columns * G /\ (Col = Columns => cg = Cg)
    BY <1>1
<1> QED BY <1>1, <1>2, <1>3 DEF LineFull

LEMMA LastRow ==
    ASSUME TypeOK, NEW r \in Nat
    PROVE  ScreenFull(r * (G + 1) + 1) <=> r >= Rows
<1>1. /\ Rows \in Nat /\ G \in Nat /\ G + 1 \in Nat /\ fb.height \in Nat
      /\ Rows * (G + 1) <= fb.height /\ fb.height < Rows * (G + 1) + (G + 1)
    BY Grid
<1>2. /\ r < Rows => r * (G + 1) + (G + 1) <= Rows * (G + 1)
      /\ Rows <= r => Rows * (G + 1) <= r * (G + 1)
    BY <1>1, Times
<1>3. PICK rg \in Nat, Rg \in Nat : rg = r * (G + 1) /\ Rg = Rows * (G + 1)
    BY <1>1
<1> QED BY <1>1, <1>2, <1>3 DEF ScreenFull

\* A character begins in the next cell.
LEMMA StartGlyphIsStart ==
    ASSUME TermInv, StartGlyph
    PROVE  TermInv' /\ \E letter \in Letters : Term!Start(letter)
<1> DEFINE top == IF LineFull THEN WAdd(ybase, G + 1) ELSE ybase
           r == IF Col = Columns THEN Row + 1 ELSE Row
<1>1. /\ pc = "puts" /\ text # <<>> /\ text' = text /\ text \in Text /\ TypeOK /\ LinedUp
      /\ ybase' = (IF ScreenFull(top) THEN 1 ELSE top)
      /\ xbase' = (IF LineFull THEN 1 ELSE xbase)
      /\ i' = Glyph(Head(text)) /\ x' = xbase' /\ y' = ybase'
      /\ UNCHANGED <<fb, mem>>
    BY DEF StartGlyph, TermInv, IInv, TypeOK
<1>2. IInv' /\ pc' = "putpx"
    BY StartGlyphStep, StartGlyphKeeps DEF TermInv
<1>3. /\ Row \in Nat /\ ybase = Row * (G + 1) + 1 /\ G \in Nat \ {0} /\ ybase \in Nat
      /\ Columns \in Nat /\ Rows \in Nat /\ Col \in 0 .. Columns /\ xbase = Col * G + 1
      /\ WordSize \in Nat /\ fb.height \in Nat
    BY <1>1, Grid, Sizes DEF LinedUp, TypeOK
<1>4. PICK room \in Nat : room = (Len(text) + 2) * (G + 1) /\ room >= G + 1
    <2>1. (Len(text) + 2) * (G + 1) = (Len(Tail(text)) + 2) * (G + 1) + (G + 1)
              /\ (Len(Tail(text)) + 2) * (G + 1) \in Nat
        BY <1>1, RoomBelow
    <2>2. PICK n \in Nat : n = (Len(Tail(text)) + 2) * (G + 1)
        BY <2>1
    <2> QED BY <1>3, <2>1, <2>2
<1>5. fb.height + room < WordSize /\ ybase + room < WordSize
    BY <1>1, <1>4 DEF TermInv, HasRoom
<1>6. r \in Nat /\ top = r * (G + 1) + 1
    <2>1. LineFull <=> Col = Columns
        BY <1>1, LastColumn
    <2>2. WAdd(ybase, G + 1) = ybase + (G + 1)
        BY <1>3, <1>4, <1>5 DEF WAdd
    <2>3. (Row + 1) * (G + 1) = Row * (G + 1) + (G + 1) /\ Row * (G + 1) \in Nat
        BY <1>3
    <2> QED BY <1>3, <2>1, <2>2, <2>3
<1> HIDE DEF top, r
<1>7. PICK c \in 0 .. Columns, s \in Nat :
            /\ c = (IF Col = Columns THEN 0 ELSE Col) /\ xbase' = c * G + 1
            /\ s = (IF r >= Rows THEN 0 ELSE r) /\ ybase' = s * (G + 1) + 1
    <2>1. LineFull <=> Col = Columns
        BY <1>1, LastColumn
    <2>2. ScreenFull(top) <=> r >= Rows
        BY <1>1, <1>6, LastRow
    <2>3. 0 * G = 0 /\ 0 * (G + 1) = 0
        BY <1>3
    <2>4. PICK c \in 0 .. Columns : c = (IF Col = Columns THEN 0 ELSE Col)
        BY <1>3
    <2>5. PICK s \in Nat : s = (IF r >= Rows THEN 0 ELSE r)
        BY <1>6
    <2>6. xbase' = c * G + 1
        BY <1>1, <1>3, <2>1, <2>3, <2>4
    <2>7. ybase' = s * (G + 1) + 1
        BY <1>1, <1>6, <2>2, <2>3, <2>5
    <2> QED BY <2>4, <2>5, <2>6, <2>7
<1>8. LinedUp' /\ Col' = c /\ Row' = s
    BY <1>1, <1>7, AtCell
<1>9. HasRoom'
    <2>1. ybase' + G <= fb.height /\ ybase' \in Nat
        BY <1>1, <1>2, Sizes DEF IInv, Place, Drawing, TypeOK
    <2>2. ybase' + room < WordSize
        <3>1. \A k \in Nat, n \in Nat : k + G <= n /\ n + room < WordSize => k + room < WordSize
            BY <1>3
        <3> QED BY ONLY <1>3, <1>5, <2>1, <3>1
    <2> QED BY <1>1, <1>4, <1>5, <2>2 DEF HasRoom
<1>10. Columns' = Columns /\ Rows' = Rows /\ Cells' = Cells /\ Readable' = Readable
    BY <1>1, SameCells
<1>11. Painted'
    <2>1. xbase' \in Nat /\ ybase' \in Nat
        BY <1>2, Sizes DEF IInv, TypeOK
    <2>2. x' - xbase' = 0 /\ y' - ybase' = 0
        BY <1>1, <2>1
    <2>3. \A u, v \in 0 .. G - 1 : ~Before(u, v)'
        BY <1>3, <2>2 DEF Before
    <2>4. \A cell : PaintedIn(cell)'
        BY <2>3 DEF PaintedIn
    <2> QED BY <1>1, <2>4 DEF Painted
<1>12. PICK letter \in Letters : Inks' = {letter}
    <2>1. Head(text) \in 0 .. 127
        BY <1>1, HeadTailProperties DEF Text
    <2>2. Shown(Head(text)) \in Letters /\ SPACE \in Letters
        BY <2>1, CharacterGlyph DEF Letters
    <2>3. Inks' = {IF Readable THEN Shown(Head(text)) ELSE SPACE}
        BY <1>1, <1>2, <1>10 DEF Inks, Drawing
    <2> QED BY <2>2, <2>3
<1>13. Term!Start(letter)
    <2>1. Inks = {}
        BY <1>1 DEF Inks, Drawing
    <2>2. IF Col = Columns
          THEN Col' = 0   /\ Row' = IF Row + 1 >= Rows THEN 0 ELSE Row + 1
          ELSE Col' = Col /\ Row' = IF Row >= Rows THEN 0 ELSE Row
        BY <1>7, <1>8 DEF r
    <2> QED BY <1>10, <1>12, <2>1, <2>2, TermSteps
<1> QED BY <1>2, <1>8, <1>9, <1>11, <1>13 DEF TermInv

-----------------------------------------------------------------------------
\* What a pixel's step leaves of the screen: the other cells, and the pixels of the
\* glyph's cell up to the one that is drawn.
Current(u, v) == u = x - xbase /\ v = y - ybase

OtherCells ==
    /\ (DOMAIN Cells)' = (0 .. Columns - 1) \X (0 .. Rows - 1)
    /\ \A g \in ((0 .. Columns - 1) \X (0 .. Rows - 1)) \ {<<Col, Row>>} : Cells'[g] = Cells[g]

PaintedNow ==
    Readable => \A c \in 0 .. Columns - 1, r \in 0 .. Rows - 1 :
        c = Col /\ r = Row =>
            \A u, v \in 0 .. G - 1 :
                Before(u, v) \/ Current(u, v) => CellPixel(<<c, r>>, u, v)' = Ink(u, v)

\* The glyph goes on, in the same line or in the next.
LEMMA PixelIsDraw ==
    ASSUME TermInv, IInv', Drawing, UNCHANGED <<fb, ybase, i>>, OtherCells, PaintedNow,
           PixelDrawn, x + 1 < xbase + G \/ y + 1 < ybase + G
    PROVE  TermInv' /\ Term!Draw
<1>1. /\ G \in Nat \ {0} /\ xbase \in Nat /\ ybase \in Nat /\ TypeOK
      /\ x \in xbase .. xbase + G - 1 /\ y \in ybase .. ybase + G - 1
    BY Sizes DEF TermInv, IInv, TypeOK, Place
<1>2. /\ UNCHANGED <<text, xbase>> /\ pc' = "putpx"
      /\ \/ x' = x + 1 /\ y' = y
         \/ x' = xbase /\ y' = y + 1 /\ ~(x + 1 < xbase + G)
    BY DEF PixelDrawn
<1>3. ASSUME NEW u \in 0 .. G - 1, NEW v \in 0 .. G - 1, Before(u, v)'
      PROVE  Before(u, v) \/ Current(u, v)
    <2>1. v < y' - ybase \/ (v = y' - ybase /\ u < x' - xbase)
        BY <1>2, <1>3 DEF Before
    <2> QED BY <1>1, <1>2, <2>1 DEF Before, Current
<1>4. \A u, v : Ink(u, v)' = Ink(u, v)
    BY DEF Ink, Empty
<1>5. Columns' = Columns /\ Rows' = Rows /\ Readable' = Readable /\ Col' = Col /\ Row' = Row
    BY <1>2 DEF Columns, Rows, Readable, Col, Row
<1>6. Readable' => \A c \in 0 .. Columns' - 1, r \in 0 .. Rows' - 1 :
                        c = Col' /\ r = Row' => PaintedIn(<<c, r>>)'
    BY <1>3, <1>4, <1>5 DEF PaintedNow, PaintedIn
<1>7. Painted'
    BY <1>2, <1>6 DEF TermInv, Painted
<1>8. LinedUp' /\ HasRoom'
    BY <1>2, <1>5 DEF TermInv, LinedUp, HasRoom, Drawing
<1>9. Inks # {} /\ Inks' = Inks
    BY <1>2, <1>5 DEF Inks, Drawing
<1>10. Term!Draw
    BY <1>5, <1>9, TermSteps DEF OtherCells
<1> QED BY <1>7, <1>8, <1>10 DEF TermInv

\* The glyph is complete.
LEMMA PixelIsFinish ==
    ASSUME TermInv, IInv', Drawing, UNCHANGED <<fb, ybase, i>>, OtherCells, PaintedNow,
           PixelDrawn, ~(x + 1 < xbase + G), ~(y + 1 < ybase + G)
    PROVE  TermInv' /\ Term!Finish
<1>1. /\ G \in Nat \ {0} /\ xbase \in Nat /\ ybase \in Nat /\ TypeOK /\ LinedUp
      /\ x \in xbase .. xbase + G - 1 /\ y \in ybase .. ybase + G - 1
      /\ text \in Text /\ text # <<>> /\ i = Glyph(Head(text))
    BY Sizes DEF TermInv, IInv, TypeOK, Place, Painted
<1>2. text' = Tail(text) /\ xbase' = xbase + G /\ pc' = "puts"
    BY DEF PixelDrawn
<1>3. Columns' = Columns /\ Rows' = Rows /\ Readable' = Readable
    BY DEF Columns, Rows, Readable
<1>4. PICK c \in 0 .. Columns - 1, r \in 0 .. Rows - 1 : c = Col /\ r = Row
    BY CursorInGrid DEF TermInv
<1>5. /\ Columns \in Nat /\ Rows \in Nat /\ c + 1 \in 0 .. Columns /\ c \in Nat /\ r \in Nat
      /\ xbase = c * G + 1 /\ ybase = r * (G + 1) + 1
    BY <1>1, <1>4, Grid DEF LinedUp
<1>6. LinedUp' /\ Col' = Col + 1 /\ Row' = Row
    <2>1. xbase' = (c + 1) * G + 1 /\ ybase' = r * (G + 1) + 1
        <3>1. (c + 1) * G = c * G + G /\ c * G \in Nat
            BY <1>1, <1>5
        <3> QED BY <1>1, <1>2, <1>5, <3>1
    <2>2. LinedUp' /\ Col' = c + 1 /\ Row' = r
        BY <1>1, <1>5, <2>1, AtCell
    <2> QED BY <1>4, <2>2
<1>7. HasRoom'
    <2>1. PICK room \in Nat : /\ room = (Len(text') + 2) * (G + 1)
                              /\ (Len(text) + 2) * (G + 1) = room + (G + 1)
        BY <1>1, <1>2, RoomBelow
    <2>2. fb.height + (room + (G + 1)) < WordSize /\ ybase + (room + (G + 1)) < WordSize
        BY <2>1 DEF TermInv, HasRoom, Drawing
    <2>3. fb.height \in Nat /\ WordSize \in Nat
        BY <1>1, Grid, Sizes
    <2>4. fb.height + room < WordSize /\ ybase + room < WordSize
        BY <1>1, <2>2, <2>3
    <2> QED BY <2>1, <2>4 DEF HasRoom
<1>8. Inks = {IF Readable THEN Shown(Head(text)) ELSE SPACE} /\ Inks' = {} /\ Painted'
    BY <1>2 DEF Inks, Drawing, Painted
<1>9. Cells'[<<Col, Row>>] \in Inks
    <2>1. <<c, r>> \in (0 .. Columns' - 1) \X (0 .. Rows' - 1)
        BY <1>3
    <2>2. Cells'[<<c, r>>] = IF Readable THEN CellLetter(<<c, r>>)' ELSE SPACE
        BY <1>3, <2>1 DEF Cells
    <2>3. ASSUME Readable PROVE CellLetter(<<c, r>>)' = Shown(Head(text))
        <3>1. \A u, v \in 0 .. G - 1 : Before(u, v) \/ Current(u, v)
            BY <1>1 DEF Before, Current
        <3>2. \A u, v \in 0 .. G - 1 : CellPixel(<<c, r>>, u, v)' = Ink(u, v)
            BY <1>4, <2>3, <3>1 DEF PaintedNow
        <3>3. PICK k \in 0 .. 127 : k = Head(text)
            BY <1>1, HeadTailProperties DEF Text
        <3> QED BY <1>1, <3>2, <3>3, LetterShown
    <2> QED BY <1>4, <1>8, <2>2, <2>3
<1>10. Term!Finish
    BY <1>3, <1>6, <1>8, <1>9, TermSteps DEF OtherCells
<1> QED BY <1>6, <1>7, <1>8, <1>10 DEF TermInv

LEMMA PixelIsTerm ==
    ASSUME TermInv, IInv', Drawing, UNCHANGED <<fb, ybase, i>>, OtherCells, PaintedNow, PixelDrawn
    PROVE  TermInv' /\ (Term!Draw \/ Term!Finish)
    BY PixelIsDraw, PixelIsFinish

\* The pixels of a screen that shows nothing.
LEMMA UnreadableIsTerm ==
    ASSUME TermInv, IInv', Drawing, UNCHANGED <<fb, ybase, i>>, PixelDrawn, ~Readable
    PROVE  TermInv' /\ (Term!Draw \/ Term!Finish)
<1>1. Columns' = Columns /\ Rows' = Rows /\ Cells' = Cells
    BY Unreadable
<1>2. OtherCells /\ PaintedNow
    BY <1>1 DEF OtherCells, PaintedNow, Cells
<1> QED BY <1>2, PixelIsTerm

LEMMA PutpxNothingIsTerm ==
    ASSUME TermInv, PutpxNothing PROVE TermInv' /\ (Term!Draw \/ Term!Finish)
<1>1. PixelDrawn /\ UNCHANGED <<fb, ybase, i>> /\ ~Readable /\ Drawing
    BY DEF PutpxNothing, Readable, Drawing
<1> QED BY <1>1, PutpxNothingKeeps, UnreadableIsTerm DEF TermInv

LEMMA PutpxByteIsTerm ==
    ASSUME TermInv, PutpxByte PROVE TermInv' /\ (Term!Draw \/ Term!Finish)
<1>1. PixelDrawn /\ UNCHANGED <<fb, ybase, i>> /\ ~Readable /\ Drawing
    BY DEF PutpxByte, Readable, Drawing, TermInv, IInv, Calls
<1> QED BY <1>1, PutpxByteKeeps, UnreadableIsTerm DEF TermInv

LEMMA PutpxBitIsTerm ==
    ASSUME TermInv, PutpxBit PROVE TermInv' /\ (Term!Draw \/ Term!Finish)
<1>1. PixelDrawn /\ UNCHANGED <<fb, ybase, i>> /\ Drawing /\ IInv /\ LinedUp /\ Painted
    BY DEF PutpxBit, Drawing, TermInv
<1>2. Readable /\ Columns' = Columns /\ Rows' = Rows /\ Readable' = Readable
    BY <1>1, BitWritten DEF Columns, Rows, Readable
<1>3. PaintedNow
    <2> SUFFICES ASSUME NEW c \in 0 .. Columns - 1, NEW r \in 0 .. Rows - 1, c = Col, r = Row,
                        NEW u \in 0 .. G - 1, NEW v \in 0 .. G - 1,
                        Before(u, v) \/ Current(u, v)
                 PROVE  CellPixel(<<c, r>>, u, v)' = Ink(u, v)
        BY DEF PaintedNow
    <2>1. CellPixel(<<c, r>>, u, v)' = IF Current(u, v) THEN State ELSE CellPixel(<<c, r>>, u, v)
        BY <1>1, CellWritten DEF Current
    <2>2. Current(u, v) => State = Ink(u, v)
        BY <1>1, StateIsInk DEF Current
    <2>3. Before(u, v) => CellPixel(<<c, r>>, u, v) = Ink(u, v)
        BY <1>1, <1>2 DEF Painted, PaintedIn
    <2> QED BY <2>1, <2>2, <2>3
<1>4. OtherCells
    <2>1. ASSUME NEW c \in 0 .. Columns - 1, NEW r \in 0 .. Rows - 1, <<c, r>> # <<Col, Row>>
          PROVE  CellLetter(<<c, r>>)' = CellLetter(<<c, r>>)
        <3>1. ~(c = Col /\ r = Row)
            BY <2>1
        <3>2. \A u, v \in 0 .. G - 1 : CellPixel(<<c, r>>, u, v)' = CellPixel(<<c, r>>, u, v)
            BY <1>1, <3>1, CellWritten
        <3> QED BY <3>2, SameLetter
    <2>2. \A g \in ((0 .. Columns - 1) \X (0 .. Rows - 1)) \ {<<Col, Row>>} :
                CellLetter(g)' = CellLetter(g)
        <3> SUFFICES ASSUME NEW g \in ((0 .. Columns - 1) \X (0 .. Rows - 1)) \ {<<Col, Row>>}
                     PROVE  CellLetter(g)' = CellLetter(g)
            OBVIOUS
        <3>1. PICK c \in 0 .. Columns - 1, r \in 0 .. Rows - 1 : g = <<c, r>>
            OBVIOUS
        <3> QED BY <2>1, <3>1
    <2> QED BY <1>2, <2>2 DEF OtherCells, Cells
<1> QED BY <1>1, <1>3, <1>4, PutpxBitKeeps, PixelIsTerm
-----------------------------------------------------------------------------
LEMMA NextIsTerm == TermInv /\ [Next]_vars => TermInv' /\ [Term!Next]_Term!vars
<1> SUFFICES ASSUME TermInv, [Next]_vars PROVE TermInv' /\ (Term!Next \/ UNCHANGED Term!vars)
    OBVIOUS
<1>1. IInv /\ IInv'
    BY NextKeeps DEF TermInv
<1>2. CASE Elsewhere \/ Clear \/ PutpxLine \/ PutpxDivide \/ Computing \/ UNCHANGED vars
    <2>1. UNCHANGED <<fb, text, mem, xbase, ybase, i, x, y>>
        BY <1>2 DEF Elsewhere, Clear, PutpxLine, PutpxDivide, Computing, vars, drawn
    <2>2. /\ Drawing' <=> Drawing
          /\ pc' \notin {"elsewhere", "returning"} => pc \notin {"elsewhere", "returning"}
        BY <1>2 DEF Elsewhere, Clear, PutpxLine, PutpxDivide, Computing, vars, Call, Drawing
    <2> QED BY <1>1, <2>1, <2>2, Waits
<1>3. CASE Memset
    BY <1>3, MemsetIsClear DEF Term!Next
<1>4. CASE Newline
    BY <1>4, NewlineIsNewline DEF Term!Next
<1>5. CASE StartGlyph
    BY <1>5, StartGlyphIsStart DEF Term!Next
<1>6. CASE PutpxNothing \/ PutpxBit \/ PutpxByte
    BY <1>6, PutpxNothingIsTerm, PutpxBitIsTerm, PutpxByteIsTerm DEF Term!Next
<1> QED BY <1>2, <1>3, <1>4, <1>5, <1>6 DEF Next, Running

\* The text output is a terminal, on every screen and for every text: each character
\* appears in the next cell as the glyph that the font has for it, nothing else
\* changes, and a full line or screen goes on at the next line or at the top.
THEOREM ScreenIsTerminal == Spec => IsTerminal
<1>1. Init => TermInv /\ Term!Init
    BY InitIsTerm
<1>2. TermInv /\ [Next]_vars => TermInv' /\ [Term!Next]_Term!vars
    BY NextIsTerm
<1> QED BY <1>1, <1>2, PTL DEF Spec, IsTerminal, Term!Spec
=============================================================================
