---------------------------- MODULE MemMapProofs ----------------------------
(***************************************************************************)
(* Theorems about MemMap, for every machine.                               *)
(***************************************************************************)
EXTENDS MemMap, TLAPS

\* The unsigned operations stay among the words.
LEMMA WordOps ==
    ASSUME NEW a \in Word, NEW b \in Word
    PROVE  WAdd(a, b) \in Word /\ WSub(a, b) \in Word
    BY WordSizeAssumption DEF WAdd, WSub, Word

\* Aligning takes at most three bytes off.
LEMMA AlignDownNear ==
    ASSUME NEW x \in Nat
    PROVE  AlignDown(x) \in Nat /\ AlignDown(x) <= x /\ x - 3 <= AlignDown(x)
           /\ AlignDown(x) % 4 = 0
    BY DEF AlignDown

\* An aligned word is a word.
LEMMA AlignDownWord == ASSUME NEW x \in Word PROVE AlignDown(x) \in Word
    BY AlignDownNear, WordSizeAssumption DEF Word

\* The sizes of config.h are words.
LEMMA ConstantWords ==
    /\ 0 \in Word /\ ROMVariables \in Word /\ StackBytes \in Word /\ HeapBytes \in Word
    /\ 3 \in Word /\ WordSize \in Nat
    BY HardwareAssumption, WordSizeAssumption DEF Word, ROMVariables, StackBytes, HeapBytes

\* What the ROM and the linker say of a Macintosh are words.
LEMMA MacWords ==
    ASSUME TypeOK, hw.arch = "m68k"
    PROVE  /\ hw.RAMBase \in Word /\ hw.MemTop \in Word /\ hw.begin \in Word
           /\ hw.end \in Word /\ hw.malloc \in Word
           /\ ROMVariables <= hw.begin /\ hw.begin <= hw.malloc /\ hw.malloc <= hw.end
           /\ 2 * hw.end < WordSize
<1>1. hw \in Macs
    BY HardwareAssumption DEF TypeOK, Funnyarch
<1> QED BY <1>1, HardwareAssumption DEF Mac

\* What the ROM and the linker say of a funnyarch machine are words.
LEMMA FunnyarchWords ==
    ASSUME TypeOK, hw.arch = "funnyarch"
    PROVE  hw.membase \in Word /\ hw.membytes \in Word /\ hw.image \in Word
<1>1. hw \in Funnyarches
    BY HardwareAssumption DEF TypeOK, Mac
<1> QED BY <1>1, HardwareAssumption DEF Funnyarch

\* There are two architectures.
LEMMA Architectures == ASSUME TypeOK PROVE hw.arch \in {"m68k", "funnyarch"}
    BY HardwareAssumption DEF TypeOK, Mac, Funnyarch
-----------------------------------------------------------------------------
\* A machine starts well typed.
LEMMA TypeInit == Init => TypeOK
    BY ConstantWords DEF Init, TypeOK, NoMem, NoHeap

\* funnyarch_mem_init computes words.
LEMMA MemInitType ==
    ASSUME TypeOK, hw.arch = "funnyarch"
    PROVE  MemInit(hw) \in [start1 : Word, size1 : Word, start2 : Word,
                            usable : Word, usableSize : Word, bump : Word]
<1> DEFINE size1  == WAdd(hw.image, HeapBytes)
           start2 == WSub(AlignDown(WAdd(hw.membase, hw.membytes)), StackBytes)
           end1   == WAdd(hw.membase, size1)
<1>1. size1 \in Word /\ end1 \in Word /\ WAdd(hw.membase, hw.image) \in Word
    BY FunnyarchWords, ConstantWords, WordOps
<1>2. WAdd(hw.membase, hw.membytes) \in Word
    BY FunnyarchWords, WordOps
<1>3. start2 \in Word
    BY <1>2, AlignDownWord, ConstantWords, WordOps
<1>4. WSub(start2, end1) \in Word
    BY <1>1, <1>3, WordOps
<1> QED BY <1>1, <1>3, <1>4, FunnyarchWords DEF MemInit

\* bumpalloc_init computes words.
LEMMA HeapType == ASSUME TypeOK PROVE HeapOf(hw, mem) \in [begin : Word, end : Word]
<1>1. CASE hw.arch = "m68k"
    BY <1>1, MacWords DEF HeapOf
<1>2. CASE hw.arch # "m68k"
    <2>1. WAdd(mem.bump, 3) \in Word /\ WAdd(mem.bump, HeapBytes) \in Word
        BY ConstantWords, WordOps DEF TypeOK
    <2>2. AlignUp(mem.bump) \in Word
        BY <2>1, AlignDownWord DEF AlignUp
    <2> QED BY <1>2, <2>1, <2>2 DEF HeapOf
<1> QED BY <1>1, <1>2

\* memmap::iter reports regions of words.
LEMMA ReportsType ==
    ASSUME TypeOK, NEW k \in 1 .. 3
    PROVE  Reports[k] \in [base : Word, size : Word, type : {USABLE, RECLAIMABLE}]
<1> DEFINE R == [base : Word, size : Word, type : {USABLE, RECLAIMABLE}]
<1>1. CASE hw.arch = "m68k"
    <2> DEFINE memstart == Larger(hw.RAMBase, ROMVariables)
    <2>1. memstart \in Word
        BY <1>1, MacWords, ConstantWords DEF Larger
    <2>2. /\ WSub(hw.MemTop, hw.end) \in Word /\ WSub(hw.end, hw.begin) \in Word
          /\ WSub(hw.begin, memstart) \in Word
        BY <1>1, <2>1, MacWords, WordOps
    <2> HIDE DEF memstart
    <2>3. /\ Reported(hw.end, WSub(hw.MemTop, hw.end), USABLE) \in R
          /\ Reported(hw.begin, WSub(hw.end, hw.begin), RECLAIMABLE) \in R
          /\ Reported(memstart, WSub(hw.begin, memstart), USABLE) \in R
        BY <1>1, <2>1, <2>2, MacWords DEF Reported
    <2> QED BY <1>1, <2>3 DEF Reports, MacRegions, memstart
<1>2. CASE hw.arch # "m68k"
    <2>1. /\ Reported(mem.start1, mem.size1, RECLAIMABLE) \in R
          /\ Reported(mem.start2, StackBytes, RECLAIMABLE) \in R
          /\ Reported(mem.usable, mem.usableSize, USABLE) \in R
        BY ConstantWords DEF TypeOK, Reported
    <2> QED BY <1>2, <2>1 DEF Reports, FunnyarchRegions
<1> QED BY <1>1, <1>2

\* Every step keeps the types.
LEMMA TypeStep == TypeOK /\ [Next]_vars => TypeOK'
<1> SUFFICES ASSUME TypeOK, [Next]_vars PROVE TypeOK'
    OBVIOUS
<1>1. CASE MacStartup
    BY <1>1 DEF MacStartup, TypeOK
<1>2. CASE FunnyarchStartup
    <2>1. mem' = MemInit(hw)
        BY <1>2 DEF FunnyarchStartup
    <2>2. mem' \in [start1 : Word, size1 : Word, start2 : Word,
                    usable : Word, usableSize : Word, bump : Word]
        BY <1>2, <2>1, MemInitType DEF FunnyarchStartup
    <2> QED BY <1>2, <2>2 DEF FunnyarchStartup, TypeOK
<1>3. CASE InitHeap
    BY <1>3, HeapType DEF InitHeap, TypeOK
<1>4. CASE Iter
    <2>1. CASE ctx < 3
        <3>1. ctx + 1 \in 1 .. 3
            BY <2>1 DEF TypeOK
        <3>2. Reports[ctx + 1] \in [base : Word, size : Word, type : {USABLE, RECLAIMABLE}]
            BY <3>1, ReportsType
        <3>3. /\ map' = Append(map, Reports[ctx + 1]) /\ ctx' = ctx + 1
              /\ hw' = hw /\ pc' = pc /\ mem' = mem /\ heap' = heap
            BY <1>4, <2>1 DEF Iter
        <3> DEFINE R == [base : Word, size : Word, type : {USABLE, RECLAIMABLE}]
        <3> HIDE DEF R
        <3>4. map \in Seq(R) /\ Len(map) = ctx /\ Reports[ctx + 1] \in R
            BY <3>2 DEF TypeOK, R
        <3>5. map' \in Seq(R) /\ Len(map') = ctx'
            BY <3>3, <3>4
        <3>6. ctx' \in 0 .. 3
            BY <3>1, <3>3
        <3> QED BY <3>3, <3>5, <3>6 DEF TypeOK, R
    <2>2. CASE ~(ctx < 3)
        BY <1>4, <2>2 DEF Iter, TypeOK
    <2> QED BY <2>1, <2>2
<1>5. CASE UNCHANGED vars
    BY <1>5 DEF vars, TypeOK
<1> QED BY <1>1, <1>2, <1>3, <1>4, <1>5 DEF Next, Done

\* Startup and the iterator keep to uint32_t values and report 3 regions at most.
THEOREM MapTypeCorrect == Spec => []TypeOK
    BY TypeInit, TypeStep, PTL DEF Spec
-----------------------------------------------------------------------------
\* The condition under which startup lets a machine pass.
Passed ==
    IF hw.arch = "m68k"
    THEN Signed(hw.MemTop) > Signed(hw.end) /\ Signed(hw.RAMBase) <= Signed(hw.begin)
    ELSE mem = MemInit(hw) /\ WAdd(mem.start1, mem.size1) <= mem.start2

Progress ==
    /\ pc \in {"heap", "iter", "done"} => Passed
    /\ pc \in {"iter", "done"} => heap = HeapOf(hw, mem)
    /\ pc \in {"startup", "heap", "error"} => ctx = 0
    /\ pc = "done" => ctx = 3
    /\ \A k \in 1 .. ctx : map[k] = Reports[k]

\* Nothing is reported at first.
LEMMA ProgressInit == Init => Progress
    BY DEF Init, Progress

\* Every step keeps startup's verdict and the regions reported so far.
LEMMA ProgressStep == TypeOK /\ Progress /\ [Next]_vars => Progress'
<1> SUFFICES ASSUME TypeOK, Progress, [Next]_vars PROVE Progress'
    OBVIOUS
<1>1. CASE MacStartup
    <2>1. /\ pc = "startup" /\ pc' \in {"error", "heap"} /\ hw' = hw /\ ctx' = ctx
          /\ hw.arch = "m68k"
          /\ pc' = "heap" => ~(Signed(hw.MemTop) <= Signed(hw.end))
                             /\ ~(Signed(hw.RAMBase) > Signed(hw.begin))
        BY <1>1 DEF MacStartup
    <2>2. /\ Signed(hw.MemTop) \in Int /\ Signed(hw.end) \in Int
          /\ Signed(hw.RAMBase) \in Int /\ Signed(hw.begin) \in Int
        BY <2>1, MacWords, ConstantWords DEF Signed, Word
    <2>3. pc' = "heap" => Passed'
        BY <2>1, <2>2 DEF Passed, Signed
    <2>4. ctx' = 0
        BY <2>1 DEF Progress
    <2> QED BY <2>1, <2>3, <2>4 DEF Progress
<1>2. CASE FunnyarchStartup
    <2>1. /\ pc = "startup" /\ pc' \in {"error", "heap"} /\ hw' = hw /\ ctx' = ctx
          /\ hw.arch = "funnyarch" /\ mem' = MemInit(hw)
          /\ pc' = "heap" => ~(WAdd(mem'.start1, mem'.size1) > mem'.start2)
        BY <1>2 DEF FunnyarchStartup
    <2>2. /\ mem'.start1 \in Word /\ mem'.size1 \in Word /\ mem'.start2 \in Word
        BY <2>1, MemInitType
    <2>3. WAdd(mem'.start1, mem'.size1) \in Word
        BY <2>2, WordOps
    <2>4. pc' = "heap" => WAdd(mem'.start1, mem'.size1) <= mem'.start2
        BY <2>1, <2>2, <2>3 DEF Word
    <2>5. pc' = "heap" => Passed'
        BY <2>1, <2>4 DEF Passed
    <2>6. ctx' = 0
        BY <2>1 DEF Progress
    <2> QED BY <2>1, <2>5, <2>6 DEF Progress
<1>3. CASE InitHeap
    BY <1>3 DEF InitHeap, Progress, Passed, HeapOf, Reports
<1>4. CASE Iter
    <2>1. /\ pc = "iter" /\ hw' = hw /\ mem' = mem /\ heap' = heap
          /\ Passed' = Passed /\ HeapOf(hw, mem)' = HeapOf(hw, mem) /\ Reports' = Reports
        BY <1>4 DEF Iter, Passed, Reports, MacRegions, FunnyarchRegions
    <2>2. CASE ctx < 3
        <3>1. map' = Append(map, Reports[ctx + 1]) /\ ctx' = ctx + 1 /\ pc' = pc
            BY <1>4, <2>2 DEF Iter
        <3>2. \A k \in 1 .. ctx' : map'[k] = Reports[k]
            BY <3>1 DEF Progress, TypeOK
        <3> QED BY <2>1, <3>1, <3>2 DEF Progress
    <2>3. CASE ~(ctx < 3)
        <3>1. ctx' = ctx /\ map' = map /\ pc' = "done" /\ ctx = 3
            BY <1>4, <2>3 DEF Iter, TypeOK
        <3> QED BY <2>1, <3>1 DEF Progress
    <2> QED BY <2>2, <2>3
<1>5. CASE UNCHANGED vars
    BY <1>5 DEF vars, Progress, Passed, Reports, MacRegions, FunnyarchRegions, HeapOf
<1> QED BY <1>1, <1>2, <1>3, <1>4, <1>5 DEF Next, Done

\* What startup's signed comparisons say of a plausible Macintosh.
LEMMA MacLayout ==
    ASSUME TypeOK, Passed, PlausibleRam(hw), hw.arch = "m68k"
    PROVE  /\ RamStart(hw) \in Nat /\ hw.begin \in Nat /\ hw.end \in Nat /\ RamEnd(hw) \in Nat
           /\ RamStart(hw) <= hw.begin /\ hw.begin <= hw.end /\ hw.end <= RamEnd(hw)
           /\ RamEnd(hw) < WordSize
           /\ MacRegions = << Reported(hw.end, RamEnd(hw) - hw.end, USABLE),
                              Reported(hw.begin, hw.end - hw.begin, RECLAIMABLE),
                              Reported(RamStart(hw), hw.begin - RamStart(hw), USABLE) >>
<1>1. /\ hw.RAMBase \in Nat /\ hw.MemTop \in Nat /\ hw.begin \in Nat /\ hw.end \in Nat
      /\ hw.MemTop < WordSize /\ WordSize \in Nat /\ ROMVariables <= hw.begin
      /\ hw.begin <= hw.end /\ 2 * hw.end < WordSize
    BY MacWords, ConstantWords DEF Word, ROMVariables
<1>2. 2 * hw.RAMBase < WordSize
    BY DEF PlausibleRam
<1>3. hw.RAMBase <= hw.begin
    BY <1>1, <1>2 DEF Passed, Signed
<1>4. hw.end <= hw.MemTop
    BY <1>1 DEF Passed, Signed
<1>5. RamStart(hw) = Larger(hw.RAMBase, ROMVariables) /\ RamEnd(hw) = hw.MemTop
    BY DEF RamStart, RamEnd
<1>6. RamStart(hw) \in Nat /\ RamStart(hw) <= hw.begin
    BY <1>1, <1>3, <1>5 DEF Larger, ROMVariables
<1>7. /\ WSub(hw.MemTop, hw.end) = hw.MemTop - hw.end
      /\ WSub(hw.end, hw.begin) = hw.end - hw.begin
      /\ WSub(hw.begin, RamStart(hw)) = hw.begin - RamStart(hw)
    BY <1>1, <1>4, <1>6 DEF WSub
<1>8. MacRegions = << Reported(hw.end, RamEnd(hw) - hw.end, USABLE),
                      Reported(hw.begin, hw.end - hw.begin, RECLAIMABLE),
                      Reported(RamStart(hw), hw.begin - RamStart(hw), USABLE) >>
    BY <1>5, <1>7 DEF MacRegions
<1> QED BY <1>1, <1>4, <1>5, <1>6, <1>8

\* The addresses funnyarch_mem_init computes for a plausible RAM do not wrap.
LEMMA FunnyarchLayout ==
    ASSUME TypeOK, Passed, PlausibleRam(hw), hw.arch = "funnyarch"
    PROVE  /\ RamEnd(hw) \in Nat /\ RamEnd(hw) < WordSize
           /\ hw.membase \in Nat /\ hw.image \in Nat /\ mem.usable \in Nat /\ mem.start2 \in Nat
           /\ hw.membase = RamStart(hw)
           /\ mem.start1 = hw.membase /\ mem.size1 = mem.usable - hw.membase
           /\ mem.usable = hw.membase + hw.image + HeapBytes
           /\ mem.usable <= mem.start2 /\ mem.usableSize = mem.start2 - mem.usable
           /\ RamEnd(hw) = mem.start2 + StackBytes
           /\ mem.bump = hw.membase + hw.image
<1> DEFINE top == hw.membase + hw.membytes
           size1  == WAdd(hw.image, HeapBytes)
           start2 == WSub(AlignDown(WAdd(hw.membase, hw.membytes)), StackBytes)
           end1   == WAdd(hw.membase, size1)
<1>1. hw.membase \in Nat /\ hw.membytes \in Nat /\ hw.image \in Nat /\ WordSize \in Nat
    BY FunnyarchWords, ConstantWords DEF Word
<1>2. /\ top < WordSize /\ hw.membase + hw.image + HeapBytes < WordSize /\ top >= StackBytes
    BY DEF PlausibleRam
<1>3. WAdd(hw.membase, hw.membytes) = top /\ top \in Nat
    BY <1>1, <1>2 DEF WAdd
<1>4. /\ AlignDown(top) \in Nat /\ AlignDown(top) <= top /\ AlignDown(top) >= StackBytes
      /\ RamEnd(hw) = AlignDown(top)
    <2>1. RamEnd(hw) = AlignDown(top)
        BY DEF RamEnd
    <2>2. AlignDown(top) \in Nat /\ AlignDown(top) <= top /\ top - 3 <= AlignDown(top)
          /\ AlignDown(top) % 4 = 0
        BY <1>3, AlignDownNear
    <2> HIDE DEF top
    <2>3. AlignDown(top) >= StackBytes
        BY <1>2, <1>3, <2>2 DEF StackBytes
    <2> QED BY <2>1, <2>2, <2>3
<1>5. size1 = hw.image + HeapBytes /\ end1 = hw.membase + hw.image + HeapBytes
    BY <1>1, <1>2 DEF WAdd, HeapBytes
<1>6. start2 = AlignDown(top) - StackBytes /\ start2 \in Nat
    BY <1>3, <1>4 DEF WSub, StackBytes
<1>7. /\ mem = MemInit(hw) /\ WAdd(mem.start1, mem.size1) <= mem.start2
    BY DEF Passed
<1>8. /\ mem.start1 = hw.membase /\ mem.size1 = size1 /\ mem.start2 = start2
      /\ mem.usable = end1 /\ mem.usableSize = WSub(start2, end1)
      /\ mem.bump = WAdd(hw.membase, hw.image)
    BY <1>7 DEF MemInit
<1> HIDE DEF top, size1, start2, end1
<1>9. mem.bump = hw.membase + hw.image
    BY <1>1, <1>2, <1>8 DEF WAdd, HeapBytes
<1>10. end1 <= start2
    BY <1>7, <1>8 DEF end1
<1>11. end1 \in Nat
    BY <1>1, <1>5 DEF HeapBytes
<1>12. WSub(start2, end1) = start2 - end1
    BY <1>6, <1>10, <1>11 DEF WSub
<1>13. hw.membase = RamStart(hw)
    BY DEF RamStart
<1>14. RamEnd(hw) = start2 + StackBytes /\ RamEnd(hw) < WordSize /\ RamEnd(hw) \in Nat
    BY <1>1, <1>2, <1>3, <1>4, <1>6 DEF StackBytes
<1>15. size1 = end1 - hw.membase
    BY <1>1, <1>5 DEF HeapBytes
<1> QED BY <1>1, <1>5, <1>6, <1>8, <1>9, <1>10, <1>11, <1>12, <1>13, <1>14, <1>15
-----------------------------------------------------------------------------
\* A finished map consists of three consecutive regions, in one of two orders,
\* with the heap in a reclaimable one.
MapIs(a, b, c, d) ==
    LET P(s) == Reported(a, b - a, s)
        Q(s) == Reported(b, c - b, s)
        R(s) == Reported(c, d - c, s)
    IN  \/ Reports = << R(USABLE), Q(RECLAIMABLE), P(USABLE) >>
           /\ b <= heap.begin /\ heap.begin <= heap.end /\ heap.end <= c
        \/ Reports = << P(RECLAIMABLE), R(RECLAIMABLE), Q(USABLE) >>
           /\ a <= heap.begin /\ heap.begin <= heap.end /\ heap.end <= b

\* Each architecture's map is of that form, from RAM's start to its end.
LEMMA DoneMap ==
    ASSUME TypeOK, Passed, heap = HeapOf(hw, mem), PlausibleRam(hw)
    PROVE  \E b, c \in Nat :
              /\ RamStart(hw) \in Nat /\ RamEnd(hw) \in Nat /\ RamEnd(hw) < WordSize
              /\ RamStart(hw) <= b /\ b <= c /\ c <= RamEnd(hw)
              /\ MapIs(RamStart(hw), b, c, RamEnd(hw))
<1>1. CASE hw.arch = "m68k"
    <2>1. heap.begin = hw.malloc /\ heap.end = hw.end
        BY <1>1 DEF HeapOf
    <2>2. hw.begin <= heap.begin /\ heap.begin <= heap.end /\ heap.end <= hw.end
        BY <1>1, <2>1, MacWords DEF Word
    <2>3. Reports = << Reported(hw.end, RamEnd(hw) - hw.end, USABLE),
                       Reported(hw.begin, hw.end - hw.begin, RECLAIMABLE),
                       Reported(RamStart(hw), hw.begin - RamStart(hw), USABLE) >>
        BY <1>1, MacLayout DEF Reports
    <2>4. MapIs(RamStart(hw), hw.begin, hw.end, RamEnd(hw))
        BY <2>2, <2>3 DEF MapIs
    <2>5. /\ RamStart(hw) \in Nat /\ RamEnd(hw) \in Nat /\ RamEnd(hw) < WordSize
          /\ hw.begin \in Nat /\ hw.end \in Nat
          /\ RamStart(hw) <= hw.begin /\ hw.begin <= hw.end /\ hw.end <= RamEnd(hw)
        BY <1>1, MacLayout
    <2> QED BY <2>4, <2>5
<1>2. CASE hw.arch = "funnyarch"
    <2>1. /\ RamEnd(hw) \in Nat /\ RamEnd(hw) < WordSize
          /\ hw.membase \in Nat /\ hw.image \in Nat /\ mem.usable \in Nat /\ mem.start2 \in Nat
          /\ hw.membase = RamStart(hw)
          /\ mem.start1 = hw.membase /\ mem.size1 = mem.usable - hw.membase
          /\ mem.usable = hw.membase + hw.image + HeapBytes
          /\ mem.usable <= mem.start2 /\ mem.usableSize = mem.start2 - mem.usable
          /\ RamEnd(hw) = mem.start2 + StackBytes
          /\ mem.bump = hw.membase + hw.image
        BY <1>2, FunnyarchLayout
    <2>2. mem.bump \in Nat /\ mem.bump + HeapBytes < WordSize /\ WordSize \in Nat
        BY <2>1, ConstantWords DEF HeapBytes, StackBytes
    <2>3. WAdd(mem.bump, 3) = mem.bump + 3 /\ WAdd(mem.bump, HeapBytes) = mem.bump + HeapBytes
        BY <2>2 DEF WAdd, HeapBytes
    <2>4. heap.begin = AlignUp(mem.bump) /\ heap.end = mem.bump + HeapBytes
        BY <1>2, <2>3 DEF HeapOf
    <2>5. AlignDown(mem.bump + 3) \in Nat /\ AlignDown(mem.bump + 3) <= mem.bump + 3
          /\ mem.bump + 3 - 3 <= AlignDown(mem.bump + 3)
        BY <2>2, AlignDownNear
    <2>6. heap.begin \in Nat /\ mem.bump <= heap.begin /\ heap.begin <= mem.bump + 3
        BY <2>2, <2>3, <2>4, <2>5 DEF AlignUp
    <2>7. hw.membase <= heap.begin /\ heap.begin <= heap.end /\ heap.end <= mem.usable
        BY <2>1, <2>2, <2>4, <2>6 DEF HeapBytes
    <2>8. RamEnd(hw) - mem.start2 = StackBytes
        BY <2>1 DEF StackBytes
    <2>9. Reports = << Reported(hw.membase, mem.usable - hw.membase, RECLAIMABLE),
                       Reported(mem.start2, RamEnd(hw) - mem.start2, RECLAIMABLE),
                       Reported(mem.usable, mem.start2 - mem.usable, USABLE) >>
        BY <1>2, <2>1, <2>8 DEF Reports, FunnyarchRegions
    <2>10. MapIs(RamStart(hw), mem.usable, mem.start2, RamEnd(hw))
        BY <2>1, <2>7, <2>9 DEF MapIs
    <2>11. RamStart(hw) \in Nat /\ RamStart(hw) <= mem.usable /\ mem.start2 <= RamEnd(hw)
        BY <2>1 DEF HeapBytes, StackBytes
    <2> QED BY <2>1, <2>10, <2>11
<1> QED BY <1>1, <1>2, Architectures

\* The map a finished iteration has reported is the three reports.
LEMMA DoneReports ==
    ASSUME TypeOK, Progress, pc = "done"
    PROVE  map = <<Reports[1], Reports[2], Reports[3]>>
    BY DEF TypeOK, Progress

\* Three reports in a row make a sound map that fills RAM.
LEMMA ThreeReports ==
    ASSUME TypeOK, Progress, pc = "done", PlausibleRam(hw)
    PROVE  MapSound /\ MapTilesRam
<1>1. Passed /\ heap = HeapOf(hw, mem) /\ map = <<Reports[1], Reports[2], Reports[3]>>
    BY DoneReports DEF Progress
<1>2. PICK b, c \in Nat :
          /\ RamStart(hw) \in Nat /\ RamEnd(hw) \in Nat /\ RamEnd(hw) < WordSize
          /\ RamStart(hw) <= b /\ b <= c /\ c <= RamEnd(hw)
          /\ MapIs(RamStart(hw), b, c, RamEnd(hw))
    BY <1>1, DoneMap
<1> DEFINE a == RamStart(hw)
           d == RamEnd(hw)
           P(s) == Reported(a, b - a, s)
           Q(s) == Reported(b, c - b, s)
           R(s) == Reported(c, d - c, s)
<1>3. /\ a \in Nat /\ d \in Nat /\ a <= b /\ b <= c /\ c <= d /\ d < WordSize
      /\ WordSize \in Nat /\ heap.begin \in Nat /\ heap.end \in Nat
    BY <1>2, ConstantWords DEF TypeOK, Word
<1>4. \/ Reports = << R(USABLE), Q(RECLAIMABLE), P(USABLE) >>
         /\ b <= heap.begin /\ heap.begin <= heap.end /\ heap.end <= c
      \/ Reports = << P(RECLAIMABLE), R(RECLAIMABLE), Q(USABLE) >>
         /\ a <= heap.begin /\ heap.begin <= heap.end /\ heap.end <= b
    BY <1>2 DEF MapIs
<1>5. \A s, t, u \in {USABLE, RECLAIMABLE} :
          /\ Apart(P(s), Q(t)) /\ Apart(Q(t), P(s)) /\ Apart(P(s), R(u)) /\ Apart(R(u), P(s))
          /\ Apart(Q(t), R(u)) /\ Apart(R(u), Q(t))
          /\ End(P(s)) = b /\ End(Q(t)) = c /\ End(R(u)) = d
          /\ Tiled({P(s), Q(t), R(u)}, a, d)
    <2> HIDE DEF a, d
    <2> TAKE s, t, u \in {USABLE, RECLAIMABLE}
    <2>1. P(s) = Reported(a, b - a, s) /\ Q(t) = Reported(b, c - b, t)
          /\ R(u) = Reported(c, d - c, u)
        OBVIOUS
    <2> DEFINE p == P(s)
               q == Q(t)
               r == R(u)
    <2>2. p = Reported(a, b - a, s) /\ q = Reported(b, c - b, t) /\ r = Reported(c, d - c, u)
        BY <2>1
    <2> HIDE DEF p, q, r
    <2>3. /\ p.base = a /\ q.base = b /\ r.base = c
          /\ End(p) = b /\ End(q) = c /\ End(r) = d
        BY <1>3, <2>2 DEF Reported, End
    <2>4. /\ Apart(p, q) /\ Apart(q, p) /\ Apart(p, r) /\ Apart(r, p)
          /\ Apart(q, r) /\ Apart(r, q)
        BY <1>3, <2>3 DEF Apart
    <2>5. \A x \in {p, q, r} : a <= x.base /\ End(x) <= d
        BY <1>3, <2>3
    <2>6. \A x, y \in {p, q, r} : x # y => Apart(x, y)
        BY <2>4
    <2>7. \A x \in {y.base : y \in {p, q, r}} \cup {d} :
              x = a \/ \E y \in {p, q, r} : End(y) = x
        BY <1>3, <2>3
    <2>8. Tiled({p, q, r}, a, d)
        BY <2>5, <2>6, <2>7 DEF Tiled
    <2> QED BY <2>3, <2>4, <2>8 DEF p, q, r
<1>6. \A s \in {USABLE, RECLAIMABLE} : P(s) \in Region /\ Q(s) \in Region /\ R(s) \in Region
    BY <1>3 DEF Reported, Region
<1>7. \A s : /\ P(s).type = s /\ P(s).base = a /\ Q(s).base = b /\ R(s).base = c
             /\ Q(s).type = s /\ R(s).type = s
    BY DEF Reported
<1> DEFINE arena == Block(heap.begin, heap.end - heap.begin)
<1>8. heap.begin <= heap.end
    BY <1>4
<1>9. arena.base = heap.begin /\ End(arena) = heap.end
    BY <1>3 DEF Block, End
<1> HIDE DEF a, d, P, Q, R, arena
<1>10. CASE Reports = << R(USABLE), Q(RECLAIMABLE), P(USABLE) >>
            /\ b <= heap.begin /\ heap.begin <= heap.end /\ heap.end <= c
    <2>1. map = << R(USABLE), Q(RECLAIMABLE), P(USABLE) >>
        BY <1>1, <1>10
    <2>2. map \in Seq(Region)
        BY <2>1, <1>6
    <2>3. \A k \in 1 .. Len(map) : End(map[k]) < WordSize
        BY <2>1, <1>3, <1>5
    <2>4. \A j, k \in 1 .. Len(map) : j # k => Apart(map[j], map[k])
        BY <2>1, <1>5
    <2>5. Inside(arena, Q(RECLAIMABLE))
        BY <1>3, <1>5, <1>7, <1>9, <1>10 DEF Inside
    <2>6. \E k \in 1 .. Len(map) : map[k].type = RECLAIMABLE /\ Inside(arena, map[k])
        BY <2>1, <2>5, <1>7
    <2>7. {map[k] : k \in DOMAIN map} = {P(USABLE), Q(RECLAIMABLE), R(USABLE)}
        BY <2>1
    <2>8. Tiled({map[k] : k \in DOMAIN map}, a, d)
        BY <2>7, <1>5
    <2> QED BY <1>8, <2>2, <2>3, <2>4, <2>6, <2>8 DEF MapSound, MapTilesRam, SoundMap, arena, a, d
<1>11. CASE Reports = << P(RECLAIMABLE), R(RECLAIMABLE), Q(USABLE) >>
            /\ a <= heap.begin /\ heap.begin <= heap.end /\ heap.end <= b
    <2>1. map = << P(RECLAIMABLE), R(RECLAIMABLE), Q(USABLE) >>
        BY <1>1, <1>11
    <2>2. map \in Seq(Region)
        BY <2>1, <1>6
    <2>3. \A k \in 1 .. Len(map) : End(map[k]) < WordSize
        BY <2>1, <1>3, <1>5
    <2>4. \A j, k \in 1 .. Len(map) : j # k => Apart(map[j], map[k])
        BY <2>1, <1>5
    <2>5. Inside(arena, P(RECLAIMABLE))
        BY <1>3, <1>5, <1>7, <1>9, <1>11 DEF Inside
    <2>6. \E k \in 1 .. Len(map) : map[k].type = RECLAIMABLE /\ Inside(arena, map[k])
        BY <2>1, <2>5, <1>7
    <2>7. {map[k] : k \in DOMAIN map} = {P(RECLAIMABLE), Q(USABLE), R(RECLAIMABLE)}
        BY <2>1
    <2>8. Tiled({map[k] : k \in DOMAIN map}, a, d)
        BY <2>7, <1>5
    <2> QED BY <1>8, <2>2, <2>3, <2>4, <2>6, <2>8 DEF MapSound, MapTilesRam, SoundMap, arena, a, d
<1> QED BY <1>4, <1>10, <1>11

\* On every machine with plausible RAM that startup lets pass, the memory map's
\* regions neither wrap nor overlap and the heap lies in a reclaimable one: what
\* boot() assumes of memmap::iter.
THEOREM MapIsSound == Spec => []MapSound
<1>1. TypeOK /\ Progress => MapSound
    BY ThreeReports DEF MapSound
<1> QED BY <1>1, TypeInit, TypeStep, ProgressInit, ProgressStep, PTL DEF Spec

\* On such a machine the three regions tell of all of RAM, and of nothing else.
THEOREM MapCoversRam == Spec => []MapTilesRam
<1>1. TypeOK /\ Progress => MapTilesRam
    BY ThreeReports DEF MapTilesRam
<1> QED BY <1>1, TypeInit, TypeStep, ProgressInit, ProgressStep, PTL DEF Spec
=============================================================================
