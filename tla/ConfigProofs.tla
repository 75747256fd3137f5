---------------------------- MODULE ConfigProofs ----------------------------
(***************************************************************************)
(* That get_cfg_value returns the value of the first line with the key.    *)
(***************************************************************************)
EXTENDS Config, SequenceTheorems, FiniteSetTheorems, WellFoundedInduction, TLAPS

\* The start of the search.
Begin == IF from = NULL THEN 0 ELSE from

\* Where the line that is looked at starts, and where the value behind it does.
LineAt == pos - keyInc
ValueAt == pos - Len(str)

\* The first line with the key starts at p.
First(p) == p \in Lines(Begin) /\ \A q \in Lines(Begin) : p <= q

Typed ==
    /\ TypeOK
    /\ bytes \in Contents /\ size \in Len(bytes) .. Len(bytes) + 1
    /\ key \in Keys \cup {<<>>} /\ (key = <<>> => pc = "idle" /\ ~found)
    /\ from \in {NULL} \cup 0 .. Len(bytes) /\ str \in Seq(Int)

\* What each part of get_cfg_value has found out.
Searched ==
    /\ pc = "key" =>
          /\ Begin <= LineAt /\ (LineStarts(Begin, LineAt) \/ LineAt = Len(bytes))
          /\ \A j \in 1 .. keyInc : bytes[LineAt + j] = key[j]
          /\ \A q \in Lines(Begin) : LineAt <= q
    /\ pc = "skip" => Begin <= pos /\ \A q \in Lines(Begin) : pos < q
    /\ pc = "found" => First(pos - Len(Prefix)) /\ str = <<>>
    /\ pc = "value" =>
          /\ First(ValueAt - Len(Prefix))
          /\ str = SubSeq(bytes, ValueAt + 1, pos)
          /\ \A j \in 1 .. Len(str) : str[j] # NEWLINE
    /\ pc \in {"key", "skip"} => str = <<>>

IInv == Typed /\ Searched /\ FirstValue
-----------------------------------------------------------------------------
\* The least element.
LEMMA MinIs ==
    ASSUME NEW S \in SUBSET Int, NEW m \in S, \A q \in S : m <= q
    PROVE  Min(S) = m
<1>1. \A p \in S : (\A q \in S : p <= q) => p = m
    OBVIOUS
<1> QED BY <1>1 DEF Min

\* There is one.
LEMMA Least ==
    ASSUME NEW S \in SUBSET Nat, S # {}
    PROVE  Min(S) \in S /\ \A q \in S : Min(S) <= q
<1> DEFINE R == OpToRel(<, Nat)
<1>1. IsWellFoundedOn(R, Nat)
    BY NatLessThanWellFounded
<1>2. \A m, q \in Nat : q < m => <<q, m>> \in R
    BY DEF OpToRel
<1> HIDE DEF R
<1>3. PICK m \in S : \A q \in S : ~ (<<q, m>> \in R)
    BY <1>1, WFMin
<1>4. ASSUME NEW q \in S PROVE m <= q
    <2>1. m \in Nat /\ q \in Nat /\ ~(q < m)
        BY <1>2, <1>3
    <2> QED BY <2>1
<1>5. Min(S) = m
    BY <1>4, MinIs
<1> QED BY <1>4, <1>5

\* What the elements of the sequences are.
LEMMA KeyFacts ==
    ASSUME Typed, key # <<>>
    PROVE  /\ key \in Seq(0 .. 255) /\ Len(key) \in Nat \ {0}
           /\ \A j \in 1 .. Len(key) : key[j] \in 0 .. 255 /\ key[j] \notin {NEWLINE, EQUALS}
           /\ bytes \in Seq(0 .. 255) /\ Len(bytes) \in Nat
           /\ \A j \in 1 .. Len(bytes) : bytes[j] \in 0 .. 255
           /\ Begin \in 0 .. Len(bytes)
<1>1. key \in Keys /\ bytes \in Contents /\ from \in {NULL} \cup 0 .. Len(bytes)
    BY DEF Typed
<1>2. key \in Seq(0 .. 255) /\ bytes \in Seq(0 .. 255)
    BY <1>1, ConfigAssumption
<1>3. \A j \in 1 .. Len(key) : key[j] \notin {NEWLINE, EQUALS}
    BY <1>1, <1>2, ConfigAssumption
<1>4. /\ Len(key) \in Nat /\ Len(bytes) \in Nat
      /\ \A j \in 1 .. Len(key) : key[j] \in 0 .. 255
      /\ \A j \in 1 .. Len(bytes) : bytes[j] \in 0 .. 255
    BY <1>2, ElementOfSeq
<1>5. Len(key) # 0
    BY <1>2, EmptySeq
<1>6. Begin \in 0 .. Len(bytes)
    BY <1>1, <1>4 DEF Begin
<1> QED BY <1>2, <1>3, <1>4, <1>5, <1>6

\* Lines, character by character.
LEMMA LineIs ==
    ASSUME Typed, key # <<>>, NEW s \in Nat, NEW p \in Int
    PROVE  /\ Len(Prefix) = Len(key) + 1
           /\ p \in Lines(s) <=>
                 /\ s <= p /\ p + Len(key) + 1 <= Len(bytes) /\ LineStarts(s, p)
                 /\ \A j \in 1 .. Len(key) : bytes[p + j] = key[j]
                 /\ bytes[p + Len(key) + 1] = EQUALS
<1>1. /\ key \in Seq(0 .. 255) /\ Len(key) \in Nat \ {0}
      /\ bytes \in Seq(0 .. 255) /\ Len(bytes) \in Nat
    BY KeyFacts
<1>2. <<EQUALS>> \in Seq(0 .. 255) /\ Len(<<EQUALS>>) = 1 /\ <<EQUALS>>[1] = EQUALS
    BY DEF EQUALS
<1>3. /\ Prefix \in Seq(0 .. 255) /\ Len(Prefix) = Len(key) + 1
      /\ \A j \in 1 .. Len(key) + 1 :
             Prefix[j] = IF j <= Len(key) THEN key[j] ELSE <<EQUALS>>[j - Len(key)]
    BY <1>1, <1>2, ConcatProperties DEF Prefix
<1>4. (\A j \in 1 .. Len(key) : Prefix[j] = key[j]) /\ Prefix[Len(key) + 1] = EQUALS
    BY <1>1, <1>2, <1>3
<1>5. ASSUME s <= p, p + Len(key) + 1 <= Len(bytes)
      PROVE  SubSeq(bytes, p + 1, p + Len(Prefix)) = Prefix
                <=> /\ \A j \in 1 .. Len(key) : bytes[p + j] = key[j]
                    /\ bytes[p + Len(key) + 1] = EQUALS
    <2> DEFINE sub == SubSeq(bytes, p + 1, p + Len(Prefix))
    <2>1. /\ sub \in Seq(0 .. 255) /\ Len(sub) = Len(key) + 1
          /\ \A j \in 1 .. Len(key) + 1 : sub[j] = bytes[p + j]
        <3> DEFINE n == p + Len(Prefix)
        <3>1. p + 1 \in Int /\ n \in Int /\ n - (p + 1) + 1 = Len(key) + 1 /\ p + 1 <= n
            BY <1>1, <1>3
        <3>2. \A j \in p + 1 .. n : bytes[j] \in 0 .. 255
            <4>1. \A j \in p + 1 .. n : j \in 1 .. Len(bytes)
                BY <1>1, <1>3, <1>5
            <4> QED BY <4>1, KeyFacts
        <3>3. /\ SubSeq(bytes, p + 1, n) \in Seq(0 .. 255)
              /\ Len(SubSeq(bytes, p + 1, n)) = n - (p + 1) + 1
              /\ \A j \in 1 .. n - (p + 1) + 1 : SubSeq(bytes, p + 1, n)[j] = bytes[(p + 1) + j - 1]
            BY <3>1, <3>2, SubSeqProperties
        <3>4. \A j \in 1 .. Len(key) + 1 : (p + 1) + j - 1 = p + j
            BY <1>1
        <3> QED BY <3>1, <3>3, <3>4
    <2> HIDE DEF sub
    <2>2. sub = Prefix <=> \A j \in 1 .. Len(key) + 1 : sub[j] = Prefix[j]
        BY <1>3, <2>1, SeqEqual
    <2>3. sub = Prefix <=> \A j \in 1 .. Len(key) + 1 : bytes[p + j] = Prefix[j]
        BY <2>1, <2>2
    <2>4. (\A j \in 1 .. Len(key) + 1 : bytes[p + j] = Prefix[j])
             <=> /\ \A j \in 1 .. Len(key) : bytes[p + j] = key[j]
                 /\ bytes[p + Len(key) + 1] = EQUALS
        <3>1. ASSUME \A j \in 1 .. Len(key) + 1 : bytes[p + j] = Prefix[j]
              PROVE  /\ \A j \in 1 .. Len(key) : bytes[p + j] = key[j]
                     /\ bytes[p + Len(key) + 1] = EQUALS
            BY <1>1, <1>4, <3>1
        <3>2. ASSUME \A j \in 1 .. Len(key) : bytes[p + j] = key[j],
                     bytes[p + Len(key) + 1] = EQUALS,
                     NEW j \in 1 .. Len(key) + 1
              PROVE  bytes[p + j] = Prefix[j]
            <4>1. j \in 1 .. Len(key) \/ j = Len(key) + 1
                BY <1>1
            <4> QED BY <1>1, <1>4, <3>2, <4>1
        <3> QED BY <3>1, <3>2
    <2> QED BY <2>3, <2>4 DEF sub
<1>6. p \in Lines(s) <=> /\ s <= p /\ p + Len(key) + 1 <= Len(bytes) /\ LineStarts(s, p)
                         /\ SubSeq(bytes, p + 1, p + Len(Prefix)) = Prefix
    BY <1>1, <1>3 DEF Lines
<1> QED BY <1>3, <1>5, <1>6

\* What fgetc returns.
LEMMA Got ==
    ASSUME Typed, key # <<>>, NEW c, Fgetc(c)
    PROVE  /\ bytes' = bytes /\ size' = size
           /\ \/ pos < Len(bytes) /\ pos' = pos + 1 /\ c = bytes[pos + 1] /\ c # EOF
              \/ pos = Len(bytes) /\ pos' = pos /\ c = EOF
<1>1. /\ bytes \in Seq(0 .. 255) /\ Len(bytes) \in Nat
      /\ \A j \in 1 .. Len(bytes) : bytes[j] \in 0 .. 255
    BY KeyFacts
<1>2. pos \in 0 .. Len(bytes)
    BY DEF Typed, TypeOK
<1>3. bytes' = bytes /\ size' = size
    BY DEF Fgetc, File!Read
<1>4. CASE pos < Len(bytes)
    <2>1. /\ pos' = pos + 1 /\ ret'.value = 1
          /\ ret'.data = SubSeq(bytes, pos + 1, pos + 1)
        BY <1>1, <1>2, <1>4 DEF Fgetc, File!Read, File!Lesser
    <2>2. pos + 1 \in 1 .. Len(bytes)
        BY <1>1, <1>2, <1>4
    <2>3. SubSeq(bytes, pos + 1, pos + 1)[1] = bytes[pos + 1]
        BY <1>1, <2>2
    <2>4. c = bytes[pos + 1]
        BY <2>1, <2>3 DEF Fgetc
    <2>5. c # EOF
        <3>1. c \in 0 .. 255
            BY <1>1, <2>2, <2>4
        <3> QED BY ONLY <3>1 DEF EOF
    <2> QED BY <1>3, <1>4, <2>1, <2>4, <2>5
<1>5. CASE pos = Len(bytes)
    <2>1. pos' = pos + 0 /\ ret'.value = 0
        BY <1>1, <1>2, <1>5 DEF Fgetc, File!Read, File!Lesser
    <2>2. c = EOF
        BY <2>1 DEF Fgetc
    <2> QED BY <1>2, <1>3, <1>5, <2>1, <2>2
<1> QED BY <1>1, <1>2, <1>4, <1>5

\* The lines do not change while get_cfg_value runs.
LEMMA SameLines ==
    ASSUME UNCHANGED <<bytes, key, from>>
    PROVE  /\ Begin' = Begin /\ Prefix' = Prefix /\ Lines(Begin)' = Lines(Begin)
           /\ \A p : LineStarts(Begin, p)' <=> LineStarts(Begin, p)
           /\ \A p : First(p)' <=> First(p)
<1>1. /\ Begin' = Begin /\ Prefix' = Prefix /\ Lines(Begin)' = Lines(Begin)
      /\ \A p : LineStarts(Begin, p)' <=> LineStarts(Begin, p)
    BY DEF Begin, Prefix, Lines, LineStarts
<1> QED BY <1>1 DEF First

\* What is known of the place of the search.
LEMMA Places ==
    ASSUME Typed, key # <<>>
    PROVE  /\ pos \in Nat /\ pos <= Len(bytes) /\ Len(bytes) \in Nat
           /\ keyInc \in Nat /\ keyInc <= Len(key) /\ Len(key) \in Nat \ {0}
           /\ LineAt \in Int /\ pos = LineAt + keyInc
           /\ Begin \in Nat /\ Begin <= Len(bytes) /\ Len(Prefix) = Len(key) + 1
           /\ \A q \in Lines(Begin) :
                 /\ q \in Nat /\ Begin <= q /\ q + Len(key) + 1 <= Len(bytes)
                 /\ q = Begin \/ (q > Begin /\ bytes[q] = NEWLINE)
                 /\ \A j \in 1 .. Len(key) : bytes[q + j] = key[j]
                 /\ bytes[q + Len(key) + 1] = EQUALS
<1>1. /\ Len(key) \in Nat \ {0} /\ Len(bytes) \in Nat /\ Begin \in 0 .. Len(bytes)
    BY KeyFacts
<1>2. /\ pos \in Nat /\ pos <= Len(bytes) /\ keyInc \in Nat /\ keyInc <= Len(key)
    BY <1>1 DEF Typed, TypeOK
<1>3. ASSUME NEW q \in Lines(Begin)
      PROVE  /\ q \in Nat /\ Begin <= q /\ q + Len(key) + 1 <= Len(bytes)
             /\ q = Begin \/ (q > Begin /\ bytes[q] = NEWLINE)
             /\ \A j \in 1 .. Len(key) : bytes[q + j] = key[j]
             /\ bytes[q + Len(key) + 1] = EQUALS
    <2>1. q \in Int
        BY <1>1, <1>3 DEF Lines
    <2>2. /\ Begin <= q /\ q + Len(key) + 1 <= Len(bytes) /\ LineStarts(Begin, q)
          /\ \A j \in 1 .. Len(key) : bytes[q + j] = key[j]
          /\ bytes[q + Len(key) + 1] = EQUALS
        BY <1>1, <1>3, <2>1, LineIs
    <2> QED BY <1>1, <2>1, <2>2 DEF LineStarts
<1>4. Len(Prefix) = Len(key) + 1
    BY <1>1, LineIs
<1> QED BY <1>1, <1>2, <1>3, <1>4 DEF LineAt

\* No line with the key starts among the characters that matched.
LEMMA NoneInside ==
    ASSUME Typed, Searched, pc = "key", key # <<>>, NEW q \in Lines(Begin)
    PROVE  q = LineAt \/ q > pos
<1>1. /\ q \in Nat /\ q >= LineAt /\ LineAt >= Begin /\ LineAt \in Int
      /\ q = Begin \/ (q > Begin /\ bytes[q] = NEWLINE)
      /\ \A j \in 1 .. keyInc : bytes[LineAt + j] = key[j]
      /\ pos = LineAt + keyInc /\ keyInc \in Nat /\ keyInc <= Len(key) /\ Begin \in Nat
    <2>1. /\ Begin <= LineAt /\ \A j \in 1 .. keyInc : bytes[LineAt + j] = key[j]
          /\ LineAt <= q
        BY DEF Searched
    <2>2. /\ q \in Nat /\ LineAt \in Int /\ pos = LineAt + keyInc
          /\ q = Begin \/ (q > Begin /\ bytes[q] = NEWLINE)
          /\ keyInc \in Nat /\ keyInc <= Len(key) /\ Begin \in Nat
        BY Places
    <2> QED BY <2>1, <2>2
<1>2. SUFFICES ASSUME q # LineAt, q <= pos PROVE FALSE
    BY <1>1, Places
<1>3. q > LineAt /\ bytes[q] = NEWLINE
    BY <1>1, <1>2
<1>4. PICK j \in 1 .. keyInc : q = LineAt + j
    <2>1. q - LineAt \in 1 .. keyInc
        BY <1>1, <1>2, <1>3
    <2> QED BY <1>1, <2>1
<1>5. key[j] = NEWLINE /\ j \in 1 .. Len(key)
    BY <1>1, <1>3, <1>4, Places
<1> QED BY <1>5, KeyFacts

\* Nor at the place itself, if the next character is another than the key's.
LEMMA NoneHere ==
    ASSUME Typed, Searched, pc = "key", key # <<>>, pos < Len(bytes),
           ~(keyInc < Len(key) /\ bytes[pos + 1] = key[keyInc + 1]),
           ~(bytes[pos + 1] = EQUALS /\ keyInc = Len(key)),
           NEW q \in Lines(Begin)
    PROVE  q > pos
<1>1. SUFFICES ASSUME q = LineAt PROVE FALSE
    BY NoneInside
<1>2. /\ pos = q + keyInc /\ keyInc \in Nat /\ keyInc <= Len(key) /\ Len(key) \in Nat \ {0}
      /\ \A j \in 1 .. Len(key) : bytes[q + j] = key[j]
      /\ bytes[q + Len(key) + 1] = EQUALS /\ q \in Nat
    BY <1>1, Places
<1>3. CASE keyInc < Len(key)
    <2>1. keyInc + 1 \in 1 .. Len(key) /\ q + (keyInc + 1) = pos + 1
        BY <1>2, <1>3
    <2>2. bytes[q + (keyInc + 1)] = key[keyInc + 1]
        BY <1>2, <2>1
    <2> QED BY <1>3, <2>1, <2>2
<1>4. CASE keyInc = Len(key)
    BY <1>2, <1>4
<1> QED BY <1>2, <1>3, <1>4

\* The parts of the type invariant that a reading step keeps.
LEMMA TypedKept ==
    ASSUME Typed, key # <<>>, bytes' = bytes, size' = size,
           UNCHANGED <<key, strLen, from>>,
           pos' \in 0 .. Len(bytes), keyInc' \in 0 .. Len(key),
           str' \in Seq(Int), Len(str') < strLen,
           seekPos' \in {NULL} \cup 0 .. Len(bytes), from = NULL <=> seekPos' = NULL,
           pc' \in {"idle", "key", "skip", "found", "value"}, found' \in BOOLEAN
    PROVE  Typed'
    BY DEF Typed, TypeOK

LEMMA MatchCharKeeps == ASSUME IInv, NEW c, MatchChar(c) PROVE IInv'
<1>1. /\ pc = "key" /\ pc' = "key" /\ Fgetc(c) /\ keyInc < Len(key) /\ c = key[keyInc + 1]
      /\ keyInc' = keyInc + 1
      /\ UNCHANGED <<key, strLen, from, seekPos, str, found, values>>
    BY DEF MatchChar, params
<1>2. Typed /\ Searched /\ key # <<>>
    BY <1>1 DEF IInv, Typed
<1>3. /\ pos \in Nat /\ pos <= Len(bytes) /\ Len(bytes) \in Nat
      /\ keyInc \in Nat /\ Len(key) \in Nat \ {0} /\ LineAt \in Int /\ pos = LineAt + keyInc
    BY <1>2, Places
<1>4. c # EOF
    <2>1. keyInc + 1 \in 1 .. Len(key)
        BY <1>1, <1>3
    <2>2. c \in 0 .. 255
        BY <1>1, <1>2, <2>1, KeyFacts
    <2> QED BY <2>2 DEF EOF
<1>5. bytes' = bytes /\ size' = size /\ pos < Len(bytes) /\ pos' = pos + 1 /\ c = bytes[pos + 1]
    BY <1>1, <1>2, <1>4, Got
<1>6. Typed'
    <2>1. pos' \in 0 .. Len(bytes) /\ keyInc' \in 0 .. Len(key)
        BY <1>1, <1>3, <1>5
    <2> QED BY <1>1, <1>2, <1>5, <2>1, TypedKept DEF Typed, TypeOK
<1>7. LineAt' = LineAt
    BY <1>1, <1>3, <1>5 DEF LineAt
<1>8. \A j \in 1 .. keyInc' : bytes'[LineAt' + j] = key'[j]
    <2>1. SUFFICES ASSUME NEW j \in 1 .. keyInc + 1 PROVE bytes[LineAt + j] = key[j]
        BY <1>1, <1>5, <1>7
    <2>2. CASE j = keyInc + 1
        <3>1. LineAt + j = pos + 1
            BY <1>3, <2>2
        <3> QED BY <1>1, <1>5, <2>2, <3>1
    <2>3. CASE j # keyInc + 1
        <3>1. j \in 1 .. keyInc
            BY <1>3, <2>3
        <3> QED BY <1>1, <1>2, <3>1 DEF Searched
    <2> QED BY <2>2, <2>3
<1>9. Searched'
    <2>1. /\ Begin' = Begin /\ Lines(Begin)' = Lines(Begin)
          /\ \A p : LineStarts(Begin, p)' <=> LineStarts(Begin, p)
        BY <1>1, <1>5, SameLines
    <2>2. Begin' <= LineAt' /\ \A q \in Lines(Begin)' : LineAt' <= q
        BY <1>1, <1>2, <1>7, <2>1 DEF Searched
    <2>3. LineStarts(Begin, LineAt)' \/ LineAt' = Len(bytes')
        <3>1. LineStarts(Begin, LineAt) \/ LineAt = Len(bytes)
            BY <1>1, <1>2 DEF Searched
        <3>2. LineStarts(Begin, LineAt)' <=> LineStarts(Begin, LineAt)
            BY <1>5, <1>7, <2>1 DEF LineStarts
        <3> QED BY <1>5, <1>7, <3>1, <3>2
    <2> QED BY <1>1, <1>2, <1>8, <2>2, <2>3 DEF Searched
<1> QED BY <1>1, <1>6, <1>9 DEF IInv, FirstValue

LEMMA KeyFoundKeeps == ASSUME IInv, NEW c, KeyFound(c) PROVE IInv'
<1>1. /\ pc = "key" /\ pc' = "found" /\ Fgetc(c) /\ c = EQUALS /\ keyInc = Len(key)
      /\ UNCHANGED <<key, strLen, from, seekPos, keyInc, str, found, values>>
    BY DEF KeyFound, params, locals
<1>2. Typed /\ Searched /\ key # <<>>
    BY <1>1 DEF IInv, Typed
<1>3. /\ pos \in Nat /\ pos <= Len(bytes) /\ Len(bytes) \in Nat
      /\ Len(key) \in Nat \ {0} /\ LineAt \in Int /\ pos = LineAt + Len(key)
      /\ Begin \in Nat /\ Len(Prefix) = Len(key) + 1
    BY <1>1, <1>2, Places
<1>4. bytes' = bytes /\ size' = size /\ pos < Len(bytes) /\ pos' = pos + 1 /\ EQUALS = bytes[pos + 1]
    BY <1>1, <1>2, Got DEF EOF, EQUALS
<1>5. Typed'
    BY <1>1, <1>2, <1>3, <1>4, TypedKept DEF Typed, TypeOK
<1>6. LineAt \in Lines(Begin)
    <2>1. /\ Begin <= LineAt /\ LineStarts(Begin, LineAt)
          /\ \A j \in 1 .. Len(key) : bytes[LineAt + j] = key[j]
        BY <1>1, <1>2, <1>3, <1>4 DEF Searched
    <2>2. LineAt + Len(key) + 1 = pos + 1 /\ LineAt + Len(key) + 1 <= Len(bytes)
        BY <1>3, <1>4
    <2> QED BY <1>2, <1>3, <1>4, <2>1, <2>2, LineIs
<1>7. First(LineAt)
    BY <1>1, <1>2, <1>6 DEF Searched, First
<1>8. Searched'
    <2>1. Prefix' = Prefix /\ \A p : First(p)' <=> First(p)
        BY <1>1, <1>4, SameLines
    <2>2. pos' - Len(Prefix') = LineAt
        BY <1>3, <1>4, <2>1
    <2>3. First(pos - Len(Prefix))'
        BY <1>1, <1>4, <1>7, <2>2, SameLines DEF First
    <2> QED BY <1>1, <1>2, <2>3 DEF Searched
<1> QED BY <1>1, <1>5, <1>8 DEF IInv, FirstValue

LEMMA NoMoreLinesKeeps == ASSUME IInv, NEW c, NoMoreLines(c) PROVE IInv'
<1>1. /\ pc = "key" /\ pc' = "idle" /\ Fgetc(c) /\ c = EOF /\ found' = FALSE
      /\ UNCHANGED <<key, strLen, from, seekPos, keyInc, str, values>>
    BY DEF NoMoreLines, Return, params, locals
<1>2. Typed /\ Searched /\ key # <<>>
    BY <1>1 DEF IInv, Typed
<1>3. bytes' = bytes /\ size' = size /\ pos = Len(bytes) /\ pos' = pos
    BY <1>1, <1>2, Got
<1>4. Typed'
    BY <1>1, <1>2, <1>3, TypedKept DEF Typed, TypeOK
<1>5. Lines(Begin) = {}
    <2>1. SUFFICES ASSUME NEW q \in Lines(Begin) PROVE FALSE
        OBVIOUS
    <2>2. q = LineAt \/ q > pos
        BY <1>1, <1>2, NoneInside
    <2>3. /\ q \in Nat /\ q + Len(key) + 1 <= Len(bytes) /\ pos = LineAt + keyInc
          /\ keyInc \in Nat /\ keyInc <= Len(key) /\ Len(key) \in Nat /\ Len(bytes) \in Nat
          /\ LineAt \in Int
        BY <1>2, Places
    <2> QED BY <1>3, <2>2, <2>3
<1>6. Lines(Begin)' = {}
    BY <1>1, <1>3, <1>5, SameLines
<1> QED BY <1>1, <1>4, <1>6 DEF IInv, Searched, FirstValue, Begin

LEMMA NextLineKeeps == ASSUME IInv, NEW c, NextLine(c) PROVE IInv'
<1>1. /\ pc = "key" /\ pc' = "key" /\ Fgetc(c) /\ Differs(c) /\ c = NEWLINE /\ keyInc' = 0
      /\ UNCHANGED <<key, strLen, from, seekPos, str, found, values>>
    BY DEF NextLine, params
<1>2. Typed /\ Searched /\ key # <<>>
    BY <1>1 DEF IInv, Typed
<1>3. /\ bytes' = bytes /\ size' = size /\ pos < Len(bytes) /\ pos' = pos + 1
      /\ bytes[pos + 1] = NEWLINE
    BY <1>1, <1>2, Got DEF EOF, NEWLINE
<1>4. /\ pos \in Nat /\ Len(bytes) \in Nat /\ Len(key) \in Nat /\ Begin \in Nat
      /\ keyInc \in Nat /\ LineAt \in Int /\ pos = LineAt + keyInc
    BY <1>2, Places
<1>5. Typed'
    BY <1>1, <1>2, <1>3, <1>4, TypedKept DEF Typed, TypeOK
<1>6. ASSUME NEW q \in Lines(Begin) PROVE pos + 1 <= q
    <2>1. q > pos
        BY <1>1, <1>2, <1>3, NoneHere DEF Differs, NEWLINE, EQUALS
    <2>2. q \in Nat
        BY <1>2, Places
    <2> QED BY <1>4, <2>1, <2>2
<1>7. Begin <= LineAt
    BY <1>1, <1>2 DEF Searched
<1>8. LineAt' = pos + 1
    BY <1>1, <1>3, <1>4 DEF LineAt
<1>9. LineStarts(Begin, pos + 1) /\ Begin <= pos + 1
    BY <1>3, <1>4, <1>7 DEF LineStarts
<1>10. /\ Begin' = Begin /\ Lines(Begin)' = Lines(Begin)
    BY <1>1, <1>3, SameLines
<1>11. LineStarts(Begin, LineAt)'
    BY <1>3, <1>8, <1>9, <1>10 DEF LineStarts
<1>12. Searched'
    <2>1. \A q \in Lines(Begin)' : LineAt' <= q
        BY <1>6, <1>8, <1>10
    <2>2. \A j \in 1 .. keyInc' : bytes'[LineAt' + j] = key'[j]
        BY <1>1
    <2>3. str' = <<>> /\ Begin' <= LineAt'
        BY <1>1, <1>2, <1>8, <1>9, <1>10 DEF Searched
    <2> QED BY <1>1, <1>11, <2>1, <2>2, <2>3 DEF Searched
<1> QED BY <1>1, <1>5, <1>12 DEF IInv, FirstValue

LEMMA MismatchKeeps == ASSUME IInv, NEW c, Mismatch(c) PROVE IInv'
<1>1. /\ pc = "key" /\ pc' = "skip" /\ Fgetc(c) /\ Differs(c)
      /\ c \notin {EOF, NEWLINE} /\ ~(c = EQUALS /\ keyInc = Len(key))
      /\ UNCHANGED <<key, strLen, from, seekPos, keyInc, str, found, values>>
    BY DEF Mismatch, params, locals
<1>2. Typed /\ Searched /\ key # <<>>
    BY <1>1 DEF IInv, Typed
<1>3. /\ bytes' = bytes /\ size' = size /\ pos < Len(bytes) /\ pos' = pos + 1
      /\ c = bytes[pos + 1]
    BY <1>1, <1>2, Got
<1>4. /\ pos \in Nat /\ Len(bytes) \in Nat /\ Begin \in Nat /\ Begin <= LineAt
      /\ keyInc \in Nat /\ LineAt \in Int /\ pos = LineAt + keyInc
    BY <1>1, <1>2, Places DEF Searched
<1>5. Typed'
    BY <1>1, <1>2, <1>3, <1>4, TypedKept DEF Typed, TypeOK
<1>6. ASSUME NEW q \in Lines(Begin) PROVE pos + 1 < q
    <2>1. q > pos
        BY <1>1, <1>2, <1>3, NoneHere DEF Differs
    <2>2. q \in Nat /\ (q = Begin \/ (q > Begin /\ bytes[q] = NEWLINE))
        BY <1>2, Places
    <2>3. bytes[pos + 1] # NEWLINE
        BY <1>1, <1>3
    <2>4. q # pos + 1
        BY <1>4, <2>2, <2>3
    <2> QED BY <1>4, <2>1, <2>2, <2>4
<1>7. /\ Begin' = Begin /\ Lines(Begin)' = Lines(Begin)
    BY <1>1, <1>3, SameLines
<1>8. Searched'
    <2>1. Begin' <= pos' /\ (\A q \in Lines(Begin)' : pos' < q) /\ str' = <<>>
        BY <1>1, <1>2, <1>3, <1>4, <1>6, <1>7 DEF Searched
    <2> QED BY <1>1, <2>1 DEF Searched
<1> QED BY <1>1, <1>5, <1>8 DEF IInv, FirstValue

LEMMA SkipCharKeeps == ASSUME IInv, NEW c, SkipChar(c) PROVE IInv'
<1>1. /\ pc = "skip" /\ Fgetc(c)
      /\ IF c \in {EOF, NEWLINE} THEN pc' = "key" /\ keyInc' = 0 ELSE UNCHANGED <<pc, keyInc>>
      /\ UNCHANGED <<key, strLen, from, seekPos, str, found, values>>
    BY DEF SkipChar, params
<1>2. Typed /\ Searched /\ key # <<>>
    BY <1>1 DEF IInv, Typed
<1>3. /\ bytes' = bytes /\ size' = size
      /\ \/ pos < Len(bytes) /\ pos' = pos + 1 /\ c = bytes[pos + 1] /\ c # EOF
         \/ pos = Len(bytes) /\ pos' = pos /\ c = EOF
    BY <1>1, <1>2, Got
<1>4. /\ pos \in Nat /\ Len(bytes) \in Nat /\ Begin \in Nat /\ Begin <= pos /\ str = <<>>
      /\ \A q \in Lines(Begin) : pos < q
      /\ keyInc \in Nat /\ keyInc <= Len(key) /\ Len(key) \in Nat
    BY <1>1, <1>2, Places DEF Searched
<1>5. Typed'
    <2>1. pos' \in 0 .. Len(bytes)
        BY <1>3, <1>4
    <2>2. keyInc' \in 0 .. Len(key) /\ pc' \in {"skip", "key"}
        BY <1>1, <1>4
    <2> QED BY <1>1, <1>2, <1>3, <2>1, <2>2, TypedKept DEF Typed, TypeOK
<1>6. /\ Begin' = Begin /\ Lines(Begin)' = Lines(Begin)
    BY <1>1, <1>3, SameLines
<1>7. ASSUME NEW q \in Lines(Begin)
      PROVE  /\ q \in Nat /\ pos < q /\ q < Len(bytes)
             /\ q = Begin \/ (q > Begin /\ bytes[q] = NEWLINE)
    <2>1. q \in Nat /\ (q = Begin \/ (q > Begin /\ bytes[q] = NEWLINE))
        BY <1>2, Places
    <2>2. q + Len(key) + 1 <= Len(bytes)
        BY <1>2, Places
    <2> QED BY <1>4, <2>1, <2>2
<1>8. CASE c = NEWLINE
    <2>1. pos' = pos + 1 /\ bytes[pos + 1] = NEWLINE /\ pc' = "key" /\ keyInc' = 0
        BY <1>1, <1>3, <1>8 DEF EOF, NEWLINE
    <2>2. LineAt' = pos + 1
        BY <1>4, <2>1 DEF LineAt
    <2>3. LineStarts(Begin, LineAt)' /\ Begin' <= LineAt'
        BY <1>3, <1>4, <1>6, <2>1, <2>2 DEF LineStarts
    <2>4. \A q \in Lines(Begin)' : LineAt' <= q
        BY <1>4, <1>6, <1>7, <2>2
    <2>5. Searched'
        BY <1>1, <1>4, <2>1, <2>3, <2>4 DEF Searched
    <2> QED BY <1>5, <2>1, <2>5 DEF IInv, FirstValue
<1>9. CASE c = EOF
    <2>1. pos' = pos /\ pos = Len(bytes) /\ pc' = "key" /\ keyInc' = 0
        BY <1>1, <1>3, <1>9
    <2>2. LineAt' = Len(bytes') /\ LineAt' = pos
        BY <1>3, <1>4, <2>1 DEF LineAt
    <2>3. Lines(Begin)' = {}
        BY <1>4, <1>6, <1>7, <2>1
    <2>4. Begin' <= LineAt'
        BY <1>4, <1>6, <2>2
    <2>5. Searched'
        BY <1>1, <1>4, <2>1, <2>2, <2>3, <2>4 DEF Searched
    <2> QED BY <1>5, <2>1, <2>5 DEF IInv, FirstValue
<1>10. CASE c \notin {EOF, NEWLINE}
    <2>1. pos' = pos + 1 /\ bytes[pos + 1] # NEWLINE /\ pc' = "skip"
        BY <1>1, <1>3, <1>10
    <2>2. \A q \in Lines(Begin) : pos + 1 < q
        BY <1>4, <1>7, <2>1
    <2>3. Searched'
        BY <1>1, <1>4, <1>6, <2>1, <2>2 DEF Searched
    <2> QED BY <1>5, <2>1, <2>3 DEF IInv, FirstValue
<1> QED BY <1>8, <1>9, <1>10

LEMMA SavePositionKeeps == ASSUME IInv, SavePosition PROVE IInv'
<1>1. /\ pc = "found" /\ pc' = "value"
      /\ UNCHANGED <<key, strLen, from, keyInc, str, found, values>>
      /\ IF seekPos = NULL THEN UNCHANGED <<bytes, size, pos, ret, seekPos>>
         ELSE File!Seek("current", 0) /\ seekPos' = ret'.value
    BY DEF SavePosition, params, locals, file
<1>2. Typed /\ Searched /\ key # <<>>
    BY <1>1 DEF IInv, Typed
<1>3. pos \in Nat /\ pos <= Len(bytes) /\ Len(bytes) \in Nat /\ size \in Nat /\ Len(bytes) <= size
    BY <1>2, Places DEF Typed
<1>4. /\ bytes' = bytes /\ size' = size /\ pos' = pos
      /\ IF seekPos = NULL THEN seekPos' = NULL ELSE seekPos' = pos
    <2>1. CASE seekPos = NULL
        BY <1>1, <2>1
    <2>2. CASE seekPos # NULL
        <3>1. pos + 0 \in 0 .. size
            BY <1>3
        <3>2. pos' = pos + 0 /\ ret'.value = pos' /\ bytes' = bytes /\ size' = size
            BY <1>1, <2>2, <3>1 DEF File!Seek, File!From
        <3> QED BY <1>1, <1>3, <2>2, <3>2
    <2> QED BY <2>1, <2>2
<1>5. Typed'
    <2>1. /\ pos' \in 0 .. Len(bytes) /\ seekPos' \in {NULL} \cup 0 .. Len(bytes)
          /\ from = NULL <=> seekPos' = NULL
        BY <1>2, <1>3, <1>4 DEF Typed, TypeOK, NULL
    <2> QED BY <1>1, <1>2, <1>4, <2>1, TypedKept DEF Typed, TypeOK
<1>6. First(pos - Len(Prefix)) /\ str = <<>>
    BY <1>1, <1>2 DEF Searched
<1>7. ValueAt' = pos /\ Len(str') = 0
    BY <1>1, <1>3, <1>4, <1>6 DEF ValueAt
<1>8. First(ValueAt - Len(Prefix))'
    <2>1. Prefix' = Prefix /\ Lines(Begin)' = Lines(Begin)
        BY <1>1, <1>4, SameLines
    <2> QED BY <1>6, <1>7, <2>1 DEF First
<1>9. SubSeq(bytes, pos + 1, pos) = <<>>
    BY <1>3, SubSeqEmpty
<1>10. Searched'
    <2>1. str' = <<>> /\ SubSeq(bytes', ValueAt' + 1, pos') = <<>>
        BY <1>1, <1>4, <1>6, <1>7, <1>9
    <2>2. pc' = "value" /\ 1 .. Len(str') = {}
        BY <1>1, <1>7
    <2> QED BY <1>8, <2>1, <2>2 DEF Searched
<1> QED BY <1>1, <1>5, <1>10 DEF IInv, FirstValue

\* What is stored when the value ends, or the buffer is full, is the value.
LEMMA ValueIs ==
    ASSUME Typed, Searched, pc = "value", key # <<>>,
           \/ pos = Len(bytes)
           \/ pos < Len(bytes) /\ bytes[pos + 1] = NEWLINE
           \/ Len(str) >= strLen - 1
    PROVE  First(ValueAt - Len(Prefix)) /\ Value(ValueAt - Len(Prefix)) = str
<1> DEFINE b == ValueAt
           ends == {q \in b .. Len(bytes) - 1 : bytes[q + 1] = NEWLINE} \cup {Len(bytes)}
<1>1. /\ First(b - Len(Prefix)) /\ str = SubSeq(bytes, b + 1, pos)
      /\ \A j \in 1 .. Len(str) : str[j] # NEWLINE
    BY DEF Searched
<1>2. /\ str \in Seq(Int) /\ strLen \in Nat /\ Len(str) < strLen
    BY DEF Typed, TypeOK
<1>3. /\ Len(str) \in Nat /\ pos \in Nat /\ pos <= Len(bytes) /\ Len(bytes) \in Nat
      /\ b = pos - Len(str) /\ Len(Prefix) \in Nat
    BY <1>2, Places DEF ValueAt
<1>4. b \in Nat /\ (b - Len(Prefix)) + Len(Prefix) = b
    <2>1. b - Len(Prefix) \in Nat
        BY <1>1, Places DEF First
    <2> QED BY <1>3, <2>1
<1> HIDE DEF b
<1>5. \A j \in 1 .. Len(str) : bytes[b + j] # NEWLINE
    <2>1. \A j \in b + 1 .. pos : bytes[j] \in 0 .. 255
        BY <1>3, <1>4, KeyFacts
    <2>2. b + 1 \in Int /\ pos \in Int /\ (b + 1 <= pos => pos - (b + 1) + 1 = Len(str))
        BY <1>3, <1>4
    <2>3. ASSUME b + 1 <= pos
          PROVE  \A j \in 1 .. pos - (b + 1) + 1 :
                     SubSeq(bytes, b + 1, pos)[j] = bytes[(b + 1) + j - 1]
        BY <2>1, <2>2, <2>3, SubSeqProperties
    <2>4. ASSUME NEW j \in 1 .. Len(str) PROVE str[j] = bytes[b + j]
        <3>1. b + 1 <= pos /\ (b + 1) + j - 1 = b + j
            BY <1>3, <1>4
        <3> QED BY <1>1, <2>2, <2>3, <3>1
    <2> QED BY <1>1, <2>4
<1>6. ends \in SUBSET Nat /\ ends # {} /\ \A q \in ends : pos <= q
    <2>1. ASSUME NEW q \in ends PROVE q \in Nat /\ pos <= q
        <3>1. CASE q = Len(bytes)
            BY <1>3, <3>1
        <3>2. CASE q \in b .. Len(bytes) - 1 /\ bytes[q + 1] = NEWLINE
            <4>1. q \in Nat /\ b <= q
                BY <1>3, <1>4, <3>2
            <4>2. ASSUME q < pos PROVE FALSE
                <5>1. q + 1 - b \in 1 .. Len(str) /\ b + (q + 1 - b) = q + 1
                    BY <1>3, <1>4, <4>1, <4>2
                <5> QED BY <1>5, <3>2, <5>1
            <4> QED BY <1>3, <4>1, <4>2
        <3> QED BY <3>1, <3>2
    <2> QED BY <2>1
<1>7. pos \in ends \/ Len(str) = strLen - 1
    <2>1. CASE pos = Len(bytes)
        BY <2>1
    <2>2. CASE pos < Len(bytes) /\ bytes[pos + 1] = NEWLINE
        <3>1. pos \in b .. Len(bytes) - 1
            BY <1>3, <1>4, <2>2
        <3> QED BY <2>2, <3>1
    <2>3. CASE Len(str) >= strLen - 1
        BY <1>2, <1>3, <2>3
    <2> QED BY <2>1, <2>2, <2>3
<1> HIDE DEF ends
<1> DEFINE m == Min(ends)
<1>8. m \in Nat /\ pos <= m /\ (pos \in ends => m = pos)
    <2>1. m \in ends
        BY <1>6, Least
    <2>2. ASSUME pos \in ends PROVE m = pos
        BY <1>6, <2>2, MinIs
    <2> QED BY <1>6, <2>1, <2>2
<1> HIDE DEF m
<1> DEFINE e == b + strLen - 1
<1>9. e \in Int /\ pos <= e /\ (Len(str) = strLen - 1 => e = pos)
    BY <1>2, <1>3, <1>4
<1> HIDE DEF e
<1>10. Min({m, e}) = pos
    <2>1. pos \in {m, e} /\ {m, e} \in SUBSET Int /\ \A q \in {m, e} : pos <= q
        BY <1>7, <1>8, <1>9
    <2> QED BY <2>1, MinIs
<1>11. Value(b - Len(Prefix)) = SubSeq(bytes, b + 1, Min({m, e}))
    BY <1>4 DEF Value, m, e, ends
<1> QED BY <1>1, <1>10, <1>11 DEF b

LEMMA ValueCharKeeps == ASSUME IInv, NEW c, ValueChar(c) PROVE IInv'
<1>1. /\ pc = "value" /\ Fgetc(c) /\ UNCHANGED <<key, strLen, from, seekPos, keyInc, values>>
      /\ \/ /\ c \notin {EOF, NEWLINE} /\ Len(str) < strLen - 1
            /\ str' = Append(str, c) /\ UNCHANGED <<pc, found>>
         \/ /\ c \in {EOF, NEWLINE} \/ Len(str) >= strLen - 1
            /\ pc' = "idle" /\ found' = TRUE /\ str' = str
    BY DEF ValueChar, Return, params, locals
<1>2. Typed /\ Searched /\ key # <<>>
    BY <1>1 DEF IInv, Typed
<1>3. /\ pos \in Nat /\ pos <= Len(bytes) /\ Len(bytes) \in Nat
      /\ keyInc \in 0 .. Len(key)
    BY <1>2, Places DEF Typed, TypeOK
<1>4. /\ str \in Seq(Int) /\ Len(str) \in Nat /\ strLen \in Nat \ {0} /\ Len(str) < strLen
    BY <1>2 DEF Typed, TypeOK
<1>5. /\ bytes' = bytes /\ size' = size
      /\ \/ pos < Len(bytes) /\ pos' = pos + 1 /\ c = bytes[pos + 1] /\ c # EOF
         \/ pos = Len(bytes) /\ pos' = pos /\ c = EOF
    BY <1>1, <1>2, Got
<1>6. /\ Begin' = Begin /\ Prefix' = Prefix /\ Lines(Begin)' = Lines(Begin)
    BY <1>1, <1>5, SameLines
<1>7. ASSUME c \notin {EOF, NEWLINE}, Len(str) < strLen - 1,
             str' = Append(str, c), UNCHANGED <<pc, found>>
      PROVE  IInv'
    <2>1. pos < Len(bytes) /\ pos' = pos + 1 /\ c = bytes[pos + 1]
        BY <1>5, <1>7
    <2>2. c \in Int
        <3>1. pos + 1 \in 1 .. Len(bytes)
            BY <1>3, <2>1
        <3>2. c \in 0 .. 255
            BY <1>2, <2>1, <3>1, KeyFacts
        <3> QED BY ONLY <3>2
    <2>3. str' \in Seq(Int) /\ Len(str') = Len(str) + 1
          /\ \A j \in 1 .. Len(str') : str'[j] = IF j <= Len(str) THEN str[j] ELSE c
        BY <1>4, <1>7, <2>2, AppendProperties
    <2>4. Typed'
        <3>1. pos' \in 0 .. Len(bytes) /\ Len(str') < strLen
            BY <1>3, <1>4, <1>7, <2>1, <2>3
        <3> QED BY <1>1, <1>2, <1>3, <1>5, <1>7, <2>3, <3>1, TypedKept DEF Typed, TypeOK
    <2>5. ValueAt' = ValueAt /\ ValueAt \in Nat
        <3>1. First(ValueAt - Len(Prefix))
            BY <1>1, <1>2 DEF Searched
        <3>2. ValueAt - Len(Prefix) \in Nat /\ Len(Prefix) \in Nat
            BY <1>2, <3>1, Places DEF First
        <3>3. ValueAt = pos - Len(str) /\ ValueAt' = pos' - Len(str')
            BY DEF ValueAt
        <3> QED BY <1>3, <1>4, <2>1, <2>3, <3>2, <3>3
    <2>6. str' = SubSeq(bytes, ValueAt + 1, pos + 1)
        <3>1. ValueAt + 1 <= pos + 1 /\ ValueAt = pos - Len(str)
            BY <1>3, <1>4, <2>5 DEF ValueAt
        <3>2. bytes \in Seq(0 .. 255)
            BY <1>2, KeyFacts
        <3>3. SubSeq(bytes, ValueAt + 1, pos + 1)
                = SubSeq(bytes, ValueAt + 1, pos) \o <<bytes[pos + 1]>>
            <4>1. ValueAt + 1 \in 1 .. Len(bytes) /\ pos + 1 \in ValueAt + 1 .. Len(bytes)
                BY <1>3, <2>1, <2>5, <3>1
            <4>2. (pos + 1) - 1 = pos
                BY <1>3
            <4> QED BY <3>2, <4>1, <4>2, SubSeqRecursiveSecond
        <3>4. str = SubSeq(bytes, ValueAt + 1, pos)
            BY <1>1, <1>2 DEF Searched
        <3>5. Append(str, c) = str \o <<c>>
            BY <1>4, <2>2, AppendIsConcat
        <3> QED BY <1>7, <2>1, <3>3, <3>4, <3>5
    <2>7. \A j \in 1 .. Len(str') : str'[j] # NEWLINE
        <3>1. \A j \in 1 .. Len(str) : str[j] # NEWLINE
            BY <1>1, <1>2 DEF Searched
        <3> QED BY <1>4, <1>7, <2>3, <3>1
    <2>8. First(ValueAt - Len(Prefix))'
        <3>1. First(ValueAt - Len(Prefix))
            BY <1>1, <1>2 DEF Searched
        <3> QED BY <1>6, <2>5, <3>1 DEF First
    <2>9. pc' = "value" /\ str' = SubSeq(bytes', ValueAt' + 1, pos')
        BY <1>1, <1>5, <1>7, <2>1, <2>5, <2>6
    <2>10. Searched'
        BY <2>7, <2>8, <2>9 DEF Searched
    <2> QED BY <2>4, <2>9, <2>10 DEF IInv, FirstValue
<1>8. ASSUME c \in {EOF, NEWLINE} \/ Len(str) >= strLen - 1,
             pc' = "idle", found' = TRUE, str' = str
      PROVE  IInv'
    <2>1. Typed'
        <3>1. pos' \in 0 .. Len(bytes)
            BY <1>3, <1>5
        <3> QED BY <1>1, <1>2, <1>3, <1>4, <1>5, <1>8, <3>1, TypedKept DEF Typed, TypeOK
    <2>2. \/ pos = Len(bytes)
          \/ pos < Len(bytes) /\ bytes[pos + 1] = NEWLINE
          \/ Len(str) >= strLen - 1
        BY <1>5, <1>8
    <2> DEFINE p == ValueAt - Len(Prefix)
    <2>3. First(p) /\ Value(p) = str
        BY <1>1, <1>2, <2>2, ValueIs
    <2> HIDE DEF p
    <2>4. Lines(Begin) # {} /\ Min(Lines(Begin)) = p
        <3>1. Lines(Begin) \in SUBSET Int
            BY <1>2, Places
        <3> QED BY <2>3, <3>1, MinIs DEF First
    <2>5. \A q : Value(q)' = Value(q)
        BY <1>1, <1>5, <1>6 DEF Value
    <2>6. str' = Value(Min(Lines(Begin)))'
        BY <1>6, <1>8, <2>3, <2>4, <2>5
    <2>7. FirstValue'
        BY <1>6, <1>8, <2>4, <2>6 DEF FirstValue, Begin
    <2> QED BY <1>8, <2>1, <2>7 DEF IInv, Searched
<1> QED BY <1>1, <1>7, <1>8

LEMMA CallKeeps ==
    ASSUME IInv, NEW k \in Keys, NEW n \in Nat \ {0}, NEW p \in {NULL} \cup 0 .. Len(bytes),
           Call(k, n, p)
    PROVE  IInv'
<1> DEFINE s == IF p = NULL THEN 0 ELSE p
<1>1. /\ pc' = "key" /\ key' = k /\ strLen' = n /\ from' = p /\ seekPos' = p
      /\ keyInc' = 0 /\ str' = <<>> /\ found' = found /\ File!Seek("begin", s)
    BY DEF Call
<1>2. Typed
    BY DEF IInv
<1>3. /\ bytes \in Seq(0 .. 255) /\ Len(bytes) \in Nat /\ k \in Seq(0 .. 255) /\ k # <<>>
      /\ Len(k) \in Nat
    BY <1>2, ConfigAssumption DEF Typed
<1>4. size \in Nat /\ Len(bytes) <= size
    BY <1>2, <1>3 DEF Typed
<1>5. s \in 0 .. Len(bytes)
    BY <1>3
<1>6. pos' = s /\ bytes' = bytes /\ size' = size
    BY <1>1, <1>4, <1>5 DEF File!Seek, File!From
<1>7. Typed'
    BY <1>1, <1>2, <1>3, <1>5, <1>6 DEF Typed, TypeOK, NULL
<1>8. Begin' = s
    BY <1>1 DEF Begin
<1>9. LineAt' = s
    BY <1>1, <1>5, <1>6 DEF LineAt
<1>10. \A q \in Lines(s)' : s <= q
    BY <1>5 DEF Lines
<1>11. LineStarts(Begin, LineAt)'
    BY <1>8, <1>9 DEF LineStarts
<1>12. Searched'
    <2>1. Begin' <= LineAt' /\ \A q \in Lines(Begin)' : LineAt' <= q
        BY <1>5, <1>8, <1>9, <1>10
    <2>2. 1 .. keyInc' = {}
        BY <1>1
    <2> QED BY <1>1, <1>11, <2>1, <2>2 DEF Searched
<1> QED BY <1>1, <1>7, <1>12 DEF IInv, FirstValue
-----------------------------------------------------------------------------
LEMMA InitEstablishes == Init => IInv
<1> SUFFICES ASSUME Init PROVE IInv
    OBVIOUS
<1>1. /\ bytes \in Contents /\ size \in Len(bytes) .. Len(bytes) + 1 /\ pos = 0
      /\ key = <<>> /\ strLen = 1 /\ from = NULL /\ seekPos = NULL /\ keyInc = 0
      /\ str = <<>> /\ pc = "idle" /\ found = FALSE
    BY DEF Init, File!Init
<1>2. Len(bytes) \in Nat /\ Len(str) = 0 /\ Len(key) = 0 /\ str \in Seq(Int)
    BY <1>1, ConfigAssumption
<1>3. TypeOK
    <2>1. /\ pos \in 0 .. Len(bytes) /\ keyInc \in 0 .. Len(key)
          /\ strLen \in Nat \ {0} /\ Len(str) < strLen
        BY <1>1, <1>2
    <2>2. pc \in {"idle", "key", "skip", "found", "value"} /\ found \in BOOLEAN
        BY <1>1
    <2> QED BY <1>1, <2>1, <2>2 DEF TypeOK
<1>4. Typed
    BY <1>1, <1>2, <1>3 DEF Typed
<1> QED BY <1>1, <1>4 DEF IInv, Searched, FirstValue

LEMMA StutterKeeps == IInv /\ UNCHANGED vars => IInv'
<1> SUFFICES ASSUME IInv, UNCHANGED vars PROVE IInv'
    OBVIOUS
<1>1. /\ UNCHANGED <<bytes, size, pos, key, strLen, from, seekPos, keyInc, str, pc, found>>
    BY DEF vars, file, params, locals
<1>2. Typed'
    BY <1>1 DEF IInv, Typed, TypeOK
<1>3. Searched'
    BY <1>1 DEF IInv, Searched, First, Lines, LineStarts, Prefix, Begin, LineAt, ValueAt
<1>4. FirstValue'
    <2>1. FirstValue' <=> FirstValue
        BY <1>1 DEF FirstValue, Lines, LineStarts, Prefix, Value
    <2> QED BY <2>1 DEF IInv
<1> QED BY <1>2, <1>3, <1>4 DEF IInv

\* Each step of get_cfg_value and of its caller's loop keeps the invariant.
LEMMA NextKeeps == IInv /\ [Next]_vars => IInv'
<1> SUFFICES ASSUME IInv, [Next]_vars PROVE IInv'
    OBVIOUS
<1>1. CASE UNCHANGED vars
    BY <1>1, StutterKeeps
<1>2. ASSUME NEW k \in Keys, NEW n \in Lengths, Get(k, n) \/ GetAll(k, n) PROVE IInv'
    <2>1. n \in Nat \ {0} /\ Len(bytes) \in Nat
        BY ConfigAssumption DEF IInv, Typed
    <2>2. CASE Get(k, n)
        BY <2>1, <2>2, CallKeeps DEF Get
    <2>3. CASE GetAll(k, n)
        <3>1. Call(k, n, 0) /\ 0 \in 0 .. Len(bytes)
            BY <2>1, <2>3 DEF GetAll
        <3> QED BY <2>1, <3>1, CallKeeps
    <2> QED BY <1>2, <2>2, <2>3
<1>3. CASE GetNext
    <2>1. found /\ Call(key, strLen, seekPos)
        BY <1>3 DEF GetNext, Looping
    <2>2. key \in Keys /\ strLen \in Nat \ {0} /\ seekPos \in {NULL} \cup 0 .. Len(bytes)
        BY <2>1 DEF IInv, Typed, TypeOK
    <2> QED BY <2>1, <2>2, CallKeeps
<1>4. CASE Step
    BY <1>4, MatchCharKeeps, KeyFoundKeeps, NoMoreLinesKeeps, NextLineKeeps, MismatchKeeps,
       SkipCharKeeps, ValueCharKeeps, SavePositionKeeps DEF Step
<1> QED BY <1>1, <1>2, <1>3, <1>4 DEF Next
-----------------------------------------------------------------------------
(***************************************************************************)
(* The caller's loop: which lines it is past, and what it has of them.     *)
(***************************************************************************)
Behind(s) == {q \in Lines(0) : q < s}
Ahead(s) == {q \in Lines(0) : s <= q}

\* A value that was found is where *seek_pos is; before the search started the loop
\* has got as many values as there are lines, in their order.
Collected ==
    from # NULL /\ key # <<>> =>
        /\ pc = "value" \/ (pc = "idle" /\ found) => First(seekPos - Len(Prefix))
        /\ Unambiguous =>
              /\ Lines(from) = Ahead(from)
              /\ Len(values) = Cardinality(Behind(from))
              /\ \A k \in 1 .. Len(values) : values[k] = Value(Nth(Lines(0), k))

LoopInv == IInv /\ values \in Seq(Seq(Int)) /\ Collected

\* The element with as many before it as there are before p is p.
LEMMA NthIs ==
    ASSUME NEW L \in SUBSET Nat, IsFiniteSet(L), NEW p \in L
    PROVE  Nth(L, Cardinality({q \in L : q <= p})) = p
<1> DEFINE upTo(r) == {q \in L : q <= r}
<1>1. ASSUME NEW r \in L, NEW t \in L, r < t, Cardinality(upTo(r)) = Cardinality(upTo(t))
      PROVE  FALSE
    <2>1. upTo(r) \in SUBSET upTo(t)
        <3>1. ASSUME NEW q \in upTo(r) PROVE q \in upTo(t)
            BY <1>1, <3>1
        <3> QED BY <3>1
    <2>2. upTo(t) \in SUBSET L
        OBVIOUS
    <2>3. IsFiniteSet(upTo(t))
        BY <2>2, FS_Subset
    <2>4. upTo(r) = upTo(t)
        BY ONLY <1>1, <2>1, <2>3, FS_Subset
    <2>5. t \in upTo(t) /\ t \notin upTo(r)
        BY <1>1
    <2> QED BY <2>4, <2>5
<1>2. ASSUME NEW r \in L, Cardinality(upTo(r)) = Cardinality(upTo(p)) PROVE r = p
    <2>1. r \in Nat /\ p \in Nat
        OBVIOUS
    <2>2. ~(r < p) /\ ~(p < r)
        BY <1>1, <1>2
    <2> QED BY <2>1, <2>2
<1>3. Nth(L, Cardinality(upTo(p))) = p
    BY <1>2 DEF Nth
<1> QED BY <1>3

LEMMA LinesFinite ==
    ASSUME Typed, key # <<>>, NEW s \in Nat
    PROVE  Lines(s) \in SUBSET Nat /\ IsFiniteSet(Lines(s))
<1>1. Len(bytes) \in Nat /\ Len(Prefix) = Len(key) + 1 /\ Len(key) \in Nat
    BY KeyFacts, LineIs
<1>2. Lines(s) \in SUBSET Nat /\ \A q \in Lines(s) : q <= Len(bytes)
    BY <1>1 DEF Lines
<1> QED BY <1>1, <1>2, FS_BoundedSetOfNaturals

\* From the value of a line on, there are the lines behind it: none starts inside it,
\* and its value is not one.
LEMMA NextLines ==
    ASSUME Typed, key # <<>>, NEW p \in Lines(0),
           p + Len(Prefix) \notin Lines(p + Len(Prefix))
    PROVE  /\ p \in Nat /\ Len(Prefix) \in Nat \ {0}
           /\ Lines(p + Len(Prefix)) = Ahead(p + Len(Prefix))
           /\ Behind(p + Len(Prefix)) = {q \in Lines(0) : q <= p}
<1> DEFINE s == p + Len(Prefix)
<1>1. /\ p \in Nat /\ Len(key) \in Nat \ {0} /\ Len(Prefix) = Len(key) + 1
      /\ \A j \in 1 .. Len(key) : key[j] # NEWLINE
    BY LinesFinite, KeyFacts, LineIs
<1>2. s \in Nat /\ s = p + Len(key) + 1
    BY <1>1
<1> HIDE DEF s
<1>3. \A j \in 1 .. Len(key) : bytes[p + j] = key[j]
    BY <1>1, LineIs
<1>4. \A q \in Lines(0) : q \in Nat /\ (q = 0 \/ bytes[q] = NEWLINE)
    <2>1. ASSUME NEW q \in Lines(0) PROVE q \in Nat /\ (q = 0 \/ bytes[q] = NEWLINE)
        <3>1. q \in Nat
            BY LinesFinite
        <3>2. LineStarts(0, q)
            BY <3>1, LineIs
        <3> QED BY <3>1, <3>2 DEF LineStarts
    <2> QED BY <2>1
<1>5. ASSUME NEW q \in Lines(s) PROVE q \in Lines(0) /\ s <= q
    <2>1. q \in Nat /\ q # s
        BY <1>2, LinesFinite DEF s
    <2>2. /\ s <= q /\ q + Len(key) + 1 <= Len(bytes) /\ LineStarts(s, q)
          /\ \A j \in 1 .. Len(key) : bytes[q + j] = key[j]
          /\ bytes[q + Len(key) + 1] = EQUALS
        BY <1>2, <2>1, LineIs
    <2>3. LineStarts(0, q) /\ 0 <= q
        BY <1>2, <2>1, <2>2 DEF LineStarts
    <2> QED BY <2>1, <2>2, <2>3, LineIs
<1>6. ASSUME NEW q \in Lines(0), s <= q PROVE q \in Lines(s)
    <2>1. q \in Nat /\ q # 0 /\ bytes[q] = NEWLINE
        BY <1>1, <1>2, <1>4, <1>6
    <2>2. /\ q + Len(key) + 1 <= Len(bytes)
          /\ \A j \in 1 .. Len(key) : bytes[q + j] = key[j]
          /\ bytes[q + Len(key) + 1] = EQUALS
        BY <2>1, LineIs
    <2>3. LineStarts(s, q)
        BY <1>2, <1>6, <2>1 DEF LineStarts
    <2> QED BY <1>2, <1>6, <2>1, <2>2, <2>3, LineIs
<1>7. ASSUME NEW q \in Lines(0) PROVE q < s <=> q <= p
    <2>1. SUFFICES ASSUME q < s, q > p PROVE FALSE
        BY <1>1, <1>2, <1>4
    <2>2. q \in Nat /\ bytes[q] = NEWLINE
        BY <1>1, <1>4, <2>1
    <2>3. q - p \in 1 .. Len(key) /\ p + (q - p) = q
        BY <1>1, <1>2, <2>1, <2>2
    <2>4. bytes[q] = key[q - p]
        BY <1>3, <2>3
    <2> QED BY <1>1, <2>2, <2>3, <2>4
<1>8. Lines(s) = Ahead(s)
    BY <1>5, <1>6 DEF Ahead
<1>9. Behind(s) = {q \in Lines(0) : q <= p}
    BY <1>7 DEF Behind
<1> QED BY <1>1, <1>8, <1>9 DEF s

\* The steps of one search leave the loop's results alone.
LEMMA SearchCollects ==
    ASSUME LoopInv, IInv', UNCHANGED <<bytes, key, strLen, from, values>>,
           pc' = "value" \/ (pc' = "idle" /\ found') =>
                First(seekPos - Len(Prefix))'
    PROVE  LoopInv'
<1>1. UNCHANGED <<Lines(0), Unambiguous>>
    BY DEF LoopInv, Lines, LineStarts, Prefix, Unambiguous
<1>2. \A s : Lines(s)' = Lines(s) /\ Behind(s)' = Behind(s) /\ Ahead(s)' = Ahead(s)
             /\ Value(s)' = Value(s)
    BY DEF Lines, LineStarts, Prefix, Behind, Ahead, Value
<1>3. \A L, k : Nth(L, k)' = Nth(L, k)
    BY DEF Nth
<1>4. Collected'
    BY <1>1, <1>2, <1>3 DEF LoopInv, Collected
<1> QED BY <1>4 DEF LoopInv

\* The position that is saved is that of the value.
LEMMA StepCollects == ASSUME LoopInv, Step PROVE LoopInv'
<1>1. IInv /\ IInv'
    BY NextKeeps DEF LoopInv, Next
<1>2. ASSUME NEW c, \/ MatchChar(c) \/ KeyFound(c) \/ NextLine(c) \/ Mismatch(c)
                    \/ SkipChar(c)
      PROVE  LoopInv'
    <2>1. /\ UNCHANGED <<bytes, key, strLen, from, values>>
          /\ pc' \in {"key", "found", "skip"}
        BY <1>2 DEF MatchChar, KeyFound, NextLine, Mismatch, SkipChar, Fgetc, File!Read,
                    params, locals
    <2> QED BY <1>1, <2>1, SearchCollects
<1>3. ASSUME NEW c, NoMoreLines(c) PROVE LoopInv'
    <2>1. /\ UNCHANGED <<bytes, key, strLen, from, values>> /\ pc' = "idle" /\ found' = FALSE
        BY <1>3 DEF NoMoreLines, Return, Fgetc, File!Read, params, locals
    <2> QED BY <1>1, <2>1, SearchCollects
<1>4. ASSUME NEW c, ValueChar(c) PROVE LoopInv'
    <2>1. /\ UNCHANGED <<bytes, key, strLen, from, seekPos, values>> /\ pc = "value"
        BY <1>4 DEF ValueChar, Return, Fgetc, File!Read, params, locals
    <2>2. CASE from # NULL /\ key # <<>>
        <3>1. First(seekPos - Len(Prefix))
            BY <2>1, <2>2 DEF LoopInv, Collected
        <3>2. First(seekPos - Len(Prefix))'
            <4>1. Prefix' = Prefix /\ \A p : First(p)' <=> First(p)
                BY <2>1, SameLines
            <4> QED BY <2>1, <3>1, <4>1, SameLines DEF First
        <3> QED BY <1>1, <2>1, <3>2, SearchCollects
    <2>3. CASE ~(from # NULL /\ key # <<>>)
        BY <1>1, <2>1, <2>3 DEF LoopInv, Collected
    <2> QED BY <2>2, <2>3
<1>5. CASE SavePosition
    <2>1. /\ UNCHANGED <<key, strLen, from, values>> /\ pc = "found" /\ pc' = "value"
        BY <1>5 DEF SavePosition, params, locals
    <2>2. Typed /\ key # <<>> /\ First(pos - Len(Prefix))
        BY <1>1, <2>1 DEF IInv, Searched, Typed
    <2>3. pos \in Nat /\ pos <= Len(bytes) /\ Len(bytes) \in Nat /\ size \in Nat /\ Len(bytes) <= size
        BY <2>2, Places DEF Typed
    <2>4. CASE from = NULL
        <3>1. UNCHANGED bytes
            BY <1>5, <2>2, <2>4 DEF SavePosition, Typed, TypeOK, file
        <3> QED BY <1>1, <2>1, <2>4 DEF LoopInv, Collected
    <2>5. CASE from # NULL
        <3>1. File!Seek("current", 0) /\ seekPos' = ret'.value
            BY <1>5, <2>2, <2>5 DEF SavePosition, Typed, TypeOK
        <3>2. bytes' = bytes /\ ret'.value = pos' /\ pos' = pos
            BY <2>3, <3>1 DEF File!Seek, File!From
        <3>3. First(seekPos - Len(Prefix))'
            BY <2>1, <2>2, <3>1, <3>2, SameLines DEF First
        <3> QED BY <1>1, <2>1, <3>2, <3>3, SearchCollects
    <2> QED BY <2>4, <2>5
<1> QED BY <1>2, <1>3, <1>4, <1>5 DEF Step

\* The caller asks for another value: it has one more, and one more line behind it.
LEMMA GetNextCollects == ASSUME LoopInv, GetNext PROVE LoopInv'
<1>1. IInv /\ IInv'
    BY NextKeeps DEF LoopInv, Next
<1>2. /\ pc = "idle" /\ found /\ seekPos # NULL /\ pc' = "key"
      /\ key' = key /\ strLen' = strLen /\ from' = seekPos /\ values' = Append(values, str)
      /\ bytes' = bytes
    BY DEF GetNext, Looping, Call, File!Seek
<1>3. Typed /\ key # <<>> /\ from # NULL /\ str \in Seq(Int) /\ from \in Nat
    BY <1>1, <1>2, KeyFacts DEF IInv, Typed, TypeOK, Begin
<1> DEFINE p == seekPos - Len(Prefix)
<1>4. First(p) /\ Begin = from
    BY <1>2, <1>3 DEF LoopInv, Collected, Begin
<1>5. str = Value(p)
    <2>1. Lines(from) \in SUBSET Int
        BY <1>3, LinesFinite
    <2>2. Min(Lines(from)) = p
        BY <1>4, <2>1, MinIs DEF First
    <2> QED BY <1>1, <1>2, <1>3, <2>2 DEF IInv, FirstValue
<1>6. values' \in Seq(Seq(Int)) /\ Len(values') = Len(values) + 1 /\ Len(values) \in Nat
      /\ \A k \in 1 .. Len(values') : values'[k] = IF k <= Len(values) THEN values[k] ELSE str
    BY <1>2, <1>3, AppendProperties DEF LoopInv
<1>7. ASSUME Unambiguous
      PROVE  /\ Lines(seekPos) = Ahead(seekPos)
             /\ Len(values') = Cardinality(Behind(seekPos))
             /\ \A k \in 1 .. Len(values') : values'[k] = Value(Nth(Lines(0), k))
    <2>1. /\ Lines(from) = Ahead(from)
          /\ Len(values) = Cardinality(Behind(from))
          /\ \A k \in 1 .. Len(values) : values[k] = Value(Nth(Lines(0), k))
        BY <1>3, <1>7 DEF LoopInv, Collected
    <2>2. p \in Lines(0) /\ from <= p /\ p \in Lines(from) /\ \A q \in Lines(from) : p <= q
        BY <1>4, <2>1 DEF First, Ahead
    <2>3. seekPos = p + Len(Prefix)
        <3>1. seekPos \in Int /\ Len(Prefix) \in Int
            BY <1>2, <1>3, Places DEF Typed, TypeOK
        <3> QED BY <3>1
    <2> HIDE DEF p
    <2>4. /\ Lines(seekPos) = Ahead(seekPos)
          /\ Behind(seekPos) = {q \in Lines(0) : q <= p}
        BY <1>3, <1>7, <2>2, <2>3, NextLines DEF Unambiguous
    <2>5. Lines(0) \in SUBSET Nat /\ IsFiniteSet(Lines(0))
        BY <1>3, LinesFinite
    <2>6. {q \in Lines(0) : q <= p} = Behind(from) \cup {p} /\ p \notin Behind(from)
        <3>1. ASSUME NEW q \in Lines(0) PROVE q <= p <=> q < from \/ q = p
            <4>1. q \in Nat /\ p \in Nat
                BY <2>2, <2>5
            <4>2. from <= q => p <= q
                BY <2>1, <2>2 DEF Ahead
            <4> QED BY <1>3, <2>2, <4>1, <4>2
        <3>2. p \in Nat
            BY <2>2, <2>5
        <3>3. \A q : q \in {x \in Lines(0) : x <= p} <=> q \in Behind(from) \/ q = p
            BY <2>2, <3>1, <3>2 DEF Behind
        <3>4. ~(p < from)
            BY <1>3, <2>2, <3>2
        <3> QED BY <3>3, <3>4 DEF Behind
    <2>7. IsFiniteSet(Behind(from))
        <3>1. Behind(from) \in SUBSET Lines(0)
            BY DEF Behind
        <3> QED BY <2>5, <3>1, FS_Subset
    <2>8. Cardinality(Behind(seekPos)) = Len(values) + 1
        <3>1. Cardinality(Behind(from) \cup {p}) = Cardinality(Behind(from)) + 1
            BY ONLY <2>6, <2>7, FS_AddElement
        <3> QED BY <2>1, <2>4, <2>6, <3>1
    <2>9. Nth(Lines(0), Len(values) + 1) = p
        BY <2>2, <2>4, <2>5, <2>8, NthIs
    <2>10. ASSUME NEW k \in 1 .. Len(values') PROVE values'[k] = Value(Nth(Lines(0), k))
        <3>1. CASE k <= Len(values)
            <4>1. k \in 1 .. Len(values)
                BY <1>6, <3>1
            <4> QED BY <1>6, <2>1, <3>1, <4>1
        <3>2. CASE ~(k <= Len(values))
            <4>1. k = Len(values) + 1
                BY <1>6, <3>2
            <4> QED BY <1>5, <1>6, <2>9, <3>2, <4>1 DEF p
        <3> QED BY <3>1, <3>2
    <2> QED BY <1>6, <2>4, <2>8, <2>10
<1>8. /\ Unambiguous' = Unambiguous
      /\ \A s : Lines(s)' = Lines(s) /\ Behind(s)' = Behind(s) /\ Ahead(s)' = Ahead(s)
                /\ Value(s)' = Value(s)
    BY <1>2 DEF Unambiguous, Lines, LineStarts, Prefix, Behind, Ahead, Value
<1>9. Collected'
    BY <1>2, <1>7, <1>8 DEF Collected, Nth
<1> QED BY <1>1, <1>6, <1>9 DEF LoopInv

\* A loop that begins has nothing yet, and all lines before it.
LEMMA GetAllCollects ==
    ASSUME LoopInv, NEW k \in Keys, NEW n \in Lengths, GetAll(k, n) PROVE LoopInv'
<1>1. IInv /\ IInv'
    BY NextKeeps DEF LoopInv, Next
<1>2. from' = 0 /\ pc' = "key" /\ values' = <<>> /\ key' = k
    BY DEF GetAll, Call
<1>3. k # <<>>
    BY ConfigAssumption
<1>4. Lines(0)' \in SUBSET Nat
    <2>1. Len(bytes)' \in Nat
        BY <1>1, ConfigAssumption DEF IInv, Typed
    <2> QED BY <2>1 DEF Lines
<1>5. Ahead(0)' = Lines(0)' /\ Behind(0)' = {}
    BY <1>4 DEF Ahead, Behind
<1>6. values' \in Seq(Seq(Int)) /\ Len(values') = 0
    BY <1>2
<1>7. Cardinality({}) = 0
    BY FS_EmptySet
<1>8. Collected'
    BY <1>2, <1>5, <1>6, <1>7 DEF Collected
<1> QED BY <1>1, <1>6, <1>8 DEF LoopInv

LEMMA LoopNext == LoopInv /\ [Next]_vars => LoopInv'
<1> SUFFICES ASSUME LoopInv, [Next]_vars PROVE LoopInv'
    OBVIOUS
<1>1. CASE UNCHANGED vars
    <2>1. /\ IInv' /\ UNCHANGED <<bytes, key, strLen, from, seekPos, pc, found, values>>
        BY <1>1, StutterKeeps DEF LoopInv, vars, file, params, locals
    <2>2. Collected' <=> Collected
        BY <2>1 DEF Collected, Unambiguous, Lines, LineStarts, Prefix, Behind, Ahead, Value, Nth,
                    First, Begin
    <2> QED BY <2>1, <2>2 DEF LoopInv
<1>2. ASSUME NEW k \in Keys, NEW n \in Lengths, Get(k, n) PROVE LoopInv'
    <2>1. from' = NULL /\ values' = <<>>
        BY <1>2 DEF Get, Call
    <2>2. IInv'
        BY <1>2, NextKeeps DEF LoopInv, Next
    <2> QED BY <2>1, <2>2 DEF LoopInv, Collected
<1>3. ASSUME NEW k \in Keys, NEW n \in Lengths, GetAll(k, n) PROVE LoopInv'
    BY <1>3, GetAllCollects
<1>4. CASE GetNext
    BY <1>4, GetNextCollects
<1>5. CASE Step
    BY <1>5, StepCollects
<1> QED BY <1>1, <1>2, <1>3, <1>4, <1>5 DEF Next

LEMMA LoopAnswers == LoopInv => AllValues
<1> SUFFICES ASSUME LoopInv, pc = "idle", key # <<>>, seekPos # NULL, Unambiguous
             PROVE  /\ \A k \in DOMAIN values : values[k] = Value(Nth(Lines(0), k))
                    /\ Len(values) = Cardinality(Lines(0))
                            - (IF found THEN Cardinality(Lines(seekPos)) + 1 ELSE 0)
    BY DEF AllValues
<1>1. Typed /\ FirstValue /\ from # NULL /\ from \in Nat /\ seekPos \in Nat /\ values \in Seq(Seq(Int))
    BY KeyFacts DEF LoopInv, IInv, Typed, TypeOK, Begin
<1>2. /\ Lines(from) = Ahead(from)
      /\ Len(values) = Cardinality(Behind(from))
      /\ \A k \in 1 .. Len(values) : values[k] = Value(Nth(Lines(0), k))
      /\ found => First(seekPos - Len(Prefix))
    BY <1>1 DEF LoopInv, Collected
<1>3. Lines(0) \in SUBSET Nat /\ IsFiniteSet(Lines(0)) /\ Cardinality(Lines(0)) \in Nat
    BY <1>1, LinesFinite, FS_CardinalityType
<1>4. DOMAIN values = 1 .. Len(values) /\ Len(values) \in Nat
    BY <1>1
<1>5. CASE ~found
    <2>1. Lines(from) = {}
        BY <1>1, <1>5 DEF FirstValue
    <2>2. Behind(from) = Lines(0)
        BY <1>1, <1>2, <1>3, <2>1 DEF Behind, Ahead
    <2> QED BY <1>2, <1>3, <1>4, <1>5, <2>2
<1>6. CASE found
    <2> DEFINE p == seekPos - Len(Prefix)
    <2>1. p \in Lines(0) /\ from <= p /\ \A q \in Lines(from) : p <= q
        BY <1>1, <1>2, <1>6 DEF First, Ahead, Begin
    <2>2. seekPos = p + Len(Prefix)
        <3>1. Len(Prefix) \in Int
            BY <1>1, Places
        <3> QED BY <1>1, <3>1
    <2> HIDE DEF p
    <2>3. /\ Lines(seekPos) = Ahead(seekPos)
          /\ Behind(seekPos) = {q \in Lines(0) : q <= p}
        BY <1>1, <2>1, <2>2, NextLines DEF Unambiguous
    <2>4. Behind(seekPos) = Behind(from) \cup {p} /\ p \notin Behind(from)
        <3>1. ASSUME NEW q \in Lines(0) PROVE q <= p <=> q < from \/ q = p
            <4>1. q \in Nat /\ p \in Nat
                BY <1>3, <2>1
            <4>2. from <= q => p <= q
                BY <1>2, <2>1 DEF Ahead
            <4> QED BY <1>1, <2>1, <4>1, <4>2
        <3>2. p \in Nat
            BY <1>3, <2>1
        <3>3. \A q : q \in {x \in Lines(0) : x <= p} <=> q \in Behind(from) \/ q = p
            BY <2>1, <3>1, <3>2 DEF Behind
        <3>4. ~(p < from)
            BY <1>1, <2>1, <3>2
        <3> QED BY <2>3, <3>3, <3>4 DEF Behind
    <2>5. /\ IsFiniteSet(Behind(from)) /\ IsFiniteSet(Behind(seekPos))
          /\ IsFiniteSet(Ahead(seekPos))
        <3>1. /\ Behind(from) \in SUBSET Lines(0) /\ Behind(seekPos) \in SUBSET Lines(0)
              /\ Ahead(seekPos) \in SUBSET Lines(0)
            BY DEF Behind, Ahead
        <3> QED BY <1>3, <3>1, FS_Subset
    <2>6. Cardinality(Behind(seekPos)) = Len(values) + 1
        <3>1. Cardinality(Behind(from) \cup {p}) = Cardinality(Behind(from)) + 1
            BY ONLY <2>4, <2>5, FS_AddElement
        <3> QED BY <1>2, <2>4, <3>1
    <2>7. Cardinality(Lines(0)) = Cardinality(Behind(seekPos)) + Cardinality(Ahead(seekPos))
        <3>1. /\ Lines(0) = Behind(seekPos) \cup Ahead(seekPos)
              /\ Behind(seekPos) \cap Ahead(seekPos) = {}
            BY <1>1, <1>3 DEF Behind, Ahead
        <3>2. /\ Cardinality({}) = 0
              /\ Cardinality(Behind(seekPos)) \in Nat /\ Cardinality(Ahead(seekPos)) \in Nat
            BY <2>5, FS_EmptySet, FS_CardinalityType
        <3>3. Cardinality(Behind(seekPos) \cup Ahead(seekPos))
                = Cardinality(Behind(seekPos)) + Cardinality(Ahead(seekPos))
                    - Cardinality(Behind(seekPos) \cap Ahead(seekPos))
            BY ONLY <2>5, FS_Union
        <3>4. Cardinality(Behind(seekPos) \cap Ahead(seekPos)) = 0
            BY <3>1, <3>2
        <3>5. Cardinality(Lines(0)) = Cardinality(Behind(seekPos) \cup Ahead(seekPos))
            BY <3>1, Zenon
        <3> QED BY ONLY <3>2, <3>3, <3>4, <3>5
    <2>8. Cardinality(Ahead(seekPos)) \in Nat
        BY <2>5, FS_CardinalityType
    <2> QED BY <1>2, <1>4, <1>6, <2>3, <2>6, <2>7, <2>8
<1> QED BY <1>5, <1>6
-----------------------------------------------------------------------------
\* The invariant: while get_cfg_value looks for a key, no line with it was passed,
\* and what it has stored is what stands behind the first such line's equals sign.
THEOREM ConfigInvariant == Spec => []IInv
<1>1. Init => IInv
    BY InitEstablishes
<1>2. IInv /\ [Next]_vars => IInv'
    BY NextKeeps
<1> QED BY <1>1, <1>2, PTL DEF Spec

\* get_cfg_value stays in the file, the key and the caller's buffer.
THEOREM ConfigTypeCorrect == Spec => []TypeOK
<1>1. IInv => TypeOK
    BY DEF IInv, Typed
<1> QED BY <1>1, ConfigInvariant, PTL

\* For every file, key and buffer, get_cfg_value returns what the first line with the
\* key has behind the equals sign, or false when there is no such line.
THEOREM FirstValueReturned == Spec => []FirstValue
<1>1. IInv => FirstValue
    BY DEF IInv
<1> QED BY <1>1, ConfigInvariant, PTL

\* boot()'s loop gets the values of all lines with the key, in their order, and no
\* more, for every file, key and buffer, unless a value looks like such a line.
THEOREM AllValuesCollected == Spec => []AllValues
<1>1. Init => LoopInv
    BY InitEstablishes DEF LoopInv, Collected, Init
<1>2. LoopInv /\ [Next]_vars => LoopInv'
    BY LoopNext
<1>3. LoopInv => AllValues
    BY LoopAnswers
<1> QED BY <1>1, <1>2, <1>3, PTL DEF Spec

-----------------------------------------------------------------------------
(***************************************************************************)
(* That a search and the loop over the values end, as far as it can be     *)
(* said without fairness: by numbers that their steps lower.               *)
(***************************************************************************)
\* Two steps for each character ahead, and those that consume none: one at the end of
\* a line that is skipped to the file's end, one to save the position, and the last.
StepsLeft ==
    CASE pc \in {"skip", "found"} -> 2 * (Len(bytes) - pos) + 2
      [] pc \in {"key", "value"}  -> 2 * (Len(bytes) - pos) + 1
      [] OTHER                    -> 0

\* The characters ahead of where the search began.
CharactersAhead == Len(bytes) - Begin

LEMMA StepsLeftType == IInv => StepsLeft \in Nat /\ CharactersAhead \in Nat
<1> SUFFICES ASSUME IInv PROVE StepsLeft \in Nat /\ CharactersAhead \in Nat
    OBVIOUS
<1>1. pos \in 0 .. Len(bytes) /\ bytes \in Contents /\ from \in {NULL} \cup 0 .. Len(bytes)
    BY DEF IInv, Typed, TypeOK
<1>2. Len(bytes) \in Nat
    BY <1>1, ConfigAssumption, LenProperties
<1>3. Begin \in 0 .. Len(bytes)
    BY <1>1, <1>2 DEF Begin
<1> QED BY <1>1, <1>2, <1>3 DEF StepsLeft, CharactersAhead

LEMMA StepsLower ==
    IInv /\ Step => StepsLeft' < StepsLeft /\ CharactersAhead' = CharactersAhead
<1> SUFFICES ASSUME IInv, Step
             PROVE  StepsLeft' < StepsLeft /\ CharactersAhead' = CharactersAhead
    OBVIOUS
<1>1. from' = from /\ pc # "idle"
    BY DEF Step, MatchChar, KeyFound, NoMoreLines, NextLine, Mismatch, SkipChar, ValueChar,
           SavePosition, params, Return
<1>2. Typed /\ key # <<>> /\ pos \in Nat /\ Len(bytes) \in Nat /\ pos <= Len(bytes)
    BY <1>1, Places DEF IInv, Typed
<1>3. CASE SavePosition
    <2>1. pc = "found" /\ pc' = "value"
        BY <1>3 DEF SavePosition
    <2>2. bytes' = bytes /\ pos' = pos
        <3>1. CASE seekPos = NULL
            BY <1>3, <3>1 DEF SavePosition, file
        <3>2. CASE seekPos # NULL
            <4>1. pos + 0 \in 0 .. size
                BY <1>2 DEF Typed
            <4> QED BY <1>2, <1>3, <3>2, <4>1 DEF SavePosition, File!Seek, File!From
        <3> QED BY <3>1, <3>2
    <2> QED BY <1>1, <1>2, <2>1, <2>2 DEF StepsLeft, CharactersAhead, Begin
<1>4. ASSUME NEW c \in Chars,
             \/ MatchChar(c) \/ KeyFound(c) \/ NoMoreLines(c)
             \/ NextLine(c) \/ Mismatch(c) \/ SkipChar(c) \/ ValueChar(c)
      PROVE  StepsLeft' < StepsLeft /\ CharactersAhead' = CharactersAhead
    <2>1. Fgetc(c)
        BY <1>4 DEF MatchChar, KeyFound, NoMoreLines, NextLine, Mismatch, SkipChar, ValueChar
    <2>2. /\ bytes' = bytes
          /\ \/ pos < Len(bytes) /\ pos' = pos + 1 /\ c # EOF
             \/ pos = Len(bytes) /\ pos' = pos /\ c = EOF
        BY <1>2, <2>1, Got
    <2>3. CharactersAhead' = CharactersAhead
        BY <1>1, <2>2 DEF CharactersAhead, Begin
    <2>4. pc \in {"key", "skip", "value"} /\ pc' \in {"key", "skip", "value", "found", "idle"}
        BY <1>4 DEF MatchChar, KeyFound, NoMoreLines, NextLine, Mismatch, SkipChar, ValueChar,
                    Return
    <2>0. PICK len \in Nat : len = Len(bytes) /\ len = Len(bytes')
        BY <1>2, <2>2
    <2>5. CASE c # EOF
        <3>1. pos' = pos + 1 /\ pos' <= len
            BY <1>2, <2>0, <2>2, <2>5
        <3>2. StepsLeft' <= 2 * (len - (pos + 1)) + 2
            BY <1>2, <2>0, <2>4, <3>1 DEF StepsLeft
        <3>3. StepsLeft >= 2 * (len - pos) + 1
            BY <1>2, <2>0, <2>4 DEF StepsLeft
        <3>4. StepsLeft' \in Int /\ StepsLeft \in Int /\ len \in Int /\ pos \in Int
            BY <1>2, <2>0, <3>1 DEF StepsLeft
        <3>5. \A k, m, s, t \in Int : s <= 2 * (k - (m + 1)) + 2 /\ t >= 2 * (k - m) + 1 => s < t
            OBVIOUS
        <3> QED BY ONLY <2>3, <3>2, <3>3, <3>4, <3>5
    <2>6. CASE c = EOF
        <3>1. pos = len /\ pos' = len
            BY <2>0, <2>2, <2>6
        <3>2. (pc = "skip" /\ pc' = "key") \/ pc' = "idle"
            <4>1. pc = "key" => pc' = "idle"
                <5>1. ASSUME pc = "key", MatchChar(c) PROVE FALSE
                    <6>1. keyInc < Len(key) /\ c = key[keyInc + 1]
                        BY <5>1 DEF MatchChar
                    <6>2. keyInc + 1 \in 1 .. Len(key)
                        BY <1>2, <6>1, Places
                    <6>3. c \in 0 .. 255
                        BY <1>2, <6>1, <6>2, KeyFacts
                    <6> QED BY <2>6, <6>3 DEF EOF
                <5> QED BY <1>4, <2>6, <5>1
                        DEF KeyFound, NoMoreLines, NextLine, Mismatch, SkipChar, ValueChar,
                            Return, EOF, EQUALS, NEWLINE
            <4> QED BY <1>4, <2>4, <2>6, <4>1
                    DEF MatchChar, KeyFound, NoMoreLines, NextLine, Mismatch, SkipChar,
                        ValueChar, Return
        <3>3. StepsLeft = (IF pc = "skip" THEN 2 ELSE 1) /\ StepsLeft' = (IF pc' = "key" THEN 1 ELSE 0)
            <4>1. Len(bytes) - pos = 0 /\ Len(bytes') - pos' = 0
                BY <2>0, <3>1
            <4> QED BY <2>4, <3>2, <4>1 DEF StepsLeft
        <3> QED BY ONLY <2>3, <2>4, <3>2, <3>3
    <2> QED BY <2>3, <2>5, <2>6
<1> QED BY <1>3, <1>4 DEF Step

\* The next search begins behind the line that was found.
LEMMA BeginsLater == LoopInv /\ GetNext => CharactersAhead' < CharactersAhead
<1> SUFFICES ASSUME LoopInv, GetNext PROVE CharactersAhead' < CharactersAhead
    OBVIOUS
<1>1. /\ pc = "idle" /\ found /\ seekPos # NULL /\ from' = seekPos
      /\ bytes' = bytes /\ Typed
    BY DEF GetNext, Looping, Call, LoopInv, IInv, File!Seek
<1>2. key # <<>> /\ from # NULL
    BY <1>1 DEF Typed, TypeOK
<1>3. First(seekPos - Len(Prefix))
    BY <1>1, <1>2 DEF LoopInv, Collected
<1>4. /\ Begin <= seekPos - Len(Prefix) /\ Len(Prefix) = Len(key) + 1
      /\ Len(key) \in Nat /\ Begin \in Nat /\ Len(bytes) \in Nat
    BY <1>1, <1>2, <1>3, Places DEF First
<1>5. seekPos \in Nat /\ Begin' = seekPos
    BY <1>1, <1>4 DEF Typed, TypeOK, Begin
<1> QED BY <1>1, <1>4, <1>5 DEF CharactersAhead

\* get_cfg_value ends, and so does the loop that calls it: every step of a search lowers
\* a natural number, and every search after the first begins nearer to the file's end.
THEOREM SearchesGetShorter ==
    Spec => /\ [](StepsLeft \in Nat /\ CharactersAhead \in Nat)
            /\ [][Step => StepsLeft' < StepsLeft /\ CharactersAhead' = CharactersAhead]_vars
            /\ [][GetNext => CharactersAhead' < CharactersAhead]_vars
<1>1. Init => LoopInv
    BY InitEstablishes DEF LoopInv, Collected, Init
<1>2. LoopInv /\ [Next]_vars => LoopInv'
    BY LoopNext
<1>3. LoopInv => IInv
    BY DEF LoopInv
<1>4. IInv /\ [Next]_vars => [Step => StepsLeft' < StepsLeft /\ CharactersAhead' = CharactersAhead]_vars
    BY StepsLower
<1>5. LoopInv /\ [Next]_vars => [GetNext => CharactersAhead' < CharactersAhead]_vars
    BY BeginsLater
<1> QED BY <1>1, <1>2, <1>3, <1>4, <1>5, StepsLeftType, PTL DEF Spec
=============================================================================
