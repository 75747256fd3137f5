---------------------------- MODULE FatDirProofs ----------------------------
(***************************************************************************)
(* That fat_open_file finds what a path names and nothing else, for every  *)
(* volume, path and size of names and clusters.                            *)
(***************************************************************************)
EXTENDS FatDir, TLAPS, FiniteSetTheorems, SequenceTheorems

\* Multiplication keeps the order.
LEMMA Times ==
    ASSUME NEW a \in Nat, NEW b \in Nat, NEW d \in Nat
    PROVE  (a <= b => a * d <= b * d) /\ (a < b => a * d + d <= b * d)
    BY SMT

\* Quotients and remainders are unique.
LEMMA DivUnique ==
    ASSUME NEW m \in Nat, NEW d \in Nat \ {0}, NEW r \in 0 .. d - 1
    PROVE  (m * d + r) \div d = m /\ (m * d + r) % d = r
    BY SMT

\* A set of numbers that is not empty has a least one.
LEMMA Least ==
    ASSUME NEW S \in SUBSET Nat, S # {}
    PROVE  \E m \in S : \A k \in S : m <= k
<1> DEFINE R == OpToRel(<, Nat)
<1>1. IsWellFoundedOn(R, Nat)
    BY NatLessThanWellFounded
<1>2. \A m, k \in Nat : k < m => <<k, m>> \in R
    BY DEF OpToRel
<1> HIDE DEF R
<1>3. PICK m \in S : \A k \in S : ~ (<<k, m>> \in R)
    BY <1>1, WFMin
<1>4. ASSUME NEW k \in S PROVE m <= k
    <2>1. m \in Nat /\ k \in Nat /\ ~(k < m)
        BY <1>2, <1>3
    <2> QED BY <2>1
<1> QED BY <1>4

\* Of a list of numbers that is not empty, the greatest is its maximum.
LEMMA MaxOf ==
    ASSUME NEW n \in Nat, NEW S \in SUBSET (0 .. n), S # {}
    PROVE  Max(S) \in S /\ \A k \in S : k <= Max(S)
<1> DEFINE B == {m \in Nat : \A k \in S : k <= m}
<1>1. n \in B /\ B \in SUBSET Nat
    OBVIOUS
<1>2. PICK m \in B : \A k \in B : m <= k
    BY <1>1, Least
<1>3. m \in S
    <2>1. SUFFICES ASSUME m \notin S PROVE FALSE
        OBVIOUS
    <2>2. m \in Nat /\ \A k \in S : k \in Nat /\ k <= m /\ k # m
        BY <1>2, <2>1
    <2>3. m - 1 \in Nat /\ \A k \in S : k <= m - 1
        <3>1. PICK k \in S : TRUE
            OBVIOUS
        <3> QED BY <2>2, <3>1
    <2>4. m - 1 \in B
        BY <2>3
    <2>5. m <= m - 1
        BY <1>2, <2>4
    <2> QED BY <2>2, <2>5
<1>4. \E x \in S : \A y \in S : x >= y
    BY <1>2, <1>3
<1> QED BY <1>4 DEF Max
-----------------------------------------------------------------------------
(***************************************************************************)
(* split_file_name: where a part of the path is.                           *)
(***************************************************************************)
\* Sequences have their usual domain.
LEMMA SeqDomain ==
    ASSUME NEW s, IsSeq(s)
    PROVE  Len(s) \in Nat /\ DOMAIN s = 1 .. Len(s)
BY LenProperties DEF IsSeq

\* Paths are sequences of characters that are neither the terminator nor the mark of
\* a free entry.
LEMMA PathFacts ==
    ASSUME NEW p \in Paths
    PROVE  /\ Len(p) \in Nat /\ DOMAIN p = 1 .. Len(p)
           /\ \A k \in 1 .. Len(p) : p[k] # NUL /\ p[k] # FREE
<1>1. IsSeq(p) /\ \A k \in DOMAIN p : p[k] \notin {NUL, FREE}
    BY DirectoriesAssumption
<1>2. Len(p) \in Nat /\ DOMAIN p = 1 .. Len(p)
    BY <1>1, SeqDomain
<1> QED BY <1>1, <1>2

\* The characters that the code compares with are different.
LEMMA Characters == /\ NUL # "/" /\ NUL # FREE /\ NUL # "." /\ NUL # SPACE
                    /\ FREE # SPACE /\ FREE # "." /\ FREE # "/"
                    /\ SPACE # "." /\ SPACE # "/"
    BY Zenon DEF NUL, FREE, SPACE

\* The first place from o on that is not a slash.
LEMMA PastSlashesFact ==
    ASSUME NEW p \in Paths, NEW o \in 1 .. Len(p) + 1
    PROVE  /\ PastSlashes(p, o) \in o .. Len(p) + 1
           /\ PastSlashes(p, o) <= Len(p) => p[PastSlashes(p, o)] # "/"
           /\ \A r \in o .. PastSlashes(p, o) - 1 : p[r] = "/"
<1> DEFINE S == {q \in o .. Len(p) + 1 : At(p, q) # "/"}
<1>1. Len(p) \in Nat /\ o \in Nat
    BY PathFacts
<1>2. At(p, Len(p) + 1) # "/"
    <2>1. At(p, Len(p) + 1) = NUL
        BY <1>1 DEF At
    <2> QED BY <2>1, Characters
<1>3. S \in SUBSET Nat /\ S # {}
    BY <1>1, <1>2
<1>4. PICK m \in S : \A k \in S : m <= k
    BY <1>3, Least
<1>5. \A r \in o .. m - 1 : At(p, r) = "/"
    BY <1>1, <1>4
<1>6. \E q \in o .. Len(p) + 1 : At(p, q) # "/" /\ \A r \in o .. q - 1 : At(p, r) = "/"
    BY <1>4, <1>5
<1> DEFINE q == PastSlashes(p, o)
<1>7. q \in o .. Len(p) + 1 /\ At(p, q) # "/" /\ \A r \in o .. q - 1 : At(p, r) = "/"
    BY <1>6 DEF PastSlashes
<1>8. q <= Len(p) => p[q] # "/"
    BY <1>7 DEF At
<1>9. ASSUME NEW r \in o .. q - 1 PROVE p[r] = "/"
    <2>1. r <= Len(p) /\ At(p, r) = "/"
        BY <1>1, <1>7
    <2> QED BY <2>1 DEF At
<1> HIDE DEF q
<1> QED BY <1>7, <1>8, <1>9 DEF q

\* The first place from o on that ends a part.
LEMMA EndOfPartFact ==
    ASSUME NEW p \in Paths, NEW o \in 1 .. Len(p) + 1
    PROVE  /\ EndOfPart(p, o) \in o .. Len(p) + 1
           /\ EndOfPart(p, o) <= Len(p) => p[EndOfPart(p, o)] = "/"
           /\ \A r \in o .. EndOfPart(p, o) - 1 : p[r] # "/"
<1> DEFINE S == {q \in o .. Len(p) + 1 : At(p, q) \in {"/", NUL}}
<1>1. Len(p) \in Nat /\ o \in Nat
    BY PathFacts
<1>0. \A k \in 1 .. Len(p) : p[k] # NUL
    BY PathFacts
<1>2. At(p, Len(p) + 1) = NUL
    BY <1>1 DEF At
<1>3. S \in SUBSET Nat /\ S # {}
    BY <1>1, <1>2
<1>4. PICK m \in S : \A k \in S : m <= k
    BY <1>3, Least
<1>5. \A r \in o .. m - 1 : At(p, r) \notin {"/", NUL}
    BY <1>1, <1>4
<1>6. \E q \in o .. Len(p) + 1 :
        At(p, q) \in {"/", NUL} /\ \A r \in o .. q - 1 : At(p, r) \notin {"/", NUL}
    BY <1>4, <1>5
<1> DEFINE q == EndOfPart(p, o)
<1>7. /\ q \in o .. Len(p) + 1 /\ At(p, q) \in {"/", NUL}
      /\ \A r \in o .. q - 1 : At(p, r) \notin {"/", NUL}
    BY <1>6 DEF EndOfPart
<1>8. ASSUME q <= Len(p) PROVE p[q] = "/"
    BY <1>0, <1>1, <1>7, <1>8 DEF At
<1>9. ASSUME NEW r \in o .. q - 1 PROVE p[r] # "/"
    <2>1. r <= Len(p) /\ At(p, r) # "/"
        BY <1>1, <1>7
    <2> QED BY <2>1 DEF At
<1> HIDE DEF q
<1> QED BY <1>7, <1>8, <1>9 DEF q

\* The starts of the parts before a place.
Before(p, o) == {t \in Starts(p) : t < o}

\* The place behind n parts: the start of the next one, or the end of the path.
AfterParts(p, n, o) ==
    /\ o \in 1 .. Len(p) + 1
    /\ \/ o \in Starts(p) /\ Cardinality(Before(p, o)) = n
       \/ o = Len(p) + 1 /\ Parts(p) <= n

\* The parts of a path can be counted.
LEMMA StartsFinite ==
    ASSUME NEW p \in Paths
    PROVE  /\ IsFiniteSet(Starts(p)) /\ Parts(p) \in Nat
           /\ \A o : IsFiniteSet(Before(p, o)) /\ Cardinality(Before(p, o)) \in Nat
<1>1. IsFiniteSet(1 .. Len(p))
    BY PathFacts, FS_Interval
<1>2. Starts(p) \in SUBSET (1 .. Len(p))
    BY DEF Starts
<1>3. IsFiniteSet(Starts(p))
    BY <1>1, <1>2, FS_Subset
<1>4. ASSUME NEW o PROVE IsFiniteSet(Before(p, o))
    <2>1. Before(p, o) \in SUBSET Starts(p)
        BY DEF Before
    <2> QED BY <1>3, <2>1, FS_Subset
<1> QED BY <1>3, <1>4, FS_CardinalityType DEF Parts

\* From a place where no part goes on, the next part starts behind the slashes.
LEMMA NextStart ==
    ASSUME NEW p \in Paths, NEW o \in 1 .. Len(p) + 1, o > 1 /\ o <= Len(p) => p[o] = "/"
    PROVE  LET q == PastSlashes(p, o)
           IN  /\ q \in o .. Len(p) + 1
               /\ q <= Len(p) => q \in Starts(p)
               /\ Starts(p) \cap (o .. q - 1) = {}
<1> DEFINE q == PastSlashes(p, o)
<1>1. Len(p) \in Nat /\ o \in Nat
    BY PathFacts
<1>2. /\ q \in o .. Len(p) + 1 /\ (q <= Len(p) => p[q] # "/")
      /\ \A r \in o .. q - 1 : p[r] = "/"
    BY PastSlashesFact
<1> HIDE DEF q
<1>3. ASSUME q <= Len(p) PROVE q \in Starts(p)
    <2>1. q \in 1 .. Len(p) /\ p[q] # "/"
        BY <1>1, <1>2, <1>3
    <2>2. ASSUME q > 1 PROVE p[q - 1] = "/"
        <3>1. CASE q = o
            BY <1>1, <1>2, <1>3, <2>1, <2>2, <3>1
        <3>2. CASE q # o
            <4>1. q - 1 \in o .. q - 1
                BY <1>1, <1>2, <3>2
            <4> QED BY <1>2, <4>1
        <3> QED BY <3>1, <3>2
    <2> QED BY <2>1, <2>2 DEF Starts
<1>4. Starts(p) \cap (o .. q - 1) = {}
    BY <1>2 DEF Starts
<1> QED BY <1>2, <1>3, <1>4 DEF q

\* The first part is behind the slashes at the start.
LEMMA FirstPart == ASSUME NEW p \in Paths PROVE AfterParts(p, 0, PastSlashes(p, 1))
<1> DEFINE q == PastSlashes(p, 1)
<1>1. Len(p) \in Nat /\ 1 \in 1 .. Len(p) + 1
    BY PathFacts
<1>2. /\ q \in 1 .. Len(p) + 1 /\ (q <= Len(p) => q \in Starts(p))
      /\ Starts(p) \cap (1 .. q - 1) = {}
    BY <1>1, NextStart
<1> HIDE DEF q
<1>3. Starts(p) \in SUBSET (1 .. Len(p))
    BY DEF Starts
<1>4. Before(p, q) = {}
    BY <1>1, <1>2, <1>3 DEF Before
<1>5. CASE q <= Len(p)
    <2>1. Cardinality(Before(p, q)) = 0
        BY <1>4, FS_EmptySet
    <2> QED BY <1>2, <1>5, <2>1 DEF AfterParts, q
<1>6. CASE q = Len(p) + 1
    <2>1. Starts(p) = {}
        BY <1>1, <1>2, <1>3, <1>6
    <2>2. Parts(p) = 0
        BY <2>1, FS_EmptySet DEF Parts
    <2> QED BY <1>2, <1>6, <2>2 DEF AfterParts, q
<1> QED BY <1>1, <1>2, <1>5, <1>6

\* From a part to the next one.
LEMMA NextPart ==
    ASSUME NEW p \in Paths, NEW n \in Nat, NEW o, AfterParts(p, n, o)
    PROVE  AfterParts(p, n + 1, PastSlashes(p, EndOfPart(p, o)))
<1> DEFINE e == EndOfPart(p, o)
           q == PastSlashes(p, e)
<1>1. Len(p) \in Nat /\ o \in 1 .. Len(p) + 1
    BY PathFacts DEF AfterParts
<1>2. /\ e \in o .. Len(p) + 1 /\ (e <= Len(p) => p[e] = "/")
      /\ \A r \in o .. e - 1 : p[r] # "/"
    BY <1>1, EndOfPartFact
<1> HIDE DEF e
<1>3. e \in 1 .. Len(p) + 1
    BY <1>1, <1>2
<1>4. /\ q \in e .. Len(p) + 1 /\ (q <= Len(p) => q \in Starts(p))
      /\ Starts(p) \cap (e .. q - 1) = {}
    BY <1>2, <1>3, NextStart
<1> HIDE DEF q
<1>5. Starts(p) \in SUBSET (1 .. Len(p))
    BY DEF Starts
<1>6. Parts(p) \in Nat /\ IsFiniteSet(Before(p, o)) /\ Cardinality(Before(p, o)) \in Nat
    BY StartsFinite
<1>7. CASE o \in Starts(p) /\ Cardinality(Before(p, o)) = n
    <2>1. o < e /\ o < q
        <3>1. p[o] # "/" /\ o <= Len(p)
            BY <1>1, <1>7 DEF Starts
        <3> QED BY <1>1, <1>2, <1>4, <3>1
    <2>2. ASSUME NEW t \in Starts(p) PROVE t < q <=> (t < o \/ t = o)
        <3>1. t \in 1 .. Len(p) /\ p[t] # "/" /\ (t > 1 => p[t - 1] = "/")
            BY <1>1 DEF Starts
        <3>2. ~(t \in o + 1 .. e - 1)
            <4>1. SUFFICES ASSUME t \in o + 1 .. e - 1 PROVE FALSE
                OBVIOUS
            <4>2. t > 1 /\ t - 1 \in o .. e - 1
                BY <1>1, <1>2, <4>1
            <4> QED BY <1>2, <3>1, <4>2
        <3>3. ~(t \in e .. q - 1)
            BY <1>4
        <3> QED BY <1>1, <1>2, <1>4, <2>1, <3>1, <3>2, <3>3
    <2>3. Before(p, q) = Before(p, o) \cup {o}
        BY <1>7, <2>2 DEF Before
    <2>4. o \notin Before(p, o)
        BY <1>1 DEF Before
    <2>5. Cardinality(Before(p, q)) = n + 1
        BY <1>6, <1>7, <2>3, <2>4, FS_AddElement
    <2>6. CASE q <= Len(p)
        BY <1>1, <1>3, <1>4, <2>5, <2>6 DEF AfterParts, q, e
    <2>7. CASE q = Len(p) + 1
        <3>1. Before(p, q) = Starts(p)
            BY <1>1, <1>5, <2>7 DEF Before
        <3>2. Parts(p) = n + 1
            BY <2>5, <3>1 DEF Parts
        <3> QED BY <1>1, <1>3, <1>4, <2>7, <3>2 DEF AfterParts, q, e
    <2> QED BY <1>1, <1>3, <1>4, <2>6, <2>7
<1>8. CASE o = Len(p) + 1 /\ Parts(p) <= n
    <2>1. q = Len(p) + 1
        BY <1>1, <1>2, <1>4, <1>8
    <2> QED BY <1>1, <1>3, <1>4, <1>6, <1>8, <2>1 DEF AfterParts, q, e
<1> QED BY <1>7, <1>8 DEF AfterParts

\* The function that Offset defines by recursion exists.
LEMMA OffsetDefined ==
    ASSUME NEW p, NEW n \in Nat
    PROVE  \E f : /\ Offset(p, n) = f[n]
                  /\ f = [k \in 0 .. n |->
                            PastSlashes(p, IF k = 0 THEN 1 ELSE EndOfPart(p, f[k - 1]))]
<1> DEFINE Is(f, m) == f = [k \in 0 .. m |->
                                PastSlashes(p, IF k = 0 THEN 1 ELSE EndOfPart(p, f[k - 1]))]
           S == {m \in Nat : ~ \E f : Is(f, m)}
<1>1. S = {}
    <2>1. SUFFICES ASSUME S # {} PROVE FALSE
        OBVIOUS
    <2>2. PICK m \in S : \A k \in S : m <= k
        BY <2>1, Least
    <2>3. CASE m = 0
        <3>1. Is([k \in 0 .. 0 |-> PastSlashes(p, 1)], 0)
            OBVIOUS
        <3> QED BY <2>2, <2>3, <3>1
    <2>4. CASE m > 0
        <3>0. m \in Nat /\ m - 1 \in Nat /\ ~(m <= m - 1)
            BY <2>2, <2>4
        <3>1. m - 1 \in Nat /\ m - 1 \notin S
            <4> HIDE DEF S
            <4> QED BY <2>2, <3>0
        <3>2. PICK f : Is(f, m - 1)
            BY <3>1
        <3> DEFINE g == [k \in 0 .. m |-> IF k < m THEN f[k]
                                          ELSE PastSlashes(p, EndOfPart(p, f[m - 1]))]
        <3>3. ASSUME NEW k \in 0 .. m
              PROVE  g[k] = PastSlashes(p, IF k = 0 THEN 1 ELSE EndOfPart(p, g[k - 1]))
            <4>1. CASE k = m
                BY <2>2, <2>4, <4>1
            <4>2. CASE k < m
                <5>1. k \in 0 .. m - 1 /\ (k # 0 => k - 1 \in 0 .. m /\ k - 1 < m)
                    BY <2>2, <4>2
                <5>2. f[k] = PastSlashes(p, IF k = 0 THEN 1 ELSE EndOfPart(p, f[k - 1]))
                    BY <3>2, <5>1
                <5>3. g[k] = f[k] /\ (k # 0 => g[k - 1] = f[k - 1])
                    BY <4>2, <5>1
                <5> QED BY <5>2, <5>3
            <4> QED BY <2>2, <4>1, <4>2
        <3>4. Is(g, m)
            BY <3>3
        <3> QED BY <2>2, <3>4
    <2> QED BY <2>2, <2>3, <2>4
<1>2. PICK h : Is(h, n)
    BY <1>1
<1> QED BY <1>2 DEF Offset

\* Offset leads behind the parts that it counts.
LEMMA OffsetFact == ASSUME NEW p \in Paths, NEW n \in Nat PROVE AfterParts(p, n, Offset(p, n))
<1>1. PICK f : /\ Offset(p, n) = f[n]
               /\ f = [k \in 0 .. n |->
                         PastSlashes(p, IF k = 0 THEN 1 ELSE EndOfPart(p, f[k - 1]))]
    BY OffsetDefined
<1> DEFINE S == {m \in 0 .. n : ~AfterParts(p, m, f[m])}
<1>0. n \in 0 .. n /\ S \in SUBSET Nat
    OBVIOUS
<1>2. SUFFICES ASSUME S # {} PROVE FALSE
    <2>1. S # {} \/ AfterParts(p, n, f[n])
        BY <1>0
    <2> QED BY <1>1, <2>1
<1>3. PICK m \in S : \A k \in S : m <= k
    BY ONLY <1>0, <1>2, Least
<1>4. CASE m = 0
    <2>1. f[0] = PastSlashes(p, 1)
        BY <1>1
    <2> QED BY <1>3, <1>4, <2>1, FirstPart
<1>5. CASE m > 0
    <2>1. m \in Nat /\ m - 1 \in 0 .. n /\ m - 1 \in Nat
        BY <1>3, <1>5
    <2>2. AfterParts(p, m - 1, f[m - 1])
        <3>1. ~(m <= m - 1)
            BY <2>1
        <3> QED BY <1>3, <2>1, <3>1
    <2>3. f[m] = PastSlashes(p, EndOfPart(p, f[m - 1]))
        BY <1>1, <1>3, <1>5
    <2>4. AfterParts(p, (m - 1) + 1, f[m])
        BY <2>1, <2>2, <2>3, NextPart
    <2>5. (m - 1) + 1 = m
        BY <2>1
    <2> QED BY <1>3, <2>4, <2>5
<1> QED BY <1>3, <1>4, <1>5

\* The part of a path that the definitions speak of is the one that the code splits.
LEMMA PartFact ==
    ASSUME NEW p \in Paths, NEW n \in Nat, n < Parts(p)
    PROVE  LET o == Offset(p, n)
               e == EndOfPart(p, o)
           IN  /\ o \in 1 .. Len(p) /\ e \in o + 1 .. Len(p) + 1
               /\ \A r \in o .. e - 1 : p[r] # "/"
               /\ Part(p, n + 1) = SubSeq(p, o, e - 1)
<1> DEFINE o == Offset(p, n)
           e == EndOfPart(p, o)
<1>1. AfterParts(p, n, o)
    BY OffsetFact
<1> HIDE DEF o
<1>2. Len(p) \in Nat /\ Parts(p) \in Nat
    BY PathFacts, StartsFinite
<1>3. o \in Starts(p) /\ Cardinality(Before(p, o)) = n /\ o \in 1 .. Len(p)
    BY <1>1, <1>2 DEF AfterParts, Starts
<1>4. /\ e \in o .. Len(p) + 1 /\ (e <= Len(p) => p[e] = "/")
      /\ \A r \in o .. e - 1 : p[r] # "/"
    BY <1>2, <1>3, EndOfPartFact
<1> HIDE DEF e
<1>5. e > o
    <2>1. p[o] # "/"
        BY <1>3 DEF Starts
    <2> QED BY <1>2, <1>3, <1>4, <2>1
<1> DEFINE Upto(s) == {t \in Starts(p) : t <= s}
<1>6. ASSUME NEW s \in Starts(p)
      PROVE  Cardinality(Upto(s)) = Cardinality(Before(p, s)) + 1
    <2>1. Upto(s) = Before(p, s) \cup {s} /\ s \notin Before(p, s)
        BY DEF Before, Starts
    <2> QED BY <2>1, StartsFinite, FS_AddElement
<1>7. Cardinality(Upto(o)) = n + 1
    BY <1>3, <1>6
<1>8. ASSUME NEW s \in Starts(p), NEW t \in Starts(p), s < t
      PROVE  Cardinality(Upto(s)) # Cardinality(Upto(t))
    <2>1. Upto(s) \in SUBSET Upto(t) /\ t \in Upto(t) /\ t \notin Upto(s)
        BY <1>8 DEF Starts
    <2>2. IsFiniteSet(Upto(t))
        BY StartsFinite, FS_Subset
    <2> HIDE DEF Upto
    <2> QED BY <2>1, <2>2, FS_Subset
<1>9. ASSUME NEW s \in Starts(p), Cardinality(Upto(s)) = n + 1 PROVE s = o
    <2>1. ~(s < o) /\ ~(o < s)
        BY <1>3, <1>7, <1>8, <1>9
    <2> QED BY <1>2, <1>3, <2>1 DEF Starts
<1>10. (CHOOSE s \in Starts(p) : Cardinality(Upto(s)) = n + 1) = o
    BY <1>3, <1>7, <1>9
<1> DEFINE Ends(d) == /\ \A q \in o .. d : p[q] # "/"
                      /\ d < Len(p) => p[d + 1] = "/"
<1>11. e - 1 \in o .. Len(p) /\ Ends(e - 1)
    BY <1>2, <1>3, <1>4, <1>5
<1>12. ASSUME NEW d \in o .. Len(p), Ends(d) PROVE d = e - 1
    <2>1. CASE d < e - 1
        <3>1. d + 1 \in o .. e - 1 /\ d < Len(p)
            BY <1>2, <1>3, <1>4, <2>1
        <3> QED BY <1>4, <1>12, <3>1
    <2>2. CASE d > e - 1
        <3>1. e \in o .. d /\ e <= Len(p)
            BY <1>2, <1>3, <1>4, <2>2
        <3> QED BY <1>4, <1>12, <3>1
    <2> QED BY <1>2, <1>3, <1>4, <2>1, <2>2
<1>13. (CHOOSE d \in o .. Len(p) : Ends(d)) = e - 1
    BY <1>11, <1>12
<1>14. Part(p, n + 1) = SubSeq(p, o, e - 1)
    BY <1>10, <1>13 DEF Part
<1> QED BY <1>2, <1>3, <1>4, <1>5, <1>14 DEF o, e

-----------------------------------------------------------------------------
(***************************************************************************)
(* fat_namecmp: that a name is the same as displayed.                      *)
(***************************************************************************)
\* Characters that are not letters are converted to themselves, and no other is
\* converted to one of them.
LEMMA SpecialKept ==
    ASSUME NEW c, NEW s \in {NUL, FREE, "/", ".", SPACE}
    PROVE  Charconvert(c) = s <=> c = s
<1>1. \A d \in DOMAIN Capital : d \notin Special /\ Capital[d] \notin Special
    BY DirectoriesAssumption
<1>2. s \in Special
    BY DEF Special
<1> QED BY <1>1, <1>2 DEF Charconvert

\* Two lists of characters are the same in upper case if they are so place by place.
LEMMA UpperEqual ==
    ASSUME NEW a, NEW b, NEW m \in Nat, NEW n \in Nat, DOMAIN a = 1 .. m, DOMAIN b = 1 .. n
    PROVE  Upper(a) = Upper(b) <=>
                m = n /\ \A k \in 1 .. m : Charconvert(a[k]) = Charconvert(b[k])
<1> DEFINE A == [k \in 1 .. m |-> Charconvert(a[k])]
           B == [k \in 1 .. n |-> Charconvert(b[k])]
<1>1. Upper(a) = A /\ Upper(b) = B
    BY DEF Upper
<1>2. ASSUME A = B PROVE m = n /\ \A k \in 1 .. m : Charconvert(a[k]) = Charconvert(b[k])
    <2>1. DOMAIN A = 1 .. m /\ DOMAIN B = 1 .. n
        OBVIOUS
    <2>2. 1 .. m = 1 .. n
        BY <1>2, <2>1
    <2>3. \A k \in Nat : k \in 1 .. m <=> k \in 1 .. n
        BY <2>2
    <2>4. m = n
        <3>1. m \in 1 .. m => m \in 1 .. n
            BY <2>3
        <3>2. n \in 1 .. n => n \in 1 .. m
            BY <2>3
        <3> QED BY <3>1, <3>2
    <2>5. \A k \in 1 .. m : A[k] = Charconvert(a[k]) /\ B[k] = Charconvert(b[k])
        BY <2>4
    <2> QED BY <1>2, <2>4, <2>5
<1>3. ASSUME m = n /\ \A k \in 1 .. m : Charconvert(a[k]) = Charconvert(b[k]) PROVE A = B
    BY <1>3
<1> QED BY <1>1, <1>2, <1>3

\* How many characters a name has without the spaces at its end.
Length(s) == Max({0} \cup {k \in DOMAIN s : s[k] # SPACE})

\* They are at its start.
LEMMA LengthFact ==
    ASSUME NEW n \in Nat, NEW s, DOMAIN s = 1 .. n
    PROVE  /\ Length(s) \in 0 .. n
           /\ Length(s) > 0 => s[Length(s)] # SPACE
           /\ \A k \in Length(s) + 1 .. n : s[k] = SPACE
           /\ \A m \in 0 .. n : (m > 0 => s[m] # SPACE) /\ (\A k \in m + 1 .. n : s[k] = SPACE) =>
                    m = Length(s)
<1> DEFINE S == {0} \cup {k \in 1 .. n : s[k] # SPACE}
           l == Max(S)
<1>1. Length(s) = l
    BY DEF Length
<1>2. S \in SUBSET (0 .. n) /\ S # {}
    OBVIOUS
<1>3. l \in S /\ \A k \in S : k <= l
    BY <1>2, MaxOf
<1> HIDE DEF l
<1>4. l \in 0 .. n /\ (l > 0 => s[l] # SPACE)
    BY <1>3
<1>5. \A k \in l + 1 .. n : s[k] = SPACE
    BY <1>3, <1>4
<1>6. ASSUME NEW m \in 0 .. n, m > 0 => s[m] # SPACE, \A k \in m + 1 .. n : s[k] = SPACE
      PROVE  m = l
    <2>1. ~(m < l)
        BY <1>4, <1>6
    <2>2. ~(l < m)
        BY <1>4, <1>5, <1>6
    <2> QED BY <1>4, <2>1, <2>2
<1> QED BY <1>1, <1>4, <1>5, <1>6

\* What is displayed for a name.
LEMMA TrimmedFact ==
    ASSUME NEW n \in Nat, NEW s, DOMAIN s = 1 .. n, NEW C, \A k \in 1 .. n : s[k] \in C
    PROVE  /\ Trimmed(s) \in Seq(C) /\ Len(Trimmed(s)) = Length(s)
           /\ \A k \in 1 .. Length(s) : Trimmed(s)[k] = s[k]
<1>1. Trimmed(s) = SubSeq(s, 1, Length(s))
    BY DEF Trimmed, Length
<1>2. Length(s) \in 0 .. n
    BY LengthFact
<1> DEFINE l == Length(s)
<1> HIDE DEF l
<1>3. l \in Int /\ 1 \in Int /\ \A k \in 1 .. l : s[k] \in C
    BY <1>2 DEF l
<1>4. /\ SubSeq(s, 1, l) \in Seq(C)
      /\ Len(SubSeq(s, 1, l)) = IF 1 <= l THEN l - 1 + 1 ELSE 0
      /\ \A k \in 1 .. l - 1 + 1 : SubSeq(s, 1, l)[k] = s[1 + k - 1]
    BY <1>3, SubSeqProperties
<1>5. l \in Nat
    BY <1>2 DEF l
<1>6. \A k \in 1 .. l : k \in 1 .. l - 1 + 1 /\ 1 + k - 1 = k
    BY <1>5
<1>7. Len(SubSeq(s, 1, l)) = l
    BY <1>4, <1>5
<1> QED BY <1>1, <1>4, <1>6, <1>7 DEF l

\* What is displayed for an entry.
LEMMA DisplayFact ==
    ASSUME NEW e, Dirent(e)
    PROVE  LET m == Length(e.name)
               x == Length(e.extension)
               l == IF x = 0 THEN m ELSE m + 1 + x
           IN  /\ m \in 0 .. NameSize /\ x \in 0 .. ExtSize
               /\ DOMAIN Display(e) = 1 .. l
               /\ \A k \in 1 .. m : Display(e)[k] = e.name[k]
               /\ x > 0 => Display(e)[m + 1] = "."
               /\ x > 0 => \A k \in 1 .. x : Display(e)[m + 1 + k] = e.extension[k]
<1> DEFINE m == Length(e.name)
           x == Length(e.extension)
           C == {e.name[k] : k \in 1 .. NameSize} \cup {e.extension[k] : k \in 1 .. ExtSize}
                    \cup {"."}
           a == Trimmed(e.name)
           b == Trimmed(e.extension)
<1>1. /\ NameSize \in Nat /\ ExtSize \in Nat
      /\ DOMAIN e.name = 1 .. NameSize /\ DOMAIN e.extension = 1 .. ExtSize
    BY DirectoriesAssumption DEF Dirent
<1>2. m \in 0 .. NameSize /\ x \in 0 .. ExtSize
    BY <1>1, LengthFact
<1>9. /\ \A k \in 1 .. NameSize : e.name[k] \in C
      /\ \A k \in 1 .. ExtSize : e.extension[k] \in C
    OBVIOUS
<1>3. a \in Seq(C) /\ Len(a) = m /\ \A k \in 1 .. m : a[k] = e.name[k]
    <2> HIDE DEF C
    <2> QED BY <1>1, <1>9, TrimmedFact
<1>4. b \in Seq(C) /\ Len(b) = x /\ \A k \in 1 .. x : b[k] = e.extension[k]
    <2> HIDE DEF C
    <2> QED BY <1>1, <1>9, TrimmedFact
<1>5. "." \in C
    OBVIOUS
<1>6. Display(e) = a \o IF b = <<>> THEN <<>> ELSE <<".">> \o b
    BY DEF Display
<1> HIDE DEF a, b, C, m, x
<1>7. CASE x = 0
    <2>1. b = <<>>
        BY <1>4, <1>7, EmptySeq
    <2>2. Display(e) = a
        BY <1>3, <1>6, <2>1, ConcatEmptySeq
    <2>3. DOMAIN a = 1 .. m
        BY <1>3, LenProperties
    <2> QED BY <1>2, <1>3, <1>7, <2>2, <2>3 DEF m, x
<1>8. CASE x > 0
    <2>1. b # <<>>
        BY <1>4, <1>8, EmptySeq
    <2>2. Display(e) = a \o (<<".">> \o b)
        BY <1>6, <2>1
    <2> DEFINE d == <<".">>
               t == d \o b
    <2>3. d \in Seq(C) /\ Len(d) = 1 /\ d[1] = "."
        BY <1>5
    <2> HIDE DEF d
    <2>12. b \in Seq(C) /\ Len(b) = x
        BY <1>4
    <2>13. /\ t \in Seq(C) /\ Len(t) = Len(d) + Len(b)
           /\ \A k \in 1 .. Len(d) + Len(b) : t[k] = IF k <= Len(d) THEN d[k] ELSE b[k - Len(d)]
        BY ONLY <2>3, <2>12, ConcatProperties
    <2> HIDE DEF t
    <2>4. /\ t \in Seq(C) /\ Len(t) = 1 + x
          /\ \A k \in 1 .. 1 + x : t[k] = IF k <= 1 THEN d[k] ELSE b[k - 1]
        BY <2>3, <2>12, <2>13
    <2>5. /\ a \o t \in Seq(C) /\ Len(a \o t) = m + (1 + x)
          /\ \A k \in 1 .. m + (1 + x) : (a \o t)[k] = IF k <= m THEN a[k] ELSE t[k - m]
        <3>1. a \in Seq(C) /\ t \in Seq(C)
            BY <1>3, <2>4
        <3>2. /\ a \o t \in Seq(C) /\ Len(a \o t) = Len(a) + Len(t)
              /\ \A k \in 1 .. Len(a) + Len(t) :
                    (a \o t)[k] = IF k <= Len(a) THEN a[k] ELSE t[k - Len(a)]
            BY ONLY <3>1, ConcatProperties
        <3> QED BY <1>3, <2>4, <3>2
    <2>6. Display(e) = a \o t
        BY <2>2 DEF t, d
    <2>7. DOMAIN Display(e) = 1 .. m + (1 + x)
        BY <2>5, <2>6, LenProperties
    <2>8. \A k \in 1 .. m : Display(e)[k] = e.name[k]
        BY <1>2, <1>3, <2>5, <2>6
    <2>9. Display(e)[m + 1] = "."
        <3>1. m + 1 \in 1 .. m + (1 + x) /\ ~(m + 1 <= m) /\ (m + 1) - m = 1
            BY <1>2, <1>8
        <3>2. t[1] = "."
            BY <1>2, <1>8, <2>3, <2>4
        <3> QED BY <2>5, <2>6, <3>1, <3>2
    <2>10. ASSUME NEW k \in 1 .. x PROVE Display(e)[m + 1 + k] = e.extension[k]
        <3>1. /\ m + 1 + k \in 1 .. m + (1 + x) /\ ~(m + 1 + k <= m)
              /\ (m + 1 + k) - m = 1 + k
            BY <1>2, <1>8
        <3>2. 1 + k \in 1 .. 1 + x /\ ~(1 + k <= 1) /\ (1 + k) - 1 = k
            BY <1>2, <1>8
        <3>3. t[1 + k] = b[k]
            BY <2>4, <3>2
        <3> QED BY <1>4, <2>5, <2>6, <3>1, <3>3
    <2>11. m + (1 + x) = m + 1 + x
        BY <1>2
    <2> QED BY <1>2, <1>8, <2>7, <2>8, <2>9, <2>10, <2>11 DEF m, x
<1> QED BY <1>2, <1>7, <1>8 DEF m, x

\* A part is a name of b characters and an extension of x, and s is what it is split into.
IsSplit(part, s, b, x) ==
    /\ b \in 1 .. NameSize /\ x \in 0 .. ExtSize
    /\ DOMAIN part = 1 .. IF x = 0 THEN b ELSE b + 1 + x
    /\ \A k \in 1 .. NameSize : s.name[k] = IF k <= b THEN part[k] ELSE SPACE
    /\ \A k \in 1 .. ExtSize : s.extension[k] = IF k <= x THEN part[b + 1 + k] ELSE SPACE
    /\ part[b] # SPACE /\ \A k \in 1 .. b : part[k] # "."
    /\ x > 0 => part[b + 1] = "." /\ part[b + 1 + x] # SPACE

\* Such a part compares equal with the entries of its name.
LEMMA MatchFact ==
    ASSUME NEW part, NEW s, NEW b, NEW x, IsSplit(part, s, b, x),
           NEW e, Dirent(e), e.name[1] # SPACE,
           e.name[1] # "." => \A j \in 1 .. NameSize : e.name[j] # "."
    PROVE  Namecmp(s, e) <=> Names(part, e)
<1> DEFINE m == Length(e.name)
           y == Length(e.extension)
           D == Display(e)
           U(c) == Charconvert(c)
<1>1. /\ b \in 1 .. NameSize /\ x \in 0 .. ExtSize
      /\ DOMAIN part = 1 .. IF x = 0 THEN b ELSE b + 1 + x
    BY DEF IsSplit
<1>2. \A k \in 1 .. NameSize : s.name[k] = IF k <= b THEN part[k] ELSE SPACE
    BY DEF IsSplit
<1>3. \A k \in 1 .. ExtSize : s.extension[k] = IF k <= x THEN part[b + 1 + k] ELSE SPACE
    BY DEF IsSplit
<1>4. part[b] # SPACE /\ \A k \in 1 .. b : part[k] # "."
    BY DEF IsSplit
<1>5. x > 0 => part[b + 1] = "." /\ part[b + 1 + x] # SPACE
    BY DEF IsSplit
<1>6. /\ NameSize \in Nat \ {0} /\ ExtSize \in Nat
      /\ DOMAIN e.name = 1 .. NameSize /\ DOMAIN e.extension = 1 .. ExtSize
    BY DirectoriesAssumption DEF Dirent
<1>7. /\ m \in 0 .. NameSize /\ y \in 0 .. ExtSize
      /\ DOMAIN D = 1 .. IF y = 0 THEN m ELSE m + 1 + y
    BY DisplayFact
<1>8. /\ \A k \in 1 .. m : D[k] = e.name[k]
      /\ y > 0 => D[m + 1] = "."
      /\ y > 0 => \A k \in 1 .. y : D[m + 1 + k] = e.extension[k]
    BY DisplayFact
<1>9. /\ \A k \in m + 1 .. NameSize : e.name[k] = SPACE
      /\ \A k \in y + 1 .. ExtSize : e.extension[k] = SPACE
    BY <1>6, LengthFact
<1>10. \A c : (U(c) = SPACE <=> c = SPACE) /\ (U(c) = "." <=> c = ".")
    BY SpecialKept
<1>11. Namecmp(s, e) <=> /\ \A k \in 1 .. NameSize : U(s.name[k]) = U(e.name[k])
                         /\ \A k \in 1 .. ExtSize : U(s.extension[k]) = U(e.extension[k])
    BY DEF Namecmp
<1> DEFINE lp == IF x = 0 THEN b ELSE b + 1 + x
           ld == IF y = 0 THEN m ELSE m + 1 + y
<1>12. lp \in Nat /\ ld \in Nat
    BY <1>1, <1>6, <1>7
<1>13. Names(part, e) <=> lp = ld /\ \A k \in 1 .. lp : U(part[k]) = U(D[k])
    <2>1. DOMAIN part = 1 .. lp /\ DOMAIN D = 1 .. ld
        BY <1>1, <1>7
    <2> HIDE DEF lp, ld
    <2>2. Upper(part) = Upper(D) <=> lp = ld /\ \A k \in 1 .. lp : U(part[k]) = U(D[k])
        BY <1>12, <2>1, UpperEqual
    <2> QED BY <2>2 DEF Names
<1>14. \A q \in 0 .. NameSize : (q > 0 => e.name[q] # SPACE)
            /\ (\A k \in q + 1 .. NameSize : e.name[k] = SPACE) => q = m
    BY <1>6, LengthFact
<1>15. \A q \in 0 .. ExtSize : (q > 0 => e.extension[q] # SPACE)
            /\ (\A k \in q + 1 .. ExtSize : e.extension[k] = SPACE) => q = y
    BY <1>6, LengthFact
<1> HIDE DEF m, y, D, U
<1>16. ASSUME Namecmp(s, e) PROVE Names(part, e)
    <2>1. /\ \A k \in 1 .. NameSize : U(s.name[k]) = U(e.name[k])
          /\ \A k \in 1 .. ExtSize : U(s.extension[k]) = U(e.extension[k])
        BY <1>11, <1>16
    <2>2. b = m
        <3>1. e.name[b] # SPACE
            BY <1>1, <1>2, <1>4, <1>6, <1>10, <2>1
        <3>2. ASSUME NEW k \in b + 1 .. NameSize PROVE e.name[k] = SPACE
            <4>1. k \in 1 .. NameSize /\ ~(k <= b)
                BY <1>1, <1>6
            <4> QED BY <1>2, <1>10, <2>1, <4>1
        <3> QED BY <1>1, <1>6, <1>14, <3>1, <3>2
    <2>3. x = y
        <3>1. ASSUME x > 0 PROVE e.extension[x] # SPACE
            <4>1. x \in 1 .. ExtSize /\ x <= x
                BY <1>1, <1>6, <3>1
            <4> QED BY <1>3, <1>5, <1>10, <2>1, <3>1, <4>1
        <3>2. ASSUME NEW k \in x + 1 .. ExtSize PROVE e.extension[k] = SPACE
            <4>1. k \in 1 .. ExtSize /\ ~(k <= x)
                BY <1>1, <1>6
            <4> QED BY <1>3, <1>10, <2>1, <4>1
        <3> QED BY <1>1, <1>6, <1>15, <3>1, <3>2
    <2>4. ASSUME NEW k \in 1 .. lp PROVE U(part[k]) = U(D[k])
        <3>1. CASE k <= b
            <4>1. k \in 1 .. NameSize /\ k \in 1 .. m
                BY <1>1, <1>6, <2>2, <3>1
            <4> QED BY <1>2, <1>8, <2>1, <3>1, <4>1
        <3>2. CASE k = b + 1 /\ x > 0
            BY <1>5, <1>8, <2>2, <2>3, <3>2
        <3>3. CASE k > b + 1 /\ x > 0
            <4>1. PICK j \in 1 .. x : k = b + 1 + j
                <5>1. k - b - 1 \in 1 .. x /\ k = b + 1 + (k - b - 1)
                    BY <1>1, <1>6, <3>3
                <5> QED BY <5>1
            <4>2. j \in 1 .. ExtSize /\ j <= x
                BY <1>1, <1>6
            <4> QED BY <1>3, <1>8, <2>1, <2>2, <2>3, <3>3, <4>1, <4>2
        <3> QED BY <1>1, <1>6, <3>1, <3>2, <3>3
    <2>5. lp = ld
        BY <2>2, <2>3
    <2> QED BY <1>13, <2>4, <2>5
<1>17. ASSUME Names(part, e) PROVE Namecmp(s, e)
    <2>1. lp = ld /\ \A k \in 1 .. lp : U(part[k]) = U(D[k])
        BY <1>13, <1>17
    <2>2. m > 0
        <3>1. 1 \in 1 .. NameSize
            BY <1>6
        <3> QED BY <1>7, <1>9, <3>1
    <2>3. \A k \in 1 .. NameSize : e.name[k] # "."
        <3>1. D[1] = e.name[1] /\ U(part[1]) = U(D[1]) /\ part[1] # "."
            BY <1>1, <1>4, <1>6, <1>7, <1>8, <2>1, <2>2
        <3> QED BY <1>10, <3>1
    <2>4. \A k \in 1 .. lp : part[k] = "." <=> D[k] = "."
        BY <1>10, <2>1
    <2>5. \A k \in 1 .. m : D[k] # "."
        BY <1>6, <1>7, <1>8, <2>3
    <2>6. b = m /\ x = y
        <3>1. CASE y = 0
            <4>1. ~(x > 0)
                <5>1. SUFFICES ASSUME x > 0 PROVE FALSE
                    OBVIOUS
                <5>2. b + 1 \in 1 .. lp /\ b + 1 \in 1 .. m
                    BY <1>1, <1>6, <1>7, <2>1, <3>1, <5>1
                <5> QED BY <1>5, <2>4, <2>5, <5>1, <5>2
            <4> QED BY <1>1, <1>6, <1>7, <2>1, <3>1, <4>1
        <3>2. CASE y > 0
            <4>1. m + 1 \in 1 .. lp /\ D[m + 1] = "."
                BY <1>7, <1>8, <2>1, <3>2
            <4>2. ~(m + 1 <= b)
                <5>1. SUFFICES ASSUME m + 1 <= b PROVE FALSE
                    OBVIOUS
                <5>2. m + 1 \in 1 .. b
                    BY <1>1, <1>7, <4>1, <5>1
                <5> QED BY <1>4, <2>4, <4>1, <5>2
            <4>3. x > 0
                BY <1>1, <1>6, <1>7, <4>1, <4>2
            <4>4. ~(b + 1 <= m)
                <5>1. SUFFICES ASSUME b + 1 <= m PROVE FALSE
                    OBVIOUS
                <5>2. b + 1 \in 1 .. lp /\ b + 1 \in 1 .. m
                    BY <1>1, <1>6, <1>7, <4>3, <5>1
                <5> QED BY <1>5, <2>4, <2>5, <4>3, <5>2
            <4>5. b = m
                BY <1>1, <1>6, <1>7, <4>2, <4>4
            <4> QED BY <1>1, <1>6, <1>7, <2>1, <3>2, <4>3, <4>5
        <3> QED BY <1>6, <1>7, <3>1, <3>2
    <2>7. ASSUME NEW k \in 1 .. NameSize PROVE U(s.name[k]) = U(e.name[k])
        <3>1. CASE k <= b
            <4>1. k \in 1 .. lp /\ k \in 1 .. m
                BY <1>1, <1>6, <2>6, <3>1
            <4> QED BY <1>2, <1>8, <2>1, <3>1, <4>1
        <3>2. CASE k > b
            <4>1. k \in m + 1 .. NameSize /\ ~(k <= b)
                BY <1>1, <1>6, <2>6, <3>2
            <4> QED BY <1>2, <1>9, <4>1
        <3> QED BY <1>1, <1>6, <3>1, <3>2
    <2>8. ASSUME NEW k \in 1 .. ExtSize PROVE U(s.extension[k]) = U(e.extension[k])
        <3>1. CASE k <= x
            <4>1. b + 1 + k \in 1 .. lp /\ k \in 1 .. y /\ y > 0
                BY <1>1, <1>6, <2>6, <3>1
            <4>2. D[b + 1 + k] = e.extension[k]
                BY <1>8, <2>6, <4>1
            <4>3. s.extension[k] = part[b + 1 + k]
                BY <1>3, <3>1
            <4> QED BY <2>1, <4>1, <4>2, <4>3
        <3>2. CASE k > x
            <4>1. k \in y + 1 .. ExtSize /\ ~(k <= x)
                BY <1>1, <1>6, <2>6, <3>2
            <4> QED BY <1>3, <1>9, <4>1
        <3> QED BY <1>1, <1>6, <3>1, <3>2
    <2> QED BY <1>11, <2>7, <2>8
<1> QED BY <1>16, <1>17

-----------------------------------------------------------------------------
(***************************************************************************)
(* What the parts of a path are split into.                                *)
(***************************************************************************)
\* A part is split at its last dot.
LastDot(p, o, e) ==
    LET dots == {q \in o .. e - 1 : p[q] = "."} IN IF dots = {} THEN e ELSE Max(dots)

LEMMA SplitAt ==
    ASSUME NEW p, NEW n
    PROVE  LET o == Offset(p, n)
               e == EndOfPart(p, o)
               d == LastDot(p, o, e)
               s == SplitFileName(p, n)
           IN  /\ s.ok <=> e - 1 # o
               /\ s.name = [k \in 1 .. NameSize |-> s.name[k]]
               /\ \A k \in 1 .. NameSize :
                    s.name[k] = IF o + k - 1 < d THEN p[o + k - 1] ELSE SPACE
               /\ \A k \in 1 .. ExtSize :
                    s.extension[k] = IF d + k < e THEN p[d + k] ELSE SPACE
<1> DEFINE o == Offset(p, n)
           e == EndOfPart(p, o)
           d == LastDot(p, o, e)
           a == [k \in 1 .. NameSize |-> IF o + k - 1 < d THEN p[o + k - 1] ELSE SPACE]
           x == [k \in 1 .. ExtSize |-> IF d + k < e THEN p[d + k] ELSE SPACE]
<1>1. SplitFileName(p, n) = [ok |-> e - 1 # o, name |-> a, extension |-> x]
    BY DEF SplitFileName, LastDot
<1> HIDE DEF o, e, d
<1> HIDE DEF a, x
<1>3. ASSUME e - 1 # o PROVE SplitFileName(p, n).ok
    <2>1. SplitFileName(p, n) = [ok |-> TRUE, name |-> a, extension |-> x]
        BY <1>1, <1>3
    <2> QED BY <2>1
<1>4. ASSUME e - 1 = o PROVE ~SplitFileName(p, n).ok
    <2>1. SplitFileName(p, n) = [ok |-> FALSE, name |-> a, extension |-> x]
        BY <1>1, <1>4
    <2> QED BY <2>1
<1>2. SplitFileName(p, n).name = a /\ SplitFileName(p, n).extension = x
    BY <1>1
<1> QED BY <1>2, <1>3, <1>4 DEF o, e, d, a, x

\* Behind the last part, an empty one is split off.
LEMMA SplitBehind ==
    ASSUME NEW p \in Paths, NEW n \in Nat, n >= Parts(p)
    PROVE  SplitFileName(p, n).name[1] = SPACE
<1> DEFINE o == Offset(p, n)
           e == EndOfPart(p, o)
           S == {q \in o .. e - 1 : p[q] = "."}
           d == LastDot(p, o, e)
<1>1. AfterParts(p, n, o)
    BY OffsetFact
<1> HIDE DEF o
<1>2. Len(p) \in Nat /\ Parts(p) \in Nat
    BY PathFacts, StartsFinite
<1>3. o = Len(p) + 1
    <2>1. SUFFICES ASSUME o \in Starts(p), Cardinality(Before(p, o)) = n PROVE FALSE
        BY <1>1 DEF AfterParts
    <2>2. Before(p, o) \cup {o} \in SUBSET Starts(p) /\ o \notin Before(p, o)
        BY <2>1 DEF Before, Starts
    <2>3. IsFiniteSet(Before(p, o)) /\ IsFiniteSet(Starts(p))
        BY StartsFinite
    <2>4. Cardinality(Before(p, o) \cup {o}) = n + 1
        BY <2>1, <2>2, <2>3, FS_AddElement
    <2>5. n + 1 <= Parts(p)
        BY <2>2, <2>3, <2>4, FS_Subset DEF Parts
    <2> QED BY <1>2, <2>5
<1>4. e \in o .. Len(p) + 1
    BY <1>2, <1>3, EndOfPartFact
<1> HIDE DEF e
<1>5. e = o /\ o \in Nat
    BY <1>2, <1>3, <1>4
<1>6. S = {} /\ d = e
    BY <1>5 DEF LastDot
<1>7. 1 \in 1 .. NameSize
    BY DirectoriesAssumption
<1> HIDE DEF d
<1>8. SplitFileName(p, n).name[1] = IF o + 1 - 1 < d THEN p[o + 1 - 1] ELSE SPACE
    BY <1>7, SplitAt DEF o, e, d
<1> QED BY <1>5, <1>6, <1>8

\* The terminator and the mark of free entries are not split off.
LEMMA SplitCharacters ==
    ASSUME NEW p \in Paths, NEW n \in Nat, NEW k \in 1 .. NameSize
    PROVE  SplitFileName(p, n).name[k] \notin {NUL, FREE}
<1> DEFINE o == Offset(p, n)
           e == EndOfPart(p, o)
           S == {q \in o .. e - 1 : p[q] = "."}
           d == LastDot(p, o, e)
<1>1. o \in 1 .. Len(p) + 1 /\ Len(p) \in Nat
    BY OffsetFact, PathFacts DEF AfterParts
<1> HIDE DEF o
<1>2. e \in o .. Len(p) + 1
    BY <1>1, EndOfPartFact
<1> HIDE DEF e
<1>3. d \in o .. e
    <2>1. CASE S = {}
        BY <1>1, <1>2, <2>1 DEF LastDot
    <2>2. CASE S # {}
        <3>1. S \in SUBSET (0 .. Len(p)) /\ d = Max(S)
            BY <1>1, <1>2, <2>2 DEF LastDot
        <3>2. d \in S
            BY <1>1, <2>2, <3>1, MaxOf
        <3> QED BY <1>1, <1>2, <3>2
    <2> QED BY <2>1, <2>2
<1>4. SplitFileName(p, n).name[k] = IF o + k - 1 < d THEN p[o + k - 1] ELSE SPACE
    <2> HIDE DEF d
    <2> QED BY SplitAt DEF o, e, d
<1> HIDE DEF d
<1>5. ASSUME o + k - 1 < d PROVE p[o + k - 1] # NUL /\ p[o + k - 1] # FREE
    <2>1. NameSize \in Nat
        BY DirectoriesAssumption
    <2>2. o + k - 1 \in 1 .. Len(p)
        BY <1>1, <1>2, <1>3, <1>5, <2>1
    <2> QED BY <2>2, PathFacts
<1> QED BY <1>4, <1>5, Characters

\* A plain part is split into its name and its extension; it is taken for the end of
\* the path if it has one character.
LEMMA SplitPlain ==
    ASSUME NEW p \in Paths, NEW n \in Nat, n < Parts(p), Plain(Part(p, n + 1))
    PROVE  /\ \E b, x : IsSplit(Part(p, n + 1), SplitFileName(p, n), b, x)
           /\ SplitFileName(p, n).ok <=> Len(Part(p, n + 1)) # 1
<1> DEFINE o == Offset(p, n)
           e == EndOfPart(p, o)
           S == {q \in o .. e - 1 : p[q] = "."}
           d == LastDot(p, o, e)
           part == Part(p, n + 1)
           s == SplitFileName(p, n)
           l == e - o
<1>1. Len(p) \in Nat /\ NameSize \in Nat \ {0} /\ ExtSize \in Nat
    BY PathFacts, DirectoriesAssumption
<1>2. o \in 1 .. Len(p) /\ e \in o + 1 .. Len(p) + 1 /\ part = SubSeq(p, o, e - 1)
    BY PartFact
<1>3. /\ s.ok <=> e - 1 # o
      /\ \A k \in 1 .. NameSize : s.name[k] = IF o + k - 1 < d THEN p[o + k - 1] ELSE SPACE
      /\ \A k \in 1 .. ExtSize : s.extension[k] = IF d + k < e THEN p[d + k] ELSE SPACE
    <2> HIDE DEF d
    <2> QED BY SplitAt DEF o, e, d
<1> HIDE DEF o, e, part, s
<1>4. l \in Nat \ {0} /\ e = o + l /\ o \in Nat
    BY <1>1, <1>2
<1> HIDE DEF l
<1>5. DOMAIN part = 1 .. l /\ Len(part) = l /\ \A k \in 1 .. l : part[k] = p[o + k - 1]
    <2> DEFINE C == {p[k] : k \in 1 .. Len(p)}
    <2>1. o \in Int /\ e - 1 \in Int /\ \A k \in o .. e - 1 : p[k] \in C
        BY <1>1, <1>2
    <2> HIDE DEF C
    <2>2. /\ part \in Seq(C)
          /\ Len(part) = IF o <= e - 1 THEN e - 1 - o + 1 ELSE 0
          /\ \A k \in 1 .. e - 1 - o + 1 : part[k] = p[o + k - 1]
        BY <1>2, <2>1, SubSeqProperties
    <2>3. Len(part) = l /\ e - 1 - o + 1 = l
        BY <1>4, <2>2
    <2> QED BY <2>2, <2>3, LenProperties
<1>6. \A k \in 1 .. l : o + k - 1 \in S <=> part[k] = "."
    BY <1>4, <1>5
<1>7. s.ok <=> Len(part) # 1
    BY <1>3, <1>4, <1>5
<1>8. Plain(part)
    BY DEF part
<1>9. part[l] # SPACE
    BY <1>5, <1>8 DEF Plain
<1>10. CASE Dots(part) = {} /\ Len(part) <= NameSize
    <2>1. \A k \in 1 .. l : part[k] # "."
        BY <1>5, <1>10 DEF Dots
    <2>2. d = e
        <3>1. ASSUME NEW q \in S PROVE FALSE
            <4>1. q - o + 1 \in 1 .. l /\ o + (q - o + 1) - 1 = q
                BY <1>4
            <4> QED BY <1>6, <2>1, <4>1
        <3> QED BY <3>1 DEF LastDot
    <2> HIDE DEF d, S
    <2>3. ASSUME NEW k \in 1 .. NameSize PROVE s.name[k] = IF k <= l THEN part[k] ELSE SPACE
        <3>1. s.name[k] = IF o + k - 1 < d THEN p[o + k - 1] ELSE SPACE
            BY <1>3
        <3>2. (o + k - 1 < d <=> k <= l) /\ (k <= l => k \in 1 .. l)
            BY <1>1, <1>4, <2>2
        <3> QED BY <1>5, <3>1, <3>2
    <2>4. ASSUME NEW k \in 1 .. ExtSize PROVE s.extension[k] = SPACE
        BY <1>1, <1>3, <1>4, <2>2
    <2>5. IsSplit(part, s, l, 0)
        <3>1. l \in 1 .. NameSize /\ 0 \in 0 .. ExtSize /\ \A k \in 1 .. ExtSize : ~(k <= 0)
            BY <1>1, <1>4, <1>5, <1>10
        <3> QED BY <1>5, <1>9, <2>1, <2>3, <2>4, <3>1 DEF IsSplit
    <2> QED BY <1>7, <2>5 DEF part, s
<1>11. ASSUME NEW j \in 2 .. NameSize + 1, Dots(part) = {j}, part[j - 1] # SPACE,
              Len(part) - j \in 1 .. ExtSize
       PROVE  \E b, x : IsSplit(part, s, b, x)
    <2> DEFINE x == l - j
    <2>1. j \in Nat /\ j >= 2 /\ j <= NameSize + 1 /\ x \in 1 .. ExtSize /\ l = j + x
        BY <1>1, <1>4, <1>5, <1>11
    <2> HIDE DEF x
    <2>2. \A k \in 1 .. l : part[k] = "." <=> k = j
        BY <1>5, <1>11 DEF Dots
    <2>3. S = {o + j - 1}
        <3>1. o + j - 1 \in S
            BY <1>4, <1>6, <2>1, <2>2
        <3>2. ASSUME NEW q \in S PROVE q = o + j - 1
            <4>1. q - o + 1 \in 1 .. l /\ o + (q - o + 1) - 1 = q
                BY <1>4
            <4>2. q - o + 1 = j
                BY <1>6, <2>2, <4>1
            <4> QED BY <1>4, <2>1, <4>1, <4>2
        <3> QED BY <3>1, <3>2
    <2>4. d = o + j - 1
        <3>1. S \in SUBSET (0 .. o + j - 1) /\ S # {} /\ o + j - 1 \in Nat
            BY <1>4, <2>1, <2>3
        <3>2. Max(S) \in S /\ d = Max(S)
            BY <3>1, MaxOf DEF LastDot
        <3> QED BY <2>3, <3>1, <3>2
    <2> HIDE DEF d, S
    <2>5. ASSUME NEW k \in 1 .. NameSize
          PROVE  s.name[k] = IF k <= j - 1 THEN part[k] ELSE SPACE
        <3>1. s.name[k] = IF o + k - 1 < d THEN p[o + k - 1] ELSE SPACE
            BY <1>3
        <3>2. (o + k - 1 < d <=> k <= j - 1) /\ (k <= j - 1 => k \in 1 .. l)
            BY <1>1, <1>4, <2>1, <2>4
        <3> QED BY <1>5, <3>1, <3>2
    <2>6. ASSUME NEW k \in 1 .. ExtSize
          PROVE  s.extension[k] = IF k <= x THEN part[(j - 1) + 1 + k] ELSE SPACE
        <3>1. s.extension[k] = IF d + k < e THEN p[d + k] ELSE SPACE
            BY <1>3
        <3>2. d + k < e <=> k <= x
            BY <1>1, <1>4, <2>1, <2>4
        <3>3. ASSUME k <= x PROVE part[(j - 1) + 1 + k] = p[d + k]
            <4>1. (j - 1) + 1 + k \in 1 .. l /\ o + ((j - 1) + 1 + k) - 1 = d + k
                BY <1>1, <1>4, <2>1, <2>4, <3>3
            <4> QED BY <1>5, <4>1
        <3> QED BY <3>1, <3>2, <3>3
    <2>7. IsSplit(part, s, j - 1, x)
        <3>1. /\ j - 1 \in 1 .. NameSize /\ x \in 0 .. ExtSize /\ x > 0 /\ x # 0
              /\ (j - 1) + 1 = j /\ (j - 1) + 1 + x = l
            BY <1>1, <2>1
        <3>2. part[(j - 1) + 1] = "." /\ part[(j - 1) + 1 + x] # SPACE
            BY <1>4, <1>9, <2>1, <2>2, <3>1
        <3>3. \A k \in 1 .. j - 1 : part[k] # "."
            BY <2>1, <2>2
        <3> QED BY <1>5, <1>11, <2>5, <2>6, <3>1, <3>2, <3>3 DEF IsSplit
    <2> QED BY <2>7
<1> QED BY <1>7, <1>8, <1>10, <1>11 DEF Plain, part, s

-----------------------------------------------------------------------------
(***************************************************************************)
(* What a path names.                                                      *)
(***************************************************************************)
\* The directories in which the part after n others is looked for, if these name the
\* entries in A.
Dirs(root, n, A) ==
    IF n = 0 THEN {root} ELSE {e.cluster : e \in {x \in A : "directory" \in x.attr}}

\* The entries of some directories that a part names.
Inside(entries, D, part) == {e \in UNION {entries[d] : d \in D} : Names(part, e)}

\* f is the function that Named defines by recursion, for n parts.
IsNamedUpto(entries, root, p, f, n) ==
    f = [k \in 0 .. n |-> IF k = 0 THEN {}
                          ELSE Inside(entries, Dirs(root, k - 1, f[k - 1]), Part(p, k))]

\* It exists.
LEMMA NamedDefined ==
    ASSUME NEW entries, NEW root, NEW p, NEW n \in Nat
    PROVE  \E f : Named(entries, root, p, n) = f[n] /\ IsNamedUpto(entries, root, p, f, n)
<1> DEFINE Step(k, A) == Inside(entries, Dirs(root, k - 1, A), Part(p, k))
           Is(f, m) == f = [k \in 0 .. m |-> IF k = 0 THEN {} ELSE Step(k, f[k - 1])]
           S == {m \in Nat : ~ \E f : Is(f, m)}
<1> HIDE DEF Step
<1>1. S = {}
    <2>1. SUFFICES ASSUME S # {} PROVE FALSE
        OBVIOUS
    <2>2. PICK m \in S : \A k \in S : m <= k
        BY <2>1, Least
    <2>3. CASE m = 0
        <3>1. Is([k \in 0 .. 0 |-> {}], 0)
            OBVIOUS
        <3> QED BY <2>2, <2>3, <3>1
    <2>4. CASE m > 0
        <3>0. m \in Nat /\ m - 1 \in Nat /\ ~(m <= m - 1)
            BY <2>2, <2>4
        <3>1. m - 1 \in Nat /\ m - 1 \notin S
            <4> HIDE DEF S
            <4> QED BY <2>2, <3>0
        <3>2. PICK f : Is(f, m - 1)
            BY <3>1
        <3> DEFINE g == [k \in 0 .. m |-> IF k < m THEN f[k] ELSE Step(m, f[m - 1])]
        <3>3. ASSUME NEW k \in 0 .. m
              PROVE  g[k] = IF k = 0 THEN {} ELSE Step(k, g[k - 1])
            <4>1. CASE k = m
                BY <2>2, <2>4, <4>1
            <4>2. CASE k < m
                <5>1. k \in 0 .. m - 1 /\ (k # 0 => k - 1 \in 0 .. m /\ k - 1 < m)
                    BY <2>2, <4>2
                <5>2. f[k] = IF k = 0 THEN {} ELSE Step(k, f[k - 1])
                    BY <3>2, <5>1
                <5>3. g[k] = f[k] /\ (k # 0 => g[k - 1] = f[k - 1])
                    BY <4>2, <5>1
                <5> QED BY <5>2, <5>3
            <4> QED BY <2>2, <4>1, <4>2
        <3>4. Is(g, m)
            BY <3>3
        <3> QED BY <2>2, <3>4
    <2> QED BY <2>2, <2>3, <2>4
<1>2. PICK h : Is(h, n)
    BY <1>1
<1>3. ASSUME NEW f
      PROVE  f = [k \in 0 .. n |->
                    IF k = 0 THEN {}
                    ELSE LET dirs == IF k = 1 THEN {root}
                                     ELSE {e.cluster : e \in {x \in f[k - 1] : "directory" \in x.attr}}
                         IN  {e \in UNION {entries[d] : d \in dirs} : Names(Part(p, k), e)}]
             <=> Is(f, n)
    <2>1. ASSUME NEW k \in 0 .. n, k # 0
          PROVE  (LET dirs == IF k = 1 THEN {root}
                              ELSE {e.cluster : e \in {x \in f[k - 1] : "directory" \in x.attr}}
                  IN  {e \in UNION {entries[d] : d \in dirs} : Names(Part(p, k), e)})
                 = Step(k, f[k - 1])
        BY <2>1 DEF Step, Inside, Dirs
    <2> QED BY <2>1
<1>4. \A f : Is(f, n) <=> IsNamedUpto(entries, root, p, f, n)
    BY DEF IsNamedUpto, Step
<1> HIDE DEF Is
<1>5. \E f : Named(entries, root, p, n) = f[n] /\ Is(f, n)
    BY <1>2, <1>3 DEF Named
<1> QED BY <1>4, <1>5

\* What n + 1 parts name, from what n of them name.
LEMMA NamedNext ==
    ASSUME NEW entries, NEW root, NEW p, NEW n \in Nat
    PROVE  /\ Named(entries, root, p, 0) = {}
           /\ Named(entries, root, p, n + 1) =
                Inside(entries, Dirs(root, n, Named(entries, root, p, n)), Part(p, n + 1))
<1> DEFINE Is(f, m) == IsNamedUpto(entries, root, p, f, m)
           Step(k, A) == Inside(entries, Dirs(root, k - 1, A), Part(p, k))
<1>1. PICK f : Named(entries, root, p, n) = f[n] /\ Is(f, n)
    BY NamedDefined
<1>2. PICK g : Named(entries, root, p, n + 1) = g[n + 1] /\ Is(g, n + 1)
    <2>1. n + 1 \in Nat
        OBVIOUS
    <2> QED BY <2>1, NamedDefined
<1>3. PICK h : Named(entries, root, p, 0) = h[0] /\ Is(h, 0)
    BY NamedDefined
<1>4. \A k \in 0 .. n : f[k] = IF k = 0 THEN {} ELSE Step(k, f[k - 1])
    BY <1>1 DEF IsNamedUpto
<1>5. \A k \in 0 .. n + 1 : g[k] = IF k = 0 THEN {} ELSE Step(k, g[k - 1])
    BY <1>2 DEF IsNamedUpto
<1>6. h[0] = {}
    BY <1>3 DEF IsNamedUpto
<1> HIDE DEF Is, Step
<1> DEFINE S == {k \in 0 .. n : f[k] # g[k]}
<1>7. S = {}
    <2>1. SUFFICES ASSUME S # {} PROVE FALSE
        OBVIOUS
    <2>6. S \in SUBSET Nat
        OBVIOUS
    <2>2. PICK m \in S : \A k \in S : m <= k
        BY ONLY <2>1, <2>6, Least
    <2>3. m \in 0 .. n /\ m \in 0 .. n + 1 /\ f[m] # g[m]
        BY <2>2
    <2>4. CASE m = 0
        BY <1>4, <1>5, <2>3, <2>4
    <2>5. CASE m > 0
        <3>1. m - 1 \in 0 .. n /\ ~(m <= m - 1)
            BY <2>3, <2>5
        <3>2. f[m - 1] = g[m - 1]
            BY <2>2, <3>1
        <3>3. f[m] = Step(m, f[m - 1]) /\ g[m] = Step(m, g[m - 1])
            BY <1>4, <1>5, <2>3, <2>5
        <3> QED BY <2>3, <3>2, <3>3
    <2> QED BY <2>3, <2>4, <2>5
<1>8. f[n] = g[n]
    BY <1>7
<1>9. g[n + 1] = Step(n + 1, g[n])
    <2>1. n + 1 \in 0 .. n + 1 /\ n + 1 # 0 /\ (n + 1) - 1 = n
        OBVIOUS
    <2>2. g[n + 1] = Step(n + 1, g[(n + 1) - 1])
        BY <1>5, <2>1
    <2> QED BY <2>1, <2>2
<1>10. Step(n + 1, f[n]) = Inside(entries, Dirs(root, n, f[n]), Part(p, n + 1))
    <2>1. (n + 1) - 1 = n
        OBVIOUS
    <2> QED BY <2>1 DEF Step
<1> QED BY <1>1, <1>2, <1>3, <1>6, <1>8, <1>9, <1>10

\* Once parts name nothing, with more parts there is nothing either.
LEMMA NamedNothing ==
    ASSUME NEW entries, NEW root, NEW p, NEW n \in Nat \ {0}, NEW m \in Nat, n <= m,
           Named(entries, root, p, n) = {}
    PROVE  Named(entries, root, p, m) = {}
<1> DEFINE S == {k \in n .. m : Named(entries, root, p, k) # {}}
<1>1. SUFFICES ASSUME S # {} PROVE FALSE
    <2>1. m \in n .. m
        OBVIOUS
    <2> QED BY <1>1, <2>1
<1>0. S \in SUBSET Nat
    OBVIOUS
<1>2. PICK k \in S : \A j \in S : k <= j
    BY ONLY <1>0, <1>1, Least
<1>3. k \in n .. m /\ k # n
    BY <1>2
<1> DEFINE j == k - 1
<1>4. j \in n .. m /\ j \in Nat /\ j # 0 /\ j + 1 = k /\ ~(k <= j)
    BY <1>3
<1>5. Named(entries, root, p, j) = {}
    BY <1>2, <1>4
<1> HIDE DEF j
<1>6. Dirs(root, j, {}) = {}
    BY <1>4 DEF Dirs
<1>7. Named(entries, root, p, j + 1) = Inside(entries, {}, Part(p, j + 1))
    BY <1>4, <1>5, <1>6, NamedNext
<1>8. Inside(entries, {}, Part(p, j + 1)) = {}
    BY DEF Inside
<1> QED BY <1>2, <1>4, <1>7, <1>8

-----------------------------------------------------------------------------
(***************************************************************************)
(* The directories of a volume.                                            *)
(***************************************************************************)
\* The pieces of the assumption on volumes, for one directory.
LEMMA VolumeFacts ==
    ASSUME NEW v \in Volumes
    PROVE  /\ v.fixed \in BOOLEAN /\ (v.root = 0 <=> v.fixed)
           /\ v.root \in DOMAIN v.listing
           /\ Len(v.rootDir) \in Nat /\ DOMAIN v.rootDir = 1 .. Len(v.rootDir)
           /\ \A m \in v.marks : m.name[1] = NUL
<1>1. WellFormed(v)
    BY DirectoriesAssumption
<1>2. IsSeq(v.rootDir)
    BY <1>1 DEF WellFormed
<1> QED BY <1>1, <1>2, SeqDomain DEF WellFormed

LEMMA ListingFacts ==
    ASSUME NEW v \in Volumes, NEW d \in DOMAIN v.listing
    PROVE  LET l == v.listing[d]
           IN  /\ d \in Nat
               /\ Len(l) \in Nat /\ DOMAIN l = 1 .. Len(l) /\ Len(l) <= RoomFor(v, d)
               /\ \A k \in 1 .. Len(l) :
                    Dirent(l[k]) /\ l[k].name[1] # NUL /\ Holds(v, d, k, l[k])
               /\ Len(l) < RoomFor(v, d) => \E e \in v.marks : Holds(v, d, Len(l) + 1, e)
<1>1. WellFormed(v)
    BY DirectoriesAssumption
<1>2. IsDirectory(v, d) /\ d \in Nat
    BY <1>1 DEF WellFormed
<1>3. IsSeq(v.listing[d])
    BY <1>2 DEF IsDirectory
<1> QED BY <1>2, <1>3, SeqDomain DEF IsDirectory

LEMMA ChainFacts ==
    ASSUME NEW v \in Volumes, NEW d \in DOMAIN v.listing
    PROVE  LET c == v.chain[d]
           IN  /\ c \in Seq(Nat) /\ Len(c) \in Nat
               /\ ~(v.fixed /\ d = 0) => Len(c) > 0 /\ c[1] = d
               /\ \A k \in 1 .. Len(c) :
                    c[k] \in Nat /\ c[k] # EndOfChain
                    /\ v.next[c[k]] = IF k < Len(c) THEN c[k + 1] ELSE EndOfChain
<1>1. WellFormed(v)
    BY DirectoriesAssumption
<1>2. IsDirectory(v, d)
    BY <1>1 DEF WellFormed
<1>3. v.chain[d] \in Seq(Nat)
    BY <1>2 DEF IsDirectory
<1>4. Len(v.chain[d]) \in Nat /\ \A k \in 1 .. Len(v.chain[d]) : v.chain[d][k] \in Nat
    BY <1>3, LenProperties
<1> QED BY <1>2, <1>3, <1>4 DEF IsDirectory

LEMMA NamingFacts ==
    ASSUME NEW v \in Volumes, NEW d \in DOMAIN v.listing,
           NEW k \in 1 .. Len(v.listing[d]), InUse(v.listing[d][k])
    PROVE  LET e == v.listing[d][k]
           IN  /\ e.name[1] # SPACE
               /\ e.name[1] # "." => \A j \in 1 .. NameSize : e.name[j] # "."
               /\ "directory" \in e.attr /\ e.name # DotDot =>
                        e.cluster \in DOMAIN v.listing /\ e.cluster # 0
               /\ \A j \in 1 .. Len(v.listing[d]) :
                        InUse(v.listing[d][j]) /\ j # k =>
                            ~Names(Display(v.listing[d][j]), e)
<1>1. WellFormed(v)
    BY DirectoriesAssumption
<1>2. IsNamed(v.listing[d])
    BY <1>1 DEF WellFormed
<1>3. "directory" \in v.listing[d][k].attr /\ v.listing[d][k].name # DotDot =>
            v.listing[d][k].cluster \in DOMAIN v.listing /\ v.listing[d][k].cluster # 0
    BY <1>1 DEF WellFormed
<1> QED BY <1>2, <1>3 DEF IsNamed

\* The loop is about to read entry k of directory d.
Place(v, d, k, r, rc, c, i) ==
    /\ d \in DOMAIN v.listing /\ k \in 1 .. Len(v.listing[d]) + 1
    /\ r => v.fixed /\ d = 0 /\ k = rc + 1
    /\ ~r => /\ ~(v.fixed /\ d = 0)
             /\ i \in 0 .. PerCluster - 1
             /\ \E j \in 1 .. Len(v.chain[d]) :
                    c = v.chain[d][j] /\ k = (j - 1) * PerCluster + i + 1

\* What it reads is that entry, or the mark behind the last one.
LEMMA ReadFact ==
    ASSUME vol \in Volumes, rootCounter \in Nat, isRoot \in BOOLEAN, Searching, NEW d, NEW k,
           Place(vol, d, k, isRoot, rootCounter, cluster, index)
    PROVE  /\ k <= Len(vol.listing[d]) => Entry = vol.listing[d][k]
           /\ IsLast <=> k = Len(vol.listing[d]) + 1
<1> DEFINE l == vol.listing[d]
           c == vol.chain[d]
<1>1. d \in DOMAIN vol.listing /\ k \in 1 .. Len(l) + 1
    BY DEF Place
<1>2. /\ Len(l) \in Nat /\ Len(l) <= RoomFor(vol, d)
      /\ \A n \in 1 .. Len(l) : l[n].name[1] # NUL /\ Holds(vol, d, n, l[n])
      /\ Len(l) < RoomFor(vol, d) => \E e \in vol.marks : Holds(vol, d, Len(l) + 1, e)
    BY <1>1, ListingFacts
<1>3. /\ \A m \in vol.marks : m.name[1] = NUL
      /\ Len(vol.rootDir) \in Nat
    BY VolumeFacts
<1>4. Len(c) \in Nat /\ PerCluster \in Nat \ {0}
    BY <1>1, ChainFacts, DirectoriesAssumption
<1> HIDE DEF l
<1>5. k \in Nat /\ k >= 1
    BY <1>1, <1>2
<1>6. /\ \A e : Holds(vol, d, k, e) => Entry = e
      /\ k <= RoomFor(vol, d)
    <2>1. CASE isRoot
        <3>1. vol.fixed /\ d = 0 /\ k = rootCounter + 1 /\ rootCounter < Len(vol.rootDir)
            BY <2>1 DEF Place, Searching
        <3>2. Entry = vol.rootDir[k] /\ RoomFor(vol, d) = Len(vol.rootDir)
            BY <2>1, <3>1 DEF Entry, RoomFor
        <3>3. k <= Len(vol.rootDir)
            BY <1>3, <3>1
        <3> QED BY <3>1, <3>2, <3>3 DEF Holds
    <2>2. CASE ~isRoot
        <3>1. ~(vol.fixed /\ d = 0) /\ index \in 0 .. PerCluster - 1
            BY <2>2 DEF Place
        <3>2. PICK j \in 1 .. Len(c) : cluster = c[j] /\ k = (j - 1) * PerCluster + index + 1
            BY <2>2 DEF Place
        <3>3. j - 1 \in Nat /\ j \in Nat /\ j <= Len(c) /\ index \in Nat
            BY <1>4, <3>1, <3>2
        <3>4. PICK m \in Nat : m = (j - 1) * PerCluster
            BY <1>4, <3>3
        <3>5. (m + index) \div PerCluster = j - 1 /\ (m + index) % PerCluster = index
            BY <1>4, <3>1, <3>3, <3>4, DivUnique
        <3>6. k - 1 = m + index
            BY <3>2, <3>3, <3>4
        <3>7. /\ ((k - 1) \div PerCluster) + 1 = j
              /\ ((k - 1) % PerCluster) + 1 = index + 1
            BY <3>3, <3>5, <3>6
        <3>8. ASSUME NEW e, Holds(vol, d, k, e) PROVE Entry = e
            <4>1. vol.data[c[((k - 1) \div PerCluster) + 1]][((k - 1) % PerCluster) + 1] = e
                BY <3>1, <3>8 DEF Holds
            <4>2. vol.data[c[j]][index + 1] = e
                BY <3>7, <4>1
            <4> QED BY <2>2, <3>2, <4>2 DEF Entry
        <3>9. k <= Len(c) * PerCluster
            <4>1. PICK n \in Nat : n = Len(c)
                BY <1>4
            <4>2. (j - 1) * PerCluster + PerCluster <= n * PerCluster
                BY <1>4, <3>3, <4>1, Times
            <4>3. n * PerCluster \in Nat
                BY <1>4
            <4>4. k <= m + PerCluster
                BY <1>4, <3>1, <3>3, <3>4, <3>6, <1>5
            <4> QED BY <1>4, <1>5, <3>4, <4>1, <4>2, <4>3, <4>4
        <3>10. RoomFor(vol, d) = Len(c) * PerCluster
            BY <3>1 DEF RoomFor
        <3> QED BY <3>8, <3>9, <3>10
    <2> QED BY <2>1, <2>2
<1>7. CASE k <= Len(l)
    <2>1. Holds(vol, d, k, l[k]) /\ l[k].name[1] # NUL /\ k # Len(l) + 1
        BY <1>2, <1>5, <1>7
    <2>2. Entry = l[k]
        BY <1>6, <2>1
    <2> QED BY <2>1, <2>2 DEF IsLast, l
<1>8. CASE k = Len(l) + 1
    <2>1. RoomFor(vol, d) \in Nat
        <3>1. \A a \in Nat : a * PerCluster \in Nat
            BY <1>4
        <3> QED BY <1>3, <1>4, <3>1 DEF RoomFor
    <2>2. PICK e \in vol.marks : Holds(vol, d, k, e)
        BY <1>2, <1>6, <1>8, <2>1
    <2>3. Entry = e /\ e.name[1] = NUL
        BY <1>3, <1>6, <2>2
    <2> QED BY <1>2, <1>8, <2>3 DEF IsLast, l
<1> QED BY <1>1, <1>2, <1>7, <1>8 DEF l

-----------------------------------------------------------------------------
(***************************************************************************)
(* The comparison of a part with an entry of a directory.                  *)
(***************************************************************************)
\* There are at least as many characters in a path as parts.
LEMMA PartsFew == ASSUME NEW p \in Paths PROVE Parts(p) \in 0 .. Len(p)
<1>1. Len(p) \in Nat /\ Parts(p) \in Nat
    BY PathFacts, StartsFinite
<1>5. PICK m \in Nat : m = Len(p)
    BY <1>1
<1>6. IsFiniteSet(1 .. m) /\ Cardinality(1 .. m) = IF 1 > m THEN 0 ELSE m - 1 + 1
    BY FS_Interval
<1>2. IsFiniteSet(1 .. Len(p)) /\ Cardinality(1 .. Len(p)) = Len(p)
    BY <1>5, <1>6
<1>3. Starts(p) \in SUBSET (1 .. Len(p))
    BY DEF Starts
<1>4. Cardinality(Starts(p)) <= Cardinality(1 .. Len(p))
    BY <1>2, <1>3, FS_Subset
<1> QED BY <1>1, <1>2, <1>4 DEF Parts

\* An entry that is not passed over and has the name of a part is in use, is not the
\* one for the directory above, and there is such a part.
LEMMA MatchingEntry ==
    ASSUME NEW v \in Volumes, NEW p \in Paths, NEW n \in Nat, NEW d \in DOMAIN v.listing,
           NEW k \in 1 .. Len(v.listing[d]), NEW e, e = v.listing[d][k],
           e.attr \cap LongName = {}, Namecmp(SplitFileName(p, n), e)
    PROVE  InUse(e) /\ n < Parts(p) /\ e.name # DotDot
<1> DEFINE s == SplitFileName(p, n)
<1>1. NameSize \in Nat /\ 1 \in 1 .. NameSize
    BY DirectoriesAssumption
<1>2. \A j \in 1 .. NameSize : Charconvert(s.name[j]) = Charconvert(e.name[j])
    BY DEF Namecmp
<1>3. \A c : /\ Charconvert(c) = FREE <=> c = FREE
             /\ Charconvert(c) = "." <=> c = "."
             /\ Charconvert(c) = SPACE <=> c = SPACE
    BY SpecialKept
<1>4. s.name[1] # FREE
    BY <1>1, SplitCharacters
<1> HIDE DEF s
<1>5. InUse(e)
    <2>1. e.name[1] # FREE
        BY <1>1, <1>2, <1>3, <1>4
    <2>2. "volume" \notin e.attr
        BY DEF LongName
    <2> QED BY <2>1, <2>2 DEF InUse
<1>6. e.name[1] # SPACE
    BY <1>5, NamingFacts
<1>7. n < Parts(p)
    <2>1. SUFFICES ASSUME n >= Parts(p) PROVE FALSE
        BY StartsFinite
    <2>2. s.name[1] = SPACE
        BY <2>1, SplitBehind DEF s
    <2> QED BY <1>1, <1>2, <1>3, <1>6, <2>2
<1>8. e.name # DotDot
    <2>1. SUFFICES ASSUME e.name = DotDot PROVE FALSE
        OBVIOUS
    <2>2. ASSUME NEW j \in 1 .. NameSize PROVE s.name[j] = DotDot[j]
        <3>1. DotDot[j] \in {".", SPACE}
            BY DEF DotDot
        <3> QED BY <1>2, <1>3, <2>1, <3>1
    <2>3. s.name = [j \in 1 .. NameSize |-> s.name[j]]
        BY SplitAt DEF s
    <2>4. s.name = DotDot
        <3>1. [j \in 1 .. NameSize |-> s.name[j]] = [j \in 1 .. NameSize |-> DotDot[j]]
            BY <2>2
        <3>2. [j \in 1 .. NameSize |-> DotDot[j]] = DotDot
            BY DEF DotDot
        <3> QED BY <2>3, <3>1, <3>2
    <2>5. n \in 0 .. Len(p)
        BY <1>7, PartsFew, PathFacts
    <2> QED BY <2>4, <2>5, DirectoriesAssumption DEF s
<1> QED BY <1>5, <1>7, <1>8

\* Plain parts compare equal with exactly the entries in use that have their name.
LEMMA MatchesNamed ==
    ASSUME NEW v \in Volumes, NEW p \in Paths, NEW n \in Nat, n < Parts(p),
           Plain(Part(p, n + 1)), NEW d \in DOMAIN v.listing,
           NEW k \in 1 .. Len(v.listing[d]), NEW e, e = v.listing[d][k], InUse(e)
    PROVE  Namecmp(SplitFileName(p, n), e) <=> Names(Part(p, n + 1), e)
<1>1. PICK b, x : IsSplit(Part(p, n + 1), SplitFileName(p, n), b, x)
    BY SplitPlain
<1>2. Dirent(e)
    BY ListingFacts
<1>3. e.name[1] # SPACE /\ (e.name[1] # "." => \A j \in 1 .. NameSize : e.name[j] # ".")
    BY NamingFacts
<1> QED BY <1>1, <1>2, <1>3, MatchFact
-----------------------------------------------------------------------------
(***************************************************************************)
(* The way of the search.                                                  *)
(***************************************************************************)
PlainParts(p) == \A n \in 1 .. Parts(p) : Plain(Part(p, n))

\* The entries of the files and directories that the first n parts of a path name, and
\* those of them whose attributes let them be found.
NamedListed(v, p, n)   == Named(Listed(v), v.root, p, n)
NamedOrdinary(v, p, n) == Named(Ordinary(v), v.root, p, n)

IsOrdinary(e) == InUse(e) /\ e.attr \cap LongName = {}

\* After n parts, the search is in a directory that the path leads to.
LeadsTo(v, p, n, d) == d \in Dirs(v.root, n, NamedListed(v, p, n))

\* It leads to no other one, unless over an entry that is passed over, and to no file.
LeadsOnlyTo(v, p, n, d) ==
    /\ Dirs(v.root, n, NamedOrdinary(v, p, n)) \subseteq {d}
    /\ \A e \in NamedOrdinary(v, p, n) : "directory" \in e.attr

\* The entries before k do not have the name of the next part.
Passed(v, p, n, d, k) ==
    n < Parts(p) =>
        \A i \in 1 .. k - 1 : IsOrdinary(v.listing[d][i]) =>
                                ~Names(Part(p, n + 1), v.listing[d][i])

\* The entries of directories.
LEMMA ListedFact ==
    ASSUME NEW v \in Volumes
    PROVE  /\ \A d \in DOMAIN v.listing : Listed(v)[d] =
                {e \in {v.listing[d][k] : k \in DOMAIN v.listing[d]} : InUse(e)}
           /\ \A d \in DOMAIN v.listing : Ordinary(v)[d] =
                {e \in {v.listing[d][k] : k \in DOMAIN v.listing[d]} : IsOrdinary(e)}
<1>1. ASSUME NEW d \in DOMAIN v.listing
      PROVE  Listed(v)[d] = {e \in {v.listing[d][k] : k \in DOMAIN v.listing[d]} : InUse(e)}
    BY DEF Listed
<1>2. ASSUME NEW d \in DOMAIN v.listing
      PROVE  Ordinary(v)[d] = {e \in Listed(v)[d] : e.attr \cap LongName = {}}
    BY DEF Ordinary
<1> QED BY <1>1, <1>2 DEF IsOrdinary

\* Where the path leads, an entry with the name of the next part is named by the path
\* to there.
LEMMA LeadsOn ==
    ASSUME NEW v \in Volumes, NEW p \in Paths, NEW n \in Nat, NEW d \in DOMAIN v.listing,
           LeadsTo(v, p, n, d), NEW k \in 1 .. Len(v.listing[d]),
           InUse(v.listing[d][k]), Names(Part(p, n + 1), v.listing[d][k])
    PROVE  v.listing[d][k] \in NamedListed(v, p, n + 1)
<1> DEFINE e == v.listing[d][k]
<1>1. NamedListed(v, p, n + 1) =
            Inside(Listed(v), Dirs(v.root, n, NamedListed(v, p, n)), Part(p, n + 1))
    BY NamedNext DEF NamedListed
<1>2. e \in Listed(v)[d]
    <2>1. k \in DOMAIN v.listing[d]
        BY ListingFacts
    <2> QED BY <2>1, ListedFact
<1> QED BY <1>1, <1>2 DEF LeadsTo, Inside

\* If the path leads nowhere else, it is the only ordinary one.
LEMMA LeadsOnlyOn ==
    ASSUME NEW v \in Volumes, NEW p \in Paths, NEW n \in Nat, NEW d \in DOMAIN v.listing,
           LeadsOnlyTo(v, p, n, d)
    PROVE  \A e \in NamedOrdinary(v, p, n + 1) : \E k \in 1 .. Len(v.listing[d]) :
                e = v.listing[d][k] /\ IsOrdinary(e) /\ Names(Part(p, n + 1), e)
<1>1. NamedOrdinary(v, p, n + 1) =
            Inside(Ordinary(v), Dirs(v.root, n, NamedOrdinary(v, p, n)), Part(p, n + 1))
    BY NamedNext DEF NamedOrdinary
<1>2. ASSUME NEW e \in NamedOrdinary(v, p, n + 1)
      PROVE  e \in Ordinary(v)[d] /\ Names(Part(p, n + 1), e)
    <2>1. PICK c \in Dirs(v.root, n, NamedOrdinary(v, p, n)) :
                e \in Ordinary(v)[c] /\ Names(Part(p, n + 1), e)
        BY <1>1 DEF Inside
    <2>2. c = d
        BY DEF LeadsOnlyTo
    <2> QED BY <2>1, <2>2
<1>3. DOMAIN v.listing[d] = 1 .. Len(v.listing[d])
    BY ListingFacts
<1> QED BY <1>2, <1>3, ListedFact

\* Into a directory: the path leads to it, and to it only if it is ordinary.
LEMMA DescendWay ==
    ASSUME NEW v \in Volumes, NEW p \in Paths, NEW n \in Nat, n < Parts(p),
           NEW d \in DOMAIN v.listing, NEW k \in 1 .. Len(v.listing[d]),
           NEW e, e = v.listing[d][k], InUse(e), Names(Part(p, n + 1), e),
           "directory" \in e.attr
    PROVE  /\ LeadsTo(v, p, n, d) => LeadsTo(v, p, n + 1, e.cluster)
           /\ LeadsOnlyTo(v, p, n, d) => LeadsOnlyTo(v, p, n + 1, e.cluster)
<1>1. ASSUME LeadsTo(v, p, n, d) PROVE LeadsTo(v, p, n + 1, e.cluster)
    <2>1. e \in NamedListed(v, p, n + 1)
        BY <1>1, LeadsOn
    <2>2. n + 1 # 0
        OBVIOUS
    <2> QED BY <2>1, <2>2 DEF LeadsTo, Dirs
<1>2. ASSUME LeadsOnlyTo(v, p, n, d) PROVE LeadsOnlyTo(v, p, n + 1, e.cluster)
    <2>1. ASSUME NEW x \in NamedOrdinary(v, p, n + 1) PROVE x = e
        <3>1. PICK j \in 1 .. Len(v.listing[d]) :
                    x = v.listing[d][j] /\ IsOrdinary(x) /\ Names(Part(p, n + 1), x)
            BY <1>2, LeadsOnlyOn
        <3>2. Upper(Part(p, n + 1)) = Upper(Display(x)) /\ Upper(Part(p, n + 1)) = Upper(Display(e))
            BY <3>1 DEF Names
        <3>3. Names(Display(x), e)
            BY <3>2 DEF Names
        <3>4. j = k
            BY <3>1, <3>3, NamingFacts DEF IsOrdinary
        <3> QED BY <3>1, <3>4
    <2>2. n + 1 # 0
        OBVIOUS
    <2>3. Dirs(v.root, n + 1, NamedOrdinary(v, p, n + 1)) \subseteq {e.cluster}
        BY <2>1, <2>2 DEF Dirs
    <2> QED BY <2>1, <2>3 DEF LeadsOnlyTo
<1> QED BY <1>1, <1>2

\* Onto a file: the path, or its beginning, names it.
LEMMA OpenWay ==
    ASSUME NEW v \in Volumes, NEW p \in Paths, NEW n \in Nat, n < Parts(p),
           NEW d \in DOMAIN v.listing, NEW k \in 1 .. Len(v.listing[d]),
           NEW e, e = v.listing[d][k], InUse(e), Names(Part(p, n + 1), e),
           "directory" \notin e.attr, LeadsTo(v, p, n, d)
    PROVE  n + 1 \in 1 .. Parts(p) /\ e \in Files(Listed(v), v.root, p, n + 1)
<1>1. e \in NamedListed(v, p, n + 1)
    BY LeadsOn
<1>2. Parts(p) \in Nat
    BY StartsFinite
<1> QED BY <1>1, <1>2 DEF Files, NamedListed

\* If no entry of the directory is the one, the path names no file.
LEMMA NothingFound ==
    ASSUME NEW v \in Volumes, NEW p \in Paths, NEW n \in 0 .. Parts(p),
           NEW d \in DOMAIN v.listing, LeadsOnlyTo(v, p, n, d),
           Passed(v, p, n, d, Len(v.listing[d]) + 1)
    PROVE  Files(Ordinary(v), v.root, p, Parts(p)) = {}
<1>1. Parts(p) \in Nat /\ n \in Nat
    BY StartsFinite
<1>2. CASE n = Parts(p)
    BY <1>2 DEF Files, LeadsOnlyTo, NamedOrdinary
<1>3. CASE n < Parts(p)
    <2>1. NamedOrdinary(v, p, n + 1) = {}
        <3>1. SUFFICES ASSUME NEW e \in NamedOrdinary(v, p, n + 1) PROVE FALSE
            OBVIOUS
        <3>2. PICK k \in 1 .. Len(v.listing[d]) :
                    e = v.listing[d][k] /\ IsOrdinary(e) /\ Names(Part(p, n + 1), e)
            BY <1>1, LeadsOnlyOn
        <3>3. Len(v.listing[d]) \in Nat
            BY ListingFacts
        <3>4. k \in 1 .. (Len(v.listing[d]) + 1) - 1
            BY <3>3
        <3> QED BY <1>3, <3>2, <3>4 DEF Passed
    <2>2. n + 1 \in Nat \ {0} /\ n + 1 <= Parts(p)
        BY <1>1, <1>3
    <2>3. NamedOrdinary(v, p, Parts(p)) = {}
        BY <1>1, <2>1, <2>2, NamedNothing DEF NamedOrdinary
    <2> QED BY <2>3 DEF Files, NamedOrdinary
<1> QED BY <1>1, <1>2, <1>3
-----------------------------------------------------------------------------
(***************************************************************************)
(* The invariant.                                                          *)
(***************************************************************************)
\* While the search goes on, it is at entry k of directory d, where the path has led
\* it, and if the path can lead to a file, only to there.
OnTheWay(v, p, n, d, k) ==
    PlainParts(p) => /\ LeadsTo(v, p, n, d)
                     /\ LeadsOnlyTo(v, p, n, d)
                     /\ Passed(v, p, n, d, k)

Searched ==
    \E d \in DOMAIN vol.listing : \E k \in 1 .. Len(vol.listing[d]) + 1 :
        /\ Place(vol, d, k, isRoot, rootCounter, cluster, index)
        /\ OnTheWay(vol, path, pathCounter, d, k)

IInv ==
    /\ vol \in Volumes /\ path \in Paths
    /\ TypeOK
    /\ pc = "search" => Searched
    /\ OpensNamed
    /\ FindsNamed

\* The numbers of a state.
LEMMA TypeFacts ==
    ASSUME IInv
    PROVE  /\ vol \in Volumes /\ path \in Paths
           /\ pathCounter \in Nat /\ pathCounter <= Parts(path) /\ Parts(path) \in Nat
           /\ rootCounter \in Nat /\ rootCounter <= Len(vol.rootDir) /\ Len(vol.rootDir) \in Nat
           /\ isRoot \in BOOLEAN /\ cluster \in Nat /\ index \in Nat /\ index <= PerCluster
           /\ PerCluster \in Nat \ {0}
           /\ pc = "search" => index < PerCluster
           /\ pc \in {"search", "found", "missing"}
           /\ pc # "found" => file = NoFile
<1>1. vol \in Volumes /\ path \in Paths /\ TypeOK
    BY DEF IInv
<1>2. Parts(path) \in Nat /\ Len(vol.rootDir) \in Nat /\ PerCluster \in Nat \ {0}
    BY <1>1, StartsFinite, VolumeFacts, DirectoriesAssumption
<1> QED BY <1>1, <1>2 DEF TypeOK

LEMMA InitInv == Init => IInv
<1> SUFFICES ASSUME Init PROVE IInv
    OBVIOUS
<1>1. /\ vol \in Volumes /\ path \in Paths /\ pathCounter = 0 /\ isRoot = vol.fixed
      /\ rootCounter = 0 /\ cluster = vol.root /\ index = 0 /\ file = NoFile
      /\ pc = "search"
    BY DEF Init
<1> DEFINE d == vol.root
<1>2. /\ vol.fixed \in BOOLEAN /\ (d = 0 <=> vol.fixed) /\ d \in DOMAIN vol.listing
      /\ Len(vol.rootDir) \in Nat
    BY <1>1, VolumeFacts
<1>3. d \in Nat /\ Len(vol.listing[d]) \in Nat
    BY <1>1, <1>2, ListingFacts
<1>4. Parts(path) \in Nat /\ PerCluster \in Nat \ {0}
    BY <1>1, StartsFinite, DirectoriesAssumption
<1>5. TypeOK
    BY <1>1, <1>2, <1>3, <1>4 DEF TypeOK
<1>6. Place(vol, d, 1, isRoot, rootCounter, cluster, index)
    <2>1. ASSUME ~isRoot
          PROVE  \E j \in 1 .. Len(vol.chain[d]) :
                    cluster = vol.chain[d][j] /\ 1 = (j - 1) * PerCluster + index + 1
        <3>1. Len(vol.chain[d]) \in Nat /\ Len(vol.chain[d]) > 0 /\ vol.chain[d][1] = d
            BY <1>1, <1>2, <2>1, ChainFacts
        <3>2. 1 \in 1 .. Len(vol.chain[d]) /\ 1 = (1 - 1) * PerCluster + index + 1
            BY <1>1, <1>4, <3>1
        <3> QED BY <1>1, <3>1, <3>2
    <2>2. 1 \in 1 .. Len(vol.listing[d]) + 1 /\ 1 = rootCounter + 1 /\ index \in 0 .. PerCluster - 1
        BY <1>1, <1>3, <1>4
    <2> QED BY <1>1, <1>2, <2>1, <2>2 DEF Place
<1>7. OnTheWay(vol, path, pathCounter, d, 1)
    <2>1. Dirs(vol.root, 0, NamedListed(vol, path, 0)) = {d}
          /\ Dirs(vol.root, 0, NamedOrdinary(vol, path, 0)) = {d}
        BY DEF Dirs
    <2>2. NamedOrdinary(vol, path, 0) = {}
        BY NamedNext DEF NamedOrdinary
    <2>3. 1 .. 1 - 1 = {}
        OBVIOUS
    <2> QED BY <1>1, <2>1, <2>2, <2>3 DEF OnTheWay, LeadsTo, LeadsOnlyTo, Passed
<1>8. Searched
    <2>1. 1 \in 1 .. Len(vol.listing[d]) + 1
        BY <1>3
    <2> QED BY <1>2, <1>6, <1>7, <2>1 DEF Searched
<1> QED BY <1>1, <1>5, <1>8 DEF IInv, OpensNamed, FindsNamed

\* All entries of a directory have been passed: the path names no file.
LEMMA MissingNamed ==
    ASSUME IInv, NEW d \in DOMAIN vol.listing,
           OnTheWay(vol, path, pathCounter, d, Len(vol.listing[d]) + 1), PlainPath
    PROVE  Files(Ordinary(vol), vol.root, path, Parts(path)) = {}
<1>1. vol \in Volumes /\ path \in Paths /\ pathCounter \in 0 .. Parts(path)
    BY TypeFacts
<1>2. PlainParts(path)
    BY DEF PlainPath, PlainParts
<1> QED BY <1>1, <1>2, NothingFound DEF OnTheWay

LEMMA EndRootInv == IInv /\ EndRoot => IInv'
<1> SUFFICES ASSUME IInv, EndRoot PROVE IInv'
    OBVIOUS
<1>1. /\ pc = "search" /\ isRoot /\ rootCounter >= Len(vol.rootDir) /\ pc' = "missing"
      /\ UNCHANGED <<vol, path, pathCounter, isRoot, rootCounter, cluster, index, file>>
    BY DEF EndRoot
<1>2. TypeOK'
    BY <1>1, TypeFacts DEF IInv, TypeOK
<1>3. ASSUME PlainPath PROVE Files(Ordinary(vol), vol.root, path, Parts(path)) = {}
    <2>1. PICK d \in DOMAIN vol.listing : \E k \in 1 .. Len(vol.listing[d]) + 1 :
                /\ Place(vol, d, k, isRoot, rootCounter, cluster, index)
                /\ OnTheWay(vol, path, pathCounter, d, k)
        BY <1>1 DEF IInv, Searched
    <2>2. PICK k \in 1 .. Len(vol.listing[d]) + 1 :
                /\ Place(vol, d, k, isRoot, rootCounter, cluster, index)
                /\ OnTheWay(vol, path, pathCounter, d, k)
        BY <2>1
    <2>3. vol.fixed /\ d = 0 /\ k = rootCounter + 1
        BY <1>1, <2>2 DEF Place
    <2>4. Len(vol.listing[d]) \in Nat /\ Len(vol.listing[d]) <= Len(vol.rootDir)
        <3>1. RoomFor(vol, d) = Len(vol.rootDir)
            BY <2>3 DEF RoomFor
        <3> QED BY <3>1, ListingFacts, TypeFacts
    <2>5. k = Len(vol.listing[d]) + 1
        BY <1>1, <2>3, <2>4, TypeFacts
    <2> QED BY <1>3, <2>2, <2>5, MissingNamed
<1> QED BY <1>1, <1>2, <1>3
        DEF IInv, OpensNamed, FindsNamed, PlainPath, OneLetter

\* Where the search is, and what it reads there.
LEMMA Reading ==
    ASSUME IInv, Searching
    PROVE  \E d \in DOMAIN vol.listing : \E k \in 1 .. Len(vol.listing[d]) + 1 :
                /\ Place(vol, d, k, isRoot, rootCounter, cluster, index)
                /\ OnTheWay(vol, path, pathCounter, d, k)
                /\ Len(vol.listing[d]) \in Nat
                /\ IsLast => k = Len(vol.listing[d]) + 1
                /\ ~IsLast => k \in 1 .. Len(vol.listing[d]) /\ Entry = vol.listing[d][k]
<1>1. PICK d \in DOMAIN vol.listing : \E k \in 1 .. Len(vol.listing[d]) + 1 :
            /\ Place(vol, d, k, isRoot, rootCounter, cluster, index)
            /\ OnTheWay(vol, path, pathCounter, d, k)
    BY DEF IInv, Searching, Searched
<1>2. PICK k \in 1 .. Len(vol.listing[d]) + 1 :
            /\ Place(vol, d, k, isRoot, rootCounter, cluster, index)
            /\ OnTheWay(vol, path, pathCounter, d, k)
    BY <1>1
<1>3. Len(vol.listing[d]) \in Nat
    BY TypeFacts, ListingFacts
<1>4. /\ k <= Len(vol.listing[d]) => Entry = vol.listing[d][k]
      /\ IsLast <=> k = Len(vol.listing[d]) + 1
    BY <1>2, TypeFacts, ReadFact
<1>5. ~IsLast => k \in 1 .. Len(vol.listing[d]) /\ Entry = vol.listing[d][k]
    BY <1>3, <1>4
<1> QED BY <1>2, <1>3, <1>4, <1>5

\* A plain part that cannot be split off has one character.
LEMMA NotSplit ==
    ASSUME IInv, ~Splits, pathCounter < Parts(path), PlainPath
    PROVE  OneLetter
<1> DEFINE n == pathCounter + 1
<1>1. n \in 1 .. Parts(path) /\ path \in Paths /\ pathCounter \in Nat
    BY TypeFacts
<1>2. Plain(Part(path, n))
    BY <1>1 DEF PlainPath
<1>3. Len(Part(path, n)) = 1
    BY <1>1, <1>2, SplitPlain DEF Splits
<1> QED BY <1>1, <1>3 DEF OneLetter

LEMMA GiveUpInv == IInv /\ GiveUp => IInv'
<1> SUFFICES ASSUME IInv, GiveUp PROVE IInv'
    OBVIOUS
<1>1. /\ Searching /\ (IsLast \/ (~IsSkipped /\ ~Splits)) /\ pc' = "missing" /\ Count
      /\ UNCHANGED <<vol, path, pathCounter, isRoot, cluster, file>>
    BY DEF GiveUp
<1>2. /\ isRoot => rootCounter' = rootCounter + 1 /\ index' = index
                   /\ rootCounter < Len(vol.rootDir)
      /\ ~isRoot => index' = index + 1 /\ rootCounter' = rootCounter
      /\ pc = "search" /\ index < PerCluster
    BY <1>1, TypeFacts DEF Count, Searching
<1>3. rootCounter' \in 0 .. Len(vol.rootDir) /\ index' \in 0 .. PerCluster
    BY <1>2, TypeFacts
<1>4. TypeOK'
    BY <1>1, <1>2, <1>3, TypeFacts DEF IInv, TypeOK
<1>5. ASSUME PlainPath, ~OneLetter
      PROVE  Files(Ordinary(vol), vol.root, path, Parts(path)) = {}
    <2>1. PICK d \in DOMAIN vol.listing : \E k \in 1 .. Len(vol.listing[d]) + 1 :
                /\ OnTheWay(vol, path, pathCounter, d, k)
                /\ Len(vol.listing[d]) \in Nat
                /\ IsLast => k = Len(vol.listing[d]) + 1
        BY <1>1, Reading
    <2>2. CASE IsLast
        BY <1>5, <2>1, <2>2, MissingNamed
    <2>3. CASE ~Splits
        <3>1. ~(pathCounter < Parts(path))
            BY <1>5, <2>3, NotSplit
        <3>2. pathCounter = Parts(path)
            BY <3>1, TypeFacts
        <3>3. LeadsOnlyTo(vol, path, pathCounter, d)
            BY <1>5, <2>1 DEF OnTheWay, PlainPath, PlainParts
        <3> QED BY <3>2, <3>3 DEF Files, LeadsOnlyTo, NamedOrdinary
    <2> QED BY <1>1, <2>2, <2>3
<1> QED BY <1>1, <1>4, <1>5
        DEF IInv, OpensNamed, FindsNamed, PlainPath, OneLetter

\* One entry more has been passed.
LEMMA PassWay ==
    ASSUME IInv, NEW d \in DOMAIN vol.listing, NEW k \in 1 .. Len(vol.listing[d]),
           Entry = vol.listing[d][k], IsSkipped \/ ~IsMatch,
           OnTheWay(vol, path, pathCounter, d, k)
    PROVE  OnTheWay(vol, path, pathCounter, d, k + 1)
<1> DEFINE n == pathCounter
           l == vol.listing[d]
<1>1. SUFFICES ASSUME PlainParts(path), n < Parts(path), NEW i \in 1 .. (k + 1) - 1,
                      IsOrdinary(l[i])
               PROVE  ~Names(Part(path, n + 1), l[i])
    BY DEF OnTheWay, Passed
<1>2. Len(l) \in Nat
    BY TypeFacts, ListingFacts
<1>3. CASE i < k
    <2>1. i \in 1 .. k - 1
        BY <1>2, <1>3
    <2> QED BY <1>1, <2>1 DEF OnTheWay, Passed
<1>4. CASE i = k
    <2>1. InUse(l[k]) /\ ~IsSkipped
        BY <1>1, <1>4 DEF IsOrdinary, IsSkipped
    <2>2. ~Namecmp(SplitFileName(path, n), l[k])
        BY <2>1 DEF IsMatch
    <2>3. Plain(Part(path, n + 1)) /\ n \in Nat
        <3>1. n + 1 \in 1 .. Parts(path) /\ n \in Nat
            BY <1>1, TypeFacts
        <3> QED BY <1>1, <3>1 DEF PlainParts
    <2>4. vol \in Volumes /\ path \in Paths
        BY TypeFacts
    <2> QED BY <1>1, <1>4, <2>1, <2>2, <2>3, <2>4, MatchesNamed
<1> QED BY <1>1, <1>2, <1>3, <1>4

LEMMA PassInv == IInv /\ Pass => IInv'
<1> SUFFICES ASSUME IInv, Pass PROVE IInv'
    OBVIOUS
<1>1. /\ Searching /\ ~IsLast /\ (IsSkipped \/ ~IsMatch)
      /\ UNCHANGED <<vol, path, pathCounter, isRoot, file>> /\ pc = "search"
    BY DEF Pass, Searching
<1>2. PICK d \in DOMAIN vol.listing : \E k \in 1 .. Len(vol.listing[d]) + 1 :
            /\ Place(vol, d, k, isRoot, rootCounter, cluster, index)
            /\ OnTheWay(vol, path, pathCounter, d, k)
            /\ Len(vol.listing[d]) \in Nat
            /\ k \in 1 .. Len(vol.listing[d]) /\ Entry = vol.listing[d][k]
    BY <1>1, Reading
<1>3. PICK k \in 1 .. Len(vol.listing[d]) :
            /\ Place(vol, d, k, isRoot, rootCounter, cluster, index)
            /\ OnTheWay(vol, path, pathCounter, d, k)
            /\ Len(vol.listing[d]) \in Nat
            /\ Entry = vol.listing[d][k]
    BY <1>2
<1>4. OnTheWay(vol, path, pathCounter, d, k + 1)
    BY <1>1, <1>3, PassWay
<1>5. k + 1 \in 1 .. Len(vol.listing[d]) + 1
    BY <1>3
<1> DEFINE c == vol.chain[d]
<1>6. CASE isRoot
    <2>1. /\ rootCounter' = rootCounter + 1 /\ UNCHANGED <<cluster, index, pc>>
          /\ rootCounter < Len(vol.rootDir)
        BY <1>1, <1>6 DEF Pass, Searching
    <2>2. rootCounter' \in 0 .. Len(vol.rootDir)
        BY <2>1, TypeFacts
    <2>3. TypeOK'
        BY <1>1, <2>1, <2>2, TypeFacts DEF IInv, TypeOK
    <2>4. Place(vol, d, k + 1, isRoot, rootCounter + 1, cluster, index)
        BY <1>3, <1>5, <1>6 DEF Place
    <2>5. Searched'
        BY <1>1, <1>4, <1>5, <2>1, <2>4 DEF Searched
    <2> QED BY <1>1, <2>1, <2>3, <2>5 DEF IInv, OpensNamed, FindsNamed
<1>7. CASE ~isRoot
    <2>1. /\ ~(vol.fixed /\ d = 0) /\ index \in 0 .. PerCluster - 1
          /\ rootCounter' = rootCounter
        BY <1>3, <1>7 DEF Place, Pass
    <2>2. PICK j \in 1 .. Len(c) : cluster = c[j] /\ k = (j - 1) * PerCluster + index + 1
        BY <1>3, <1>7 DEF Place
    <2>3. /\ Len(c) \in Nat /\ PerCluster \in Nat \ {0} /\ j \in Nat
          /\ vol.next[c[j]] = IF j < Len(c) THEN c[j + 1] ELSE EndOfChain
          /\ \A i \in 1 .. Len(c) : c[i] \in Nat /\ c[i] # EndOfChain
        BY ChainFacts, TypeFacts
    <2>4. CASE index + 1 < PerCluster
        <3>1. index' = index + 1 /\ UNCHANGED <<cluster, pc>>
            BY <1>7, <2>4 DEF Pass
        <3>2. TypeOK'
            BY <1>1, <2>1, <2>4, <3>1, TypeFacts DEF IInv, TypeOK
        <3>3. k + 1 = (j - 1) * PerCluster + (index + 1) + 1 /\ index + 1 \in 0 .. PerCluster - 1
            <4>1. PICK m \in Nat : m = (j - 1) * PerCluster
                BY <2>2, <2>3
            <4> QED BY <2>1, <2>2, <2>3, <2>4, <4>1
        <3>4. Place(vol, d, k + 1, isRoot, rootCounter, cluster, index + 1)
            BY <1>5, <1>7, <2>1, <2>2, <3>3 DEF Place
        <3>5. Searched'
            BY <1>1, <1>4, <1>5, <2>1, <3>1, <3>4 DEF Searched
        <3> QED BY <1>1, <3>1, <3>2, <3>5 DEF IInv, OpensNamed, FindsNamed
    <2>5. CASE ~(index + 1 < PerCluster)
        <3>1. /\ index' = 0 /\ cluster' = vol.next[c[j]]
              /\ pc' = IF cluster' = EndOfChain THEN "missing" ELSE "search"
            BY <1>7, <2>2, <2>5 DEF Pass
        <3>2. k + 1 = j * PerCluster + 1
            <4>1. PICK m \in Nat : m = (j - 1) * PerCluster
                BY <2>2, <2>3
            <4>2. j * PerCluster = m + PerCluster
                BY <2>2, <2>3, <4>1
            <4>3. index + 1 = PerCluster
                BY <2>1, <2>3, <2>5
            <4> QED BY <2>1, <2>2, <2>3, <4>1, <4>2, <4>3
        <3>3. CASE j < Len(c)
            <4>1. j + 1 \in 1 .. Len(c) /\ cluster' = c[j + 1] /\ cluster' \in Nat
                BY <2>2, <2>3, <3>1, <3>3
            <4>2. pc' = "search"
                BY <2>3, <3>1, <4>1
            <4>3. TypeOK'
                BY <1>1, <2>1, <2>3, <3>1, <4>1, <4>2, TypeFacts DEF IInv, TypeOK
            <4>4. k + 1 = ((j + 1) - 1) * PerCluster + 0 + 1 /\ 0 \in 0 .. PerCluster - 1
                <5>1. (j + 1) - 1 = j /\ j * PerCluster \in Nat
                    BY <2>3
                <5> QED BY <2>3, <3>2, <5>1
            <4>5. Place(vol, d, k + 1, isRoot, rootCounter, c[j + 1], 0)
                BY <1>5, <1>7, <2>1, <4>1, <4>4 DEF Place
            <4>6. Searched'
                BY <1>1, <1>4, <1>5, <2>1, <3>1, <4>1, <4>5 DEF Searched
            <4> QED BY <1>1, <4>2, <4>3, <4>6 DEF IInv, OpensNamed, FindsNamed
        <3>4. CASE ~(j < Len(c))
            <4>1. cluster' = EndOfChain /\ pc' = "missing"
                BY <2>3, <3>1, <3>4
            <4>2. TypeOK'
                BY <1>1, <2>1, <2>3, <3>1, <4>1, TypeFacts DEF IInv, TypeOK, EndOfChain
            <4>3. k + 1 = Len(vol.listing[d]) + 1
                <5>1. j = Len(c)
                    BY <2>2, <2>3, <3>4
                <5>2. RoomFor(vol, d) = j * PerCluster
                    BY <2>1, <5>1 DEF RoomFor
                <5>3. Len(vol.listing[d]) <= RoomFor(vol, d)
                    BY TypeFacts, ListingFacts
                <5>4. j * PerCluster \in Nat
                    BY <2>3
                <5> QED BY <1>3, <1>5, <3>2, <5>2, <5>3, <5>4
            <4>4. PlainPath => Files(Ordinary(vol), vol.root, path, Parts(path)) = {}
                BY <1>4, <4>3, MissingNamed
            <4> QED BY <1>1, <4>1, <4>2, <4>4
                    DEF IInv, OpensNamed, FindsNamed, PlainPath, OneLetter
        <3> QED BY <3>3, <3>4
    <2> QED BY <2>4, <2>5
<1> QED BY <1>6, <1>7

\* An entry that is taken for the one searched for has the part's name, if that is
\* plain, and there is such a part.
LEMMA Matched ==
    ASSUME IInv, Searching, ~IsLast, ~IsSkipped, IsMatch
    PROVE  \E d \in DOMAIN vol.listing : \E k \in 1 .. Len(vol.listing[d]) :
                /\ Entry = vol.listing[d][k] /\ InUse(Entry) /\ Entry.name # DotDot
                /\ pathCounter < Parts(path)
                /\ OnTheWay(vol, path, pathCounter, d, k)
                /\ PlainParts(path) => Names(Part(path, pathCounter + 1), Entry)
<1>1. PICK d \in DOMAIN vol.listing : \E k \in 1 .. Len(vol.listing[d]) :
            OnTheWay(vol, path, pathCounter, d, k) /\ Entry = vol.listing[d][k]
    BY Reading
<1>2. PICK k \in 1 .. Len(vol.listing[d]) :
            OnTheWay(vol, path, pathCounter, d, k) /\ Entry = vol.listing[d][k]
    BY <1>1
<1>3. vol \in Volumes /\ path \in Paths /\ pathCounter \in Nat
    BY TypeFacts
<1>4. Entry.attr \cap LongName = {} /\ Namecmp(SplitFileName(path, pathCounter), Entry)
    BY DEF IsSkipped, IsMatch
<1>5. InUse(Entry) /\ pathCounter < Parts(path) /\ Entry.name # DotDot
    BY <1>2, <1>3, <1>4, MatchingEntry
<1>6. ASSUME PlainParts(path) PROVE Names(Part(path, pathCounter + 1), Entry)
    <2>1. pathCounter + 1 \in 1 .. Parts(path)
        BY <1>5, TypeFacts
    <2>2. Plain(Part(path, pathCounter + 1))
        BY <1>6, <2>1 DEF PlainParts
    <2> QED BY <1>2, <1>3, <1>4, <1>5, <2>2, MatchesNamed
<1> QED BY <1>2, <1>5, <1>6

LEMMA DescendInv == IInv /\ Descend => IInv'
<1> SUFFICES ASSUME IInv, Descend PROVE IInv'
    OBVIOUS
<1>1. /\ Searching /\ ~IsLast /\ ~IsSkipped /\ IsMatch /\ "directory" \in Entry.attr
      /\ pathCounter' = pathCounter + 1 /\ cluster' = Entry.cluster /\ index' = 0
      /\ isRoot' = FALSE
      /\ rootCounter' = IF isRoot THEN rootCounter + 1 ELSE rootCounter
      /\ UNCHANGED <<vol, path, file, pc>> /\ pc = "search"
      /\ (isRoot => rootCounter < Len(vol.rootDir))
    BY DEF Descend, Searching
<1>2. PICK d \in DOMAIN vol.listing : \E k \in 1 .. Len(vol.listing[d]) :
            /\ Entry = vol.listing[d][k] /\ InUse(Entry) /\ Entry.name # DotDot
            /\ pathCounter < Parts(path)
            /\ OnTheWay(vol, path, pathCounter, d, k)
            /\ PlainParts(path) => Names(Part(path, pathCounter + 1), Entry)
    BY <1>1, Matched
<1>3. PICK k \in 1 .. Len(vol.listing[d]) :
            /\ Entry = vol.listing[d][k] /\ InUse(Entry) /\ Entry.name # DotDot
            /\ pathCounter < Parts(path)
            /\ OnTheWay(vol, path, pathCounter, d, k)
            /\ PlainParts(path) => Names(Part(path, pathCounter + 1), Entry)
    BY <1>2
<1>4. vol \in Volumes /\ path \in Paths /\ pathCounter \in Nat /\ PerCluster \in Nat \ {0}
    BY TypeFacts
<1> DEFINE c == Entry.cluster
<1>5. c \in DOMAIN vol.listing /\ c # 0
    BY <1>1, <1>3, <1>4, NamingFacts
<1>6. c \in Nat /\ Len(vol.listing[c]) \in Nat
    BY <1>4, <1>5, ListingFacts
<1> HIDE DEF c
<1>7. pathCounter' \in 0 .. Parts(path) /\ rootCounter' \in 0 .. Len(vol.rootDir)
    BY <1>1, <1>3, TypeFacts
<1>8. TypeOK'
    <2>1. cluster' \in Nat
        BY <1>1, <1>6 DEF c
    <2>2. index' \in 0 .. PerCluster /\ index' < PerCluster
        BY <1>1, <1>4
    <2>3. isRoot' \in BOOLEAN /\ pc' = "search"
        BY <1>1
    <2>4. file' = NoFile
        BY <1>1 DEF IInv, TypeOK
    <2>5. pathCounter' \in 0 .. Parts(path') /\ rootCounter' \in 0 .. Len(vol'.rootDir)
        BY <1>1, <1>7
    <2> QED BY <2>1, <2>2, <2>3, <2>4, <2>5 DEF TypeOK
<1>9. Place(vol, c, 1, FALSE, rootCounter', c, 0)
    <2>1. /\ Len(vol.chain[c]) \in Nat /\ Len(vol.chain[c]) > 0 /\ vol.chain[c][1] = c
        BY <1>4, <1>5, ChainFacts
    <2>2. 1 \in 1 .. Len(vol.chain[c]) /\ 1 = (1 - 1) * PerCluster + 0 + 1
        BY <1>4, <2>1
    <2>3. \E j \in 1 .. Len(vol.chain[c]) :
                c = vol.chain[c][j] /\ 1 = (j - 1) * PerCluster + 0 + 1
        BY <2>1, <2>2
    <2>4. 1 \in 1 .. Len(vol.listing[c]) + 1 /\ 0 \in 0 .. PerCluster - 1
        BY <1>4, <1>6
    <2> QED BY <1>5, <2>3, <2>4 DEF Place
<1>10. OnTheWay(vol, path, pathCounter + 1, c, 1)
    <2>1. SUFFICES ASSUME PlainParts(path)
                   PROVE  /\ LeadsTo(vol, path, pathCounter + 1, c)
                          /\ LeadsOnlyTo(vol, path, pathCounter + 1, c)
                          /\ Passed(vol, path, pathCounter + 1, c, 1)
        BY DEF OnTheWay
    <2>2. /\ LeadsTo(vol, path, pathCounter, d)
          /\ LeadsOnlyTo(vol, path, pathCounter, d)
        BY <1>3, <2>1 DEF OnTheWay
    <2>3. /\ LeadsTo(vol, path, pathCounter + 1, c)
          /\ LeadsOnlyTo(vol, path, pathCounter + 1, c)
        BY <1>1, <1>3, <1>4, <2>1, <2>2, DescendWay DEF c
    <2>4. 1 .. 1 - 1 = {}
        OBVIOUS
    <2> QED BY <2>3, <2>4 DEF Passed
<1>11. Searched'
    <2>1. 1 \in 1 .. Len(vol.listing[c]) + 1
        BY <1>6
    <2>2. /\ Place(vol, c, 1, isRoot', rootCounter', cluster', index')
          /\ OnTheWay(vol, path, pathCounter', c, 1)
        BY <1>1, <1>9, <1>10 DEF c
    <2> QED BY <1>1, <1>5, <2>1, <2>2 DEF Searched
<1> QED BY <1>1, <1>4, <1>8, <1>11 DEF IInv, OpensNamed, FindsNamed

LEMMA OpenInv == IInv /\ Open => IInv'
<1> SUFFICES ASSUME IInv, Open PROVE IInv'
    OBVIOUS
<1>1. /\ Searching /\ ~IsLast /\ ~IsSkipped /\ IsMatch /\ "directory" \notin Entry.attr
      /\ pathCounter' = pathCounter + 1 /\ file' = Entry /\ pc' = "found" /\ Count
      /\ UNCHANGED <<vol, path, isRoot, cluster>> /\ pc = "search"
    BY DEF Open, Searching
<1>2. PICK d \in DOMAIN vol.listing : \E k \in 1 .. Len(vol.listing[d]) :
            /\ Entry = vol.listing[d][k] /\ InUse(Entry)
            /\ pathCounter < Parts(path)
            /\ OnTheWay(vol, path, pathCounter, d, k)
            /\ PlainParts(path) => Names(Part(path, pathCounter + 1), Entry)
    BY <1>1, Matched
<1>3. PICK k \in 1 .. Len(vol.listing[d]) :
            /\ Entry = vol.listing[d][k] /\ InUse(Entry)
            /\ pathCounter < Parts(path)
            /\ OnTheWay(vol, path, pathCounter, d, k)
            /\ PlainParts(path) => Names(Part(path, pathCounter + 1), Entry)
    BY <1>2
<1>4. vol \in Volumes /\ path \in Paths /\ pathCounter \in Nat
    BY TypeFacts
<1>5. /\ isRoot => rootCounter' = rootCounter + 1 /\ index' = index
                   /\ rootCounter < Len(vol.rootDir)
      /\ ~isRoot => index' = index + 1 /\ rootCounter' = rootCounter
      /\ index < PerCluster
    BY <1>1, TypeFacts DEF Count, Searching
<1>6. /\ rootCounter' \in 0 .. Len(vol.rootDir) /\ index' \in 0 .. PerCluster
      /\ pathCounter' \in 0 .. Parts(path)
    BY <1>1, <1>3, <1>5, TypeFacts
<1>7. TypeOK'
    BY <1>1, <1>6, TypeFacts DEF IInv, TypeOK
<1>8. ASSUME PlainPath
      PROVE  \E n \in 1 .. Parts(path) : Entry \in Files(Listed(vol), vol.root, path, n)
    <2>1. PlainParts(path)
        BY <1>8 DEF PlainPath, PlainParts
    <2>2. LeadsTo(vol, path, pathCounter, d)
        BY <1>3, <2>1 DEF OnTheWay
    <2>3. /\ pathCounter + 1 \in 1 .. Parts(path)
          /\ Entry \in Files(Listed(vol), vol.root, path, pathCounter + 1)
        BY <1>1, <1>3, <1>4, <2>1, <2>2, OpenWay
    <2> QED BY <2>3
<1> QED BY <1>1, <1>4, <1>7, <1>8 DEF IInv, OpensNamed, FindsNamed, PlainPath
-----------------------------------------------------------------------------
(***************************************************************************)
(* The theorems.                                                           *)
(***************************************************************************)
LEMMA Invariance == Spec => []IInv
<1>1. IInv /\ [Next]_vars => IInv'
    <2> SUFFICES ASSUME IInv, [Next]_vars PROVE IInv'
        OBVIOUS
    <2>1. CASE UNCHANGED vars
        BY <2>1 DEF vars, IInv, TypeOK, Searched, OpensNamed, FindsNamed, PlainPath, OneLetter
    <2>2. CASE Done
        BY <2>1, <2>2 DEF Done
    <2> QED BY <2>1, <2>2, EndRootInv, GiveUpInv, PassInv, DescendInv, OpenInv DEF Next
<1> QED BY <1>1, InitInv, PTL DEF Spec

\* The search keeps to the entries of the root directory and of clusters, and to the
\* parts of the path.
THEOREM DirTypeCorrect == Spec => []TypeOK
<1>1. IInv => TypeOK
    BY DEF IInv
<1> QED BY <1>1, Invariance, PTL

\* A file that is opened is one that the path names.
THEOREM OpensNamedCorrect == Spec => []OpensNamed
<1>1. IInv => OpensNamed
    BY DEF IInv
<1> QED BY <1>1, Invariance, PTL

\* A file that a path names, over entries that are not passed over and by names of
\* more than one letter, is opened.
THEOREM FindsNamedCorrect == Spec => []FindsNamed
<1>1. IInv => FindsNamed
    BY DEF IInv
<1> QED BY <1>1, Invariance, PTL
=============================================================================
