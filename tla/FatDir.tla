------------------------------- MODULE FatDir -------------------------------
(***************************************************************************)
(* fat_open_file: the search for the file that a path names, through the   *)
(* directories of a FAT volume.                                            *)
(*                                                                         *)
(* A path is a sequence of characters without its terminator.  The sizes   *)
(* of names and clusters are parameters.  At which address of the disk an  *)
(* entry lies is left out: directories, like files (Addressable of         *)
(* FatFile), lie in the 4 GiB that a uint32_t addresses.                   *)
(***************************************************************************)
EXTENDS Integers, Sequences, FiniteSets, FiniteSetsExt

CONSTANTS NameSize, ExtSize,    \* 8 and 3
          PerCluster,           \* directory entries in a cluster
          Capital,              \* maps lower-case letters to upper-case ones
          Volumes, Paths

NUL  == "nul"       \* '\0', which ends paths and marks the last directory entry
FREE == "free"      \* 0xE5, which marks free ones
SPACE == " "        \* fills up names and extensions

Attributes == {"readonly", "hidden", "system", "volume", "directory", "archive"}

\* DIRENT_LONG_NAME
LongName == {"readonly", "hidden", "system", "volume"}

\* fat_83_dirent; the file's cluster tells it from the others.
Dirent(e) ==
    /\ DOMAIN e = {"name", "extension", "attr", "cluster"}
    /\ DOMAIN e.name = 1 .. NameSize /\ DOMAIN e.extension = 1 .. ExtSize
    /\ e.attr \subseteq Attributes /\ e.cluster \in Nat

VARIABLES vol, path,        \* parameters
          pathCounter,      \* parts of the path that were found
          isRoot,           \* is this the root directory of a FAT12 or FAT16 volume?
          rootCounter, cluster, index,      \* the next entry to look at
          file,             \* the entry in the caller's handle
          pc                \* "search", or what was returned: "found", "missing"

vars == <<vol, path, pathCounter, isRoot, rootCounter, cluster, index, file, pc>>
-----------------------------------------------------------------------------
(***************************************************************************)
(* split_file_name and fat_namecmp.                                        *)
(***************************************************************************)
At(p, o) == IF o <= Len(p) THEN p[o] ELSE NUL

\* mutant: of several slashes only the first is skipped
PastSlash(p, o) == IF At(p, o) = "/" THEN o + 1 ELSE o

PastSlashes(p, o) ==
    CHOOSE q \in o .. Len(p) + 1 : At(p, q) # "/" /\ \A r \in o .. q - 1 : At(p, r) = "/"

EndOfPart(p, o) ==
    CHOOSE q \in o .. Len(p) + 1 :
        At(p, q) \in {"/", NUL} /\ \A r \in o .. q - 1 : At(p, r) \notin {"/", NUL}

\* Where the part after n others starts.
Offset(p, n) ==
    LET offset[k \in 0 .. n] ==
            PastSlashes(p, IF k = 0 THEN 1 ELSE EndOfPart(p, offset[k - 1]))
    IN  offset[n]

SplitFileName(p, n) ==
    LET offset == Offset(p, n)
        end    == EndOfPart(p, offset)
        dots   == {q \in offset .. end - 1 : p[q] = "."}
        dot    == IF dots = {} THEN end ELSE Max(dots)
    IN  [ok        |-> end - 1 # offset,
         name      |-> [k \in 1 .. NameSize |->
                            IF offset + k - 1 < dot THEN p[offset + k - 1] ELSE SPACE],
         extension |-> [k \in 1 .. ExtSize |-> IF dot + k < end THEN p[dot + k] ELSE SPACE]]

Charconvert(c) == IF c \in DOMAIN Capital THEN Capital[c] ELSE c

NamecmpNameOnly(a, b) ==    \* mutant: the extension is not compared
    \A k \in 1 .. NameSize : Charconvert(a.name[k]) = Charconvert(b.name[k])

Namecmp(a, b) ==
    /\ \A k \in 1 .. NameSize : Charconvert(a.name[k]) = Charconvert(b.name[k])
    /\ \A k \in 1 .. ExtSize : Charconvert(a.extension[k]) = Charconvert(b.extension[k])
-----------------------------------------------------------------------------
(***************************************************************************)
(* What the formatter put on the volume.  A directory goes by its first    *)
(* cluster, the root directory of a FAT12 or FAT16 volume by 0.  Its       *)
(* listing is in the clusters of its chain, with a mark behind it if there *)
(* is room.                                                                *)
(***************************************************************************)
EndOfChain == 0

IsSeq(s) == s \in Seq({s[k] : k \in DOMAIN s})

\* The name of the entry for the directory above, which has cluster 0 if that is the
\* root directory.
DotDot == [k \in 1 .. NameSize |-> IF k <= 2 THEN "." ELSE SPACE]

\* Entries that are neither free nor a volume's label or a piece of a long name.
InUse(e) == e.name[1] # FREE /\ "volume" \notin e.attr

Holds(v, d, k, e) ==
    IF v.fixed /\ d = 0 THEN v.rootDir[k] = e
    ELSE v.data[v.chain[d][((k - 1) \div PerCluster) + 1]][((k - 1) % PerCluster) + 1] = e

RoomFor(v, d) == IF v.fixed /\ d = 0 THEN Len(v.rootDir) ELSE Len(v.chain[d]) * PerCluster

IsDirectory(v, d) ==
    LET l == v.listing[d]
        c == v.chain[d]
    IN  /\ IsSeq(l) /\ c \in Seq(Nat) /\ Len(l) <= RoomFor(v, d)
        /\ \A k \in 1 .. Len(l) : Dirent(l[k]) /\ l[k].name[1] # NUL /\ Holds(v, d, k, l[k])
        /\ Len(l) < RoomFor(v, d) =>
                \E e \in v.marks : Holds(v, d, Len(l) + 1, e)
        /\ ~(v.fixed /\ d = 0) => Len(c) > 0 /\ c[1] = d
        /\ \A k \in 1 .. Len(c) : /\ c[k] # EndOfChain
                                   /\ v.next[c[k]] = IF k < Len(c) THEN c[k + 1] ELSE EndOfChain

\* Without the spaces at its end.
Trimmed(s) == SubSeq(s, 1, Max({0} \cup {k \in DOMAIN s : s[k] # SPACE}))

\* A name the way it is displayed.
Display(e) == Trimmed(e.name) \o IF Trimmed(e.extension) = <<>> THEN <<>>
                                 ELSE <<".">> \o Trimmed(e.extension)

Upper(s) == [k \in DOMAIN s |-> Charconvert(s[k])]

Names(part, e) == Upper(part) = Upper(Display(e))

\* Names start with a character and have dots only in the entries for the directory
\* and the one above; no two entries have the same.
IsNamed(l) ==
    /\ \A k \in 1 .. Len(l) : InUse(l[k]) =>
            /\ l[k].name[1] # SPACE
            /\ l[k].name[1] # "." => \A j \in 1 .. NameSize : l[k].name[j] # "."
    /\ \A j, k \in 1 .. Len(l) :
            InUse(l[j]) /\ InUse(l[k]) /\ j # k => ~Names(Display(l[j]), l[k])

WellFormed(v) ==
    /\ \A m \in v.marks : m.name[1] = NUL
    /\ v.fixed \in BOOLEAN
    /\ v.root = 0 <=> v.fixed
    /\ IsSeq(v.rootDir)
    /\ v.root \in DOMAIN v.listing /\ DOMAIN v.chain = DOMAIN v.listing
    /\ \A d \in DOMAIN v.listing :
        /\ d \in Nat /\ IsDirectory(v, d) /\ IsNamed(v.listing[d])
        /\ \A k \in 1 .. Len(v.listing[d]) :
                LET e == v.listing[d][k]
                IN  InUse(e) /\ "directory" \in e.attr /\ e.name # DotDot =>
                        e.cluster \in DOMAIN v.listing /\ e.cluster # 0

\* Characters that are not letters.
Special == {NUL, FREE, "/", ".", SPACE}

\* A part that starts with two dots and has its last dot behind them is split into
\* the name of the directory above; what such a path leads to is left open.
ASSUME DirectoriesAssumption ==
    /\ NameSize \in Nat \ {0} /\ ExtSize \in Nat /\ PerCluster \in Nat \ {0}
    /\ \A c \in DOMAIN Capital : c \notin Special /\ Capital[c] \notin Special
    /\ \A v \in Volumes : WellFormed(v)
    /\ \A p \in Paths :
        /\ IsSeq(p)
        /\ \A k \in DOMAIN p : p[k] \notin {NUL, FREE}
        /\ \A n \in 0 .. Len(p) : SplitFileName(p, n).name # DotDot
-----------------------------------------------------------------------------
(***************************************************************************)
(* fat_open_file.                                                          *)
(***************************************************************************)
NoFile == [name |-> <<>>, extension |-> <<>>, attr |-> {}, cluster |-> 0]

Init ==
    /\ vol \in Volumes /\ path \in Paths
    /\ pathCounter = 0
    /\ isRoot = vol.fixed
    /\ rootCounter = 0 /\ cluster = vol.root /\ index = 0
    /\ file = NoFile
    /\ pc = "search"

\* The entry that is read next, if the loop goes on.
Searching == pc = "search" /\ (isRoot => rootCounter < Len(vol.rootDir))

Entry == IF isRoot THEN vol.rootDir[rootCounter + 1] ELSE vol.data[cluster][index + 1]

IsLast == Entry.name[1] = NUL

IsSkipped == Entry.attr \cap LongName # {}

Splits == SplitFileName(path, pathCounter).ok

IsMatch == Namecmp(SplitFileName(path, pathCounter), Entry)

\* The entry is counted when it is read.
Count == IF isRoot THEN rootCounter' = rootCounter + 1 /\ UNCHANGED index
         ELSE index' = index + 1 /\ UNCHANGED rootCounter

\* The root directory of a FAT12 or FAT16 volume is used up.
EndRoot ==
    /\ pc = "search" /\ isRoot /\ rootCounter >= Len(vol.rootDir)
    /\ pc' = "missing"
    /\ UNCHANGED <<vol, path, pathCounter, isRoot, rootCounter, cluster, index, file>>

\* The mark behind the entries, or a part that cannot be split off.
GiveUp ==
    /\ Searching
    /\ IsLast \/ (~IsSkipped /\ ~Splits)
    /\ pc' = "missing"
    /\ Count
    /\ UNCHANGED <<vol, path, pathCounter, isRoot, cluster, file>>

PassSameCluster ==  \* mutant: the search starts over in the same cluster
    /\ Searching /\ ~IsLast
    /\ IsSkipped \/ (Splits /\ ~IsMatch)
    /\ IF isRoot THEN rootCounter' = rootCounter + 1 /\ UNCHANGED <<cluster, index, pc>>
       ELSE /\ index' = (index + 1) % PerCluster
            /\ UNCHANGED <<rootCounter, cluster, pc>>
    /\ UNCHANGED <<vol, path, pathCounter, isRoot, file>>

\* Another entry.  The comparison with 0xE5 is always false, as a name is made of
\* int8_t, so free entries are compared like others.
Pass ==
    /\ Searching /\ ~IsLast
    /\ IsSkipped \/ (Splits /\ ~IsMatch)
    /\ IF isRoot THEN rootCounter' = rootCounter + 1 /\ UNCHANGED <<cluster, index, pc>>
       ELSE /\ UNCHANGED rootCounter
            /\ IF index + 1 < PerCluster THEN index' = index + 1 /\ UNCHANGED <<cluster, pc>>
               ELSE /\ index' = 0
                    /\ cluster' = vol.next[cluster]
                    /\ pc' = IF cluster' = EndOfChain THEN "missing" ELSE "search"
    /\ UNCHANGED <<vol, path, pathCounter, isRoot, file>>

DescendKeepIndex ==     \* mutant: the new directory is not searched from its start
    /\ Searching /\ ~IsLast /\ ~IsSkipped /\ Splits /\ IsMatch
    /\ "directory" \in Entry.attr
    /\ pathCounter' = pathCounter + 1
    /\ cluster' = Entry.cluster /\ isRoot' = FALSE
    /\ Count
    /\ UNCHANGED <<vol, path, file, pc>>

\* Into the directory of this name.
Descend ==
    /\ Searching /\ ~IsLast /\ ~IsSkipped /\ Splits /\ IsMatch
    /\ "directory" \in Entry.attr
    /\ pathCounter' = pathCounter + 1
    /\ cluster' = Entry.cluster /\ index' = 0 /\ isRoot' = FALSE
    /\ rootCounter' = IF isRoot THEN rootCounter + 1 ELSE rootCounter
    /\ UNCHANGED <<vol, path, file, pc>>

\* The file of this name is opened, whatever is left of the path.
Open ==
    /\ Searching /\ ~IsLast /\ ~IsSkipped /\ Splits /\ IsMatch
    /\ "directory" \notin Entry.attr
    /\ pathCounter' = pathCounter + 1
    /\ file' = Entry
    /\ pc' = "found"
    /\ Count
    /\ UNCHANGED <<vol, path, isRoot, cluster>>

\* Nothing more happens once it has returned.
Done == pc \in {"found", "missing"} /\ UNCHANGED vars

Next == EndRoot \/ GiveUp \/ Pass \/ Descend \/ Open \/ Done

Spec == Init /\ [][Next]_vars /\ WF_vars(Next)
-----------------------------------------------------------------------------
(***************************************************************************)
(* What a path names.                                                      *)
(***************************************************************************)
Starts(p) == {s \in 1 .. Len(p) : p[s] # "/" /\ (s > 1 => p[s - 1] = "/")}

Parts(p) == Cardinality(Starts(p))

Part(p, n) ==
    LET s == CHOOSE s \in Starts(p) : Cardinality({t \in Starts(p) : t <= s}) = n
        e == CHOOSE e \in s .. Len(p) : /\ \A q \in s .. e : p[q] # "/"
                                        /\ e < Len(p) => p[e + 1] = "/"
    IN  SubSeq(p, s, e)

Dots(part) == {k \in DOMAIN part : part[k] = "."}

\* A name with an extension or without, no longer than a directory entry holds, and
\* without a space at the end of either.
Plain(part) ==
    /\ part[Len(part)] # SPACE
    /\ \/ Dots(part) = {} /\ Len(part) <= NameSize
       \/ \E k \in 2 .. NameSize + 1 : /\ Dots(part) = {k} /\ part[k - 1] # SPACE
                                       /\ Len(part) - k \in 1 .. ExtSize

PlainPath == \A n \in 1 .. Parts(path) : Plain(Part(path, n))

OneLetter == \E n \in 1 .. Parts(path) : Len(Part(path, n)) = 1

\* The files and directories of each directory; entries that are free, a volume's
\* label or a piece of a long name are not among them.
Listed(v) ==
    [d \in DOMAIN v.listing |->
        {e \in {v.listing[d][k] : k \in DOMAIN v.listing[d]} : InUse(e)}]

\* Without those that have an attribute which a long name's entry has too.
Ordinary(v) == [d \in DOMAIN v.listing |-> {e \in Listed(v)[d] : e.attr \cap LongName = {}}]

\* The entries that the first n parts of a path name, given the entries of each directory.
Named(entries, root, p, n) ==
    LET named[k \in 0 .. n] ==
            IF k = 0 THEN {}
            ELSE LET dirs == IF k = 1 THEN {root}
                             ELSE {e.cluster : e \in {x \in named[k - 1] : "directory" \in x.attr}}
                 IN  {e \in UNION {entries[d] : d \in dirs} : Names(Part(p, k), e)}
    IN  named[n]

Files(entries, root, p, n) == {e \in Named(entries, root, p, n) : "directory" \notin e.attr}
-----------------------------------------------------------------------------
TypeOK ==
    /\ pathCounter \in 0 .. Parts(path) /\ rootCounter \in 0 .. Len(vol.rootDir)
    /\ isRoot \in BOOLEAN
    /\ cluster \in Nat
    /\ index \in 0 .. PerCluster /\ (pc = "search" => index < PerCluster)
    /\ pc \in {"search", "found", "missing"}
    /\ pc # "found" => file = NoFile

\* The file that is opened is the one that the path names, or that a beginning of
\* it names: in the right directory, not deleted, and neither a volume label nor a
\* piece of a long name, whatever the slashes and the case of the letters.
OpensNamed ==
    pc = "found" /\ PlainPath =>
        \E n \in 1 .. Parts(path) : file \in Files(Listed(vol), vol.root, path, n)

\* A path that names a file leads to it, wherever its directories' entries are and
\* whatever entries are in front of them; but not if a part has a single character,
\* nor if an entry on the way is read-only, hidden or of the system.
FindsNamed ==
    pc = "missing" /\ PlainPath /\ ~OneLetter =>
        Files(Ordinary(vol), vol.root, path, Parts(path)) = {}

\* fat_open_file returns.
SearchEnds == <>(pc # "search")

\* fat.cpp:36 means to recognise the end of the path: a part that is there can be
\* split off, and so a name of one letter found like any other.  It is not.
FindsOneLetter ==
    pc = "missing" /\ PlainPath =>
        Files(Ordinary(vol), vol.root, path, Parts(path)) = {}

\* fat.cpp:258 means to pass over the pieces of long names: a file is found
\* whatever its other attributes.  A read-only one is not.
FindsAnyAttribute ==
    pc = "missing" /\ PlainPath /\ ~OneLetter =>
        Files(Listed(vol), vol.root, path, Parts(path)) = {}
=============================================================================
