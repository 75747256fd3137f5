------------------------------ MODULE MCFatDir ------------------------------
(***************************************************************************)
(* Small volumes and paths for checking FatDir with TLC: names of three    *)
(* and extensions of two characters, two entries to a cluster.             *)
(***************************************************************************)
EXTENDS FatDir, SequencesExt

MCCapital == [a |-> "A", b |-> "B", x |-> "X"]

Padded(s, n) == [k \in 1 .. n |-> IF k <= Len(s) THEN s[k] ELSE " "]

E(name, extension, attr, c) ==
    [name |-> Padded(name, NameSize), extension |-> Padded(extension, ExtSize),
     attr |-> attr, cluster |-> c]

Mark == E(<<NUL>>, <<>>, {}, 0)

\* Two files, a directory with one-letter and protected neighbours, a label and a
\* deleted file.
Root == << E(<<"A", "B">>, <<"X">>, {"volume"}, 90),
           E(<<"A", "B">>, <<>>, {"archive"}, 91),
           E(<<FREE, "B">>, <<"X">>, {}, 92),
           E(<<"A", "B">>, <<"X">>, {"archive"}, 93),
           E(<<"A", "A">>, <<>>, {"directory"}, 3),
           E(<<"B", "A">>, <<>>, {"directory", "hidden"}, 5),
           E(<<"B">>, <<>>, {}, 94) >>

\* A directory whose chain its entries fill, and one with room.
Sub == << E(<<".", ".">>, <<>>, {"directory"}, 0),
          E(<<"A", "A">>, <<>>, {"directory"}, 5),
          E(<<"A", "B">>, <<"X", "X">>, LongName, 95),
          E(<<"A", "B">>, <<"X", "X">>, {}, 96) >>

SubSub == << E(<<".">>, <<>>, {"directory"}, 5),
             E(<<"A", "B">>, <<>>, {"readonly"}, 97),
             E(<<"A", "B">>, <<"X">>, {}, 98),
             E(<<"B">>, <<"X">>, {}, 99),
             E(<<"A", " ", "B">>, <<"B">>, {}, 100) >>

InClusters(l, c) ==
    [n \in {c[k] : k \in DOMAIN c} |->
        LET k == CHOOSE k \in DOMAIN c : c[k] = n
        IN  [j \in 1 .. PerCluster |->
                LET m == (k - 1) * PerCluster + j IN IF m <= Len(l) THEN l[m] ELSE Mark]]

Links(c) == [n \in {c[k] : k \in DOMAIN c} |->
                LET k == CHOOSE k \in DOMAIN c : c[k] = n
                IN  IF k < Len(c) THEN c[k + 1] ELSE EndOfChain]

\* With a root directory of so many fixed entries, or (0) one in clusters.
Made(root, fixed) ==
    LET r    == IF fixed > 0 THEN 0 ELSE 7
        dirs == (r :> root) @@ (3 :> Sub) @@ (5 :> SubSub)
        ch   == (r :> IF fixed > 0 THEN <<>> ELSE <<7, 2, 12, 11>>)
                  @@ (3 :> <<3, 4>>) @@ (5 :> <<5, 9, 8>>)
    IN  [fixed |-> fixed > 0, root |-> r, listing |-> dirs, chain |-> ch, marks |-> {Mark},
         rootDir |-> [k \in 1 .. fixed |-> IF k <= Len(root) THEN root[k] ELSE Mark],
         data |-> InClusters(root, ch[r]) @@ InClusters(Sub, ch[3]) @@ InClusters(SubSub, ch[5]),
         next |-> Links(ch[r]) @@ Links(ch[3]) @@ Links(ch[5])]

MCVolumes == {Made(Root, f) : f \in {0, 7, 9}} \cup {Made(<<>>, 2), Made(SubSeq(Root, 2, 5), 0)}

ShortParts == { <<"a", "b">>, <<"A", "a">>, <<"a", "b", ".", "x">>, <<"b", ".", "x">>,
                <<"a", " ", "b", ".", "b">> }

MCParts == ShortParts \cup
    { <<"b", "A">>, <<"b">>, <<"A", "B", ".", "X", "x">>, <<"a", "a", "b", "a", ".", "b", "a", "a">>,
      <<".", ".">>, <<"a", ".">> }

\* The parts with slashes between them, and with more slashes than that.
PathOf(parts, extra) ==
    LET s == IF extra THEN <<"/">> ELSE <<>>
    IN  FlattenSeq([k \in DOMAIN parts |-> (IF k = 1 THEN s ELSE <<"/">> \o s) \o parts[k]]) \o s

MCPaths == {PathOf(p, extra) : extra \in BOOLEAN,
                p \in UNION {[1 .. n -> MCParts] : n \in 0 .. 2} \cup [1 .. 3 -> ShortParts]}
=============================================================================
