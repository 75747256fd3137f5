------------------------------ MODULE MCConfig ------------------------------
(***************************************************************************)
(* All short files made of one letter, equals signs and newlines, and some *)
(* longer ones.                                                            *)
(***************************************************************************)
EXTENDS Config

Letters == {107, EQUALS, NEWLINE}

Line(s) == s \o <<NEWLINE>>

MCContents ==
    UNION {[1 .. n -> Letters] : n \in 0 .. 5}
      \cup { Line(<<107, EQUALS, 97>>) \o Line(<<>>) \o Line(<<107, 107, EQUALS, 98>>)
                \o Line(<<107, EQUALS>>) \o <<107, EQUALS, 97, 98, 99>>,
             Line(<<97, 107, EQUALS>>) \o Line(<<107, EQUALS, 107, 107, EQUALS>>)
                \o Line(<<107, EQUALS, 97, 98>>) }

MCKeys == {<<107>>, <<107, 107>>}

MCLengths == {1, 3}
=============================================================================
