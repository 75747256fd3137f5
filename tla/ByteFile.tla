------------------------------ MODULE ByteFile ------------------------------
(***************************************************************************)
(* What a file handle promises its callers, boot() and get_cfg_value: the  *)
(* bytes of a file, in order, and a position in it.                        *)
(***************************************************************************)
EXTENDS Integers, Sequences

CONSTANTS Counts,   \* the sizes of reads
          Moves     \* the distances of seeks

VARIABLES bytes,    \* the bytes that can be read
          size,     \* the size the directory entry states, at least as many
          pos,      \* the position
          ret       \* the last call and what it returned

vars == <<bytes, size, pos, ret>>

Origins == {"begin", "current", "end"}

Nothing == [op |-> "none", asked |-> 0, value |-> 0, data |-> <<>>]

Lesser(a, b) == IF a < b THEN a ELSE b

Init ==
    /\ size \in Nat
    /\ bytes \in Seq(Int) /\ Len(bytes) <= size
    /\ pos = 0
    /\ ret = Nothing

\* A read returns the next bytes, as many as were asked for if there are that many.
Read(n) ==
    LET rest == IF pos < Len(bytes) THEN Len(bytes) - pos ELSE 0
        k    == Lesser(n, rest)
    IN  /\ pos' = pos + k
        /\ ret' = [op |-> "read", asked |-> n, value |-> k,
                   data |-> SubSeq(bytes, pos + 1, pos + k)]
        /\ UNCHANGED <<bytes, size>>

From(origin) == CASE origin = "begin"   -> 0
                  [] origin = "current" -> pos
                  [] origin = "end"     -> size

\* A seek goes where it is told to if that is in the file, else somewhere in it.
Seek(origin, p) ==
    LET target == From(origin) + p
    IN  /\ pos' \in 0 .. size
        /\ target \in 0 .. size => pos' = target
        /\ ret' = [op |-> "seek", asked |-> 0, value |-> pos', data |-> <<>>]
        /\ UNCHANGED <<bytes, size>>

Next == \/ \E n \in Counts : Read(n)
        \/ \E origin \in Origins, p \in Moves : Seek(origin, p)

Spec == Init /\ [][Next]_vars
=============================================================================
