----------------------------- MODULE DiskRange -----------------------------
(***************************************************************************)
(* What disk::read promises: the buffer holds the n bytes of the disk from *)
(* an offset on, or the caller is told that it does not; in either case    *)
(* nothing is written past the buffer's end.                               *)
(*                                                                         *)
(* The byte at offset a of the disk is represented by a itself.            *)
(***************************************************************************)
EXTENDS Integers

VARIABLES size,     \* the size of the disk
          checked,  \* does the hardware tell when it could not read?
          request,  \* the offset and the number of bytes
          buf,      \* what was written to the buffer, by index
          status    \* of the last call

vars == <<size, checked, request, buf, status>>

GARBAGE == -1       \* any byte

Nothing == [i \in {} |-> GARBAGE]

DiskByte(a) == IF a < size THEN a ELSE GARBAGE

InBuffer(b) == DOMAIN b \subseteq 0 .. request.n - 1

Init ==
    /\ size \in Nat /\ checked \in BOOLEAN
    /\ request = [offset |-> 0, n |-> 0] /\ buf = Nothing
    /\ status = "none"

Call ==
    /\ status # "reading" /\ status' = "reading"
    /\ request' \in [offset : Nat, n : Nat]
    /\ buf' = Nothing
    /\ UNCHANGED <<size, checked>>

Write ==
    /\ status = "reading" /\ InBuffer(buf')
    /\ UNCHANGED <<size, checked, request, status>>

Succeed ==
    /\ status = "reading" /\ status' = "read"
    /\ buf' = [k \in 0 .. request.n - 1 |-> DiskByte(request.offset + k)]
    /\ checked => request.n = 0 \/ request.offset + request.n <= size
    /\ UNCHANGED <<size, checked, request>>

Fail ==
    /\ status = "reading" /\ status' = "failed"
    /\ InBuffer(buf')
    /\ UNCHANGED <<size, checked, request>>

Next == Call \/ Write \/ Succeed \/ Fail

Spec == Init /\ [][Next]_vars
=============================================================================
