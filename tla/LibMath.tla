------------------------------ MODULE LibMath ------------------------------
(***************************************************************************)
(* Multiplication and division of words on a processor that has neither:   *)
(* __mulsi3, __udivsi3 and __umodsi3, which the compiler calls.            *)
(***************************************************************************)
EXTENDS Regions

VARIABLES op,           \* the function that runs, or "idle"
          args,         \* the last call
          a, b,         \* its parameters, and what the loop makes of them
          acc,          \* the product or the quotient, so far
          result        \* what the last call returned

math == <<op, args, a, b, acc, result>>

Operations == {"mul", "div", "mod"}

MathInit ==
    /\ op = "idle" /\ args = [op |-> "none", a |-> 0, b |-> 0]
    /\ a = 0 /\ b = 0 /\ acc = 0 /\ result = 0

MathCall(o, x, y) ==
    /\ op = "idle" /\ op' = o
    /\ args' = [op |-> o, a |-> x, b |-> y]
    /\ a' = x /\ b' = y /\ acc' = 0
    /\ UNCHANGED result

MathReturn(v) ==
    /\ op' = "idle" /\ result' = v
    /\ UNCHANGED <<args, a, b, acc>>

MulStepAfterShift ==    \* mutant: the sum gets what is already shifted
    /\ op = "mul" /\ a # 0
    /\ acc' = IF a % 2 = 1 THEN WAdd(acc, WAdd(b, b)) ELSE acc
    /\ a' = a \div 2 /\ b' = WAdd(b, b)
    /\ UNCHANGED <<op, args, result>>

\* One bit of a, and b shifted past it.
MulStep ==
    /\ op = "mul" /\ a # 0
    /\ acc' = IF a % 2 = 1 THEN WAdd(acc, b) ELSE acc
    /\ a' = a \div 2 /\ b' = WAdd(b, b)
    /\ UNCHANGED <<op, args, result>>

MulEnd == op = "mul" /\ a = 0 /\ MathReturn(acc)

DivZero == op \in {"div", "mod"} /\ b = 0 /\ MathReturn(0)

\* a is the remainder.
DivStep ==
    /\ op \in {"div", "mod"} /\ b # 0 /\ a >= b
    /\ a' = a - b /\ acc' = acc + 1
    /\ UNCHANGED <<op, args, b, result>>

DivEnd ==
    /\ op \in {"div", "mod"} /\ b # 0 /\ a < b
    /\ MathReturn(IF op = "div" THEN acc ELSE a)

MathStep == MulStep \/ MulEnd \/ DivZero \/ DivStep \/ DivEnd

MathNext == (\E o \in Operations, x, y \in Word : MathCall(o, x, y)) \/ MathStep

MathSpec == MathInit /\ [][MathNext]_math
-----------------------------------------------------------------------------
MathTypeOK ==
    /\ op \in {"idle"} \cup Operations
    /\ args \in [op : {"none"} \cup Operations, a : Word, b : Word]
    /\ op # "idle" => args.op = op
    /\ a \in Word /\ b \in Word /\ acc \in Word /\ result \in Word

\* The functions return what the operators they stand for are defined to be on
\* words, and 0 for a division by zero.
MathRight ==
    op = "idle" =>
        /\ args.op = "mul" => result = (args.a * args.b) % WordSize
        /\ args.op = "div" => result = IF args.b = 0 THEN 0 ELSE args.a \div args.b
        /\ args.op = "mod" => result = IF args.b = 0 THEN 0 ELSE args.a % args.b
=============================================================================
