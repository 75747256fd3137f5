------------------------------- MODULE Config -------------------------------
(***************************************************************************)
(* get_cfg_value: the value of a key in boot.cfg, read byte by byte from   *)
(* an open file, as boot() calls it: for single values without seek_pos,   *)
(* and in a loop with it for all values of a key.                          *)
(***************************************************************************)
EXTENDS Integers, Sequences, FiniteSetsExt

CONSTANTS Contents,     \* what can be read of boot.cfg
          Keys,
          Lengths       \* sizes of the caller's buffer, str_len

NEWLINE == 10
EQUALS  == 61

\* A key has neither newlines nor equals signs; a buffer has room for the '\0'.
ASSUME ConfigAssumption ==
    /\ Contents \subseteq Seq(0 .. 255)
    /\ Keys \subseteq Seq(0 .. 255) \ {<<>>}
    /\ \A k \in Keys : \A i \in DOMAIN k : k[i] \notin {NEWLINE, EQUALS}
    /\ Lengths \subseteq Nat \ {0}

VARIABLES bytes, size, pos, ret,    \* the handle, see ByteFile
          key, strLen,              \* parameters
          from, seekPos,            \* *seek_pos at the call and now, or NULL
          keyInc, str,              \* characters matched, and stored
          pc,                       \* where get_cfg_value is, or "idle"
          found,                    \* what it returned
          values                    \* what the caller's loop got so far

file   == <<bytes, size, pos, ret>>
params == <<key, strLen, from>>
locals == <<keyInc, str>>
vars   == <<file, params, seekPos, locals, pc, found, values>>

File == INSTANCE ByteFile WITH Counts <- {1}, Moves <- Nat

NULL == -1
EOF  == -1

Init ==
    /\ bytes \in Contents /\ size \in Len(bytes) .. Len(bytes) + 1 /\ File!Init
    /\ key = <<>> /\ strLen = 1 /\ from = NULL /\ seekPos = NULL
    /\ keyInc = 0 /\ str = <<>>
    /\ pc = "idle" /\ found = FALSE
    /\ values = <<>>

\* get_cfg_value is called with a parameter seek_pos, NULL or pointing to p, and goes there.
Call(k, n, p) ==
    /\ pc = "idle"
    /\ key' = k /\ strLen' = n /\ from' = p /\ seekPos' = p
    /\ File!Seek("begin", IF p = NULL THEN 0 ELSE p)
    /\ keyInc' = 0 /\ str' = <<>>
    /\ pc' = "key"
    /\ UNCHANGED found

\* boot() asks for one value, or begins to ask for all of them.
Get(k, n) == Call(k, n, NULL) /\ values' = <<>>
GetAll(k, n) == Call(k, n, 0) /\ values' = <<>>

\* The loop's condition is true: the caller takes the value and asks for the next.
Looping == pc = "idle" /\ found /\ seekPos # NULL

GetNext ==
    /\ Looping
    /\ Call(key, strLen, seekPos)
    /\ values' = Append(values, str)

\* fgetc: c is the next character, or EOF.
Fgetc(c) ==
    /\ File!Read(1)
    /\ c = IF ret'.value = 1 THEN ret'.data[1] ELSE EOF

Return(b) ==
    /\ pc' = "idle" /\ found' = b
    /\ UNCHANGED <<params, seekPos, values>>

Chars == {EOF} \cup {bytes[i] : i \in DOMAIN bytes}

MatchChar(c) ==
    /\ pc = "key" /\ Fgetc(c)
    /\ keyInc < Len(key) /\ c = key[keyInc + 1]
    /\ keyInc' = keyInc + 1
    /\ UNCHANGED <<params, seekPos, str, pc, found, values>>

\* The loop over the key ends with c, somewhere in the key.
Differs(c) == ~(keyInc < Len(key) /\ c = key[keyInc + 1])

KeyFoundAnywhere(c) ==  \* mutant: a key that only begins like this one will do
    /\ pc = "key" /\ Fgetc(c) /\ Differs(c)
    /\ c = EQUALS
    /\ pc' = "found"
    /\ UNCHANGED <<params, seekPos, locals, found, values>>

KeyFound(c) ==
    /\ pc = "key" /\ Fgetc(c) /\ Differs(c)
    /\ c = EQUALS /\ keyInc = Len(key)
    /\ pc' = "found"
    /\ UNCHANGED <<params, seekPos, locals, found, values>>

NoMoreLines(c) ==
    /\ pc = "key" /\ Fgetc(c) /\ Differs(c)
    /\ c = EOF
    /\ Return(FALSE)
    /\ UNCHANGED locals

NextLine(c) ==
    /\ pc = "key" /\ Fgetc(c) /\ Differs(c)
    /\ c = NEWLINE
    /\ keyInc' = 0
    /\ UNCHANGED <<params, seekPos, str, pc, found, values>>

Mismatch(c) ==
    /\ pc = "key" /\ Fgetc(c) /\ Differs(c)
    /\ c \notin {EOF, NEWLINE} /\ ~(c = EQUALS /\ keyInc = Len(key))
    /\ pc' = "skip"
    /\ UNCHANGED <<params, seekPos, locals, found, values>>

SkipCharOnly(c) ==      \* mutant: the end of the file does not end a line
    /\ pc = "skip" /\ Fgetc(c)
    /\ IF c = NEWLINE THEN pc' = "key" /\ keyInc' = 0 ELSE UNCHANGED <<pc, keyInc>>
    /\ UNCHANGED <<params, seekPos, str, found, values>>

\* To the next newline, or the end, which is then met again.
SkipChar(c) ==
    /\ pc = "skip" /\ Fgetc(c)
    /\ IF c \in {EOF, NEWLINE} THEN pc' = "key" /\ keyInc' = 0 ELSE UNCHANGED <<pc, keyInc>>
    /\ UNCHANGED <<params, seekPos, str, found, values>>

SavePositionOfLine ==   \* mutant: the position is that of the line, not of the value
    /\ pc = "found"
    /\ IF seekPos = NULL THEN UNCHANGED <<file, seekPos>>
       ELSE File!Seek("current", 0) /\ seekPos' = pos - Len(key) - 1
    /\ pc' = "value"
    /\ UNCHANGED <<params, locals, found, values>>

\* *seek_pos becomes the position of the value.
SavePosition ==
    /\ pc = "found"
    /\ IF seekPos = NULL THEN UNCHANGED <<file, seekPos>>
       ELSE File!Seek("current", 0) /\ seekPos' = ret'.value
    /\ pc' = "value"
    /\ UNCHANGED <<params, locals, found, values>>

ValueCharUnbounded(c) ==    \* mutant: the buffer is filled to its last byte
    /\ pc = "value" /\ Fgetc(c)
    /\ \/ /\ c \notin {EOF, NEWLINE} /\ Len(str) < strLen
          /\ str' = Append(str, c)
          /\ UNCHANGED <<params, seekPos, keyInc, pc, found, values>>
       \/ /\ c \in {EOF, NEWLINE} \/ Len(str) >= strLen
          /\ Return(TRUE)
          /\ UNCHANGED locals

\* A character of the value is stored, or there are no more, or no room for it.
ValueChar(c) ==
    /\ pc = "value" /\ Fgetc(c)
    /\ \/ /\ c \notin {EOF, NEWLINE} /\ Len(str) < strLen - 1
          /\ str' = Append(str, c)
          /\ UNCHANGED <<params, seekPos, keyInc, pc, found, values>>
       \/ /\ c \in {EOF, NEWLINE} \/ Len(str) >= strLen - 1
          /\ Return(TRUE)
          /\ UNCHANGED locals

Step ==
    \/ \E c \in Chars : \/ MatchChar(c) \/ KeyFound(c) \/ NoMoreLines(c)
                        \/ NextLine(c) \/ Mismatch(c) \/ SkipChar(c) \/ ValueChar(c)
    \/ SavePosition

Next ==
    \/ \E k \in Keys, n \in Lengths : Get(k, n) \/ GetAll(k, n)
    \/ GetNext
    \/ Step

\* A call that was made goes on; boot()'s loop asks until there is no more.
Spec == Init /\ [][Next]_vars /\ WF_vars(Step)
-----------------------------------------------------------------------------
(***************************************************************************)
(* What boot.cfg says.  Positions are offsets: byte p is bytes[p + 1].     *)
(***************************************************************************)
\* A line starts at p, if one starts at s.
LineStarts(s, p) == p = s \/ (p > s /\ bytes[p] = NEWLINE)

Prefix == key \o <<EQUALS>>

\* The lines with the key, by where they start.
Lines(s) ==
    {p \in s .. Len(bytes) - Len(Prefix) :
        LineStarts(s, p) /\ SubSeq(bytes, p + 1, p + Len(Prefix)) = Prefix}

\* What such a line has behind the equals sign, as much as the buffer can hold.
Value(p) ==
    LET b    == p + Len(Prefix)
        ends == {q \in b .. Len(bytes) - 1 : bytes[q + 1] = NEWLINE} \cup {Len(bytes)}
    IN  SubSeq(bytes, b + 1, Min({Min(ends), b + strLen - 1}))

\* The k-th of the lines.
Nth(lines, k) == CHOOSE p \in lines : Cardinality({q \in lines : q <= p}) = k

\* Does no value look like another line?
Unambiguous == \A p \in Lines(0) : p + Len(Prefix) \notin Lines(p + Len(Prefix))
-----------------------------------------------------------------------------
TypeOK ==
    /\ pos \in 0 .. Len(bytes)
    /\ keyInc \in 0 .. Len(key)
    /\ strLen \in Nat \ {0} /\ Len(str) < strLen
    /\ seekPos \in {NULL} \cup 0 .. Len(bytes) /\ (from = NULL <=> seekPos = NULL)
    /\ pc \in {"idle", "key", "skip", "found", "value"}
    /\ found \in BOOLEAN

\* A call finds the first line with the key, from the start or from *seek_pos on,
\* and returns its value, cut to the buffer; it returns false if there is none.
FirstValue ==
    pc = "idle" /\ key # <<>> =>
        LET lines == Lines(IF from = NULL THEN 0 ELSE from)
        IN  /\ found <=> lines # {}
            /\ found => str = Value(Min(lines))

\* boot()'s loop gets the values of all lines with the key, in their order, and
\* then ends; provided that no value itself looks like such a line, since the next
\* search starts at the value and not behind it.
AllValues ==
    pc = "idle" /\ key # <<>> /\ seekPos # NULL /\ Unambiguous =>
        LET lines == Lines(0)
        IN  /\ \A k \in DOMAIN values : values[k] = Value(Nth(lines, k))
            /\ Len(values) = Cardinality(lines) - (IF found THEN Cardinality(Lines(seekPos)) + 1 ELSE 0)

\* A call returns.
CallEnds == pc # "idle" ~> pc = "idle"
=============================================================================
