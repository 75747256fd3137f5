----------------------------- MODULE MCFatMount -----------------------------
(***************************************************************************)
(* Volumes as formatters make them, with numbers of clusters around those  *)
(* where the type changes, and structures with each field at its limits.   *)
(***************************************************************************)
EXTENDS FatMount

Huge == WordSize \div 255 + 2   \* 255 times this is little more than nothing

MCBpbs == [bps : {0, 48, 512}, spc : {0, 1, 255}, reserved : {1, 65535}, fats : {2, 255},
           rootEnts : {0, 17}, sectors : {0, 65535}, fatSize : {0, 9, 65535}, large : {4095, WordSize - 1}]

MCEbpbs == [fatSize : {0, 600, Huge}, root : {2}]

Formatted(t, c, s, b, f, ents, rest, small) ==
    LET roots == IF t = 32 THEN 0 ELSE (ents * DirentSize) \div b
                                        + (IF (ents * DirentSize) % b = 0 THEN 0 ELSE 1)
        size  == ((c + 2) * t) \div (8 * b) + 1
        total == 32 + f * size + roots + c * s + rest
        short == small /\ total < 65536
    IN  [bpb  |-> [bps |-> b, spc |-> s, reserved |-> 32, fats |-> f,
                   rootEnts |-> IF t = 32 THEN 0 ELSE ents,
                   sectors |-> IF short THEN total ELSE 0,
                   fatSize |-> IF t = 32 THEN 0 ELSE size,
                   large |-> IF short THEN 0 ELSE total],
         ebpb |-> [fatSize |-> IF t = 32 THEN size ELSE 0, root |-> 2],
         formatted |-> TRUE, type |-> t, fatSize |-> size, clusters |-> c, rest |-> rest,
         rootSectors |-> roots]

Unformatted(b, e) ==
    [bpb |-> b, ebpb |-> e, formatted |-> FALSE, type |-> 12, fatSize |-> 0, clusters |-> 0,
     rest |-> 0, rootSectors |-> 0]

Sizes == {<<12, 1>>, <<12, 4084>>, <<16, 4085>>, <<16, 65524>>, <<32, 65525>>, <<32, 1000000>>}

MCDisks ==
    {Formatted(x[1], x[2], s, y[1], y[2], y[3], s - 1, small) :
        x \in Sizes, s \in {1, 8}, y \in {<<512, 2, 512>>, <<2048, 1, 17>>}, small \in BOOLEAN}
      \cup {Unformatted(b, e) : b \in {x \in MCBpbs : x.bps = 512 /\ x.spc = 1 /\ x.reserved = 1 /\ x.rootEnts = 0}, e \in {[fatSize |-> 0, root |-> 2]}}
=============================================================================
