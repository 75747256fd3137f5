------------------------------- MODULE MCBoot -------------------------------
(***************************************************************************)
(* Machines, disks and kernels for checking Boot with TLC.                 *)
(***************************************************************************)
EXTENDS Boot

\* The Macintosh with 128K: vectors and ROM variables below 4096, bootloader at
\* 65536 with its heap of `room' bytes at the end.
Mac(room, fails) ==
    [map |-> << [base |-> 77824, size |-> 53248, type |-> USABLE],
                [base |-> 65536, size |-> 12288, type |-> RECLAIMABLE],
                [base |-> 4096, size |-> 61440, type |-> USABLE] >>,
     arena |-> Block(77824 - room, room), scratchAlways |-> TRUE, romFails |-> fails]

\* The funnyarch machine: bootloader and heap first, its stack at the top.
Funnyarch(room) ==
    [map |-> << [base |-> 65536, size |-> 8192 + room, type |-> RECLAIMABLE],
                [base |-> 130048, size |-> 1024, type |-> RECLAIMABLE],
                [base |-> 73728 + room, size |-> 56320 - room, type |-> USABLE] >>,
     arena |-> Block(73728, room), scratchAlways |-> FALSE, romFails |-> FALSE]

\* Room for nothing, for some of the lists, for all of a boot.
MCMachines ==
    {Mac(room, FALSE) : room \in {640, 1160, 2600}}
        \cup {Mac(1700, TRUE), Funnyarch(640), Funnyarch(1700)}

\* In usable memory, up to its end, past it, across the bootloader and in it, ends
\* swapped, and too small for the file.
MCHeaders ==
    { [load |-> 80000, end |-> 90000], [load |-> 80000, end |-> 130000],
      [load |-> 80000, end |-> 131072], [load |-> 70000, end |-> 90000],
      [load |-> 66000, end |-> 67000],
      [load |-> 90000, end |-> 80000], [load |-> 80000, end |-> 80599] }

Whole   == [size |-> 600, status |-> "whole"]
Short   == [size |-> 600, status |-> "short"]
Empty   == [size |-> 0, status |-> "whole"]
Missing == [size |-> 0, status |-> "missing"]

MCFiles == {Whole, Short, Empty, Missing}

MCRequestLists == { <<>>, <<1, 2, 3, 7, 5>>, <<6, 2, 4>>, <<4, 6, 6>> }

MCMaxModules == 3

Good == [fat |-> TRUE, cfg |-> TRUE, path |-> TRUE, cmdline |-> TRUE, magic |-> TRUE,
         kernel |-> Whole, header |-> [load |-> 80000, end |-> 90000],
         requests |-> <<1, 2, 3, 7, 5>>, modules |-> <<>>]

ModuleLists == { <<>>, <<Empty, Empty, Empty>>, <<Whole, Empty>>,
                 <<Empty, Missing>>, <<Short>> }

\* One thing wrong with the volume, or every kernel with every boot.cfg.
MCDisks ==
    { [Good EXCEPT !.fat = FALSE], [Good EXCEPT !.cfg = FALSE],
      [Good EXCEPT !.path = FALSE], [Good EXCEPT !.magic = FALSE] }
      \cup {[Good EXCEPT !.kernel = f] : f \in MCFiles}
      \cup {[Good EXCEPT !.header = h] : h \in MCHeaders}
      \cup {[Good EXCEPT !.requests = r, !.modules = m, !.cmdline = FALSE] :
                r \in MCRequestLists, m \in ModuleLists}
      \cup {[Good EXCEPT !.requests = r] : r \in MCRequestLists}
=============================================================================
