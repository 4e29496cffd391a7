----------------------------- MODULE MCStatMem -----------------------------
(***************************************************************************)
(* Static memory with values in the executable, in a library and on the    *)
(* stack, some of them sharing a cache, and a second library that the      *)
(* first one's value is checked against.                                   *)
(***************************************************************************)
EXTENDS StatMem

CONSTANTS L1, L2, ExeFile, Anon, HeapName, StackName

MCLibList == <<L1, L2>>
MCPartOf  == [l \in Lib |-> {l}]

\* Items 1, 2: values in the executable, 3: a check of 1, all in one cache;
\* 4: a value in L1 with 5 a check of it in L2; 6: the stack; 7: another value
\* in L1, in the cache of 4.
MCArea    == [i \in 1..7 |-> CASE i <= 3 -> Exe [] i \in {4, 7} -> L1 [] i = 5 -> L2 [] OTHER -> Stack]
MCValueOf == [i \in 1..7 |-> CASE i = 3 -> 1 [] i = 5 -> 4 [] OTHER -> i]
MCCacheOf == [i \in 1..7 |-> CASE i <= 3 -> 1 [] i \in {4, 7} -> 2 [] i = 5 -> 3 [] OTHER -> 4]
MCAddr0   == [i \in 1..7 |-> CASE i = 1 -> 4 [] i = 2 -> 6 [] i = 3 -> 5 [] i = 6 -> 2 [] i = 7 -> 3
                                    [] OTHER -> 1]
MCOffs0   == [c \in 1..4 |-> CASE c = 1 -> 4 [] c = 4 -> 2 [] OTHER -> 1]
MCDumps   == <<[area |-> Exe, addr |-> 3], [area |-> L1, addr |-> 2]>>

\* Two dump areas in one library.
MCTwoDumps == <<[area |-> L1, addr |-> 2], [area |-> L1, addr |-> 3]>>

MCLoad    == [l \in Lib |-> IF l = L1 THEN {11, 30} ELSE {20, 30}]
Full == {"rodata", "data", "bss"}
Five == Full \cup {"hole"}
MCPartsOf == [f \in File |-> CASE f = ExePath -> {{"data"}, Full}
                                [] f = L1 -> {{}, Five}
                                [] OTHER -> {Full, {"hole", "data", "bss"}}]
MCStackRange == <<60, 80>>

\* Two values on the stack, in one cache.
MCStackArea   == [i \in 1..2 |-> Stack]
MCStackValue  == [i \in 1..2 |-> i]
MCStackCache  == [i \in 1..2 |-> 1]
MCStackAddr0  == [i \in 1..2 |-> i + 1]
MCStackOffs0  == [c \in {1} |-> 2]
MCStackDumps  == <<[area |-> L1, addr |-> 2], [area |-> L2, addr |-> 2]>>
=============================================================================
