------------------------------ MODULE MCDynMem ------------------------------
(***************************************************************************)
(* Small instances of DynMem for TLC.  Two classes: C1 grows (two sizes),  *)
(* C2 has one size.  Entry 1 and 2 are in objects of C1, entry 2 behind    *)
(* the end of its small size; entry 3 is in C2 and entry 4 is static.      *)
(***************************************************************************)
EXTENDS DynMem, TLC

CONSTANTS C1, C2, a1, a2, t1, t2

MCSizeOne   == [c \in {C1} |-> {4}]
MCSizeGrow  == [c \in {C1} |-> {4, 8}]
MCSizeTwo   == [c \in {C1, C2} |-> IF c = C1 THEN {4, 8} ELSE {4}]

MCClassOne  == [e \in Entry |-> C1]
MCEndOne    == [e \in Entry |-> IF e = 1 THEN 4 ELSE 8]

MCClassTwo  == [e \in {1, 2} |-> IF e = 1 THEN C1 ELSE C2]
MCEndTwo    == [e \in {1, 2} |-> IF e = 1 THEN 8 ELSE 4]

MCActAll    == <<1, 2>>
MCActFirst  == <<1>>

\* One key toggles entry 1, one both entries.
MCKeysOne   == {<<1>>}
MCKeysTwo   == {<<1>>, <<1, 2>>}

\* Addresses are interchangeable.
MCSymmetry  == Permutations(Addr)

\* Unreported frees leave objects behind for ever; bound the objects that are
\* held, queued, reported or being reported.
MCFewReports ==
    \A c \in Class :
        Len(v_maddr[c]) + Len(mq) + Len(fifo)
            + Cardinality({t \in Threads : call[t].at \in {"write_m", "write_f"}}) <= 3

\* Nothing reads obuf before the next sprintf() when no thread is about to
\* write it, and nothing of the game is read or changed once it has ended.
MCView ==
    <<linkVars, trainerVars,
      IF alive THEN <<heap, mem_addrs, call>> ELSE <<>>,
      IF alive /\ \E t \in Threads : call[t].at \in {"write_m", "write_f"}
      THEN obuf ELSE NoMsg>>
=============================================================================
