----------------------------- MODULE MCStartup -----------------------------
(***************************************************************************)
(* Startup with two libraries and classes of every kind the config allows: *)
(* a class with a const, a class that grows, a growing alone.              *)
(***************************************************************************)
EXTENDS Startup

CONSTANTS exe, noGrow, la, lb, dot, t1, t2

Ess(size, lib)          == [size |-> size, addr |-> TRUE, lib |-> lib]
Cls(size, lib, cs, grow) == [size |-> size, addr |-> size # 0, lib |-> lib, consts |-> cs, grow |-> grow]

\* An executable's class with a const, a growing of library lb alone, and a
\* growing class of library la.
MCClass == << Cls(8, exe, <<Ess(8, exe)>>, noGrow),
              Cls(0, exe, <<>>, [addr |-> TRUE, lib |-> lb]),
              Cls(8, la, <<>>, [addr |-> TRUE, lib |-> la]) >>

\* One class, for the run with late replies.
MCLate == << Cls(8, la, <<>>, noGrow), Cls(8, lb, <<>>, noGrow) >>

\* Unique names; dlopen(NULL) asks for ".", which every name contains.
MCSubstr == [l \in LibName |-> {l, dot} \cap LibName]

\* Every library has addresses of its own, and the executable another offset.
MCLoadAddr == [l \in LibName |-> IF l = la THEN {1, 2} ELSE IF l = lb THEN {3} ELSE {}]

\* What Located and NoneMissed do not hold for: a class for stack values in
\* front of another one, a const in a library, a name inside of another one.
MCStackFirst == << Cls(0, exe, <<>>, noGrow), Cls(8, la, <<>>, noGrow) >>
MCLateConst  == << Cls(8, exe, <<Ess(8, la)>>, noGrow) >>
MCNameInside == [l \in LibName |-> IF l = lb THEN {la, lb} ELSE {l}]

\* The other instances with one thread are such that they do.
ASSUME MCGiven ==
    /\ Class \in {MCClass, MCLate} /\ Substr = MCSubstr /\ Threads = {t1}
    => OneGameThread /\ NamesDiffer /\ StackClassesLast /\ ConstsOfExe
=============================================================================
