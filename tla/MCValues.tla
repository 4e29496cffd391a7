------------------------------ MODULE MCValues ------------------------------
(***************************************************************************)
(* Small configs for Values.  Memory is 1..16, a chunk four cells.  The    *)
(* objects of C are at 2 and 5 and three cells long: the chunk of the      *)
(* first one holds the first cell of the second.  What pointers lead to is *)
(* at 9 and the static values are at 13.                                   *)
(***************************************************************************)
EXTENDS Values

CONSTANTS C, P, S

\* A plain value, wanted to be 3, at offset addr of area a.
Plain(a, addr) ==
    [area |-> a, addr |-> addr, size |-> 1, cmp |-> "off", dynval |-> "off", want |-> 3,
     ref |-> NoEntry, add |-> 0, vaddr |-> 0, target |-> NoEntry, checks |-> <<>>]

\* A check of the value at offset addr, of entry r, and of the object number.
MemCheck(addr, cmp, v, obj) ==
    [kind |-> "mem", addr |-> addr, ref |-> NoEntry, alts |-> {<<cmp, v>>}, isobj |-> obj]
RefCheck(r, cmp, v) ==
    [kind |-> "ref", addr |-> 0, ref |-> r, alts |-> {<<cmp, v>>}, isobj |-> FALSE]
NumCheck(v) ==
    [kind |-> "num", addr |-> 1, ref |-> NoEntry, alts |-> {<<"eq", v>>}, isobj |-> FALSE]

Base == [owner |-> [p \in {P} |-> C], bases |-> [c \in {C} |-> {2, 5}],
         sizes |-> [c \in {C} |-> {3}], keys |-> {}, changes |-> {}]

\* A value behind a pointer, a maximum, a reference to it, the pointer.
CfgObjects ==
    [entries |-> <<Plain(P, 1),
                   [Plain(C, 0) EXCEPT !.dynval = "max", !.want = 1],
                   [Plain(C, 1) EXCEPT !.dynval = "ref", !.ref = 2, !.add = 1],
                   [Plain(C, 2) EXCEPT !.dynval = "always", !.target = P]>>,
     cfg_act |-> <<2, 3, 4>>,
     area_act |-> [a \in {C, P, S} |-> IF a = C THEN <<2, 3, 4>> ELSE IF a = P THEN <<1>> ELSE <<>>],
     owner |-> Base.owner, bases |-> Base.bases, sizes |-> Base.sizes,
     keys |-> {2}, changes |-> {<<2, 2>>, <<5, 4>>, <<4, 9>>, <<7, 9>>, <<4, 0>>}]

\* A static pointer followed once, static values with checks and addresses.
CfgStatic ==
    [entries |-> <<[Plain(P, 0) EXCEPT !.cmp = "lt", !.checks = <<RefCheck(2, "eq", 0)>>],
                   [Plain(S, 14) EXCEPT !.dynval = "watch"],
                   [Plain(S, 13) EXCEPT !.dynval = "once", !.target = P,
                                        !.checks = <<MemCheck(14, "lt", 2, FALSE)>>],
                   [Plain(S, 15) EXCEPT !.dynval = "addr", !.vaddr = 1, !.cmp = "gt",
                                        !.checks = <<NumCheck(1)>>],
                   [Plain(S, 16) EXCEPT !.size = 2],
                   [Plain(S, 14) EXCEPT !.size = 3]>>,
     cfg_act |-> <<2, 3, 4>>,
     area_act |-> [a \in {C, P, S} |-> IF a = P THEN <<1>> ELSE <<>>],
     owner |-> [p \in {P} |-> S], bases |-> [c \in {C} |-> {}], sizes |-> Base.sizes,
     keys |-> {1, 4}, changes |-> {<<13, 9>>, <<13, 10>>, <<14, 2>>, <<15, 5>>, <<1, 4>>}]

\* Checks of the object, of its number and of another entry; a small object.
CfgChecks ==
    [entries |-> <<[Plain(C, 0) EXCEPT !.cmp = "gt",
                                       !.checks = <<MemCheck(1, "lt", 2, TRUE)>>],
                   [Plain(C, 1) EXCEPT !.dynval = "min",
                                       !.checks = <<RefCheck(1, "gt", 0), NumCheck(0)>>],
                   [Plain(C, 2) EXCEPT !.dynval = "ref", !.ref = 1],
                   [Plain(S, 13) EXCEPT !.cmp = "lt"]>>,
     cfg_act |-> <<1, 4, 2, 3>>,
     area_act |-> [a \in {C, P, S} |-> IF a = C THEN <<1, 2, 3>> ELSE <<>>],
     owner |-> [p \in {P} |-> S], bases |-> Base.bases, sizes |-> [c \in {C} |-> {2, 3}],
     keys |-> {3}, changes |-> {<<2, 4>>, <<2, 2>>, <<5, 5>>, <<6, 2>>, <<13, 1>>}]

\* Two pointers of an object to the same memory, one of them followed once.
CfgTwo ==
    [entries |-> <<[Plain(P, 1) EXCEPT !.cmp = "lt"], [Plain(C, 0) EXCEPT !.dynval = "always", !.target = P],
                   [Plain(C, 2) EXCEPT !.dynval = "once", !.target = P]>>,
     cfg_act |-> <<2, 3>>,
     area_act |-> [a \in {C, P, S} |-> IF a = C THEN <<2, 3>> ELSE IF a = P THEN <<1>> ELSE <<>>],
     owner |-> Base.owner, bases |-> Base.bases, sizes |-> Base.sizes,
     keys |-> {}, changes |-> {<<2, 9>>, <<4, 10>>, <<5, 9>>, <<7, 9>>}]

\* Nothing is active but the layout has values that do not fit together.
CfgLayout ==
    [entries |-> <<[Plain(C, 5) EXCEPT !.size = 2], [Plain(C, 3) EXCEPT !.size = 2],
                   [Plain(C, 0) EXCEPT !.size = 2], [Plain(C, 7) EXCEPT !.size = 4],
                   [Plain(C, 6) EXCEPT !.size = 3], [Plain(C, 2) EXCEPT !.size = 3],
                   Plain(C, 3)>>,
     cfg_act |-> <<>>, area_act |-> [a \in {C, P, S} |-> <<>>],
     owner |-> [p \in {P} |-> S], bases |-> Base.bases, sizes |-> Base.sizes,
     keys |-> {}, changes |-> {}]

MCConfigs   == {CfgObjects, CfgStatic, CfgChecks, CfgTwo, CfgLayout}
MCLayouts   == {Elements(c) : c \in Configs}

\* The pointer can lead right behind the object, into the object's chunk.
CfgNear ==
    [CfgObjects EXCEPT !.entries[1].addr = 0, !.bases = [c \in {C} |-> {2}],
                       !.changes = {<<4, 5>>, <<2, 2>>}]

MCNear      == {CfgNear}
MCObjects   == {CfgObjects}
=============================================================================
