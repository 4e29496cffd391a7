----------------------------- MODULE MCDiscovery -----------------------------
(***************************************************************************)
(* Every stage with and without a code filter, an object or a static       *)
(* pointer to follow, one library that is linked or opened (and opened     *)
(* again elsewhere), and another one whose name contains its name.         *)
(***************************************************************************)
EXTENDS Discovery

CONSTANTS lib, lib1

MCSubstr   == (lib :> {lib}) @@ (lib1 :> {lib})
MCLoadAddr == (lib :> {20, 30}) @@ (lib1 :> {30})

Ask(stage, gbt, filter, sz, codeAddr, p, libs, max) ==
    [stage |-> stage, gbt |-> gbt, filter |-> filter, size |-> sz, code |-> codeAddr,
     ptr |-> p, libs |-> libs, max |-> max]

Obj(codeAddr) == [size |-> 1, code |-> codeAddr, stack |-> 0, offs |-> 0]
Static(offs)  == [size |-> 0, code |-> 0, stack |-> 0, offs |-> offs]

MCConfig ==
    {Ask(1, FALSE, NoFilter, 0, 0, NoPtr, {}, 6),
     Ask(2, FALSE, NoFilter, 2, 0, NoPtr, {lib}, 4),
     Ask(2, FALSE, NoFilter, 2, 0, Obj(ExeOffs + 1), {}, 4),
     Ask(3, FALSE, Exe, 2, 0, NoPtr, {}, 5),
     Ask(3, TRUE, lib, 1, 0, NoPtr, {lib}, 2),
     Ask(4, FALSE, lib, 1, 2, NoPtr, {lib, lib1}, 1),
     Ask(4, FALSE, NoFilter, 2, 0, NoPtr, {}, 5),
     Ask(4, FALSE, NoFilter, 2, 1, NoPtr, {}, 5),
     Ask(4, FALSE, Exe, 2, 1, Obj(1), {}, 4),
     Ask(3, FALSE, Exe, 1, 0, Static(Glob - ExeOffs), {}, 4),
     Ask(3, FALSE, NoFilter, 1, 0, NoPtr, {lib}, 3)}

At(m, o) == [mod |-> m, offs |-> o]
MCStack  == {<<At(Exe, 1)>>, <<At(Exe, 2), At(lib, 1), At(lib, 2), At(Exe, 1)>>}

\* A static pointer with a stage that needs no code address.
MCPtrConfig == {Ask(2, FALSE, NoFilter, 1, 0, Static(Glob), {}, 3)}

\* All of them can be followed.
ASSUME MCPointers == PointersGiven

\* There is room above the libraries: without it, see MCDiscovery_v_wrap.cfg.
MCRoom == UIntPtrMax > 90
ASSUME MCFilters == MCRoom => FiltersGiven
==============================================================================
