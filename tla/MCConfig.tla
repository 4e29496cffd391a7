------------------------------- MODULE MCConfig -------------------------------
(* Config files put together from blocks of lines, for TLC. *)
EXTENDS Config

MCPtrMax == 99

\* What chk_en may hold: an address in front of all, or the last one.
MCGarbage == {0, 99}

L(kind) == [kind |-> kind]
Opt(kind, val) == [kind |-> kind, val |-> val]
DynmemStart(name, code) ==
    [kind |-> "dynmemstart", name |-> name, size |-> 8, code |-> code, lib |-> ""]
Value(name, addr) == [kind |-> "value", name |-> name, addr |-> addr, prev |-> FALSE,
                      where |-> "mem", cstr |-> FALSE, target |-> ""]
Check(by, addr) == [kind |-> "check", by |-> by, name |-> "a", addr |-> addr,
                    where |-> "mem", obj |-> FALSE]
ObjCheck(by, addr) == [Check(by, addr) EXCEPT !.obj = TRUE]
End == L("dynmemend")

Static ==
    { <<Value("s", 7)>>,
      <<[Value("s", 7) EXCEPT !.where = "stack"],
        [Value("t", 1) EXCEPT !.prev = TRUE], Check("addr of", 0)>>,
      <<[Value("s", 7) EXCEPT !.where = "l1"], Check("number", 3), Check("this", 0)>>,
      <<[kind |-> "dump", where |-> "l1"], [Check("number", 5) EXCEPT !.where = "l1"]>>,
      <<[Value("p", 2) EXCEPT !.target = "P"]>>,
      <<Check("number", 1)>>,
      <<Check("value", 0)>>,
      <<L("setting"), [Value("c", 3) EXCEPT !.cstr = TRUE], Check("number", 2)>> }

Pointees ==
    { <<[kind |-> "ptrmemstart", name |-> "P"], Value("a", 4), Check("number", 1),
        L("ptrmemend")>>,
      <<[kind |-> "ptrmemstart", name |-> "P"], Check("this", 0)>>,
      <<L("ptrmemend")>> }

Classes ==
    { <<DynmemStart("A", 20), Value("a", 4), Check("number", 2), End>>,
      <<DynmemStart("A", 30), Value("b", 6), ObjCheck("obj", 0), Check("addr of", 0), End>>,
      <<DynmemStart("B", 30), Value("a", 6), ObjCheck("obj", 0), End>>,
      <<DynmemStart("B", 40), L("dynmemconst"), [Value("a", 2) EXCEPT !.prev = TRUE],
        [Value("p", 1) EXCEPT !.target = "P"], Check("addr of", 0), End>>,
      <<[DynmemStart("B", 40) EXCEPT !.lib = "l1"], Value("b", 1), L("skip"), End>>,
      <<[kind |-> "dynmemgrow", name |-> "A"], Value("a", 4), End>>,
      <<DynmemStart("B", 40), [kind |-> "dynmemgrow", name |-> "B"], Check("number", 3)>>,
      <<End>> }

Heads ==
    { <<>>,
      <<Opt("game_call", "h")>>,
      <<Opt("game_path", "g")>>,
      <<Opt("game_binpath", "g")>>,
      <<Opt("game_binpath", "g"), Opt("game_binpath", "g")>>,
      <<Opt("game_call", "h"), Opt("game_path", "g")>> }

Required == <<L("adapt_script"), Opt("adapt_required", TRUE)>>

Tails ==
    { <<>>,
      Required,
      <<Opt("adapt_required", TRUE)>> }

Blocks == Static \cup Pointees \cup Classes

File(h, b, t, e) == [lines |-> <<Opt("proc", "g")>> \o h \o b \o t, ended |-> e]

\* Two blocks with every head and tail, and three blocks without a head.
MCFiles ==
    { File(h, b \o c, t, e) :
        h \in Heads, b \in Blocks, c \in Blocks, t \in Tails, e \in BOOLEAN }
    \cup
    { File(<<>>, b \o c \o d, Required, TRUE) :
        b \in Blocks, c \in Blocks, d \in Blocks }

Obj(name, code) == [kind |-> "obj", name |-> name, size |-> 16, code |-> code]

MCScripts ==
    { [num |-> 0, items |-> <<>>],
      [num |-> 1, items |-> <<Obj("A", 21)>>],
      [num |-> 1, items |-> <<Opt("proc_name", "n"), Opt("game_binpath", "n"), Obj("A", 21)>>],
      [num |-> 1, items |-> <<Opt("proc_name", "n"), Obj("B", 41)>>],
      [num |-> 1, items |-> <<Opt("proc_name", "h"), Opt("game_binpath", "h"),
                              Opt("proc_name", "g"), Obj("A", 21)>>],
      [num |-> 2, items |-> <<Obj("A", 21), Obj("B", 41)>>],
      [num |-> 2, items |-> <<Obj("A", 21), Obj("A", 31)>>],
      [num |-> 2, items |-> <<Obj("A", 21)>>] }
===============================================================================
