-------------------------------- MODULE Config --------------------------------
(***************************************************************************)
(* The config file: how read_config() builds the config from it, line by   *)
(* line, and how adaptation takes over what a script finds out about a new *)
(* version of the game, in memory and in the file.                         *)
(*                                                                         *)
(* A line is a record; its text is not modelled.  A class (dynmem) and     *)
(* what a pointer leads to (ptrmem) are blocks of lines; the values in     *)
(* them and the checks behind a value go to the block.  In front of        *)
(* build_caches() every memory area has one cache, whose offset is lowered *)
(* to the values and checks of the area; CacheLayout shows that this makes *)
(* all values fit into their caches.                                       *)
(*                                                                         *)
(* The main program goes on with the adapted config, and the next time     *)
(* with what the file says.                                                *)
(***************************************************************************)
EXTENDS Naturals, Sequences

CONSTANTS
    Files,       \* the config files considered
    Scripts,     \* what the adaptation script may print
    PtrMax,      \* PTR_MAX: the offset of a cache nothing was listed for
    Garbage      \* what chk_en.addr may hold before the first check is read

\* Offsets are not negative in the files considered, as PtrMax is their end.
TypedLine(l) == l.kind \in {"value", "check"} => l.addr \in Nat

ASSUME ConfigAssumption ==
    /\ PtrMax \in Nat /\ Garbage \subseteq Nat
    /\ \A f \in Files :
          /\ f.lines # <<>>
          /\ f.lines \in Seq({f.lines[k] : k \in DOMAIN f.lines})
          /\ \A k \in DOMAIN f.lines : TypedLine(f.lines[k])

VARIABLES
    disk,        \* the config file: its lines, and whether the last one is ended
    run,         \* the first or the next start of ugtrain
    status,      \* "read", "built", "adapt", "ready", "failed" or "undefined"
    cfg_lines, lnr,
    dynmem_enp, ptrmem_enp,    \* the block being read: its number, 0 for NULL
    dynmems, ptrmems,          \* the classes and pointees read so far
    cfg,         \* the list of config entries
    chk_addr,    \* chk_en.addr: the variable is used for every check again
    offs,        \* offset of the first cache of every memory area
    opt,         \* the options that come from the config
    script,      \* the part of the script's output that is not parsed yet
    taken,       \* history: the objects of the output and the classes they went to
    kept         \* history: the config in memory when it was written back

scopeVars == <<dynmem_enp, ptrmem_enp>>
adaptVars == <<script, taken, kept>>
vars == <<disk, run, status, cfg_lines, lnr, scopeVars, dynmems, ptrmems, cfg,
          chk_addr, offs, opt, adaptVars>>

Line == cfg_lines[lnr]
Current == cfg[Len(cfg)]             \* cfg->back()
InScope == dynmem_enp # 0 \/ ptrmem_enp # 0
LeastOf(S) == CHOOSE i \in S : \A j \in S : i <= j
LargestOf(S) == CHOOSE i \in S : \A j \in S : j <= i

\* read_config_vect(): behind the last '\n' there is one more, empty line.
ReadFile(f) == IF f.ended THEN Append(f.lines, [kind |-> "skip"]) ELSE f.lines

\* parse_proc_name(): whatever the first line is.
ProcName(l) == IF l.kind = "proc" THEN l.val ELSE "no process name"

\* The memory areas that have caches of their own.
Area(kind, id) == <<kind, id>>
Class(i) == Area("dynmem", i)
Pointee(i) == Area("ptrmem", i)
NoBlock(where) == CASE where = "mem"   -> Area("opt", 0)
                    [] where = "stack" -> Area("stack", 0)
                    [] OTHER           -> Area("lib", where)

\* init_cache(&cache, PTR_MAX) for a new area
WithArea(o, a) ==
    [x \in DOMAIN o \cup {a} |-> IF x \in DOMAIN o THEN o[x] ELSE PtrMax]

\* FIND_ADD_LIB_ENTRY
WithLib(o, where) ==
    IF where \in {"mem", "stack"} THEN o ELSE WithArea(o, NoBlock(where))

\* FIND_CACHE_START(_CHECK)
Started(o, a, addr) ==
    [o EXCEPT ![a] = IF addr < @ THEN addr ELSE @]

\* build_caches(): where the caches of a value or a check of this entry are.
HomeOf(dynmem, ptrmem, where) ==
    IF dynmem # 0 THEN Class(dynmem)
    ELSE IF ptrmem # 0 THEN Pointee(ptrmem)
    ELSE NoBlock(where)

\* The start of read_config().
NoOffs == [a \in {NoBlock("mem"), NoBlock("stack")} |-> PtrMax]

FirstOpt(f) ==
    LET name == ProcName(f.lines[1]) IN
    [proc |-> name, call |-> name, path |-> "", binpath |-> "", binpath_line |-> 0,
     adp_script |-> FALSE, adp_required |-> FALSE, adp_req_line |-> 0]

Init ==
    /\ disk \in Files
    /\ run = 1
    /\ status = "read"
    /\ cfg_lines = ReadFile(disk) /\ lnr = 2
    /\ dynmem_enp = 0 /\ ptrmem_enp = 0
    /\ dynmems = <<>> /\ ptrmems = <<>> /\ cfg = <<>>
    /\ chk_addr \in Garbage
    /\ offs = NoOffs
    /\ opt = FirstOpt(disk)
    /\ script = [num |-> 0, items |-> <<>>]
    /\ taken = <<>>
    /\ kept = [sound |-> FALSE]

-----------------------------------------------------------------------------
(* A line of the config.                                                   *)

\* get_prev_cfg_en_addr(): "prev" takes offset and area of the last entry.
ValueAddr(l) == IF l.prev THEN Current.addr + l.addr ELSE l.addr
ValueWhere(l) == IF l.prev THEN Current.where ELSE l.where

\* find_ptr_mem(): the pointee of an entry, 0 for NULL.
FindPtrMem(name) ==
    LET named == {i \in DOMAIN cfg : /\ cfg[i].ptrmem # 0
                                     /\ ptrmems[cfg[i].ptrmem].name = name}
    IN  IF named = {} THEN 0 ELSE cfg[LeastOf(named)].ptrmem

\* find_cfg_en(): the last entry of that name, 0 for NULL.
FindCfgEn(name) ==
    LET named == {i \in DOMAIN cfg : cfg[i].name = name}
    IN  IF named = {} THEN 0 ELSE LargestOf(named)

\* parse_address() of a check: a number, "this", "addr <name>", or the value
\* of another entry; or else parse_obj_num_chk(), which leaves addr as it was.
CheckRef(l) ==
    IF l.by = "value" /\ FindCfgEn(l.name) # Len(cfg) THEN FindCfgEn(l.name) ELSE 0

CheckedEntry(l) == IF l.by = "addr of" THEN cfg[FindCfgEn(l.name)] ELSE Current

CheckAddr(l) == CASE l.by = "number" -> l.addr
                  [] l.by = "obj"    -> chk_addr
                  [] OTHER -> IF CheckRef(l) # 0 THEN 0 ELSE CheckedEntry(l).addr

CheckWhere(l) == CASE l.by = "number" -> l.where
                   [] l.by = "obj"    -> "mem"
                   [] OTHER -> IF CheckRef(l) # 0 THEN "mem" ELSE CheckedEntry(l).where

\* MUTANT of CheckHome: checks are listed with the static memory.
CheckHomeStatic(l) == NoBlock(CheckWhere(l))

\* Where FIND_CACHE_START_CHECK looks for the cache of a check.
CheckHome(l) ==
    IF dynmem_enp # 0 THEN Class(Current.dynmem)
    ELSE IF ptrmem_enp # 0 THEN Pointee(Current.ptrmem)
    ELSE NoBlock(CheckWhere(l))

\* What no cfg_parse_err() rejects.
Settings == {"setting", "dump", "adapt_script", "adapt_required", "game_path",
             "game_call", "game_binpath"}

AcceptedValue(l) ==
    /\ l.prev => cfg # <<>>
    /\ ValueWhere(l) # "mem" => ~InScope
    /\ l.target # "" => FindPtrMem(l.target) # 0

AcceptedCheck(l) ==
    /\ l.obj => dynmem_enp # 0
    /\ l.by = "obj" => dynmem_enp # 0
    /\ l.by \in {"value", "addr of"} => FindCfgEn(l.name) # 0
    /\ CheckWhere(l) # "mem" => ~InScope

Accepted(l) ==
    /\ l.kind \in Settings \cup {"dynmemstart"} => ~InScope
    /\ l.kind = "ptrmemstart" => dynmem_enp = 0
    /\ l.kind \in {"dynmemconst", "dynmemend"} => dynmem_enp # 0
    /\ l.kind = "ptrmemend" => ptrmem_enp # 0
    /\ l.kind = "dynmemgrow" => /\ ptrmem_enp = 0
                                /\ dynmem_enp # 0 => ~dynmems[dynmem_enp].grow
    /\ l.kind = "game_path" => l.val = opt.call
    /\ l.kind = "game_binpath" => l.val = opt.proc
    /\ l.kind = "value" => AcceptedValue(l)
    /\ l.kind = "check" => AcceptedCheck(l)

\* A check in front of any value, or of the first value of its block, is
\* attached to an entry that does not exist or has no such cache.
Dangling(l) ==
    /\ l.kind = "check"
    /\ l.obj => dynmem_enp # 0
    /\ IF cfg = <<>> THEN TRUE
       ELSE /\ AcceptedCheck(l) /\ CheckRef(l) = 0
            /\ (dynmem_enp # 0 /\ Current.dynmem = 0)
                   \/ (ptrmem_enp # 0 /\ Current.ptrmem = 0)

Reading == status = "read" /\ lnr <= Len(cfg_lines)

Parse(kind) ==
    /\ Reading /\ Line.kind = kind
    /\ ~Dangling(Line) /\ Accepted(Line)
    /\ lnr' = lnr + 1
    /\ UNCHANGED <<disk, run, status, cfg_lines, adaptVars>>

ReadSkip ==
    /\ \E kind \in {"skip", "setting"} : Parse(kind)
    /\ UNCHANGED <<scopeVars, dynmems, ptrmems, cfg, chk_addr, offs, opt>>

ReadDump ==
    /\ Parse("dump")
    /\ offs' = WithLib(offs, Line.where)
    /\ UNCHANGED <<scopeVars, dynmems, ptrmems, cfg, chk_addr, opt>>

ReadOption ==
    /\ \/ Parse("game_path") /\ opt' = [opt EXCEPT !.path = Line.val]
       \/ Parse("game_call") /\ opt' = [opt EXCEPT !.call = Line.val]
       \/ /\ Parse("game_binpath")
          /\ opt' = [opt EXCEPT !.binpath = Line.val, !.binpath_line = lnr]
       \/ Parse("adapt_script") /\ opt' = [opt EXCEPT !.adp_script = TRUE]
       \/ /\ Parse("adapt_required")
          /\ opt' = [opt EXCEPT !.adp_required = @ \/ Line.val, !.adp_req_line = lnr]
    /\ UNCHANGED <<scopeVars, dynmems, ptrmems, cfg, chk_addr, offs>>

NewClass(l, line) ==
    [name |-> l.name, size |-> l.size, code |-> l.code, lib |-> l.lib,
     cfg_line |-> line, grow |-> FALSE, consts |-> 0, adp_size |-> 0, adp_addr |-> 0]

ReadDynmemStart ==
    /\ Parse("dynmemstart")
    /\ dynmems' = Append(dynmems, NewClass(Line, lnr))
    /\ dynmem_enp' = Len(dynmems')
    /\ offs' = WithArea(offs, Class(dynmem_enp'))
    /\ UNCHANGED <<ptrmem_enp, ptrmems, cfg, chk_addr, opt>>

ReadDynmemConst ==
    /\ Parse("dynmemconst")
    /\ dynmems' = [dynmems EXCEPT ![dynmem_enp].consts = @ + 1]
    /\ UNCHANGED <<scopeVars, ptrmems, cfg, chk_addr, offs, opt>>

\* A class that only grows has no line of its own: cfg_line is that of the
\* process name.
ReadDynmemGrow ==
    /\ Parse("dynmemgrow")
    /\ \/ /\ dynmem_enp # 0
          /\ dynmems' = [dynmems EXCEPT ![dynmem_enp].grow = TRUE]
          /\ UNCHANGED <<dynmem_enp, offs>>
       \/ /\ dynmem_enp = 0
          /\ dynmems' = Append(dynmems, [NewClass([name |-> Line.name, size |-> 0,
                            code |-> 0, lib |-> ""], 1) EXCEPT !.grow = TRUE])
          /\ dynmem_enp' = Len(dynmems')
          /\ offs' = WithArea(offs, Class(dynmem_enp'))
    /\ UNCHANGED <<ptrmem_enp, ptrmems, cfg, chk_addr, opt>>

ReadDynmemEnd ==
    /\ Parse("dynmemend")
    /\ dynmem_enp' = 0
    /\ UNCHANGED <<ptrmem_enp, dynmems, ptrmems, cfg, chk_addr, offs, opt>>

\* in_ptrmem is not looked at: a block without an end is left for the next one.
ReadPtrmemStart ==
    /\ Parse("ptrmemstart")
    /\ ptrmems' = Append(ptrmems, [name |-> Line.name, dynmem |-> 0, v_state |-> 0])
    /\ ptrmem_enp' = Len(ptrmems')
    /\ offs' = WithArea(offs, Pointee(ptrmem_enp'))
    /\ UNCHANGED <<dynmem_enp, dynmems, cfg, chk_addr, opt>>

ReadPtrmemEnd ==
    /\ Parse("ptrmemend")
    /\ ptrmem_enp' = 0
    /\ UNCHANGED <<dynmem_enp, dynmems, ptrmems, cfg, chk_addr, offs, opt>>

\* What a pointer leads to belongs to the class of the pointer, or has one
\* state for every pointer outside of the classes.
Targeted(l) ==
    LET t == FindPtrMem(l.target) IN
    IF l.target = "" THEN ptrmems
    ELSE IF dynmem_enp # 0 THEN [ptrmems EXCEPT ![t].dynmem = dynmem_enp]
    ELSE [ptrmems EXCEPT ![t].v_state = @ + 1]

\* A config entry; strings are not cached.
ReadValue ==
    /\ Parse("value")
    /\ LET addr == ValueAddr(Line)  where == ValueWhere(Line) IN
       /\ cfg' = Append(cfg, [name |-> Line.name, addr |-> addr, where |-> where,
                     cstr |-> Line.cstr, dynmem |-> dynmem_enp, ptrmem |-> ptrmem_enp,
                     ptrtgt |-> IF Line.target = "" THEN 0 ELSE FindPtrMem(Line.target),
                     checks |-> <<>>])
       /\ offs' = IF Line.cstr THEN WithLib(offs, where)
                  ELSE Started(WithLib(offs, where),
                               HomeOf(dynmem_enp, ptrmem_enp, where), addr)
    /\ ptrmems' = Targeted(Line)
    /\ UNCHANGED <<scopeVars, dynmems, chk_addr, opt>>

\* "open" is history: the check was read outside of the blocks.
ReadCheck ==
    /\ Parse("check")
    /\ LET addr == CheckAddr(Line)  where == CheckWhere(Line)
           check == [addr |-> addr, where |-> where, ref |-> CheckRef(Line),
                     num |-> Line.by = "obj", open |-> ~InScope]
       IN  /\ cfg' = [cfg EXCEPT ![Len(cfg)].checks = Append(@, check)]
           /\ chk_addr' = addr
           /\ offs' = IF check.ref # 0 THEN offs
                      ELSE Started(WithLib(offs, where), CheckHome(Line), addr)
    /\ UNCHANGED <<scopeVars, dynmems, ptrmems, opt>>

Stop(how) ==
    /\ status' = how
    /\ UNCHANGED <<disk, run, cfg_lines, lnr, scopeVars, dynmems, ptrmems, cfg,
                   chk_addr, offs, opt, adaptVars>>

\* cfg_parse_err()
Reject == Reading /\ ~Dangling(Line) /\ ~Accepted(Line) /\ Stop("failed")

\* NULL or the head of an empty list is taken for an entry.
Dangle == Reading /\ Dangling(Line) /\ Stop("undefined")

\* The end of config checks, and build_caches().
EndOfConfig ==
    /\ status = "read" /\ lnr > Len(cfg_lines)
    /\ Stop(IF InScope THEN "failed" ELSE "built")

ReadConfig ==
    \/ ReadSkip \/ ReadDump \/ ReadOption
    \/ ReadDynmemStart \/ ReadDynmemConst \/ ReadDynmemGrow \/ ReadDynmemEnd
    \/ ReadPtrmemStart \/ ReadPtrmemEnd \/ ReadValue \/ ReadCheck
    \/ Reject \/ Dangle \/ EndOfConfig

-----------------------------------------------------------------------------
(* Adaptation.                                                             *)

configVars == <<run, lnr, scopeVars, ptrmems, cfg, chk_addr, offs>>

\* The user declines, or nothing asks for it.
SkipAdaptation ==
    /\ status = "built"
    /\ opt.adp_required => opt.adp_script
    /\ Stop("ready")

\* There is no script, it fails (twice: the second time it debugs), or root
\* starts it.
NoAdaptation == status = "built" /\ run = 1 /\ Stop("failed")

\* adapt_required and the user accepts, or -A.
RunScript(s) ==
    /\ status = "built" /\ opt.adp_script
    /\ run = 1                                                      \* a bound
    /\ status' = "adapt"
    /\ script' = s
    /\ UNCHANGED <<disk, cfg_lines, dynmems, opt, taken, kept, configVars>>

Parsing == status = "adapt" /\ script.num > 0

Item == script.items[1]

\* A reserved config entry in front of an object.
TakeSetting ==
    /\ Parsing /\ script.items # <<>>
    /\ script' = [script EXCEPT !.items = Tail(@)]
    /\ \/ /\ Item.kind = "proc_name"
          /\ opt' = [opt EXCEPT !.proc = Item.val,
                                !.call = IF @ = opt.proc THEN Item.val ELSE @]
          /\ cfg_lines' = [cfg_lines EXCEPT ![1] = [kind |-> "proc", val |-> Item.val]]
       \/ /\ Item.kind = "game_binpath"
          /\ IF opt.binpath_line = 0 THEN UNCHANGED <<opt, cfg_lines>>
             ELSE /\ Item.val = opt.proc
                  /\ opt' = [opt EXCEPT !.binpath = Item.val]
                  /\ cfg_lines' = [cfg_lines EXCEPT ![opt.binpath_line] =
                                      [kind |-> "game_binpath", val |-> Item.val]]
    /\ UNCHANGED <<disk, status, dynmems, taken, kept, configVars>>

\* The classes that have entries; no other class is found through cfg.
Listed == {cfg[i].dynmem : i \in DOMAIN cfg} \ {0}

\* MUTANT of Candidates: a class may be found again.
CandidatesAgain(name) == {i \in Listed : dynmems[i].name = name}

Candidates(name) ==
    {i \in Listed : dynmems[i].adp_addr = 0 /\ dynmems[i].name = name}

TakeObject ==
    /\ Parsing /\ script.items # <<>> /\ Item.kind = "obj"
    /\ Candidates(Item.name) # {}
    /\ LET c == LeastOf(Candidates(Item.name)) IN
       /\ dynmems' = [dynmems EXCEPT ![c].adp_size = Item.size,
                                     ![c].adp_addr = Item.code]
       /\ taken' = Append(taken, [class |-> c, obj |-> Item])
    /\ script' = [num |-> script.num - 1, items |-> Tail(script.items)]
    /\ UNCHANGED <<disk, status, cfg_lines, opt, kept, configVars>>

\* parse_err; the second try parses the same, cut output and fails as well.
RejectScript ==
    /\ Parsing
    /\ IF script.items = <<>> THEN TRUE
       ELSE \/ /\ Item.kind = "obj" /\ Candidates(Item.name) = {}
            \/ /\ Item.kind = "game_binpath"
               /\ opt.binpath_line # 0 /\ Item.val # opt.proc
    /\ Stop("failed")

Adapted ==
    [i \in DOMAIN dynmems |->
        IF i \notin Listed THEN dynmems[i]
        ELSE [dynmems[i] EXCEPT !.size = dynmems[i].adp_size,
                                !.code = dynmems[i].adp_addr]]

\* "dynmemstart <name> <size> <code address> <stack offset>": no library.
StartLine(c) ==
    [kind |-> "dynmemstart", name |-> c.name, size |-> c.size, code |-> c.code, lib |-> ""]

\* MUTANT of AdaptedLines: adapt_required stays as it was.
AdaptedLinesRequired(classes) ==
    [k \in DOMAIN cfg_lines |->
        LET here == {i \in Listed : classes[i].cfg_line = k} IN
        IF here # {} THEN StartLine(classes[LargestOf(here)]) ELSE cfg_lines[k]]

AdaptedLines(classes) ==
    [k \in DOMAIN cfg_lines |->
        LET here == {i \in Listed : classes[i].cfg_line = k} IN
        IF k = opt.adp_req_line THEN [kind |-> "adapt_required", val |-> FALSE]
        ELSE IF here # {} THEN StartLine(classes[LargestOf(here)])
        ELSE cfg_lines[k]]

\* The address of a check of the number of objects means nothing.
Meaningful(c) == IF c.num THEN [c EXCEPT !.addr = 0] ELSE c

\* The config as the rest of the program sees it.
Conf(classes) ==
    [dynmems |-> [i \in DOMAIN classes |->
                     [f \in {"name", "size", "code", "lib", "grow", "consts"} |->
                         classes[i][f]]],
     ptrmems |-> ptrmems,
     cfg |-> [i \in DOMAIN cfg |-> [cfg[i] EXCEPT !.checks =
                 [k \in DOMAIN @ |-> Meaningful(@[k])]]],
     proc |-> opt.proc, call |-> opt.call,
     path |-> opt.path, binpath |-> opt.binpath]

\* What the write-back can express: the last line is ended; every class with
\* entries has a line, is no library's and is in the output; the binary and the
\* game call are the ones of the file (names that change twice may differ); with
\* a new process name nothing else in the file refers to the old one (of several
\* lines game_binpath only the last is rewritten); and adaptation is asked for
\* once.
Expressible ==
    /\ disk.ended
    /\ \A i \in Listed : /\ dynmems[i].adp_addr # 0
                         /\ dynmems[i].lib = ""
                         /\ dynmems[i].cfg_line # 1
    /\ opt.binpath_line # 0 => opt.binpath = opt.proc
    /\ \A k \in 2..Len(disk.lines) :
           /\ disk.lines[k].kind = "game_call"
           /\ \A j \in (k + 1)..Len(disk.lines) : disk.lines[j].kind # "game_call"
           => opt.call = disk.lines[k].val
    /\ opt.proc # ProcName(disk.lines[1]) =>
           \A k \in 2..Len(disk.lines) :
               /\ disk.lines[k].kind \notin {"game_path", "game_call"}
               /\ disk.lines[k].kind = "game_binpath" => k = opt.binpath_line
    /\ \A k \in 2..Len(disk.lines) :
           disk.lines[k].kind = "adapt_required" => k = opt.adp_req_line

\* take_over_config() and write_config_vect(), which drops the last line.
TakeOver ==
    /\ status = "adapt" /\ script.num = 0
    /\ dynmems' = Adapted
    /\ cfg_lines' = AdaptedLines(dynmems')
    /\ disk' = [lines |-> SubSeq(cfg_lines', 1, Len(cfg_lines) - 1), ended |-> TRUE]
    /\ status' = "ready"
    /\ kept' = [sound |-> Expressible, conf |-> Conf(dynmems')]
    /\ UNCHANGED <<opt, script, taken, configVars>>

\* The file cannot be opened for writing.
WriteFails == status = "adapt" /\ script.num = 0 /\ Stop("failed")

Adaptation ==
    \/ SkipAdaptation \/ NoAdaptation \/ (\E s \in Scripts : RunScript(s))
    \/ TakeSetting \/ TakeObject \/ RejectScript \/ TakeOver \/ WriteFails

\* ugtrain is started again with the adapted config.
Restart ==
    /\ status = "ready" /\ run = 1 /\ kept.sound
    /\ run' = 2
    /\ status' = "read"
    /\ cfg_lines' = ReadFile(disk) /\ lnr' = 2
    /\ dynmem_enp' = 0 /\ ptrmem_enp' = 0
    /\ dynmems' = <<>> /\ ptrmems' = <<>> /\ cfg' = <<>>
    /\ offs' = NoOffs
    /\ chk_addr' \in Garbage
    /\ opt' = FirstOpt(disk)
    /\ UNCHANGED <<disk, adaptVars>>

Terminated ==
    /\ status \in {"failed", "undefined"} \/ (status = "ready" /\ ~(run = 1 /\ kept.sound))
    /\ UNCHANGED vars

Next == ReadConfig \/ Adaptation \/ Restart \/ Terminated

Spec == Init /\ [][Next]_vars

-----------------------------------------------------------------------------
Cached(e, c) == c.ref = 0 /\ (c.open => e.dynmem = 0 /\ e.ptrmem = 0)

(* read_config() and build_caches() agree on the memory area of a value    *)
(* and of a check: when the values are given their caches, the first cache *)
(* of that area does not begin behind them.  (A check on a line behind the *)
(* end of a block is attached to the last entry of the block, but listed   *)
(* with the static memory: it is excluded by Cached.)                      *)
Homes ==
    \A i \in DOMAIN cfg : LET e == cfg[i] IN
        ~e.cstr =>
            /\ offs[HomeOf(e.dynmem, e.ptrmem, e.where)] <= e.addr
            /\ \A k \in DOMAIN e.checks : LET c == e.checks[k] IN
                   Cached(e, c) => offs[HomeOf(e.dynmem, e.ptrmem, c.where)] <= c.addr

(* The file adaptation leaves behind is the config in memory: started      *)
(* again, ugtrain accepts it, reads the same and asks for no adaptation.   *)
RereadSame ==
    run = 2 => /\ status \notin {"failed", "undefined"}
               /\ status = "built" => /\ Conf(dynmems) = kept.conf
                                      /\ ~opt.adp_required

(* Classes may have the same name.  Every object of the script's output    *)
(* goes to a class of its own, and in memory and in the file that class    *)
(* has the size and the code address of that object.                       *)
TakenOnce ==
    \A j \in DOMAIN taken : LET t == taken[j] IN
        /\ \A k \in DOMAIN taken : taken[k].class = t.class => k = j
        /\ run = 1 /\ status = "ready" =>
               /\ dynmems[t.class].size = t.obj.size
               /\ dynmems[t.class].code = t.obj.code
               /\ dynmems[t.class].cfg_line \notin {1, opt.adp_req_line} =>
                      disk.lines[dynmems[t.class].cfg_line] =
                          StartLine(t.obj)
=============================================================================
