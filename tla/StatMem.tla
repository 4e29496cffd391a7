------------------------------- MODULE StatMem -------------------------------
(***************************************************************************)
(* Static memory: values, checks and dump areas with a fixed place in the  *)
(* executable, in a library or on the stack.  The loader decides where     *)
(* these are, so ugtrain turns every configured address into one of the    *)
(* running game: once for the executable (handle_statmem_pie()), once per  *)
(* library when it is found in the memory map (handle_statmem_pic()),      *)
(* maybe rounds later, and once for the stack (process_stack_end()), from  *)
(* /proc/$pid/stat or from a message of libmemhack.  Values share caches,  *)
(* and the offset of a cache has to move along with its values, once.      *)
(*                                                                         *)
(* An item is a value or a check of a value.                               *)
(***************************************************************************)
EXTENDS Integers, FiniteSets, Regions

CONSTANTS
    Lib, LibList,   \* the libraries of the config; opt->lib_list
    Exe, Stack,     \* the other areas
    Item,           \* values and checks
    AreaOf,         \* AreaOf[i]: the area of the item i
    ValueOf,        \* ValueOf[i]: the value the check i belongs to; i for a value
    Cache, CacheOf, \* caches; CacheOf[i]: the cache of item i (see CacheLayout)
    Addr0, Offs0,   \* configured addresses, offsets of the caches after parsing
    Dumps,          \* the dump areas: a sequence of [area, addr]
    HeapChecks,     \* some check says "heap"
    ExeBases,       \* where the loader may put the executable
    LoadAddr,       \* LoadAddr[l]: where it may put the library l
    Keyed,          \* the values with a key binding
    PartsOf,        \* PartsOf[f]: the sections the file f may have besides .text
    HeapMin, HeapMax, \* bounds: the heap starts at HeapMin and ends by HeapMax
    StackRange, StackEnd, \* the stack region, the stack end of the process
    StatSays,       \* what /proc/$pid/stat may give: StackEnd, 0 if unreadable
    PartOf          \* PartOf[l]: the files whose path has the library name as a part

Gap == 4        \* what other mappings may fill behind .text of the executable

Value == {i \in Item : ValueOf[i] = i}
File  == Lib \cup {ExePath}

ASSUME StatMemAssumption ==
    /\ LibList \in Seq(Lib) /\ ToSet(LibList) = Lib
    /\ AreaOf \in [Item -> Lib \cup {Exe, Stack}] /\ Exe \notin Lib /\ Stack \notin Lib
    /\ Dumps \in Seq([area : Lib \cup {Exe}, addr : Nat])
    /\ Lib \subseteq {AreaOf[i] : i \in Item} \cup {Dumps[d].area : d \in DOMAIN Dumps}
    /\ ValueOf \in [Item -> Item] /\ CacheOf \in [Item -> Cache]
    /\ Exe # Stack /\ Keyed \subseteq Value
    /\ Addr0 \in [Item -> Nat] /\ Offs0 \in [Cache -> Nat]
    /\ \A i, j \in Item : /\ ValueOf[ValueOf[i]] = ValueOf[i]
                          /\ CacheOf[i] = CacheOf[j] => AreaOf[i] = AreaOf[j]

\* Where the loader puts things: the sections of a file, see Sections; the heap
\* starts behind the executable and grows into free memory up to the stack.
ASSUME LoaderAssumption ==
    /\ ExePath \notin Lib /\ {NoFile, HeapPath, StackPath} \cap File = {}
    /\ NoFile # HeapPath /\ NoFile # StackPath /\ HeapPath # StackPath
    /\ ExeBases \subseteq Nat \ {0} /\ LoadAddr \in [Lib -> SUBSET (Nat \ {0})]
    /\ \A f \in File : \A p \in PartsOf[f] :
          /\ p \subseteq {"hole", "rodata", "data", "bss"}
          /\ "bss" \in p => "data" \in p
          /\ "hole" \in p => f # ExePath
    /\ {HeapMin, HeapMax, StackRange[1], StackRange[2], StackEnd} \subseteq Nat
    /\ HeapMin < HeapMax /\ HeapMax <= StackRange[1] /\ StackRange[1] < StackRange[2]
    /\ \A b \in ExeBases : b + 5 + Gap <= HeapMin
    /\ \A l \in Lib : \A b \in LoadAddr[l] :
          (b + 5 <= HeapMin \/ HeapMax <= b) /\ (b + 5 <= StackRange[1] \/ StackRange[2] <= b)
    /\ StatSays \subseteq {0, StackEnd}

\* Both loops below dereference the cache of every item they move, and the
\* library of the value of every check that is in a library.  Only checks on
\* another value and strings have no cache, and only such checks as are in a
\* library while their value is not have no library: these do not get here.
ASSUME PointerAssumption ==
    \A i \in Item : AreaOf[i] \in Lib => AreaOf[ValueOf[i]] \in Lib

VARIABLES
    pc,         \* how far main() has come
    rlist, scan, \* the regions read last; the static variables of process_map()
    codeOffs,   \* opt->code_offs
    addr, offs, \* the addresses of the items, the offsets of the caches
    onStack,    \* onStack[i]: type.on_stack
    libStart, isLoaded, skipVal, \* the fields of the LibEntry of each library
    dumpAddr,   \* the addresses of the dump areas
    stackEnd,   \* opt->stack_end, 0: not known
    chkHeap,    \* the heap bounds in the heap checks
    act,        \* cfg_act: the active values
    read,       \* history: values that were read from the game at least once
    printed,    \* history: the values output in this round
    pure,       \* opt->pure_statmem: there is no libmemhack in the game
    alive, exeBase, base, parts, heapEnd, \* the game: its memory map
    msg         \* the stack end message of libmemhack: "unsent", "sent", "read"

trainerVars == <<pc, rlist, scan, codeOffs, addr, offs, onStack, libStart, isLoaded,
                 skipVal, dumpAddr, stackEnd, chkHeap, act, read, printed>>
gameVars    == <<pure, alive, exeBase, base, parts, heapEnd>>
vars        == <<trainerVars, gameVars, msg>>

-----------------------------------------------------------------------------
(***************************************************************************)
(* The memory map of the game.  An ELF file has its sections in the order  *)
(* .text, .rodata, .data, .bss, and .bss has no file name and follows      *)
(* .data.  Behind .text the executable has a gap that other mappings may   *)
(* fill; a library may have a hole there: a line of the file with no       *)
(* permissions (---p), which keeps the room between its segments.          *)
(***************************************************************************)
Section(f, s, at) ==
    [start |-> at, end |-> at + 1, r |-> s # "hole", x |-> s = "text", w |-> s \in {"data", "bss"},
     file |-> IF s = "bss" THEN NoFile ELSE f]

Sections(f, b) ==
    LET gap == IF f = ExePath THEN Gap ELSE 0
        at  == [text |-> b, hole |-> b + 1, rodata |-> b + 2 + gap, data |-> b + 3 + gap,
                bss |-> b + 4 + gap]
    IN  {Section(f, s, at[s]) : s \in {"text"} \cup parts[f]}

Mapped(f) == IF f = ExePath THEN exeBase ELSE base[f]

Area(file, s, e) == [start |-> s, end |-> e, r |-> TRUE, x |-> FALSE, w |-> TRUE, file |-> file]

MapSet == (UNION {Sections(f, Mapped(f)) : f \in {g \in File : Mapped(g) # 0}})
          \cup {Area(StackPath, StackRange[1], StackRange[2])}
          \cup IF heapEnd = 0 THEN {} ELSE {Area(HeapPath, HeapMin, heapEnd)}

\* In the order of their addresses.
Maps == LET all == MapSet
        IN  [k \in 1..Cardinality(all) |->
               CHOOSE m \in all : Cardinality({n \in all : n.start < m.start}) = k - 1]

\* read_regions(); fopen_maps() fails when the game is gone.
Regions == IF alive THEN ReadRegions(scan, Maps) ELSE [scan |-> scan, rlist |-> <<>>]

-----------------------------------------------------------------------------
Init ==
    /\ pc = "aslr" /\ rlist = <<>> /\ scan = InitScan /\ codeOffs = 0
    /\ addr = Addr0 /\ offs = Offs0
    /\ onStack = [i \in Item |-> AreaOf[i] = Stack]
    /\ libStart = [l \in Lib |-> 0]
    /\ isLoaded = [l \in Lib |-> FALSE] /\ skipVal = [l \in Lib |-> FALSE]
    /\ dumpAddr = [d \in DOMAIN Dumps |-> Dumps[d].addr]
    /\ stackEnd = 0 /\ chkHeap = <<0, 0>>
    /\ act = Value
    /\ read = {} /\ printed = {}
    /\ alive = TRUE /\ exeBase \in ExeBases
    /\ base \in [Lib -> {0}] /\ heapEnd = 0
    /\ parts \in {p \in [File -> UNION {PartsOf[f] : f \in File}] : \A f \in File : p[f] \in PartsOf[f]}
    /\ pure \in BOOLEAN /\ msg = IF pure THEN "read" ELSE "unsent"

-----------------------------------------------------------------------------
\* The part of handle_aslr() that static memory depends on.
HandleAslr ==
    /\ pc = "aslr"
    /\ LET r == Regions
       IN  /\ rlist' = r.rlist /\ scan' = r.scan
           /\ codeOffs' = ExeOffsOf(r.rlist)
           /\ libStart' = FindLibRegions(LibList, libStart, r.rlist, PartOf)
    /\ pc' = "pie"
    /\ UNCHANGED <<addr, offs, onStack, isLoaded, skipVal, dumpAddr, stackEnd, chkHeap,
                   act, read, printed, gameVars, msg>>

(***************************************************************************)
(* Items move by their own amounts, and is_dirty makes a cache move along  *)
(* with the first of them only.                                            *)
(***************************************************************************)
\* MUTANT of MoveCaches: without is_dirty every item moves its cache.
MoveCachesEach(moved, by) ==
    [c \in Cache |->
        offs[c] + FoldSet(LAMBDA i, sum : sum + by[i], 0, {i \in moved : CacheOf[i] = c})]

MoveCaches(moved, by) ==
    [c \in Cache |-> IF \E i \in moved : CacheOf[i] = c
                     THEN offs[c] + by[CHOOSE i \in moved : CacheOf[i] = c]
                     ELSE offs[c]]

InExe == {i \in Item : AreaOf[i] = Exe}

HandleStatmemPie ==
    /\ pc = "pie"
    /\ addr' = [i \in Item |-> IF i \in InExe THEN addr[i] + codeOffs ELSE addr[i]]
    /\ offs' = MoveCaches(InExe, [i \in InExe |-> codeOffs])
    /\ dumpAddr' = [d \in DOMAIN Dumps |->
                       IF Dumps[d].area = Exe THEN dumpAddr[d] + codeOffs ELSE dumpAddr[d]]
    /\ pc' = "pic"
    /\ UNCHANGED <<rlist, scan, codeOffs, onStack, libStart, isLoaded, skipVal, stackEnd,
                   chkHeap, act, read, printed, gameVars, msg>>

(***************************************************************************)
(* handle_statmem_pic(opt, late) with the load addresses start.  A check   *)
(* moves by the load address of its value's library.  The first dump area  *)
(* of a library marks it as loaded, which the others find.                 *)
(***************************************************************************)
Fresh(start) == {l \in Lib : start[l] # 0 /\ ~isLoaded[l]}

InFresh(start) == {i \in Item : AreaOf[i] \in Fresh(start)}

FirstDump(d) == \A e \in 1..(d - 1) : Dumps[e].area # Dumps[d].area

MovedDumps(start) == {d \in DOMAIN Dumps : Dumps[d].area \in Fresh(start) /\ FirstDump(d)}

\* MUTANT of HandleStatmemPic: skip_val is set for early libraries.
HandleStatmemPicShown(start, late) ==
    LET moved == InFresh(start)
        dirty == {AreaOf[i] : i \in moved}
        begun == dirty \cup {Dumps[d].area : d \in MovedDumps(start)}
    IN  /\ addr' = [i \in Item |-> IF i \in moved THEN addr[i] + start[AreaOf[ValueOf[i]]] ELSE addr[i]]
        /\ offs' = MoveCaches(moved, [i \in moved |-> start[AreaOf[i]]])
        /\ dumpAddr' = [d \in DOMAIN Dumps |-> IF d \in MovedDumps(start)
                                               THEN dumpAddr[d] + start[Dumps[d].area]
                                               ELSE dumpAddr[d]]
        /\ isLoaded' = [l \in Lib |-> isLoaded[l] \/ l \in begun]
        /\ skipVal' = [l \in Lib |-> skipVal[l] \/ (~late /\ l \in dirty)]

HandleStatmemPic(start, late) ==
    LET moved == InFresh(start)
        dirty == {AreaOf[i] : i \in moved}
        begun == dirty \cup {Dumps[d].area : d \in MovedDumps(start)}
    IN  /\ addr' = [i \in Item |-> IF i \in moved THEN addr[i] + start[AreaOf[ValueOf[i]]] ELSE addr[i]]
        /\ offs' = MoveCaches(moved, [i \in moved |-> start[AreaOf[i]]])
        /\ dumpAddr' = [d \in DOMAIN Dumps |-> IF d \in MovedDumps(start)
                                               THEN dumpAddr[d] + start[Dumps[d].area]
                                               ELSE dumpAddr[d]]
        /\ isLoaded' = [l \in Lib |-> isLoaded[l] \/ l \in begun]
        /\ skipVal' = [l \in Lib |-> skipVal[l] \/ (late /\ l \in dirty)]

EarlyPic ==
    /\ pc = "pic"
    /\ HandleStatmemPic(libStart, FALSE)
    /\ pc' = "stackend"
    /\ UNCHANGED <<rlist, scan, codeOffs, onStack, libStart, stackEnd, chkHeap, act, read,
                   printed, gameVars, msg>>

-----------------------------------------------------------------------------
(***************************************************************************)
(* process_stack_end(): addr = stack_end - addr, for the cache as well.    *)
(***************************************************************************)
OnStack == {i \in Item : onStack[i]}

ProcessStackEnd(end) ==
    /\ addr' = [i \in Item |-> IF onStack[i] THEN end - addr[i] ELSE addr[i]]
    /\ offs' = [c \in Cache |-> IF \E i \in OnStack : CacheOf[i] = c THEN end - offs[c] ELSE offs[c]]
    /\ onStack' = [i \in Item |-> FALSE]
    /\ stackEnd' = end

\* opt->val_on_stack
ValOnStack == \E i \in Item : AreaOf[i] = Stack

\* get_stack_end(): the start of the region stands for "not found".
GetStackEnd(v, b) ==
    IF v = 0 \/ v < b[1] \/ v > b[2] \/ v < b[1] + (b[2] - b[1]) \div 2 THEN b[1] ELSE v

HandleStackEnd ==
    /\ pc = "stackend"
    /\ \E v \in StatSays :
         LET b   == BoundsOf(rlist, "stack", <<0, 0>>)
             end == GetStackEnd(v, b)
         IN  IF end # b[1]
             THEN ProcessStackEnd(end) /\ pc' = "input"
             ELSE /\ pc' = IF pure /\ ValOnStack THEN "exit" ELSE "input"
                  /\ UNCHANGED <<addr, offs, onStack, stackEnd>>
    /\ UNCHANGED <<rlist, scan, codeOffs, libStart, isLoaded, skipVal, dumpAddr, chkHeap, act,
                   read, printed, gameVars, msg>>

\* read_dynmem_fifo() gets the message of libmemhack: verify_stack_end().
ReadFifo(next) ==
    IF msg # "sent"
    THEN pc' = next /\ UNCHANGED <<addr, offs, onStack, stackEnd, msg>>
    ELSE /\ msg' = "read"
         /\ IF stackEnd = 0 THEN ProcessStackEnd(StackEnd) /\ pc' = next
            ELSE /\ pc' = IF stackEnd = StackEnd THEN next ELSE "exit"
                 /\ UNCHANGED <<addr, offs, onStack, stackEnd>>

-----------------------------------------------------------------------------
(***************************************************************************)
(* The main loop.                                                          *)
(***************************************************************************)
Gone == pc' \in {"input", IF alive THEN "input" ELSE "end"}

\* Keys toggle values; then the FIFO is read.
Input ==
    /\ pc = "input"
    /\ \E t \in {{}} \cup {{i} : i \in Keyed} :
         act' = (act \ t) \cup (t \ act)
    /\ ReadFifo("check")
    /\ printed' = {}
    /\ UNCHANGED <<rlist, scan, codeOffs, libStart, isLoaded, skipVal, dumpAddr, chkHeap,
                   read, gameVars>>

\* The early ends of a round: nothing is active, or memattach() or memdetach()
\* fails as the game is gone (test_memattach() has made sure that they work).
Skip ==
    /\ \/ pc = "check" /\ (act = {} \/ ~alive)
       \/ pc = "heap" /\ ~alive
    /\ Gone
    /\ UNCHANGED <<rlist, scan, codeOffs, addr, offs, onStack, libStart, isLoaded, skipVal,
                   dumpAddr, stackEnd, chkHeap, act, read, printed, gameVars, msg>>

\* memattach() stops the game; the FIFO is read again.
Attach ==
    /\ pc = "check" /\ act # {} /\ alive
    /\ ReadFifo("process")
    /\ UNCHANGED <<rlist, scan, codeOffs, libStart, isLoaded, skipVal, dumpAddr, chkHeap, act,
                   read, printed, gameVars>>

\* A value is processed when the place of its area is known.
Known(i) == ~onStack[i] /\ (AreaOf[i] \in Lib => libStart[AreaOf[i]] # 0)

\* process_act_cfg(): what it reads and writes is in the property Touched.
Process ==
    /\ pc = "process"
    /\ read' = read \cup {i \in act : Known(i)}
    /\ pc' = "heap"
    /\ UNCHANGED <<rlist, scan, codeOffs, addr, offs, onStack, libStart, isLoaded, skipVal,
                   dumpAddr, stackEnd, chkHeap, act, printed, gameVars, msg>>

(***************************************************************************)
(* get_heap_region() and handle_heap_checks(), then late PIC: while some   *)
(* library has not been found.                                             *)
(***************************************************************************)
LatePic ==
    /\ pc = "heap"
    /\ LET missing == \E l \in Lib : ~isLoaded[l]
           r       == IF HeapChecks \/ missing THEN Regions ELSE [scan |-> scan, rlist |-> rlist]
           start   == IF missing THEN FindLibRegions(LibList, libStart, r.rlist, PartOf) ELSE libStart
       IN  /\ rlist' = r.rlist /\ scan' = r.scan
           /\ chkHeap' = IF HeapChecks THEN BoundsOf(r.rlist, "heap", chkHeap) ELSE chkHeap
           /\ libStart' = start
           /\ HandleStatmemPic(start, TRUE)
    /\ pc' = "output"
    /\ UNCHANGED <<codeOffs, onStack, stackEnd, act, read, printed, gameVars, msg>>

(***************************************************************************)
(* output_mem_values(): the first active value of a library that has just  *)
(* been found is not output.                                               *)
(***************************************************************************)
Output ==
    /\ pc = "output"
    /\ \E skipped \in SUBSET act :
         /\ \A i \in skipped : AreaOf[i] \in Lib /\ Known(i) /\ skipVal[AreaOf[i]]
         /\ \A l \in Lib : LET mine == {i \in act : AreaOf[i] = l /\ Known(i)}
                           IN  skipVal[l] /\ mine # {} => Cardinality(skipped \cap mine) = 1
         /\ printed' = {i \in act \ skipped : Known(i)}
         /\ skipVal' = [l \in Lib |-> skipVal[l] /\ ~\E i \in skipped : AreaOf[i] = l]
    /\ pc' = "input"
    /\ UNCHANGED <<rlist, scan, codeOffs, addr, offs, onStack, libStart, isLoaded, dumpAddr,
                   stackEnd, chkHeap, act, read, gameVars, msg>>

-----------------------------------------------------------------------------
(***************************************************************************)
(* The game, which stands still while the trainer is attached.             *)
(***************************************************************************)
Runs == alive /\ pc # "process"

Overlaps(l, b) ==
    \E m \in MapSet : m.start < b + 5 /\ b < m.end

LoadLib(l) ==
    /\ Runs /\ base[l] = 0
    /\ \E b \in LoadAddr[l] : ~Overlaps(l, b) /\ base' = [base EXCEPT ![l] = b]
    /\ UNCHANGED <<trainerVars, alive, exeBase, parts, heapEnd, pure, msg>>

GrowHeap ==
    /\ Runs /\ heapEnd < HeapMax
    /\ heapEnd' = IF heapEnd = 0 THEN HeapMin + 1 ELSE heapEnd + 1
    /\ UNCHANGED <<trainerVars, alive, exeBase, base, parts, pure, msg>>

\* The start routine of libmemhack sends the stack end.
SendStackEnd ==
    /\ Runs /\ msg = "unsent"
    /\ msg' = "sent"
    /\ UNCHANGED <<trainerVars, gameVars>>

GameEnds ==
    /\ Runs
    /\ alive' = FALSE
    /\ UNCHANGED <<trainerVars, exeBase, base, parts, heapEnd, pure, msg>>

Startup == HandleAslr \/ HandleStatmemPie \/ EarlyPic \/ HandleStackEnd
Round   == Input \/ Skip \/ Attach \/ Process \/ LatePic \/ Output
Game    == (\E l \in Lib : LoadLib(l)) \/ GrowHeap \/ SendStackEnd \/ GameEnds

Next == Startup \/ Round \/ Game

Spec == Init /\ [][Next]_vars

-----------------------------------------------------------------------------
(***************************************************************************)
(* Where an item really is in the running game.                            *)
(***************************************************************************)
Place(area, a) == IF area = Stack THEN StackEnd - a
                  ELSE IF area # Exe THEN base[area] + a
                  ELSE IF exeBase \in StaticLoad THEN a ELSE exeBase + a

\* mem_addr in FILL_CACHE_AND_BUF, and where cache_data points to in the cache.
Touches(i) == offs[CacheOf[i]] + (Addr0[i] - Offs0[CacheOf[i]])

\* Whatever round a library or the stack is found in: while the trainer is
\* attached to the game, every value and check that it considers known is read
\* from and written to its own place, the address of the value (which its
\* string is read from) is that place, and dump areas to be dumped are where
\* they belong.  An address or a shared cache that is moved twice, or not moved,
\* makes the trainer write somewhere else in the game.
Touched ==
    pc = "process" =>
        /\ \A i \in Item : Known(i) => Touches(i) = Place(AreaOf[i], Addr0[i])
        /\ \A i \in Value : Known(i) => addr[i] = Place(AreaOf[i], Addr0[i])
        /\ \A d \in DOMAIN Dumps :
              (Dumps[d].area \in Lib => isLoaded[Dumps[d].area])
                  => dumpAddr[d] = Place(Dumps[d].area, Dumps[d].addr)

\* The .bss of a file whose other sections are all there, with the hole: it is
\* the fifth region of its file.
IsFifth(r, f) == r.file = NoFile /\ {"hole", "rodata"} \subseteq parts[f]

\* process_map() tells the regions of the executable, of libraries, the heap
\* and the stack apart, and knows the load address of each ELF file, wherever
\* the loader puts libraries (also into the gap of the executable), whichever
\* sections the files have, and however often the map was read before: what
\* the static variables keep of the last reading does not matter.  A fifth
\* region, which the code rules out ("There should never be more than these
\* four regions"), is a region of its own, and spoils none behind it.
FileOf(r) == IF r.file # NoFile THEN r.file
             ELSE CHOOSE f \in File : Mapped(f) # 0 /\ \E m \in Sections(f, Mapped(f)) : m.start = r.start

RegionTypes ==
    \A k \in DOMAIN rlist :
        LET r == rlist[k]
            f == FileOf(r)
        IN  CASE f = HeapPath  -> r.type = "heap"
              [] f = StackPath -> r.type = "stack"
              [] f = ExePath   -> r.type = "exe" /\ r.load = exeBase
              [] IsFifth(r, f) -> r.type = "misc" /\ r.load = r.start
              [] OTHER         -> r.type = "code" /\ r.load = base[f]

\* A pointer that passes a heap check points into the heap: the bounds that the
\* check compares with are never wider than the heap, which may have grown
\* since they were read.
HeapInside ==
    chkHeap # <<0, 0>> => chkHeap[1] = HeapMin /\ chkHeap[2] <= heapEnd

\* skip_val: in the round in which a late library is found, its values have not
\* been read yet.  One that is output all the same is never the only active
\* value of its library: the first of them has been held back.
HeldBack ==
    \A i \in printed \ read :
        /\ AreaOf[i] \in Lib
        /\ \E j \in act \ printed : AreaOf[j] = AreaOf[i] /\ Known(j)

\* "for skipping 1 cycle value output": nothing is output before it was read
\* for the first time.
OutputRead == printed \subseteq read

\* Early or late, also in the gap of the executable and whatever the library
\* entries before it are: at the end of a round every library that the memory
\* map has shown is found at its own load address and marked as loaded.
AllFound ==
    pc = "output" =>
        \A l \in Lib : (\E k \in DOMAIN rlist : rlist[k].file = l)
                          => libStart[l] = base[l] /\ isLoaded[l]
=============================================================================
