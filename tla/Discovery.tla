------------------------------ MODULE Discovery ------------------------------
(***************************************************************************)
(* The discovery of dynamic memory: libmemdisc in the game reports         *)
(* allocations to a buffered FIFO, a worker process of ugtrain pumps the   *)
(* FIFO into a file while ugtrain itself answers questions about load      *)
(* addresses, and when the game has ended the file is searched backwards   *)
(* for the object that contains an address the user has found.             *)
(*                                                                         *)
(* The game has one thread here.  Heap addresses are small numbers; an     *)
(* object of size s at address a covers the cells a..a+s-1, and each cell  *)
(* holds a pointer.  A call stack is the sequence of return addresses that *)
(* the library meets on its way up, each with the module it belongs to.    *)
(***************************************************************************)
EXTENDS Naturals, Sequences, SequencesExt

CONSTANTS
    Config,      \* what the user asks for with -D; the libraries the game uses;
                 \* bound: lines the game has written when it goes on:
                 \*   [stage, gbt, filter, size, code, ptr, libs, max]
    NoPtr,       \* no "p;..;;" prefix; else [size, code, stack, offs]
    NoFilter,    \* no code filter
    Exe,         \* the filter "exe", and the module of the executable
    Lib,         \* library names
    ExeLike,     \* the libraries whose names begin with "exe"
    Substr,      \* Substr[l]: the filters that are a part of the name l
    LoadAddr,    \* LoadAddr[l]: where the loader may map l
    ExeOffs,     \* the load address of the executable
    TextSize,    \* the size of each module's code
    UIntPtrMax,  \* UINTPTR_MAX
    Cell,        \* heap addresses
    Glob,        \* the address of a static pointer
    Size,        \* sizes of objects
    Stack,       \* the call stacks of the game's allocations:
                 \*   sequences of [mod, offs]
    MAX_BT,      \* the library looks at so many code addresses of a stack
    MaxFifo      \* bound: messages not yet read when the game goes on

ASSUME DiscoveryAssumption ==
    /\ UIntPtrMax \in Nat
    /\ LoadAddr \in [Lib -> SUBSET (1..UIntPtrMax)]
    /\ ExeOffs \in 0..UIntPtrMax /\ TextSize \in Nat /\ MAX_BT \in Nat \ {0}
    /\ Cell \subseteq 1..UIntPtrMax /\ Glob \in (1..UIntPtrMax) \ Cell
    /\ Size \subseteq Nat
    /\ ExeLike \subseteq Lib

\* Modules and filters are names of their own.
ASSUME CallAssumption ==
    /\ Exe # NoFilter /\ {Exe, NoFilter} \cap Lib = {}
    /\ \A l \in Lib : NoFilter \notin Substr[l]
    /\ \A st \in Stack : \A i \in DOMAIN st : st[i].mod \in Lib \cup {Exe} /\ st[i].offs \in Nat

VARIABLES
    cfg,       \* the user's choice, and the game's libraries
    ug,        \* ugtrain: "start", "aslr", "work", "final", "post"
    worker,    \* its worker: "none", "wait", "check", "asleep", "killed", "overslept"
    mh,        \* libmemdisc: "readcfg", "bounds", "active", "inactive"
    game,      \* "run", "exited", "crashed"
    asking,    \* the library name dlopen() waits for an answer for
    toLib,     \* FIFO: what ugtrain has written, and the library not read
    toUg,      \* FIFO: what the library has written, and ugtrain not read
    bt,        \* bt_saddr and bt_eaddr
    code,      \* [now: code_addr, orig: orig_code_addr]
    ptr,       \* ptr_cfg and old_ptr_addr: [code, offs, mem, old]
    base,      \* where each library is mapped, 0: it is not
    size,      \* the size of the object that begins at a cell, 0: none does
    mem,       \* the pointer each cell holds; free() leaves it there
    said,      \* the lines written with fputs(), in their order ...
    flushed,   \* ... this many of them are in the FIFO ...
    pumped,    \* ... and this many in the file
    gaveup,    \* history: the library has stopped waiting for an answer
    rep,       \* history: the line that reports the object at a cell, 0: none
    owner,     \* history: the cell of the pointer the user means, 0: none yet
    ptrset     \* history: lines written when it was last set, plus 1

game_vars == <<base, size, mem, rep, owner, ptrset>>
out_vars  == <<said, flushed, pumped>>
lib_vars  == <<mh, asking, bt, code, ptr, gaveup>>
vars == <<cfg, ug, worker, mh, game, asking, toLib, toUg, bt, code, ptr, base, size,
          mem, said, flushed, pumped, gaveup, rep, owner, ptrset>>

AllAddr  == <<0, UIntPtrMax>>
Text(at) == <<at, at + TextSize>>
BaseOf(mod) == IF mod = Exe THEN ExeOffs ELSE base[mod]

\* The game's code runs.  What it does under a library that stays inactive
\* changes nothing here, but its end.
Runs == game = "run" /\ mh = "active" /\ asking = NoFilter

\* disc_lib of ugtrain: strncmp() takes every name that begins with "exe".
DiscLib == IF cfg.filter \in ExeLike THEN Exe ELSE cfg.filter

\* Does ugtrain wait for a notification ...
NeedsAslr == cfg.stage >= 3 \/ cfg.ptr # NoPtr

\* MUTANT of Notifies: a pointer alone is no reason.
NotifiesStage == cfg.stage >= 3

\* ... and does the library send one?
Notifies == cfg.stage >= 3 \/ (cfg.ptr # NoPtr /\ cfg.ptr.code # 0)

\* prepare_discovery() refuses a code search without a size.
PrepareDiscovery(c) == c.stage >= 3 => c.size # 0

(* Types: the worker runs from the first answer to the kill, the file never *)
(* gets ahead of what was said, addresses do not exceed UINTPTR_MAX.       *)
DiscTypeOK ==
    /\ ug \in {"start", "aslr", "work", "final", "post"}
    /\ worker \in {"none", "wait", "check", "asleep", "killed", "overslept"}
    /\ worker = "none" <=> ug \in {"start", "aslr"}
    /\ worker \in {"killed", "overslept"} <=> ug = "post"
    /\ mh \in {"readcfg", "bounds", "active", "inactive"}
    /\ asking \in Lib \cup {NoFilter}
    /\ pumped <= flushed /\ flushed <= Len(said)
    /\ \A c \in Cell : rep[c] \in 0..Len(said)
    /\ bt[1] \in 0..UIntPtrMax /\ bt[2] \in 0..UIntPtrMax
    /\ code.now \in 0..UIntPtrMax

Init ==
    /\ cfg \in {c \in Config : PrepareDiscovery(c)}
    /\ ug = "start" /\ worker = "none" /\ mh = "readcfg" /\ game = "run"
    /\ asking = NoFilter /\ toLib = <<>> /\ toUg = <<>>
    /\ bt = <<0, 0>>
    /\ code = [now |-> 0, orig |-> 0]
    /\ ptr = [code |-> 0, offs |-> 0, mem |-> 0, old |-> 0]
    /\ base \in [Lib -> {0} \cup UNION {LoadAddr[l] : l \in Lib}]    \* linked ones
    /\ \A l \in Lib : base[l] \in IF l \in cfg.libs THEN LoadAddr[l] \cup {0} ELSE {0}
    /\ \A k, l \in Lib : k # l /\ base[k] # 0 => base[k] # base[l]
    /\ size = [c \in Cell |-> 0]
    /\ mem = [c \in Cell \cup {Glob} |-> 0]
    /\ said = <<>> /\ flushed = 0 /\ pumped = 0
    /\ gaveup = FALSE
    /\ rep = [c \in Cell |-> 0] /\ ptrset = 0
    /\ owner = IF cfg.ptr # NoPtr /\ cfg.ptr.code = 0 THEN Glob ELSE 0
-----------------------------------------------------------------------------
(***************************************************************************)
(* ugtrain: prepare_dynmem(), process_discovery() with handle_aslr().      *)
(***************************************************************************)
\* The discovery string goes to the library; the worker is forked at once if
\* no code address is involved.
SendConfig ==
    /\ ug = "start"
    /\ toLib' = Append(toLib, <<"cfg">>)
    /\ IF NeedsAslr THEN ug' = "aslr" /\ UNCHANGED worker
                    ELSE ug' = "work" /\ worker' = "wait"
    /\ UNCHANGED <<cfg, game, toUg>> /\ UNCHANGED lib_vars
    /\ UNCHANGED game_vars /\ UNCHANGED out_vars

\* find_lib_region(), and read_maps() with send_bt_addrs(): the bounds of the
\* library's code, or all addresses if it is not there.
LibBounds(l) == IF base[l] = 0 THEN AllAddr ELSE Text(base[l])

\* handle_aslr() waits without end for the notification; then bounds and
\* offset of the executable, or the bounds of the library, and the worker.
HandleAslr ==
    /\ ug = "aslr" /\ toUg # <<>>
    /\ toUg' = Tail(toUg)
    /\ toLib' = IF DiscLib = NoFilter THEN toLib
                ELSE Append(toLib, IF DiscLib = Exe THEN Append(Text(ExeOffs), ExeOffs)
                                   ELSE LibBounds(DiscLib))
    /\ ug' = "work" /\ worker' = "wait"
    /\ UNCHANGED <<cfg, game>> /\ UNCHANGED lib_vars
    /\ UNCHANGED game_vars /\ UNCHANGED out_vars

DoesPicWork == cfg.stage >= 3 /\ DiscLib \notin {NoFilter, Exe}

\* do_disc_pic_work() reads what libraries are loaded; handle_disc_pic()
\* answers for the one that was asked for, by its exact name.
HandleDiscPic ==
    /\ ug = "work" /\ DoesPicWork /\ toUg # <<>>
    /\ toUg' = Tail(toUg)
    /\ toLib' = IF Head(toUg) = <<"l", DiscLib>> THEN Append(toLib, LibBounds(DiscLib))
                ELSE toLib
    /\ UNCHANGED <<cfg, ug, worker, game>> /\ UNCHANGED lib_vars
    /\ UNCHANGED game_vars /\ UNCHANGED out_vars

\* do_disc_pic_work() or wait_orphan() sees that the game has gone.
GameGone ==
    /\ ug = "work" /\ game # "run"
    /\ ug' = "final"
    /\ UNCHANGED <<cfg, worker, game, toLib, toUg>> /\ UNCHANGED lib_vars
    /\ UNCHANGED game_vars /\ UNCHANGED out_vars

\* MUTANT of KillWorker: no time for the final flush.
KillWorkerAtOnce ==
    /\ ug = "final"
    /\ ug' = "post"
    /\ worker' = IF worker = "asleep" /\ pumped < flushed THEN "overslept" ELSE "killed"
    /\ UNCHANGED <<cfg, game, toLib, toUg>> /\ UNCHANGED lib_vars
    /\ UNCHANGED game_vars /\ UNCHANGED out_vars

\* After 250 ms, SIGTERM to the worker.  Timing assumption: a worker that
\* watches the FIFO has emptied it by then, one that has just gone to sleep
\* for a second need not have.
KillWorker ==
    /\ ug = "final" /\ (pumped = flushed \/ worker = "asleep")
    /\ ug' = "post"
    /\ worker' = IF worker = "asleep" /\ pumped < flushed THEN "overslept" ELSE "killed"
    /\ UNCHANGED <<cfg, game, toLib, toUg>> /\ UNCHANGED lib_vars
    /\ UNCHANGED game_vars /\ UNCHANGED out_vars

Trainer == SendConfig \/ HandleAslr \/ HandleDiscPic \/ GameGone \/ KillWorker
-----------------------------------------------------------------------------
(***************************************************************************)
(* The worker: run_stage1234_loop().                                       *)
(***************************************************************************)
WorkerStep(from, to) ==
    /\ worker = from /\ worker' = to
    /\ UNCHANGED <<cfg, ug, game, toLib, toUg, said, flushed>>
    /\ UNCHANGED lib_vars /\ UNCHANGED game_vars

\* read() takes what fits into its buffer, and it is written to the file.
Pump ==
    /\ WorkerStep("wait", "wait")
    /\ pumped < flushed /\ pumped' \in (pumped + 1)..flushed

\* Nothing to read: it looks whether the game still runs ...
PumpNothing == WorkerStep("wait", "check") /\ pumped = flushed /\ UNCHANGED pumped

\* ... and watches the FIFO again, or sleeps for a second without watching.
CheckProcess ==
    /\ \/ game = "run" /\ WorkerStep("check", "wait")
       \/ game # "run" /\ WorkerStep("check", "asleep")
    /\ UNCHANGED pumped

WakeUp == WorkerStep("asleep", "wait") /\ UNCHANGED pumped

Worker == Pump \/ PumpNothing \/ CheckProcess \/ WakeUp
-----------------------------------------------------------------------------
(***************************************************************************)
(* The library: memdisc_init().                                            *)
(***************************************************************************)
InitStep == game = "run" /\ UNCHANGED <<cfg, ug, worker, game, flushed, pumped, asking>>
                         /\ UNCHANGED game_vars

\* Send out the stack end.
Activate == mh' = "active" /\ said' = Append(said, [op |-> "S"])

\* The config has arrived.  Without a code address to look for, no filter is
\* set yet; ugtrain is notified if code addresses are involved.
ReadConfig ==
    /\ InitStep /\ mh = "readcfg" /\ toLib # <<>>
    /\ toLib' = Tail(toLib)
    /\ code' = [code EXCEPT !.now = cfg.code]
    /\ ptr' = IF cfg.ptr = NoPtr THEN ptr
              ELSE [ptr EXCEPT !.code = cfg.ptr.code, !.offs = cfg.ptr.offs]
    /\ bt' = IF cfg.code = 0 THEN AllAddr ELSE bt
    /\ toUg' = IF Notifies THEN Append(toUg, <<"ready">>) ELSE toUg
    /\ IF Notifies /\ cfg.filter # NoFilter
       THEN mh' = "bounds" /\ UNCHANGED said ELSE Activate
    /\ UNCHANGED gaveup

\* read_input() has found nothing in six tries: "Staying inactive".
ReadConfigFails ==
    /\ InitStep /\ mh = "readcfg" /\ toLib = <<>>
    /\ mh' = "inactive" /\ gaveup' = TRUE
    /\ UNCHANGED <<toLib, toUg, bt, code, ptr, said>>

Fits(addr, offs) == addr # 0 /\ addr <= UIntPtrMax - offs
Add(addr, offs)  == IF Fits(addr, offs) THEN addr + offs ELSE addr

\* update_cfg_for_pie(): the code address of the object that holds the pointer
\* or else (also if that address overflows) the address of a static pointer,
\* and the code address to look for.
UpdateCfgForPie(offs) ==
    /\ ptr' = IF Fits(ptr.code, offs) THEN [ptr EXCEPT !.code = Add(@, offs)]
                                      ELSE [ptr EXCEPT !.offs = Add(@, offs)]
    /\ code' = [code EXCEPT !.now = Add(@, offs)]

\* MUTANT of SetBtAddrs: the last load address is added once more.
SetBtAddrsAgain(n) ==
    IF Len(n) < 2 THEN UNCHANGED <<bt, code>>
    ELSE /\ bt' = <<n[1], n[2]>>
         /\ code' = [code EXCEPT !.now = IF @ # 0 /\ @ <= UIntPtrMax - n[1] THEN @ + n[1] ELSE @]

\* set_bt_addrs(): each time from the original code address.
SetBtAddrs(n) ==
    IF Len(n) < 2 THEN UNCHANGED <<bt, code>>
    ELSE /\ bt' = <<n[1], n[2]>>
         /\ code' = IF code.now = 0 \/ code.now > UIntPtrMax - n[1] THEN code
                    ELSE LET orig == IF code.orig = 0 THEN code.now ELSE code.orig
                         IN  [now |-> orig + n[1], orig |-> orig]

\* The answer: "exe" needs three numbers, a library two.
ReadBounds ==
    /\ InitStep /\ mh = "bounds" /\ toLib # <<>>
    /\ toLib' = <<>>
    /\ LET n == FlattenSeq(toLib)
       IN  IF cfg.filter # Exe THEN SetBtAddrs(n) /\ UNCHANGED ptr /\ Activate
           ELSE IF Len(n) < 3 THEN mh' = "inactive" /\ UNCHANGED <<bt, code, ptr, said>>
           ELSE bt' = <<n[1], n[2]>> /\ UpdateCfgForPie(n[3]) /\ Activate
    /\ UNCHANGED <<toUg, gaveup>>

\* No answer in time: without the library's bounds it goes on unfiltered,
\* without those of the executable it stays inactive.
ReadBoundsFails ==
    /\ InitStep /\ mh = "bounds" /\ toLib = <<>>
    /\ gaveup' = TRUE
    /\ IF cfg.filter = Exe THEN mh' = "inactive" /\ UNCHANGED said ELSE Activate
    /\ UNCHANGED <<toLib, toUg, bt, code, ptr>>

Library == ReadConfig \/ ReadConfigFails \/ ReadBounds \/ ReadBoundsFails
-----------------------------------------------------------------------------
(***************************************************************************)
(* The library's hooks in the running game.                                *)
(***************************************************************************)
Addr(entry) == BaseOf(entry.mod) + entry.offs
InRange(a)  == bt[1] <= a /\ a <= bt[2]

\* find_code_addresses(): of the first MAX_BT addresses in range, stage 4
\* takes those that are the code address looked for.  GNU backtrace() has no
\* such limit, and is for stage 3 only.
FindCodeAddresses(stack) ==
    LET hits == SelectSeq([i \in DOMAIN stack |-> Addr(stack[i])], InRange)
        seen == IF cfg.gbt \/ Len(hits) <= MAX_BT THEN hits ELSE SubSeq(hits, 1, MAX_BT)
    IN  SelectSeq(seen, LAMBDA a : cfg.stage = 3 \/ code.now \in {0, a})

\* postprocess_malloc() drops other sizes.
Wanted(s) == /\ s # 0
             /\ \/ cfg.size = 0 \/ s = cfg.size
                \/ cfg.ptr # NoPtr /\ s = cfg.ptr.size

\* get_ptr_to_heap(): is this the object that holds the pointer?
Holds(s, stack) ==
    /\ ptr.code # 0 /\ s = cfg.ptr.size
    /\ cfg.ptr.stack + 1 \in DOMAIN stack
    /\ Addr(stack[cfg.ptr.stack + 1]) = ptr.code

\* ... where is the pointer then (0: not known), and what is in it now?
PtrCell(holder) == IF ptr.code # 0 THEN (IF holder = 0 THEN 0 ELSE holder + ptr.offs)
                                   ELSE ptr.offs

\* MUTANT of PtrLine: only the first value is shown.
PtrLineOnce(v) == IF v = 0 \/ ptr.old # 0 THEN <<>> ELSE <<[op |-> "p", val |-> v]>>

\* The object the user means by its code address: relative to the executable
\* with the filter "exe", as it is without.
Meant(s, stack) ==
    /\ cfg.ptr.code # 0 /\ s = cfg.ptr.size
    /\ cfg.ptr.stack + 1 \in DOMAIN stack
    /\ LET entry == stack[cfg.ptr.stack + 1]
       IN  entry.mod = Exe /\ cfg.ptr.code = IF cfg.filter = Exe THEN entry.offs ELSE Addr(entry)

\* A pointer is shown when it has changed.
PtrLine(v) == IF v = 0 \/ v = ptr.old THEN <<>> ELSE <<[op |-> "p", val |-> v]>>

\* postprocess_malloc() for a new object of size s at a.
PostprocessMalloc(a, s, stack) ==
    LET codes  == IF cfg.stage >= 3 THEN FindCodeAddresses(stack) ELSE <<>>
        line   == [op |-> "m", addr |-> a, size |-> s, codes |-> codes]
        holder == IF Holds(s, stack) THEN a ELSE ptr.mem
        cell   == PtrCell(holder)
        v      == IF cell = 0 THEN 0 ELSE mem[cell]
    IN  IF ~Wanted(s) \/ (cfg.stage >= 3 /\ codes = <<>>)
        THEN /\ rep' = [rep EXCEPT ![a] = 0]
             /\ UNCHANGED <<said, ptr, owner, ptrset>>
        ELSE /\ rep' = [rep EXCEPT ![a] = Len(said) + 1]
             /\ IF cfg.ptr = NoPtr
                THEN said' = Append(said, line) /\ UNCHANGED <<ptr, owner, ptrset>>
                ELSE /\ said' = Append(said, line) \o PtrLine(v)
                     /\ ptr' = [ptr EXCEPT !.mem = holder, !.old = IF v = 0 THEN @ ELSE v]
                     /\ owner' = IF Meant(s, stack) THEN a + cfg.ptr.offs ELSE owner
                     /\ ptrset' = IF Meant(s, stack) THEN 0 ELSE ptrset

Object(a, s) == a..(a + s - 1)
Free         == Cell \ UNION {Object(a, size[a]) : a \in {c \in Cell : size[c] # 0}}

\* The game allocates; every module on the stack is mapped.
Malloc(a, s, stack) ==
    /\ Runs /\ Len(said) < cfg.max
    /\ {a} \cup Object(a, s) \subseteq Free
    /\ \A i \in DOMAIN stack : BaseOf(stack[i].mod) # 0
    /\ size' = [size EXCEPT ![a] = s]
    /\ PostprocessMalloc(a, s, stack)
    /\ UNCHANGED <<cfg, ug, worker, mh, game, asking, toLib, toUg, bt, code, base, mem,
                   flushed, pumped, gaveup>>

\* preprocess_free(): only stage 1 wants to know.
GameFree(a) ==
    /\ Runs /\ size[a] # 0 /\ Len(said) < cfg.max
    /\ said' = IF cfg.stage = 1 THEN Append(said, [op |-> "f", addr |-> a])
               ELSE said
    /\ size' = [size EXCEPT ![a] = 0]
    /\ rep' = [rep EXCEPT ![a] = 0]
    /\ UNCHANGED <<cfg, ug, worker, mh, game, asking, toLib, toUg, bt, code, ptr, base, mem,
                   flushed, pumped, gaveup, owner, ptrset>>

\* The game sets a pointer that may be looked at, in an object or in static
\* memory.
PtrCells ==
    IF cfg.ptr = NoPtr THEN {}
    ELSE IF cfg.ptr.code = 0 THEN {Glob}
    ELSE {a + cfg.ptr.offs : a \in {c \in Cell : size[c] = cfg.ptr.size}}

SetPtr(c, v) ==
    /\ Runs /\ c \in PtrCells /\ mem[c] # v
    /\ v \in {0} \cup {a \in Cell : size[a] # 0}
    /\ mem' = [mem EXCEPT ![c] = v]
    /\ ptrset' = IF c = owner THEN Len(said) + 1 ELSE ptrset
    /\ UNCHANGED <<cfg, ug, worker, mh, game, asking, toLib, toUg, bt, code, ptr, base, size,
                   said, flushed, pumped, gaveup, rep, owner>>

\* dlopen() has loaded the library, or had it, or failed: postprocess_dlopen()
\* always reports the name, and waits if it contains the filter.
Dlopen(l) ==
    /\ Runs /\ l \in cfg.libs /\ Len(toUg) < MaxFifo /\ Len(toLib) < MaxFifo
    /\ \E a \in IF base[l] = 0 THEN LoadAddr[l] \cup {0} ELSE {base[l]} :
          /\ \A k \in Lib \ {l} : a # 0 => base[k] # a
          /\ base' = [base EXCEPT ![l] = a]
    /\ toUg' = Append(toUg, <<"l", l>>)
    /\ asking' = IF cfg.filter \in Substr[l] THEN l ELSE NoFilter
    /\ UNCHANGED <<cfg, ug, worker, mh, game, toLib, bt, code, ptr, size, mem, said, flushed,
                   pumped, gaveup, rep, owner, ptrset>>

\* set_bt_addrs() reads whatever the FIFO holds.
LibReply ==
    /\ game = "run" /\ asking # NoFilter /\ toLib # <<>>
    /\ toLib' = <<>> /\ asking' = NoFilter
    /\ SetBtAddrs(FlattenSeq(toLib))
    /\ UNCHANGED <<cfg, ug, worker, mh, game, toUg, ptr, gaveup>>
    /\ UNCHANGED game_vars /\ UNCHANGED out_vars

\* ugtrain still has this question to answer, or another one before it.
Owes == ug \in {"aslr", "work"} /\ \E i \in DOMAIN toUg : toUg[i] = <<"l", DiscLib>>

\* No answer in time, because it is late or because ugtrain, which compares
\* whole names, has none.
LibGiveUp ==
    /\ game = "run" /\ asking # NoFilter /\ toLib = <<>>
    /\ asking' = NoFilter
    /\ gaveup' = (gaveup \/ Owes)
    /\ UNCHANGED <<cfg, ug, worker, mh, game, toLib, toUg, bt, code, ptr>>
    /\ UNCHANGED game_vars /\ UNCHANGED out_vars

\* dlclose() is not hooked.
Dlclose(l) ==
    /\ Runs /\ base[l] # 0
    /\ base' = [base EXCEPT ![l] = 0]
    /\ UNCHANGED <<cfg, ug, worker, game, toLib, toUg, size, mem, rep, owner, ptrset>>
    /\ UNCHANGED lib_vars /\ UNCHANGED out_vars

\* The buffer of the output stream is full, or fflush().
Flush ==
    /\ game = "run" /\ flushed < Len(said)
    /\ flushed' = Len(said)
    /\ UNCHANGED <<cfg, ug, worker, game, toLib, toUg, said, pumped>>
    /\ UNCHANGED lib_vars /\ UNCHANGED game_vars

\* The game ends: regularly, with flush_output(), or by a signal.
GameEnds ==
    /\ game = "run"
    /\ \/ (Runs \/ mh = "inactive") /\ game' = "exited" /\ flushed' = Len(said)
       \/ game' = "crashed" /\ UNCHANGED flushed
    /\ UNCHANGED <<cfg, ug, worker, toLib, toUg, said, pumped>>
    /\ UNCHANGED lib_vars /\ UNCHANGED game_vars

Game == \/ \E a \in Cell, s \in Size, st \in Stack : Malloc(a, s, st)
        \/ \E a \in Cell : GameFree(a)
        \/ \E c \in Cell \cup {Glob}, v \in Cell \cup {0} : SetPtr(c, v)
        \/ \E l \in Lib : Dlopen(l) \/ Dlclose(l)
        \/ LibReply \/ LibGiveUp \/ Flush \/ GameEnds

Next == Trainer \/ Worker \/ Library \/ Game

Spec == /\ Init /\ [][Next]_vars
        /\ WF_vars(Trainer) /\ WF_vars(Worker) /\ WF_vars(Library)
-----------------------------------------------------------------------------
(***************************************************************************)
(* postproc_stage1234() searches the file from its end;                    *)
(* process_disc1234_malloc() shows the objects that contain the address.   *)
(***************************************************************************)
File == SubSeq(said, 1, pumped)

\* MUTANT of Covers: the address behind the object belongs to it.
CoversEnd(line, x) == line.addr <= x /\ x <= line.addr + line.size

Covers(line, x) == line.addr <= x /\ x < line.addr + line.size

Matches(x)    == {i \in DOMAIN File : File[i].op = "m" /\ Covers(File[i], x)}
FirstMatch(x) == CHOOSE i \in Matches(x) : \A j \in Matches(x) : j <= i

\* What is reported of an object that lives at the end of the game is the
\* first thing shown for every address in it, whatever has been allocated and
\* freed at the same place before, also where frees are not recorded.
LiveFirst ==
    ug = "post" =>
        \A a \in Cell : size[a] # 0 /\ rep[a] \in 1..pumped =>
            \A x \in Object(a, size[a]) : Matches(x) # {} /\ FirstMatch(x) = rep[a]

\* If the game has ended regularly, everything it has reported is in the
\* file, unless the worker has slept at the wrong time.
FlushRead == ug = "post" /\ game = "exited" /\ worker # "overslept" => File = said

\* "chance to read the final flush"
FinalFlush == ug = "post" /\ game = "exited" => File = said

\* A code filter is for the code stages.  No library's name begins with "exe"
\* (ugtrain would take it for the executable).  The library tests for overflow
\* with the last load address in the code address: where a library can be
\* opened again at another address, two of them are added up.
FiltersGiven ==
    \A c \in Config :
        /\ c.code \in Nat /\ c.filter \in Lib \cup {Exe, NoFilter}
        /\ c.filter # NoFilter => c.stage >= 3
        /\ c.filter = Exe => c.code + ExeOffs <= UIntPtrMax
        /\ c.filter \in Lib =>
             /\ c.filter \notin ExeLike /\ c.filter \in Substr[c.filter]
             /\ \A a, b \in LoadAddr[c.filter] : c.code + a + b <= UIntPtrMax

\* While the game runs, the code filter is the code of the module that was
\* asked for, where it is now, and so is the code address looked for; unless
\* an answer came too late.
Filtered ==
    mh = "active" /\ asking = NoFilter /\ ~gaveup =>
        /\ cfg.filter = NoFilter => bt = IF cfg.code = 0 THEN AllAddr ELSE <<0, 0>>
        /\ cfg.filter # NoFilter /\ BaseOf(cfg.filter) # 0 =>
             /\ bt = Text(BaseOf(cfg.filter))
             /\ code.now = IF cfg.code = 0 THEN 0 ELSE cfg.code + BaseOf(cfg.filter)

\* The user gives the code address of the object that holds the pointer as
\* its allocation is in the executable's code, or the pointer's address.
PtrCode(c) == c.ptr.code + (IF c.filter = Exe THEN ExeOffs ELSE 0)

PointersGiven ==
    \A c \in Config : c.ptr # NoPtr =>
        /\ c.ptr.code \in Nat /\ c.ptr.offs \in Nat
        /\ c.ptr.code = 0 => Glob = IF c.filter = Exe /\ c.stage >= 3 THEN Add(c.ptr.offs, ExeOffs)
                                    ELSE c.ptr.offs
        /\ c.ptr.code # 0 =>
             /\ PtrCode(c) <= UIntPtrMax
             /\ \A st \in Stack : \A i \in DOMAIN st : st[i].mod # Exe =>
                  \A b \in LoadAddr[st[i].mod] : b + st[i].offs # PtrCode(c)

PtrLines == {i \in DOMAIN said : said[i].op = "p"}
LastPtr  == said[CHOOSE i \in PtrLines : \A j \in PtrLines : j <= i].val

\* "The last `p` value in the file is what you are looking for": once an
\* allocation has been reported after the pointer was set, it is that value.
PtrSeen ==
    /\ ptrset # 0 /\ mem[owner] # 0
    /\ \E i \in ptrset..Len(said) : said[i].op = "m"
    => PtrLines # {} /\ LastPtr = mem[owner]

\* When a game that has reported anything ends, ugtrain gets to the search.
DiscoveryEnds == (mh = "active" /\ game # "run") ~> (ug = "post")
=============================================================================
