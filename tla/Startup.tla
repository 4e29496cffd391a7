------------------------------ MODULE Startup ------------------------------
(***************************************************************************)
(* How ugtrain starts the game with libmemhack preloaded, how the two      *)
(* agree on code addresses before the game runs (PIE and early PIC), and   *)
(* how they keep agreeing when the game loads libraries later (late PIC).  *)
(*                                                                         *)
(* Two FIFOs connect them.  A read() takes whatever the FIFO holds, so     *)
(* several messages may arrive in one read and a message may be taken by   *)
(* somebody who did not ask for it.  The library polls for an answer for   *)
(* 1.25 s and then goes on without it.                                     *)
(***************************************************************************)
EXTENDS Naturals, Sequences, SequencesExt

CONSTANTS
    Class,          \* the configured classes, in the order of the config:
                    \*   records [size, addr, lib, consts, grow]
    Exe,            \* "exe": the code is in the executable
    NoGrow,         \* the class has no "dynmemgrow"
    LibName,        \* library names (those configured, those the game opens)
    Substr,         \* Substr[l]: the names that are a part of the name l
    LoadAddr,       \* LoadAddr[l]: addresses the loader may choose for l
    ExeOffs,        \* the load offset of the executable (0 without PIE)
    Threads,        \* the game's threads
    MaxFifo         \* bound: messages not yet read when the game goes on

ASSUME StartupAssumption ==
    /\ Class \in Seq([size : Nat, addr : BOOLEAN, lib : LibName \cup {Exe},
                      consts : Seq([size : Nat, addr : BOOLEAN, lib : LibName \cup {Exe}]),
                      grow : [addr : BOOLEAN, lib : LibName \cup {Exe}] \cup {NoGrow}])
    /\ Class # <<>> /\ Exe \notin LibName
    /\ LoadAddr \in [LibName -> SUBSET (Nat \ {0})]
    /\ ExeOffs \in Nat
    /\ Substr \in [LibName -> SUBSET LibName]

VARIABLES
    ug,       \* the trainer: how far main() has come
    mh,       \* the library in the game process: how far memhack_init() has come
    toLib,    \* the FIFO DYNMEM_OUT: trainer to library
    toUg,     \* the FIFO DYNMEM_IN: library to trainer
    base,     \* where each library is mapped in the game, 0: it is not
    mhaddr,   \* the load address the library has added to each code address
    ugaddr,   \* the load address the trainer has added to each code address
    call,     \* what each game thread does: it runs, or waits in dlopen()
    missed,   \* history: code addresses of objects reported and not recognised
    gaveup    \* history: the library has stopped waiting for an answer

vars == <<ug, mh, toLib, toUg, base, mhaddr, ugaddr, call, missed, gaveup>>

(***************************************************************************)
(* A code address of the config: <<c, 0>> is the one of class c, then      *)
(* follow those of its consts, and the one of its growing last.            *)
(***************************************************************************)
GrowIdx(c) == Len(Class[c].consts) + 1
Keys(c)    == [k \in 1..(GrowIdx(c) + IF Class[c].grow = NoGrow THEN 0 ELSE 1) |-> <<c, k - 1>>]
UgKeys     == FlattenSeq([c \in DOMAIN Class |-> Keys(c)])
Key        == ToSet(UgKeys)
IsGrow(key) == key[2] = GrowIdx(key[1])

Essentials(key) ==
    LET c == Class[key[1]]
    IN  IF key[2] = 0 THEN c ELSE IF IsGrow(key) THEN c.grow ELSE c.consts[key[2]]

(***************************************************************************)
(* The library's array config[]: one entry per class and per const, in the *)
(* order of prepare_dynmem().  "grow;" follows the consts, so the growing  *)
(* belongs to the entry of the last const.  An entry with neither a size   *)
(* nor a growing takes no code offset.                                     *)
(***************************************************************************)
CarriesGrow(key) == /\ Class[key[1]].grow # NoGrow
                    /\ key[2] = GrowIdx(key[1]) - 1
Skipped(key)     == /\ ~IsGrow(key)
                    /\ Essentials(key).size = 0
                    /\ ~CarriesGrow(key)
MhKeys           == SelectSeq(UgKeys, LAMBDA key : ~Skipped(key))
SkipAslr         == Len(SelectSeq(UgKeys, LAMBDA key : ~IsGrow(key))) = 1 /\ MhKeys = <<>>

Idle == [at |-> "run", lib |-> Exe, pos |-> 0]

UgRunning == ug \in {"preloader", "openofd", "aslr", "stack", "loop"}
GameRuns  == mh \in {"active", "inactive"}

Load == {0, ExeOffs} \cup UNION {LoadAddr[l] : l \in LibName}   \* what may be added

StartupTypeOK ==
    /\ ug \in {"prepare", "preloader", "openofd", "aslr", "stack", "loop", "failed", "ended"}
    /\ mh \in {"none", "loader", "openifd", "openofd", "readcfg", "readoffs", "active",
               "inactive", "dead"}
    /\ \A i \in DOMAIN toLib : toLib[i].op \in {"cfg", "offs", "bounds"}
    /\ \A i \in DOMAIN toUg : toUg[i].op \in {"ready", "S", "l", "m"}
    /\ \A l \in LibName : base[l] \in LoadAddr[l] \cup {0}
    /\ mhaddr \in [Key -> Load]
    /\ ugaddr \in [Key -> Load]
    /\ call \in [Threads -> [at : {"run", "wait"}, lib : LibName \cup {Exe},
                             pos : 0..Len(UgKeys)]]
    /\ missed \subseteq Key
    /\ gaveup \in BOOLEAN

Init ==
    /\ ug = "prepare" /\ mh = "none"
    /\ toLib = <<>> /\ toUg = <<>>
    /\ base \in [LibName -> {0} \cup UNION {LoadAddr[l] : l \in LibName}]
    /\ \A l \in LibName : base[l] \in LoadAddr[l] \cup {0}    \* linked ones are mapped early
    /\ mhaddr = [key \in Key |-> 0]
    /\ ugaddr = [key \in Key |-> 0]
    /\ call = [t \in Threads |-> Idle]
    /\ missed = {}
    /\ gaveup = FALSE
-----------------------------------------------------------------------------
(***************************************************************************)
(* The trainer, up to its main loop.                                       *)
(***************************************************************************)
\* prepare_dynmem(): new, empty FIFOs, its end of DYNMEM_IN, and the game.
PrepareDynmem ==
    /\ ug = "prepare"
    /\ ug' = "preloader" /\ mh' = "loader"
    /\ UNCHANGED <<toLib, toUg, base, mhaddr, ugaddr, call, missed, gaveup>>

\* run_game() polls for a running process of the configured name.
GameFound ==
    /\ ug = "preloader" /\ mh \notin {"none", "loader", "dead"}
    /\ ug' = "openofd"
    /\ UNCHANGED <<mh, toLib, toUg, base, mhaddr, ugaddr, call, missed, gaveup>>

\* ... 56 times, every 50 ms: a slower loader is an error, and ugtrain ends.
GameTooSlow ==
    /\ ug = "preloader" /\ (mh \in {"loader", "dead"})
    /\ ug' = "failed"
    /\ UNCHANGED <<mh, toLib, toUg, base, mhaddr, ugaddr, call, missed, gaveup>>

\* open(DYNMEM_OUT) waits for a reader; then the config is written.
SendConfig ==
    /\ ug = "openofd" /\ mh \in {"openofd", "readcfg"}
    /\ toLib' = Append(toLib, [op |-> "cfg"])
    /\ ug' = "aslr"
    /\ UNCHANGED <<mh, toUg, base, mhaddr, ugaddr, call, missed, gaveup>>

\* find_lib_region(), and the offset of the executable for "exe".
LoadOffs(lib) == IF lib = Exe THEN ExeOffs ELSE base[lib]

\* handle_aslr(): it waits for the library's notification without end, then
\* sends one offset per code address and adds the same to its own.
HandleAslr ==
    /\ ug = "aslr" /\ toUg # <<>>
    /\ toUg' = Tail(toUg)
    /\ LET offs(key) == LoadOffs(Essentials(key).lib)
       IN  /\ toLib' = Append(toLib, [op |-> "offs", offs |-> [i \in DOMAIN UgKeys |-> offs(UgKeys[i])]])
           /\ ugaddr' = [key \in Key |-> ugaddr[key] + offs(key)]
    /\ ug' = "stack"
    /\ UNCHANGED <<mh, base, mhaddr, call, missed, gaveup>>

\* handle_statmem_pie(), handle_statmem_pic(), handle_stack_end(): module
\* Relocation.  The last one sleeps a second, the game meanwhile runs.
HandleStackEnd ==
    /\ ug = "stack"
    /\ ug' = "loop"
    /\ UNCHANGED <<mh, toLib, toUg, base, mhaddr, ugaddr, call, missed, gaveup>>
-----------------------------------------------------------------------------
(***************************************************************************)
(* The library: the constructor memhack_init().                            *)
(***************************************************************************)
\* The shell and the loader are other processes by name: nothing is done there.
ExecGame ==
    /\ mh = "loader"
    /\ mh' = "openifd"
    /\ UNCHANGED <<ug, toLib, toUg, base, mhaddr, ugaddr, call, missed, gaveup>>

OpenIfd ==
    /\ mh = "openifd"
    /\ mh' = "openofd"
    /\ UNCHANGED <<ug, toLib, toUg, base, mhaddr, ugaddr, call, missed, gaveup>>

\* open(DYNMEM_OUT) waits until the trainer has the other end open.
OpenOfd ==
    /\ mh = "openofd" /\ UgRunning
    /\ mh' = "readcfg"
    /\ UNCHANGED <<ug, toLib, toUg, base, mhaddr, ugaddr, call, missed, gaveup>>

Activated == <<[op |-> "S"]>>

\* MUTANT of ReadConfig: nobody tells the trainer.
ReadConfigSilent ==
    /\ mh = "readcfg" /\ toLib # <<>>
    /\ toLib' = <<>>
    /\ mh' = "readoffs"
    /\ UNCHANGED <<ug, toUg, base, mhaddr, ugaddr, call, missed, gaveup>>

\* The config has arrived: tell the trainer that the offsets may come.  A
\* config of one entry for stack values alone asks for none.
ReadConfig ==
    /\ mh = "readcfg" /\ toLib # <<>>
    /\ toLib' = <<>>
    /\ mh' = IF SkipAslr THEN "active" ELSE "readoffs"
    /\ toUg' = toUg \o <<[op |-> "ready"]>> \o (IF SkipAslr THEN Activated ELSE <<>>)
    /\ UNCHANGED <<ug, base, mhaddr, ugaddr, call, missed, gaveup>>

\* read_input() has found nothing in six tries: no config, no output.
ReadConfigFails ==
    /\ mh = "readcfg" /\ toLib = <<>>
    /\ mh' = "inactive" /\ gaveup' = TRUE
    /\ UNCHANGED <<ug, toLib, toUg, base, mhaddr, ugaddr, call, missed>>

\* The offsets are assigned in their order; a missing one counts as 0.
TakeOffs(offs, key) ==
    LET slot == {j \in DOMAIN MhKeys : MhKeys[j] = key /\ j \in DOMAIN offs}
    IN  IF Essentials(key).addr THEN (IF slot = {} THEN 0 ELSE offs[CHOOSE j \in slot : TRUE])
                                ELSE 0

ReadOffs ==
    /\ mh = "readoffs" /\ toLib # <<>>
    /\ mhaddr' = [key \in Key |-> mhaddr[key] + TakeOffs(Head(toLib).offs, key)]
    /\ toLib' = <<>>
    /\ toUg' = toUg \o Activated
    /\ mh' = "active"
    /\ UNCHANGED <<ug, base, ugaddr, call, missed, gaveup>>

\* Without the offsets the library goes on with the addresses of the config.
ReadOffsFails ==
    /\ mh = "readoffs" /\ toLib = <<>>
    /\ toUg' = toUg \o Activated
    /\ mh' = "active" /\ gaveup' = TRUE
    /\ UNCHANGED <<ug, toLib, base, mhaddr, ugaddr, call, missed>>
-----------------------------------------------------------------------------
(***************************************************************************)
(* The game: dlopen() and its hook, dlclose(), an allocation, its end.     *)
(***************************************************************************)
\* The positions of UgKeys whose library contains the name the game opened.
Asking(n) == {j \in DOMAIN UgKeys : /\ Essentials(UgKeys[j]).lib \in LibName
                                    /\ n \in Substr[Essentials(UgKeys[j]).lib]}
NextAsk(n, pos) == {j \in Asking(n) : j > pos /\ \A i \in Asking(n) : i > pos => i >= j}

\* send_lib_name() for the first such address behind pos, if there is one.
\* A write that fails, because the trainer is gone, ends the hook.
Ask(t, n, pos) ==
    IF NextAsk(n, pos) = {} \/ ~UgRunning
    THEN /\ call' = [call EXCEPT ![t] = Idle]
         /\ UNCHANGED toUg
    ELSE /\ call' = [call EXCEPT ![t] = [at |-> "wait", lib |-> n,
                                         pos |-> CHOOSE j \in NextAsk(n, pos) : TRUE]]
         /\ toUg' = Append(toUg, [op |-> "l", lib |-> n])

\* dlopen() has loaded the library, or had it already: postprocess_dlopen().
Dlopen(t, n) ==
    /\ GameRuns /\ call[t].at = "run" /\ Len(toUg) < MaxFifo /\ Len(toLib) < MaxFifo
    /\ \E a \in IF base[n] = 0 THEN LoadAddr[n] \cup {0} ELSE {base[n]} :
          base' = [base EXCEPT ![n] = a]
    /\ IF mh = "active" THEN Ask(t, n, 0) ELSE UNCHANGED <<call, toUg>>
    /\ UNCHANGED <<ug, mh, toLib, mhaddr, ugaddr, missed, gaveup>>

\* sscanf("%p;%p") on all that one read() has returned.
Numbers(m) == IF m.op = "offs" THEN m.offs ELSE <<m.start, m.end>>
LibStart   == FlattenSeq([i \in DOMAIN toLib |-> Numbers(toLib[i])])

\* MUTANT of Relocated: only the code address that asked is relocated.
RelocatedOne(n, pos, load) == [mhaddr EXCEPT ![UgKeys[pos]] = load]

\* code_addr = code_offs + lib_load for this address and the later ones.
Relocated(n, pos, load) ==
    [key \in Key |-> IF \E j \in Asking(n) : j >= pos /\ UgKeys[j] = key
                     THEN load ELSE mhaddr[key]]

\* An answer other than 0 is for this address and all later ones of the same
\* library; 0 makes the next one ask again; one number alone is an error.
LibReply(t) ==
    /\ GameRuns /\ call[t].at = "wait" /\ toLib # <<>>
    /\ toLib' = <<>>
    /\ LET n == call[t].lib
           load == LibStart[1]
       IN  IF Len(LibStart) < 2
           THEN /\ call' = [call EXCEPT ![t] = Idle]
                /\ UNCHANGED <<toUg, mhaddr>>
           ELSE IF load = 0
           THEN Ask(t, n, call[t].pos) /\ UNCHANGED mhaddr
           ELSE /\ mhaddr' = Relocated(n, call[t].pos, load)
                /\ call' = [call EXCEPT ![t] = Idle]
                /\ UNCHANGED toUg
    /\ UNCHANGED <<ug, mh, base, ugaddr, missed, gaveup>>

\* The trainer still has a request to answer.
Owes == UgRunning /\ \E i \in DOMAIN toUg : toUg[i].op = "l"

\* read_input() has found nothing in six tries.
LibGiveUp(t) ==
    /\ GameRuns /\ call[t].at = "wait" /\ toLib = <<>>
    /\ call' = [call EXCEPT ![t] = Idle]
    /\ gaveup' = (gaveup \/ Owes)
    /\ UNCHANGED <<ug, mh, toLib, toUg, base, mhaddr, ugaddr, missed>>

\* dlclose() is not hooked.
Dlclose(t, n) ==
    /\ GameRuns /\ call[t].at = "run" /\ base[n] # 0
    /\ base' = [base EXCEPT ![n] = 0]
    /\ UNCHANGED <<ug, mh, toLib, toUg, mhaddr, ugaddr, call, missed, gaveup>>

\* The code at this address is in memory, at this load address.
Mapped(key) == Essentials(key).lib # Exe => base[Essentials(key).lib] # 0

\* The game allocates an object of a class; the library finds its code
\* address in the backtrace if it has added the right load address.
Report(t, key) ==
    /\ mh = "active" /\ call[t].at = "run" /\ Len(toUg) < MaxFifo
    /\ ~Skipped(key) /\ Essentials(key).addr /\ Mapped(key)
    /\ mhaddr[key] = LoadOffs(Essentials(key).lib)
    /\ toUg' = Append(toUg, [op |-> "m", key |-> key, addr |-> mhaddr[key]])
    /\ UNCHANGED <<ug, mh, toLib, base, mhaddr, ugaddr, call, missed, gaveup>>

GameEnds ==
    /\ mh \notin {"none", "dead"}
    /\ mh' = "dead"
    /\ call' = [t \in Threads |-> Idle]
    /\ toLib' = <<>>                    \* nobody reads it any more
    /\ UNCHANGED <<ug, toUg, base, mhaddr, ugaddr, missed, gaveup>>
-----------------------------------------------------------------------------
(***************************************************************************)
(* The trainer's main loop, as far as these messages go.                   *)
(***************************************************************************)
ReadMsg(op) == ug = "loop" /\ toUg # <<>> /\ Head(toUg).op = op /\ toUg' = Tail(toUg)

\* MUTANT of LateKey: the trainer forgets where a class grows.
LateKeyNoGrow(n, key) == Essentials(key).lib = n /\ key[2] = 0

\* The class itself and its growing, but not its consts.
LateKey(n, key) == Essentials(key).lib = n /\ (key[2] = 0 \/ IsGrow(key))

\* get_lib_load_addr(): reload the regions; if the library is there, update
\* the classes of exactly that library and answer.
GetLibLoadAddr ==
    /\ ReadMsg("l")
    /\ LET n == Head(toUg).lib
       IN  IF base[n] = 0
           THEN UNCHANGED <<ugaddr, toLib>>
           ELSE /\ ugaddr' = [key \in Key |-> IF LateKey(n, key) THEN base[n] ELSE ugaddr[key]]
                /\ toLib' = Append(toLib, [op |-> "bounds", start |-> base[n], end |-> base[n] + 1])
    /\ UNCHANGED <<ug, mh, base, mhaddr, call, missed, gaveup>>

\* alloc_dynmem_addr(): the class that knows this code address.  With a
\* growing the consts are not looked at.
Recognised(m) ==
    /\ ugaddr[m.key] = m.addr
    /\ Class[m.key[1]].grow = NoGrow \/ m.key[2] = 0 \/ IsGrow(m.key)

ReadMalloc ==
    /\ ReadMsg("m")
    /\ missed' = missed \cup (IF Recognised(Head(toUg)) THEN {} ELSE {Head(toUg).key})
    /\ UNCHANGED <<ug, mh, toLib, base, mhaddr, ugaddr, call, gaveup>>

ReadStackEnd ==
    /\ ReadMsg("S")
    /\ UNCHANGED <<ug, mh, toLib, base, mhaddr, ugaddr, call, missed, gaveup>>

\* memattach() or check_process() fails: the game has ended.
CheckProcess ==
    /\ ug = "loop" /\ mh = "dead"
    /\ ug' = "ended"
    /\ UNCHANGED <<mh, toLib, toUg, base, mhaddr, ugaddr, call, missed, gaveup>>
-----------------------------------------------------------------------------
UgStep == \/ PrepareDynmem \/ GameFound \/ SendConfig \/ HandleAslr \/ HandleStackEnd
          \/ GetLibLoadAddr \/ ReadMalloc \/ ReadStackEnd \/ CheckProcess
MhStep == \/ ExecGame \/ OpenIfd \/ OpenOfd \/ ReadConfig \/ ReadOffs
GaveUp == ReadConfigFails \/ ReadOffsFails \/ GameTooSlow
HookStep(t) == LibReply(t) \/ LibGiveUp(t)
GameStep(t) == \/ \E n \in LibName : Dlopen(t, n) \/ Dlclose(t, n)
               \/ \E key \in Key : Report(t, key)

Next == \/ UgStep \/ MhStep \/ GaveUp \/ GameEnds
        \/ \E t \in Threads : HookStep(t) \/ GameStep(t)

(***************************************************************************)
(* Both processes run, and a thread in the hook goes on; the game owes     *)
(* nobody a dlopen(), an allocation or its end.                            *)
(***************************************************************************)
Spec == /\ Init /\ [][Next]_vars
        /\ WF_vars(UgStep) /\ WF_vars(MhStep)
        /\ \A t \in Threads : WF_vars(HookStep(t))
-----------------------------------------------------------------------------
\* The dialogue is between the trainer and one thread: nothing locks the FIFOs.
OneGameThread == \E t \in Threads : Threads = {t}

\* strstr() finds a name in itself and otherwise in none that is ever mapped:
\* "." of dlopen(NULL).
NamesDiffer == \A l \in LibName : /\ l \in Substr[l]
                                  /\ \A n \in Substr[l] \ {l} : LoadAddr[n] = {}

\* Classes for stack values alone come last: the library takes no offset for
\* them (libmemhack.c:351), but handle_aslr() sends one.
StackClassesLast ==
    \E n \in 0..Len(UgKeys) : /\ MhKeys = SubSeq(UgKeys, 1, n)
                              /\ \A i \in (n + 1)..Len(UgKeys) : Skipped(UgKeys[i])

\* Consts belong to the executable and to a class that does not grow.
ConstsOfExe == \A c \in DOMAIN Class :
    /\ \A k \in DOMAIN Class[c].consts : Class[c].consts[k].lib = Exe
    /\ Class[c].grow # NoGrow => Class[c].consts = <<>>

\* Where no answer is under way for a library, the library has added the
\* right load address to every code address that is in memory: those of one
\* class, of its consts and of its growing do not get mixed up (offsets are
\* assigned by position), and a dlopen() gets the answer to its own question.
Settled(l) == \A t \in Threads : call[t].at = "wait" => call[t].lib \notin Substr[l]
Located ==
    mh = "active" /\ ~gaveup =>
        \A key \in Key :
            LET l == Essentials(key).lib
            IN  (/\ ~Skipped(key) /\ Essentials(key).addr /\ Mapped(key)
                 /\ l # Exe => Settled(l))
                => mhaddr[key] = LoadOffs(l)

\* No code address is ever relocated by the load address of another library.
OwnAddress ==
    \A key \in Key : Essentials(key).lib # Exe =>
                        mhaddr[key] \in LoadAddr[Essentials(key).lib] \cup {0}

\* The trainer knows the code address of every object that is reported to
\* it: its own update happens before the library's, and messages in the FIFO
\* from before the update are read before it.
NoneMissed == ~gaveup => missed = {}

\* The handshake ends in the main loop unless the game or the trainer ends,
\* or the library has given up before the trainer had written the config.
HandshakeEnds == <>(ug \in {"loop", "failed", "ended"} \/ mh \in {"dead", "inactive"})
=============================================================================
