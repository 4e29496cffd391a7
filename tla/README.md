# ugtrain in TLA+

ugtrain is a game trainer for the command line: it freezes and changes values
in the memory of a running game.  Values in *dynamic* memory (objects the game
allocates with `malloc()` or `new`) need the help of a library, `libmemhack`,
that is preloaded into the game, hooks its memory functions and reports the
objects of interest through a FIFO.  This directory holds TLA+ specifications
of that machinery, TLC configurations that check small instances and TLAPS
proofs of the results that hold for every instance.  File names and line
numbers are those of the repository (`src/` is the directory of that name).

## 1. The system and its parts

| part | source | state | operations |
|---|---|---|---|
| memory hooks | `linuxhooking/memhooks.c` | `no_hook` (per thread) | `malloc`, `calloc`, `realloc`, `free`, operator `new`/`delete`, `dlopen`, the glib allocators |
| object reporting | `linuxhooking/libmemhack.c` | config, `obuf`, FIFO descriptors | `memhack_init`, `postprocess_malloc`, `preprocess_free`, `postprocess_dlopen` |
| table of reported addresses | `linuxhooking/libmemhack.c` | `mem_addrs`, `max_obj`, `insert_idx` per class, a read/write lock | `store_mem_addr`, the search of `preprocess_free` |
| object bookkeeping | `memmgmt.cpp` | malloc queue, `v_maddr`, `v_msize`, `num_freed`, `num_kicked` per class, `v_oldval`, `v_value`, `v_cstr` per config entry | `queue_dynmem_addr`, `clear_dynmem_addr`, `free_dynmem`, `alloc_dynmem_addr`, `alloc_dynmem` |
| main loop | `ugtrain.cpp`, `control.cpp`, `lib/memattach_l.h` | `cfg_act`, the ptrace attachment | one round: read, erase, attach, read again, process, detach, erase, allocate |
| message parser | `fifoparser.cpp` | `ibuf`, `ilen`, forward or backward | `read_dynmem_buf`, `parse_dynmem_buf` |
| value processing | `ugtrain.cpp`, `cfgentry.h` | caches, checks, pointer memory, old values | `process_act_cfg`, `change_memory`, `check_memory`, `process_ptrmem` |
| start-up handshake | `ugtrain.cpp`, `aslr.cpp`, `libmemhack.c` | the two FIFOs, the code addresses on both sides | `prepare_dynmem`, `memhack_init`, `handle_aslr`, `get_lib_load_addr`, `postprocess_dlopen` |
| ASLR and late PIC | `aslr.cpp`, `aslr.h`, `lib/maps_l.c` | the memory map and the static variables of `process_map`, load addresses, stack end, heap bounds | `read_maps`, `handle_statmem_pie`, `handle_statmem_pic`, `process_stack_end` |
| discovery | `discovery.cpp`, `linuxhooking/libmemdisc.c` | stage, code filter, followed pointer, worker process, output file | stages 1 to 5, `run_stage1234_loop`, `postproc_discovery` |
| adaptation | `adapt.cpp` | adapted sizes, code addresses | `process_adaptation`, `take_over_config` |
| config parser | `cfgparser.cpp`, `options.cpp` | the configuration | `read_config` and its parsers |
| processes, terminal | `lib/system_l.c`, `lib/getch_l.c`, `lib/preload_l.c` | child processes, terminal mode | `run_cmd_bg`, `check_process`, `do_getch` |
| output | `valoutput.cpp`, `dump.cpp`, `cfgoutput.cpp` | none | printing, dumping |
| tools, stubs | `tools/`, `lib/*_w.*`, `linuxhooking/nethooks.c` | none | filters of discovery output |

How they interact.  The game's threads call the hooks at any time.  A hook is a
chain of non-atomic steps inside the game process; it ends in a blocking
`write()` to the FIFO `/tmp/memhack_out`.  ugtrain is one thread with one loop.
It reads the FIFO twice in a round: before it attaches, and again when the
game's main thread is stopped by `ptrace()`.  Everything it knows about the
game's objects comes from these messages.  A message `m` is queued and becomes
an object at the end of the round; a message `f` removes the address from the
queue or zeroes it in its class, and two calls of `free_dynmem()` erase the
zeroes from all the vectors that run in parallel.

Before that, the two agree on code addresses: ugtrain writes the config to a
second FIFO, `/tmp/memhack_in`; the library reads it, notifies ugtrain, which
looks into the memory map of the game and answers with load addresses.  Each
`dlopen()` of the game starts such a dialogue again in the middle of the main
loop.  Static values are moved by ugtrain alone, from the memory map, when the
executable, a library or the stack is found.  A discovery replaces `libmemhack`
by `libmemdisc` and the main loop by a worker process that pumps what the library
reports into a file.  An adaptation runs in front of all this and rewrites the
config, in memory and in the file.

### What is hard about it

* The hooks of several threads interleave with each other and with the trainer;
  the output buffer is shared and not locked, the table is changed under the
  read lock.
* A FIFO that is full blocks the game, a signal may interrupt that, the game may
  exit at any moment, allocations may fail.
* Addresses are reused: an address in the queue, in a vector and in a message
  may stand for different objects.
* Five vectors per class and entry are kept aligned by five functions that run
  at different points of the round.
* The trainer must not touch memory the game has freed, although what it knows
  is always behind what the game does.
* A `read()` of a FIFO takes whatever is there: several messages, or one for
  somebody who did not ask.  The library stops waiting after 1.25 s.
* Messages are completed in one buffer whose positions are moved by three
  branches; the same code reads a file backwards.
* Libraries come, go and come back elsewhere, at any point of the round; values
  that share a cache must be moved once, not once per value.
* The config parser fills lists from state of the last line (the current block,
  the last entry, one `chk_en` for all checks); adaptation rewrites both sides.

`PROJECT.json` lists these hazards line by line.

## 2. Modules

| module | models |
|---|---|
| `VecOps` | erasing marked elements from a vector, first index of an element |
| `GameLink` | the FIFO with its messages, the game's life, the ptrace attachment |
| `Hooks` | the game's threads in the hooks: `Malloc`, `FreeCall`, `ReallocCall`, then `WriteMalloc`/`WriteFree`, `StoreMemAddr`, `OrigFree`, `OrigRealloc` |
| `Trainer` | one action per call in the main loop, the vectors of `memmgmt.cpp` |
| `DynMem` | `Hooks` and `Trainer` over `GameLink`: who may run when, fairness, the properties of the whole |
| `AddrSet` | what the library's table promises: a set of addresses |
| `AddrTable` | the table slot by slot, with the racing frees; implements `AddrSet` |
| `CacheLayout` | which chunks of memory are read and written: `FIND_CACHE_START` and `build_caches()` |
| `Values` | what one pass does to the values: caches, checks, dynamic values, references, pointers; and how value vectors come, go and are displayed |
| `Startup` | the two FIFOs between ugtrain and `libmemhack`: config, notification, code addresses, and the dialogue of every later `dlopen()` |
| `FifoParser` | the message buffer byte by byte, forward (FIFO) and backwards (file of a discovery) |
| `Regions` | `process_map()`: the lines of `/proc/$pid/maps` become typed regions |
| `StatMem` | `Regions` in the main loop: addresses of values, checks, dump areas and caches of static memory, stack end, heap bounds, libraries early and late |
| `Discovery` | ugtrain, its worker, `libmemdisc` and the game in stages 1 to 4, and the search through the file |
| `Config` | `read_config()` line by line, `build_caches()` per area, adaptation with the write-back, and the next start |
| `MCDynMem`, `MCAddrTable`, `MCValues`, `MCStartup`, `MCFifoParser`, `MCStatMem`, `MCDiscovery`, `MCConfig` | small instances for TLC |
| `VecOpsProofs` | lemmas on sequences, vectors, sets of indices and folds |
| `DynMemProofs`, `MemhackProofs` (`AddrTable` and `Startup`), `ValuesProofs`, `FifoParserProofs`, `StatMemProofs`, `DiscoveryProofs`, `ConfigProofs` | proofs |

Several modules are views of one loop.  `Trainer` follows every message and
every call of a round and asks *when* memory may be touched; its phase "process"
is a walk over entries and objects.  `Values` opens that walk and asks *what* is
read and written; messages and the FIFO are only the choice of the object that
appears or disappears.  `StatMem` asks *where* the values of static memory are,
`Startup` which code addresses the two sides compare, `FifoParser` what becomes
of the bytes of a message.  They meet at the operators a view leaves open: a
message is one element of `fifo` in `Trainer` (`FifoParser` shows that whole
messages come out in order), a class is one code address in `Hooks` (`Startup`
shows that both sides have the same), a cache contains its values in `Values`
(`CacheLayout`), the first cache of an area begins in front of its values in
`CacheLayout` (`Config`).

### State and code

`Hooks`, `Trainer`.  `heap` is libc's view of the heap (an address is free or is
an object of a class and a size).  `call[t]` is the program counter and the
locals of a thread in a hook: `write_m`/`write_f` is the point behind `sprintf()`
and in front of `write()`, `store` is in front of `store_mem_addr()`, `orig` in
front of the original function.  `obuf` is the shared output buffer and
`mem_addrs` the tables, as sets (that they are sets is what `AddrTable` shows).
In the trainer, `phase` is the position in the loop of `main()`, `mq` the malloc
queue, `v_maddr`, `v_msize`, `num_freed` and `v_oldval` the fields of those
names (`v_oldval` stands for the three value vectors of an entry, which the code
changes together), and `pos` is the position of `process_act_cfg()` in the
active entries and in the objects of their class.

`CacheLayout`, `Values`.  A config is a set of elements (values and checks with
area, offset and size); a step of the layout is a line of the config
(`ReadElement`) or one round of the loop of `build_caches()` (`PlaceElement`).
`Values` starts with such a layout.  An action of `Values` is one entry of
`cfg_act` (`VisitStatic`, `EnterClass`), one entry of one object (`VisitObject`),
the end of an object or of the pass; everything `process_act_cfg()` calls is an
operator on the record `w`, which holds what those functions change: the game's
memory, the caches, and the vectors of entries and pointees.  Its last fields
are history and never read by an action: `direct` is the memory a trainer
without caches would leave, `reads`, `refs` and `follows` are what the last step
compared, `visited`, `lastptr` and `top` what the current object's entries
showed before.

`Startup`.  `ug` and `mh` are how far `main()` and `memhack_init()` have come,
`toLib` and `toUg` the FIFOs.  A code address is a key <<class, position>>;
`mhaddr` and `ugaddr` are the load addresses added to it so far by the library
and by ugtrain.  `call[t]` is a thread that runs or waits in the `dlopen()` hook.

`FifoParser`.  `ibuf` is the buffer, `ilen` and `tmp_ilen` the variables of those
names.  Each branch of `parse_dynmem_buf()` is an action (`ParseEnd`,
`ParseMessage`, `ParseErr`), each way of `read_dynmem_buf()` too (`ReadForward`,
`ReadReverse`, `ReadEof`).  `out`, `err` and `sent` are history.

`Regions`, `StatMem`.  `scan` is the record of static variables of
`process_map()`, carried from one reading to the next.  The game's map is
generated from the load addresses and the sections each file has; the executable
has a gap behind its code in which the loader may put a library, a library may
have a hole there (`---p`), a line that is not listed but counted.  `addr[i]`,
`offs[c]` and `dumpAddr` are the addresses as moved so far.

`Discovery`.  `said` are all lines the library has printed, `flushed` of them are
in the FIFO and `pumped` in the file.  `bt` is the code filter
(`bt_saddr`/`bt_eaddr`), `code` the code address looked for, `ptr` the followed
pointer with the last value shown.  `rep`, `owner` and `ptrset` are history.

`Config`.  A line is a record, `Line` the line being read; `dynmem_enp` and
`ptrmem_enp` are the numbers of the current blocks.  One action per kind of line,
then `build_caches()`, then one action per item of the script's output.  `taken`
and `kept` are history.

### What is abstracted

* A message is one element of the FIFO in `Trainer`; what two threads leave
  behind when they share `obuf` is modelled (`Cut`, `Nul` in `GameLink`).  In
  `FifoParser` a number is one byte, and a process writes whole messages.
* `FifoParser` has the messages `m`, `f` and the stack end, not `l` (a late library); it
  leaves out that `read_stack_end()` reports a malformed first line as an error.
* Two messages of one kind that meet in `obuf` are taken to be equally long
  (`Written`): the one that is written is whole.
* The code address in a message stands for the class, and so does the class.
* A value cell of `Trainer` holds the address of the object it was read from:
  enough to say whether values and objects are aligned.
* An object check (`checko`) fails or not, nondeterministically; so does
  `memattach()`.  `check_process()` answers "ended" only when the game is gone.
* In `Hooks`, growing the table does not fail; `AddrTable` models the failure.
* In `Values` a value is one cell, whatever its type, and wraps at `MaxVal`; a
  size above one only matters for the layout and the bounds of an object.
  Strings are left out, and so are failing writes.  A chunk that reaches behind
  the mapped memory cannot be read (`Readable`).  At most one object appears in a
  round, objects do not overlap, and a reference is to an entry of the same class
  or to static memory.
* A `ptrmem` of `Values` may have any number of pointers, all of one class or all
  static.  Pointers of several classes to one `ptrmem` are excluded
  (`ConfigAssumption`): the parser takes them (`cfgparser.cpp:1295`), but
  `process_ptrmem()` then uses the class of the last one (`ptrtgt->dynmem`), whose
  object index has nothing to do with the object in work and may be behind the
  end of its vectors.  Neither is a pointer inside of pointer memory modelled
  (`examples/README.md:272` rules it out).  With two pointers of one class the
  number of elements is right (`VectorsAligned`), but not whose they are: a
  vector has two elements per object and is indexed with the number of the
  object, so that erasing an object moves elements from one object to another.
* Libraries of `Startup` are opened with `dlopen()`; none is mapped because
  another one needs it.
* The game asks for the sizes of the config at the call sites of the config, or
  for something else (`Other`); it frees what it has allocated, once.
* In `Startup` the 1.25 s of the library are a nondeterministic giving up while
  the FIFO is empty; the game may go on only while at most `MaxFifo` messages
  are unread.
* In `StatMem` items without a cache (checks of other values, strings) and checks
  in a library whose value is in no library are excluded (`PointerAssumption`):
  for these the loops of `aslr.h` dereference a null pointer.  Files begin with
  `.text`, as the comment in `process_map()` has it: a linker that puts a
  read-only segment in front of the code is not modelled.
* In `Discovery` the game has one thread.  Times are an assumption, not modelled:
  a worker that is awake when the game ends has read the FIFO empty before it is
  killed 250 ms later (`KillWorker`); one that is asleep is killed asleep
  (`overslept`).
* In `Config` the text of a line is not modelled; neither are the values' types
  and key bindings, which decide nothing about blocks, lists and addresses.
  Offsets are not negative.

## 3. Runs

| run | instance | shows |
|---|---|---|
| `main` | 1 thread, 2 addresses, 2 classes (one growing, sizes 4 and 8), 2 entries, FIFO of 1, queue of 2 | `SafeAccess`, `Accounted`, `NoDuplicates`, `NoObjectLost`: the trainer touches living objects only and knows each of them once |
| `faults` | 2 threads with one `obuf`, 2 addresses, FIFO of 2, failing `malloc()`, interrupted writes, an object check that kicks objects, queue of 1; at most 3 objects known, queued, reported or about to be | `TypeOK`, `Aligned`, `FreedCounted`, `TableValid`: values, counters and tables survive lost and broken messages |
| `live` | 1 thread, fairness | `FreedForgotten`, `WriterUnblocked`, `TrainerEnds` |
| `addrtable_race` | 3 threads, 4 addresses, the table grows twice, failing `malloc()` and `realloc()` | `Findable`, `InsertIdxValid`, `RefinesAddrSet` |
| `values` | five configs (objects with a maximum, a reference and a pointer; static values with a pointer followed once; checks; two pointers of an object to the same memory; a layout of values that overlap), 2 objects of 3 cells, chunks of 4, 16 cells of memory, 5 moves of the game and the user | `VectorsAligned`, `InsideCache`, `LaterCachesBehind`, `Transparent` (the caches leave what direct writes would), `RefFresh`, `FollowSeen` |
| `startup` | a class with a const in the executable, a growing of one library alone, a growing class of another; libraries opened, closed, opened elsewhere, `dlopen(NULL)`; every wait may time out; 2 unread messages | `Located` (the library compares with the right addresses), `NoneMissed` (the trainer knows every address reported), `HandshakeEnds` |
| `parser` | a buffer of 13 bytes, up to 4 messages of 5 shapes; files with a stack end, up to 4 lines and a cut one | `ParserTypeOK`, `Conserved`, `ReversedLines`, `Drained` |
| `statmem` | 3 items of the executable in one cache, two of a library in one cache with a check in a second library, one on the stack, 2 dump areas; libraries may be mapped into the executable's gap, files may lack sections, libraries may have a hole without permissions | `Touched` (every item is moved once, to its place), `RegionTypes`, `HeapInside`, `HeldBack`, `AllFound` |
| `discovery` | 11 requests of the user: every stage, with and without filter, code address, object or static pointer; 2 cells, 2 libraries of which one contains the other's name; 1 to 6 lines | `LiveFirst`, `FlushRead`, `Filtered`, `PtrSeen`, `DiscoveryEnds` |
| `config` | all files of two blocks out of 19, with 4 heads, 3 tails and with or without a final newline; all files of three blocks; 7 outputs of the script | `Homes`, `RereadSame`, `TakenOnce` |
| `v_threads` | 2 threads | `SafeAccess` violated: ptrace stops the main thread only, against the comment at `ugtrain.cpp:543` |
| `v_stack` | two values on the stack in one cache | `Touched` violated: the cache is mirrored at the stack end as a whole, its values are not, against `doc/ugtrain-statmem.md:405` |

More configurations are kept that TLC refutes; each shows why a property above
has the precondition it has, or what the code does not promise.

| configuration | refuted | why |
|---|---|---|
| `MCDynMem_v_eintr` | `SafeAccess` with interrupted writes | the report of a free is given up |
| `MCAddrTable_v_highwater` | `HighWater` | racing frees let the table scan more slots than there ever were objects |
| `MCValues_v_wish` | `WishOwn` | a new object starts with the maximum of the object on display |
| `MCValues_v_near` | `SetIsInMemory` | a pointer leads right behind its object: the value there is undone by writing back the object's chunk |
| `MCStartup_v_stale` | `OwnAddress` | after a timeout the answer to one `dlopen()` is taken for the next one's |
| `MCStartup_v_threads` | `Located` with two threads in the hook of `dlopen()` | nothing locks the two FIFOs: each may take the answer to the other's question |
| `MCStartup_v_names` | `Located` with a library whose name is a part of another's | `strstr()` at `libmemhack.c:649` asks about the wrong one as well |
| `MCStartup_v_order` | `Located` with a class for stack values in front of others | the library takes no code offset for it (`libmemhack.c:351`), `handle_aslr()` sends one (`aslr.cpp:270`): every later offset goes to the wrong class |
| `MCStartup_v_const` | `NoneMissed` with a const in a library that is opened late | the trainer updates the addresses of classes and growings only (`aslr.cpp:212`) |
| `MCStatMem_v_dump` | `Touched` with two dump areas in one library | the first one marks the library as loaded (`aslr.h:171`): the second is dumped from its bare offset, against `doc/ugtrain-statmem.md:343` |
| `MCStatMem_v_skip` | `OutputRead` with two active values in a late library | `skip_val` is reset by the first of them (`valoutput.cpp:175`): the second is output before it was read |
| `MCFifoParser_v_reverse` | `AlwaysNulAtEnd` | a malformed line read backwards makes the next `read()` fill the byte kept 0 |
| `MCDiscovery_v_wrap` | `Filtered` where two load addresses add up to more than `UINTPTR_MAX` | the test for overflow at `libmemdisc.c:230` uses the code address with the last load address in it: opened again, the library keeps the stale code address |
| `MCDiscovery_v_flush` | `FinalFlush` | the worker may be asleep when it is killed |
| `MCDiscovery_v_ptr` | `DiscoveryEnds` | a static pointer in a stage without code addresses: ugtrain waits for a notification nobody sends |

`MCDynMem_v_threads` with `Accounted` in place of `SafeAccess` is refuted as well:
the report of a free is overwritten in the shared `obuf`.  The type invariants
`ValuesTypeOK` and `DiscTypeOK` are in no run; as a further `INVARIANT` of
`MCValues_main` and `MCDiscovery_main` both hold.

### The bounds

*Objects.*  Two addresses are enough for an address to be freed and reused while
another is in use, for `realloc()` to move an object, and for two objects of a
class to be erased in either order; the sizes 4 and 8 put one value inside and
one outside of an object; a FIFO of one message blocks the second writer and
makes the order of reading and writing matter; a queue as long as there are
addresses never overflows, one that is shorter does.  In `faults` two addresses
let a value be taken for another object's, and a FIFO of two lets something
follow a message that was cut, so that messages merge and lines do not parse.
Its state space is held small by two means.  `MCFewReports` cuts off states in
which the objects the trainer knows or has queued, the messages in the FIFO and
the threads about to write are more than three together.  `MCView` leaves out of
the comparison of states what nothing reads any more: `obuf` when no thread is
in front of a `write()` (every hook formats its message before it writes), and
the game's threads, tables and heap once the game has ended.  What the
invariants say of these was checked when they got their values, and they keep
them from then on.  The proofs cover the rest.  `MCShortVectors` bounds the vectors where unreported frees let
them grow for ever; `MCSlots` bounds the table where racing frees do the same.
`NoObjectLost` is checked without object checks (an object that fails its check
is kicked out on purpose) and with a queue that fits.

*Values.*  A chunk of four cells covers an object of three and the first cell of
its neighbour, so that stale or misplaced write-backs hit another object; five
moves (`MaxMoves`) let an object appear, have its value changed, its entry
toggled and the object replaced by one at the same address or index.

*Start-up.*  Two unread messages (`MaxFifo`) let a question overtake reports and
an answer be read together with another one; a library with two load addresses
is enough for an old address to differ from the new one.

*Parser.*  The buffer of 13 bytes holds two messages and a part of a third, so
that it fills up, a message is cut by every possible end, and it is emptied by
each of the three branches.

*Static memory.*  One map has all kinds of regions; files have their sections in
all numbers that matter (none behind the code, some, and in a library four,
which is one more than `process_map()` counts); each library is mapped in
front of, behind, or inside the gap of the executable.

*Discovery.*  `cfg.max` lines let an address be used three times before the game
ends; each of the two call stacks has a return address in the executable, one
also two in a library.  Requests rather than all combinations: the product of
all fields has no behaviour that these do not have in smaller instances.
`ExeLike` is empty: with a library whose name begins with "exe" ugtrain takes it
for the executable, and `Filtered` does not hold.

*Config.*  What a line does depends on the block it is in and on the lines of the
same block; what a block leaves behind (`dynmem_enp`, the last entry, `chk_en`)
reaches the next block.  So blocks of up to four lines and files of three blocks.
Adaptation runs at the first start only; `RereadSame` asks the second start that
it has nothing left to do.

Deadlock is checked in the runs of `DynMem`, `AddrTable`, `Values` and `Config`,
where the only ends are those of the program.  In the others processes stop when
the game or the trainer has ended; there the liveness properties say what must
not get stuck (and in `statmem` the round has no state it waits in).

### Fairness

`DynMem!Fairness`.  The trainer's loop is scheduled (weak fairness).  A thread
that has entered a hook goes on (strong fairness per thread: the trainer sleeps
in every round and detaches, so that the thread runs again and again, but not
continuously).  `check_process()` reports the end of a game that is gone at some
time (strong fairness of that outcome).  Nothing is assumed of the user, of when
the game allocates, frees or ends.

`Startup`: ugtrain and the start routine of the library are scheduled, a thread
in the `dlopen()` hook goes on.  Timeouts, the game's calls and its end happen or
not.  `FifoParser`: the loop that calls the parser runs (and the game writes what
it has begun).  `Discovery`: ugtrain, the worker and the start of the library are
scheduled; the game owes nobody anything, not even its end, so `DiscoveryEnds`
begins with the end of the game.  `StatMem` and `Config` state no liveness: every
step of theirs is that of a single loop without waiting.

## 4. Proofs

All theorems hold for every value of the constants: every set of addresses,
classes, sizes, entries, keys and threads, every length of the FIFO and of the
queue, every config file, every output of the script, every request of the user.

*Table* (first part of `MemhackProofs`).  The inductive invariant `IInv` is `TypeOK`,
`Findable`, `InsertIdxValid` and the facts about threads between the emptying of
a slot and the assignment of `insert_idx`: the index a thread is about to store
lies inside of the array.  It is strong enough for the step-by-step proof that
the slots implement `AddrSet`, including a lost table.

*Library* (first part of `DynMemProofs`), any number of threads.  `HookInv` adds to the types
that a call owns its address (`CallsOwn`: no two threads are in a hook with the
same address, and a reported address is allocated as what is reported) and that
tables hold objects of their class that no call owns (`TablesOwn`).
`TableValid` follows.

*Trainer* (second part of `DynMemProofs`), whatever the FIFO brings.  `TrainerInv` is `Aligned`
and `FreedCounted` with types and equal lengths; it is inductive.  The proofs
rest on the lemmas of `VecOpsProofs`: two vectors erased with the same index set
stay aligned.

*The whole* (the rest of `DynMemProofs`).  `GeneralInv` joins the two and gives `TypeOK`,
`Aligned`, `FreedCounted` and `TableValid` for any number of threads,
interrupted writes and failing allocations.  The safety of accesses needs
`OneThread` (one thread in the hooks and no interrupted write; the
configurations `v_threads` and `v_eintr` show that neither can be dropped).  `SafeInv` adds the two facts that make the FIFO a faithful account:
`Ordered` (between two reports of one address there is the report of its free)
and `Accurate` (a report no free follows is about an object that is allocated,
and that is in the table or on its way in or out), with
`Frozen` (while objects are processed the game is stopped and all its messages
are read).  `Accounted`, `NoDuplicates` and `SafeAccess` follow.  The FIFO's
lemmas `StreamSame`, `StreamAppend` and `StreamRead` carry the argument: a step
appends one message, takes one away, or does neither.

`NoObjectLost` is the converse of `Accounted` and needs `QueueFits` besides
`OneThread`: no object check that kicks objects (the check kicks them on
purpose), no failing allocation (its report has the address 0, which stays in
the queue) and a queue with room for every address.  `CompleteInv` adds
`Complete` to `SafeInv`: every object of the library's tables has a report that
no report of its `free()` follows, or the trainer holds it.  That the queue has
room follows from `NoDuplicates`, by counting: the addresses in the queue are
different ones.

*Cache layout* (first part of `ValuesProofs`), for every config, chunk and area.
`InsideCache` is not inductive: a line of the config may still move the first
cache of an area, and a cache is opened only because elements come in order.
`LayoutInv` adds `ReadFirst` (the lines are read before the first value is
placed), `StartsFirst` (what is still to be placed does not begin before the last
cache of its area), `SortedBehind` (nor before what has been placed), `OpenedFor`
(every cache but the first begins at a value placed in it), `BehindStart` and
`PlacedOnce`.  `LaterCachesBehind` follows by comparing the element a later cache
was opened for with the element that fits into the earlier one.
`LayoutImplemented` says that `Values` changes the layout as `CacheLayout` allows,
so that both hold for the caches of every pass (`CachesAlways`).

*Values* (the rest of `ValuesProofs`), for every config, every sequence of
objects, keys and values.  `Inv` says that there is a number `n[c]` of objects for
each class such that `ValuesInv(n)`: every vector of an entry, and of a pointee
through the class its pointer belongs to, has `n[c]` elements for each pointer to it
(`Copies`), or one per pointer if that is static (`Sized`, `Sizes`); the walk stays inside of the vectors (`Position`) and
the lists hold entries only (`Lists`).  `VectorsAligned` follows.  The `n` is
not a variable of the model: the steps that change it are `Erase` and `Allocate`.
`alloc_dynmem()` and `free_dynmem()` handle what is behind a pointer once for each
entry that is a pointer to it, so `Allocate` appends `Copies` elements and `Erase`
makes as many passes over these vectors (`WithoutTimes`), each of which takes out
as many elements as there are dead objects (`VecTimes`, by least counterexample
over the passes).  All
other steps are folds over entries, checks and pointees; lemmas about folds carry
a fact from step to step of the fold.  `FollowSeen` needs more: the code keeps
the old value of a pointer per *index*, the history `lastptr` knows it per
*address*.  They agree for living objects (`Latest`), because living objects of a
class have different addresses (`Mapped`), and because erasing moves the old
value with its address and allocating starts both anew.

*Parser* (`FifoParserProofs`), for every size of the buffer, every sequence of
messages and every file.  `ParserInv` says where the zero bytes are: forward,
everything behind the bytes read is zero, except right after an error, when only
`tmp_ilen` bytes were zeroed; backwards, there is a zero byte at the end of the
bytes read at the latest.  `ParserTypeOK` follows, and `AlwaysNulAtEnd`: every
`strchr()` finds a delimiter or the end inside of the buffer.  Both are proved
until a line read *backwards* does not parse; behind that the second is wrong
(`MCFifoParser_v_reverse`).  `Conserved` is the equation between what was output,
the buffer, the FIFO and what is still to be written; its proof is about
concatenation alone (second part of `VecOpsProofs`).

*Static memory* (`StatMemProofs`), for every config, every file that
begins with its code, whichever of the other sections and whether or not the gap
of a library is mapped without permissions, and every place the loader may
choose.  A comment in `process_map()` says that there should never be more than
four regions of a file (`maps_l.c:108`); with such a gap `.bss` is a fifth and is
listed as "misc", which `RegionTypes` says.  `BaseInv` needs no hypothesis.  Its part
`MapInv` says where files are: no line of a file lies inside of another file,
unless in the gap of the executable (`Apart`, which `LoadLib` keeps as libraries
are mapped into free memory).  A reading of the map is followed from line to
line: `After(s, m)` is what the static variables `s` of `process_map()` are worth
right behind the line `m` (the file it is in, how many of its regions have been
seen, its load address, and, in the gap, that the executable is to be continued);
`Rested(s)`, what is left of that at the end of the map, is enough to begin the
next reading.  The lemmas `TextLine`, `ContinuedLine`, `GapLine`, `FifthLine` and
`AreaLine` are the cases of the step `ProcessMapRight`: an own line for `.text`,
for what follows another section of the file, for what comes behind the gap, for
the fifth region of a file, and for heap and stack.  `Seen` says that the count
is exact (`Nr`), whether or not the lines before were listed, because the limit
of four decides what `.bss` is taken for.  `ReadRight` puts them together by least counterexample over the lines
(the model is written with folds, which are recursive functions): every region
of the list is `Right`, and everything that is written or executed is in it.
`RegionTypes` follows, with the fact that different lines begin at different
addresses (`MapDistinct`), by which the nameless `.bss` belongs to one file only.
`HeapInside` needs that the heap only grows.  `HeldBack` needs `HeldInv`: between
the reading and the output of a round, an active and known value has been read
unless `skip_val` of its library is set.

`AllFound` needs `FoundInv`: no library has a start other than its load address,
and from the early pass on what has a start is marked as loaded.  Its hypothesis
`LibNamesDiffer` says that a name in `lib_list` is a part of the path of its own
library alone; `find_lib_regions()` gives a region to the first name that fits.
`Touched` needs `MoveInv` as well: everything configured has been moved by nothing
or by the place of its area, all of the stack at once, and the offset of a cache
just as the items in it.  Its further hypotheses are `DumpsDiffer` (one dump area
in a library; `MCStatMem_v_dump` shows what happens to a second) and
`StackCaches` (a cache on the stack has the offset of its only value; the run
`v_stack` shows that two values cannot share one).

*Discovery* (`DiscoveryProofs`).  `FlushRead` needs that what is counted is in
order (`Counted`: pumped <= flushed <= said) and what each end of the worker
means (`Ended`).  `LiveFirst` needs `Reported`: the line that reports a living object
is about it, and no later line reports an object that covers one of its cells; a
free leaves no trace in stages 2 to 4, so the argument goes over the heap, where
`malloc()` returns free cells only, and not over the file.  `PtrSeen` needs
`PtrInv`: the pointer's place in memory is known from the report of the object
that holds it on (`Follows`), what is remembered is the last value shown
(`LastShown`), and it is the pointer's value once an allocation was reported
(`Shown`).  Hypothesis `PointersGiven`: the user's code address is one in the
executable that no library's code coincides with and that does not wrap when the
load address is added (`update_cfg_for_pie()` would move the pointer's offset
instead), or the address of the pointer.
`Filtered` needs `FilterInv`: the opening of the game is one question and one
answer (`Opening`), and later the FIFOs hold at most the question of the thread
in `dlopen()` or its answer, which is about the library where it is now
(`LibFiltered`).  Hypothesis `FiltersGiven`: a filter is asked for in the code
stages only and no library's name begins with "exe"; the sum of the code address
and *two* load addresses does not wrap.  The last one is what the code needs:
`set_bt_addrs()` (`libmemdisc.c:230`) tests for overflow with a code address
that still contains the load address of the last opening
(`MCDiscovery_v_wrap`).

*Config* (`ConfigProofs`).  `HomesInv`: while lines are read, everything already
listed lies at or behind the first cache of the area it was listed for, that area
is the one `build_caches()` will choose, and the blocks a line may refer to
exist.  `TakenInv` follows the objects of a script from its output through the
classes to the lines of the file: the lines of two classes differ, and a class
that was taken once has a new code address and is not found again.  This last
fact, and with it `TakenOnceAlways`, needs `ScriptsNonzero`: no object of the
script has the code address 0, which is the mark of "not found yet" in `adapt.cpp`.

`RereadSameAlways` needs no such hypothesis.  It relates two readings of two
different files, with an adaptation in between, so the invariant `RereadInv` has
to remember the first reading.  It does so with a *shape*: all of what has been
read that adaptation does not change (blocks, entries, checks, pointees, the names
of classes).  The shape behind a line is a function (`After`) of the shape in front
of it and of the line, and whether a line is accepted depends on these two alone
(`Fits`, `Hangs`).  `Recorded` says that the shapes the first start went
through form a `Chain` over the lines of the file.  Adaptation changes the size
and the code address on lines `dynmemstart`, the value on lines `game_binpath`
and `adapt_required`, and the name of the process: the new lines are `Alike`
the old ones, line by line, and `Written` says so of the file.  Lines that are
alike lead from the same shape to the same shape (`Replayed`): so the next start
goes through the remembered chain and accepts every line.  What is not part of
the shape is a function of the lines in both starts: sizes and code addresses
(`FromLines`: those on the line a class begins with), and the options
(`OptionLines`: the last line of a kind counts).  What the config says at the end
(`ConfOf`) is therefore the same.

The condition under which the file is expected to be read back, `Expressible`,
was completed while the proof was written.  Configs the write-back changes or the
next start rejects are left out: two lines `game_binpath` and a new
process name (only the last line is rewritten, and the next start rejects the
other); an output of the script that names the process twice, so that the binary
no longer is called as the process; a game call that is not the one of the last
line `game_call`.  The file is not empty (`ConfigAssumption`): without a
first line the process has no name, and `parse_proc_name()` (`cfgparser.cpp:225`)
rejects the config before anything is read.

*Start-up* (second part of `MemhackProofs`), for every config, every number of libraries and
every choice of the loader.  `StartInv` gives the types for any number of threads
and with every wait timing out; its part `Phases` says which messages may be in
which FIFO at which point of the start, so that each side takes only what it can
read.  `Located` and `NoneMissed` need `AgreeInv`, which holds until a wait times
out.  Its part `Heard` is about what the trainer has not read yet: a report
carries the code address the trainer has for it, and a question about a library
is the last message in its FIFO.  `Dialogue` is about the thread in `dlopen()`:
while it runs, both sides have the same code addresses, the right ones
(`Quiet`); while it waits for an answer about a library (`Waiting`), this is so
for the code of all other libraries, and the question is unread, or it was
dropped because the library is not mapped, or the trainer has made its own
update and the bounds are in the FIFO.  The order in the code carries the
argument: the trainer updates before it answers, and the thread reports nothing
before it has read the answer.  Hypotheses, together `StartGiven`:
`OneGameThread`, `NamesDiffer`, `StackClassesLast` and `ConstsOfExe`; the
configurations `v_threads`, `v_names`, `v_order` and `v_const` show that none of
them can be dropped.

Assumptions on constants: NULL is no address; the sizes of a class are naturals;
`Other` is no class; the FIFO holds at least one message; `Main` is a thread;
entries, keys and activations are over the configured entries; the empty slots of the
table are no addresses; a value is not empty, fits into a chunk and lies below
`PTR_MAX`; the addresses of a discovery lie in `1..UINTPTR_MAX`; offsets in
config lines are naturals; classes, pointees and static memory are different areas, objects
lie inside of the memory, lists of active entries hold entries of their area, and
what a config refers to exists in it (as the parser leaves it); no library is called as the executable is; the loader puts a library
into free memory, in front of or behind the heap's and the stack's range, and the
heap behind the executable (`LoaderAssumption`); every library of the config
holds an item or a dump area, and key bindings are of values; files and messages contain no zero byte and a message
ends with a newline, as the library's format strings do.  A hypothesis of a
single theorem (`OneThread`, `QueueFits`, `PointersGiven`, `FiltersGiven`,
`ScriptsNonzero`, `LibNamesDiffer`, `DumpsDiffer`, `StackCaches`, the four of `StartGiven`) is a named definition, holds in the run that checks the property, and is explained
above.

Model-checked only: all liveness properties (out of the prover's reach);
`Transparent` and `RefFresh` of `Values`, which hold for configs whose chunks are
apart and whose references go to entries visited before (`MCValues_v_near` shows
what happens otherwise); `ValuesTypeOK`, which a reference out of a class
breaks; `DiscTypeOK`, whose bounds on addresses depend on the libraries of the
instance; and `ReversedLines` of `FifoParser` (a statement about lines found by
searching a whole file, in need of induction over it).

## 5. Not modelled

* Hooks: the glib allocators (the same template as `malloc()`), network hooks.
* Messages: digits and the text of lines, in the FIFO and in the config.
* Config: key bindings, value types and formats, floating point; a config whose
  write-back is cut by a crash (the file is written without a temporary file).
* Values: strings, and references out of a class (`ugtrain.cpp:160` uses an index
  of another class that may be stale: a listed hazard without a property).
* ASLR: prelinked executables, other architectures.
* Discovery: stage 0 (scanmem), stage 5 (another ugtrain), the parsing of `-D`,
  the disassembly of call sites.
* Time: `read_dynmem_fifo()` goes on while messages arrive, so a game that never
  stops allocating could keep the trainer there; the model does not bound a round.
* Output and dumping beyond the choice of what is output; terminal mode, child
  processes and the preloading of the library: no state that outlives a call, or
  operating system glue.
* The list of the Linux kernel in `lib/list.h`, the stand-alone filters in
  `tools/`, the Windows stubs.
