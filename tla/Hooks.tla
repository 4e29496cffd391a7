------------------------------- MODULE Hooks --------------------------------
(***************************************************************************)
(* The game side: threads of the game calling malloc(), free() and         *)
(* realloc() through the hooks of linuxhooking/memhooks.c, and libmemhack  *)
(* reporting the calls that belong to a configured class.                  *)
(*                                                                         *)
(* A hook is not atomic.  malloc: the original call, then sprintf() into   *)
(* the library's static buffer obuf, then write() to the FIFO, then        *)
(* store_mem_addr().  free: the address leaves the table and sprintf(),    *)
(* then write(), then the original free().  realloc is free's prologue,    *)
(* the original call, malloc's epilogue.  The table is a set of addresses  *)
(* per class here; module AddrTable has its slots.                         *)
(***************************************************************************)
EXTENDS GameLink

CONSTANTS
    Threads,       \* threads of the game
    Other,         \* an allocation that matches no configured class
    Free,          \* an address that is not allocated
    NoMsg,         \* content of obuf before its first use
    FifoCap,       \* messages that fit into the FIFO
    EintrWrites,   \* TRUE: signal handlers of the game interrupt a write()
                   \*   that blocks on a full FIFO (EINTR)
    MallocMayFail  \* TRUE: the allocator may run out of memory

ASSUME OtherAssumption == Other \notin Class
ASSUME FreeAssumption  == Free \notin [class : Class \cup {Other}, size : Nat]
ASSUME FifoAssumption  == FifoCap \in Nat \ {0}

VARIABLES
    heap,        \* heap[a]: Free, or class and size of the object at a
    mem_addrs,   \* mem_addrs[c]: addresses in the library's table of class c
    obuf,        \* the output buffer all threads share
    call         \* call[t]: the hooked call thread t is in

hookVars == <<heap, mem_addrs, obuf, call>>

Object(c, s) == [class |-> c, size |-> s]

Idle == [at |-> "run", fn |-> "none", addr |-> Null, size |-> 0, class |-> Other]

Call == [at    : {"run", "write_m", "store", "write_f", "orig"},
         fn    : {"none", "malloc", "free", "realloc"},
         addr  : Addr \cup {Null},
         size  : Nat,
         class : Class \cup {Other}]

HookTypeOK ==
    /\ heap \in [Addr -> [class : Class \cup {Other}, size : Nat] \cup {Free}]
    /\ mem_addrs \in [Class -> SUBSET Addr]
    /\ obuf \in Msg \cup {NoMsg}
    /\ call \in [Threads -> Call]

HookInit ==
    /\ heap = [a \in Addr |-> Free]
    /\ mem_addrs = [c \in Class |-> {}]
    /\ obuf = NoMsg
    /\ call = [t \in Threads |-> Idle]

-----------------------------------------------------------------------------
\* What the game can ask for: a size of a configured class at that class's
\* call site, or anything else.
Request == {r \in Class \X UNION {ClassSize[c] : c \in Class} : r[2] \in ClassSize[r[1]]}
               \cup {<<Other, 0>>}

\* An object the game may free: allocated, returned by its allocation call,
\* and not already being freed by some thread.
Usable(a) == heap[a] # Free /\ \A u \in Threads : call[u].addr # a

\* postprocess_malloc() up to the sprintf().  A request of no configured
\* class leaves the hook without a message.
PostprocessMalloc(t, a, c, s) ==
    IF c \in Class
    THEN /\ call' = [call EXCEPT ![t] = [at |-> "write_m", fn |-> "malloc",
                                         addr |-> a, size |-> s, class |-> c]]
         /\ obuf' = MMsg(a, s, c)
    ELSE /\ call' = [call EXCEPT ![t] = Idle]
         /\ UNCHANGED obuf

\* MUTANT of PreprocessFree: the slot is not emptied.
PreprocessFreeKeepsSlot(t, a, fn) ==
    LET At(pc) == [call EXCEPT ![t] = [at |-> pc, fn |-> fn, addr |-> a,
                                       size |-> 0, class |-> Other]]
    IN  /\ IF \E c \in Class : a \in mem_addrs[c]
           THEN obuf' = FMsg(a) /\ call' = At("write_f")
           ELSE call' = At("orig") /\ UNCHANGED obuf
        /\ UNCHANGED mem_addrs

\* preprocess_free() up to the sprintf(): the slot is emptied and the message
\* formatted, or the address is unknown (or NULL) and the original function is next.
PreprocessFree(t, a, fn) ==
    LET At(pc) == [call EXCEPT ![t] = [at |-> pc, fn |-> fn, addr |-> a,
                                       size |-> 0, class |-> Other]]
    IN  \/ \E c \in Class :
              /\ a \in mem_addrs[c]
              /\ mem_addrs' = [mem_addrs EXCEPT ![c] = @ \ {a}]
              /\ obuf' = FMsg(a)
              /\ call' = At("write_f")
        \/ /\ \A c \in Class : a \notin mem_addrs[c]
           /\ call' = At("orig")
           /\ UNCHANGED <<mem_addrs, obuf>>

-----------------------------------------------------------------------------
\* malloc(), calloc() and operator new: the original call, then the epilogue.
Malloc(t) ==
    /\ call[t].at = "run"
    /\ \E r \in Request :
          \/ \E a \in Addr :
                /\ heap[a] = Free
                /\ heap' = [heap EXCEPT ![a] = Object(r[1], r[2])]
                /\ PostprocessMalloc(t, a, r[1], r[2])
          \/ /\ MallocMayFail
             /\ PostprocessMalloc(t, Null, r[1], r[2])
             /\ UNCHANGED heap
    /\ UNCHANGED <<mem_addrs, linkVars>>

\* The bytes a thread writes that formatted a message of kind op: as many as
\* that message has, from what obuf holds by now.
Written(op) ==
    IF obuf.op = op THEN <<obuf>>
    ELSE IF op = "f" THEN <<Cut>>
    ELSE <<obuf, Nul>>

\* write() blocks while the FIFO is full.
WriteMalloc(t) ==
    /\ call[t].at = "write_m"
    /\ Len(fifo) < FifoCap
    /\ fifo' = fifo \o Written("m")
    /\ call' = [call EXCEPT ![t].at = "store"]
    /\ UNCHANGED <<heap, mem_addrs, obuf, alive, attached>>

\* write() fails: perror(), the address is not stored, the hook returns.
WriteMallocFails(t) ==
    /\ EintrWrites
    /\ call[t].at = "write_m"
    /\ Len(fifo) >= FifoCap
    /\ call' = [call EXCEPT ![t] = Idle]
    /\ UNCHANGED <<heap, mem_addrs, obuf, linkVars>>

\* MUTANT of StoreMemAddr: the address 0 of a failed malloc() counts as stored.
StoreMemAddrNull(t) ==
    /\ call[t].at = "store"
    /\ mem_addrs' = [mem_addrs EXCEPT ![call[t].class] = @ \cup {call[t].addr}]
    /\ call' = [call EXCEPT ![t] = Idle]
    /\ UNCHANGED <<heap, obuf, linkVars>>

\* store_mem_addr(); storing the address 0 leaves the slot free.
StoreMemAddr(t) ==
    /\ call[t].at = "store"
    /\ mem_addrs' = [mem_addrs EXCEPT ![call[t].class] = @ \cup ({call[t].addr} \ {Null})]
    /\ call' = [call EXCEPT ![t] = Idle]
    /\ UNCHANGED <<heap, obuf, linkVars>>

FreeCall(t) ==
    /\ call[t].at = "run"
    /\ \E a \in Addr : Usable(a) /\ PreprocessFree(t, a, "free")
    /\ UNCHANGED <<heap, linkVars>>

\* MUTANT of ReallocCall: the hook has no prologue.
ReallocCallUnreported(t) ==
    /\ call[t].at = "run"
    /\ \E a \in Addr \cup {Null} :
          /\ a # Null => Usable(a)
          /\ call' = [call EXCEPT ![t] = [at |-> "orig", fn |-> "realloc", addr |-> a,
                                          size |-> 0, class |-> Other]]
    /\ UNCHANGED <<heap, mem_addrs, obuf, linkVars>>

\* realloc() of an object or of NULL.
ReallocCall(t) ==
    /\ call[t].at = "run"
    /\ \E a \in Addr \cup {Null} :
          /\ a # Null => Usable(a)
          /\ PreprocessFree(t, a, "realloc")
    /\ UNCHANGED <<heap, linkVars>>

WriteFree(t) ==
    /\ call[t].at = "write_f"
    /\ Len(fifo) < FifoCap
    /\ fifo' = fifo \o Written("f")
    /\ call' = [call EXCEPT ![t].at = "orig"]
    /\ UNCHANGED <<heap, mem_addrs, obuf, alive, attached>>

\* write() fails: perror(), and the free() goes on although nobody was told.
WriteFreeFails(t) ==
    /\ EintrWrites
    /\ call[t].at = "write_f"
    /\ Len(fifo) >= FifoCap
    /\ call' = [call EXCEPT ![t].at = "orig"]
    /\ UNCHANGED <<heap, mem_addrs, obuf, linkVars>>

OrigFree(t) ==
    /\ call[t].at = "orig"
    /\ call[t].fn = "free"
    /\ heap' = [heap EXCEPT ![call[t].addr] = Free]
    /\ call' = [call EXCEPT ![t] = Idle]
    /\ UNCHANGED <<mem_addrs, obuf, linkVars>>

\* The original realloc(): in place, moved (or new, for NULL), or failed with
\* the old object untouched; then malloc's epilogue with the result.
OrigRealloc(t) ==
    /\ call[t].at = "orig"
    /\ call[t].fn = "realloc"
    /\ LET old == call[t].addr
       IN  \E r \in Request :
              \/ /\ old # Null
                 /\ heap' = [heap EXCEPT ![old] = Object(r[1], r[2])]
                 /\ PostprocessMalloc(t, old, r[1], r[2])
              \/ \E a \in Addr :
                    /\ heap[a] = Free
                    /\ heap' = [x \in Addr |-> CASE x = a -> Object(r[1], r[2])
                                                 [] x = old -> Free
                                                 [] OTHER -> heap[x]]
                    /\ PostprocessMalloc(t, a, r[1], r[2])
              \/ /\ MallocMayFail
                 /\ UNCHANGED heap
                 /\ PostprocessMalloc(t, Null, r[1], r[2])
    /\ UNCHANGED <<mem_addrs, linkVars>>

HookStep(t) ==
    \/ Malloc(t) \/ WriteMalloc(t) \/ WriteMallocFails(t) \/ StoreMemAddr(t)
    \/ FreeCall(t) \/ WriteFree(t) \/ WriteFreeFails(t) \/ OrigFree(t)
    \/ ReallocCall(t) \/ OrigRealloc(t)

-----------------------------------------------------------------------------
\* The library's table never holds an address that is not an object of its
\* class: it is left before the original free() and entered after malloc().
TableValid ==
    \A c \in Class : \A a \in mem_addrs[c] : heap[a] # Free /\ heap[a].class = c
=============================================================================
