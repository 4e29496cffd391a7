---------------------------- MODULE DynMemProofs ----------------------------
(***************************************************************************)
(* Dynamic memory hacking, for every number of classes, entries, sizes and *)
(* addresses and every length of the FIFO and of the queue.                *)
(*                                                                         *)
(* With any number of threads, interrupted writes and failing allocations: *)
(* types, the library's tables, the alignment of the trainer's vectors.    *)
(* With one thread and uninterrupted writes: what the trainer holds is     *)
(* what the game has, but for the messages that are still to be read, and  *)
(* the trainer accesses no object the game has freed.  When also the queue *)
(* has room for every address: the trainer misses no object.               *)
(*                                                                         *)
(* The first part is about the hooks, the second about the trainer, the    *)
(* third composes them.                                                    *)
(***************************************************************************)
EXTENDS DynMem, VecOpsProofs, SequenceTheorems

(***************************************************************************)
(* The hooks.  For any number of threads, with interrupted writes and failing *)
(* allocations: the library's tables hold objects of the game only, and no *)
(* object a thread is just allocating or giving back.                      *)
(***************************************************************************)
Heap == [class : Class \cup {Other}, size : Nat]

\* Only a thread that reports a call has a message to write.
ObufWritten ==
    \A t \in Threads : call[t].at \in {"write_m", "write_f"} => obuf \in Msg

\* A call that has an address has it alone, and the game has an object there.
CallsOwn ==
    /\ \A t \in Threads :
          /\ call[t].at = "run" => call[t].addr = Null
          /\ call[t].addr # Null => heap[call[t].addr] # Free
          /\ call[t].at \in {"write_m", "store"} =>
                /\ call[t].class \in Class
                /\ call[t].addr # Null =>
                      heap[call[t].addr] = Object(call[t].class, call[t].size)
          /\ call[t].at = "write_f" => call[t].addr # Null
          /\ call[t].at = "orig" /\ call[t].fn = "free" => call[t].addr # Null
    /\ \A t, u \in Threads :
          call[t].addr = call[u].addr /\ call[t].addr # Null => t = u

\* An address in a table is an object of its class, and no call is about it.
TablesOwn ==
    \A c \in Class : \A a \in mem_addrs[c] :
        /\ heap[a] # Free
        /\ heap[a].class = c
        /\ \A t \in Threads : call[t].addr # a

HookInv == LinkTypeOK /\ HookTypeOK /\ ObufWritten /\ CallsOwn /\ TablesOwn

-----------------------------------------------------------------------------
LEMMA HookInitInv == LinkInit /\ HookInit => HookInv
<1> SUFFICES ASSUME LinkInit, HookInit PROVE HookInv
  OBVIOUS
<1> USE DEF LinkInit, HookInit
<1>1. LinkTypeOK
  <2>1. fifo \in Seq(Msg \cup {Cut, Nul})
    OBVIOUS
  <2>2. alive \in BOOLEAN /\ attached \in BOOLEAN
    OBVIOUS
  <2> QED
    BY <2>1, <2>2 DEF LinkTypeOK
<1>2. Idle \in Call
  BY DEF Idle, Call
<1>3. HookTypeOK
  BY <1>2 DEF HookTypeOK
<1>4. \A t \in Threads : call[t].at = "run" /\ call[t].addr = Null
  BY DEF Idle
<1>5. ObufWritten /\ CallsOwn
  BY <1>4 DEF ObufWritten, CallsOwn
<1>6. TablesOwn
  BY DEF TablesOwn
<1> QED
  BY <1>1, <1>3, <1>5, <1>6 DEF HookInv

LEMMA RequestType ==
    ASSUME NEW r \in Request
    PROVE  /\ r[1] \in Class \cup {Other} /\ r[2] \in Nat
           /\ r = <<r[1], r[2]>>
           /\ r[1] \in Class => r[2] \in ClassSize[r[1]]
<1>1. CASE r \in {q \in Class \X UNION {ClassSize[c] : c \in Class} : q[2] \in ClassSize[q[1]]}
  <2>1. r \in Class \X UNION {ClassSize[c] : c \in Class} /\ r[2] \in ClassSize[r[1]]
    BY <1>1
  <2> QED
    BY <2>1, SizeAssumption
<1>2. CASE r = <<Other, 0>>
  BY <1>2, OtherAssumption
<1> QED
  BY <1>1, <1>2 DEF Request

\* The epilogue of malloc() and realloc() for a thread: its call is over, or it
\* has a message to write.
LEMMA Epilogue ==
    ASSUME HookTypeOK, NEW t \in Threads, NEW a \in Addr \cup {Null},
           NEW c \in Class \cup {Other}, NEW s \in Nat, PostprocessMalloc(t, a, c, s)
    PROVE  /\ obuf' \in Msg \cup {NoMsg}
           /\ call' \in [Threads -> Call]
           /\ \A u \in Threads : u # t => call'[u] = call[u]
           /\ \/ /\ call'[t] = Idle
                 /\ obuf' = obuf
              \/ /\ c \in Class
                 /\ call'[t].at = "write_m" /\ call'[t].addr = a
                 /\ call'[t].size = s /\ call'[t].class = c
                 /\ obuf' = MMsg(a, s, c) /\ obuf' \in Msg
<1>1. CASE c \in Class
  <2>1. MMsg(a, s, c) \in Msg
    BY <1>1 DEF MMsg, Msg, MallocMsg
  <2>2. [at |-> "write_m", fn |-> "malloc", addr |-> a, size |-> s, class |-> c] \in Call
    BY <1>1 DEF Call
  <2> QED
    BY <1>1, <2>1, <2>2 DEF PostprocessMalloc, HookTypeOK
<1>2. CASE c \notin Class
  <2>1. Idle \in Call
    BY DEF Idle, Call
  <2> QED
    BY <1>2, <2>1 DEF PostprocessMalloc, HookTypeOK
<1> QED
  BY <1>1, <1>2

\* An allocation returns the address of an object nobody else knows, and the
\* rest of the heap is unchanged; or it returns NULL.
LEMMA AllocInv ==
    ASSUME HookInv, NEW t \in Threads, NEW r \in Request,
           UNCHANGED <<mem_addrs, fifo, alive, attached>>,
           heap' \in [Addr -> Heap \cup {Free}],
           NEW a \in Addr \cup {Null}, NEW old \in Addr \cup {Null},
           PostprocessMalloc(t, a, r[1], r[2]),
           call[t].addr = old,
           a # Null => heap'[a] = Object(r[1], r[2]) /\ (heap[a] = Free \/ a = old),
           \A b \in Addr : b # a /\ b # old => heap'[b] = heap[b]
    PROVE  HookInv'
<1>1. r[1] \in Class \cup {Other} /\ r[2] \in Nat
  BY RequestType
<1>2. /\ obuf' \in Msg \cup {NoMsg}
      /\ call' \in [Threads -> Call]
      /\ \A u \in Threads : u # t => call'[u] = call[u]
      /\ \/ /\ call'[t] = Idle
            /\ obuf' = obuf
         \/ /\ r[1] \in Class
            /\ call'[t].at = "write_m" /\ call'[t].addr = a
            /\ call'[t].size = r[2] /\ call'[t].class = r[1]
            /\ obuf' = MMsg(a, r[2], r[1]) /\ obuf' \in Msg
  BY <1>1, Epilogue DEF HookInv
<1>3. LinkTypeOK' /\ HookTypeOK'
  BY <1>2 DEF HookInv, LinkTypeOK, HookTypeOK, Heap
<1>4. ObufWritten'
  <2> SUFFICES ASSUME NEW u \in Threads, call'[u].at \in {"write_m", "write_f"}
               PROVE  obuf' \in Msg
    BY DEF ObufWritten
  <2>1. CASE obuf' = obuf /\ call'[t] = Idle
    BY <2>1, <1>2 DEF Idle, HookInv, ObufWritten
  <2> QED
    BY <2>1, <1>2
<1>5. \A u \in Threads : u # t /\ call[u].addr # Null =>
          call[u].addr \in Addr /\ call[u].addr # a /\ call[u].addr # old
  BY NullAssumption DEF HookInv, HookTypeOK, Call, CallsOwn
<1>6. \A u \in Threads : u # t /\ call[u].addr # Null => heap'[call[u].addr] = heap[call[u].addr]
  BY <1>5
<1>7. a # Null => heap'[a] # Free
  BY <1>1, FreeAssumption DEF Object
<1>8. CallsOwn'
  <2>1. ASSUME NEW u \in Threads
        PROVE  /\ call'[u].at = "run" => call'[u].addr = Null
               /\ call'[u].addr # Null => heap'[call'[u].addr] # Free
               /\ call'[u].at \in {"write_m", "store"} =>
                     /\ call'[u].class \in Class
                     /\ call'[u].addr # Null =>
                           heap'[call'[u].addr] = Object(call'[u].class, call'[u].size)
               /\ call'[u].at = "write_f" => call'[u].addr # Null
               /\ call'[u].at = "orig" /\ call'[u].fn = "free" => call'[u].addr # Null
    <3>1. CASE u = t
      BY <3>1, <1>2, <1>7 DEF Idle
    <3>2. CASE u # t
      BY <3>2, <1>2, <1>6 DEF HookInv, CallsOwn
    <3> QED
      BY <3>1, <3>2
  <2>2. ASSUME NEW u \in Threads, NEW w \in Threads,
               call'[u].addr = call'[w].addr, call'[u].addr # Null
        PROVE  u = w
    BY <2>2, <1>2, <1>5 DEF Idle, HookInv, CallsOwn
  <2> QED
    BY <2>1, <2>2 DEF CallsOwn
<1>9. TablesOwn'
  <2> SUFFICES ASSUME NEW c \in Class, NEW b \in mem_addrs[c]
               PROVE  /\ heap'[b] # Free /\ heap'[b].class = c
                      /\ \A u \in Threads : call'[u].addr # b
    BY DEF TablesOwn
  <2>1. b \in Addr /\ heap[b] # Free /\ heap[b].class = c /\ \A u \in Threads : call[u].addr # b
    BY DEF HookInv, HookTypeOK, TablesOwn
  <2>2. b # a /\ b # old
    BY <2>1, NullAssumption
  <2>3. \A u \in Threads : call'[u].addr \in {Null, a, call[u].addr}
    BY <1>2 DEF Idle
  <2> QED
    BY <2>1, <2>2, <2>3, NullAssumption
<1> QED
  BY <1>3, <1>4, <1>8, <1>9 DEF HookInv

\* malloc(): a fresh object, a failure, or a request nobody watches.
LEMMA MallocInv ==
    ASSUME HookInv, NEW t \in Threads, Malloc(t)
    PROVE  HookInv'
<1>1. /\ call[t].addr = Null
      /\ UNCHANGED <<mem_addrs, fifo, alive, attached>>
  BY DEF Malloc, HookInv, CallsOwn, linkVars
<1>2. PICK r \in Request :
          \/ \E a \in Addr :
                /\ heap[a] = Free
                /\ heap' = [heap EXCEPT ![a] = Object(r[1], r[2])]
                /\ PostprocessMalloc(t, a, r[1], r[2])
          \/ /\ PostprocessMalloc(t, Null, r[1], r[2])
             /\ UNCHANGED heap
  BY DEF Malloc
<1>3. heap \in [Addr -> Heap \cup {Free}]
  BY DEF HookInv, HookTypeOK, Heap
<1>4. ASSUME NEW a \in Addr, heap[a] = Free,
             heap' = [heap EXCEPT ![a] = Object(r[1], r[2])],
             PostprocessMalloc(t, a, r[1], r[2])
      PROVE  HookInv'
  <2>1. heap' \in [Addr -> Heap \cup {Free}]
    BY <1>3, <1>4, RequestType DEF Object, Heap
  <2>2. heap'[a] = Object(r[1], r[2]) /\ \A b \in Addr : b # a => heap'[b] = heap[b]
    BY <1>3, <1>4
  <2> QED
    BY <1>1, <1>4, <2>1, <2>2, AllocInv
<1>5. ASSUME PostprocessMalloc(t, Null, r[1], r[2]), UNCHANGED heap
      PROVE  HookInv'
  BY <1>1, <1>3, <1>5, AllocInv
<1> QED
  BY <1>2, <1>4, <1>5

\* realloc(): the object stays, moves, or is left alone when there is no memory.
LEMMA OrigReallocInv ==
    ASSUME HookInv, NEW t \in Threads, OrigRealloc(t)
    PROVE  HookInv'
<1> DEFINE old == call[t].addr
<1>1. /\ old \in Addr \cup {Null}
      /\ UNCHANGED <<mem_addrs, fifo, alive, attached>>
      /\ heap \in [Addr -> Heap \cup {Free}]
  BY DEF OrigRealloc, HookInv, HookTypeOK, Call, linkVars, Heap
<1>2. PICK r \in Request :
              \/ /\ old # Null
                 /\ heap' = [heap EXCEPT ![old] = Object(r[1], r[2])]
                 /\ PostprocessMalloc(t, old, r[1], r[2])
              \/ \E a \in Addr :
                    /\ heap[a] = Free
                    /\ heap' = [x \in Addr |-> CASE x = a -> Object(r[1], r[2])
                                                 [] x = old -> Free
                                                 [] OTHER -> heap[x]]
                    /\ PostprocessMalloc(t, a, r[1], r[2])
              \/ /\ UNCHANGED heap
                 /\ PostprocessMalloc(t, Null, r[1], r[2])
  BY DEF OrigRealloc
<1>3. Object(r[1], r[2]) \in Heap
  BY RequestType DEF Object, Heap
<1>4. ASSUME old # Null, heap' = [heap EXCEPT ![old] = Object(r[1], r[2])],
             PostprocessMalloc(t, old, r[1], r[2])
      PROVE  HookInv'
  <2>1. heap' \in [Addr -> Heap \cup {Free}]
    BY <1>1, <1>3, <1>4
  <2>2. heap'[old] = Object(r[1], r[2]) /\ \A b \in Addr : b # old => heap'[b] = heap[b]
    BY <1>1, <1>4
  <2> QED
    BY <1>1, <1>4, <2>1, <2>2, AllocInv
<1>5. ASSUME NEW a \in Addr, heap[a] = Free,
             heap' = [x \in Addr |-> CASE x = a -> Object(r[1], r[2])
                                          [] x = old -> Free
                                          [] OTHER -> heap[x]],
             PostprocessMalloc(t, a, r[1], r[2])
      PROVE  HookInv'
  <2>1. heap' \in [Addr -> Heap \cup {Free}]
    BY <1>1, <1>3, <1>5
  <2>2. /\ heap'[a] = Object(r[1], r[2])
        /\ \A b \in Addr : b # a /\ b # old => heap'[b] = heap[b]
    <3>1. a # old
      BY <1>5, NullAssumption DEF HookInv, CallsOwn
    <3> QED
      BY <3>1, <1>1, <1>5
  <2> QED
    BY <1>1, <1>5, <2>1, <2>2, AllocInv
<1>6. ASSUME UNCHANGED heap, PostprocessMalloc(t, Null, r[1], r[2])
      PROVE  HookInv'
  BY <1>1, <1>6, AllocInv
<1> QED
  BY <1>2, <1>4, <1>5, <1>6

\* The prologue of free() and realloc(): an address of a table leaves it.
LEMMA PrologueInv ==
    ASSUME HookInv, NEW t \in Threads, FreeCall(t) \/ ReallocCall(t)
    PROVE  HookInv'
<1>1. UNCHANGED <<heap, fifo, alive, attached>>
  BY DEF FreeCall, ReallocCall, linkVars
<1>2. PICK a \in Addr \cup {Null}, fn \in {"free", "realloc"} :
          /\ a # Null => Usable(a)
          /\ fn = "free" => a # Null
          /\ PreprocessFree(t, a, fn)
  BY NullAssumption DEF FreeCall, ReallocCall
<1> DEFINE At(pc) == [at |-> pc, fn |-> fn, addr |-> a, size |-> 0, class |-> Other]
<1>3. \E pc \in {"write_f", "orig"} :
          /\ call' = [call EXCEPT ![t] = At(pc)]
          /\ pc = "write_f" => obuf' = FMsg(a) /\ a \in Addr
          /\ pc = "orig" => obuf' = obuf
  <2>1. CASE \E c \in Class : a \in mem_addrs[c] /\ obuf' = FMsg(a) /\ call' = [call EXCEPT ![t] = At("write_f")]
    BY <2>1 DEF HookInv, HookTypeOK
  <2>2. CASE call' = [call EXCEPT ![t] = At("orig")] /\ UNCHANGED obuf
    BY <2>2
  <2> QED
    BY <1>2, <2>1, <2>2 DEF PreprocessFree
<1>4. PICK pc \in {"write_f", "orig"} :
          /\ call' = [call EXCEPT ![t] = At(pc)]
          /\ pc = "write_f" => obuf' = FMsg(a) /\ a \in Addr
          /\ pc = "orig" => obuf' = obuf
  BY <1>3
<1>5. /\ mem_addrs' \in [Class -> SUBSET Addr]
      /\ \A c \in Class : mem_addrs'[c] \subseteq mem_addrs[c] /\ a \notin mem_addrs'[c]
  <2>1. mem_addrs \in [Class -> SUBSET Addr]
    BY DEF HookInv, HookTypeOK
  <2>2. ASSUME NEW d \in Class, a \in mem_addrs[d],
               mem_addrs' = [mem_addrs EXCEPT ![d] = @ \ {a}]
        PROVE  <1>5!1 /\ <1>5!2
    <3>1. \A c \in Class : c # d => a \notin mem_addrs[c]
      BY <2>2 DEF HookInv, TablesOwn
    <3>2. \A c \in Class : mem_addrs'[c] = IF c = d THEN mem_addrs[c] \ {a} ELSE mem_addrs[c]
      BY <2>1, <2>2
    <3>3. mem_addrs' \in [Class -> SUBSET Addr]
      BY <2>1, <2>2
    <3> QED
      BY <3>1, <3>2, <3>3
  <2>3. CASE UNCHANGED mem_addrs /\ \A c \in Class : a \notin mem_addrs[c]
    BY <2>1, <2>3
  <2> QED
    BY <1>2, <2>2, <2>3 DEF PreprocessFree
<1>7. At(pc) \in Call
  BY DEF Call
<1>8. /\ call' \in [Threads -> Call]
      /\ call'[t] = At(pc)
      /\ \A u \in Threads : u # t => call'[u] = call[u]
  BY <1>4, <1>7 DEF HookInv, HookTypeOK
<1>9. pc = "write_f" => obuf' \in Msg /\ a # Null
  BY <1>4, NullAssumption DEF FMsg, Msg, FreeMsg
<1>10. LinkTypeOK' /\ HookTypeOK'
  BY <1>1, <1>4, <1>5, <1>8, <1>9 DEF HookInv, LinkTypeOK, HookTypeOK
<1>11. ObufWritten'
  BY <1>4, <1>8, <1>9 DEF ObufWritten, HookInv
<1>12. a # Null => heap[a] # Free /\ \A u \in Threads : call[u].addr # a
  BY <1>2 DEF Usable
<1>13. CallsOwn'
  BY <1>1, <1>2, <1>8, <1>9, <1>12 DEF CallsOwn, HookInv
<1>14. TablesOwn'
  <2> SUFFICES ASSUME NEW c \in Class, NEW b \in mem_addrs'[c]
               PROVE  /\ heap[b] # Free /\ heap[b].class = c
                      /\ \A u \in Threads : call'[u].addr # b
    BY <1>1 DEF TablesOwn
  <2>1. b \in mem_addrs[c] /\ b # a
    BY <1>5
  <2> QED
    BY <2>1, <1>8 DEF TablesOwn, HookInv
<1> QED
  BY <1>10, <1>11, <1>13, <1>14 DEF HookInv

\* write(), done or failed, moves the call on and touches no object.
LEMMA WriteInv ==
    ASSUME HookInv, NEW t \in Threads,
           \/ WriteMalloc(t) \/ WriteMallocFails(t)
           \/ WriteFree(t) \/ WriteFreeFails(t)
    PROVE  HookInv'
<1>1. UNCHANGED <<heap, mem_addrs, obuf, alive, attached>>
  BY DEF WriteMalloc, WriteMallocFails, WriteFree, WriteFreeFails, linkVars
<1>2. obuf \in Msg /\ fifo \in Seq(Msg \cup {Cut, Nul})
  BY DEF WriteMalloc, WriteMallocFails, WriteFree, WriteFreeFails, HookInv, ObufWritten,
         LinkTypeOK
<1>3. fifo' \in Seq(Msg \cup {Cut, Nul})
  <2> DEFINE S == Msg \cup {Cut, Nul}
  <2>1. obuf \in S /\ Cut \in S /\ Nul \in S /\ fifo \in Seq(S)
    BY <1>2
  <2>2. \A op \in {"m", "f"} : Written(op) \in {<<obuf>>, <<Cut>>, <<obuf, Nul>>}
    BY DEF Written
  <2>3. fifo' = fifo \/ \E op \in {"m", "f"} : fifo' = fifo \o Written(op)
    BY DEF WriteMalloc, WriteMallocFails, WriteFree, WriteFreeFails, linkVars
  <2> HIDE DEF S
  <2>4. \A w \in {<<obuf>>, <<Cut>>, <<obuf, Nul>>} : fifo \o w \in Seq(S)
    <3>1. <<obuf>> \in Seq(S) /\ <<Cut>> \in Seq(S)
      BY <2>1
    <3>2. <<obuf, Nul>> \in Seq(S)
      BY <2>1
    <3>3. \A w \in Seq(S) : fifo \o w \in Seq(S)
      BY <2>1
    <3> QED
      BY <3>1, <3>2, <3>3
  <2>5. fifo' \in Seq(S)
    BY <2>1, <2>2, <2>3, <2>4
  <2> QED
    BY <2>5 DEF S
<1>4. call \in [Threads -> Call] /\ Idle \in Call
  BY DEF HookInv, HookTypeOK, Idle, Call
<1>5. \/ call' = [call EXCEPT ![t] = Idle]
      \/ call[t].at = "write_m" /\ call' = [call EXCEPT ![t].at = "store"]
      \/ call[t].at = "write_f" /\ call' = [call EXCEPT ![t].at = "orig"]
  BY DEF WriteMalloc, WriteMallocFails, WriteFree, WriteFreeFails
<1>6. /\ call' \in [Threads -> Call]
      /\ \A u \in Threads : u # t => call'[u] = call[u]
      /\ \/ call'[t] = Idle
         \/ /\ call[t].at = "write_m" /\ call'[t].at = "store"
            /\ call'[t].addr = call[t].addr /\ call'[t].class = call[t].class
            /\ call'[t].size = call[t].size
         \/ /\ call[t].at = "write_f" /\ call'[t].at = "orig"
            /\ call'[t].addr = call[t].addr
  BY <1>4, <1>5 DEF Call
<1>7. LinkTypeOK' /\ HookTypeOK'
  BY <1>1, <1>3, <1>6 DEF HookInv, LinkTypeOK, HookTypeOK
<1>8. ObufWritten'
  BY <1>1, <1>2 DEF ObufWritten
<1>9. \A u \in Threads : call'[u].addr \in {call[u].addr, Null}
  BY <1>6 DEF Idle
<1>10. CallsOwn'
  BY <1>1, <1>6, <1>9 DEF CallsOwn, HookInv, Idle
<1>11. TablesOwn'
  <2>1. \A c \in Class : Null \notin mem_addrs[c]
    BY NullAssumption DEF HookInv, HookTypeOK
  <2> QED
    BY <1>1, <1>9, <2>1 DEF TablesOwn, HookInv
<1> QED
  BY <1>7, <1>8, <1>10, <1>11 DEF HookInv

\* store_mem_addr(): the object enters the table of its own class.
LEMMA StoreMemAddrInv ==
    ASSUME HookInv, NEW t \in Threads, StoreMemAddr(t)
    PROVE  HookInv'
<1> DEFINE a == call[t].addr
           d == call[t].class
<1>1. /\ UNCHANGED <<heap, obuf, fifo, alive, attached>>
      /\ mem_addrs' = [mem_addrs EXCEPT ![d] = @ \cup ({a} \ {Null})]
      /\ call' = [call EXCEPT ![t] = Idle]
  BY DEF StoreMemAddr, linkVars
<1>2. call \in [Threads -> Call] /\ Idle \in Call /\ mem_addrs \in [Class -> SUBSET Addr]
  BY DEF HookInv, HookTypeOK, Idle, Call
<1>3. a \in Addr \cup {Null} /\ d \in Class /\ (a # Null => heap[a] = Object(d, call[t].size))
  BY <1>2 DEF Call, HookInv, CallsOwn, StoreMemAddr
<1>4. /\ call' \in [Threads -> Call]
      /\ call'[t] = Idle
      /\ \A u \in Threads : u # t => call'[u] = call[u]
  BY <1>1, <1>2
<1>5. mem_addrs' \in [Class -> SUBSET Addr]
  BY <1>1, <1>2, <1>3
<1>6. LinkTypeOK' /\ HookTypeOK'
  BY <1>1, <1>4, <1>5 DEF HookInv, LinkTypeOK, HookTypeOK
<1>7. ObufWritten'
  BY <1>1, <1>4 DEF ObufWritten, HookInv, Idle
<1>8. CallsOwn'
  BY <1>1, <1>4 DEF CallsOwn, HookInv, Idle
<1>9. TablesOwn'
  <2> SUFFICES ASSUME NEW c \in Class, NEW b \in mem_addrs'[c]
               PROVE  /\ heap[b] # Free /\ heap[b].class = c
                      /\ \A u \in Threads : call'[u].addr # b
    BY <1>1 DEF TablesOwn
  <2>0. b \in Addr /\ b # Null
    BY <1>5, NullAssumption
  <2>1. CASE b \in mem_addrs[c]
    BY <2>0, <2>1, <1>4 DEF TablesOwn, HookInv, Idle
  <2>2. CASE b \notin mem_addrs[c]
    <3>1. c = d /\ b = a /\ a # Null
      BY <2>2, <1>1, <1>2, <1>3
    <3>2. heap[b] # Free /\ heap[b].class = c
      BY <3>1, <1>3 DEF HookInv, CallsOwn, Object
    <3>3. \A u \in Threads : u # t => call[u].addr # b
      BY <3>1 DEF HookInv, CallsOwn
    <3> QED
      BY <3>2, <3>3, <2>0, <1>4 DEF Idle
  <2> QED
    BY <2>1, <2>2
<1> QED
  BY <1>6, <1>7, <1>8, <1>9 DEF HookInv

\* The original free(): the object is gone, and no table has its address.
LEMMA OrigFreeInv ==
    ASSUME HookInv, NEW t \in Threads, OrigFree(t)
    PROVE  HookInv'
<1> DEFINE a == call[t].addr
<1>1. /\ UNCHANGED <<mem_addrs, obuf, fifo, alive, attached>>
      /\ heap' = [heap EXCEPT ![a] = Free]
      /\ call' = [call EXCEPT ![t] = Idle]
  BY DEF OrigFree, linkVars
<1>2. call \in [Threads -> Call] /\ Idle \in Call
  BY DEF HookInv, HookTypeOK, Idle, Call
<1>3. /\ call' \in [Threads -> Call]
      /\ call'[t] = Idle
      /\ \A u \in Threads : u # t => call'[u] = call[u]
  BY <1>1, <1>2
<1>4. a \in Addr /\ \A b \in Addr : b # a => heap'[b] = heap[b]
  BY <1>1, <1>2 DEF Call, OrigFree, HookInv, CallsOwn, HookTypeOK
<1>5. LinkTypeOK' /\ HookTypeOK'
  BY <1>1, <1>3 DEF HookInv, LinkTypeOK, HookTypeOK
<1>6. ObufWritten'
  BY <1>1, <1>3 DEF ObufWritten, HookInv, Idle
<1>7. \A u \in Threads : call'[u].addr # Null =>
          call'[u].addr \in Addr /\ call'[u].addr # a /\ u # t
  BY <1>2, <1>3, <1>4, NullAssumption DEF Idle, Call, HookInv, CallsOwn
<1>8. CallsOwn'
  BY <1>3, <1>4, <1>7 DEF CallsOwn, HookInv, Idle
<1>9. TablesOwn'
  <2> SUFFICES ASSUME NEW c \in Class, NEW b \in mem_addrs[c]
               PROVE  /\ heap'[b] # Free /\ heap'[b].class = c
                      /\ \A u \in Threads : call'[u].addr # b
    BY <1>1 DEF TablesOwn
  <2>1. b \in Addr /\ b # Null /\ b # a
    BY <1>4, NullAssumption DEF HookInv, HookTypeOK, TablesOwn
  <2> QED
    BY <2>1, <1>3, <1>4 DEF TablesOwn, HookInv, Idle
<1> QED
  BY <1>5, <1>6, <1>8, <1>9 DEF HookInv

\* No step of a hook, of whatever thread, breaks the tables.
LEMMA HookStepInv ==
    ASSUME HookInv, NEW t \in Threads, HookStep(t)
    PROVE  HookInv'
  BY MallocInv, WriteInv, StoreMemAddrInv, PrologueInv, OrigFreeInv, OrigReallocInv DEF HookStep

-----------------------------------------------------------------------------
(***************************************************************************)
(* The trainer.  Whatever the FIFO brings, the values of an entry stay     *)
(* aligned with the objects they were read from.                           *)
(***************************************************************************)
\* Sizes and addresses of a class are vectors of the same length.
SameLength == \A c \in Class : Len(v_msize[c]) = Len(v_maddr[c])

TrainerInv == LinkTypeOK /\ TrainerTypeOK /\ SameLength /\ Aligned /\ FreedCounted

Marked(c) == DOMAIN v_maddr[c] \ LiveIdx(c)

-----------------------------------------------------------------------------
LEMMA CountIndices ==
    ASSUME NEW S, NEW s \in Seq(S), NEW K, K \subseteq DOMAIN s
    PROVE  IsFiniteSet(K) /\ Cardinality(K) \in Nat
<1>1. Len(s) \in Nat /\ K \subseteq 1..Len(s)
  OBVIOUS
<1> QED
  BY <1>1, RankRange

\* Changing an element changes neither the type of a vector nor its length.
LEMMA ChangeElement ==
    ASSUME NEW S, NEW s \in Seq(S), NEW i, NEW x \in S, NEW f, f = [s EXCEPT ![i] = x]
    PROVE  f \in Seq(S) /\ DOMAIN f = DOMAIN s /\ Len(f) = Len(s)
<1>1. DOMAIN f = 1..Len(s) /\ Len(s) \in Nat
  OBVIOUS
<1>2. \A k \in 1..Len(s) : f[k] \in S
  OBVIOUS
<1>3. f \in [1..Len(s) -> S]
  <2>1. f = [k \in 1..Len(s) |-> f[k]]
    BY <1>1
  <2> QED
    BY <1>2, <2>1
<1>4. f \in Seq(S)
  BY ONLY <1>1, <1>3
<1>5. Len(f) = Len(s)
  BY ONLY <1>1, <1>4
<1>6. DOMAIN s = 1..Len(s)
  OBVIOUS
<1> QED
  BY <1>1, <1>4, <1>5, <1>6

\* Appending keeps what is there.
LEMMA ConcatKeeps ==
    ASSUME NEW S, NEW s \in Seq(S), NEW t \in Seq(S)
    PROVE  /\ s \o t \in Seq(S)
           /\ Len(s \o t) = Len(s) + Len(t)
           /\ Len(s) <= Len(s \o t)
           /\ DOMAIN s \subseteq DOMAIN (s \o t)
           /\ \A k \in DOMAIN s : (s \o t)[k] = s[k]
           /\ \A k \in DOMAIN (s \o t) : k \notin DOMAIN s =>
                 k - Len(s) \in DOMAIN t /\ (s \o t)[k] = t[k - Len(s)]
  OBVIOUS

LEMMA TrainerInitInv == LinkInit /\ TrainerInit => TrainerInv
<1> SUFFICES ASSUME LinkInit, TrainerInit PROVE TrainerInv
  OBVIOUS
<1>1. LinkTypeOK
  <2>1. fifo \in Seq(Msg \cup {Cut, Nul})
    BY DEF LinkInit
  <2>2. alive \in BOOLEAN /\ attached \in BOOLEAN
    BY DEF LinkInit
  <2> QED
    BY <2>1, <2>2 DEF LinkTypeOK
<1>2. TrainerTypeOK
  BY EntryAssumption DEF TrainerInit, TrainerTypeOK, Phase
<1>3. \A c \in Class : v_maddr[c] = <<>> /\ v_msize[c] = <<>> /\ num_freed[c] = 0
  BY DEF TrainerInit
<1>4. \A e \in DynEntry : v_oldval[e] = <<>> /\ EntryClass[e] \in Class
  BY DEF TrainerInit, DynEntry
<1>5. SameLength
  BY <1>3 DEF SameLength
<1>6. Aligned
  BY <1>3, <1>4 DEF Aligned
<1>7. FreedCounted
  <2> SUFFICES ASSUME NEW c \in Class
               PROVE  num_freed[c] <= Cardinality(DOMAIN v_maddr[c] \ LiveIdx(c))
    BY DEF FreedCounted
  <2>1. v_maddr[c] \in Seq(Addr \cup {Null})
    BY <1>2 DEF TrainerTypeOK
  <2>2. Cardinality(DOMAIN v_maddr[c] \ LiveIdx(c)) \in Nat
    BY <2>1, CountIndices
  <2> QED
    BY <2>2, <1>3
<1> QED
  BY <1>1, <1>2, <1>5, <1>6, <1>7 DEF TrainerInv

\* Marking more objects never makes the counter too large.
LEMMA MoreMarked ==
    ASSUME TrainerInv, v_maddr' \in [Class -> Seq(Addr \cup {Null})],
           UNCHANGED num_freed, \A c \in Class : Marked(c) \subseteq Marked(c)'
    PROVE  FreedCounted'
<1> SUFFICES ASSUME NEW c \in Class
             PROVE  num_freed[c] <= Cardinality(Marked(c)')
  BY DEF FreedCounted, Marked
<1>1. IsFiniteSet(Marked(c)') /\ Cardinality(Marked(c)') \in Nat
  <2>1. v_maddr'[c] \in Seq(Addr \cup {Null}) /\ Marked(c)' \subseteq DOMAIN v_maddr'[c]
    BY DEF Marked
  <2> QED
    BY <2>1, CountIndices
<1>2. Cardinality(Marked(c)) \in Nat
  <2>1. v_maddr[c] \in Seq(Addr \cup {Null}) /\ Marked(c) \subseteq DOMAIN v_maddr[c]
    BY DEF Marked, TrainerInv, TrainerTypeOK
  <2> QED
    BY <2>1, CountIndices
<1>3. Cardinality(Marked(c)) <= Cardinality(Marked(c)')
  BY <1>1, FS_Subset
<1>4. num_freed[c] <= Cardinality(Marked(c))
  BY DEF TrainerInv, FreedCounted, Marked
<1>5. num_freed[c] \in Nat
  BY DEF TrainerInv, TrainerTypeOK
<1> QED
  BY <1>1, <1>2, <1>3, <1>4, <1>5

\* Steps that change no vector of objects or values.
LEMMA VectorsUnchanged ==
    ASSUME TrainerInv, LinkTypeOK', TrainerTypeOK',
           UNCHANGED <<v_maddr, v_msize, num_freed, v_oldval>>,
           phase' = "alloc" => phase = "alloc", phase # "alloc"
    PROVE  TrainerInv'
<1>1. SameLength' /\ Aligned'
  BY DEF TrainerInv, SameLength, Aligned
<1>2. FreedCounted'
  BY DEF TrainerInv, FreedCounted, LiveIdx
<1> QED
  BY <1>1, <1>2 DEF TrainerInv

\* The steps of the main loop around the work on the vectors.
LEMMA ControlInv ==
    ASSUME TrainerInv,
           \/ Wake \/ ReadDone \/ ReadParseError \/ CheckProcess \/ Memattach
           \/ ProcessSkip \/ ProcessDone \/ Memdetach
    PROVE  TrainerInv'
<1>1. /\ UNCHANGED <<mq, v_maddr, v_msize, num_freed, v_oldval>>
      /\ phase # "alloc"
      /\ phase' \in Phase /\ phase' # "alloc"
  BY DEF Wake, ReadDone, ReadParseError, CheckProcess, Memattach, ProcessSkip, ProcessDone,
         Memdetach, AfterRead, Phase
<1>2. LinkTypeOK'
  <2>1. fifo' \in Seq(Msg \cup {Cut, Nul})
    <3> DEFINE S == Msg \cup {Cut, Nul}
    <3>1. fifo \in Seq(S)
      BY DEF TrainerInv, LinkTypeOK
    <3>2. fifo' = fifo \/ \E n \in 2..Len(fifo) : fifo' = SubSeq(fifo, n + 1, Len(fifo))
      BY DEF Wake, ReadDone, ReadParseError, CheckProcess, Memattach, ProcessSkip,
             ProcessDone, Memdetach, linkVars
    <3> HIDE DEF S
    <3>3. ASSUME NEW n \in 2..Len(fifo), fifo' = SubSeq(fifo, n + 1, Len(fifo))
          PROVE  fifo' \in Seq(S)
      <4>1. \A i \in (n + 1)..Len(fifo) : fifo[i] \in S
        BY <3>1
      <4> QED
        BY <4>1, <3>1, <3>3, SubSeqProperties
    <3>4. fifo' \in Seq(S)
      BY <3>1, <3>2, <3>3
    <3> QED
      BY <3>4 DEF S
  <2>2. alive' = alive /\ attached' \in {TRUE, FALSE, attached}
    BY DEF Wake, ReadDone, ReadParseError, CheckProcess, Memattach, ProcessSkip,
             ProcessDone, Memdetach, linkVars
  <2> QED
    BY <2>1, <2>2 DEF LinkTypeOK, TrainerInv
<1>3. cfg_act' \in Seq(Entry)
  <2>1. cfg_act \in Seq(Entry)
    BY DEF TrainerInv, TrainerTypeOK
  <2>2. ASSUME NEW key \in Keys, ToggleCfg(key)
        PROVE  cfg_act' \in Seq(Entry)
    <3> DEFINE old == {k \in DOMAIN cfg_act : cfg_act[k] \notin {key[j] : j \in DOMAIN key}}
               new == {j \in DOMAIN key : key[j] \notin {cfg_act[k] : k \in DOMAIN cfg_act}}
    <3>1. key \in Seq(Entry)
      BY <2>2, EntryAssumption
    <3>2. Keep(cfg_act, old) \in Seq(Entry) /\ Keep(key, new) \in Seq(Entry)
      BY <2>1, <3>1, KeepType
    <3>3. cfg_act' = Keep(cfg_act, old) \o Keep(key, new)
      BY <2>2 DEF ToggleCfg
    <3> QED
      BY <3>2, <3>3
  <2>4. CASE UNCHANGED cfg_act
    BY <2>1, <2>4
  <2> QED
    BY <2>2, <2>4 DEF Wake, ReadDone, ReadParseError, CheckProcess, Memattach,
             ProcessSkip, ProcessDone, Memdetach
<1>4. pos' \in Nat \X Nat
  BY DEF Wake, ReadDone, ReadParseError, CheckProcess, Memattach, ProcessSkip, ProcessDone,
         Memdetach, TrainerInv, TrainerTypeOK
<1>5. TrainerTypeOK'
  BY <1>1, <1>3, <1>4 DEF TrainerInv, TrainerTypeOK
<1> QED
  BY <1>1, <1>2, <1>5, VectorsUnchanged

\* queue_dynmem_addr() and clear_dynmem_addr().
LEMMA ReadDynmemFifoInv ==
    ASSUME TrainerInv, ReadDynmemFifo
    PROVE  TrainerInv'
<1>0. /\ fifo # <<>> /\ fifo' = Tail(fifo)
      /\ phase \in {"read1", "read2"}
      /\ UNCHANGED <<alive, attached, phase, cfg_act, v_oldval, pos>>
  BY DEF ReadDynmemFifo
<1>1. LinkTypeOK'
  <2> DEFINE S == Msg \cup {Cut, Nul}
  <2>1. fifo \in Seq(S)
    BY DEF TrainerInv, LinkTypeOK
  <2> HIDE DEF S
  <2>2. fifo' \in Seq(S)
    BY <2>1, <1>0
  <2> QED
    BY <2>2, <1>0 DEF S, LinkTypeOK, TrainerInv
<1>2. Head(fifo) \in Msg \cup {Cut, Nul}
  <2> DEFINE S == Msg \cup {Cut, Nul}
  <2>1. fifo \in Seq(S)
    BY DEF TrainerInv, LinkTypeOK
  <2> HIDE DEF S
  <2>2. Head(fifo) \in S
    BY <2>1, <1>0
  <2> QED
    BY <2>2 DEF S
<1>3. Cut.op = "cut" /\ Nul.op = "nul"
  BY DEF Cut, Nul
<1>4. mq \in Seq(MallocMsg) /\ v_maddr \in [Class -> Seq(Addr \cup {Null})]
      /\ v_msize \in [Class -> Seq(Nat)] /\ num_freed \in [Class -> Nat]
  BY DEF TrainerInv, TrainerTypeOK
<1>5. CASE Head(fifo).op = "m" /\ QueueDynmemAddr(Head(fifo))
  <2>1. Head(fifo) \in MallocMsg
    BY <1>2, <1>3, <1>5 DEF Msg, FreeMsg
  <2>2. mq' \in Seq(MallocMsg) /\ UNCHANGED <<v_maddr, v_msize, num_freed>>
    BY <2>1, <1>4, <1>5 DEF QueueDynmemAddr
  <2>3. TrainerTypeOK'
    BY <2>2, <1>0 DEF TrainerInv, TrainerTypeOK
  <2> QED
    BY <2>2, <2>3, <1>0, <1>1, VectorsUnchanged
<1>6. CASE Head(fifo).op = "f" /\ ClearDynmemAddr(Head(fifo).addr)
  <2> DEFINE a == Head(fifo).addr
  <2>1. a \in Addr
    BY <1>2, <1>3, <1>6 DEF Msg, FreeMsg, MallocMsg
  <2>2. CASE RemoveMallocFromQueue(a) /\ UNCHANGED <<v_maddr, v_msize, num_freed>>
    <3>1. \E K : K \subseteq DOMAIN mq /\ mq' = Keep(mq, K)
      BY <2>2 DEF RemoveMallocFromQueue
    <3>2. mq' \in Seq(MallocMsg)
      BY <3>1, <1>4, KeepType
    <3>3. TrainerTypeOK'
      BY <2>2, <3>2, <1>0 DEF TrainerInv, TrainerTypeOK
    <3> QED
      BY <2>2, <3>3, <1>0, <1>1, VectorsUnchanged
  <2>3. CASE UNCHANGED <<mq, v_maddr, v_msize, num_freed>>
    <3>1. TrainerTypeOK'
      BY <2>3, <1>0 DEF TrainerInv, TrainerTypeOK
    <3> QED
      BY <2>3, <3>1, <1>0, <1>1, VectorsUnchanged
  <2>4. ASSUME NEW c \in Class, NEW i \in DOMAIN v_maddr[c], v_maddr[c][i] = a,
               v_maddr' = [v_maddr EXCEPT ![c][i] = Null],
               v_msize' = [v_msize EXCEPT ![c][i] = 0],
               num_freed' = [num_freed EXCEPT ![c] = @ + 1],
               UNCHANGED mq
        PROVE  TrainerInv'
    <3>1. /\ v_maddr' \in [Class -> Seq(Addr \cup {Null})]
          /\ v_maddr'[c] = [v_maddr[c] EXCEPT ![i] = Null]
          /\ \A d \in Class : d # c => v_maddr'[d] = v_maddr[d]
      BY <2>4, <1>4
    <3>2. /\ v_msize' \in [Class -> Seq(Nat)]
          /\ v_msize'[c] = [v_msize[c] EXCEPT ![i] = 0]
          /\ \A d \in Class : d # c => v_msize'[d] = v_msize[d]
      <4>1. i \in DOMAIN v_msize[c]
        BY <2>4, <1>4 DEF TrainerInv, SameLength
      <4>2. [v_msize[c] EXCEPT ![i] = 0] \in Seq(Nat)
        BY <4>1, <1>4
      <4> QED
        BY <4>2, <2>4, <1>4
    <3>3. /\ num_freed' \in [Class -> Nat]
          /\ num_freed'[c] = num_freed[c] + 1
          /\ \A d \in Class : d # c => num_freed'[d] = num_freed[d]
      BY <2>4, <1>4
    <3>4. TrainerTypeOK'
      BY <2>4, <3>1, <3>2, <3>3, <1>0 DEF TrainerInv, TrainerTypeOK
    <3>5. /\ Len(v_maddr'[c]) = Len(v_maddr[c]) /\ Len(v_msize'[c]) = Len(v_msize[c])
          /\ DOMAIN v_maddr'[c] = DOMAIN v_maddr[c]
          /\ v_maddr'[c][i] = Null
          /\ \A k \in DOMAIN v_maddr[c] : k # i => v_maddr'[c][k] = v_maddr[c][k]
      BY <3>1, <3>2, <1>4
    <3>6. \A d \in Class : Len(v_maddr'[d]) = Len(v_maddr[d]) /\ Len(v_msize'[d]) = Len(v_msize[d])
      BY <3>1, <3>2, <3>5
    <3>7. SameLength'
      BY <3>6 DEF TrainerInv, SameLength
    <3>8. Aligned'
      <4> SUFFICES ASSUME NEW e \in DynEntry
                   PROVE  /\ phase # "alloc" => Len(v_oldval[e]) = Len(v_maddr'[EntryClass[e]])
                          /\ Len(v_oldval[e]) <= Len(v_maddr'[EntryClass[e]])
                          /\ Len(v_maddr'[EntryClass[e]]) = Len(v_msize'[EntryClass[e]])
                          /\ \A k \in DOMAIN v_oldval[e] :
                                \/ v_oldval[e][k] = Null
                                \/ v_maddr'[EntryClass[e]][k] = Null
                                \/ v_oldval[e][k] = v_maddr'[EntryClass[e]][k]
        BY <1>0 DEF Aligned
      <4>0. EntryClass[e] \in Class
        BY DEF DynEntry
      <4>1. /\ phase # "alloc" => Len(v_oldval[e]) = Len(v_maddr'[EntryClass[e]])
            /\ Len(v_oldval[e]) <= Len(v_maddr'[EntryClass[e]])
            /\ Len(v_maddr'[EntryClass[e]]) = Len(v_msize'[EntryClass[e]])
        BY <4>0, <3>6 DEF TrainerInv, Aligned
      <4>2. ASSUME NEW k \in DOMAIN v_oldval[e]
            PROVE  \/ v_oldval[e][k] = Null
                   \/ v_maddr'[EntryClass[e]][k] = Null
                   \/ v_oldval[e][k] = v_maddr'[EntryClass[e]][k]
        <5>1. k \in DOMAIN v_maddr[EntryClass[e]]
          <6>1. v_oldval[e] \in Seq(Addr \cup {Null}) /\ v_maddr[EntryClass[e]] \in Seq(Addr \cup {Null})
            BY <4>0 DEF TrainerInv, TrainerTypeOK
          <6>2. Len(v_oldval[e]) <= Len(v_maddr[EntryClass[e]])
            BY DEF TrainerInv, Aligned
          <6> QED
            BY <6>1, <6>2
        <5>2. \/ v_oldval[e][k] = Null
              \/ v_maddr[EntryClass[e]][k] = Null
              \/ v_oldval[e][k] = v_maddr[EntryClass[e]][k]
          BY DEF TrainerInv, Aligned
        <5> QED
          BY <5>1, <5>2, <4>0, <3>1, <3>5
      <4> QED
        BY <4>1, <4>2
    <3>9. FreedCounted'
      <4> SUFFICES ASSUME NEW d \in Class
                   PROVE  num_freed'[d] <= Cardinality(Marked(d)')
        BY DEF FreedCounted, Marked
      <4>1. num_freed[d] <= Cardinality(Marked(d)) /\ num_freed[d] \in Nat
        BY <1>4 DEF TrainerInv, FreedCounted, Marked
      <4>2. IsFiniteSet(Marked(d)) /\ Cardinality(Marked(d)) \in Nat
        BY <1>4, CountIndices DEF Marked
      <4>3. CASE d # c
        <5>1. Marked(d)' = Marked(d)
          BY <4>3, <3>1 DEF Marked, LiveIdx
        <5> QED
          BY <5>1, <4>1, <4>3, <3>3
      <4>4. CASE d = c
        <5>1. Marked(c)' = Marked(c) \cup {i} /\ i \notin Marked(c)
          BY <3>5, <2>1, <2>4, NullAssumption DEF Marked, LiveIdx
        <5>2. Cardinality(Marked(c)') = Cardinality(Marked(c)) + 1
          BY <5>1, <4>2, <4>4, FS_AddElement
        <5> QED
          BY <5>2, <4>1, <4>2, <4>4, <3>3
      <4> QED
        BY <4>3, <4>4
    <3> QED
      BY <1>1, <3>4, <3>7, <3>8, <3>9 DEF TrainerInv
  <2> QED
    BY <1>6, <2>2, <2>3, <2>4 DEF ClearDynmemAddr
<1> QED
  BY <1>5, <1>6 DEF ReadDynmemFifo

\* process_dynmem_cfg_act(): a value goes into the cell of the object it was
\* read from, and a kicked object is marked.
LEMMA ProcessObjectInv ==
    ASSUME TrainerInv, ProcessObject
    PROVE  TrainerInv'
<1> DEFINE c == EntryClass[cfg_act[pos[1]]]
           i == pos[2]
<1>0. /\ phase = "process"
      /\ UNCHANGED <<linkVars, phase, cfg_act, mq, v_msize, num_freed>>
      /\ pos' = <<pos[1], pos[2] + 1>>
  BY DEF ProcessObject, Accessing
<1>1. c \in Class /\ i \in DOMAIN v_maddr[c]
  BY DEF ProcessObject, Accessing, Visits, LiveIdx
<1>2. /\ v_maddr \in [Class -> Seq(Addr \cup {Null})]
      /\ v_oldval \in [DynEntry -> Seq(Addr \cup {Null})]
      /\ v_maddr[c][i] \in Addr \cup {Null}
      /\ pos \in Nat \X Nat
  BY SMTT(30), <1>1 DEF TrainerInv, TrainerTypeOK
<1>3. PICK kick : \E reads \in SUBSET {k \in DOMAIN cfg_act : EntryClass[cfg_act[k]] = c} :
          /\ v_oldval' = [e \in DynEntry |->
                IF \E p \in reads : cfg_act[p] = e /\ (kick = 0 \/ p <= kick)
                THEN [v_oldval[e] EXCEPT ![i] = v_maddr[c][i]]
                ELSE v_oldval[e]]
          /\ v_maddr' = IF kick = 0 THEN v_maddr
                        ELSE [v_maddr EXCEPT ![c][i] = Null]
  <2> DEFINE reads == IF alive THEN InBounds(c, i) ELSE {}
  <2>1. reads \in SUBSET {k \in DOMAIN cfg_act : EntryClass[cfg_act[k]] = c}
    BY DEF InBounds
  <2>2. PICK kick \in {0} \cup {p \in reads : cfg_act[p] \in CheckO} :
          /\ v_oldval' = [e \in DynEntry |->
                IF \E p \in reads : cfg_act[p] = e /\ (kick = 0 \/ p <= kick)
                THEN [v_oldval[e] EXCEPT ![i] = v_maddr[c][i]]
                ELSE v_oldval[e]]
          /\ v_maddr' = IF kick = 0 THEN v_maddr
                        ELSE [v_maddr EXCEPT ![c][i] = Null]
    BY DEF ProcessObject
  <2> HIDE DEF reads
  <2> QED
    BY <2>1, <2>2
<1>4. /\ v_maddr' \in [Class -> Seq(Addr \cup {Null})]
      /\ \A d \in Class : DOMAIN v_maddr'[d] = DOMAIN v_maddr[d] /\ Len(v_maddr'[d]) = Len(v_maddr[d])
      /\ \A d \in Class : \A k \in DOMAIN v_maddr[d] :
            v_maddr'[d][k] = v_maddr[d][k] \/ v_maddr'[d][k] = Null
  <2>1. CASE kick = 0
    BY <2>1, <1>2, <1>3
  <2>2. CASE kick # 0
    <3>1. v_maddr' = [v_maddr EXCEPT ![c] = [v_maddr[c] EXCEPT ![i] = Null]]
      BY <2>2, <1>3
    <3>2. [v_maddr[c] EXCEPT ![i] = Null] \in Seq(Addr \cup {Null})
      BY <1>1, <1>2
    <3> QED
      BY <3>1, <3>2, <1>1, <1>2
  <2> QED
    BY <2>1, <2>2
<1>5. \A e \in DynEntry :
          \/ v_oldval'[e] = v_oldval[e]
          \/ EntryClass[e] = c /\ v_oldval'[e] = [v_oldval[e] EXCEPT ![i] = v_maddr[c][i]]
  BY <1>3
<1>6. v_oldval' \in [DynEntry -> Seq(Addr \cup {Null})]
  <2>1. ASSUME NEW e \in DynEntry
        PROVE  [v_oldval[e] EXCEPT ![i] = v_maddr[c][i]] \in Seq(Addr \cup {Null})
    <3>1. v_oldval[e] \in Seq(Addr \cup {Null})
      BY <1>2
    <3>2. v_maddr[c][i] \in Addr \cup {Null}
      BY <1>2
    <3> DEFINE S == Addr \cup {Null}
               x == v_maddr[c][i]
               cells == v_oldval[e]
    <3>3. cells \in Seq(S) /\ x \in S
      BY <3>1, <3>2
    <3> HIDE DEF S, x, cells, i, c
    <3>4. \A f : f = [cells EXCEPT ![i] = x] => f \in Seq(S)
      BY <3>3, ChangeElement
    <3>5. [cells EXCEPT ![i] = x] \in Seq(S)
      BY <3>4
    <3> QED
      BY <3>5 DEF S, x, cells
  <2>2. v_oldval' = [e \in DynEntry |-> v_oldval'[e]]
    BY <1>3
  <2> QED
    BY <2>1, <2>2, <1>2, <1>5
<1>7. LinkTypeOK' /\ TrainerTypeOK'
  BY SMTT(30), <1>0, <1>2, <1>4, <1>6 DEF TrainerInv, TrainerTypeOK, LinkTypeOK, linkVars
<1>8. SameLength'
  BY <1>0, <1>4 DEF TrainerInv, SameLength
<1>9. Aligned'
  <2> SUFFICES ASSUME NEW e \in DynEntry
               PROVE  /\ Len(v_oldval'[e]) = Len(v_maddr'[EntryClass[e]])
                      /\ Len(v_oldval'[e]) <= Len(v_maddr'[EntryClass[e]])
                      /\ Len(v_maddr'[EntryClass[e]]) = Len(v_msize[EntryClass[e]])
                      /\ \A k \in DOMAIN v_oldval'[e] :
                            \/ v_oldval'[e][k] = Null
                            \/ v_maddr'[EntryClass[e]][k] = Null
                            \/ v_oldval'[e][k] = v_maddr'[EntryClass[e]][k]
    BY <1>0 DEF Aligned
  <2> DEFINE d == EntryClass[e]
  <2>1. d \in Class
    BY DEF DynEntry
  <2>2. Len(v_oldval[e]) = Len(v_maddr[d]) /\ Len(v_maddr[d]) = Len(v_msize[d])
    BY <1>0 DEF TrainerInv, Aligned
  <2>3. v_oldval[e] \in Seq(Addr \cup {Null}) /\ v_maddr[d] \in Seq(Addr \cup {Null})
    BY <1>2, <2>1
  <2>4. DOMAIN v_oldval'[e] = DOMAIN v_oldval[e] /\ Len(v_oldval'[e]) = Len(v_oldval[e])
    <3>1. v_maddr[c][i] \in Addr \cup {Null}
      BY <1>2
    <3>2. /\ DOMAIN [v_oldval[e] EXCEPT ![i] = v_maddr[c][i]] = DOMAIN v_oldval[e]
          /\ Len([v_oldval[e] EXCEPT ![i] = v_maddr[c][i]]) = Len(v_oldval[e])
      BY <3>1, <2>3, ChangeElement
    <3> QED
      BY <3>2, <1>5
  <2>5. ASSUME NEW k \in DOMAIN v_oldval'[e]
        PROVE  \/ v_oldval'[e][k] = Null
               \/ v_maddr'[d][k] = Null
               \/ v_oldval'[e][k] = v_maddr'[d][k]
    <3>1. k \in DOMAIN v_oldval[e] /\ k \in DOMAIN v_maddr[d]
      BY <2>2, <2>3, <2>4
    <3>2. v_oldval[e][k] = Null \/ v_maddr[d][k] = Null \/ v_oldval[e][k] = v_maddr[d][k]
      BY <3>1 DEF TrainerInv, Aligned
    <3>3. v_maddr'[d][k] = v_maddr[d][k] \/ v_maddr'[d][k] = Null
      BY <1>4, <2>1, <3>1
    <3>4. v_oldval'[e][k] = v_oldval[e][k] \/ (d = c /\ k = i /\ v_oldval'[e][k] = v_maddr[c][i])
      BY <1>5, <2>3, <3>1
    <3> QED
      BY <3>2, <3>3, <3>4
  <2> QED
    BY <2>1, <2>2, <2>4, <2>5, <1>4
<1>10. FreedCounted'
  <2>1. \A d \in Class : Marked(d) \subseteq Marked(d)'
    BY <1>4 DEF Marked, LiveIdx
  <2> QED
    BY <2>1, <1>0, <1>4, MoreMarked
<1> QED
  BY <1>7, <1>8, <1>9, <1>10 DEF TrainerInv

\* free_dynmem() erases the same indices from objects, sizes and values.
LEMMA FreeDynmemInv ==
    ASSUME TrainerInv, FreeDynmemEarly \/ FreeDynmemLate
    PROVE  TrainerInv'
<1>0. /\ FreeDynmem
      /\ phase # "alloc" /\ phase' # "alloc" /\ phase' \in Phase
      /\ UNCHANGED <<fifo, alive, attached, cfg_act, mq, pos>>
  BY DEF FreeDynmemEarly, FreeDynmemLate, Phase, linkVars
<1>1. /\ v_maddr \in [Class -> Seq(Addr \cup {Null})]
      /\ v_msize \in [Class -> Seq(Nat)]
      /\ v_oldval \in [DynEntry -> Seq(Addr \cup {Null})]
  BY DEF TrainerInv, TrainerTypeOK
<1>2. ASSUME NEW c \in Class
      PROVE  /\ v_maddr'[c] = Keep(v_maddr[c], LiveIdx(c))
             /\ v_msize'[c] = Keep(v_msize[c], LiveIdx(c))
             /\ v_maddr'[c] \in Seq(Addr \cup {Null}) /\ v_msize'[c] \in Seq(Nat)
             /\ Len(v_maddr'[c]) = Cardinality(LiveIdx(c))
             /\ Len(v_msize'[c]) = Cardinality(LiveIdx(c))
             /\ DOMAIN v_maddr'[c] = 1..Cardinality(LiveIdx(c))
             /\ \A j \in DOMAIN v_maddr'[c] : v_maddr'[c][j] = v_maddr[c][Nth(LiveIdx(c), j)]
  <2>1. v_maddr[c] \in Seq(Addr \cup {Null}) /\ v_msize[c] \in Seq(Nat)
    BY <1>1
  <2>2. LiveIdx(c) \subseteq DOMAIN v_maddr[c]
    BY DEF LiveIdx
  <2>3. DOMAIN v_msize[c] = DOMAIN v_maddr[c]
    BY <2>1 DEF TrainerInv, SameLength
  <2>4. v_maddr'[c] = Keep(v_maddr[c], LiveIdx(c)) /\ v_msize'[c] = Keep(v_msize[c], LiveIdx(c))
    BY <1>0 DEF FreeDynmem
  <2>5. /\ Keep(v_maddr[c], LiveIdx(c)) \in Seq(Addr \cup {Null})
        /\ Len(Keep(v_maddr[c], LiveIdx(c))) = Cardinality(LiveIdx(c))
        /\ DOMAIN Keep(v_maddr[c], LiveIdx(c)) = 1..Cardinality(LiveIdx(c))
        /\ \A j \in DOMAIN Keep(v_maddr[c], LiveIdx(c)) :
              Keep(v_maddr[c], LiveIdx(c))[j] = v_maddr[c][Nth(LiveIdx(c), j)]
    BY <2>1, <2>2, KeepType
  <2>6. /\ Keep(v_msize[c], LiveIdx(c)) \in Seq(Nat)
        /\ Len(Keep(v_msize[c], LiveIdx(c))) = Cardinality(LiveIdx(c))
    BY <2>1, <2>2, <2>3, KeepType
  <2> QED
    BY <2>4, <2>5, <2>6
<1>3. ASSUME NEW e \in DynEntry
      PROVE  /\ EntryClass[e] \in Class
             /\ v_oldval'[e] \in Seq(Addr \cup {Null})
             /\ Len(v_oldval'[e]) = Cardinality(LiveIdx(EntryClass[e]))
             /\ DOMAIN v_oldval'[e] = 1..Cardinality(LiveIdx(EntryClass[e]))
             /\ \A j \in DOMAIN v_oldval'[e] :
                   /\ Nth(LiveIdx(EntryClass[e]), j) \in DOMAIN v_oldval[e]
                   /\ v_oldval'[e][j] = v_oldval[e][Nth(LiveIdx(EntryClass[e]), j)]
  <2> DEFINE c == EntryClass[e]
  <2>1. c \in Class
    BY DEF DynEntry
  <2>2. v_oldval[e] \in Seq(Addr \cup {Null}) /\ v_maddr[c] \in Seq(Addr \cup {Null})
    BY <1>1, <2>1
  <2>3. DOMAIN v_oldval[e] = DOMAIN v_maddr[c]
    BY <1>0, <2>2 DEF TrainerInv, Aligned
  <2>4. LiveIdx(c) \cap DOMAIN v_oldval[e] = LiveIdx(c) /\ LiveIdx(c) \subseteq DOMAIN v_oldval[e]
    BY <2>3 DEF LiveIdx
  <2>5. v_oldval'[e] = Keep(v_oldval[e], LiveIdx(c))
    BY <1>0, <2>4 DEF FreeDynmem
  <2> QED
    BY <2>1, <2>2, <2>4, <2>5, KeepType
<1>4. /\ v_maddr' \in [Class -> Seq(Addr \cup {Null})]
      /\ v_msize' \in [Class -> Seq(Nat)]
      /\ num_freed' = [c \in Class |-> 0]
      /\ v_oldval' \in [DynEntry -> Seq(Addr \cup {Null})]
  <2>1. /\ v_maddr' = [c \in Class |-> v_maddr'[c]] /\ v_msize' = [c \in Class |-> v_msize'[c]]
        /\ num_freed' = [c \in Class |-> 0]
        /\ v_oldval' = [e \in DynEntry |-> v_oldval'[e]]
    BY <1>0 DEF FreeDynmem
  <2> QED
    BY <2>1, <1>2, <1>3
<1>5. LinkTypeOK' /\ TrainerTypeOK'
  BY <1>0, <1>4 DEF TrainerInv, TrainerTypeOK, LinkTypeOK
<1>6. SameLength'
  BY <1>2 DEF SameLength
<1>7. Aligned'
  <2> SUFFICES ASSUME NEW e \in DynEntry
               PROVE  /\ Len(v_oldval'[e]) = Len(v_maddr'[EntryClass[e]])
                      /\ Len(v_oldval'[e]) <= Len(v_maddr'[EntryClass[e]])
                      /\ Len(v_maddr'[EntryClass[e]]) = Len(v_msize'[EntryClass[e]])
                      /\ \A k \in DOMAIN v_oldval'[e] :
                            \/ v_oldval'[e][k] = Null
                            \/ v_maddr'[EntryClass[e]][k] = Null
                            \/ v_oldval'[e][k] = v_maddr'[EntryClass[e]][k]
    BY DEF Aligned
  <2>1. Len(v_oldval'[e]) \in Nat
    BY <1>3
  <2>2. Len(v_oldval'[e]) = Len(v_maddr'[EntryClass[e]])
        /\ Len(v_maddr'[EntryClass[e]]) = Len(v_msize'[EntryClass[e]])
    BY <1>2, <1>3
  <2>3. ASSUME NEW k \in DOMAIN v_oldval'[e]
        PROVE  \/ v_oldval'[e][k] = Null
               \/ v_maddr'[EntryClass[e]][k] = Null
               \/ v_oldval'[e][k] = v_maddr'[EntryClass[e]][k]
    <3> DEFINE n == Nth(LiveIdx(EntryClass[e]), k)
    <3>1. n \in DOMAIN v_oldval[e] /\ v_oldval'[e][k] = v_oldval[e][n]
      BY <1>3
    <3>2. v_maddr'[EntryClass[e]][k] = v_maddr[EntryClass[e]][n]
      BY <1>2, <1>3
    <3> HIDE DEF n
    <3> QED
      BY <3>1, <3>2 DEF TrainerInv, Aligned
  <2> QED
    BY <2>1, <2>2, <2>3
<1>8. FreedCounted'
  <2> SUFFICES ASSUME NEW c \in Class
               PROVE  num_freed'[c] <= Cardinality(Marked(c)')
    BY DEF FreedCounted, Marked
  <2>1. v_maddr'[c] \in Seq(Addr \cup {Null}) /\ Marked(c)' \subseteq DOMAIN v_maddr'[c]
    BY <1>4 DEF Marked
  <2>2. Cardinality(Marked(c)') \in Nat
    BY <2>1, CountIndices
  <2> QED
    BY <2>2, <1>4
<1> QED
  BY <1>5, <1>6, <1>7, <1>8 DEF TrainerInv

\* process_mallocs(): queued mallocs become objects; alloc_dynmem() follows.
LEMMA ProcessMallocsInv ==
    ASSUME TrainerInv, ProcessMallocs
    PROVE  TrainerInv'
<1> DEFINE New(c) == Keep(mq, {i \in DOMAIN mq : mq[i].class = c})
           adds(c) == [j \in DOMAIN New(c) |-> New(c)[j].addr]
           sizes(c) == [j \in DOMAIN New(c) |-> New(c)[j].size]
<1>0. /\ phase = "mallocs" /\ phase' = "alloc" /\ mq' = <<>>
      /\ v_maddr' = [c \in Class |-> v_maddr[c] \o adds(c)]
      /\ v_msize' = [c \in Class |-> v_msize[c] \o sizes(c)]
      /\ UNCHANGED <<linkVars, cfg_act, num_freed, v_oldval, pos>>
  BY DEF ProcessMallocs
<1>1. ASSUME NEW c \in Class
      PROVE  /\ adds(c) \in Seq(Addr \cup {Null}) /\ sizes(c) \in Seq(Nat)
             /\ Len(adds(c)) = Len(sizes(c))
  <2>1. mq \in Seq(MallocMsg)
    BY DEF TrainerInv, TrainerTypeOK
  <2>2. New(c) \in Seq(MallocMsg)
    BY <2>1, KeepType
  <2> HIDE DEF New
  <2>3. \A j \in DOMAIN New(c) : New(c)[j].addr \in Addr \cup {Null} /\ New(c)[j].size \in Nat
    <3>1. \A m \in MallocMsg : m.addr \in Addr \cup {Null} /\ m.size \in Nat
      BY DEF MallocMsg
    <3>2. \A j \in DOMAIN New(c) : New(c)[j] \in MallocMsg
      BY <2>2
    <3> QED
      BY <3>1, <3>2
  <2> QED
    BY <2>2, <2>3
<1> HIDE DEF adds, sizes
<1>2. ASSUME NEW c \in Class
      PROVE  /\ v_maddr'[c] = v_maddr[c] \o adds(c) /\ v_msize'[c] = v_msize[c] \o sizes(c)
             /\ v_maddr[c] \in Seq(Addr \cup {Null}) /\ v_msize[c] \in Seq(Nat)
             /\ v_maddr'[c] \in Seq(Addr \cup {Null}) /\ v_msize'[c] \in Seq(Nat)
             /\ Len(v_maddr[c]) <= Len(v_maddr'[c])
             /\ Len(v_msize'[c]) = Len(v_maddr'[c])
             /\ DOMAIN v_maddr[c] \subseteq DOMAIN v_maddr'[c]
             /\ \A k \in DOMAIN v_maddr[c] : v_maddr'[c][k] = v_maddr[c][k]
  <2>1. v_maddr'[c] = v_maddr[c] \o adds(c) /\ v_msize'[c] = v_msize[c] \o sizes(c)
    BY <1>0
  <2>2. /\ v_maddr[c] \in Seq(Addr \cup {Null}) /\ v_msize[c] \in Seq(Nat)
        /\ Len(v_msize[c]) = Len(v_maddr[c])
    BY DEF TrainerInv, TrainerTypeOK, SameLength
  <2>3. /\ v_maddr[c] \o adds(c) \in Seq(Addr \cup {Null})
        /\ Len(v_maddr[c] \o adds(c)) = Len(v_maddr[c]) + Len(adds(c))
        /\ Len(v_maddr[c]) <= Len(v_maddr[c] \o adds(c))
        /\ DOMAIN v_maddr[c] \subseteq DOMAIN (v_maddr[c] \o adds(c))
        /\ \A k \in DOMAIN v_maddr[c] : (v_maddr[c] \o adds(c))[k] = v_maddr[c][k]
    BY <2>2, <1>1, ConcatKeeps
  <2>4. /\ v_msize[c] \o sizes(c) \in Seq(Nat)
        /\ Len(v_msize[c] \o sizes(c)) = Len(v_msize[c]) + Len(sizes(c))
    <3> DEFINE S == Nat
    <3>1. v_msize[c] \in Seq(S) /\ sizes(c) \in Seq(S)
      BY <2>2, <1>1
    <3> HIDE DEF S
    <3>2. /\ v_msize[c] \o sizes(c) \in Seq(S)
          /\ Len(v_msize[c] \o sizes(c)) = Len(v_msize[c]) + Len(sizes(c))
      BY <3>1, ConcatKeeps
    <3> QED
      BY <3>2 DEF S
  <2> QED
    BY <2>1, <2>2, <2>3, <2>4, <1>1
<1>3. v_maddr' \in [Class -> Seq(Addr \cup {Null})] /\ v_msize' \in [Class -> Seq(Nat)]
  <2>1. v_maddr' = [c \in Class |-> v_maddr'[c]] /\ v_msize' = [c \in Class |-> v_msize'[c]]
    BY <1>0
  <2> QED
    BY <2>1, <1>2
<1>4. LinkTypeOK' /\ TrainerTypeOK'
  <2>1. mq' \in Seq(MallocMsg)
    BY <1>0
  <2>2. LinkTypeOK'
    BY <1>0 DEF TrainerInv, LinkTypeOK, linkVars
  <2> QED
    BY <2>1, <2>2, <1>0, <1>3 DEF TrainerInv, TrainerTypeOK, Phase
<1>5. SameLength'
  BY <1>2 DEF SameLength
<1>6. Aligned'
  <2> SUFFICES ASSUME NEW e \in DynEntry
               PROVE  /\ Len(v_oldval[e]) <= Len(v_maddr'[EntryClass[e]])
                      /\ Len(v_maddr'[EntryClass[e]]) = Len(v_msize'[EntryClass[e]])
                      /\ \A k \in DOMAIN v_oldval[e] :
                            \/ v_oldval[e][k] = Null
                            \/ v_maddr'[EntryClass[e]][k] = Null
                            \/ v_oldval[e][k] = v_maddr'[EntryClass[e]][k]
    BY <1>0 DEF Aligned
  <2>1. EntryClass[e] \in Class /\ v_oldval[e] \in Seq(Addr \cup {Null})
    BY DEF DynEntry, TrainerInv, TrainerTypeOK
  <2>2. Len(v_oldval[e]) = Len(v_maddr[EntryClass[e]])
    BY <1>0 DEF TrainerInv, Aligned
  <2>3. DOMAIN v_oldval[e] = DOMAIN v_maddr[EntryClass[e]]
    BY <2>1, <2>2, <1>2
  <2>4. \A k \in DOMAIN v_oldval[e] :
            \/ v_oldval[e][k] = Null
            \/ v_maddr'[EntryClass[e]][k] = Null
            \/ v_oldval[e][k] = v_maddr'[EntryClass[e]][k]
    BY <2>1, <2>3, <1>2 DEF TrainerInv, Aligned
  <2> QED
    BY <2>1, <2>2, <2>4, <1>2
<1>7. FreedCounted'
  <2>1. \A c \in Class : Marked(c) \subseteq Marked(c)'
    BY <1>2 DEF Marked, LiveIdx
  <2> QED
    BY <2>1, <1>0, <1>3, MoreMarked
<1> QED
  BY <1>4, <1>5, <1>6, <1>7 DEF TrainerInv

\* alloc_dynmem() fills up the values with cells of no object yet.
LEMMA AllocDynmemInv ==
    ASSUME TrainerInv, AllocDynmem
    PROVE  TrainerInv'
<1> DEFINE n(e) == Len(v_maddr[EntryClass[e]]) - Len(v_oldval[e])
           fresh(e) == [i \in 1..n(e) |-> Null]
<1>0. /\ phase = "alloc" /\ phase' = "idle"
      /\ v_oldval' = [e \in DynEntry |-> v_oldval[e] \o fresh(e)]
      /\ UNCHANGED <<linkVars, cfg_act, mq, v_maddr, v_msize, num_freed, pos>>
  BY DEF AllocDynmem
<1>1. ASSUME NEW e \in DynEntry
      PROVE  /\ EntryClass[e] \in Class
             /\ v_oldval[e] \in Seq(Addr \cup {Null})
             /\ v_maddr[EntryClass[e]] \in Seq(Addr \cup {Null})
             /\ n(e) \in Nat
             /\ fresh(e) \in Seq(Addr \cup {Null}) /\ Len(fresh(e)) = n(e)
  <2>1. /\ EntryClass[e] \in Class
        /\ v_oldval[e] \in Seq(Addr \cup {Null})
        /\ v_maddr[EntryClass[e]] \in Seq(Addr \cup {Null})
    BY DEF TrainerInv, TrainerTypeOK, DynEntry
  <2>2. n(e) \in Nat
    BY <2>1 DEF TrainerInv, Aligned
  <2> HIDE DEF n
  <2>3. fresh(e) \in Seq(Addr \cup {Null}) /\ Len(fresh(e)) = n(e)
    BY <2>2
  <2> QED
    BY <2>1, <2>2, <2>3
<1>2. ASSUME NEW e \in DynEntry
      PROVE  /\ v_oldval'[e] \in Seq(Addr \cup {Null})
             /\ Len(v_oldval'[e]) = Len(v_maddr[EntryClass[e]])
             /\ \A i \in DOMAIN v_oldval'[e] :
                   v_oldval'[e][i] = Null \/ (i \in DOMAIN v_oldval[e] /\ v_oldval'[e][i] = v_oldval[e][i])
  <2> DEFINE old == v_oldval[e]
             add == fresh(e)
  <2>0. v_oldval'[e] = old \o add
    BY <1>0
  <2>1. /\ old \in Seq(Addr \cup {Null}) /\ add \in Seq(Addr \cup {Null})
        /\ Len(old) + Len(add) = Len(v_maddr[EntryClass[e]])
        /\ \A i \in DOMAIN add : add[i] = Null
    <3>1. Len(old) \in Nat /\ Len(v_maddr[EntryClass[e]]) \in Nat
      BY <1>1
    <3>2. Len(old) + n(e) = Len(v_maddr[EntryClass[e]])
      BY <3>1
    <3>3. DOMAIN add = 1..n(e) /\ \A i \in 1..n(e) : add[i] = Null
      OBVIOUS
    <3> HIDE DEF n
    <3> QED
      BY <3>2, <3>3, <1>1
  <2> HIDE DEF old, add
  <2>2. /\ old \o add \in Seq(Addr \cup {Null})
        /\ Len(old \o add) = Len(v_maddr[EntryClass[e]])
        /\ \A i \in DOMAIN (old \o add) :
              (old \o add)[i] = Null \/ (i \in DOMAIN old /\ (old \o add)[i] = old[i])
    BY <2>1
  <2> QED
    BY <2>0, <2>2 DEF old
<1>3. v_oldval' \in [DynEntry -> Seq(Addr \cup {Null})]
  <2>1. v_oldval' = [e \in DynEntry |-> v_oldval'[e]]
    BY <1>0
  <2> QED
    BY <2>1, <1>2
<1>4. LinkTypeOK' /\ TrainerTypeOK'
  BY <1>0, <1>3 DEF TrainerInv, TrainerTypeOK, LinkTypeOK, linkVars, Phase
<1>5. SameLength'
  BY <1>0 DEF TrainerInv, SameLength
<1>6. Aligned'
  <2> SUFFICES ASSUME NEW e \in DynEntry
               PROVE  /\ Len(v_oldval'[e]) = Len(v_maddr[EntryClass[e]])
                      /\ Len(v_oldval'[e]) <= Len(v_maddr[EntryClass[e]])
                      /\ Len(v_maddr[EntryClass[e]]) = Len(v_msize[EntryClass[e]])
                      /\ \A k \in DOMAIN v_oldval'[e] :
                            \/ v_oldval'[e][k] = Null
                            \/ v_maddr[EntryClass[e]][k] = Null
                            \/ v_oldval'[e][k] = v_maddr[EntryClass[e]][k]
    BY <1>0 DEF Aligned
  <2>1. Len(v_oldval'[e]) \in Nat /\ Len(v_maddr[EntryClass[e]]) = Len(v_msize[EntryClass[e]])
    BY <1>2 DEF TrainerInv, Aligned
  <2> QED
    BY <2>1, <1>2 DEF TrainerInv, Aligned
<1>7. FreedCounted'
  BY <1>0 DEF TrainerInv, FreedCounted, LiveIdx
<1> QED
  BY <1>4, <1>5, <1>6, <1>7 DEF TrainerInv

\* No step of the trainer breaks the alignment, whatever the FIFO holds.
LEMMA TrainerStepInv ==
    ASSUME TrainerInv, TrainerStep
    PROVE  TrainerInv'
  BY ControlInv, ReadDynmemFifoInv, ProcessObjectInv, FreeDynmemInv, ProcessMallocsInv,
     AllocDynmemInv DEF TrainerStep

-----------------------------------------------------------------------------
(***************************************************************************)
(* Both together.                                                          *)
(***************************************************************************)
\* The part that needs no assumption on the threads.
GeneralInv == HookInv /\ TrainerInv

LEMMA GeneralInit == Init => GeneralInv
  BY HookInitInv, TrainerInitInv DEF Init, GeneralInv

LEMMA GeneralNext ==
    ASSUME GeneralInv, [Next]_vars
    PROVE  GeneralInv'
<1>1. ASSUME NEW t \in Threads, GameStep(t)
      PROVE  GeneralInv'
  <2>1. HookInv'
    BY <1>1, HookStepInv DEF GameStep, GeneralInv
  <2>2. UNCHANGED trainerVars
    BY <1>1 DEF GameStep
  <2>3. TrainerInv'
    BY <2>1, <2>2 DEF trainerVars, GeneralInv, HookInv, TrainerInv, TrainerTypeOK, SameLength,
                      Aligned, FreedCounted, LiveIdx
  <2> QED
    BY <2>1, <2>3 DEF GeneralInv
<1>2. CASE GameExit \/ UNCHANGED vars
  <2>1. /\ UNCHANGED <<fifo, attached, hookVars, trainerVars>>
        /\ alive' \in BOOLEAN
    BY <1>2 DEF GameExit, vars, linkVars, GeneralInv, HookInv, LinkTypeOK
  <2>2. HookInv'
    BY <2>1 DEF hookVars, GeneralInv, HookInv, LinkTypeOK, HookTypeOK, ObufWritten,
                CallsOwn, TablesOwn
  <2>3. TrainerInv'
    BY <2>1, <2>2 DEF trainerVars, GeneralInv, HookInv, TrainerInv, TrainerTypeOK, SameLength,
                      Aligned, FreedCounted, LiveIdx
  <2> QED
    BY <2>2, <2>3 DEF GeneralInv
<1>3. CASE TrainerStep /\ UNCHANGED hookVars
  <2>1. TrainerInv'
    BY <1>3, TrainerStepInv DEF GeneralInv
  <2>2. HookInv'
    BY <1>3, <2>1 DEF hookVars, GeneralInv, HookInv, TrainerInv, HookTypeOK, ObufWritten,
                      CallsOwn, TablesOwn
  <2> QED
    BY <2>1, <2>2 DEF GeneralInv
<1> QED
  BY <1>1, <1>2, <1>3 DEF Next, Terminated

\* Every variable keeps its type.
THEOREM TypeCorrect == Spec => []TypeOK
<1>1. GeneralInv => TypeOK
  BY DEF GeneralInv, HookInv, TrainerInv, TypeOK
<1> QED
  BY <1>1, GeneralInit, GeneralNext, PTL DEF Spec

\* The value cells of the trainer stay aligned with its objects: no value that
\* was read from one object is ever taken for the old value of another.
THEOREM AlignedAlways == Spec => []Aligned
<1>1. GeneralInv => Aligned
  BY DEF GeneralInv, TrainerInv
<1> QED
  BY <1>1, GeneralInit, GeneralNext, PTL DEF Spec

\* The unsigned difference that free_dynmem() reports does not wrap around.
THEOREM FreedCountedAlways == Spec => []FreedCounted
<1>1. GeneralInv => FreedCounted
  BY DEF GeneralInv, TrainerInv
<1> QED
  BY <1>1, GeneralInit, GeneralNext, PTL DEF Spec

\* The library's tables hold objects of their class only, for any number of
\* threads in the hooks.
THEOREM TableValidAlways == Spec => []TableValid
<1>1. GeneralInv => TableValid
  BY DEF GeneralInv, HookInv, TablesOwn, TableValid
<1> QED
  BY <1>1, GeneralInit, GeneralNext, PTL DEF Spec

-----------------------------------------------------------------------------
\* One thread, and no write() that a signal interrupts.
OneThread == Threads = {Main} /\ EintrWrites = FALSE

\* The game has the object and the library will report its free(): its address
\* is in the table, or on its way in or out.
Live(a, c, s) ==
    /\ heap[a] = Object(c, s)
    /\ \/ a \in mem_addrs[c]
       \/ call[Main].at \in {"store", "write_f"} /\ call[Main].addr = a

\* The FIFO is read as a continuation of what the trainer knows: position 0 is
\* the trainer, position j the message j.
Holds(a, c, s, j) == IF j = 0 THEN Tracked(a, c, s) ELSE fifo[j] = MMsg(a, s, c)

\* Between two reports of an address there is a report of its free().
Ordered ==
    \A a \in Addr, c \in Class, s \in Nat : \A j \in 0..Len(fifo) :
        Holds(a, c, s, j) =>
            \A i \in (j + 1)..Len(fifo) :
                fifo[i].op = "m" /\ fifo[i].addr = a =>
                    \E k \in (j + 1)..(i - 1) : fifo[k] = FMsg(a)

\* A report that no report of a free() follows is about a live object.
Accurate ==
    \A a \in Addr, c \in Class, s \in Nat : \A j \in 0..Len(fifo) :
        /\ Holds(a, c, s, j)
        /\ \A k \in (j + 1)..Len(fifo) : fifo[k] # FMsg(a)
        => Live(a, c, s)

\* The message a thread writes is its own.
OwnMessage ==
    /\ fifo \in Seq(Msg)
    /\ call[Main].at = "write_m" =>
          obuf = MMsg(call[Main].addr, call[Main].size, call[Main].class)
    /\ call[Main].at = "write_f" => obuf = FMsg(call[Main].addr)

\* While objects are processed the game is stopped and all of its messages are
\* read.
Frozen ==
    /\ phase \in {"read2", "process", "detach"} => attached
    /\ phase = "process" /\ alive => fifo = <<>>

SafeInv == GeneralInv /\ OwnMessage /\ Frozen /\ NoDuplicates /\ Ordered /\ Accurate

-----------------------------------------------------------------------------
\* What is read and what is tracked stays the same, or less is tracked.
LEMMA StreamSame ==
    ASSUME Ordered, Accurate, UNCHANGED fifo,
           \A a \in Addr, c \in Class, s \in Nat : Tracked(a, c, s)' => Tracked(a, c, s),
           \A a \in Addr, c \in Class, s \in Nat : Live(a, c, s) => Live(a, c, s)'
    PROVE  Ordered' /\ Accurate'
<1>1. \A a \in Addr, c \in Class, s \in Nat : \A j \in 0..Len(fifo) :
          Holds(a, c, s, j)' => Holds(a, c, s, j)
  BY DEF Holds
<1> QED
  BY <1>1 DEF Ordered, Accurate

\* A message is appended: a "m" for an object that is live now and was not
\* before, or a "f" for an object that may not be live any more.
LEMMA StreamAppend ==
    ASSUME Ordered, Accurate, fifo \in Seq(Msg), NEW m \in Msg, fifo' = Append(fifo, m),
           \A a \in Addr, c \in Class, s \in Nat : Tracked(a, c, s)' => Tracked(a, c, s),
           \A a \in Addr, c \in Class, s \in Nat :
               /\ Live(a, c, s) /\ m # FMsg(a) => Live(a, c, s)'
               /\ m.op = "m" /\ m.addr = a => ~Live(a, c, s)
               /\ m = MMsg(a, s, c) => Live(a, c, s)'
    PROVE  Ordered' /\ Accurate'
<1> DEFINE L == Len(fifo)
<1>1. /\ L \in Nat /\ Len(fifo') = L + 1
      /\ fifo'[L + 1] = m
      /\ \A k \in 1..L : fifo'[k] = fifo[k]
  OBVIOUS
<1> HIDE DEF L
<1>2. ASSUME NEW a \in Addr, NEW c \in Class, NEW s \in Nat, NEW j \in 0..(L + 1),
             Holds(a, c, s, j)'
      PROVE  IF j = L + 1 THEN m = MMsg(a, s, c) ELSE j \in 0..L /\ Holds(a, c, s, j)
  BY <1>1, <1>2 DEF Holds
<1>3. Ordered'
  <2> SUFFICES ASSUME NEW a \in Addr, NEW c \in Class, NEW s \in Nat, NEW j \in 0..(L + 1),
                      Holds(a, c, s, j)',
                      NEW i \in (j + 1)..(L + 1), fifo'[i].op = "m", fifo'[i].addr = a
               PROVE  \E k \in (j + 1)..(i - 1) : fifo'[k] = FMsg(a)
    BY <1>1 DEF Ordered
  <2>1. j \in 0..L /\ Holds(a, c, s, j)
    BY <1>1, <1>2
  <2>2. \E k \in (j + 1)..(i - 1) : k \in 1..L /\ fifo[k] = FMsg(a)
    <3>1. CASE i = L + 1
      <4>1. ~Live(a, c, s)
        BY <3>1, <1>1
      <4>2. \E k \in (j + 1)..L : fifo[k] = FMsg(a)
        BY <4>1, <2>1 DEF Accurate, L
      <4> QED
        BY <4>2, <3>1, <1>1, <2>1
    <3>2. CASE i # L + 1
      <4>1. i \in (j + 1)..L /\ fifo[i].op = "m" /\ fifo[i].addr = a
        BY <3>2, <1>1, <2>1
      <4>2. \E k \in (j + 1)..(i - 1) : fifo[k] = FMsg(a)
        BY <4>1, <2>1 DEF Ordered, L
      <4> QED
        BY <4>1, <4>2, <1>1, <2>1
    <3> QED
      BY <3>1, <3>2
  <2> QED
    BY <2>2, <1>1
<1>4. Accurate'
  <2> SUFFICES ASSUME NEW a \in Addr, NEW c \in Class, NEW s \in Nat, NEW j \in 0..(L + 1),
                      Holds(a, c, s, j)',
                      \A k \in (j + 1)..(L + 1) : fifo'[k] # FMsg(a)
               PROVE  Live(a, c, s)'
    BY <1>1 DEF Accurate
  <2>1. CASE j = L + 1
    BY <2>1, <1>2
  <2>2. CASE j # L + 1
    <3>1. j \in 0..L /\ Holds(a, c, s, j)
      BY <2>2, <1>2
    <3>2. m # FMsg(a) /\ \A k \in (j + 1)..L : fifo[k] # FMsg(a)
      BY <3>1, <1>1
    <3>3. Live(a, c, s)
      BY <3>1, <3>2 DEF Accurate, L
    <3> QED
      BY <3>2, <3>3
  <2> QED
    BY <2>1, <2>2
<1> QED
  BY <1>3, <1>4

\* A message is read: the trainer takes over what it says.
LEMMA StreamRead ==
    ASSUME Ordered, Accurate, fifo \in Seq(Msg), fifo # <<>>, fifo' = Tail(fifo),
           \A a \in Addr, c \in Class, s \in Nat :
               Tracked(a, c, s)' => \/ Tracked(a, c, s) /\ Head(fifo) # FMsg(a)
                                   \/ Head(fifo) = MMsg(a, s, c),
           \A a \in Addr, c \in Class, s \in Nat : Live(a, c, s) => Live(a, c, s)'
    PROVE  Ordered' /\ Accurate'
<1> DEFINE L == Len(fifo)
<1>1. /\ L \in Nat /\ L >= 1 /\ Len(fifo') = L - 1
      /\ Head(fifo) = fifo[1]
      /\ \A k \in 1..(L - 1) : fifo'[k] = fifo[k + 1]
  OBVIOUS
<1> HIDE DEF L
\* Where the trainer's knowledge was before.
<1>2. ASSUME NEW a \in Addr, NEW c \in Class, NEW s \in Nat, NEW j \in 0..(L - 1),
             Holds(a, c, s, j)'
      PROVE  \/ /\ Holds(a, c, s, j + 1) /\ j + 1 \in 0..L
             \/ /\ j = 0 /\ Holds(a, c, s, 0) /\ fifo[1] # FMsg(a)
  <2>1. CASE j = 0
    BY <2>1, <1>1, <1>2 DEF Holds
  <2>2. CASE j # 0
    <3>1. j \in 1..(L - 1) /\ j + 1 \in 0..L /\ j + 1 # 0
      BY <2>2, <1>1
    <3>2. fifo'[j] = MMsg(a, s, c)
      BY <2>2, <1>2 DEF Holds
    <3> QED
      BY <3>1, <3>2, <1>1 DEF Holds
  <2> QED
    BY <2>1, <2>2
<1>3. Ordered'
  <2> SUFFICES ASSUME NEW a \in Addr, NEW c \in Class, NEW s \in Nat, NEW j \in 0..(L - 1),
                      Holds(a, c, s, j)',
                      NEW i \in (j + 1)..(L - 1), fifo'[i].op = "m", fifo'[i].addr = a
               PROVE  \E k \in (j + 1)..(i - 1) : fifo'[k] = FMsg(a)
    BY <1>1 DEF Ordered
  <2>1. i + 1 \in 1..L /\ fifo[i + 1].op = "m" /\ fifo[i + 1].addr = a
    BY <1>1
  <2>2. PICK n \in {j, j + 1} : /\ Holds(a, c, s, n) /\ n \in 0..L
                                /\ n = j => j = 0 /\ fifo[1] # FMsg(a)
    BY <1>1, <1>2
  <2>3. \E k \in (n + 1)..((i + 1) - 1) : fifo[k] = FMsg(a)
    <3>1. i + 1 \in (n + 1)..L
      BY <2>1, <2>2, <1>1
    <3> QED
      BY <3>1, <2>1, <2>2 DEF Ordered, L
  <2>4. PICK k \in (n + 1)..i : fifo[k] = FMsg(a)
    BY <2>3
  <2>5. k \in (j + 2)..i
    BY <2>2, <2>4
  <2>6. k - 1 \in (j + 1)..(i - 1) /\ fifo'[k - 1] = fifo[k]
    BY <2>5, <1>1
  <2> QED
    BY <2>4, <2>6
<1>4. Accurate'
  <2> SUFFICES ASSUME NEW a \in Addr, NEW c \in Class, NEW s \in Nat, NEW j \in 0..(L - 1),
                      Holds(a, c, s, j)',
                      \A k \in (j + 1)..(L - 1) : fifo'[k] # FMsg(a)
               PROVE  Live(a, c, s)
    BY <1>1 DEF Accurate
  <2>1. PICK n \in {j, j + 1} : /\ Holds(a, c, s, n) /\ n \in 0..L
                                /\ n = j => j = 0 /\ fifo[1] # FMsg(a)
    BY <1>1, <1>2
  <2>2. ASSUME NEW k \in (n + 1)..L PROVE fifo[k] # FMsg(a)
    <3>1. CASE k = 1
      BY <3>1, <2>1
    <3>2. CASE k # 1
      <4>1. k - 1 \in (j + 1)..(L - 1) /\ fifo'[k - 1] = fifo[k]
        BY <3>2, <2>1, <1>1
      <4> QED
        BY <4>1
    <3> QED
      BY <3>1, <3>2
  <2> QED
    BY <2>1, <2>2 DEF Accurate, L
<1> QED
  BY <1>3, <1>4

-----------------------------------------------------------------------------
\* Facts about the thread that the steps of the hooks share.
LEMMA LiveFacts ==
    ASSUME GeneralInv, OneThread
    PROVE  /\ Main \in Threads /\ \A u \in Threads : u = Main
           /\ call \in [Threads -> Call] /\ heap \in [Addr -> Heap \cup {Free}]
           /\ mem_addrs \in [Class -> SUBSET Addr]
           /\ \A c \in Class, s \in Nat : Object(c, s) # Free
           /\ \A c \in Class : \A a \in mem_addrs[c] : call[Main].addr # a
           /\ call[Main].at = "run" => call[Main].addr = Null
           /\ call[Main].at \in {"write_m", "store"} =>
                 /\ call[Main].class \in Class
                 /\ call[Main].addr # Null =>
                       heap[call[Main].addr] = Object(call[Main].class, call[Main].size)
<1>1. Main \in Threads /\ \A u \in Threads : u = Main
  BY MainAssumption DEF OneThread
<1>2. /\ call \in [Threads -> Call] /\ heap \in [Addr -> Heap \cup {Free}]
      /\ mem_addrs \in [Class -> SUBSET Addr]
  BY DEF GeneralInv, HookInv, HookTypeOK, Heap
<1>3. \A c \in Class, s \in Nat : Object(c, s) # Free
  BY FreeAssumption DEF Object
<1> QED
  BY <1>1, <1>2, <1>3 DEF GeneralInv, HookInv, CallsOwn, TablesOwn

\* Steps of a hook that write no message.
LEMMA SilentStep ==
    ASSUME SafeInv, OneThread, UNCHANGED trainerVars, UNCHANGED fifo,
           \A a \in Addr, c \in Class, s \in Nat : Live(a, c, s) => Live(a, c, s)'
    PROVE  Ordered' /\ Accurate'
<1>1. \A a \in Addr, c \in Class, s \in Nat : Tracked(a, c, s)' => Tracked(a, c, s)
  BY DEF trainerVars, Tracked
<1> QED
  BY <1>1, StreamSame DEF SafeInv

\* The original malloc() and realloc() take or change no live object.
LEMMA OriginalSafe ==
    ASSUME SafeInv, OneThread, UNCHANGED trainerVars,
           Malloc(Main) \/ OrigRealloc(Main) \/ OrigFree(Main)
    PROVE  OwnMessage' /\ Ordered' /\ Accurate'
<1>0. /\ Main \in Threads /\ call \in [Threads -> Call] /\ heap \in [Addr -> Heap \cup {Free}]
      /\ \A c \in Class, s \in Nat : Object(c, s) # Free
      /\ \A c \in Class : \A a \in mem_addrs[c] : call[Main].addr # a
      /\ call[Main].at = "run" => call[Main].addr = Null
  BY LiveFacts DEF SafeInv
<1>1. call[Main].at \in {"run", "orig"} /\ UNCHANGED <<fifo, mem_addrs>>
  BY DEF Malloc, OrigRealloc, OrigFree, linkVars
<1> DEFINE old == call[Main].addr
<1>2. \A b \in Addr : heap[b] # Free /\ b # old => heap'[b] = heap[b]
  <2>1. CASE Malloc(Main)
    BY <2>1, <1>0 DEF Malloc
  <2>2. CASE OrigFree(Main)
    BY <2>2, <1>0 DEF OrigFree
  <2>3. CASE OrigRealloc(Main)
    BY <2>3, <1>0 DEF OrigRealloc
  <2> QED
    BY <2>1, <2>2, <2>3
<1>3. \A a \in Addr, c \in Class, s \in Nat : Live(a, c, s) => Live(a, c, s)'
  <2> SUFFICES ASSUME NEW a \in Addr, NEW c \in Class, NEW s \in Nat, Live(a, c, s)
               PROVE  Live(a, c, s)'
    OBVIOUS
  <2>1. heap[a] = Object(c, s) /\ a \in mem_addrs[c]
    BY <1>1 DEF Live
  <2>2. heap[a] # Free /\ a # old
    BY <2>1, <1>0
  <2>3. heap'[a] = Object(c, s) /\ a \in mem_addrs'[c]
    BY <2>1, <2>2, <1>1, <1>2
  <2> QED
    BY <2>3 DEF Live, Object
<1>4. Ordered' /\ Accurate'
  BY <1>1, <1>3, SilentStep
<1>5. OwnMessage'
  <2>1. fifo' \in Seq(Msg)
    BY <1>1 DEF SafeInv, OwnMessage
  <2>2. CASE call' = [call EXCEPT ![Main] = Idle]
    <3>1. call'[Main].at = "run"
      BY <2>2, <1>0 DEF Idle
    <3> QED
      BY <2>1, <3>1 DEF OwnMessage
  <2>3. ASSUME NEW a \in Addr \cup {Null}, NEW r \in Request, PostprocessMalloc(Main, a, r[1], r[2])
        PROVE  OwnMessage'
    <3>1. HookTypeOK /\ r[1] \in Class \cup {Other} /\ r[2] \in Nat
      BY RequestType DEF SafeInv, GeneralInv, HookInv
    <3>2. \/ call'[Main] = Idle
          \/ /\ call'[Main].at = "write_m" /\ call'[Main].addr = a
             /\ call'[Main].size = r[2] /\ call'[Main].class = r[1]
             /\ obuf' = MMsg(a, r[2], r[1])
      BY <3>1, <2>3, <1>0, Epilogue
    <3> QED
      BY <2>1, <3>2 DEF OwnMessage, Idle
  <2>4. CASE Malloc(Main)
    BY <2>4, <2>3 DEF Malloc
  <2>5. CASE OrigRealloc(Main)
    <3>1. old \in Addr \cup {Null}
      BY <1>0 DEF Call
    <3> QED
      BY <2>5, <3>1, <2>3 DEF OrigRealloc
  <2>6. CASE OrigFree(Main)
    BY <2>6, <2>2 DEF OrigFree
  <2> QED
    BY <2>4, <2>5, <2>6
<1> QED
  BY <1>4, <1>5

\* The prologue of free(): the object is on its way out of the table.
LEMMA PrologueSafe ==
    ASSUME SafeInv, OneThread, UNCHANGED trainerVars, FreeCall(Main) \/ ReallocCall(Main)
    PROVE  OwnMessage' /\ Ordered' /\ Accurate'
<1>0. /\ Main \in Threads /\ call \in [Threads -> Call]
      /\ mem_addrs \in [Class -> SUBSET Addr]
  BY LiveFacts DEF SafeInv
<1>1. call[Main].at = "run" /\ UNCHANGED <<fifo, heap>>
  BY DEF FreeCall, ReallocCall, linkVars
<1>2. PICK a \in Addr \cup {Null}, fn \in {"free", "realloc"} : PreprocessFree(Main, a, fn)
  BY DEF FreeCall, ReallocCall
<1>3. CASE \E d \in Class :
              /\ a \in mem_addrs[d]
              /\ mem_addrs' = [mem_addrs EXCEPT ![d] = @ \ {a}]
              /\ obuf' = FMsg(a)
              /\ call' = [call EXCEPT ![Main] = [at |-> "write_f", fn |-> fn, addr |-> a,
                                                size |-> 0, class |-> Other]]
  <2>1. call'[Main].at = "write_f" /\ call'[Main].addr = a /\ obuf' = FMsg(a)
    BY <1>0, <1>3
  <2>2. \A c \in Class : \A b \in mem_addrs[c] : b = a \/ b \in mem_addrs'[c]
    BY <1>0, <1>3
  <2>3. \A b \in Addr, c \in Class, s \in Nat : Live(b, c, s) => Live(b, c, s)'
    BY <1>1, <2>1, <2>2 DEF Live, Object
  <2>4. OwnMessage'
    BY <2>1, <1>1 DEF SafeInv, OwnMessage
  <2> QED
    BY <2>3, <2>4, <1>1, SilentStep
<1>4. CASE /\ call' = [call EXCEPT ![Main] = [at |-> "orig", fn |-> fn, addr |-> a,
                                             size |-> 0, class |-> Other]]
           /\ UNCHANGED <<mem_addrs, obuf>>
  <2>1. call'[Main].at = "orig"
    BY <1>0, <1>4
  <2>2. \A b \in Addr, c \in Class, s \in Nat : Live(b, c, s) => Live(b, c, s)'
    BY <1>1, <1>4 DEF Live, Object
  <2>3. OwnMessage'
    BY <2>1, <1>1 DEF SafeInv, OwnMessage
  <2> QED
    BY <2>2, <2>3, <1>1, SilentStep
<1> QED
  BY <1>2, <1>3, <1>4 DEF PreprocessFree

\* store_mem_addr(): the object is in the table now.
LEMMA StoreSafe ==
    ASSUME SafeInv, OneThread, UNCHANGED trainerVars, StoreMemAddr(Main)
    PROVE  OwnMessage' /\ Ordered' /\ Accurate'
<1> DEFINE a == call[Main].addr
           d == call[Main].class
<1>0. /\ Main \in Threads /\ call \in [Threads -> Call]
      /\ mem_addrs \in [Class -> SUBSET Addr]
      /\ d \in Class /\ (a # Null => heap[a] = Object(d, call[Main].size))
  BY LiveFacts DEF SafeInv, StoreMemAddr
<1>1. /\ call[Main].at = "store" /\ UNCHANGED <<fifo, heap>>
      /\ mem_addrs' = [mem_addrs EXCEPT ![d] = @ \cup ({a} \ {Null})]
      /\ call'[Main].at = "run"
  BY <1>0 DEF StoreMemAddr, linkVars, Idle
<1>2. \A b \in Addr, c \in Class, s \in Nat : Live(b, c, s) => Live(b, c, s)'
  <2> SUFFICES ASSUME NEW b \in Addr, NEW c \in Class, NEW s \in Nat, Live(b, c, s)
               PROVE  b \in mem_addrs'[c]
    BY <1>1 DEF Live, Object
  <2>1. CASE b \in mem_addrs[c]
    BY <2>1, <1>0, <1>1
  <2>2. CASE b \notin mem_addrs[c]
    <3>1. b = a /\ a # Null
      BY <2>2, NullAssumption DEF Live
    <3>2. c = d
      BY <3>1, <1>0 DEF Live, Object
    <3> QED
      BY <3>1, <3>2, <1>0, <1>1
  <2> QED
    BY <2>1, <2>2
<1>3. OwnMessage'
  BY <1>1 DEF SafeInv, OwnMessage
<1> QED
  BY <1>1, <1>2, <1>3, SilentStep

\* write(): the message reaches the FIFO behind all that was said before.
LEMMA WriteSafe ==
    ASSUME SafeInv, OneThread, UNCHANGED trainerVars,
           \/ WriteMalloc(Main) \/ WriteMallocFails(Main)
           \/ WriteFree(Main) \/ WriteFreeFails(Main)
    PROVE  OwnMessage' /\ Ordered' /\ Accurate'
<1> DEFINE a == call[Main].addr
           d == call[Main].class
<1>0. /\ Main \in Threads /\ call \in [Threads -> Call]
      /\ mem_addrs \in [Class -> SUBSET Addr]
      /\ \A c \in Class : a \notin mem_addrs[c]
      /\ call[Main].at \in {"write_m", "store"} =>
            d \in Class /\ (a # Null => heap[a] = Object(d, call[Main].size))
  BY LiveFacts DEF SafeInv
<1>1. WriteMalloc(Main) \/ WriteFree(Main)
  BY DEF OneThread, WriteMallocFails, WriteFreeFails
<1>2. UNCHANGED <<heap, mem_addrs, obuf>>
  BY <1>1 DEF WriteMalloc, WriteFree
<1>3. obuf \in Msg
  BY <1>0, <1>1 DEF WriteMalloc, WriteFree, SafeInv, GeneralInv, HookInv, ObufWritten
<1>4. fifo' = Append(fifo, obuf)
  <2>1. CASE WriteMalloc(Main)
    <3>1. obuf.op = "m"
      BY <2>1 DEF WriteMalloc, SafeInv, OwnMessage, MMsg
    <3> QED
      BY <2>1, <3>1 DEF WriteMalloc, Written, SafeInv, OwnMessage
  <2>2. CASE WriteFree(Main)
    <3>1. obuf.op = "f"
      BY <2>2 DEF WriteFree, SafeInv, OwnMessage, FMsg
    <3> QED
      BY <2>2, <3>1 DEF WriteFree, Written, SafeInv, OwnMessage
  <2> QED
    BY <1>1, <2>1, <2>2
<1>5. fifo \in Seq(Msg) /\ fifo' \in Seq(Msg)
  BY <1>3, <1>4 DEF SafeInv, OwnMessage
<1>6. \A b \in Addr, c \in Class, s \in Nat : Tracked(b, c, s)' => Tracked(b, c, s)
  BY DEF trainerVars, Tracked
<1>7. CASE WriteMalloc(Main)
  <2>1. /\ call[Main].at = "write_m" /\ call'[Main].at = "store" /\ call'[Main].addr = a
        /\ obuf = MMsg(a, call[Main].size, d)
    BY <1>0, <1>7 DEF WriteMalloc, SafeInv, OwnMessage
  <2>2. ASSUME NEW b \in Addr, NEW c \in Class, NEW s \in Nat
        PROVE  /\ Live(b, c, s) => Live(b, c, s)'
               /\ obuf.addr = b => ~Live(b, c, s)
               /\ obuf = MMsg(b, s, c) => Live(b, c, s)'
    <3>1. Live(b, c, s) => b \in mem_addrs[c] /\ heap[b] = Object(c, s)
      BY <2>1 DEF Live
    <3>2. Live(b, c, s) => Live(b, c, s)'
      BY <3>1, <1>2 DEF Live, Object
    <3>3. obuf.addr = b => ~Live(b, c, s)
      BY <3>1, <2>1, <1>0 DEF MMsg
    <3>4. obuf = MMsg(b, s, c) => Live(b, c, s)'
      <4> SUFFICES ASSUME obuf = MMsg(b, s, c) PROVE Live(b, c, s)'
        OBVIOUS
      <4>1. a = b /\ d = c /\ call[Main].size = s
        BY <2>1 DEF MMsg
      <4>2. heap'[b] = Object(c, s)
        BY <4>1, <2>1, <1>0, <1>2, NullAssumption
      <4> QED
        BY <4>1, <4>2, <2>1 DEF Live, Object
    <3> QED
      BY <3>2, <3>3, <3>4
  <2>3. Ordered' /\ Accurate'
    BY <1>3, <1>4, <1>5, <1>6, <2>2, StreamAppend DEF SafeInv
  <2>4. OwnMessage'
    BY <2>1, <1>5 DEF OwnMessage
  <2> QED
    BY <2>3, <2>4
<1>8. CASE WriteFree(Main)
  <2>1. /\ call[Main].at = "write_f" /\ call'[Main].at = "orig" /\ call'[Main].addr = a
        /\ obuf = FMsg(a)
    BY <1>0, <1>8 DEF WriteFree, SafeInv, OwnMessage
  <2>2. ASSUME NEW b \in Addr, NEW c \in Class, NEW s \in Nat
        PROVE  /\ Live(b, c, s) /\ obuf # FMsg(b) => Live(b, c, s)'
               /\ obuf.op # "m" /\ obuf # MMsg(b, s, c)
    <3>1. Live(b, c, s) /\ obuf # FMsg(b) => b \in mem_addrs[c] /\ heap[b] = Object(c, s)
      BY <2>1 DEF Live
    <3>2. obuf.op # "m" /\ obuf # MMsg(b, s, c)
      BY <2>1 DEF FMsg, MMsg
    <3> QED
      BY <3>1, <3>2, <1>2 DEF Live, Object
  <2>3. Ordered' /\ Accurate'
    BY <1>3, <1>4, <1>5, <1>6, <2>2, StreamAppend DEF SafeInv
  <2>4. OwnMessage'
    BY <2>1, <1>5 DEF OwnMessage
  <2> QED
    BY <2>3, <2>4
<1> QED
  BY <1>1, <1>7, <1>8

\* A step of the game, which is not stopped.
LEMMA GameSafe ==
    ASSUME SafeInv, OneThread, NEW t \in Threads, GameStep(t)
    PROVE  SafeInv'
<1>1. t = Main /\ HookStep(Main) /\ ~attached /\ UNCHANGED trainerVars
  BY DEF GameStep, Running, OneThread
<1>2. OwnMessage' /\ Ordered' /\ Accurate'
  BY <1>1, OriginalSafe, PrologueSafe, StoreSafe, WriteSafe DEF HookStep
<1>3. attached' = attached
  BY <1>1 DEF HookStep, Malloc, WriteMalloc, WriteMallocFails, StoreMemAddr, FreeCall,
              ReallocCall, WriteFree, WriteFreeFails, OrigFree, OrigRealloc, linkVars
<1>4. Frozen'
  BY <1>1, <1>3 DEF SafeInv, Frozen, trainerVars
<1>5. NoDuplicates'
  BY <1>1 DEF SafeInv, NoDuplicates, LiveIdx, trainerVars
<1>6. GeneralInv'
  BY GeneralNext DEF Next, SafeInv
<1> QED
  BY <1>2, <1>4, <1>5, <1>6 DEF SafeInv

-----------------------------------------------------------------------------
\* The trainer's steps change nothing of the game.
LEMMA GameSame ==
    ASSUME UNCHANGED hookVars, NEW a, NEW c, NEW s, Live(a, c, s)
    PROVE  Live(a, c, s)'
  BY DEF hookVars, Live, Object

\* Less is tracked when objects are marked to be erased.
LEMMA MarkedLess ==
    ASSUME NoDuplicates, UNCHANGED mq,
           \A c \in Class :
               /\ DOMAIN v_maddr'[c] = DOMAIN v_maddr[c]
               /\ \A k \in DOMAIN v_maddr[c] :
                     \/ v_maddr'[c][k] = Null
                     \/ v_maddr'[c][k] = v_maddr[c][k] /\ v_msize'[c][k] = v_msize[c][k]
    PROVE  /\ NoDuplicates'
           /\ \A a \in Addr, c \in Class, s \in Nat : Tracked(a, c, s)' => Tracked(a, c, s)
<1>1. \A c \in Class : \A k \in LiveIdx(c)' :
          k \in LiveIdx(c) /\ v_maddr'[c][k] = v_maddr[c][k]
  BY DEF LiveIdx
<1>2. NoDuplicates'
  BY <1>1 DEF NoDuplicates
<1>3. \A a \in Addr, c \in Class, s \in Nat : Tracked(a, c, s)' => Tracked(a, c, s)
  BY NullAssumption DEF Tracked
<1> QED
  BY <1>2, <1>3

\* free_dynmem() forgets marked objects only.
LEMMA FreedLess ==
    ASSUME GeneralInv, NoDuplicates, UNCHANGED mq, FreeDynmem
    PROVE  /\ NoDuplicates'
           /\ \A a \in Addr, c \in Class, s \in Nat : Tracked(a, c, s)' => Tracked(a, c, s)
<1> DEFINE N(c, j) == Nth(LiveIdx(c), j)
<1>1. ASSUME NEW c \in Class
      PROVE  /\ DOMAIN v_maddr'[c] = 1..Cardinality(LiveIdx(c))
             /\ \A j \in DOMAIN v_maddr'[c] :
                   /\ N(c, j) \in LiveIdx(c)
                   /\ v_maddr'[c][j] = v_maddr[c][N(c, j)]
                   /\ v_msize'[c][j] = v_msize[c][N(c, j)]
             /\ \A j, k \in DOMAIN v_maddr'[c] : N(c, j) = N(c, k) => j = k
  <2>1. /\ v_maddr[c] \in Seq(Addr \cup {Null}) /\ v_msize[c] \in Seq(Nat)
        /\ Len(v_msize[c]) = Len(v_maddr[c])
    BY DEF GeneralInv, TrainerInv, TrainerTypeOK, SameLength
  <2>2. /\ LiveIdx(c) \subseteq DOMAIN v_maddr[c]
        /\ LiveIdx(c) \subseteq DOMAIN v_msize[c]
        /\ LiveIdx(c) \subseteq 1..Len(v_maddr[c]) /\ Len(v_maddr[c]) \in Nat
    BY <2>1 DEF LiveIdx
  <2>3. v_maddr'[c] = Keep(v_maddr[c], LiveIdx(c)) /\ v_msize'[c] = Keep(v_msize[c], LiveIdx(c))
    BY DEF FreeDynmem
  <2>4. /\ DOMAIN Keep(v_maddr[c], LiveIdx(c)) = 1..Cardinality(LiveIdx(c))
        /\ \A j \in DOMAIN Keep(v_maddr[c], LiveIdx(c)) :
              N(c, j) \in LiveIdx(c) /\ Keep(v_maddr[c], LiveIdx(c))[j] = v_maddr[c][N(c, j)]
    BY <2>1, <2>2, KeepType
  <2>5. /\ DOMAIN Keep(v_msize[c], LiveIdx(c)) = 1..Cardinality(LiveIdx(c))
        /\ \A j \in DOMAIN Keep(v_msize[c], LiveIdx(c)) :
              Keep(v_msize[c], LiveIdx(c))[j] = v_msize[c][N(c, j)]
    BY <2>1, <2>2, KeepType
  <2>6. \A j, k \in 1..Cardinality(LiveIdx(c)) : N(c, j) = N(c, k) => j = k
    BY <2>2, NthInjective
  <2> HIDE DEF N
  <2> QED
    BY <2>3, <2>4, <2>5, <2>6
<1> HIDE DEF N
<1>2. \A c \in Class : \A j \in LiveIdx(c)' : j \in DOMAIN v_maddr'[c]
  BY DEF LiveIdx
<1>3. NoDuplicates'
  <2>1. \A c, d \in Class : \A i \in LiveIdx(c)', j \in LiveIdx(d)' :
            v_maddr'[c][i] = v_maddr'[d][j] => c = d /\ i = j
    <3> SUFFICES ASSUME NEW c \in Class, NEW d \in Class, NEW i \in LiveIdx(c)',
                        NEW j \in LiveIdx(d)', v_maddr'[c][i] = v_maddr'[d][j]
                 PROVE  c = d /\ i = j
      OBVIOUS
    <3>1. /\ N(c, i) \in LiveIdx(c) /\ N(d, j) \in LiveIdx(d)
          /\ v_maddr[c][N(c, i)] = v_maddr[d][N(d, j)]
      BY <1>1, <1>2
    <3>2. c = d /\ N(c, i) = N(d, j)
      BY <3>1 DEF NoDuplicates
    <3> QED
      BY <3>2, <1>1, <1>2
  <2>2. \A i \in DOMAIN mq : \A c \in Class : \A j \in LiveIdx(c)' :
            mq[i].addr # v_maddr'[c][j]
    BY <1>1, <1>2 DEF NoDuplicates
  <2>3. \A i, j \in DOMAIN mq : mq[i].addr = mq[j].addr /\ mq[i].addr # Null => i = j
    BY DEF NoDuplicates
  <2> QED
    BY <2>1, <2>2, <2>3 DEF NoDuplicates
<1>4. \A a \in Addr, c \in Class, s \in Nat : Tracked(a, c, s)' => Tracked(a, c, s)
  <2> SUFFICES ASSUME NEW a \in Addr, NEW c \in Class, NEW s \in Nat, Tracked(a, c, s)'
               PROVE  Tracked(a, c, s)
    OBVIOUS
  <2>1. CASE \E i \in DOMAIN v_maddr'[c] : v_maddr'[c][i] = a /\ v_msize'[c][i] = s
    <3>1. PICK i \in DOMAIN v_maddr'[c] : v_maddr'[c][i] = a /\ v_msize'[c][i] = s
      BY <2>1
    <3>2. N(c, i) \in DOMAIN v_maddr[c]
      BY <1>1 DEF LiveIdx
    <3> QED
      BY <3>1, <3>2, <1>1 DEF Tracked
  <2>2. CASE \E i \in DOMAIN mq : mq[i] = MMsg(a, s, c)
    BY <2>2 DEF Tracked
  <2> QED
    BY <2>1, <2>2 DEF Tracked
<1> QED
  BY <1>3, <1>4

\* Whatever the trainer holds at an address is tracked.
LEMMA HeldTracked ==
    ASSUME GeneralInv
    PROVE  /\ \A i \in DOMAIN mq :
                 /\ mq[i] = MMsg(mq[i].addr, mq[i].size, mq[i].class)
                 /\ mq[i].addr \in Addr \cup {Null} /\ mq[i].size \in Nat /\ mq[i].class \in Class
                 /\ Tracked(mq[i].addr, mq[i].class, mq[i].size)
           /\ \A c \in Class : \A j \in LiveIdx(c) :
                 /\ j \in DOMAIN v_maddr[c]
                 /\ v_maddr[c][j] \in Addr /\ v_msize[c][j] \in Nat
                 /\ Tracked(v_maddr[c][j], c, v_msize[c][j])
<1>1. \A m \in MallocMsg : /\ m = MMsg(m.addr, m.size, m.class)
                          /\ m.addr \in Addr \cup {Null} /\ m.size \in Nat /\ m.class \in Class
  BY DEF MallocMsg, MMsg
<1>2. \A i \in DOMAIN mq : mq[i] \in MallocMsg
  BY DEF GeneralInv, TrainerInv, TrainerTypeOK
<1>3. ASSUME NEW c \in Class, NEW j \in LiveIdx(c)
      PROVE  j \in DOMAIN v_maddr[c] /\ v_maddr[c][j] \in Addr /\ v_msize[c][j] \in Nat
  <2>1. /\ v_maddr[c] \in Seq(Addr \cup {Null}) /\ v_msize[c] \in Seq(Nat)
        /\ Len(v_msize[c]) = Len(v_maddr[c])
    BY DEF GeneralInv, TrainerInv, TrainerTypeOK, SameLength
  <2>2. j \in DOMAIN v_maddr[c] /\ v_maddr[c][j] # Null
    BY DEF LiveIdx
  <2> QED
    BY <2>1, <2>2
<1> QED
  BY <1>1, <1>2, <1>3 DEF Tracked

\* read_dynmem_fifo(): what is heard of is tracked once, what is freed no more.
LEMMA ReadSafe ==
    ASSUME SafeInv, UNCHANGED hookVars, ReadDynmemFifo
    PROVE  NoDuplicates' /\ Ordered' /\ Accurate'
<1> SUFFICES ASSUME NEW CONSTANT h, NEW CONSTANT a, h = Head(fifo), a = h.addr
             PROVE  NoDuplicates' /\ Ordered' /\ Accurate'
  OBVIOUS
<1>0. /\ fifo \in Seq(Msg) /\ fifo # <<>> /\ fifo' = Tail(fifo)
      /\ h \in Msg /\ h = fifo[1] /\ 1 \in 1..Len(fifo)
  BY DEF SafeInv, OwnMessage, ReadDynmemFifo
<1>1. \A b \in Addr, c \in Class, s \in Nat : Live(b, c, s) => Live(b, c, s)'
  BY GameSame
<1>2. GeneralInv /\ NoDuplicates
  BY DEF SafeInv
\* What has to be shown of each way to take over the message.
<1>3. ASSUME \A b \in Addr, c \in Class, s \in Nat :
                 Tracked(b, c, s)' => (Tracked(b, c, s) /\ h # FMsg(b)) \/ h = MMsg(b, s, c)
      PROVE  Ordered' /\ Accurate'
  BY <1>0, <1>1, <1>3, StreamRead DEF SafeInv
<1>4. CASE h.op = "m" /\ QueueDynmemAddr(h)
  <2>1. h \in MallocMsg /\ \A b \in Addr : h # FMsg(b)
    BY <1>0, <1>4 DEF Msg, FreeMsg, FMsg
  <2>2. a \in Addr => \A c \in Class, s \in Nat : ~Tracked(a, c, s)
    <3> SUFFICES ASSUME a \in Addr, NEW c \in Class, NEW s \in Nat, Tracked(a, c, s)
                 PROVE  FALSE
      OBVIOUS
    <3>1. Holds(a, c, s, 0) /\ 0 \in 0..Len(fifo) /\ 1 \in (0 + 1)..Len(fifo)
      BY <1>0 DEF Holds
    <3>2. \E k \in (0 + 1)..(1 - 1) : fifo[k] = FMsg(a)
      BY <3>1, <1>0, <1>4 DEF SafeInv, Ordered
    <3> QED
      BY <3>2
  <2>3. /\ a \in Addr \cup {Null}
        /\ a # Null => /\ \A i \in DOMAIN mq : mq[i].addr # a
                       /\ \A c \in Class : \A j \in LiveIdx(c) : v_maddr[c][j] # a
    <3>1. a \in Addr \cup {Null}
      BY <2>1 DEF MallocMsg
    <3> QED
      BY <3>1, <2>2, <1>2, HeldTracked
  <2>4. /\ mq \in Seq(MallocMsg)
        /\ UNCHANGED <<v_maddr, v_msize>>
        /\ mq' = mq \/ mq' = Append(mq, h)
    BY <1>2, <1>4 DEF QueueDynmemAddr, GeneralInv, TrainerInv, TrainerTypeOK
  <2>5. CASE mq' = mq
    <3>1. NoDuplicates'
      BY <2>4, <2>5, <1>2 DEF NoDuplicates, LiveIdx
    <3>2. \A b \in Addr, c \in Class, s \in Nat : Tracked(b, c, s)' => Tracked(b, c, s)
      BY <2>4, <2>5 DEF Tracked
    <3> QED
      BY <3>1, <3>2, <2>1, <1>3
  <2>6. CASE mq' = Append(mq, h)
    <3>1. \A i \in DOMAIN mq' : (i \in DOMAIN mq /\ mq'[i] = mq[i]) \/ (i = Len(mq) + 1 /\ mq'[i] = h)
      BY <2>4, <2>6
    <3>2. NoDuplicates'
      <4>1. \A i, j \in DOMAIN mq' : mq'[i].addr = mq'[j].addr /\ mq'[i].addr # Null => i = j
        BY <3>1, <2>3, <1>2 DEF NoDuplicates
      <4>2. \A i \in DOMAIN mq' : \A c \in Class : \A j \in LiveIdx(c) : mq'[i].addr # v_maddr[c][j]
        BY <3>1, <2>3, <1>2 DEF NoDuplicates, LiveIdx
      <4> QED
        BY <4>1, <4>2, <2>4, <1>2 DEF NoDuplicates, LiveIdx
    <3>3. \A b \in Addr, c \in Class, s \in Nat :
              Tracked(b, c, s)' => Tracked(b, c, s) \/ h = MMsg(b, s, c)
      BY <3>1, <2>4 DEF Tracked
    <3> QED
      BY <3>2, <3>3, <2>1, <1>3
  <2> QED
    BY <2>4, <2>5, <2>6
<1>5. CASE h.op = "f" /\ ClearDynmemAddr(a)
  <2>1. a \in Addr /\ a # Null /\ h = FMsg(a) /\ \A b \in Addr : h = FMsg(b) => b = a
    <3>1. h \in FreeMsg
      BY <1>0, <1>5 DEF Msg, MallocMsg
    <3> QED
      BY <3>1, NullAssumption DEF FreeMsg, FMsg
  \* Less is tracked, and nothing at the address.
  <2>2. ASSUME NoDuplicates',
               \A b \in Addr, c \in Class, s \in Nat : Tracked(b, c, s)' => Tracked(b, c, s),
               \A c \in Class, s \in Nat : ~Tracked(a, c, s)'
        PROVE  NoDuplicates' /\ Ordered' /\ Accurate'
    <3>1. \A b \in Addr, c \in Class, s \in Nat :
              Tracked(b, c, s)' => Tracked(b, c, s) /\ h # FMsg(b)
      BY <2>1, <2>2
    <3> QED
      BY <3>1, <2>2, <1>3
  <2>3. ASSUME NEW q \in DOMAIN mq, mq[q].addr = a, RemoveMallocFromQueue(a),
               UNCHANGED <<v_maddr, v_msize>>
        PROVE  NoDuplicates' /\ Ordered' /\ Accurate'
    <3> DEFINE hits == {i \in DOMAIN mq : mq[i].addr = a}
               K == DOMAIN mq \ {q}
    <3>1. hits = {q}
      BY <2>1, <2>3, <1>2 DEF NoDuplicates
    <3>2. (CHOOSE i \in hits : \A k \in hits : i <= k) = q
      <4>1. q \in Nat
        BY <2>3, <1>2 DEF GeneralInv, TrainerInv, TrainerTypeOK
      <4> HIDE DEF hits
      <4> QED
        BY <3>1, <4>1
    <3>3. mq' = Keep(mq, K)
      BY <2>3, <3>2 DEF RemoveMallocFromQueue
    <3>4. mq \in Seq(MallocMsg) /\ K \subseteq DOMAIN mq /\ K \subseteq 1..Len(mq) /\ Len(mq) \in Nat
      BY <1>2 DEF GeneralInv, TrainerInv, TrainerTypeOK
    <3>5. /\ \A j \in DOMAIN mq' : Nth(K, j) \in DOMAIN mq /\ Nth(K, j) # q
                                   /\ mq'[j] = mq[Nth(K, j)]
          /\ \A i, j \in DOMAIN mq' : Nth(K, i) = Nth(K, j) => i = j
      <4>1. /\ DOMAIN Keep(mq, K) = 1..Cardinality(K)
            /\ \A j \in DOMAIN Keep(mq, K) : Nth(K, j) \in K /\ Keep(mq, K)[j] = mq[Nth(K, j)]
        BY <3>4, KeepType
      <4>2. \A i, j \in 1..Cardinality(K) : Nth(K, i) = Nth(K, j) => i = j
        BY <3>4, NthInjective
      <4> QED
        BY <3>3, <4>1, <4>2
    <3> HIDE DEF hits, K
    <3>6. NoDuplicates'
      <4>1. \A i, j \in DOMAIN mq' : mq'[i].addr = mq'[j].addr /\ mq'[i].addr # Null => i = j
        BY <3>5, <1>2 DEF NoDuplicates
      <4>2. \A i \in DOMAIN mq' : \A c \in Class : \A j \in LiveIdx(c) : mq'[i].addr # v_maddr[c][j]
        BY <3>5, <1>2 DEF NoDuplicates
      <4> QED
        BY <4>1, <4>2, <2>3, <1>2 DEF NoDuplicates, LiveIdx
    <3>7. \A b \in Addr, c \in Class, s \in Nat : Tracked(b, c, s)' => Tracked(b, c, s)
      BY <3>5, <2>3 DEF Tracked
    <3>8. ASSUME NEW c \in Class, NEW s \in Nat, Tracked(a, c, s)'
          PROVE  FALSE
      <4>1. \A i \in DOMAIN mq' : mq'[i].addr # a
        BY <3>5, <2>1, <2>3, <1>2 DEF NoDuplicates
      <4>2. \A i \in DOMAIN mq' : mq'[i] # MMsg(a, s, c)
        BY <4>1 DEF MMsg
      <4>3. \A j \in DOMAIN v_maddr[c] : v_maddr[c][j] # a
        BY <2>1, <2>3, <1>2 DEF NoDuplicates, LiveIdx
      <4> QED
        BY <4>2, <4>3, <3>8, <2>3 DEF Tracked
    <3> QED
      BY <3>6, <3>7, <3>8, <2>2
  <2>4. ASSUME \A i \in DOMAIN mq : mq[i].addr # a, UNCHANGED mq,
               NEW d \in Class, NEW i \in DOMAIN v_maddr[d], v_maddr[d][i] = a,
               v_maddr' = [v_maddr EXCEPT ![d][i] = Null],
               v_msize' = [v_msize EXCEPT ![d][i] = 0]
        PROVE  NoDuplicates' /\ Ordered' /\ Accurate'
    <3>1. /\ v_maddr \in [Class -> Seq(Addr \cup {Null})] /\ v_msize \in [Class -> Seq(Nat)]
          /\ \A c \in Class : DOMAIN v_msize[c] = DOMAIN v_maddr[c]
      BY <1>2 DEF GeneralInv, TrainerInv, TrainerTypeOK, SameLength
    <3>2. /\ \A c \in Class : DOMAIN v_maddr'[c] = DOMAIN v_maddr[c]
          /\ v_maddr'[d][i] = Null
          /\ \A c \in Class : \A k \in DOMAIN v_maddr[c] : ~(c = d /\ k = i) =>
                v_maddr'[c][k] = v_maddr[c][k] /\ v_msize'[c][k] = v_msize[c][k]
      BY <3>1, <2>4
    <3>3. /\ NoDuplicates'
          /\ \A b \in Addr, c \in Class, s \in Nat : Tracked(b, c, s)' => Tracked(b, c, s)
      <4>1. \A c \in Class :
               /\ DOMAIN v_maddr'[c] = DOMAIN v_maddr[c]
               /\ \A k \in DOMAIN v_maddr[c] :
                     \/ v_maddr'[c][k] = Null
                     \/ v_maddr'[c][k] = v_maddr[c][k] /\ v_msize'[c][k] = v_msize[c][k]
        BY <3>2
      <4> QED
        BY <4>1, <2>4, <1>2, MarkedLess
    <3>4. ASSUME NEW c \in Class, NEW s \in Nat, Tracked(a, c, s)'
          PROVE  FALSE
      <4>1. \A k \in DOMAIN mq' : mq'[k] # MMsg(a, s, c)
        BY <2>4 DEF MMsg
      <4>2. PICK k \in DOMAIN v_maddr[c] : v_maddr'[c][k] = a
        BY <4>1, <3>2, <3>4 DEF Tracked
      <4>3. v_maddr[c][k] = a /\ ~(c = d /\ k = i)
        BY <4>2, <3>2, <2>1
      <4>4. k \in LiveIdx(c) /\ i \in LiveIdx(d)
        BY <4>2, <4>3, <2>1, <2>4 DEF LiveIdx
      <4> QED
        BY <4>3, <4>4, <2>4, <1>2 DEF NoDuplicates
    <3> QED
      BY <3>3, <3>4, <2>2
  <2>5. CASE /\ \A i \in DOMAIN mq : mq[i].addr # a
             /\ \A c \in Class : \A i \in DOMAIN v_maddr[c] : v_maddr[c][i] # a
             /\ UNCHANGED <<mq, v_maddr, v_msize>>
    <3>1. NoDuplicates'
      BY <2>5, <1>2 DEF NoDuplicates, LiveIdx
    <3>2. \A b \in Addr, c \in Class, s \in Nat : Tracked(b, c, s)' => Tracked(b, c, s)
      BY <2>5 DEF Tracked
    <3>3. \A c \in Class, s \in Nat : ~Tracked(a, c, s)'
      BY <2>5 DEF Tracked, MMsg
    <3> QED
      BY <3>1, <3>2, <3>3, <2>2
  <2> QED
    BY <1>5, <2>3, <2>4, <2>5 DEF ClearDynmemAddr
<1> QED
  BY <1>4, <1>5 DEF ReadDynmemFifo

\* process_mallocs(): what was queued gets a slot, and leaves the queue.
LEMMA MallocsSafe ==
    ASSUME SafeInv, UNCHANGED hookVars, ProcessMallocs
    PROVE  NoDuplicates' /\ Ordered' /\ Accurate'
<1> DEFINE Of(c) == {i \in DOMAIN mq : mq[i].class = c}
           New(c) == Keep(mq, Of(c))
           adds(c) == [j \in DOMAIN New(c) |-> New(c)[j].addr]
           sizes(c) == [j \in DOMAIN New(c) |-> New(c)[j].size]
           Q(c, k) == Nth(Of(c), k - Len(v_maddr[c]))
<1>0. GeneralInv /\ NoDuplicates /\ mq' = <<>> /\ UNCHANGED fifo
  BY DEF SafeInv, ProcessMallocs, linkVars
\* Where the slots of a class come from.
<1>1. ASSUME NEW c \in Class
      PROVE  /\ \A k \in DOMAIN v_maddr'[c] :
                   IF k \in DOMAIN v_maddr[c]
                   THEN v_maddr'[c][k] = v_maddr[c][k] /\ v_msize'[c][k] = v_msize[c][k]
                   ELSE /\ Q(c, k) \in DOMAIN mq /\ mq[Q(c, k)].class = c
                        /\ v_maddr'[c][k] = mq[Q(c, k)].addr
                        /\ v_msize'[c][k] = mq[Q(c, k)].size
             /\ \A k, l \in DOMAIN v_maddr'[c] :
                   k \notin DOMAIN v_maddr[c] /\ l \notin DOMAIN v_maddr[c] /\ Q(c, k) = Q(c, l)
                      => k = l
  <2>1. /\ mq \in Seq(MallocMsg) /\ Of(c) \subseteq DOMAIN mq
        /\ Of(c) \subseteq 1..Len(mq) /\ Len(mq) \in Nat
    BY <1>0 DEF GeneralInv, TrainerInv, TrainerTypeOK
  <2>2. /\ New(c) \in Seq(MallocMsg) /\ DOMAIN New(c) = 1..Cardinality(Of(c))
        /\ Cardinality(Of(c)) \in Nat
        /\ \A j \in DOMAIN New(c) : Nth(Of(c), j) \in Of(c) /\ New(c)[j] = mq[Nth(Of(c), j)]
    BY <2>1, KeepType
  <2>3. \A j, k \in 1..Cardinality(Of(c)) : Nth(Of(c), j) = Nth(Of(c), k) => j = k
    BY <2>1, NthInjective
  <2>4. v_maddr'[c] = v_maddr[c] \o adds(c) /\ v_msize'[c] = v_msize[c] \o sizes(c)
    BY DEF ProcessMallocs
  <2>5. /\ v_maddr[c] \in Seq(Addr \cup {Null}) /\ v_msize[c] \in Seq(Nat)
        /\ Len(v_msize[c]) = Len(v_maddr[c]) /\ Len(v_maddr[c]) \in Nat
    BY <1>0 DEF GeneralInv, TrainerInv, TrainerTypeOK, SameLength
  <2>6. /\ DOMAIN adds(c) = DOMAIN New(c) /\ DOMAIN sizes(c) = DOMAIN New(c)
        /\ \A j \in DOMAIN New(c) : adds(c)[j] = New(c)[j].addr /\ sizes(c)[j] = New(c)[j].size
    OBVIOUS
  <2>7. \A i \in Of(c) : i \in DOMAIN mq /\ mq[i].class = c
    OBVIOUS
  <2>8. \A j \in DOMAIN New(c) : New(c)[j].addr \in Addr \cup {Null} /\ New(c)[j].size \in Nat
    BY <2>2, <2>7, <1>0, HeldTracked
  <2> HIDE DEF Of, New
  <2>9. adds(c) \in Seq(Addr \cup {Null}) /\ sizes(c) \in Seq(Nat)
        /\ Len(sizes(c)) = Len(adds(c))
    BY <2>2, <2>8
  <2> HIDE DEF adds, sizes
  <2>10. \A k \in DOMAIN v_maddr'[c] :
            IF k \in DOMAIN v_maddr[c] THEN v_maddr'[c][k] = v_maddr[c][k]
            ELSE /\ k - Len(v_maddr[c]) \in DOMAIN New(c)
                 /\ v_maddr'[c][k] = adds(c)[k - Len(v_maddr[c])]
    <3> DEFINE S == Addr \cup {Null}
    <3>1. v_maddr[c] \in Seq(S) /\ adds(c) \in Seq(S)
      BY <2>5, <2>9
    <3> HIDE DEF S
    <3> QED
      BY <3>1, <2>4, <2>6, ConcatKeeps
  <2>11. \A k \in DOMAIN v_msize'[c] :
            IF k \in DOMAIN v_msize[c] THEN v_msize'[c][k] = v_msize[c][k]
            ELSE v_msize'[c][k] = sizes(c)[k - Len(v_msize[c])]
    <3> DEFINE S == Nat
    <3>1. v_msize[c] \in Seq(S) /\ sizes(c) \in Seq(S)
      BY <2>5, <2>9
    <3> HIDE DEF S
    <3> QED
      BY <3>1, <2>4, ConcatKeeps
  <2>12. DOMAIN v_msize'[c] = DOMAIN v_maddr'[c] /\ DOMAIN v_msize[c] = DOMAIN v_maddr[c]
    <3> DEFINE S == Addr \cup {Null}
               T == Nat
    <3>1. /\ v_maddr[c] \in Seq(S) /\ adds(c) \in Seq(S)
          /\ v_msize[c] \in Seq(T) /\ sizes(c) \in Seq(T)
      BY <2>5, <2>9
    <3> HIDE DEF S, T
    <3>2. /\ v_maddr'[c] \in Seq(S) /\ Len(v_maddr'[c]) = Len(v_maddr[c]) + Len(adds(c))
      BY <3>1, <2>4, ConcatKeeps
    <3>3. /\ v_msize'[c] \in Seq(T) /\ Len(v_msize'[c]) = Len(v_msize[c]) + Len(sizes(c))
      BY <3>1, <2>4, ConcatKeeps
    <3>4. Len(v_msize'[c]) = Len(v_maddr'[c])
      BY <3>2, <3>3, <2>5, <2>9
    <3>5. /\ DOMAIN v_maddr'[c] = 1..Len(v_maddr'[c]) /\ DOMAIN v_msize'[c] = 1..Len(v_msize'[c])
          /\ DOMAIN v_maddr[c] = 1..Len(v_maddr[c]) /\ DOMAIN v_msize[c] = 1..Len(v_msize[c])
      BY <3>1, <3>2, <3>3
    <3> QED
      BY <3>4, <3>5, <2>5
  <2>13. \A k \in DOMAIN v_maddr'[c] : k \in Int
    BY <2>4, <2>5, <2>9
  <2>14. \A k \in DOMAIN v_maddr'[c] : k \notin DOMAIN v_maddr[c] =>
            /\ Q(c, k) \in Of(c)
            /\ v_maddr'[c][k] = mq[Q(c, k)].addr /\ v_msize'[c][k] = mq[Q(c, k)].size
    BY <2>2, <2>5, <2>6, <2>10, <2>11, <2>12
  <2>15. \A k, l \in DOMAIN v_maddr'[c] :
            k \notin DOMAIN v_maddr[c] /\ l \notin DOMAIN v_maddr[c] /\ Q(c, k) = Q(c, l) => k = l
    <3> SUFFICES ASSUME NEW k \in DOMAIN v_maddr'[c], NEW l \in DOMAIN v_maddr'[c],
                        k \notin DOMAIN v_maddr[c], l \notin DOMAIN v_maddr[c], Q(c, k) = Q(c, l)
                 PROVE  k = l
      OBVIOUS
    <3>1. k - Len(v_maddr[c]) = l - Len(v_maddr[c])
      BY <2>2, <2>3, <2>10
    <3> QED
      BY <3>1, <2>5, <2>13
  <2> HIDE DEF Q
  <2> QED
    BY <2>7, <2>10, <2>11, <2>12, <2>14, <2>15
<1> HIDE DEF Of, New, adds, sizes, Q
<1>2. \A c \in Class : \A k \in LiveIdx(c)' :
          /\ k \in DOMAIN v_maddr'[c] /\ v_maddr'[c][k] # Null
          /\ k \in DOMAIN v_maddr[c] => k \in LiveIdx(c)
  BY <1>1 DEF LiveIdx
<1>3. NoDuplicates'
  <2>1. ASSUME NEW c \in Class, NEW d \in Class, NEW i \in LiveIdx(c)', NEW j \in LiveIdx(d)',
               v_maddr'[c][i] = v_maddr'[d][j]
        PROVE  c = d /\ i = j
    <3>1. CASE i \in DOMAIN v_maddr[c] /\ j \in DOMAIN v_maddr[d]
      BY <3>1, <2>1, <1>0, <1>1, <1>2 DEF NoDuplicates
    <3>2. CASE i \in DOMAIN v_maddr[c] /\ j \notin DOMAIN v_maddr[d]
      BY <3>2, <2>1, <1>0, <1>1, <1>2 DEF NoDuplicates
    <3>3. CASE i \notin DOMAIN v_maddr[c] /\ j \in DOMAIN v_maddr[d]
      BY <3>3, <2>1, <1>0, <1>1, <1>2 DEF NoDuplicates
    <3>4. CASE i \notin DOMAIN v_maddr[c] /\ j \notin DOMAIN v_maddr[d]
      <4>1. /\ Q(c, i) \in DOMAIN mq /\ Q(d, j) \in DOMAIN mq
            /\ mq[Q(c, i)].addr = mq[Q(d, j)].addr /\ mq[Q(c, i)].addr # Null
            /\ mq[Q(c, i)].class = c /\ mq[Q(d, j)].class = d
        BY <3>4, <2>1, <1>1, <1>2
      <4>2. Q(c, i) = Q(d, j)
        BY <4>1, <1>0 DEF NoDuplicates
      <4> QED
        BY <4>1, <4>2, <3>4, <1>1, <1>2
    <3> QED
      BY <3>1, <3>2, <3>3, <3>4
  <2>2. DOMAIN mq' = {}
    BY <1>0
  <2> QED
    BY <2>1, <2>2 DEF NoDuplicates
<1>4. \A a \in Addr, c \in Class, s \in Nat : Tracked(a, c, s)' => Tracked(a, c, s)
  <2> SUFFICES ASSUME NEW a \in Addr, NEW c \in Class, NEW s \in Nat, Tracked(a, c, s)'
               PROVE  Tracked(a, c, s)
    OBVIOUS
  <2>1. PICK k \in DOMAIN v_maddr'[c] : v_maddr'[c][k] = a /\ v_msize'[c][k] = s
    BY <1>0 DEF Tracked
  <2>2. CASE k \in DOMAIN v_maddr[c]
    BY <2>1, <2>2, <1>1 DEF Tracked
  <2>3. CASE k \notin DOMAIN v_maddr[c]
    <3>1. Q(c, k) \in DOMAIN mq /\ mq[Q(c, k)] = MMsg(a, s, c)
      BY <2>1, <2>3, <1>0, <1>1, HeldTracked
    <3> QED
      BY <3>1 DEF Tracked
  <2> QED
    BY <2>2, <2>3
<1>5. \A a \in Addr, c \in Class, s \in Nat : Live(a, c, s) => Live(a, c, s)'
  BY GameSame
<1> QED
  BY <1>0, <1>3, <1>4, <1>5, StreamSame DEF SafeInv

\* process_act_cfg() may zero an object (a failed object check), free_dynmem()
\* erases zeroed ones and alloc_dynmem() touches values only.
LEMMA VectorsSafe ==
    ASSUME SafeInv, UNCHANGED hookVars,
           ProcessObject \/ AllocDynmem \/ FreeDynmemEarly \/ FreeDynmemLate
    PROVE  NoDuplicates' /\ Ordered' /\ Accurate'
<1>0. GeneralInv /\ NoDuplicates /\ UNCHANGED <<fifo, mq>>
  BY DEF SafeInv, ProcessObject, AllocDynmem, FreeDynmemEarly, FreeDynmemLate, linkVars
<1>1. /\ NoDuplicates'
      /\ \A a \in Addr, c \in Class, s \in Nat : Tracked(a, c, s)' => Tracked(a, c, s)
  <2>1. CASE FreeDynmemEarly \/ FreeDynmemLate
    BY <2>1, <1>0, FreedLess DEF FreeDynmemEarly, FreeDynmemLate
  <2>2. CASE ProcessObject \/ AllocDynmem
    <3>1. /\ v_maddr \in [Class -> Seq(Addr \cup {Null})] /\ UNCHANGED v_msize
          /\ v_maddr' = v_maddr \/ \E c, i : v_maddr' = [v_maddr EXCEPT ![c][i] = Null]
      BY <2>2, <1>0 DEF GeneralInv, TrainerInv, TrainerTypeOK, ProcessObject, AllocDynmem
    <3>2. \A c \in Class :
             /\ DOMAIN v_maddr'[c] = DOMAIN v_maddr[c]
             /\ \A k \in DOMAIN v_maddr[c] :
                   \/ v_maddr'[c][k] = Null
                   \/ v_maddr'[c][k] = v_maddr[c][k] /\ v_msize'[c][k] = v_msize[c][k]
      <4>1. CASE v_maddr' = v_maddr
        BY <4>1, <3>1
      <4>2. ASSUME NEW d, NEW i, v_maddr' = [v_maddr EXCEPT ![d][i] = Null]
            PROVE  \A c \in Class :
                      /\ DOMAIN v_maddr'[c] = DOMAIN v_maddr[c]
                      /\ \A k \in DOMAIN v_maddr[c] :
                            v_maddr'[c][k] = Null \/ v_maddr'[c][k] = v_maddr[c][k]
        BY <4>2, <3>1
      <4> QED
        BY <3>1, <4>1, <4>2
    <3> QED
      BY <3>2, <1>0, MarkedLess
  <2> QED
    BY <2>1, <2>2
<1>2. \A a \in Addr, c \in Class, s \in Nat : Live(a, c, s) => Live(a, c, s)'
  BY GameSame
<1> QED
  BY <1>0, <1>1, <1>2, StreamSame DEF SafeInv

\* The rest of the main loop.  Whole messages are never misread.
LEMMA ControlSafe ==
    ASSUME SafeInv, UNCHANGED hookVars,
           \/ Wake \/ ReadDone \/ ReadParseError \/ CheckProcess \/ Memattach
           \/ ProcessSkip \/ ProcessDone \/ Memdetach
    PROVE  ~ReadParseError /\ NoDuplicates' /\ Ordered' /\ Accurate'
<1>1. ~ReadParseError
  <2>1. \A m \in Msg : m # Cut
    BY DEF Msg, MallocMsg, FreeMsg, Cut
  <2>2. \A i \in 1..Len(fifo) : fifo[i] # Cut
    BY <2>1 DEF SafeInv, OwnMessage
  <2> QED
    BY <2>2 DEF ReadParseError, SafeInv, OwnMessage
<1>2. UNCHANGED <<fifo, mq, v_maddr, v_msize>>
  BY <1>1 DEF Wake, ReadDone, CheckProcess, Memattach, ProcessSkip, ProcessDone, Memdetach,
              linkVars
<1>3. NoDuplicates'
  BY <1>2 DEF SafeInv, NoDuplicates, LiveIdx
<1>4. \A a \in Addr, c \in Class, s \in Nat : Tracked(a, c, s)' => Tracked(a, c, s)
  BY <1>2 DEF Tracked
<1>5. \A a \in Addr, c \in Class, s \in Nat : Live(a, c, s) => Live(a, c, s)'
  BY GameSame
<1> QED
  BY <1>1, <1>2, <1>3, <1>4, <1>5, StreamSame DEF SafeInv

\* The order of the round: attach, read what there is, then process.
LEMMA FrozenStep ==
    ASSUME SafeInv, UNCHANGED hookVars, TrainerStep
    PROVE  OwnMessage' /\ Frozen'
<1>1. ~ReadParseError
  BY ControlSafe
<1>2. CASE ReadDynmemFifo
  <2>1. fifo' \in Seq(Msg)
    BY <1>2 DEF ReadDynmemFifo, SafeInv, OwnMessage
  <2>2. OwnMessage'
    BY <2>1 DEF SafeInv, OwnMessage, hookVars
  <2>3. Frozen'
    BY <1>2 DEF ReadDynmemFifo, SafeInv, Frozen
  <2> QED
    BY <2>2, <2>3
<1>3. CASE ReadDone
  <2>1. \A m \in Msg : m # Cut /\ m # Nul
    BY DEF Msg, MallocMsg, FreeMsg, Cut, Nul
  <2>2. fifo = <<>>
    <3>1. fifo # <<>> => Head(fifo) \in Msg
      BY DEF SafeInv, OwnMessage
    <3>2. fifo = <<Cut>> => Head(fifo) = Cut /\ fifo # <<>>
      OBVIOUS
    <3> QED
      BY <1>3, <2>1, <3>1, <3>2 DEF ReadDone
  <2>3. Frozen'
    BY <1>3, <2>2 DEF ReadDone, AfterRead, linkVars, SafeInv, Frozen
  <2>4. OwnMessage'
    BY <1>3 DEF ReadDone, linkVars, SafeInv, OwnMessage, hookVars
  <2> QED
    BY <2>3, <2>4
<1>4. CASE \/ Wake \/ CheckProcess \/ FreeDynmemEarly \/ Memattach \/ ProcessObject
           \/ ProcessSkip \/ ProcessDone \/ Memdetach \/ FreeDynmemLate
           \/ ProcessMallocs \/ AllocDynmem
  <2>1. UNCHANGED fifo
    BY <1>4 DEF Wake, CheckProcess, FreeDynmemEarly, Memattach, ProcessObject, ProcessSkip,
                ProcessDone, Memdetach, FreeDynmemLate, ProcessMallocs, AllocDynmem, linkVars
  <2>2. OwnMessage'
    BY <2>1 DEF SafeInv, OwnMessage, hookVars
  <2>3. /\ phase' = "process" => phase = "process" /\ alive' = alive
        /\ phase' = "read2" => attached'
        /\ phase' \in {"process", "detach"} => phase = "process" /\ attached' = attached
    <3>1. CASE Wake \/ CheckProcess \/ FreeDynmemEarly \/ Memattach \/ Memdetach
      BY <3>1 DEF Wake, CheckProcess, FreeDynmemEarly, Memattach, Memdetach
    <3>2. CASE FreeDynmemLate \/ ProcessMallocs \/ AllocDynmem
      BY <3>2 DEF FreeDynmemLate, ProcessMallocs, AllocDynmem
    <3>3. CASE ProcessObject \/ ProcessSkip \/ ProcessDone
      <4>1. phase = "process" /\ phase' \in {"process", "detach"} /\ UNCHANGED linkVars
        BY <3>3 DEF ProcessObject, ProcessSkip, ProcessDone, Accessing
      <4> QED
        BY <4>1 DEF linkVars
    <3> QED
      BY <1>4, <3>1, <3>2, <3>3
  <2>4. Frozen'
    BY <2>1, <2>3 DEF SafeInv, Frozen
  <2> QED
    BY <2>2, <2>4
<1> QED
  BY <1>1, <1>2, <1>3, <1>4 DEF TrainerStep

LEMMA SafeInit ==
    ASSUME Init, OneThread
    PROVE  SafeInv
<1>1. GeneralInv
  BY GeneralInit
<1>2. /\ fifo = <<>> /\ mq = <<>> /\ \A c \in Class : v_maddr[c] = <<>>
      /\ call[Main].at = "run" /\ phase = "idle"
  BY MainAssumption DEF Init, LinkInit, HookInit, TrainerInit, Idle
<1>3. \A a, c, s : c \in Class => ~Tracked(a, c, s)
  BY <1>2 DEF Tracked
<1>4. \A a, s : \A c \in Class : \A j \in 0..Len(fifo) : ~Holds(a, c, s, j)
  BY <1>2, <1>3 DEF Holds
<1>5. Ordered /\ Accurate
  BY <1>4 DEF Ordered, Accurate
<1>6. OwnMessage /\ Frozen
  BY <1>2 DEF OwnMessage, Frozen
<1>7. NoDuplicates
  BY <1>2 DEF NoDuplicates, LiveIdx
<1> QED
  BY <1>1, <1>5, <1>6, <1>7 DEF SafeInv

LEMMA SafeNext ==
    ASSUME SafeInv, OneThread, [Next]_vars
    PROVE  SafeInv'
<1>1. GeneralInv'
  BY GeneralNext DEF SafeInv
<1>2. ASSUME NEW t \in Threads, GameStep(t)
      PROVE  SafeInv'
  BY <1>2, GameSafe
<1>3. CASE TrainerStep /\ UNCHANGED hookVars
  <2>1. NoDuplicates' /\ Ordered' /\ Accurate'
    BY <1>3, ReadSafe, MallocsSafe, VectorsSafe, ControlSafe DEF TrainerStep
  <2> QED
    BY <2>1, <1>1, <1>3, FrozenStep DEF SafeInv
<1>4. CASE GameExit \/ UNCHANGED vars
  <2>1. /\ UNCHANGED <<fifo, attached, hookVars, trainerVars>>
        /\ alive' = FALSE \/ alive' = alive
    BY <1>4 DEF GameExit, vars, linkVars
  <2>2. UNCHANGED <<mq, v_maddr, v_msize, phase>>
    BY <2>1 DEF trainerVars
  <2>3. NoDuplicates' /\ OwnMessage' /\ Frozen'
    BY <2>1, <2>2 DEF SafeInv, NoDuplicates, LiveIdx, OwnMessage, Frozen, hookVars
  <2>4. \A a \in Addr, c \in Class, s \in Nat : Tracked(a, c, s)' => Tracked(a, c, s)
    BY <2>2 DEF Tracked
  <2>5. \A a \in Addr, c \in Class, s \in Nat : Live(a, c, s) => Live(a, c, s)'
    BY <2>1, GameSame
  <2>6. Ordered' /\ Accurate'
    BY <2>1, <2>4, <2>5, StreamSame DEF SafeInv
  <2> QED
    BY <1>1, <2>3, <2>6 DEF SafeInv
<1> QED
  BY <1>2, <1>3, <1>4 DEF Next, Terminated

\* With one thread in the hooks and no interrupted write(), no free() of an
\* object the trainer holds goes unreported.
THEOREM AccountedAlways ==
    ASSUME OneThread
    PROVE  Spec => []Accounted
<1>1. SafeInv => Accounted
  <2> SUFFICES ASSUME SafeInv, NEW a \in Addr, NEW c \in Class, NEW s \in ClassSize[c],
                      Tracked(a, c, s), \A i \in DOMAIN fifo : fifo[i] # FMsg(a)
               PROVE  heap[a] = Object(c, s)
    BY DEF Accounted
  <2>1. s \in Nat
    BY SizeAssumption
  <2>2. Holds(a, c, s, 0) /\ 0 \in 0..Len(fifo) /\ \A k \in 1..Len(fifo) : fifo[k] # FMsg(a)
    BY DEF Holds, SafeInv, OwnMessage
  <2>3. Live(a, c, s)
    BY <2>1, <2>2 DEF SafeInv, Accurate
  <2> QED
    BY <2>3 DEF Live
<1>2. Init => SafeInv
  BY SafeInit
<1>3. SafeInv /\ [Next]_vars => SafeInv'
  BY SafeNext
<1> QED
  BY <1>1, <1>2, <1>3, PTL DEF Spec

\* Under the same conditions the trainer never holds an address twice, so that
\* the one place clear_dynmem_addr() clears is all there is.
THEOREM NoDuplicatesAlways ==
    ASSUME OneThread
    PROVE  Spec => []NoDuplicates
<1>1. SafeInv => NoDuplicates
  BY DEF SafeInv
<1>2. Init => SafeInv
  BY SafeInit
<1>3. SafeInv /\ [Next]_vars => SafeInv'
  BY SafeNext
<1> QED
  BY <1>1, <1>2, <1>3, PTL DEF Spec

\* And the trainer reads and writes an object only while the game has it: the
\* game is stopped, every message is read, and no object is gone without one.
THEOREM SafeAccessAlways ==
    ASSUME OneThread
    PROVE  Spec => []SafeAccess
<1>1. SafeInv => SafeAccess
  <2> SUFFICES ASSUME SafeInv, Accessing, alive,
                      NEW c, c = EntryClass[cfg_act[pos[1]]], NEW i, i = pos[2]
               PROVE  heap[v_maddr[c][i]] = Object(c, v_msize[c][i])
    BY DEF SafeAccess
  <2>1. fifo = <<>>
    BY DEF Accessing, SafeInv, Frozen
  <2>2. c \in Class /\ i \in LiveIdx(c)
    BY DEF Accessing, Visits
  <2>3. /\ v_maddr[c][i] \in Addr /\ v_msize[c][i] \in Nat
        /\ Tracked(v_maddr[c][i], c, v_msize[c][i])
    BY <2>2, HeldTracked DEF SafeInv
  <2>4. \A a \in Addr, s \in Nat : Tracked(a, c, s) => Live(a, c, s)
    <3>1. 0 \in 0..Len(fifo) /\ \A k \in (0 + 1)..Len(fifo) : FALSE
      BY <2>1
    <3>2. \A a, s : Holds(a, c, s, 0) <=> Tracked(a, c, s)
      BY DEF Holds
    <3> QED
      BY <2>2, <3>1, <3>2 DEF SafeInv, Accurate
  <2>5. Live(v_maddr[c][i], c, v_msize[c][i])
    BY <2>3, <2>4
  <2> QED
    BY <2>5 DEF Live
<1>2. Init => SafeInv
  BY SafeInit
<1>3. SafeInv /\ [Next]_vars => SafeInv'
  BY SafeNext
<1> QED
  BY <1>1, <1>2, <1>3, PTL DEF Spec

-----------------------------------------------------------------------------
\* No object check that erases objects, no failing allocation (its message has
\* the address 0, which nothing ever removes), and a queue for every address.
QueueFits ==
    /\ CheckO = {}
    /\ MallocMayFail = FALSE
    /\ IsFiniteSet(Addr) /\ Cardinality(Addr) <= QMax

\* The trainer has the address, in the queue or with a slot of the class.
Held(a, c) ==
    \/ \E i \in DOMAIN mq : mq[i].addr = a /\ mq[i].class = c
    \/ \E i \in DOMAIN v_maddr[c] : v_maddr[c][i] = a

\* As Holds, for any size.
Heard(a, c, j) ==
    IF j = 0 THEN Held(a, c)
    ELSE fifo[j].op = "m" /\ fifo[j].addr = a /\ fifo[j].class = c

\* The library has the object in its table, or has reported it and stores it
\* next.
Listed(a, c) ==
    \/ a \in mem_addrs[c]
    \/ call[Main].at = "store" /\ call[Main].addr = a /\ call[Main].class = c

\* The converse of Accurate: every object of the library's tables has a report
\* that no report of its free() follows.
Complete ==
    \A c \in Class, a \in Addr : Listed(a, c) =>
        \E j \in 0..Len(fifo) :
            Heard(a, c, j) /\ \A k \in (j + 1)..Len(fifo) : fifo[k] # FMsg(a)

\* No report of a failed allocation.
NoNull ==
    /\ call[Main].at \in {"write_m", "store"} => call[Main].addr # Null
    /\ \A i \in 1..Len(fifo) : fifo[i].op = "m" => fifo[i].addr # Null
    /\ \A i \in DOMAIN mq : mq[i].addr # Null

CompleteInv == SafeInv /\ NoNull /\ Complete

\* Nothing is written or read, the trainer keeps what it has and the library
\* lists nothing new.
LEMMA CompleteSame ==
    ASSUME Complete, UNCHANGED fifo,
           \A c \in Class, a \in Addr : Held(a, c) => Held(a, c)',
           \A c \in Class, a \in Addr : Listed(a, c)' => Listed(a, c)
    PROVE  Complete'
<1>1. \A c \in Class, a \in Addr : \A j \in 0..Len(fifo) : Heard(a, c, j) => Heard(a, c, j)'
  BY DEF Heard
<1> QED
  BY <1>1 DEF Complete

\* A message is written: the report of what is listed from now on, or a message
\* about nothing that is listed.
LEMMA CompleteAppend ==
    ASSUME Complete, fifo \in Seq(Msg), NEW m \in Msg, fifo' = Append(fifo, m),
           \A c \in Class, a \in Addr : Held(a, c) => Held(a, c)',
           \A c \in Class, a \in Addr :
               Listed(a, c)' => \/ Listed(a, c) /\ m # FMsg(a)
                                \/ m.op = "m" /\ m.addr = a /\ m.class = c
    PROVE  Complete'
<1> DEFINE L == Len(fifo)
<1>1. /\ L \in Nat /\ Len(fifo') = L + 1
      /\ fifo'[L + 1] = m
      /\ \A k \in 1..L : fifo'[k] = fifo[k]
  OBVIOUS
<1> HIDE DEF L
<1> SUFFICES ASSUME NEW c \in Class, NEW a \in Addr, Listed(a, c)'
             PROVE  \E j \in 0..(L + 1) :
                        Heard(a, c, j)' /\ \A k \in (j + 1)..(L + 1) : fifo'[k] # FMsg(a)
  BY <1>1 DEF Complete
<1>2. CASE m.op = "m" /\ m.addr = a /\ m.class = c
  <2> SUFFICES ASSUME NEW n \in Nat, n = L + 1
               PROVE  \E j \in 0..n : Heard(a, c, j)' /\ \A k \in (j + 1)..n : fifo'[k] # FMsg(a)
    BY <1>1
  <2>1. n # 0 /\ n \in 0..n /\ fifo'[n] = m
    BY <1>1
  <2>2. Heard(a, c, n)'
    BY <2>1, <1>2 DEF Heard
  <2>3. \A k \in (n + 1)..n : FALSE
    OBVIOUS
  <2> QED
    BY <2>1, <2>2, <2>3
<1>3. CASE Listed(a, c) /\ m # FMsg(a)
  <2>1. PICK j \in 0..L : Heard(a, c, j) /\ \A k \in (j + 1)..L : fifo[k] # FMsg(a)
    BY <1>3 DEF Complete, L
  <2>2. Heard(a, c, j)'
    BY <1>1, <2>1 DEF Heard
  <2>3. \A k \in (j + 1)..(L + 1) : fifo'[k] # FMsg(a)
    BY <1>1, <1>3, <2>1
  <2>4. j \in 0..(L + 1)
    BY <1>1
  <2> QED
    BY <2>2, <2>3, <2>4
<1> QED
  BY <1>2, <1>3

\* A message is read and the trainer takes over what it says.
LEMMA CompleteRead ==
    ASSUME Complete, fifo \in Seq(Msg), fifo # <<>>, fifo' = Tail(fifo),
           \A c \in Class, a \in Addr :
               Held(a, c) /\ Head(fifo) # FMsg(a) => Held(a, c)',
           \A c \in Class, a \in Addr :
               Head(fifo).op = "m" /\ Head(fifo).addr = a /\ Head(fifo).class = c => Held(a, c)',
           \A c \in Class, a \in Addr : Listed(a, c)' => Listed(a, c)
    PROVE  Complete'
<1> DEFINE L == Len(fifo)
<1>1. /\ L \in Nat /\ L >= 1 /\ Len(fifo') = L - 1
      /\ Head(fifo) = fifo[1]
      /\ \A k \in 1..(L - 1) : fifo'[k] = fifo[k + 1]
  OBVIOUS
<1> HIDE DEF L
<1> SUFFICES ASSUME NEW c \in Class, NEW a \in Addr, Listed(a, c)
             PROVE  \E j \in 0..(L - 1) :
                        Heard(a, c, j)' /\ \A k \in (j + 1)..(L - 1) : fifo'[k] # FMsg(a)
  BY <1>1 DEF Complete
<1>2. PICK j \in 0..L : Heard(a, c, j) /\ \A k \in (j + 1)..L : fifo[k] # FMsg(a)
  BY DEF Complete, L
<1>3. ASSUME NEW i \in 0..(L - 1), i + 1 >= j
      PROVE  \A k \in (i + 1)..(L - 1) : fifo'[k] # FMsg(a)
  <2> SUFFICES ASSUME NEW k \in (i + 1)..(L - 1)
               PROVE  fifo'[k] # FMsg(a)
    OBVIOUS
  <2>1. k \in 1..(L - 1) /\ k + 1 \in (j + 1)..L
    BY <1>1, <1>3
  <2> QED
    BY <2>1, <1>1, <1>2
<1>4. CASE j \in {0, 1}
  <2>1. Held(a, c)'
    <3>1. CASE j = 1
      BY <3>1, <1>1, <1>2 DEF Heard
    <3>2. CASE j = 0
      <4>1. Held(a, c) /\ 1 \in (j + 1)..L
        BY <3>2, <1>1, <1>2 DEF Heard
      <4> QED
        BY <4>1, <1>1, <1>2
    <3> QED
      BY <1>4, <3>1, <3>2
  <2>2. Heard(a, c, 0)' /\ 0 \in 0..(L - 1) /\ 0 + 1 >= j
    BY <2>1, <1>1, <1>4 DEF Heard
  <2> QED
    BY <2>2, <1>3
<1>5. CASE j \notin {0, 1}
  <2>1. j - 1 \in 1..(L - 1) /\ j - 1 \in 0..(L - 1) /\ (j - 1) + 1 = j /\ (j - 1) + 1 >= j
    BY <1>1, <1>5
  <2>2. Heard(a, c, j - 1)'
    BY <2>1, <1>1, <1>2, <1>5 DEF Heard
  <2> QED
    BY <2>1, <2>2, <1>3
<1> QED
  BY <1>4, <1>5

\* A step of the game: what it lists from now on it has reported, and the
\* report of a free() is about an object that is not listed any more.
LEMMA CompleteGame ==
    ASSUME CompleteInv, OneThread, QueueFits, UNCHANGED trainerVars, HookStep(Main)
    PROVE  NoNull' /\ Complete'
<1> DEFINE b == call[Main].addr
           d == call[Main].class
<1>0. /\ Main \in Threads /\ call \in [Threads -> Call]
      /\ mem_addrs \in [Class -> SUBSET Addr]
      /\ \A c \in Class : b \notin mem_addrs[c]
      /\ fifo \in Seq(Msg) /\ b \in Addr \cup {Null}
  <2>1. Main \in Threads /\ call \in [Threads -> Call] /\ mem_addrs \in [Class -> SUBSET Addr]
        /\ \A c \in Class : b \notin mem_addrs[c]
    BY LiveFacts DEF CompleteInv, SafeInv
  <2>2. b \in Addr \cup {Null}
    BY <2>1 DEF Call
  <2> QED
    BY <2>1, <2>2 DEF CompleteInv, SafeInv, OwnMessage
<1>1. /\ UNCHANGED mq
      /\ \A c \in Class, a \in Addr : Held(a, c) => Held(a, c)'
  BY DEF trainerVars, Held
<1>2. CASE Malloc(Main) \/ OrigRealloc(Main) \/ OrigFree(Main)
  <2>1. UNCHANGED <<fifo, mem_addrs>>
    BY <1>2 DEF Malloc, OrigRealloc, OrigFree, linkVars
  <2>2. ASSUME NEW a \in Addr, NEW r \in Request, PostprocessMalloc(Main, a, r[1], r[2])
        PROVE  call'[Main].at # "store" /\ (call'[Main].at = "write_m" => call'[Main].addr = a)
    BY <1>0, <2>2 DEF PostprocessMalloc, Idle
  <2>3. call'[Main].at # "store" /\ (call'[Main].at = "write_m" => call'[Main].addr # Null)
    <3>1. CASE Malloc(Main)
      BY <3>1, <2>2, NullAssumption DEF Malloc, QueueFits
    <3>2. CASE OrigRealloc(Main)
      BY <3>2, <2>2, <1>0, NullAssumption DEF OrigRealloc, QueueFits
    <3>3. CASE OrigFree(Main)
      BY <3>3, <1>0 DEF OrigFree, Idle
    <3> QED
      BY <1>2, <3>1, <3>2, <3>3
  <2>4. NoNull'
    BY <1>1, <2>1, <2>3 DEF CompleteInv, NoNull
  <2>5. \A c \in Class, a \in Addr : Listed(a, c)' => Listed(a, c)
    BY <2>1, <2>3 DEF Listed
  <2> QED
    BY <1>1, <2>1, <2>4, <2>5, CompleteSame DEF CompleteInv
<1>3. CASE FreeCall(Main) \/ ReallocCall(Main)
  <2>1. UNCHANGED fifo
    BY <1>3 DEF FreeCall, ReallocCall, linkVars
  <2>2. /\ call'[Main].at \in {"write_f", "orig"}
        /\ \A c \in Class : mem_addrs'[c] \subseteq mem_addrs[c]
    <3>1. PICK a \in Addr \cup {Null}, fn \in {"free", "realloc"} : PreprocessFree(Main, a, fn)
      BY <1>3 DEF FreeCall, ReallocCall
    <3> QED
      BY <3>1, <1>0 DEF PreprocessFree
  <2>3. NoNull'
    BY <1>1, <2>1, <2>2 DEF CompleteInv, NoNull
  <2>4. \A c \in Class, a \in Addr : Listed(a, c)' => Listed(a, c)
    BY <2>2 DEF Listed
  <2> QED
    BY <1>1, <2>1, <2>3, <2>4, CompleteSame DEF CompleteInv
<1>4. CASE StoreMemAddr(Main)
  <2>1. /\ UNCHANGED fifo /\ call[Main].at = "store" /\ call'[Main].at = "run"
        /\ mem_addrs' = [mem_addrs EXCEPT ![d] = @ \cup ({b} \ {Null})]
    BY <1>0, <1>4 DEF StoreMemAddr, linkVars, Idle
  <2>2. NoNull'
    BY <1>1, <2>1 DEF CompleteInv, NoNull
  <2>3. \A c \in Class, a \in Addr : Listed(a, c)' => Listed(a, c)
    BY <1>0, <2>1 DEF Listed
  <2> QED
    BY <1>1, <2>1, <2>2, <2>3, CompleteSame DEF CompleteInv
<1>5. CASE WriteMalloc(Main)
  <2>1. /\ call[Main].at = "write_m" /\ call'[Main].at = "store"
        /\ call'[Main].addr = b /\ call'[Main].class = d
        /\ obuf = MMsg(b, call[Main].size, d) /\ b # Null
        /\ UNCHANGED mem_addrs
    BY <1>0, <1>5 DEF WriteMalloc, CompleteInv, SafeInv, OwnMessage, NoNull
  <2>2. /\ obuf.op = "m" /\ obuf.addr = b /\ obuf.class = d /\ \A a \in Addr : obuf # FMsg(a)
        /\ obuf \in Msg
    BY <1>0, <2>1 DEF MMsg, FMsg, CompleteInv, SafeInv, GeneralInv, HookInv, ObufWritten
  <2>3. fifo' = Append(fifo, obuf)
    BY <1>0, <1>5, <2>2 DEF WriteMalloc, Written
  <2>4. NoNull'
    <3>1. \A i \in 1..Len(fifo') : fifo'[i].op = "m" => fifo'[i].addr # Null
      <4>1. \A i \in 1..Len(fifo') : (i \in 1..Len(fifo) /\ fifo'[i] = fifo[i]) \/ fifo'[i] = obuf
        BY <1>0, <2>3
      <4> QED
        BY <4>1, <2>1, <2>2 DEF CompleteInv, NoNull
    <3> QED
      BY <3>1, <1>1, <2>1 DEF CompleteInv, NoNull
  <2>5. \A c \in Class, a \in Addr :
            Listed(a, c)' => \/ Listed(a, c) /\ obuf # FMsg(a)
                             \/ obuf.op = "m" /\ obuf.addr = a /\ obuf.class = c
    BY <2>1, <2>2 DEF Listed
  <2> QED
    BY <1>0, <1>1, <2>2, <2>3, <2>4, <2>5, CompleteAppend DEF CompleteInv
<1>6. CASE WriteFree(Main)
  <2>1. /\ call[Main].at = "write_f" /\ call'[Main].at = "orig"
        /\ obuf = FMsg(b)
        /\ UNCHANGED mem_addrs
    BY <1>0, <1>6 DEF WriteFree, CompleteInv, SafeInv, OwnMessage
  <2>2. obuf.op = "f" /\ obuf \in Msg /\ \A a \in Addr : obuf = FMsg(a) => a = b
    BY <1>0, <2>1 DEF FMsg, CompleteInv, SafeInv, GeneralInv, HookInv, ObufWritten
  <2>3. fifo' = Append(fifo, obuf)
    BY <1>0, <1>6, <2>2 DEF WriteFree, Written
  <2>4. NoNull'
    <3>1. \A i \in 1..Len(fifo') : fifo'[i].op = "m" => fifo'[i].addr # Null
      <4>1. \A i \in 1..Len(fifo') : (i \in 1..Len(fifo) /\ fifo'[i] = fifo[i]) \/ fifo'[i] = obuf
        BY <1>0, <2>3
      <4> QED
        BY <4>1, <2>2 DEF CompleteInv, NoNull
    <3> QED
      BY <3>1, <1>1, <2>1 DEF CompleteInv, NoNull
  <2>5. \A c \in Class, a \in Addr : Listed(a, c)' => Listed(a, c) /\ obuf # FMsg(a)
    BY <1>0, <2>1, <2>2 DEF Listed
  <2> QED
    BY <1>0, <1>1, <2>2, <2>3, <2>4, <2>5, CompleteAppend DEF CompleteInv
<1> QED
  BY <1>2, <1>3, <1>4, <1>5, <1>6
     DEF HookStep, WriteMallocFails, WriteFreeFails, OneThread

\* An address that is not queued finds room in the queue: the addresses in it
\* are different.
LEMMA QueueRoom ==
    ASSUME CompleteInv, QueueFits, NEW a \in Addr, \A i \in DOMAIN mq : mq[i].addr # a
    PROVE  Len(mq) < QMax
<1> DEFINE L == Len(mq)
           at == [i \in 1..L |-> mq[i].addr]
<1>1. mq \in Seq(MallocMsg) /\ L \in Nat /\ DOMAIN mq = 1..L
  BY DEF CompleteInv, SafeInv, GeneralInv, TrainerInv, TrainerTypeOK
<1>2. \A i \in 1..L : mq[i].addr \in Addr
  BY <1>1, HeldTracked DEF CompleteInv, SafeInv, NoNull
<1>3. \A i, j \in 1..L : mq[i].addr = mq[j].addr => i = j
  BY <1>1 DEF CompleteInv, SafeInv, NoDuplicates, NoNull
<1> HIDE DEF L
<1>4. at \in Injection(1..L, Addr)
  BY <1>2, <1>3 DEF Injection, IsInjective
<1>5. at \notin Surjection(1..L, Addr)
  BY <1>1 DEF Surjection
<1>6. Cardinality(1..L) = L
  BY <1>1, FS_Interval
<1>7. L <= Cardinality(Addr) /\ L # Cardinality(Addr)
  BY <1>4, <1>5, <1>6, FS_Injection DEF QueueFits
<1>8. Cardinality(Addr) \in Nat
  BY FS_CardinalityType DEF QueueFits
<1> QED
  BY <1>1, <1>7, <1>8, QueueAssumption DEF QueueFits, L

\* read_dynmem_fifo(): a report finds its place in the queue, and the report of
\* a free() makes the trainer forget that one address.
LEMMA CompleteReadStep ==
    ASSUME CompleteInv, QueueFits, UNCHANGED hookVars, ReadDynmemFifo
    PROVE  NoNull' /\ Complete'
<1> SUFFICES ASSUME NEW CONSTANT h, NEW CONSTANT b, h = Head(fifo), b = h.addr
             PROVE  NoNull' /\ Complete'
  OBVIOUS
<1>0. /\ fifo \in Seq(Msg) /\ fifo # <<>> /\ fifo' = Tail(fifo)
      /\ h \in Msg /\ h = fifo[1] /\ 1 \in 1..Len(fifo)
      /\ UNCHANGED <<mem_addrs, call>>
      /\ GeneralInv /\ NoDuplicates /\ NoNull /\ SafeInv
  BY DEF CompleteInv, SafeInv, OwnMessage, ReadDynmemFifo, hookVars
<1>1. \A c \in Class, a \in Addr : Listed(a, c)' => Listed(a, c)
  BY <1>0 DEF Listed
<1>2. \A i \in 1..Len(fifo') : fifo'[i].op = "m" => fifo'[i].addr # Null
  <2>1. \A i \in 1..Len(fifo') : i + 1 \in 1..Len(fifo) /\ fifo'[i] = fifo[i + 1]
    BY <1>0
  <2> QED
    BY <2>1, <1>0 DEF NoNull
\* What is left to show of each way to take over the message.
<1>3. ASSUME \A i \in DOMAIN mq' : mq'[i] = h \/ \E k \in DOMAIN mq : mq'[i] = mq[k],
             h.op = "m" \/ \A i \in DOMAIN mq' : \E k \in DOMAIN mq : mq'[i] = mq[k],
             \A c \in Class, a \in Addr : Held(a, c) /\ h # FMsg(a) => Held(a, c)',
             \A c \in Class, a \in Addr :
                 h.op = "m" /\ h.addr = a /\ h.class = c => Held(a, c)'
      PROVE  NoNull' /\ Complete'
  <2>1. h.op = "m" => h.addr # Null
    BY <1>0 DEF NoNull
  <2>2. \A i \in DOMAIN mq' : mq'[i].addr # Null
    BY <1>0, <1>3, <2>1 DEF NoNull
  <2>3. NoNull'
    BY <1>0, <1>2, <2>2 DEF NoNull
  <2>4. Complete'
    BY <1>0, <1>1, <1>3, CompleteRead DEF CompleteInv
  <2> QED
    BY <2>3, <2>4
<1>4. CASE h.op = "m" /\ QueueDynmemAddr(h)
  <2>1. b \in Addr /\ h \in MallocMsg
    <3>1. h \in MallocMsg
      BY <1>0, <1>4 DEF Msg, FreeMsg
    <3>2. b # Null
      BY <1>0, <1>4 DEF NoNull
    <3> QED
      BY <3>1, <3>2 DEF MallocMsg
  <2>2. \A i \in DOMAIN mq : mq[i].addr # b
    <3> SUFFICES ASSUME NEW i \in DOMAIN mq, mq[i].addr = b
                 PROVE  FALSE
      OBVIOUS
    <3>1. /\ mq[i].class \in Class /\ mq[i].size \in Nat
          /\ Holds(b, mq[i].class, mq[i].size, 0) /\ 0 \in 0..Len(fifo)
          /\ 1 \in (0 + 1)..Len(fifo)
      BY <1>0, HeldTracked DEF Holds
    <3>2. \E k \in (0 + 1)..(1 - 1) : fifo[k] = FMsg(b)
      BY <3>1, <2>1, <1>0, <1>4 DEF SafeInv, Ordered
    <3> QED
      BY <3>2
  <2>3. Len(mq) < QMax
    BY <2>1, <2>2, QueueRoom
  <2>4. mq \in Seq(MallocMsg) /\ mq' = Append(mq, h) /\ UNCHANGED v_maddr
    BY <2>3, <1>0, <1>4 DEF QueueDynmemAddr, GeneralInv, TrainerInv, TrainerTypeOK
  <2>5. /\ \A i \in DOMAIN mq : i \in DOMAIN mq' /\ mq'[i] = mq[i]
        /\ \A i \in DOMAIN mq' : mq'[i] = h \/ (i \in DOMAIN mq /\ mq'[i] = mq[i])
        /\ \E i \in DOMAIN mq' : mq'[i] = h
    <3>1. Len(mq') = Len(mq) + 1 /\ mq'[Len(mq) + 1] = h /\ mq' \in Seq(MallocMsg)
      BY <2>1, <2>4
    <3> QED
      BY <3>1, <2>4
  <2>6. \A c \in Class, a \in Addr : Held(a, c) => Held(a, c)'
    BY <2>4, <2>5 DEF Held
  <2>7. \A c \in Class, a \in Addr : h.addr = a /\ h.class = c => Held(a, c)'
    BY <2>5 DEF Held
  <2> QED
    BY <2>5, <2>6, <2>7, <1>3, <1>4
<1>5. CASE h.op = "f" /\ ClearDynmemAddr(b)
  <2>1. b \in Addr /\ h = FMsg(b) /\ h.op # "m"
    <3>1. h \in FreeMsg
      BY <1>0, <1>5 DEF Msg, MallocMsg
    <3> QED
      BY <3>1, <1>5 DEF FreeMsg, FMsg
  <2>2. CASE (\E q \in DOMAIN mq : mq[q].addr = b) /\ RemoveMallocFromQueue(b) /\ UNCHANGED v_maddr
    <3> DEFINE hits  == {i \in DOMAIN mq : mq[i].addr = b}
               first == CHOOSE i \in hits : \A k \in hits : i <= k
               K     == DOMAIN mq \ {first}
    <3>1. PICK q \in DOMAIN mq : mq[q].addr = b
      BY <2>2
    <3>2. hits = {q}
      BY <2>1, <3>1, <1>0 DEF NoDuplicates, NoNull
    <3>3. first = q
      <4>1. q \in Nat
        BY <3>1, <1>0 DEF GeneralInv, TrainerInv, TrainerTypeOK
      <4> HIDE DEF hits
      <4> QED
        BY <3>2, <4>1
    <3>4. mq' = Keep(mq, K)
      BY <2>2 DEF RemoveMallocFromQueue
    <3>5. mq \in Seq(MallocMsg) /\ K \subseteq DOMAIN mq /\ K \subseteq 1..Len(mq) /\ Len(mq) \in Nat
      BY <1>0 DEF GeneralInv, TrainerInv, TrainerTypeOK
    <3> HIDE DEF hits, first
    <3>6. /\ \A j \in DOMAIN mq' : Nth(K, j) \in DOMAIN mq /\ mq'[j] = mq[Nth(K, j)]
          /\ \A i \in K : Rank(K, i) \in DOMAIN mq' /\ mq'[Rank(K, i)] = mq[i]
      <4>1. /\ DOMAIN Keep(mq, K) = 1..Cardinality(K)
            /\ \A j \in DOMAIN Keep(mq, K) : Nth(K, j) \in K /\ Keep(mq, K)[j] = mq[Nth(K, j)]
        BY <3>5, KeepType
      <4>2. \A i \in K : Rank(K, i) \in 1..Cardinality(K) /\ Nth(K, Rank(K, i)) = i
        BY <3>5, NthRank
      <4> QED
        BY <3>4, <3>5, <4>1, <4>2
    <3>7. \A i \in DOMAIN mq : mq[i].addr # b => i \in K
      BY <3>1, <3>3
    <3> HIDE DEF K
    <3>8. \A c \in Class, a \in Addr : Held(a, c) /\ a # b => Held(a, c)'
      BY <2>2, <3>6, <3>7 DEF Held
    <3> QED
      BY <3>6, <3>8, <2>1, <1>3
  <2>3. ASSUME UNCHANGED mq,
               NEW d \in Class, NEW i \in DOMAIN v_maddr[d], v_maddr[d][i] = b,
               v_maddr' = [v_maddr EXCEPT ![d][i] = Null]
        PROVE  NoNull' /\ Complete'
    <3>1. v_maddr \in [Class -> Seq(Addr \cup {Null})]
      BY <1>0 DEF GeneralInv, TrainerInv, TrainerTypeOK
    <3>2. \A c \in Class : \A k \in DOMAIN v_maddr[c] :
              k \in DOMAIN v_maddr'[c] /\ (v_maddr[c][k] = b \/ v_maddr'[c][k] = v_maddr[c][k])
      BY <3>1, <2>3
    <3>3. \A c \in Class, a \in Addr : Held(a, c) /\ a # b => Held(a, c)'
      BY <2>3, <3>2 DEF Held
    <3> QED
      BY <3>3, <2>1, <2>3, <1>3
  <2>4. CASE UNCHANGED <<mq, v_maddr>>
    <3>1. \A c \in Class, a \in Addr : Held(a, c) => Held(a, c)'
      BY <2>4 DEF Held
    <3> QED
      BY <3>1, <2>1, <2>4, <1>3
  <2> QED
    BY <1>5, <2>2, <2>3, <2>4 DEF ClearDynmemAddr
<1> QED
  BY <1>4, <1>5 DEF ReadDynmemFifo

\* process_mallocs(): all that was queued gets its slot.
LEMMA MallocsKeep ==
    ASSUME GeneralInv, ProcessMallocs
    PROVE  \A c \in Class, a \in Addr : Held(a, c) => Held(a, c)'
<1> SUFFICES ASSUME NEW c \in Class, NEW a \in Addr, Held(a, c)
             PROVE  \E k \in DOMAIN v_maddr'[c] : v_maddr'[c][k] = a
  BY DEF Held
<1> DEFINE Of   == {i \in DOMAIN mq : mq[i].class = c}
           New  == Keep(mq, Of)
           adds == [j \in DOMAIN New |-> New[j].addr]
           T    == Addr \cup {Null}
<1>1. /\ mq \in Seq(MallocMsg) /\ Of \subseteq DOMAIN mq
      /\ Of \subseteq 1..Len(mq) /\ Len(mq) \in Nat
  BY DEF GeneralInv, TrainerInv, TrainerTypeOK
<1>2. v_maddr'[c] = v_maddr[c] \o adds
  BY DEF ProcessMallocs
<1>3. v_maddr[c] \in Seq(T)
  BY DEF GeneralInv, TrainerInv, TrainerTypeOK
<1>4. /\ New \in Seq(MallocMsg) /\ DOMAIN New = 1..Cardinality(Of)
      /\ Cardinality(Of) \in Nat
      /\ \A j \in DOMAIN New : New[j] = mq[Nth(Of, j)]
  BY <1>1, KeepType
<1>5. \A i \in Of : Rank(Of, i) \in DOMAIN New /\ New[Rank(Of, i)] = mq[i]
  BY <1>1, <1>4, NthRank
<1>6. \A m \in MallocMsg : m.addr \in T
  BY DEF MallocMsg
<1>7. adds \in Seq(T) /\ DOMAIN adds = DOMAIN New /\ \A j \in DOMAIN New : adds[j] = New[j].addr
  <2> HIDE DEF Of, New, T
  <2>1. \A j \in 1..Cardinality(Of) : New[j].addr \in T
    BY <1>4, <1>6
  <2> QED
    BY <1>4, <2>1
<1> HIDE DEF New, T
<1> HIDE DEF adds
<1>8. /\ \A k \in DOMAIN v_maddr[c] : k \in DOMAIN v_maddr'[c] /\ v_maddr'[c][k] = v_maddr[c][k]
      /\ \A j \in DOMAIN adds : \E k \in DOMAIN v_maddr'[c] : v_maddr'[c][k] = adds[j]
  <2>1. /\ v_maddr[c] \o adds \in Seq(T)
        /\ Len(v_maddr[c] \o adds) = Len(v_maddr[c]) + Len(adds)
        /\ \A k \in 1..Len(v_maddr[c]) : (v_maddr[c] \o adds)[k] = v_maddr[c][k]
        /\ \A j \in 1..Len(adds) : (v_maddr[c] \o adds)[Len(v_maddr[c]) + j] = adds[j]
    BY <1>3, <1>7
  <2>2. /\ DOMAIN v_maddr[c] = 1..Len(v_maddr[c]) /\ Len(v_maddr[c]) \in Nat
        /\ DOMAIN adds = 1..Len(adds) /\ Len(adds) \in Nat
        /\ DOMAIN v_maddr'[c] = 1..(Len(v_maddr[c]) + Len(adds))
    BY <1>2, <1>3, <1>7, <2>1
  <2>3. ASSUME NEW j \in DOMAIN adds
        PROVE  \E k \in DOMAIN v_maddr'[c] : v_maddr'[c][k] = adds[j]
    <3>1. Len(v_maddr[c]) + j \in DOMAIN v_maddr'[c]
      BY <2>2
    <3>2. v_maddr'[c][Len(v_maddr[c]) + j] = adds[j]
      BY <1>2, <2>1, <2>2
    <3> QED
      BY <3>1, <3>2
  <2>4. \A k \in DOMAIN v_maddr[c] : k \in DOMAIN v_maddr'[c] /\ v_maddr'[c][k] = v_maddr[c][k]
    BY <1>2, <2>1, <2>2
  <2> QED
    BY <2>3, <2>4
<1>9. CASE \E i \in DOMAIN v_maddr[c] : v_maddr[c][i] = a
  BY <1>8, <1>9
<1>10. CASE \E i \in DOMAIN mq : mq[i].addr = a /\ mq[i].class = c
  <2>1. PICK i \in Of : mq[i].addr = a
    BY <1>10
  <2>2. Rank(Of, i) \in DOMAIN adds /\ adds[Rank(Of, i)] = a
    BY <2>1, <1>5, <1>7
  <2> QED
    BY <2>2, <1>8
<1> QED
  BY <1>9, <1>10 DEF Held

\* free_dynmem() erases marked objects only.
LEMMA FreedKeep ==
    ASSUME GeneralInv, FreeDynmem, UNCHANGED mq
    PROVE  \A c \in Class, a \in Addr : Held(a, c) => Held(a, c)'
<1> SUFFICES ASSUME NEW c \in Class, NEW a \in Addr,
                    NEW i \in DOMAIN v_maddr[c], v_maddr[c][i] = a
             PROVE  \E k \in DOMAIN v_maddr'[c] : v_maddr'[c][k] = a
  BY DEF Held
<1> DEFINE K == LiveIdx(c)
<1>1. /\ v_maddr[c] \in Seq(Addr \cup {Null}) /\ K \subseteq DOMAIN v_maddr[c]
      /\ K \subseteq 1..Len(v_maddr[c]) /\ Len(v_maddr[c]) \in Nat
  BY DEF GeneralInv, TrainerInv, TrainerTypeOK, LiveIdx
<1>2. i \in K
  BY NullAssumption DEF LiveIdx
<1>3. v_maddr'[c] = Keep(v_maddr[c], K)
  BY DEF FreeDynmem
<1> HIDE DEF K
<1>4. /\ DOMAIN Keep(v_maddr[c], K) = 1..Cardinality(K)
      /\ \A j \in DOMAIN Keep(v_maddr[c], K) : Keep(v_maddr[c], K)[j] = v_maddr[c][Nth(K, j)]
  BY <1>1, KeepType
<1>5. Rank(K, i) \in 1..Cardinality(K) /\ Nth(K, Rank(K, i)) = i
  BY <1>1, <1>2, NthRank
<1> QED
  BY <1>3, <1>4, <1>5

\* A step of the trainer: what it was told of it keeps until the free().
LEMMA CompleteTrainer ==
    ASSUME CompleteInv, QueueFits, UNCHANGED hookVars, TrainerStep
    PROVE  NoNull' /\ Complete'
<1>0. SafeInv /\ GeneralInv
  BY DEF CompleteInv, SafeInv
<1>1. CASE ReadDynmemFifo
  BY <1>1, CompleteReadStep
<1>2. CASE ~ReadDynmemFifo
  <2>1. \A c \in Class, a \in Addr : Listed(a, c)' => Listed(a, c)
    BY DEF hookVars, Listed
  <2>2. ~ReadParseError
    BY <1>0, ControlSafe
  <2>3. /\ UNCHANGED fifo
        /\ mq' = mq \/ mq' = <<>>
        /\ \A c \in Class, a \in Addr : Held(a, c) => Held(a, c)'
    <3>1. CASE \/ Wake \/ ReadDone \/ CheckProcess \/ Memattach
               \/ ProcessSkip \/ ProcessDone \/ Memdetach \/ AllocDynmem
      <4>1. UNCHANGED <<fifo, mq, v_maddr>>
        BY <3>1 DEF Wake, ReadDone, CheckProcess, Memattach, ProcessSkip, ProcessDone,
                    Memdetach, AllocDynmem, linkVars
      <4> QED
        BY <4>1 DEF Held
    <3>2. CASE ProcessObject
      <4>1. UNCHANGED <<fifo, mq, v_maddr>>
        BY <3>2 DEF ProcessObject, QueueFits, linkVars
      <4> QED
        BY <4>1 DEF Held
    <3>3. CASE FreeDynmemEarly \/ FreeDynmemLate
      BY <3>3, <1>0, FreedKeep DEF FreeDynmemEarly, FreeDynmemLate, linkVars
    <3>4. CASE ProcessMallocs
      <4>1. UNCHANGED fifo /\ mq' = <<>>
        BY <3>4 DEF ProcessMallocs, linkVars
      <4> QED
        BY <4>1, <3>4, <1>0, MallocsKeep
    <3> QED
      BY <1>2, <2>2, <3>1, <3>2, <3>3, <3>4 DEF TrainerStep
  <2>4. NoNull'
    BY <2>3 DEF CompleteInv, NoNull, hookVars
  <2> QED
    BY <2>1, <2>3, <2>4, CompleteSame DEF CompleteInv
<1> QED
  BY <1>1, <1>2

LEMMA CompleteNext ==
    ASSUME CompleteInv, OneThread, QueueFits, [Next]_vars
    PROVE  CompleteInv'
<1>1. SafeInv'
  BY SafeNext DEF CompleteInv
<1>2. ASSUME NEW t \in Threads, GameStep(t)
      PROVE  NoNull' /\ Complete'
  BY <1>2, CompleteGame DEF GameStep, OneThread
<1>3. ASSUME TrainerStep, UNCHANGED hookVars
      PROVE  NoNull' /\ Complete'
  BY <1>3, CompleteTrainer
<1>4. ASSUME GameExit \/ UNCHANGED vars
      PROVE  NoNull' /\ Complete'
  <2>1. UNCHANGED <<fifo, mq, v_maddr, call, mem_addrs>>
    BY <1>4 DEF GameExit, vars, linkVars, hookVars, trainerVars
  <2>2. NoNull'
    BY <2>1 DEF CompleteInv, NoNull
  <2>3. /\ \A c \in Class, a \in Addr : Held(a, c) => Held(a, c)'
        /\ \A c \in Class, a \in Addr : Listed(a, c)' => Listed(a, c)
    BY <2>1 DEF Held, Listed
  <2> QED
    BY <2>1, <2>2, <2>3, CompleteSame DEF CompleteInv
<1> QED
  BY <1>1, <1>2, <1>3, <1>4 DEF Next, Terminated, CompleteInv

\* With one thread, whole writes, a queue for as many messages as the heap has
\* addresses, no failing allocation and no object check: what the library lists
\* the trainer knows of, or the report waits in the FIFO.  Together with
\* AccountedAlways the trainer's picture of the heap is exact, but for the
\* messages in the FIFO.
THEOREM NoObjectLostAlways ==
    ASSUME OneThread, QueueFits
    PROVE  Spec => []NoObjectLost
<1>1. CompleteInv => NoObjectLost
  <2> SUFFICES ASSUME CompleteInv, NEW c \in Class, NEW a \in mem_addrs[c]
               PROVE  \/ \E i \in DOMAIN fifo : fifo[i].op = "m" /\ fifo[i].addr = a
                      \/ \E i \in DOMAIN mq : mq[i].addr = a
                      \/ \E i \in DOMAIN v_maddr[c] : v_maddr[c][i] = a
    BY DEF NoObjectLost
  <2>1. a \in Addr /\ Listed(a, c)
    BY DEF Listed, CompleteInv, SafeInv, GeneralInv, HookInv, HookTypeOK
  <2>2. PICK j \in 0..Len(fifo) : Heard(a, c, j)
    BY <2>1 DEF CompleteInv, Complete
  <2>3. fifo \in Seq(Msg)
    BY DEF CompleteInv, SafeInv, OwnMessage
  <2> QED
    BY <2>2, <2>3 DEF Heard, Held
<1>2. Init => CompleteInv
  <2> SUFFICES ASSUME Init PROVE CompleteInv
    OBVIOUS
  <2>1. SafeInv
    BY SafeInit
  <2>2. /\ fifo = <<>> /\ mq = <<>> /\ call[Main].at = "run"
        /\ \A c \in Class : mem_addrs[c] = {}
    BY MainAssumption DEF Init, LinkInit, HookInit, TrainerInit, Idle
  <2> QED
    BY <2>1, <2>2 DEF CompleteInv, NoNull, Complete, Listed
<1>3. CompleteInv /\ [Next]_vars => CompleteInv'
  BY CompleteNext
<1> QED
  BY <1>1, <1>2, <1>3, PTL DEF Spec
=============================================================================
