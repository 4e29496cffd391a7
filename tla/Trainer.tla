------------------------------ MODULE Trainer -------------------------------
(***************************************************************************)
(* The trainer side: ugtrain's main loop and its bookkeeping of dynamic    *)
(* memory objects (memmgmt.cpp).  One round of the loop:                   *)
(*                                                                         *)
(*   idle -> read1 -> free1 -> attach -> read2 -> process -> detach        *)
(*        -> free2 -> mallocs -> alloc -> idle                             *)
(*                                                                         *)
(* with ways out to check (check_process(): the game may have ended) when  *)
(* no config entry is active or when attaching or detaching fails.         *)
(*                                                                         *)
(* A message "m" is only queued; it becomes an object of its class at the  *)
(* end of the round.  A message "f" removes the address from the queue or  *)
(* zeroes it in its class; the two free_dynmem() calls erase the zeroes.   *)
(* v_oldval stands for the three vectors v_oldval, v_value and v_cstr of a *)
(* config entry, which the code grows and shrinks together; a cell holds   *)
(* the address of the object its value was read from.                      *)
(***************************************************************************)
EXTENDS GameLink, VecOps, Integers

CONSTANTS
    Entry,       \* config entries (values to freeze)
    Static,      \* the "class" of an entry in static memory
    EntryClass,  \* EntryClass[e]: class of the object the value is in
    EntryEnd,    \* EntryEnd[e]: offset of the first byte behind the value
    CheckO,      \* entries with an object check (checko)
    InitAct,     \* entries the config file activates, in its order
    Keys,        \* the entries each key toggles, in the order of the config
    QMax         \* messages that fit into the malloc queue

ASSUME EntryAssumption ==
    /\ Static \notin Class
    /\ EntryClass \in [Entry -> Class \cup {Static}]
    /\ EntryEnd \in [Entry -> Nat]
    /\ CheckO \subseteq Entry
    /\ InitAct \in Seq(Entry)
    /\ Keys \subseteq Seq(Entry)
ASSUME QueueAssumption == QMax \in Nat

VARIABLES
    phase,       \* where the main loop is
    cfg_act,     \* activated entries, in order of activation
    mq,          \* malloc queue
    v_maddr,     \* v_maddr[c]: addresses of the objects of class c, Null: to be erased
    v_msize,     \* v_msize[c]: their sizes
    num_freed,   \* num_freed[c]: objects zeroed by a "f" since the last free_dynmem()
    v_oldval,    \* v_oldval[e]: one cell per object of EntryClass[e]
    pos          \* <<k, i>>: process_act_cfg() is at cfg_act[k] and object i

trainerVars == <<phase, cfg_act, mq, v_maddr, v_msize, num_freed, v_oldval, pos>>

Phase == {"idle", "read1", "free1", "attach", "read2", "process", "detach",
          "free2", "mallocs", "alloc", "check", "done"}

DynEntry == {e \in Entry : EntryClass[e] \in Class}

TrainerTypeOK ==
    /\ phase \in Phase
    /\ cfg_act \in Seq(Entry)
    /\ mq \in Seq(MallocMsg)
    /\ v_maddr \in [Class -> Seq(Addr \cup {Null})]
    /\ v_msize \in [Class -> Seq(Nat)]
    /\ num_freed \in [Class -> Nat]
    /\ v_oldval \in [DynEntry -> Seq(Addr \cup {Null})]
    /\ pos \in Nat \X Nat

TrainerInit ==
    /\ phase = "idle"
    /\ cfg_act = InitAct
    /\ mq = <<>>
    /\ v_maddr = [c \in Class |-> <<>>]
    /\ v_msize = [c \in Class |-> <<>>]
    /\ num_freed = [c \in Class |-> 0]
    /\ v_oldval = [e \in DynEntry |-> <<>>]
    /\ pos = <<1, 1>>

-----------------------------------------------------------------------------
\* Indices of the objects that are not marked to be erased.
LiveIdx(c) == {i \in DOMAIN v_maddr[c] : v_maddr[c][i] # Null}

\* queue_dynmem_addr(): a message that does not fit is dropped.
QueueDynmemAddr(m) ==
    /\ mq' = IF Len(mq) < QMax THEN Append(mq, m) ELSE mq
    /\ UNCHANGED <<v_maddr, v_msize, num_freed>>

\* MUTANT of RemoveMallocFromQueue: the queue is cut at its end.
RemoveMallocFromQueueEnd(a) == mq' = SubSeq(mq, 1, Len(mq) - 1)

\* remove_malloc_from_queue(): the first queued malloc of this address.
RemoveMallocFromQueue(a) ==
    LET hits  == {i \in DOMAIN mq : mq[i].addr = a}
        first == CHOOSE i \in hits : \A k \in hits : i <= k
    IN  mq' = Keep(mq, DOMAIN mq \ {first})

\* MUTANT of ClearDynmemAddr: the queue is not searched.
ClearDynmemAddrUnqueued(a) ==
    \/ /\ \E c \in Class : \E i \in DOMAIN v_maddr[c] :
             /\ v_maddr[c][i] = a
             /\ i = FirstIdx(v_maddr[c], a)
             /\ v_maddr' = [v_maddr EXCEPT ![c][i] = Null]
             /\ v_msize' = [v_msize EXCEPT ![c][i] = 0]
             /\ num_freed' = [num_freed EXCEPT ![c] = @ + 1]
       /\ UNCHANGED mq
    \/ /\ \A c \in Class : \A i \in DOMAIN v_maddr[c] : v_maddr[c][i] # a
       /\ UNCHANGED <<mq, v_maddr, v_msize, num_freed>>

\* clear_dynmem_addr(): the queue first, then the first class that has it.
ClearDynmemAddr(a) ==
    \/ /\ \E i \in DOMAIN mq : mq[i].addr = a
       /\ RemoveMallocFromQueue(a)
       /\ UNCHANGED <<v_maddr, v_msize, num_freed>>
    \/ /\ \A i \in DOMAIN mq : mq[i].addr # a
       /\ \E c \in Class : \E i \in DOMAIN v_maddr[c] :
             /\ v_maddr[c][i] = a
             /\ i = FirstIdx(v_maddr[c], a)
             /\ v_maddr' = [v_maddr EXCEPT ![c][i] = Null]
             /\ v_msize' = [v_msize EXCEPT ![c][i] = 0]
             /\ num_freed' = [num_freed EXCEPT ![c] = @ + 1]
       /\ UNCHANGED mq
    \/ /\ \A i \in DOMAIN mq : mq[i].addr # a
       /\ \A c \in Class : \A i \in DOMAIN v_maddr[c] : v_maddr[c][i] # a
       /\ UNCHANGED <<mq, v_maddr, v_msize, num_freed>>

\* MUTANT of FreeDynmem: the values are cut at the end of their vectors.
FreeDynmemCutsEnd ==
    /\ v_oldval' = [e \in DynEntry |->
                       SubSeq(v_oldval[e], 1,
                              Cardinality(LiveIdx(EntryClass[e]) \cap DOMAIN v_oldval[e]))]
    /\ v_maddr' = [c \in Class |-> Keep(v_maddr[c], LiveIdx(c))]
    /\ v_msize' = [c \in Class |-> Keep(v_msize[c], LiveIdx(c))]
    /\ num_freed' = [c \in Class |-> 0]

\* MUTANT of FreeDynmem: the number of freed objects is not reset.
FreeDynmemNoReset ==
    /\ v_oldval' = [e \in DynEntry |->
                       Keep(v_oldval[e], LiveIdx(EntryClass[e]) \cap DOMAIN v_oldval[e])]
    /\ v_maddr' = [c \in Class |-> Keep(v_maddr[c], LiveIdx(c))]
    /\ v_msize' = [c \in Class |-> Keep(v_msize[c], LiveIdx(c))]
    /\ UNCHANGED num_freed

\* free_dynmem(): the values of marked objects, then the objects themselves.
FreeDynmem ==
    /\ v_oldval' = [e \in DynEntry |->
                       Keep(v_oldval[e], LiveIdx(EntryClass[e]) \cap DOMAIN v_oldval[e])]
    /\ v_maddr' = [c \in Class |-> Keep(v_maddr[c], LiveIdx(c))]
    /\ v_msize' = [c \in Class |-> Keep(v_msize[c], LiveIdx(c))]
    /\ num_freed' = [c \in Class |-> 0]

-----------------------------------------------------------------------------
\* toggle_cfg(): active entries of the key leave cfg_act, the others are put
\* behind what is active.
ToggleCfg(key) ==
    LET listed == {key[j] : j \in DOMAIN key}
        active == {cfg_act[k] : k \in DOMAIN cfg_act}
    IN  cfg_act' = Keep(cfg_act, {k \in DOMAIN cfg_act : cfg_act[k] \notin listed})
                      \o Keep(key, {j \in DOMAIN key : key[j] \notin active})

\* MUTANT of Wake: without an active entry the FIFO is not read.
WakeUnread ==
    /\ phase = "idle"
    /\ phase' = IF cfg_act = <<>> THEN "check" ELSE "read1"
    /\ \/ UNCHANGED cfg_act
       \/ \E key \in Keys : ToggleCfg(key)
    /\ UNCHANGED <<linkVars, mq, v_maddr, v_msize, num_freed, v_oldval, pos>>

\* sleep_sec_unless_input2(), do_getch() and, for a key, toggle_cfg().
Wake ==
    /\ phase = "idle"
    /\ phase' = "read1"
    /\ \/ UNCHANGED cfg_act
       \/ \E key \in Keys : ToggleCfg(key)
    /\ UNCHANGED <<linkVars, mq, v_maddr, v_msize, num_freed, v_oldval, pos>>

\* read_dynmem_fifo(): one message parsed and handed to its callback.
ReadDynmemFifo ==
    /\ phase \in {"read1", "read2"}
    /\ fifo # <<>>
    /\ fifo' = Tail(fifo)
    /\ \/ /\ Head(fifo).op = "m"
          /\ QueueDynmemAddr(Head(fifo))
       \/ /\ Head(fifo).op = "f"
          /\ ClearDynmemAddr(Head(fifo).addr)
    /\ UNCHANGED <<alive, attached, phase, cfg_act, v_oldval, pos>>

\* Where main() goes on after read_dynmem_fifo().  Without an active entry the
\* rest of the round is skipped.
AfterRead ==
    \/ /\ phase = "read1"
       /\ phase' = IF cfg_act = <<>> THEN "check" ELSE "free1"
    \/ /\ phase = "read2"
       /\ phase' = "process"

\* Nothing more to parse: no bytes, an incomplete message, or a buffer that
\* begins with '\0', in which strchr() finds no newline ever again.
ReadDone ==
    /\ \/ fifo = <<>>
       \/ fifo = <<Cut>>
       \/ fifo # <<>> /\ Head(fifo) = Nul
    /\ AfterRead
    /\ UNCHANGED <<linkVars, cfg_act, mq, v_maddr, v_msize, num_freed, v_oldval, pos>>

\* A cut message runs into the next one: parse_err drops all that was read,
\* these two and whatever the same read() returned, and the loop ends early.
ReadParseError ==
    /\ Len(fifo) >= 2
    /\ Head(fifo) = Cut
    /\ \E n \in 2..Len(fifo) : fifo' = SubSeq(fifo, n + 1, Len(fifo))
    /\ AfterRead
    /\ UNCHANGED <<alive, attached, cfg_act, mq, v_maddr, v_msize, num_freed, v_oldval, pos>>

\* check_process(): running, or an error, and the loop goes on; or ended.
CheckProcess ==
    /\ phase = "check"
    /\ \/ phase' = "idle"
       \/ ~alive /\ phase' = "done"
    /\ UNCHANGED <<linkVars, cfg_act, mq, v_maddr, v_msize, num_freed, v_oldval, pos>>

FreeDynmemEarly ==
    /\ phase = "free1"
    /\ FreeDynmem
    /\ phase' = "attach"
    /\ UNCHANGED <<linkVars, cfg_act, mq, pos>>

\* MUTANT of Memattach: the messages are not read again once the game is stopped.
MemattachNoReread ==
    /\ phase = "attach"
    /\ \/ /\ alive
          /\ attached' = TRUE
          /\ phase' = "process"
       \/ /\ phase' = "check"
          /\ UNCHANGED attached
    /\ UNCHANGED <<fifo, alive, cfg_act, mq, v_maddr, v_msize, num_freed, v_oldval, pos>>

\* MUTANT of Memattach: a failure does not lead to check_process().
MemattachUnchecked ==
    /\ phase = "attach"
    /\ \/ /\ alive
          /\ attached' = TRUE
          /\ phase' = "read2"
       \/ /\ phase' = "idle"
          /\ UNCHANGED attached
    /\ UNCHANGED <<fifo, alive, cfg_act, mq, v_maddr, v_msize, num_freed, v_oldval, pos>>

\* memattach(): stops the game's main thread, or fails.
Memattach ==
    /\ phase = "attach"
    /\ \/ /\ alive
          /\ attached' = TRUE
          /\ phase' = "read2"
       \/ /\ phase' = "check"
          /\ UNCHANGED attached
    /\ UNCHANGED <<fifo, alive, cfg_act, mq, v_maddr, v_msize, num_freed, v_oldval, pos>>

-----------------------------------------------------------------------------
\* process_act_cfg() goes to a class when cfg_act reaches an entry of it and
\* the last dynamic entry before was of another class (old_dynmem).
Visits(k) ==
    LET c == EntryClass[cfg_act[k]]
    IN  /\ c \in Class
        /\ \A p \in 1..(k - 1) :
              (/\ EntryClass[cfg_act[p]] # Static
               /\ \A q \in (p + 1)..(k - 1) : EntryClass[cfg_act[q]] = Static)
              => EntryClass[cfg_act[p]] # c

\* The activated entries of class c (dynmem->cfg_act) that lie inside the
\* object i, as indices of cfg_act.
InBounds(c, i) ==
    {k \in DOMAIN cfg_act : /\ EntryClass[cfg_act[k]] = c
                            /\ EntryEnd[cfg_act[k]] <= v_msize[c][i]}

\* At pos there is an object whose memory is going to be read and written.
Accessing ==
    /\ phase = "process"
    /\ pos[1] \in DOMAIN cfg_act
    /\ Visits(pos[1])
    /\ pos[2] \in LiveIdx(EntryClass[cfg_act[pos[1]]])

\* process_dynmem_cfg_act() for one object.  An entry stores the value it read;
\* a failed object check (at cfg_act index kick) zeroes the address, and the
\* entries behind it are skipped.  Reads fail when the game is gone.
ProcessObject ==
    /\ Accessing
    /\ LET c     == EntryClass[cfg_act[pos[1]]]
           i     == pos[2]
           reads == IF alive THEN InBounds(c, i) ELSE {}
       IN  \E kick \in {0} \cup {p \in reads : cfg_act[p] \in CheckO} :
              /\ v_oldval' = [e \in DynEntry |->
                    IF \E p \in reads : cfg_act[p] = e /\ (kick = 0 \/ p <= kick)
                    THEN [v_oldval[e] EXCEPT ![i] = v_maddr[c][i]]
                    ELSE v_oldval[e]]
              /\ v_maddr' = IF kick = 0 THEN v_maddr
                            ELSE [v_maddr EXCEPT ![c][i] = Null]
    /\ pos' = <<pos[1], pos[2] + 1>>
    /\ UNCHANGED <<linkVars, phase, cfg_act, mq, v_msize, num_freed>>

\* A zeroed object, an entry that visits no class, or the end of a class.
ProcessSkip ==
    /\ phase = "process"
    /\ pos[1] \in DOMAIN cfg_act
    /\ ~Accessing
    /\ pos' = IF Visits(pos[1]) /\ pos[2] \in DOMAIN v_maddr[EntryClass[cfg_act[pos[1]]]]
              THEN <<pos[1], pos[2] + 1>>
              ELSE <<pos[1] + 1, 1>>
    /\ UNCHANGED <<linkVars, phase, cfg_act, mq, v_maddr, v_msize, num_freed, v_oldval>>

ProcessDone ==
    /\ phase = "process"
    /\ pos[1] \notin DOMAIN cfg_act
    /\ phase' = "detach"
    /\ pos' = <<1, 1>>
    /\ UNCHANGED <<linkVars, cfg_act, mq, v_maddr, v_msize, num_freed, v_oldval>>

\* memdetach(): the main thread runs on; it fails when the game is gone.
Memdetach ==
    /\ phase = "detach"
    /\ attached' = FALSE
    /\ phase' = IF alive THEN "free2" ELSE "check"
    /\ UNCHANGED <<fifo, alive, cfg_act, mq, v_maddr, v_msize, num_freed, v_oldval, pos>>

FreeDynmemLate ==
    /\ phase = "free2"
    /\ FreeDynmem
    /\ phase' = "mallocs"
    /\ UNCHANGED <<linkVars, cfg_act, mq, pos>>

\* process_mallocs(): alloc_dynmem_addr() for each queued message.
ProcessMallocs ==
    /\ phase = "mallocs"
    /\ LET Of(c) == {i \in DOMAIN mq : mq[i].class = c}
           New(c) == Keep(mq, Of(c))
       IN  /\ v_maddr' = [c \in Class |->
                 v_maddr[c] \o [j \in DOMAIN New(c) |-> New(c)[j].addr]]
           /\ v_msize' = [c \in Class |->
                 v_msize[c] \o [j \in DOMAIN New(c) |-> New(c)[j].size]]
    /\ mq' = <<>>
    /\ phase' = "alloc"
    /\ UNCHANGED <<linkVars, cfg_act, num_freed, v_oldval, pos>>

\* alloc_dynmem(): cells with the default value up to the number of objects.
AllocDynmem ==
    /\ phase = "alloc"
    /\ v_oldval' = [e \in DynEntry |->
          LET n == Len(v_maddr[EntryClass[e]]) - Len(v_oldval[e])
          IN  v_oldval[e] \o [i \in 1..n |-> Null]]
    /\ phase' = "idle"
    /\ UNCHANGED <<linkVars, cfg_act, mq, v_maddr, v_msize, num_freed, pos>>

TrainerStep ==
    \/ Wake \/ ReadDynmemFifo \/ ReadDone \/ ReadParseError \/ CheckProcess
    \/ FreeDynmemEarly \/ Memattach
    \/ ProcessObject \/ ProcessSkip \/ ProcessDone \/ Memdetach
    \/ FreeDynmemLate \/ ProcessMallocs \/ AllocDynmem

-----------------------------------------------------------------------------
\* The value cells of an entry stay aligned with the objects of its class
\* (alloc_dynmem, free_dynmem): one per object except between process_mallocs()
\* and alloc_dynmem(), and a cell never holds a value of another object.
Aligned ==
    \A e \in DynEntry :
        LET objs  == v_maddr[EntryClass[e]]
            cells == v_oldval[e]
        IN  /\ phase # "alloc" => Len(cells) = Len(objs)
            /\ Len(cells) <= Len(objs)
            /\ Len(objs) = Len(v_msize[EntryClass[e]])
            /\ \A i \in DOMAIN cells :
                  cells[i] = Null \/ objs[i] = Null \/ cells[i] = objs[i]

\* free_dynmem() computes the number of kicked objects as an unsigned
\* difference; it never wraps around.
FreedCounted ==
    \A c \in Class : num_freed[c] <= Cardinality(DOMAIN v_maddr[c] \ LiveIdx(c))
=============================================================================
