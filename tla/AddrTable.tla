------------------------------ MODULE AddrTable -----------------------------
(***************************************************************************)
(* libmemhack's table of the memory addresses of one class, slot by slot.  *)
(* store_mem_addr() runs under the write lock and is one step.             *)
(* preprocess_free() changes the table under the READ lock: it empties the *)
(* slot, compares insert_idx with its index and stores the index, while    *)
(* other threads that free objects may do the same.                        *)
(***************************************************************************)
EXTENDS Integers, FiniteSets

CONSTANTS
    Addr,           \* heap addresses
    Zero,           \* an empty slot that free() iterates over
    Inval,          \* ADDR_INVAL: an empty slot that ends free()'s iteration
    Callers,        \* threads of the game that call malloc() and free()
    MallocMayFail,  \* TRUE: the game's malloc() may return NULL
    ReallocMayFail  \* TRUE: the realloc() that grows the table may fail

ASSUME SlotAssumption ==
    /\ Zero \notin Addr
    /\ Inval \notin Addr
    /\ Zero # Inval

VARIABLES
    mem_addrs,   \* the slots 0..max_obj, or NoTable
    max_obj,     \* usable slots; slot max_obj is the terminator
    insert_idx,  \* where the search for an empty slot starts
    freeing,     \* freeing[t]: where thread t is in preprocess_free()
    peak         \* history: the most addresses the table ever held at once

tableVars == <<mem_addrs, max_obj, insert_idx, freeing, peak>>

Slot == Addr \cup {Zero, Inval}

NotFreeing == [at |-> "no", addr |-> Zero, idx |-> 0]

\* mem_addrs is NULL: no slots at all.
NoTable == [j \in {} |-> Zero]

HasTable == mem_addrs # NoTable

\* Slots that hold an address, and those addresses.
Used == IF HasTable THEN {j \in 0..max_obj : mem_addrs[j] \in Addr} ELSE {}

Stored == {mem_addrs[j] : j \in Used}

\* The slots free() iterates over.
Scanned == {j \in 0..max_obj : \A k \in 0..j : mem_addrs[k] # Inval}

TypeOK ==
    /\ mem_addrs \in [0..max_obj -> Slot] \cup {NoTable}
    /\ max_obj \in Nat
    /\ insert_idx \in Nat
    /\ freeing \in [Callers -> [at : {"no", "compare", "set"},
                                addr : Addr \cup {Zero}, idx : Nat]]
    /\ peak \in Nat

\* memhack_init(): one usable slot and the terminator.
TableInit ==
    /\ mem_addrs = [j \in 0..1 |-> Inval]
    /\ max_obj = 1
    /\ insert_idx = 0
    /\ freeing = [t \in Callers |-> NotFreeing]
    /\ peak = 0

-----------------------------------------------------------------------------
Full == mem_addrs[max_obj - 1] # Inval

\* The table when the address gets its slot: doubled when the last usable
\* slot is taken.
GrownMax == IF Full THEN 2 * max_obj ELSE max_obj

\* MUTANT of Grown: the new slots are empty, but not invalid.
GrownZeroed == [j \in 0..GrownMax |-> IF j <= max_obj THEN mem_addrs[j] ELSE Zero]

Grown == [j \in 0..GrownMax |-> IF j <= max_obj THEN mem_addrs[j] ELSE Inval]

\* MUTANT of Candidates: the search does not look at the slots.
CandidatesAny == insert_idx..(GrownMax - 1)

\* The empty slots the search can end at.
Candidates == {j \in insert_idx..(GrownMax - 1) : Grown[j] \in {Zero, Inval}}

\* The write lock waits for the threads that hold the read lock.
WrLock == \A t \in Callers : freeing[t].at = "no"

\* MUTANT of StoreMemAddr: the search starts behind the slot just taken.
StoreMemAddrBehind(a) ==
    /\ WrLock
    /\ HasTable
    /\ IF Candidates = {}
       THEN mem_addrs' = Grown /\ UNCHANGED <<insert_idx, peak>>
       ELSE \E j \in Candidates :
               /\ \A k \in Candidates : j <= k
               /\ mem_addrs' = [Grown EXCEPT ![j] = a]
               /\ insert_idx' = j + 1
               /\ peak' = peak
    /\ max_obj' = GrownMax
    /\ UNCHANGED freeing

\* store_mem_addr() of a new object, or of NULL after a failed malloc().
StoreMemAddr(a) ==
    /\ WrLock
    /\ HasTable
    /\ IF Candidates = {}
       THEN mem_addrs' = Grown /\ UNCHANGED <<insert_idx, peak>>
       ELSE \E j \in Candidates :
               /\ \A k \in Candidates : j <= k
               /\ mem_addrs' = [Grown EXCEPT ![j] = a]
               /\ insert_idx' = j
               /\ peak' = LET n == Cardinality(Used \cup (IF a = Zero THEN {} ELSE {j}))
                          IN  IF n > peak THEN n ELSE peak
    /\ max_obj' = GrownMax
    /\ UNCHANGED freeing

\* The realloc() of store_mem_addr() fails: the pointer to the table is gone.
StoreLosesTable ==
    /\ ReallocMayFail
    /\ WrLock
    /\ HasTable
    /\ Full
    /\ mem_addrs' = NoTable
    /\ max_obj' = 0
    /\ UNCHANGED <<insert_idx, freeing, peak>>

\* store_mem_addr() without a table.
StoreNoTable ==
    /\ WrLock
    /\ ~HasTable
    /\ max_obj' = 0
    /\ UNCHANGED <<mem_addrs, insert_idx, freeing, peak>>

\* preprocess_free() of an address the iteration finds: its slot is emptied.
FreeFound(t, a) ==
    /\ freeing[t].at = "no"
    /\ HasTable
    /\ \E j \in Scanned :
          /\ mem_addrs[j] = a
          /\ \A k \in 0..(j - 1) : mem_addrs[k] # a
          /\ mem_addrs' = [mem_addrs EXCEPT ![j] = Zero]
          /\ freeing' = [freeing EXCEPT ![t] = [at |-> "compare", addr |-> a, idx |-> j]]
    /\ UNCHANGED <<max_obj, insert_idx, peak>>

\* if (j < insert_idx)
FreeCompare(t) ==
    /\ freeing[t].at = "compare"
    /\ freeing' = [freeing EXCEPT ![t] = IF @.idx < insert_idx
                                         THEN [@ EXCEPT !.at = "set"]
                                         ELSE NotFreeing]
    /\ UNCHANGED <<mem_addrs, max_obj, insert_idx, peak>>

\* insert_idx = j, and the lock is released.
FreeSet(t) ==
    /\ freeing[t].at = "set"
    /\ insert_idx' = freeing[t].idx
    /\ freeing' = [freeing EXCEPT ![t] = NotFreeing]
    /\ UNCHANGED <<mem_addrs, max_obj, peak>>

\* An address comes from malloc(): it is no object's, and no thread is about
\* to free it.
TableNext ==
    \/ \E a \in Addr \ Stored : StoreMemAddr(a)
    \/ MallocMayFail /\ StoreMemAddr(Zero)
    \/ StoreLosesTable \/ StoreNoTable
    \/ \E t \in Callers, a \in Addr : FreeFound(t, a)
    \/ \E t \in Callers : FreeCompare(t) \/ FreeSet(t)

TableSpec == TableInit /\ [][TableNext]_tableVars

-----------------------------------------------------------------------------
\* The slots do what the set promises: a malloc() that reports its object also
\* stores it (store_mem_addr finds an empty slot behind insert_idx), and a
\* free() finds every address that is stored and removes only its own.
Abstract == INSTANCE AddrSet WITH known <- Stored, lost <- ~HasTable

RefinesAddrSet == Abstract!Spec

\* "free() only iterates until it hits an invalid pointer": no address is
\* behind the first invalid pointer, and the last slot is one, so that the
\* iteration neither misses an object nor leaves the array.
Findable ==
    HasTable => /\ mem_addrs[max_obj] = Inval
                /\ Used \subseteq Scanned

\* The search of store_mem_addr() starts inside of the array and not behind
\* the first invalid pointer, whatever threads free at the same time.
InsertIdxValid ==
    HasTable => insert_idx < max_obj /\ \A j \in 0..(insert_idx - 1) : mem_addrs[j] # Inval

\* "This way the first invalid pointer represents the number of objects which
\* had to be kept track of at once."
HighWater == HasTable => Cardinality(Scanned) = peak
=============================================================================
