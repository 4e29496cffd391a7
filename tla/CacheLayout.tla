----------------------------- MODULE CacheLayout -----------------------------
(***************************************************************************)
(* Which chunks of the game's memory the trainer reads and writes.         *)
(*                                                                         *)
(* The config file names values by their offset in a memory area: static   *)
(* memory, the stack, a library, the objects of a class, or what a pointer *)
(* leads to.  Values are not read one by one: every area has a list of     *)
(* caches of MEM_CHUNK bytes, and every value is read from and written to  *)
(* one of them.  read_config() finds, line by line, where the first cache  *)
(* of an area starts, and build_caches() goes through the values sorted by *)
(* their offsets and adds a cache whenever a value is not wholly in the    *)
(* last one of its area.                                                   *)
(*                                                                         *)
(* An element is a config entry or a check, as far as it has memory to     *)
(* read: strings and checks on another entry's value are not listed.       *)
(***************************************************************************)
EXTENDS Naturals, Sequences, FiniteSets

CONSTANTS
    Area,        \* memory areas of the config
    Chunk,       \* MEM_CHUNK
    PtrMax,      \* PTR_MAX: the offset of a cache nothing was listed for
    Layouts      \* the sets of elements of the config files considered

\* What the config file says of one element.
Element == [id : Nat, area : Area, addr : Nat, size : Nat]

ASSUME ChunkAssumption == Chunk \in Nat /\ PtrMax \in Nat
ASSUME LayoutAssumption ==
    \A s \in Layouts :
        /\ s \subseteq Element
        /\ \A x \in s : /\ 1 <= x.size /\ x.size <= Chunk
                        /\ x.addr < PtrMax

VARIABLES
    unread,      \* elements on the lines read_config() has not reached
    addrlist,    \* elements build_caches() has still to place
    cache_list,  \* cache_list[a]: offsets at which the caches of area a start
    place        \* place[x]: number of the cache that element x was given

layoutVars == <<unread, addrlist, cache_list, place>>

Placed == DOMAIN place

\* cache_list->back().offs
LastOffs(a) == cache_list[a][Len(cache_list[a])]

EndOf(x) == x.addr + x.size

LayoutInit ==
    /\ unread \in Layouts
    /\ addrlist = {}
    /\ cache_list = [a \in Area |-> <<PtrMax>>]
    /\ place = [x \in {} |-> 0]

-----------------------------------------------------------------------------
\* A line of the config: FIND_CACHE_START(_CHECK), then LIST_ADD_ADDR.
ReadElement(x) ==
    /\ unread' = unread \ {x}
    /\ addrlist' = addrlist \cup {x}
    /\ cache_list' = IF x.addr < LastOffs(x.area)
                     THEN [cache_list EXCEPT ![x.area] = <<x.addr>>]
                     ELSE cache_list
    /\ UNCHANGED place

\* MUTANT of NeedsCache: only the first byte of the value is looked at.
NeedsCacheByStart(x) == x.addr >= LastOffs(x.area) + Chunk

\* BUILD_CACHE: the value is not wholly in the last cache of its area.
NeedsCache(x) == EndOf(x) > LastOffs(x.area) + Chunk

\* MUTANT of Sorted: the elements are taken as they come.
SortedNot(x) == TRUE

\* addrlist->sort(): no element before x is left.
Sorted(x) == \A y \in addrlist : x.addr <= y.addr

\* build_caches(): the next element in the order of the offsets.
PlaceElement(x) ==
    /\ unread = {}
    /\ Sorted(x)
    /\ addrlist' = addrlist \ {x}
    /\ cache_list' = IF NeedsCache(x)
                     THEN [cache_list EXCEPT ![x.area] = Append(@, x.addr)]
                     ELSE cache_list
    /\ place' = [y \in Placed \cup {x} |->
                    IF y = x THEN Len(cache_list'[x.area]) ELSE place[y]]
    /\ UNCHANGED unread

LayoutNext ==
    \/ \E x \in unread : ReadElement(x)
    \/ \E x \in addrlist : PlaceElement(x)

LayoutDone == unread = {} /\ addrlist = {}

LayoutSpec == LayoutInit /\ [][LayoutNext]_layoutVars

-----------------------------------------------------------------------------
(* Every value lies wholly in the cache it was given: cache_data never     *)
(* points outside of the buffer of MEM_CHUNK bytes (ASSIGN_CACHE).         *)
InsideCache ==
    \A x \in Placed : LET offs == cache_list[x.area][place[x]] IN
        /\ offs <= x.addr
        /\ EndOf(x) <= offs + Chunk

(* Caches are written back in the order of the list, and two caches may    *)
(* overlap: the chunk of a later one may hold an older copy of what an     *)
(* earlier one has just written.  It holds no value of an earlier cache,   *)
(* unless that value overlaps the very value the later cache was opened    *)
(* for.                                                                    *)
LaterCachesBehind ==
    \A x \in Placed : \A k \in DOMAIN cache_list[x.area] :
        k > place[x] =>
            \/ EndOf(x) <= cache_list[x.area][k]
            \/ \E y \in Placed : /\ y # x /\ y.area = x.area
                                 /\ y.addr = cache_list[x.area][k]
                                 /\ x.addr <= y.addr /\ y.addr < EndOf(x)
=============================================================================
