----------------------------- MODULE ValuesProofs -----------------------------
(***************************************************************************)
(* For every config and every chunk size: each value lies in the cache it  *)
(* is given, and writing the caches back in the order of the list never    *)
(* undoes what an earlier one wrote; the vectors of a class stay in step;  *)
(* and a pointer is followed only with the value its object had before.    *)
(*                                                                         *)
(* InsideCache is not inductive: that a value placed now does not begin    *)
(* before the last cache is due to FIND_CACHE_START for the first cache    *)
(* (StartsFirst while the lines are read) and to the sorted list for the   *)
(* others (StartsFirst after each opened cache, SortedBehind).             *)
(*                                                                         *)
(* FollowSeen is not inductive either: v_oldval is kept per index, the     *)
(* history lastptr per address.  That they agree (Latest) is due to the    *)
(* addresses of a class being distinct (Mapped), to the vectors being in   *)
(* step (Sized), and to free_ptrmem() and alloc_ptrmem() moving or         *)
(* resetting the old values along with the addresses.                      *)
(***************************************************************************)
EXTENDS Values, VecOpsProofs

Good(x) == /\ x \in Element
           /\ 1 <= x.size /\ x.size <= Chunk
           /\ x.addr < PtrMax

TypeInv ==
    /\ \A x \in unread \cup addrlist \cup Placed : Good(x)
    /\ cache_list \in [Area -> Seq(Nat)]
    /\ \A a \in Area : Len(cache_list[a]) >= 1
    /\ place \in [Placed -> Nat]
    /\ \A x \in Placed : place[x] \in 1..Len(cache_list[x.area])

\* build_caches() runs after the last line of the config.
ReadFirst ==
    unread # {} => /\ Placed = {}
                   /\ \A a \in Area : Len(cache_list[a]) = 1

\* No value that is still to be placed begins before the last cache.
StartsFirst == \A x \in addrlist : LastOffs(x.area) <= x.addr

\* What is placed begins before what is still to be placed.
SortedBehind == \A x \in Placed, y \in addrlist : x.addr <= y.addr

\* An element is placed once.
PlacedOnce == addrlist \cap Placed = {}

\* Every cache but the first was opened for a value at its start.
OpenedFor ==
    \A a \in Area : \A k \in 2..Len(cache_list[a]) :
        \E y \in Placed : y.area = a /\ y.addr = cache_list[a][k] /\ place[y] = k

\* Caches behind that of a value do not begin before the value.
BehindStart ==
    \A x \in Placed : \A k \in 1..Len(cache_list[x.area]) :
        k > place[x] => x.addr <= cache_list[x.area][k]

LayoutInv ==
    /\ TypeInv /\ ReadFirst /\ StartsFirst /\ SortedBehind /\ PlacedOnce
    /\ InsideCache /\ OpenedFor /\ BehindStart

-----------------------------------------------------------------------------
\* read_config() begins with one cache per area and nothing placed.
LEMMA InitLayout == LayoutInit => LayoutInv
<1> SUFFICES ASSUME LayoutInit PROVE LayoutInv
    OBVIOUS
<1> USE LayoutAssumption, ChunkAssumption DEF LayoutInit, Placed
<1>1. TypeInv
    BY DEF TypeInv, Good
<1>2. ReadFirst
    BY DEF ReadFirst
<1>3. /\ StartsFirst /\ SortedBehind /\ PlacedOnce
      /\ InsideCache /\ OpenedFor /\ BehindStart
    BY DEF StartsFirst, SortedBehind, PlacedOnce, InsideCache, OpenedFor, BehindStart
<1> QED BY <1>1, <1>2, <1>3 DEF LayoutInv

\* A line of the config lowers the start of the first cache if it has to.
LEMMA ReadKeeps ==
    ASSUME LayoutInv, NEW x \in unread, ReadElement(x)
    PROVE  LayoutInv'
<1> USE DEF LayoutInv
<1>1. /\ Good(x) /\ x.area \in Area /\ x.addr \in Nat
      /\ Placed = {} /\ Placed' = {} /\ place' = place
      /\ \A a \in Area : Len(cache_list[a]) = 1
    BY DEF TypeInv, Good, Element, ReadFirst, ReadElement, Placed
<1>2. /\ cache_list' \in [Area -> Seq(Nat)]
      /\ \A a \in Area : Len(cache_list'[a]) = 1
    BY <1>1 DEF TypeInv, ReadElement
<1>3. TypeInv'
    BY <1>1, <1>2 DEF TypeInv, ReadElement, Good
<1>4. ReadFirst'
    BY <1>1, <1>2 DEF ReadFirst
<1>5. StartsFirst'
    <2> SUFFICES ASSUME NEW y \in addrlist' PROVE (LastOffs(y.area) <= y.addr)'
        BY DEF StartsFirst
    <2>1. y \in addrlist \cup {x} /\ y.area \in Area /\ y.addr \in Nat
        BY <1>1, <1>3 DEF ReadElement, TypeInv, Good, Element
    <2>2. /\ cache_list[y.area][1] \in Nat /\ cache_list[x.area][1] \in Nat
          /\ LastOffs(y.area) = cache_list[y.area][1]
          /\ LastOffs(x.area) = cache_list[x.area][1]
          /\ LastOffs(y.area)' = cache_list'[y.area][1]
        <3>1. \A b \in Area : /\ cache_list[b] \in Seq(Nat) /\ Len(cache_list[b]) = 1
                              /\ Len(cache_list'[b]) = 1
            BY <1>1, <1>2 DEF TypeInv
        <3>2. \A b \in Area : cache_list[b][1] \in Nat
            BY <3>1
        <3> QED BY <1>1, <2>1, <3>1, <3>2 DEF LastOffs
    <2>3. y # x => LastOffs(y.area) <= y.addr
        BY <2>1 DEF StartsFirst
    <2> QED BY <1>1, <2>1, <2>2, <2>3, SMTT(30) DEF ReadElement, TypeInv
<1>6. SortedBehind' /\ PlacedOnce' /\ InsideCache' /\ BehindStart'
    BY <1>1 DEF SortedBehind, PlacedOnce, InsideCache, BehindStart
<1>7. OpenedFor'
    BY <1>2 DEF OpenedFor
<1> QED BY <1>3, <1>4, <1>5, <1>6, <1>7

-----------------------------------------------------------------------------
\* What placing an element does to the list of its area and to the others.
LEMMA PlaceEffect ==
    ASSUME LayoutInv, NEW x \in addrlist, PlaceElement(x)
    PROVE  LET a == x.area
               n == Len(cache_list[a]) IN
           /\ Good(x) /\ a \in Area /\ x.addr \in Nat /\ x.size \in Nat
           /\ n \in Nat \ {0} /\ LastOffs(a) \in Nat /\ LastOffs(a) <= x.addr
           /\ cache_list' \in [Area -> Seq(Nat)]
           /\ \A b \in Area : b # a => cache_list'[b] = cache_list[b]
           /\ \A k \in 1..n : cache_list'[a][k] = cache_list[a][k]
           /\ \/ NeedsCache(x) /\ Len(cache_list'[a]) = n + 1 /\ cache_list'[a][n + 1] = x.addr
              \/ ~NeedsCache(x) /\ Len(cache_list'[a]) = n
           /\ Placed' = Placed \cup {x}
           /\ place'[x] = Len(cache_list'[a])
           /\ \A y \in Placed : y # x => place'[y] = place[y]
<1> DEFINE a == x.area
           n == Len(cache_list[a])
<1> USE DEF LayoutInv
<1>1. Good(x) /\ a \in Area /\ x.addr \in Nat /\ x.size \in Nat
    BY DEF TypeInv, Good, Element
<1>2. cache_list[a] \in Seq(Nat) /\ n \in Nat \ {0}
    BY <1>1 DEF TypeInv
<1>3. LastOffs(a) \in Nat /\ LastOffs(a) <= x.addr
    BY <1>1, <1>2 DEF LastOffs, StartsFirst
<1>4. CASE NeedsCache(x)
    <2>1. cache_list' = [cache_list EXCEPT ![a] = Append(cache_list[a], x.addr)]
        BY <1>4 DEF PlaceElement
    <2>2. cache_list'[a] = Append(cache_list[a], x.addr)
        BY <2>1, <1>1 DEF TypeInv
    <2>3. /\ Len(cache_list'[a]) = n + 1 /\ cache_list'[a][n + 1] = x.addr
          /\ \A k \in 1..n : cache_list'[a][k] = cache_list[a][k]
          /\ cache_list'[a] \in Seq(Nat)
        BY <2>2, <1>1, <1>2
    <2>4. /\ cache_list' \in [Area -> Seq(Nat)]
          /\ \A b \in Area : b # a => cache_list'[b] = cache_list[b]
        BY <2>1, <2>2, <2>3, <1>1 DEF TypeInv
    <2>5. /\ Placed' = Placed \cup {x} /\ place'[x] = Len(cache_list'[a])
          /\ \A y \in Placed : y # x => place'[y] = place[y]
        BY DEF PlaceElement, Placed
    <2> QED BY <2>3, <2>4, <2>5, <1>1, <1>2, <1>3, <1>4, SMTT(30)
<1>5. CASE ~NeedsCache(x)
    <2>1. cache_list' = cache_list
        BY <1>5 DEF PlaceElement
    <2>2. /\ Placed' = Placed \cup {x} /\ place'[x] = Len(cache_list'[a])
          /\ \A y \in Placed : y # x => place'[y] = place[y]
        BY DEF PlaceElement, Placed
    <2> QED BY <2>1, <2>2, <1>1, <1>2, <1>3, <1>5 DEF TypeInv
<1> QED BY <1>4, <1>5

\* build_caches() places the next value.
LEMMA PlaceKeeps ==
    ASSUME LayoutInv, NEW x \in addrlist, PlaceElement(x)
    PROVE  LayoutInv'
<1> DEFINE a == x.area
           n == Len(cache_list[a])
<1> USE DEF LayoutInv
<1>1. /\ Good(x) /\ a \in Area /\ x.addr \in Nat /\ x.size \in Nat
      /\ n \in Nat \ {0} /\ LastOffs(a) \in Nat /\ LastOffs(a) <= x.addr
      /\ cache_list' \in [Area -> Seq(Nat)]
      /\ \A b \in Area : b # a => cache_list'[b] = cache_list[b]
      /\ \A k \in 1..n : cache_list'[a][k] = cache_list[a][k]
      /\ \/ NeedsCache(x) /\ Len(cache_list'[a]) = n + 1 /\ cache_list'[a][n + 1] = x.addr
         \/ ~NeedsCache(x) /\ Len(cache_list'[a]) = n
      /\ Placed' = Placed \cup {x}
      /\ place'[x] = Len(cache_list'[a])
      /\ \A y \in Placed : y # x => place'[y] = place[y]
    BY PlaceEffect
<1>2. unread = {} /\ unread' = {} /\ addrlist' = addrlist \ {x} /\ Sorted(x)
    BY DEF PlaceElement
<1>3. \A b \in Area : /\ Len(cache_list[b]) \in Nat \ {0} /\ Len(cache_list'[b]) \in Nat \ {0}
                       /\ Len(cache_list'[b]) >= Len(cache_list[b])
                       /\ \A k \in 1..Len(cache_list[b]) : cache_list'[b][k] = cache_list[b][k]
    <2> SUFFICES ASSUME NEW b \in Area
                 PROVE  /\ Len(cache_list[b]) \in Nat \ {0} /\ Len(cache_list'[b]) \in Nat \ {0}
                        /\ Len(cache_list'[b]) >= Len(cache_list[b])
                        /\ \A k \in 1..Len(cache_list[b]) : cache_list'[b][k] = cache_list[b][k]
        OBVIOUS
    <2>1. Len(cache_list[b]) \in Nat \ {0}
        BY DEF TypeInv
    <2>2. CASE b = a
        BY <1>1, <2>2
    <2>3. CASE b # a
        BY <1>1, <2>1, <2>3
    <2> QED BY <2>2, <2>3
<1>4. \A y \in Placed' : y \in Element /\ y.area \in Area /\ y.addr \in Nat /\ y.size \in Nat
    BY <1>1 DEF TypeInv, Good, Element
<1>5. TypeInv'
    <2>1. \A y \in (unread \cup addrlist \cup Placed)' : Good(y)
        BY <1>1, <1>2 DEF TypeInv
    <2>2. place' \in [Placed' -> Nat]
        BY <1>1, <1>3, <1>4 DEF TypeInv, PlaceElement, Placed
    <2>3. \A y \in Placed' : place'[y] \in 1..Len(cache_list'[y.area])
        <3> SUFFICES ASSUME NEW y \in Placed' PROVE place'[y] \in 1..Len(cache_list'[y.area])
            OBVIOUS
        <3>1. CASE y = x
            BY <1>1, <1>3, <3>1
        <3>2. CASE y # x
            <4>1. y \in Placed /\ y.area \in Area
                BY <1>1, <1>4, <3>2
            <4>2. place'[y] = place[y] /\ place[y] \in 1..Len(cache_list[y.area])
                BY <1>1, <3>2, <4>1 DEF TypeInv
            <4> QED BY <1>3, <4>1, <4>2
        <3> QED BY <3>1, <3>2
    <2>4. \A b \in Area : Len(cache_list'[b]) >= 1
        BY <1>3
    <2>5. cache_list' \in [Area -> Seq(Nat)]
        BY <1>1
    <2> QED BY <2>1, <2>2, <2>3, <2>4, <2>5 DEF TypeInv
<1>6. ReadFirst'
    BY <1>2 DEF ReadFirst
<1>7. StartsFirst'
    <2> SUFFICES ASSUME NEW y \in addrlist' PROVE LastOffs(y.area)' <= y.addr
        BY DEF StartsFirst
    <2>1. y \in addrlist /\ y.area \in Area /\ y.addr \in Nat /\ x.addr <= y.addr
        BY <1>2 DEF TypeInv, Good, Element, Sorted
    <2>2. LastOffs(y.area) <= y.addr
        BY <2>1 DEF StartsFirst
    <2>3. CASE y.area # a
        BY <1>1, <2>1, <2>2, <2>3 DEF LastOffs
    <2>4. CASE y.area = a /\ NeedsCache(x)
        BY <1>1, <2>1, <2>4 DEF LastOffs
    <2>5. CASE y.area = a /\ ~NeedsCache(x)
        BY <1>1, <2>1, <2>2, <2>5 DEF LastOffs
    <2> QED BY <2>3, <2>4, <2>5
<1>8. SortedBehind'
    BY <1>1, <1>2 DEF SortedBehind, Sorted
<1>9. InsideCache'
    <2> SUFFICES ASSUME NEW y \in Placed'
                 PROVE  /\ cache_list'[y.area][place'[y]] <= y.addr
                        /\ EndOf(y) <= cache_list'[y.area][place'[y]] + Chunk
        BY DEF InsideCache, EndOf
    <2>1. CASE y = x /\ NeedsCache(x)
        <3>1. cache_list'[a][place'[x]] = x.addr
            <4>1. place'[x] = n + 1 /\ cache_list'[a][n + 1] = x.addr
                BY <1>1, <2>1
            <4> QED BY <4>1
        <3>2. x.size <= Chunk
            BY <1>1 DEF Good
        <3> QED BY SMTT(30), <1>1, <2>1, <3>1, <3>2, ChunkAssumption DEF EndOf
    <2>2. CASE y = x /\ ~NeedsCache(x)
        <3>1. cache_list'[a][place'[x]] = LastOffs(a)
            <4>1. place'[x] = n /\ n \in 1..n
                BY <1>1, <2>2
            <4>2. cache_list'[a][n] = cache_list[a][n]
                BY <1>1, <4>1
            <4> QED BY <4>1, <4>2 DEF LastOffs
        <3> QED BY SMTT(30), <1>1, <2>2, <3>1, ChunkAssumption DEF EndOf, NeedsCache
    <2>3. CASE y # x
        <3>1. y \in Placed /\ place'[y] = place[y] /\ place[y] \in 1..Len(cache_list[y.area])
            BY <1>1, <2>3 DEF TypeInv
        <3>2. cache_list'[y.area][place[y]] = cache_list[y.area][place[y]]
            BY <1>3, <1>4, <3>1
        <3> QED BY <3>1, <3>2 DEF InsideCache
    <2> QED BY <2>1, <2>2, <2>3
<1>10. OpenedFor'
    <2> SUFFICES ASSUME NEW b \in Area, NEW k \in 2..Len(cache_list'[b])
                 PROVE  \E y \in Placed' : y.area = b /\ y.addr = cache_list'[b][k] /\ place'[y] = k
        BY DEF OpenedFor
    <2>1. CASE k \in 1..Len(cache_list[b])
        <3>1. PICK y \in Placed : y.area = b /\ y.addr = cache_list[b][k] /\ place[y] = k
            BY <2>1, <1>3 DEF OpenedFor
        <3>2. y # x
            BY <3>1 DEF PlacedOnce
        <3> QED BY <1>1, <2>1, <1>3, <3>1, <3>2
    <2>2. CASE k \notin 1..Len(cache_list[b])
        <3>1. b = a /\ NeedsCache(x) /\ k = n + 1
            BY SMTT(30), <1>1, <1>3, <2>2
        <3> QED BY <1>1, <3>1
    <2> QED BY <2>1, <2>2
<1>11. BehindStart'
    <2> SUFFICES ASSUME NEW y \in Placed', NEW k \in 1..Len(cache_list'[y.area]), k > place'[y]
                 PROVE  y.addr <= cache_list'[y.area][k]
        BY DEF BehindStart
    <2>1. y # x
        BY <1>1
    <2>2. y \in Placed /\ place'[y] = place[y] /\ y.addr <= x.addr
        BY <1>1, <2>1 DEF SortedBehind
    <2>3. CASE k \in 1..Len(cache_list[y.area])
        BY <1>1, <1>4, <2>2, <2>3 DEF BehindStart
    <2>4. CASE k \notin 1..Len(cache_list[y.area])
        <3> DEFINE b == y.area
        <3>1. b \in Area
            BY <1>4
        <3>2. b = a
            BY <1>1, <2>4, <3>1
        <3>3. NeedsCache(x) /\ k = n + 1
            BY <1>1, <2>4, <3>2
        <3> QED BY <1>1, <2>2, <3>2, <3>3
    <2> QED BY <2>3, <2>4
<1>12. PlacedOnce'
    BY <1>1, <1>2 DEF PlacedOnce
<1> QED BY <1>5, <1>6, <1>7, <1>8, <1>9, <1>10, <1>11, <1>12

-----------------------------------------------------------------------------
\* The invariant holds before, between and after the lines of the config.
LEMMA LayoutInvAlways == LayoutSpec => []LayoutInv
<1>1. LayoutInv /\ [LayoutNext]_layoutVars => LayoutInv'
    <2> SUFFICES ASSUME LayoutInv, [LayoutNext]_layoutVars PROVE LayoutInv'
        OBVIOUS
    <2>1. ASSUME NEW x \in unread, ReadElement(x) PROVE LayoutInv'
        BY <2>1, ReadKeeps
    <2>2. ASSUME NEW x \in addrlist, PlaceElement(x) PROVE LayoutInv'
        BY <2>2, PlaceKeeps
    <2>3. CASE UNCHANGED layoutVars
        BY <2>3 DEF layoutVars, LayoutInv, TypeInv, ReadFirst, StartsFirst, SortedBehind,
                    PlacedOnce, InsideCache, OpenedFor, BehindStart, LastOffs, Placed
    <2> QED BY <2>1, <2>2, <2>3 DEF LayoutNext
<1> QED BY <1>1, InitLayout, PTL DEF LayoutSpec

(* Every value lies wholly in the cache it was given, whatever the config  *)
(* says and however large a chunk is: build_caches() after read_config().  *)
THEOREM InsideCacheAlways == LayoutSpec => []InsideCache
<1>1. LayoutInv => InsideCache
    BY DEF LayoutInv
<1> QED BY <1>1, LayoutInvAlways, PTL

(* A later cache holds no value of an earlier one but of values that       *)
(* overlap in the config: WRITE_CACHES loses nothing.                      *)
THEOREM LaterCachesBehindAlways == LayoutSpec => []LaterCachesBehind
<1>1. LayoutInv => LaterCachesBehind
    <2> SUFFICES ASSUME LayoutInv, NEW x \in Placed, NEW k \in DOMAIN cache_list[x.area],
                        k > place[x], ~(EndOf(x) <= cache_list[x.area][k])
                 PROVE  \E y \in Placed : /\ y # x /\ y.area = x.area
                                          /\ y.addr = cache_list[x.area][k]
                                          /\ x.addr <= y.addr /\ y.addr < EndOf(x)
        BY DEF LaterCachesBehind
    <2> USE DEF LayoutInv
    <2>1. /\ x.area \in Area /\ x.addr \in Nat /\ x.size \in Nat
          /\ cache_list[x.area] \in Seq(Nat)
          /\ place[x] \in 1..Len(cache_list[x.area])
        BY DEF TypeInv, Good, Element
    <2>2. k \in 2..Len(cache_list[x.area]) /\ cache_list[x.area][k] \in Nat
        BY SMTT(30), <2>1
    <2>3. PICK y \in Placed : y.area = x.area /\ y.addr = cache_list[x.area][k] /\ place[y] = k
        BY <2>1, <2>2 DEF OpenedFor
    <2>4. y # x
        BY <2>1, <2>3
    <2>5. x.addr <= y.addr
        BY <2>1, <2>2, <2>3 DEF BehindStart
    <2> QED BY SMTT(30), <2>1, <2>2, <2>3, <2>4, <2>5 DEF EndOf
<1> QED BY <1>1, LayoutInvAlways, PTL
-----------------------------------------------------------------------------
(***************************************************************************)
(* Folds.  The two folds of Values in one operator: the checks of an entry *)
(* and the entries behind a pointer.                                       *)
(***************************************************************************)
Then(e, offs, acc, j) == IF acc.ok THEN Check(acc.u, e, j, offs) ELSE acc

Step(kind, a, b, acc, x) == IF kind = "check" THEN Then(a, b, acc, x) ELSE VisitPointee(acc, x, a)

\* f goes through q from the first to the last; its arguments are sets of indices.
IsFold(kind, a, b, base, q, L, f) ==
    f = [s \in SUBSET (1..L) |->
            IF s = {} THEN base ELSE Step(kind, a, b, f[s \ {Max(s)}], q[Max(s)])]

Steps(kind, a, b, base, q, L, f) ==
    /\ f[1..0] = base
    /\ \A k \in 1..L : f[1..k] = Step(kind, a, b, f[1..(k - 1)], q[k])

\* The largest of a set of indices up to k.
LEMMA LastOf ==
    ASSUME NEW k \in Nat, NEW s, s \subseteq 1..k, k \in s
    PROVE  Max(s) = k
<1>1. \A x \in s : k >= x
  OBVIOUS
<1>2. \A m \in s : (\A x \in s : m >= x) => m = k
  OBVIOUS
<1> QED
  BY <1>1, <1>2 DEF Max

\* The recursive function a fold is defined with exists.
LEMMA FoldExists ==
    ASSUME NEW kind, NEW a, NEW b, NEW base, NEW q, NEW L \in Nat
    PROVE  \E g : IsFold(kind, a, b, base, q, L, g)
<1> DEFINE Fold(k, g) == IsFold(kind, a, b, base, q, k, g)
           K == {k \in 1..L : ~\E g : Fold(k, g)}
<1>1. \E g : Fold(0, g)
  <2> DEFINE g == [s \in SUBSET (1..0) |-> base]
  <2>1. \A s \in SUBSET (1..0) : s = {}
    OBVIOUS
  <2>2. Fold(0, g)
    BY <2>1 DEF IsFold
  <2> QED
    BY <2>2
<1>2. ASSUME NEW k \in 1..L, NEW g, Fold(k - 1, g)
      PROVE  \E h : Fold(k, h)
  <2> DEFINE h == [s \in SUBSET (1..k) |-> IF k \in s THEN Step(kind, a, b, g[s \ {k}], q[k]) ELSE g[s]]
  <2>1. k - 1 \in Nat /\ k \in Nat /\ \A s \in SUBSET (1..k) : /\ k \notin s => s \in SUBSET (1..(k - 1))
                                                               /\ s \ {k} \in SUBSET (1..(k - 1))
    OBVIOUS
  <2>2. \A s \in SUBSET (1..(k - 1)) :
           g[s] = IF s = {} THEN base ELSE Step(kind, a, b, g[s \ {Max(s)}], q[Max(s)])
    BY <1>2 DEF IsFold
  <2>3. \A s \in SUBSET (1..(k - 1)) : s \in SUBSET (1..k) /\ k \notin s
    BY <2>1
  <2>4. \A s \in SUBSET (1..(k - 1)) : h[s] = g[s]
    BY <2>3
  <2>5. ASSUME NEW s \in SUBSET (1..k)
        PROVE  h[s] = IF s = {} THEN base ELSE Step(kind, a, b, h[s \ {Max(s)}], q[Max(s)])
    <3>1. CASE k \in s
      <4>1. Max(s) = k /\ s # {}
        BY <2>1, <3>1, LastOf
      <4>2. h[s] = Step(kind, a, b, g[s \ {k}], q[k]) /\ h[s \ {k}] = g[s \ {k}]
        BY <2>1, <2>4, <3>1
      <4> QED
        BY <4>1, <4>2
    <3>2. CASE k \notin s
      <4>1. h[s] = g[s] /\ s \in SUBSET (1..(k - 1)) /\ s \ {Max(s)} \in SUBSET (1..(k - 1))
        BY <2>1, <2>4, <3>2
      <4>2. h[s \ {Max(s)}] = g[s \ {Max(s)}]
        BY <2>4, <4>1
      <4> QED
        BY <2>2, <4>1, <4>2
    <3> QED
      BY <3>1, <3>2
  <2>6. h = [s \in SUBSET (1..k) |-> h[s]]
    OBVIOUS
  <2> HIDE DEF h
  <2>7. Fold(k, h)
    BY <2>5, <2>6 DEF IsFold
  <2> QED
    BY <2>7
<1> SUFFICES \E g : Fold(L, g)
  OBVIOUS
<1> HIDE DEF Fold
<1>3. K = {}
  <2> SUFFICES ASSUME K # {} PROVE FALSE
    OBVIOUS
  <2>1. PICK k \in K : \A j \in K : k <= j
    BY LeastIndex
  <2>2. k \in 1..L /\ (k = 1 \/ k - 1 \in 1..L) /\ ~(k <= k - 1)
    BY <2>1
  <2>3. \E g : Fold(k - 1, g)
    BY <1>1, <2>1, <2>2
  <2> QED
    BY <1>2, <2>1, <2>2, <2>3
<1> QED
  <2>1. L = 0 \/ L \in 1..L
    OBVIOUS
  <2> QED
    BY <1>1, <1>3, <2>1

\* The first k elements of a fold.
LEMMA FoldSteps ==
    ASSUME NEW kind, NEW a, NEW b, NEW base, NEW q, NEW L \in Nat, NEW f,
           IsFold(kind, a, b, base, q, L, f)
    PROVE  Steps(kind, a, b, base, q, L, f)
<1>1. 1..0 = {} /\ 1..0 \in SUBSET (1..L)
  OBVIOUS
<1>2. ASSUME NEW k \in 1..L
      PROVE  f[1..k] = Step(kind, a, b, f[1..(k - 1)], q[k])
  <2>1. k \in Nat /\ k \in 1..k /\ 1..k \in SUBSET (1..L) /\ (1..k) \ {k} = 1..(k - 1)
    OBVIOUS
  <2>2. Max(1..k) = k
    BY <2>1, LastOf
  <2> QED
    BY <2>1, <2>2 DEF IsFold
<1> QED
  BY <1>1, <1>2 DEF IsFold, Steps

\* process_checks(), check by check.
LEMMA ChecksFold ==
    ASSUME NEW u, NEW e, NEW offs, NEW L \in Nat, DOMAIN Cfg(e).checks = 1..L
    PROVE  \E g : /\ g[0] = [u |-> u, ok |-> TRUE]
                  /\ \A k \in 1..L : g[k] = Then(e, offs, g[k - 1], k)
                  /\ g[L] = ProcessChecks(u, e, offs)
<1> DEFINE base == [u |-> u, ok |-> TRUE]
           q    == [j \in DOMAIN Cfg(e).checks |-> j]
           f[s \in SUBSET (DOMAIN q)] ==
               IF s = {} THEN base ELSE Then(e, offs, f[s \ {Max(s)}], q[Max(s)])
<1>0. DOMAIN q = 1..L /\ \A k \in 1..L : q[k] = k
  OBVIOUS
<1>1. ProcessChecks(u, e, offs) = f[DOMAIN q]
  BY DEF ProcessChecks, FoldLeft, MapThenFoldSet, Then
<1> HIDE DEF base, q
<1>a. \A acc, x : Step("check", e, offs, acc, x) = Then(e, offs, acc, x)
  BY DEF Step
<1>2. \E g : g = [s \in SUBSET (DOMAIN q) |->
                    IF s = {} THEN base ELSE Then(e, offs, g[s \ {Max(s)}], q[Max(s)])]
  <2>1. PICK g : IsFold("check", e, offs, base, q, L, g)
    BY FoldExists
  <2>2. \A s \in SUBSET (DOMAIN q) :
           g[s] = IF s = {} THEN base ELSE Then(e, offs, g[s \ {Max(s)}], q[Max(s)])
    BY <1>0, <1>a, <2>1 DEF IsFold
  <2>3. g = [s \in SUBSET (DOMAIN q) |-> g[s]]
    BY <1>0, <2>1 DEF IsFold
  <2> QED
    BY <2>2, <2>3
<1>3. f = [s \in SUBSET (DOMAIN q) |->
              IF s = {} THEN base ELSE Then(e, offs, f[s \ {Max(s)}], q[Max(s)])]
  BY <1>2
<1> HIDE DEF f
<1>4. PICK h : h = f
  OBVIOUS
<1>5. IsFold("check", e, offs, base, q, L, h)
  <2>1. \A s \in SUBSET (1..L) :
           h[s] = IF s = {} THEN base ELSE Step("check", e, offs, h[s \ {Max(s)}], q[Max(s)])
    <3>1. \A s \in SUBSET (DOMAIN q) :
             h[s] = IF s = {} THEN base ELSE Then(e, offs, h[s \ {Max(s)}], q[Max(s)])
      BY <1>3, <1>4
    <3> SUFFICES ASSUME NEW s \in SUBSET (1..L)
                 PROVE  h[s] = IF s = {} THEN base ELSE Step("check", e, offs, h[s \ {Max(s)}], q[Max(s)])
      OBVIOUS
    <3>2. s \in SUBSET (DOMAIN q)
      BY <1>0
    <3>3. Step("check", e, offs, h[s \ {Max(s)}], q[Max(s)]) = Then(e, offs, h[s \ {Max(s)}], q[Max(s)])
      BY <1>a, Zenon
    <3> QED
      BY <3>1, <3>2, <3>3, Zenon
  <2>2. h = [s \in SUBSET (1..L) |-> h[s]]
    BY <1>0, <1>3, <1>4
  <2> QED
    BY <2>1, <2>2 DEF IsFold
<1>6. Steps("check", e, offs, base, q, L, h)
  BY <1>5, FoldSteps
<1> DEFINE g == [k \in 0..L |-> h[1..k]]
<1>7. /\ g[0] = base /\ g[L] = h[DOMAIN q]
      /\ \A k \in 1..L : g[k] = h[1..k] /\ g[k - 1] = h[1..(k - 1)]
  BY <1>0, <1>6 DEF Steps
<1>8. \A k \in 1..L : g[k] = Then(e, offs, g[k - 1], k)
  BY <1>0, <1>6, <1>7, <1>a DEF Steps
<1> QED
  BY <1>1, <1>4, <1>7, <1>8 DEF base

\* process_ptrmem(), entry by entry.
Visits(u, q, i) == FoldLeft(LAMBDA x, y : VisitPointee(x, y, i), u, q)

LEMMA VisitsFold ==
    ASSUME NEW u, NEW i, NEW q, NEW L \in Nat, DOMAIN q = 1..L
    PROVE  \E g : /\ g[0] = u
                  /\ \A k \in 1..L : g[k] = VisitPointee(g[k - 1], q[k], i)
                  /\ g[L] = Visits(u, q, i)
<1> DEFINE f[s \in SUBSET (DOMAIN q)] ==
               IF s = {} THEN u ELSE VisitPointee(f[s \ {Max(s)}], q[Max(s)], i)
<1>1. Visits(u, q, i) = f[DOMAIN q]
  BY DEF Visits, FoldLeft, MapThenFoldSet
<1>a. \A acc, x : Step("visit", i, i, acc, x) = VisitPointee(acc, x, i)
  BY DEF Step
<1>2. \E g : g = [s \in SUBSET (DOMAIN q) |->
                    IF s = {} THEN u ELSE VisitPointee(g[s \ {Max(s)}], q[Max(s)], i)]
  <2>1. PICK g : IsFold("visit", i, i, u, q, L, g)
    BY FoldExists
  <2>2. \A s \in SUBSET (DOMAIN q) :
           g[s] = IF s = {} THEN u ELSE VisitPointee(g[s \ {Max(s)}], q[Max(s)], i)
    BY <1>a, <2>1 DEF IsFold
  <2>3. g = [s \in SUBSET (DOMAIN q) |-> g[s]]
    BY <2>1 DEF IsFold
  <2> QED
    BY <2>2, <2>3
<1>3. f = [s \in SUBSET (DOMAIN q) |->
              IF s = {} THEN u ELSE VisitPointee(f[s \ {Max(s)}], q[Max(s)], i)]
  BY <1>2
<1> HIDE DEF f
<1>4. PICK h : h = f
  OBVIOUS
<1>5. IsFold("visit", i, i, u, q, L, h)
  <2>1. \A s \in SUBSET (1..L) :
           h[s] = IF s = {} THEN u ELSE Step("visit", i, i, h[s \ {Max(s)}], q[Max(s)])
    BY <1>3, <1>4, <1>a
  <2>2. h = [s \in SUBSET (1..L) |-> h[s]]
    BY <1>3, <1>4
  <2> QED
    BY <2>1, <2>2 DEF IsFold
<1>6. Steps("visit", i, i, u, q, L, h)
  BY <1>5, FoldSteps
<1> DEFINE g == [k \in 0..L |-> h[1..k]]
<1>7. /\ g[0] = u /\ g[L] = h[DOMAIN q]
      /\ \A k \in 1..L : g[k] = h[1..k] /\ g[k - 1] = h[1..(k - 1)]
  BY <1>6 DEF Steps
<1>8. \A k \in 1..L : g[k] = VisitPointee(g[k - 1], q[k], i)
  BY <1>6, <1>7, <1>a DEF Steps
<1> QED
  BY <1>1, <1>4, <1>7, <1>8
-----------------------------------------------------------------------------
(***************************************************************************)
(* What the functions below process_act_cfg() leave as it is: the lengths  *)
(* of all vectors, and what a pointer was read as the last time.           *)
(***************************************************************************)
Fields == {"mem", "direct", "cache", "v_maddr", "obj_idx", "val_set", "v_oldval", "v_value",
           "v_state", "v_offs", "reads", "refs", "follows", "visited", "lastptr", "top"}

Vec(s, m) == s = [i \in 1..m |-> s[i]]

\* The number of elements of the vectors of a value in area a, and of the
\* vectors of the pointee p, for n[c] objects of class c.
Count(n, a) == IF AreaClass(a) \in Class THEN Copies(a) * n[AreaClass(a)] ELSE 1

CountPtr(n, p) == IF AreaClass(p) \in Class THEN Copies(p) * n[AreaClass(p)] ELSE Copies(p)

Sized(u, n) ==
    /\ DOMAIN u = Fields
    /\ u.v_maddr  = [c \in Class |-> u.v_maddr[c]]
    /\ u.v_oldval = [e \in Entry |-> u.v_oldval[e]]
    /\ u.v_value  = [e \in Entry |-> u.v_value[e]]
    /\ u.v_state  = [p \in Pointee |-> u.v_state[p]]
    /\ u.v_offs   = [p \in Pointee |-> u.v_offs[p]]
    /\ \A c \in Class : Vec(u.v_maddr[c], n[c])
    /\ \A e \in Entry : Vec(u.v_oldval[e], Count(n, Cfg(e).area)) /\ Vec(u.v_value[e], Count(n, Cfg(e).area))
    /\ \A p \in Pointee : Vec(u.v_state[p], CountPtr(n, p)) /\ Vec(u.v_offs[p], CountPtr(n, p))

\* Pointers that process_ptrmem() follows: those behind a pointer are values.
Pointer == {e \in Entry : Cfg(e).target # NoEntry /\ Cfg(e).area \notin Pointee}

\* v remembers the pointers that u remembers; an object may have been marked.
Still(u, v) ==
    /\ v.lastptr = u.lastptr /\ v.follows = u.follows
    /\ \A e \in Pointer : v.v_oldval[e] = u.v_oldval[e]
    /\ \A c \in Class : \A i \in DOMAIN u.v_maddr[c] : v.v_maddr[c][i] \in {u.v_maddr[c][i], 0}

\* What neither the vectors nor the history of pointers notices.
Apart(u, v) ==
    /\ DOMAIN v = Fields
    /\ v.v_maddr = u.v_maddr /\ v.v_oldval = u.v_oldval /\ v.v_value = u.v_value
    /\ v.v_state = u.v_state /\ v.v_offs = u.v_offs
    /\ v.lastptr = u.lastptr /\ v.follows = u.follows

LEMMA VecSet ==
    ASSUME NEW s, NEW m, Vec(s, m), NEW i, NEW x
    PROVE  /\ Vec([s EXCEPT ![i] = x], m)
           /\ \A k \in 1..m : k # i => [s EXCEPT ![i] = x][k] = s[k]
           /\ \A k \in 1..m : k = i => [s EXCEPT ![i] = x][k] = x
BY DEF Vec

LEMMA ApartKeeps ==
    ASSUME NEW u, NEW v, NEW n, Sized(u, n), Apart(u, v)
    PROVE  Sized(v, n) /\ Still(u, v)
<1>1. Sized(v, n)
  BY DEF Sized, Apart
<1>2. Still(u, v)
  BY DEF Still, Apart
<1> QED
  BY <1>1, <1>2

LEMMA SelfKeeps ==
    ASSUME NEW u, NEW n, Sized(u, n)
    PROVE  DOMAIN u = Fields /\ Apart(u, u) /\ Still(u, u)
BY DEF Sized, Apart, Still

LEMMA StillTwice ==
    ASSUME NEW u, NEW v, NEW x, NEW n, Sized(u, n), Sized(v, n), Still(u, v), Still(v, x)
    PROVE  Still(u, x)
<1>1. \A c \in Class : Vec(u.v_maddr[c], n[c]) /\ Vec(v.v_maddr[c], n[c])
  BY DEF Sized
<1>2. \A c \in Class : DOMAIN v.v_maddr[c] = DOMAIN u.v_maddr[c]
  BY <1>1 DEF Vec
<1> QED
  BY <1>2 DEF Still

\* What read_config() makes of a file.
LEMMA ConfigType ==
    ASSUME conf \in Configs
    PROVE  /\ conf.owner \in [Pointee -> Class \cup {Static}]
           /\ conf.area_act \in [Area -> Seq(Entry)]
           /\ conf.cfg_act \in Seq({e \in Entry : Cfg(e).area \in Area \ Pointee})
           /\ \A a \in Area : conf.area_act[a] \in Seq({e \in Entry : Cfg(e).area = a})
           /\ conf.bases \in [Class -> SUBSET Cell]
           /\ conf.keys \subseteq Entry
           /\ \A e \in Entry :
                /\ Cfg(e).area \in Area
                /\ Cfg(e).target \in Pointee \cup {NoEntry}
                /\ Len(Cfg(e).checks) \in Nat /\ DOMAIN Cfg(e).checks = 1..Len(Cfg(e).checks)
                /\ \A j \in DOMAIN Cfg(e).checks : /\ Cfg(e).checks[j].kind \in {"mem", "ref", "num"}
                                                    /\ Cfg(e).checks[j].ref \in Entry \cup {NoEntry}
<1>1. /\ conf.owner \in [Pointee -> Class \cup {Static}]
      /\ conf.area_act \in [Area -> Seq(Entry)]
      /\ conf.bases \in [Class -> SUBSET Cell]
      /\ conf.keys \subseteq Entry
  BY ConfigAssumption DEF Entry
<1>2. /\ conf.cfg_act \in Seq({e \in Entry : Cfg(e).area \in Area \ Pointee})
  BY ConfigAssumption DEF Entry, Cfg
<1>3. \A a \in Area : conf.area_act[a] \in Seq({e \in Entry : Cfg(e).area = a})
  <2>1. \A a \in Area : conf.area_act[a] \in Seq({e \in DOMAIN conf.entries : conf.entries[e].area \in {a}})
    BY ConfigAssumption, Zenon
  <2>2. \A a : {e \in DOMAIN conf.entries : conf.entries[e].area \in {a}} = {e \in Entry : Cfg(e).area = a}
    BY DEF Entry, Cfg
  <2> QED
    BY <2>1, <2>2
<1> DEFINE T == [kind : {"mem", "ref", "num"}, addr : Nat,
                 ref : Entry \cup {NoEntry}, isobj : BOOLEAN,
                 alts : SUBSET ({"lt", "gt", "eq", "off"} \X Val)]
<1>4. \A e \in Entry : /\ Cfg(e).area \in Area
                       /\ Cfg(e).target \in Pointee \cup {NoEntry}
                       /\ Cfg(e).checks \in Seq(T)
  BY ConfigAssumption DEF Entry, Cfg
<1>5. \A x \in T : x.kind \in {"mem", "ref", "num"} /\ x.ref \in Entry \cup {NoEntry}
  OBVIOUS
<1> HIDE DEF T
<1>6. \A s \in Seq(T) : Len(s) \in Nat /\ DOMAIN s = 1..Len(s) /\ \A j \in DOMAIN s : s[j] \in T
  OBVIOUS
<1> QED
  BY <1>1, <1>2, <1>3, <1>4, <1>5, <1>6

\* How often the values of an area grow for one object.
LEMMA CopiesType ==
    ASSUME conf \in Configs, NEW a
    PROVE  /\ Copies(a) \in Nat
           /\ a \notin Pointee => Copies(a) = 1 /\ AreaClass(a) = a
           /\ a \in Class => Copies(a) = 1 /\ AreaClass(a) = a
<1>1. IsFiniteSet(Entry)
  BY ConfigAssumption DEF Entry
<1>2. Pointers(a) \in SUBSET Entry
  BY DEF Pointers
<1>3. Cardinality(Pointers(a)) \in Nat
  BY <1>1, <1>2, FS_Subset, FS_CardinalityType
<1> QED
  BY <1>3, AreaAssumption DEF Copies, AreaClass

LEMMA CountClass ==
    ASSUME conf \in Configs, NEW n \in [Class -> Nat], NEW a
    PROVE  /\ Count(n, a) \in Nat
           /\ a \notin Pointee /\ a \notin Class => Count(n, a) = 1
           /\ a \in Class => Count(n, a) = n[a]
<1>1. Copies(a) \in Nat
  BY CopiesType
<1>2. CASE AreaClass(a) \in Class
  <2>1. n[AreaClass(a)] \in Nat
    BY <1>2
  <2>2. Copies(a) * n[AreaClass(a)] \in Nat
    BY <1>1, <2>1
  <2>3. a \in Class => Copies(a) * n[AreaClass(a)] = n[a]
    BY <2>1, CopiesType
  <2> QED
    BY <1>2, <2>2, <2>3, CopiesType DEF Count
<1>3. CASE AreaClass(a) \notin Class
  BY <1>3, CopiesType DEF Count
<1> QED
  BY <1>2, <1>3

\* The caches.
LEMMA ReadApart ==
    ASSUME NEW u, NEW x, NEW offs, DOMAIN u = Fields
    PROVE  Apart(u, Read(u, x, offs)) /\ DOMAIN FillCache(u, x, offs) = Fields
<1> DEFINE f == FillCache(u, x, offs)
<1>1. Apart(u, f)
  BY DEF FillCache, Apart, Fields
<1> HIDE DEF f
<1>2. Apart(u, [f EXCEPT !.reads = @ \cup {<<Cached(f, x), f.direct[offs + x.addr]>>}])
  BY <1>1 DEF Apart, Fields
<1> QED
  BY <1>1, <1>2 DEF Read, f, Apart

LEMMA WriteApart ==
    ASSUME NEW u, NEW x, NEW offs, NEW y, DOMAIN u = Fields
    PROVE  Apart(u, Write(u, x, offs, y))
BY DEF Write, Apart, Fields

LEMMA CachesApart ==
    ASSUME NEW u, NEW a, DOMAIN u = Fields
    PROVE  Apart(u, Invalidate(u, a)) /\ Apart(u, WriteCaches(u, a)) /\ Apart(u, StartObject(u, a))
<1>1. Apart(u, Invalidate(u, a))
  BY DEF Invalidate, Apart, Fields
<1>2. Apart(u, WriteCaches(u, a))
  BY DEF WriteCaches, Apart, Fields
<1>3. Apart(u, StartObject(u, a))
  BY <1>1 DEF StartObject, Apart, Fields
<1> QED
  BY <1>1, <1>2, <1>3

LEMMA LogApart ==
    ASSUME NEW u, NEW r, DOMAIN u = Fields
    PROVE  Apart(u, LogRef(u, r))
BY DEF LogRef, Apart, Fields

\* or_check_memory() marks the object of a failed object check.
LEMMA JudgeKeeps ==
    ASSUME NEW u, NEW n, Sized(u, n), NEW e, NEW chk, NEW y
    PROVE  Sized(Judge(u, e, chk, y).u, n) /\ Still(u, Judge(u, e, chk, y).u)
<1> DEFINE v == [u EXCEPT !.v_maddr[Cfg(e).area][Index(u, e)] = 0]
<1>1. DOMAIN u = Fields /\ Apart(u, u)
  BY DEF Sized, Apart
<1>2. Judge(u, e, chk, y).u = u \/ Judge(u, e, chk, y).u = v
  BY DEF Judge
<1>3. /\ DOMAIN v = Fields /\ v.v_oldval = u.v_oldval /\ v.v_value = u.v_value
      /\ v.v_state = u.v_state /\ v.v_offs = u.v_offs
      /\ v.lastptr = u.lastptr /\ v.follows = u.follows
      /\ v.v_maddr = [u.v_maddr EXCEPT ![Cfg(e).area] = [@ EXCEPT ![Index(u, e)] = 0]]
  BY <1>1 DEF Fields
<1> HIDE DEF v
<1>4. v.v_maddr = [c \in Class |-> v.v_maddr[c]]
  BY <1>3 DEF Sized
<1>5. \A c \in Class : v.v_maddr[c] = u.v_maddr[c] \/ v.v_maddr[c] = [u.v_maddr[c] EXCEPT ![Index(u, e)] = 0]
  BY <1>3 DEF Sized
<1>6. \A c \in Class : Vec(u.v_maddr[c], n[c])
  BY DEF Sized
<1>7. ASSUME NEW c \in Class
      PROVE  /\ Vec(v.v_maddr[c], n[c])
             /\ \A i \in DOMAIN u.v_maddr[c] : v.v_maddr[c][i] \in {u.v_maddr[c][i], 0}
  <2>1. CASE v.v_maddr[c] = u.v_maddr[c]
    BY <1>6, <2>1
  <2>2. CASE v.v_maddr[c] = [u.v_maddr[c] EXCEPT ![Index(u, e)] = 0]
    <3>1. Vec([u.v_maddr[c] EXCEPT ![Index(u, e)] = 0], n[c])
      BY <1>6, VecSet
    <3> QED
      BY <2>2, <3>1
  <2> QED
    BY <1>5, <2>1, <2>2
<1>8. Sized(v, n)
  BY <1>3, <1>4, <1>7 DEF Sized
<1>9. Still(u, v)
  BY <1>3, <1>7 DEF Still
<1> QED
  BY <1>1, <1>2, <1>8, <1>9, ApartKeeps

\* One round of the loop in process_checks().
LEMMA CheckKeeps ==
    ASSUME conf \in Configs, NEW u, NEW n, Sized(u, n),
           NEW e \in Entry, NEW j \in DOMAIN Cfg(e).checks, NEW offs
    PROVE  Sized(Check(u, e, j, offs).u, n) /\ Still(u, Check(u, e, j, offs).u)
<1> DEFINE chk == Cfg(e).checks[j]
           x   == Listed(e, j)
<1>0. DOMAIN u = Fields /\ Sized(u, n) /\ Still(u, u)
  BY ApartKeeps DEF Sized, Apart
<1>1. ASSUME NEW v, Apart(u, v), NEW y
      PROVE  Sized(Judge(v, e, chk, y).u, n) /\ Still(u, Judge(v, e, chk, y).u)
  <2>1. Sized(v, n) /\ Still(u, v)
    BY <1>1, ApartKeeps
  <2>2. Sized(Judge(v, e, chk, y).u, n) /\ Still(v, Judge(v, e, chk, y).u)
    BY <2>1, JudgeKeeps
  <2> QED
    BY <2>1, <2>2, StillTwice
<1>2. Apart(u, u) /\ Apart(u, LogRef(u, chk.ref)) /\ Apart(u, Read(u, x, offs))
  BY <1>0, LogApart, ReadApart DEF Apart
<1>3. CASE chk.kind = "ref"
  BY <1>0, <1>1, <1>2, <1>3 DEF Check
<1>4. CASE chk.kind = "num"
  BY <1>0, <1>1, <1>2, <1>4 DEF Check
<1>5. CASE chk.kind = "mem"
  BY <1>0, <1>1, <1>2, <1>5 DEF Check
<1> QED
  BY <1>3, <1>4, <1>5, ConfigType

\* process_checks()
LEMMA ChecksKeep ==
    ASSUME conf \in Configs, NEW u, NEW n, Sized(u, n), NEW e \in Entry, NEW offs
    PROVE  Sized(ProcessChecks(u, e, offs).u, n) /\ Still(u, ProcessChecks(u, e, offs).u)
<1> DEFINE L == Len(Cfg(e).checks)
<1>1. L \in Nat /\ DOMAIN Cfg(e).checks = 1..L
  BY ConfigType
<1> HIDE DEF L
<1>2. PICK g : /\ g[0] = [u |-> u, ok |-> TRUE]
               /\ \A k \in 1..L : g[k] = Then(e, offs, g[k - 1], k)
               /\ g[L] = ProcessChecks(u, e, offs)
  BY <1>1, ChecksFold
<1> DEFINE Fine(k) == Sized(g[k].u, n) /\ Still(u, g[k].u)
           K == {k \in 1..L : ~Fine(k)}
<1>3. Fine(0)
  <2>1. g[0].u = u
    BY <1>2
  <2> QED
    BY <2>1, SelfKeeps
<1>4. ASSUME NEW k \in 1..L, Fine(k - 1)
      PROVE  Fine(k)
  <2>1. g[k] = Then(e, offs, g[k - 1], k)
    BY <1>2
  <2>2. CASE ~g[k - 1].ok
    BY <1>4, <2>1, <2>2 DEF Then
  <2>3. CASE g[k - 1].ok
    <3>1. g[k] = Check(g[k - 1].u, e, k, offs)
      BY <2>1, <2>3 DEF Then
    <3>2. Sized(g[k].u, n) /\ Still(g[k - 1].u, g[k].u)
      BY <1>1, <1>4, <3>1, CheckKeeps
    <3> QED
      BY <1>4, <3>2, StillTwice
  <2> QED
    BY <2>2, <2>3
<1> HIDE DEF Fine
<1>5. K = {}
  <2> SUFFICES ASSUME K # {} PROVE FALSE
    OBVIOUS
  <2>1. PICK k \in K : \A j \in K : k <= j
    BY <1>1, LeastIndex
  <2>2. k \in 1..L /\ (k = 1 \/ k - 1 \in 1..L) /\ ~(k <= k - 1)
    BY <1>1, <2>1
  <2>3. Fine(k - 1)
    <3>1. CASE k = 1
      BY <1>3, <3>1
    <3>2. CASE k - 1 \in 1..L
      BY <2>1, <2>2, <3>2
    <3> QED
      BY <2>2, <3>1, <3>2
  <2> QED
    BY <1>4, <2>1, <2>3
<1>6. L = 0 \/ L \in 1..L
  BY <1>1
<1>7. Fine(L)
  BY <1>3, <1>5, <1>6
<1> QED
  BY <1>2, <1>7 DEF Fine

\* change_mem_val() and handle_dynval()
LEMMA DynvalKeeps ==
    ASSUME NEW u, NEW n, Sized(u, n), NEW e, NEW i, NEW read, NEW offs
    PROVE  /\ Sized(HandleDynval(u, e, i, read, offs), n)
           /\ Still(u, HandleDynval(u, e, i, read, offs))
<1>1. ASSUME NEW x, Apart(u, x), NEW y
      PROVE  LET v == [x EXCEPT !.v_value[e][i] = y] IN Sized(v, n) /\ Still(u, v)
  <2> DEFINE v == [x EXCEPT !.v_value[e][i] = y]
  <2>0. DOMAIN x = Fields /\ Sized(x, n) /\ Still(u, x)
    BY <1>1, ApartKeeps DEF Apart
  <2>1. /\ DOMAIN v = Fields /\ v.v_oldval = x.v_oldval /\ v.v_maddr = x.v_maddr
        /\ v.v_state = x.v_state /\ v.v_offs = x.v_offs
        /\ v.lastptr = x.lastptr /\ v.follows = x.follows
        /\ v.v_value = [x.v_value EXCEPT ![e] = [@ EXCEPT ![i] = y]]
    BY <2>0 DEF Fields
  <2> HIDE DEF v
  <2>2. /\ v.v_value = [d \in Entry |-> v.v_value[d]]
        /\ \A d \in Entry : v.v_value[d] = x.v_value[d] \/ v.v_value[d] = [x.v_value[d] EXCEPT ![i] = y]
    BY <2>0, <2>1 DEF Sized
  <2>3. \A d \in Entry : Vec(x.v_value[d], Count(n, Cfg(d).area))
    BY <2>0 DEF Sized
  <2>4. ASSUME NEW d \in Entry PROVE Vec(v.v_value[d], Count(n, Cfg(d).area))
    <3>1. Vec([x.v_value[d] EXCEPT ![i] = y], Count(n, Cfg(d).area))
      BY <2>3, VecSet
    <3> QED
      BY <2>2, <2>3, <3>1
  <2>5. Sized(v, n)
    BY <2>0, <2>1, <2>2, <2>4 DEF Sized
  <2>6. Still(u, v)
    BY <2>0, <2>1 DEF Still
  <2> QED
    BY <2>5, <2>6 DEF v
<1>2. Apart(u, u) /\ \A r : Apart(u, LogRef(u, r))
  BY LogApart DEF Sized, Apart
<1>3. \A y : Apart(u, [u EXCEPT !.reads = @ \cup {y}])
  BY DEF Sized, Apart, Fields
<1>4. Sized(u, n) /\ Still(u, u)
  BY <1>2, ApartKeeps
<1> DEFINE v == HandleDynval(u, e, i, read, offs)
<1>5. \/ v = u
      \/ \E x : Apart(u, x) /\ \E y : v = [x EXCEPT !.v_value[e][i] = y]
  BY <1>2, <1>3 DEF HandleDynval
<1> HIDE DEF v
<1> QED
  BY <1>1, <1>4, <1>5 DEF v

LEMMA ChangeMemValKeeps ==
    ASSUME conf \in Configs, NEW u, NEW n, Sized(u, n), NEW e \in Entry, NEW i, NEW read, NEW offs
    PROVE  /\ Sized(ChangeMemVal(u, e, i, read, offs), n)
           /\ Still(u, ChangeMemVal(u, e, i, read, offs))
<1> DEFINE c == ProcessChecks(u, e, offs).u
           y == u.v_value[e][i]
           x == Write(c, Listed(e, 0), offs, y)
           v == [x EXCEPT !.val_set[e] = TRUE]
<1>1. Sized(c, n) /\ Still(u, c)
  BY ChecksKeep
<1>2. ChangeMemVal(u, e, i, read, offs) \in {u, c, v}
  BY DEF ChangeMemVal
<1> HIDE DEF c, y
<1>3. Apart(c, x)
  BY <1>1, WriteApart, SelfKeeps
<1> HIDE DEF x
<1>4. Apart(c, v)
  BY <1>3 DEF Apart, Fields
<1> HIDE DEF v
<1>5. Sized(v, n) /\ Still(c, v)
  BY <1>1, <1>4, ApartKeeps
<1>6. Still(u, v)
  BY <1>1, <1>5, StillTwice
<1> QED
  BY <1>1, <1>2, <1>5, <1>6, SelfKeeps

\* change_memory() of a value that is not a pointer.
LEMMA ChangeMemoryKeeps ==
    ASSUME conf \in Configs, NEW u, NEW n, Sized(u, n), NEW e \in Entry, e \notin Pointer,
           NEW i, NEW read, NEW offs
    PROVE  /\ Sized(ChangeMemory(u, e, i, read, offs), n)
           /\ Still(u, ChangeMemory(u, e, i, read, offs))
<1> DEFINE u1 == [u EXCEPT !.val_set[e] = FALSE, !.v_oldval[e][i] = read]
           u2 == HandleDynval(u1, e, i, read, offs)
           u3 == ChangeMemVal(u2, e, i, read, offs)
           v  == [u3 EXCEPT !.visited = @ \cup {e},
                            !.top[e][offs] = IF read > @ THEN read ELSE @]
<1>0. DOMAIN u = Fields
  BY DEF Sized
<1>1. Sized(u1, n) /\ Still(u, u1)
  <2>1. /\ DOMAIN u1 = Fields /\ u1.v_value = u.v_value /\ u1.v_maddr = u.v_maddr
        /\ u1.v_state = u.v_state /\ u1.v_offs = u.v_offs
        /\ u1.lastptr = u.lastptr /\ u1.follows = u.follows
        /\ u1.v_oldval = [u.v_oldval EXCEPT ![e] = [@ EXCEPT ![i] = read]]
    BY <1>0 DEF Fields
  <2> HIDE DEF u1
  <2>2. /\ u1.v_oldval = [d \in Entry |-> u1.v_oldval[d]]
        /\ \A d \in Entry : d # e => u1.v_oldval[d] = u.v_oldval[d]
        /\ u1.v_oldval[e] = [u.v_oldval[e] EXCEPT ![i] = read]
    BY <2>1 DEF Sized
  <2>3. \A d \in Entry : Vec(u.v_oldval[d], Count(n, Cfg(d).area))
    BY DEF Sized
  <2>4. Vec([u.v_oldval[e] EXCEPT ![i] = read], Count(n, Cfg(e).area))
    BY <2>3, VecSet
  <2>5. \A d \in Entry : Vec(u1.v_oldval[d], Count(n, Cfg(d).area))
    BY <2>2, <2>3, <2>4
  <2>6. Sized(u1, n)
    BY <2>1, <2>2, <2>5 DEF Sized
  <2>7. Still(u, u1)
    BY <2>1, <2>2 DEF Still, Pointer
  <2> QED
    BY <2>6, <2>7
<1> HIDE DEF u1
<1>2. Sized(u2, n) /\ Still(u1, u2)
  BY <1>1, DynvalKeeps
<1> HIDE DEF u2
<1>3. Sized(u3, n) /\ Still(u2, u3)
  BY <1>2, ChangeMemValKeeps
<1> HIDE DEF u3
<1>4. Apart(u3, v)
  BY <1>3, SelfKeeps DEF Apart, Fields
<1>5. ChangeMemory(u, e, i, read, offs) = v
  BY DEF ChangeMemory, u1, u2, u3
<1> HIDE DEF v
<1>6. Sized(v, n) /\ Still(u3, v)
  BY <1>3, <1>4, ApartKeeps
<1>7. Still(u, v)
  BY <1>1, <1>2, <1>3, <1>6, StillTwice
<1> QED
  BY <1>5, <1>6, <1>7

\* An entry behind a pointer.
LEMMA PointeeKeeps ==
    ASSUME conf \in Configs, NEW u, NEW n, Sized(u, n), NEW e \in Entry, Cfg(e).area \in Pointee, NEW i
    PROVE  Sized(VisitPointee(u, e, i), n) /\ Still(u, VisitPointee(u, e, i))
<1> DEFINE x    == Listed(e, 0)
           offs == u.v_offs[Cfg(e).area][i]
           f    == Read(u, x, offs)
           v    == ChangeMemory(f, e, i, Cached(f, x), offs)
<1>1. Sized(f, n) /\ Still(u, f)
  BY ReadApart, ApartKeeps, SelfKeeps
<1>2. VisitPointee(u, e, i) \in {u, v}
  BY DEF VisitPointee
<1> HIDE DEF f, x, offs
<1>3. Sized(v, n) /\ Still(f, v)
  <2>1. e \notin Pointer
    BY DEF Pointer
  <2> QED
    BY <1>1, <2>1, ChangeMemoryKeeps
<1> HIDE DEF v
<1>4. Still(u, v)
  BY <1>1, <1>3, StillTwice
<1> QED
  BY <1>2, <1>3, <1>4, SelfKeeps

\* All active entries behind a pointer.
LEMMA VisitsKeep ==
    ASSUME conf \in Configs, NEW u, NEW n, Sized(u, n), NEW p \in Pointee, NEW i,
           NEW q \in Seq({e \in Entry : Cfg(e).area = p})
    PROVE  Sized(Visits(u, q, i), n) /\ Still(u, Visits(u, q, i))
<1> DEFINE L == Len(q)
<1>1. L \in Nat /\ DOMAIN q = 1..L /\ \A k \in 1..L : q[k] \in Entry /\ Cfg(q[k]).area = p
  OBVIOUS
<1> HIDE DEF L
<1>2. PICK g : /\ g[0] = u
               /\ \A k \in 1..L : g[k] = VisitPointee(g[k - 1], q[k], i)
               /\ g[L] = Visits(u, q, i)
  BY <1>1, VisitsFold
<1> DEFINE Fine(k) == Sized(g[k], n) /\ Still(u, g[k])
           K == {k \in 1..L : ~Fine(k)}
<1>3. Fine(0)
  BY <1>2, SelfKeeps
<1>4. ASSUME NEW k \in 1..L, Fine(k - 1)
      PROVE  Fine(k)
  <2>1. g[k] = VisitPointee(g[k - 1], q[k], i)
    BY <1>2
  <2>2. Sized(g[k], n) /\ Still(g[k - 1], g[k])
    BY <1>1, <1>4, <2>1, PointeeKeeps
  <2> QED
    BY <1>4, <2>2, StillTwice
<1> HIDE DEF Fine
<1>5. K = {}
  <2> SUFFICES ASSUME K # {} PROVE FALSE
    OBVIOUS
  <2>1. PICK k \in K : \A j \in K : k <= j
    BY <1>1, LeastIndex
  <2>2. k \in 1..L /\ (k = 1 \/ k - 1 \in 1..L) /\ ~(k <= k - 1)
    BY <1>1, <2>1
  <2>3. Fine(k - 1)
    <3>1. CASE k = 1
      BY <1>3, <3>1
    <3>2. CASE k - 1 \in 1..L
      BY <2>1, <2>2, <3>2
    <3> QED
      BY <2>2, <3>1, <3>2
  <2> QED
    BY <1>4, <2>1, <2>3
<1>6. L = 0 \/ L \in 1..L
  BY <1>1
<1>7. Fine(L)
  BY <1>3, <1>5, <1>6
<1> QED
  BY <1>2, <1>7 DEF Fine

\* process_ptrmem() remembers that it followed the pointer.
Followed(u, v, e, offs, read) ==
    /\ v.lastptr = u.lastptr /\ v.follows = u.follows \cup {<<read, u.lastptr[e][offs]>>}
    /\ \A d \in Pointer : v.v_oldval[d] = u.v_oldval[d]
    /\ \A c \in Class : \A k \in DOMAIN u.v_maddr[c] : v.v_maddr[c][k] \in {u.v_maddr[c][k], 0}

LEMMA FollowKeeps ==
    ASSUME conf \in Configs, NEW u, NEW n, Sized(u, n), NEW e \in Entry, Cfg(e).target # NoEntry,
           \A a \in Area : area_act[a] \in Seq({d \in Entry : Cfg(d).area = a}),
           NEW i, NEW read, NEW offs
    PROVE  LET v == FollowPointer(u, e, i, read, offs)
           IN  Sized(v, n) /\ (Still(u, v) \/ Followed(u, v, e, offs, read))
<1> DEFINE p  == Cfg(e).target
           c  == ProcessChecks(u, e, offs).u
           u1 == [c EXCEPT
                      !.v_state[p][i] = IF Cfg(e).dynval = "once" THEN "done" ELSE "settled",
                      !.v_offs[p][i] = read,
                      !.follows = @ \cup {<<read, u.lastptr[e][offs]>>},
                      !.visited = @ \ {q \in Entry : Cfg(q).area = p}]
           u2 == Invalidate(u1, p)
           u3 == Visits(u2, area_act[p], i)
           v  == WriteCaches(u3, p)
<1>1. Sized(c, n) /\ Still(u, c)
  BY ChecksKeep
<1>2. FollowPointer(u, e, i, read, offs) \in {c, v}
  BY DEF FollowPointer, Visits
<1>3. p \in Pointee /\ p \in Area
  BY ConfigType, AreaAssumption
<1> HIDE DEF c, p
<1>4. Sized(u1, n) /\ Followed(u, u1, e, offs, read)
  <2> DEFINE y == IF Cfg(e).dynval = "once" THEN "done" ELSE "settled"
  <2>0. DOMAIN c = Fields
    BY <1>1 DEF Sized
  <2> HIDE DEF y
  <2>1. /\ DOMAIN u1 = Fields /\ u1.v_value = c.v_value /\ u1.v_maddr = c.v_maddr
        /\ u1.v_oldval = c.v_oldval /\ u1.lastptr = c.lastptr
        /\ u1.follows = c.follows \cup {<<read, u.lastptr[e][offs]>>}
        /\ u1.v_state = [c.v_state EXCEPT ![p] = [@ EXCEPT ![i] = y]]
        /\ u1.v_offs = [c.v_offs EXCEPT ![p] = [@ EXCEPT ![i] = read]]
    BY <2>0 DEF Fields, y
  <2> HIDE DEF u1
  <2>2. /\ u1.v_state = [d \in Pointee |-> u1.v_state[d]]
        /\ u1.v_offs = [d \in Pointee |-> u1.v_offs[d]]
        /\ \A d \in Pointee : d # p => u1.v_state[d] = c.v_state[d] /\ u1.v_offs[d] = c.v_offs[d]
        /\ u1.v_state[p] = [c.v_state[p] EXCEPT ![i] = y]
        /\ u1.v_offs[p] = [c.v_offs[p] EXCEPT ![i] = read]
    BY <1>1, <1>3, <2>1 DEF Sized
  <2>3. \A d \in Pointee : Vec(c.v_state[d], CountPtr(n, d)) /\ Vec(c.v_offs[d], CountPtr(n, d))
    BY <1>1 DEF Sized
  <2>4. /\ Vec([c.v_state[p] EXCEPT ![i] = y], CountPtr(n, p))
        /\ Vec([c.v_offs[p] EXCEPT ![i] = read], CountPtr(n, p))
    BY <1>3, <2>3, VecSet
  <2>5. \A d \in Pointee : Vec(u1.v_state[d], CountPtr(n, d)) /\ Vec(u1.v_offs[d], CountPtr(n, d))
    BY <2>2, <2>3, <2>4
  <2>6. Sized(u1, n)
    BY <1>1, <2>1, <2>2, <2>5 DEF Sized
  <2>7. Followed(u, u1, e, offs, read)
    BY <1>1, <2>1 DEF Still, Followed
  <2> QED
    BY <2>6, <2>7
<1> HIDE DEF u1
<1>5. Sized(u2, n) /\ Still(u1, u2)
  BY <1>4, CachesApart, ApartKeeps, SelfKeeps
<1> HIDE DEF u2
<1>6. Sized(u3, n) /\ Still(u2, u3)
  BY <1>3, <1>5, VisitsKeep
<1> HIDE DEF u3
<1>7. Sized(v, n) /\ Still(u3, v)
  BY <1>6, CachesApart, ApartKeeps, SelfKeeps
<1> HIDE DEF v
<1>8. Still(u1, v)
  BY <1>4, <1>5, <1>6, <1>7, StillTwice
<1>9. Followed(u, v, e, offs, read)
  <2>1. \A k \in Class : Vec(u.v_maddr[k], n[k]) /\ Vec(u1.v_maddr[k], n[k])
    BY <1>4 DEF Sized
  <2>2. \A k \in Class : DOMAIN u.v_maddr[k] = DOMAIN u1.v_maddr[k]
    BY <2>1 DEF Vec
  <2> QED
    BY <1>4, <1>8, <2>2 DEF Still, Followed
<1> QED
  BY <1>1, <1>2, <1>7, <1>9

-----------------------------------------------------------------------------
(***************************************************************************)
(* The old value of a pointer is what it held the last time it was read    *)
(* from this object: lastptr is kept per address, v_oldval per index.      *)
(***************************************************************************)
Logged(u) ==
    /\ u.lastptr = [e \in Entry |-> u.lastptr[e]]
    /\ \A e \in Entry : u.lastptr[e] = [a \in 0..MemSize |-> u.lastptr[e][a]]

Distinct(s, m) == \A i, k \in 1..m : s[i] # 0 /\ s[i] = s[k] => i = k

Mapped(u, n) ==
    \A c \in Class : /\ \A i \in 1..n[c] : u.v_maddr[c][i] \in 0..MemSize
                     /\ Distinct(u.v_maddr[c], n[c])

LatestOf(u, n, e) ==
    /\ Cfg(e).area \notin Class => u.v_oldval[e][1] = u.lastptr[e][0]
    /\ Cfg(e).area \in Class =>
          \A i \in 1..n[Cfg(e).area] : u.v_maddr[Cfg(e).area][i] # 0 =>
              u.v_oldval[e][i] = u.lastptr[e][u.v_maddr[Cfg(e).area][i]]

Latest(u, n) == \A e \in Pointer : LatestOf(u, n, e)

Same(u) == \A f \in u.follows : f[1] = f[2]

Remembered(u, n) == Sized(u, n) /\ Logged(u) /\ Mapped(u, n) /\ Latest(u, n) /\ Same(u)

\* Where entry e of object i is: the object is alive.
At(u, n, e, i, offs) ==
    IF Cfg(e).area \in Class
    THEN i \in 1..n[Cfg(e).area] /\ offs = u.v_maddr[Cfg(e).area][i] /\ offs # 0
    ELSE i = 1 /\ offs = 0

LEMMA StillRemembered ==
    ASSUME NEW u, NEW v, NEW n, Remembered(u, n), Sized(v, n), Still(u, v)
    PROVE  Remembered(v, n)
<1>1. \A c \in Class : Vec(u.v_maddr[c], n[c])
  BY DEF Remembered, Sized
<1>2. \A c \in Class : \A i \in 1..n[c] : v.v_maddr[c][i] \in {u.v_maddr[c][i], 0}
  BY <1>1 DEF Still, Vec
<1>3. v.lastptr = u.lastptr /\ v.follows = u.follows /\ \A e \in Pointer : v.v_oldval[e] = u.v_oldval[e]
  BY DEF Still
<1>4. Mapped(v, n)
  <2> SUFFICES ASSUME NEW c \in Class
               PROVE  /\ \A i \in 1..n[c] : v.v_maddr[c][i] \in 0..MemSize
                      /\ Distinct(v.v_maddr[c], n[c])
    BY DEF Mapped
  <2>1. (\A i \in 1..n[c] : u.v_maddr[c][i] \in 0..MemSize) /\ Distinct(u.v_maddr[c], n[c])
    BY DEF Remembered, Mapped
  <2>2. 0 \in 0..MemSize
    BY MemAssumption
  <2>3. \A i \in 1..n[c] : v.v_maddr[c][i] \in {u.v_maddr[c][i], 0}
    BY <1>2
  <2>4. \A i \in 1..n[c] : v.v_maddr[c][i] \in 0..MemSize
    BY <2>1, <2>2, <2>3
  <2>5. Distinct(v.v_maddr[c], n[c])
    BY <2>1, <2>3 DEF Distinct
  <2> QED
    BY <2>4, <2>5
<1>5. Latest(v, n)
  <2> SUFFICES ASSUME NEW e \in Pointer PROVE LatestOf(v, n, e)
    BY DEF Latest
  <2>1. LatestOf(u, n, e) /\ v.v_oldval[e] = u.v_oldval[e] /\ v.lastptr = u.lastptr
    BY <1>3 DEF Remembered, Latest
  <2>2. Cfg(e).area \in Class => \A i \in 1..n[Cfg(e).area] :
           v.v_maddr[Cfg(e).area][i] # 0 => v.v_maddr[Cfg(e).area][i] = u.v_maddr[Cfg(e).area][i]
    BY <1>2
  <2> QED
    BY <2>1, <2>2 DEF LatestOf
<1>6. Logged(v) /\ Same(v)
  BY <1>3 DEF Remembered, Logged, Same
<1> QED
  BY <1>4, <1>5, <1>6 DEF Remembered

LEMMA NoLogRemembered ==
    ASSUME NEW u, NEW n, Remembered(u, n)
    PROVE  Remembered(NoLog(u), n)
<1> DEFINE v == NoLog(u)
<1>0. DOMAIN u = Fields
  BY DEF Remembered, Sized
<1>1. /\ DOMAIN v = Fields
      /\ v.v_maddr = u.v_maddr /\ v.v_oldval = u.v_oldval /\ v.v_value = u.v_value
      /\ v.v_state = u.v_state /\ v.v_offs = u.v_offs
      /\ v.lastptr = u.lastptr /\ v.follows = {}
  BY <1>0 DEF NoLog, Fields
<1> HIDE DEF v
<1>2. Sized(v, n)
  BY <1>1 DEF Remembered, Sized
<1>3. Logged(v) /\ Mapped(v, n) /\ Same(v)
  BY <1>1 DEF Remembered, Logged, Mapped, Same
<1>4. Latest(v, n)
  BY <1>1 DEF Remembered, Latest, LatestOf
<1> QED
  BY <1>2, <1>3, <1>4 DEF Remembered, v

\* process_ptrmem() notes the new value of a pointer.
Noted(u, z, e, i, read, offs) ==
    /\ DOMAIN z = Fields /\ z.v_maddr = u.v_maddr /\ z.v_value = u.v_value
    /\ z.v_state = u.v_state /\ z.v_offs = u.v_offs /\ z.follows = u.follows
    /\ z.lastptr = [u.lastptr EXCEPT ![e] = [@ EXCEPT ![offs] = read]]
    /\ z.v_oldval = [u.v_oldval EXCEPT ![e] = [@ EXCEPT ![i] = read]]

LEMMA NotedRemembered ==
    ASSUME NEW u, NEW n \in [Class -> Nat], conf \in Configs, Remembered(u, n), NEW e \in Pointer,
           NEW i, NEW read, NEW offs, At(u, n, e, i, offs),
           NEW z, Noted(u, z, e, i, read, offs)
    PROVE  Remembered(z, n)
<1> USE DEF Noted
<1>0. Sized(u, n) /\ Logged(u) /\ e \in Entry
  BY DEF Remembered, Pointer
<1>3. /\ z.v_oldval = [d \in Entry |-> z.v_oldval[d]]
      /\ \A d \in Entry : d # e => z.v_oldval[d] = u.v_oldval[d]
      /\ z.v_oldval[e] = [u.v_oldval[e] EXCEPT ![i] = read]
  BY <1>0 DEF Sized
<1>3a. /\ z.lastptr = [d \in Entry |-> z.lastptr[d]]
       /\ \A d \in Entry : d # e => z.lastptr[d] = u.lastptr[d]
       /\ z.lastptr[e] = [u.lastptr[e] EXCEPT ![offs] = read]
  BY <1>0 DEF Logged
<1>4. \A d \in Entry : Vec(u.v_oldval[d], Count(n, Cfg(d).area))
  BY <1>0 DEF Sized
<1>5. Vec([u.v_oldval[e] EXCEPT ![i] = read], Count(n, Cfg(e).area))
  BY <1>0, <1>4, VecSet
<1>5a. \A d \in Entry : Vec(z.v_oldval[d], Count(n, Cfg(d).area))
  BY <1>3, <1>4, <1>5
<1>6. Sized(z, n)
  BY <1>0, <1>3, <1>5a DEF Sized
<1>7. /\ \A d \in Entry : z.lastptr[d] = [a \in 0..MemSize |-> z.lastptr[d][a]]
      /\ \A a \in 0..MemSize : z.lastptr[e][a] = IF a = offs THEN read ELSE u.lastptr[e][a]
  <2>1. \A d \in Entry : u.lastptr[d] = [a \in 0..MemSize |-> u.lastptr[d][a]]
    BY <1>0 DEF Logged
  <2>2. /\ z.lastptr[e] = [a \in 0..MemSize |-> z.lastptr[e][a]]
        /\ \A a \in 0..MemSize : z.lastptr[e][a] = IF a = offs THEN read ELSE u.lastptr[e][a]
    BY <1>0, <1>3a, <2>1
  <2>3. ASSUME NEW d \in Entry, d # e
        PROVE  z.lastptr[d] = [a \in 0..MemSize |-> z.lastptr[d][a]]
    <3>1. z.lastptr[d] = u.lastptr[d]
      BY <1>3a, <2>3
    <3> QED
      BY <2>1, <3>1
  <2> QED
    BY <2>2, <2>3
<1>8. /\ Cfg(e).area \notin Class => Count(n, Cfg(e).area) = 1
      /\ Cfg(e).area \in Class => Count(n, Cfg(e).area) = n[Cfg(e).area]
  BY CountClass DEF Pointer
<1>9. \A k \in 1..Count(n, Cfg(e).area) : z.v_oldval[e][k] = IF k = i THEN read ELSE u.v_oldval[e][k]
  <2>1. Vec(u.v_oldval[e], Count(n, Cfg(e).area))
    BY <1>0, <1>4
  <2> QED
    BY <1>3, <2>1 DEF Vec
<1>10. LatestOf(u, n, e)
  BY DEF Remembered, Latest
<1>11. LatestOf(z, n, e)
  <2>1. CASE Cfg(e).area \notin Class
    <3>1. 1 \in 1..Count(n, Cfg(e).area) /\ 0 \in 0..MemSize /\ i = 1 /\ offs = 0
      BY <1>8, <2>1, MemAssumption DEF At
    <3> QED
      BY <1>7, <1>9, <2>1, <3>1 DEF LatestOf
  <2>2. CASE Cfg(e).area \in Class
    <3>0. PICK c \in Class : c = Cfg(e).area
      BY <2>2
    <3>1. ASSUME NEW k \in 1..n[c], u.v_maddr[c][k] # 0
          PROVE  z.v_oldval[e][k] = z.lastptr[e][u.v_maddr[c][k]]
      <4>1. k \in 1..Count(n, c) /\ u.v_maddr[c][k] \in 0..MemSize /\ Distinct(u.v_maddr[c], n[c])
        BY <1>8, <3>0, <3>1 DEF Remembered, Mapped
      <4>2. i \in 1..n[c] /\ offs = u.v_maddr[c][i] /\ offs # 0
        BY <3>0, <2>2 DEF At
      <4>3. CASE k = i
        BY <1>7, <1>9, <3>0, <4>1, <4>2, <4>3
      <4>4. CASE k # i
        <5>1. u.v_maddr[c][k] # offs
          BY <3>1, <4>1, <4>2, <4>4 DEF Distinct
        <5>2. u.v_oldval[e][k] = u.lastptr[e][u.v_maddr[c][k]]
          BY <1>10, <3>0, <3>1 DEF LatestOf
        <5> QED
          BY <1>7, <1>9, <3>0, <4>1, <4>4, <5>1, <5>2
      <4> QED
        BY <4>3, <4>4
    <3> QED
      BY <3>0, <3>1 DEF LatestOf
  <2> QED
    BY <2>1, <2>2
<1>12. Latest(z, n)
  <2> SUFFICES ASSUME NEW d \in Pointer PROVE LatestOf(z, n, d)
    BY DEF Latest
  <2>1. CASE d = e
    BY <1>11, <2>1
  <2>2. CASE d # e
    <3>1. z.v_oldval[d] = u.v_oldval[d] /\ z.lastptr[d] = u.lastptr[d]
      BY <1>3, <1>3a, <2>2 DEF Pointer
    <3>2. LatestOf(u, n, d)
      BY DEF Remembered, Latest
    <3> QED
      BY <3>1, <3>2 DEF LatestOf
  <2> QED
    BY <2>1, <2>2
<1>13. Logged(z) /\ Mapped(z, n) /\ Same(z)
  BY <1>3a, <1>7 DEF Remembered, Logged, Mapped, Same
<1> QED
  BY <1>6, <1>12, <1>13 DEF Remembered

\* process_ptrmem() follows a pointer only to where it led the last time.
LEMMA FollowedRemembered ==
    ASSUME NEW u, NEW n, Remembered(u, n), NEW x, Sized(x, n), NEW e, NEW offs, NEW read,
           Followed(u, x, e, offs, read), read = u.lastptr[e][offs]
    PROVE  Remembered(x, n)
<1> DEFINE y == [x EXCEPT !.follows = u.follows]
<1>0. DOMAIN x = Fields
  BY DEF Sized
<1>1. /\ DOMAIN y = Fields
      /\ y.v_maddr = x.v_maddr /\ y.v_oldval = x.v_oldval /\ y.v_value = x.v_value
      /\ y.v_state = x.v_state /\ y.v_offs = x.v_offs
      /\ y.lastptr = x.lastptr /\ y.follows = u.follows
  BY <1>0 DEF Fields
<1> HIDE DEF y
<1>2. Sized(y, n)
  BY <1>1 DEF Sized
<1>3. Still(u, y)
  BY <1>1 DEF Still, Followed
<1>4. Remembered(y, n)
  BY <1>2, <1>3, StillRemembered
<1>5. Same(x)
  BY DEF Followed, Remembered, Same
<1>6. Logged(x) /\ Mapped(x, n)
  BY <1>1, <1>4 DEF Remembered, Logged, Mapped
<1>7. Latest(x, n)
  BY <1>1, <1>4 DEF Remembered, Latest, LatestOf
<1> QED
  BY <1>5, <1>6, <1>7 DEF Remembered

LEMMA PtrmemRemembered ==
    ASSUME conf \in Configs, NEW u, NEW n \in [Class -> Nat], Remembered(u, n), NEW e \in Pointer,
           \A a \in Area : area_act[a] \in Seq({d \in Entry : Cfg(d).area = a}),
           NEW i, NEW read, NEW offs, At(u, n, e, i, offs)
    PROVE  Remembered(ProcessPtrmem(u, e, i, read, offs), n)
<1> DEFINE x == FollowPointer(u, e, i, read, offs)
           v == [x EXCEPT !.lastptr[e][offs] = read]
           z == [[u EXCEPT !.lastptr[e][offs] = read] EXCEPT !.v_oldval[e][i] = read]
<1>0. e \in Entry /\ Cfg(e).target # NoEntry /\ Sized(u, n) /\ DOMAIN u = Fields
  BY DEF Pointer, Remembered, Sized
<1>1. u.v_oldval[e][i] = u.lastptr[e][offs]
  BY DEF At, Remembered, Latest, LatestOf
<1>2. CASE read = u.v_oldval[e][i]
  <2>1. Sized(x, n) /\ (Still(u, x) \/ Followed(u, x, e, offs, read))
    BY <1>0, FollowKeeps
  <2>7. ProcessPtrmem(u, e, i, read, offs) \in {u, v}
    BY <1>2 DEF ProcessPtrmem
  <2> HIDE DEF x
  <2>2. x.lastptr = u.lastptr /\ DOMAIN x = Fields
    BY <2>1 DEF Still, Followed, Sized
  <2>3. Apart(x, v)
    <3>1. [x.lastptr EXCEPT ![e] = [@ EXCEPT ![offs] = read]] = x.lastptr
      <4>1. read = x.lastptr[e][offs]
        BY <1>1, <1>2, <2>2
      <4>2. x.lastptr = [d \in Entry |-> x.lastptr[d]]
            /\ x.lastptr[e] = [a \in 0..MemSize |-> x.lastptr[e][a]]
        BY <1>0, <2>2 DEF Remembered, Logged
      <4>3. [x.lastptr[e] EXCEPT ![offs] = read] = x.lastptr[e]
        BY <4>1, <4>2
      <4> QED
        BY <4>2, <4>3
    <3>2. /\ DOMAIN v = Fields /\ v.lastptr = [x.lastptr EXCEPT ![e] = [@ EXCEPT ![offs] = read]]
          /\ v.v_maddr = x.v_maddr /\ v.v_oldval = x.v_oldval /\ v.v_value = x.v_value
          /\ v.v_state = x.v_state /\ v.v_offs = x.v_offs /\ v.follows = x.follows
      BY <2>2 DEF Fields
    <3> QED
      BY <2>2, <3>1, <3>2 DEF Apart
  <2> HIDE DEF v
  <2>4. Sized(v, n) /\ Still(x, v)
    BY <2>1, <2>3, ApartKeeps
  <2>5. Remembered(x, n)
    BY <1>1, <1>2, <2>1, StillRemembered, FollowedRemembered
  <2>6. Remembered(v, n)
    BY <2>4, <2>5, StillRemembered
  <2> QED
    BY <2>6, <2>7
<1>3. CASE read # u.v_oldval[e][i]
  <2>1. ProcessPtrmem(u, e, i, read, offs) \in {u, z}
    BY <1>3 DEF ProcessPtrmem
  <2>2. Noted(u, z, e, i, read, offs)
    BY <1>0 DEF Noted, Fields
  <2> HIDE DEF z
  <2>3. Remembered(z, n)
    BY <2>2, NotedRemembered
  <2> QED
    BY <2>1, <2>3
<1> QED
  BY <1>2, <1>3

\* process_act_cfg() and process_dynmem_cfg_act(), one entry.
LEMMA EntryRemembered ==
    ASSUME conf \in Configs, NEW u, NEW n \in [Class -> Nat], Remembered(u, n),
           NEW e \in Entry, Cfg(e).area \notin Pointee,
           \A a \in Area : area_act[a] \in Seq({d \in Entry : Cfg(d).area = a}),
           NEW i, NEW offs, At(u, n, e, i, offs)
    PROVE  Remembered(VisitEntry(u, e, i, offs), n)
<1> DEFINE x == Listed(e, 0)
           f == Read(u, x, offs)
<1>1. Sized(u, n)
  BY DEF Remembered
<1>2. Apart(u, f)
  BY <1>1, ReadApart, SelfKeeps
<1>3. VisitEntry(u, e, i, offs) = IF ~CanFill(u, x, offs) THEN u
        ELSE IF Cfg(e).target # NoEntry THEN ProcessPtrmem(f, e, i, Cached(f, x), offs)
        ELSE ChangeMemory(f, e, i, Cached(f, x), offs)
  BY DEF VisitEntry
<1> HIDE DEF f, x
<1>4. Sized(f, n) /\ Remembered(f, n)
  BY <1>1, <1>2, ApartKeeps, StillRemembered
<1>5. At(f, n, e, i, offs)
  BY <1>2 DEF At, Apart
<1>6. CASE Cfg(e).target # NoEntry
  <2>1. e \in Pointer
    BY <1>6 DEF Pointer
  <2> QED
    BY <1>3, <1>4, <1>5, <1>6, <2>1, PtrmemRemembered
<1>7. CASE Cfg(e).target = NoEntry
  <2>1. e \notin Pointer
    BY <1>7 DEF Pointer
  <2>2. /\ Sized(ChangeMemory(f, e, i, Cached(f, x), offs), n)
        /\ Still(f, ChangeMemory(f, e, i, Cached(f, x), offs))
    BY <1>4, <2>1, ChangeMemoryKeeps
  <2>3. Remembered(ChangeMemory(f, e, i, Cached(f, x), offs), n)
    BY <1>4, <2>2, StillRemembered
  <2> QED
    BY <1>3, <1>7, <2>3
<1> QED
  BY <1>6, <1>7
-----------------------------------------------------------------------------
(***************************************************************************)
(* The rest of a round: objects are erased, allocated and freed.           *)
(***************************************************************************)
LEMMA VecLen ==
    ASSUME NEW s, NEW m \in Nat, Vec(s, m)
    PROVE  /\ s \in Seq({s[i] : i \in 1..m}) /\ Len(s) = m /\ DOMAIN s = 1..m
           /\ m = 0 => s = <<>>
BY DEF Vec

\* What push_back() leaves behind, and K of them with the same element.
Added(s, x)    == Append(s, x)
More(s, x, K)  == s \o [k \in 1..K |-> x]

LEMMA VecAppend ==
    ASSUME NEW s, NEW m \in Nat, Vec(s, m), NEW x
    PROVE  /\ Vec(Added(s, x), m + 1)
           /\ \A k \in 1..m : Added(s, x)[k] = s[k]
           /\ Added(s, x)[m + 1] = x
<1> DEFINE T == {s[i] : i \in 1..m} \cup {x}
<1>1. s \in Seq(T) /\ Len(s) = m /\ x \in T
  BY DEF Vec
<1> HIDE DEF T
<1>2. Append(s, x) \in Seq(T) /\ Len(Append(s, x)) = m + 1
  BY <1>1
<1>3. /\ \A k \in 1..m : Append(s, x)[k] = s[k]
      /\ Append(s, x)[m + 1] = x
  BY <1>1
<1> QED
  BY <1>2, <1>3 DEF Vec, Added

LEMMA VecMore ==
    ASSUME NEW s, NEW m \in Nat, Vec(s, m), NEW x, NEW K \in Nat
    PROVE  /\ Vec(More(s, x, K), m + K)
           /\ \A k \in 1..m : More(s, x, K)[k] = s[k]
           /\ \A k \in (m + 1)..(m + K) : More(s, x, K)[k] = x
<1> DEFINE T == {s[i] : i \in 1..m} \cup {x}
           t == [k \in 1..K |-> x]
<1>1. s \in Seq(T) /\ Len(s) = m /\ x \in T
  BY DEF Vec
<1>2. t \in Seq(T) /\ Len(t) = K
  BY <1>1
<1>3. \A k \in 1..K : t[k] = x
  OBVIOUS
<1> HIDE DEF T, t
<1>4. s \o t \in Seq(T) /\ Len(s \o t) = m + K
  BY <1>1, <1>2
<1>5. /\ \A k \in 1..m : (s \o t)[k] = s[k]
      /\ \A k \in (m + 1)..(m + K) : (s \o t)[k] = t[k - m] /\ k - m \in 1..K
  BY <1>1, <1>2
<1> QED
  BY <1>3, <1>4, <1>5 DEF Vec, More, t

LEMMA VecKeep ==
    ASSUME NEW s, NEW m \in Nat, Vec(s, m), NEW K, K \subseteq 1..m
    PROVE  /\ Cardinality(K) \in Nat
           /\ Vec(Keep(s, K), Cardinality(K))
           /\ \A j \in 1..Cardinality(K) : Nth(K, j) \in K /\ Keep(s, K)[j] = s[Nth(K, j)]
<1>1. Cardinality(K) \in Nat /\ \A j \in 1..Cardinality(K) : Nth(K, j) \in K
  BY RankRange, NthRank
<1> QED
  BY <1>1 DEF Keep, Vec

\* Passes over a vector, one after the other.
IsTimes(s, D, K, g) == g = [k \in 0..K |-> IF k = 0 THEN s ELSE Without(g[k - 1], D)]

\* The recursive function WithoutTimes is defined with exists.
LEMMA TimesExist ==
    ASSUME NEW s, NEW D, NEW K \in Nat
    PROVE  \E g : IsTimes(s, D, K, g)
<1> DEFINE Some(k) == \E g : IsTimes(s, D, k, g)
           B == {k \in 1..K : ~Some(k)}
<1>1. Some(0)
  <2> DEFINE g == [k \in 0..0 |-> s]
  <2>1. IsTimes(s, D, 0, g)
    BY DEF IsTimes
  <2> QED
    BY <2>1
<1>2. ASSUME NEW k \in 1..K, NEW g, IsTimes(s, D, k - 1, g)
      PROVE  Some(k)
  <2> DEFINE h == [i \in 0..k |-> IF i = k THEN Without(g[k - 1], D) ELSE g[i]]
  <2>1. \A i \in 0..(k - 1) : i \in 0..k /\ i # k /\ h[i] = g[i] /\ (i # 0 => i - 1 \in 0..(k - 1))
    OBVIOUS
  <2>2. k \in 0..k /\ k # 0 /\ k - 1 \in 0..(k - 1) /\ h[k] = Without(g[k - 1], D)
    OBVIOUS
  <2>3. h = [i \in 0..k |-> h[i]] /\ \A i \in 0..k : i = k \/ i \in 0..(k - 1)
    OBVIOUS
  <2> HIDE DEF h
  <2>4. \A i \in 0..(k - 1) : g[i] = IF i = 0 THEN s ELSE Without(g[i - 1], D)
    BY <1>2 DEF IsTimes
  <2>5. ASSUME NEW i \in 0..k PROVE h[i] = IF i = 0 THEN s ELSE Without(h[i - 1], D)
    <3>1. CASE i = k
      BY <2>1, <2>2, <3>1
    <3>2. CASE i \in 0..(k - 1)
      BY <2>1, <2>4, <3>2
    <3> QED
      BY <2>3, <3>1, <3>2
  <2>6. IsTimes(s, D, k, h)
    BY <2>3, <2>5 DEF IsTimes
  <2> QED
    BY <2>6
<1>3. B = {}
  <2> SUFFICES ASSUME B # {} PROVE FALSE
    OBVIOUS
  <2>1. B \subseteq 1..K
    OBVIOUS
  <2> HIDE DEF B
  <2>2. PICK k \in B : \A j \in B : k <= j
    BY <2>1, LeastIndex
  <2>3. k \in 1..K /\ (k = 1 \/ k - 1 \in 1..K) /\ ~(k <= k - 1)
    BY <2>1, <2>2
  <2>4. k - 1 \notin B
    BY <2>2, <2>3
  <2>5. Some(k - 1)
    BY <1>1, <2>3, <2>4 DEF B
  <2>6. Some(k)
    BY <1>2, <2>3, <2>5
  <2> QED
    BY <2>2, <2>6 DEF B
<1> QED
  <2>1. K = 0 \/ K \in 1..K
    OBVIOUS
  <2>2. K \in 1..K => Some(K)
    BY <1>3
  <2> QED
    BY <1>1, <2>1, <2>2

\* WithoutTimes() pass by pass.
LEMMA TimesSteps ==
    ASSUME NEW s, NEW D, NEW K \in Nat
    PROVE  \E g : /\ g[0] = s /\ g[K] = WithoutTimes(s, D, K)
                  /\ \A k \in 1..K : g[k] = Without(g[k - 1], D)
<1> DEFINE left[k \in 0..K] == IF k = 0 THEN s ELSE Without(left[k - 1], D)
<1>1. WithoutTimes(s, D, K) = left[K]
  BY DEF WithoutTimes
<1>2. \E g : g = [k \in 0..K |-> IF k = 0 THEN s ELSE Without(g[k - 1], D)]
  <2>1. PICK g : IsTimes(s, D, K, g)
    BY TimesExist
  <2>2. \A k \in 0..K : g[k] = IF k = 0 THEN s ELSE Without(g[k - 1], D)
    BY <2>1 DEF IsTimes
  <2>3. g = [k \in 0..K |-> g[k]]
    BY <2>1 DEF IsTimes
  <2> QED
    BY <2>2, <2>3
<1>3. left = [k \in 0..K |-> IF k = 0 THEN s ELSE Without(left[k - 1], D)]
  BY <1>2
<1> HIDE DEF left
<1>4. \A k \in 0..K : left[k] = IF k = 0 THEN s ELSE Without(left[k - 1], D)
  BY <1>3
<1>5. 0 \in 0..K /\ \A k \in 1..K : k \in 0..K /\ k # 0
  OBVIOUS
<1> QED
  BY <1>1, <1>4, <1>5

LEMMA DifferenceSize ==
    ASSUME NEW S, IsFiniteSet(S), NEW D, D \subseteq S
    PROVE  Cardinality(S \ D) = Cardinality(S) - Cardinality(D)
<1>1. S \cap D = D
  OBVIOUS
<1>2. Cardinality(S \ D) = Cardinality(S) - Cardinality(S \cap D)
  BY FS_Difference
<1> QED
  BY <1>1, <1>2

\* One pass takes as many elements away as there are indices to erase.
LEMMA VecWithout ==
    ASSUME NEW s, NEW m \in Nat, Vec(s, m), NEW D, D \subseteq 1..m
    PROVE  /\ Cardinality(D) \in Nat /\ Cardinality(D) <= m
           /\ Vec(Without(s, D), m - Cardinality(D))
<1>1. DOMAIN s = 1..m
  BY DEF Vec
<1>2. IsFiniteSet(1..m) /\ Cardinality(1..m) = m
  BY FS_Interval
<1>3. Cardinality(D) \in Nat /\ Cardinality(D) <= m
  BY RankRange
<1>4. Cardinality((1..m) \ D) = m - Cardinality(D)
  BY <1>2, DifferenceSize
<1>5. Vec(Keep(s, (1..m) \ D), Cardinality((1..m) \ D))
  BY VecKeep
<1> QED
  BY <1>1, <1>3, <1>4, <1>5 DEF Without

\* A vector with K elements for each of N objects, after K passes.
LEMMA VecTimes ==
    ASSUME NEW s, NEW N \in Nat, NEW K \in Nat, Vec(s, K * N), NEW D, D \subseteq 1..N
    PROVE  /\ Cardinality(D) \in Nat /\ Cardinality(D) <= N
           /\ Vec(WithoutTimes(s, D, K), K * (N - Cardinality(D)))
<1> DEFINE d == Cardinality(D)
           Size(k) == (K - k) * N + k * (N - d)
<1>1. d \in Nat /\ d <= N
  BY RankRange
<1> HIDE DEF d
<1>2. PICK g : /\ g[0] = s /\ g[K] = WithoutTimes(s, D, K)
               /\ \A k \in 1..K : g[k] = Without(g[k - 1], D)
  BY TimesSteps
<1>3. PICK e \in Nat : e = N - d
  BY <1>1
<1>4. ASSUME NEW k \in 1..K
      PROVE  /\ Size(k - 1) \in Nat /\ Size(k - 1) >= N /\ Size(k) = Size(k - 1) - d
  <2>1. PICK x \in Nat, y \in Nat : x = K - k /\ y = k - 1
    OBVIOUS
  <2>2. K - (k - 1) = x + 1 /\ k = y + 1 /\ K - k = x
    BY <2>1
  <2>3. x * N \in Nat /\ y * e \in Nat
    OBVIOUS
  <2>4. (x + 1) * N = x * N + N /\ (y + 1) * e = y * e + e
    OBVIOUS
  <2>5. Size(k - 1) = x * N + N + y * e /\ Size(k) = x * N + y * e + e
    BY <1>3, <2>1, <2>2, <2>4
  <2> HIDE DEF Size
  <2> QED
    BY <1>1, <1>3, <2>3, <2>5
<1>5. Size(0) = K * N /\ Size(K) = K * (N - d)
  BY <1>1
<1> HIDE DEF Size
<1> DEFINE Bad == {k \in 1..K : ~Vec(g[k], Size(k))}
<1>6. Vec(g[0], Size(0))
  BY <1>2, <1>5
<1>7. Bad = {}
  <2> SUFFICES ASSUME Bad # {} PROVE FALSE
    OBVIOUS
  <2>1. Bad \subseteq 1..K
    OBVIOUS
  <2> HIDE DEF Bad
  <2>2. PICK k \in Bad : \A j \in Bad : k <= j
    BY <2>1, LeastIndex
  <2>3. k \in 1..K /\ (k - 1 = 0 \/ k - 1 \in 1..K) /\ ~(k <= k - 1)
    BY <2>1, <2>2
  <2>4. k - 1 \notin Bad
    BY <2>2, <2>3
  <2>5. Vec(g[k - 1], Size(k - 1))
    BY <1>6, <2>3, <2>4 DEF Bad
  <2>6. Size(k - 1) \in Nat /\ Size(k - 1) >= N /\ Size(k) = Size(k - 1) - d
    BY <1>4, <2>3
  <2>7. D \subseteq 1..Size(k - 1)
    BY <2>6
  <2>8. Vec(Without(g[k - 1], D), Size(k - 1) - d)
    BY <2>5, <2>6, <2>7, VecWithout DEF d
  <2>9. Vec(g[k], Size(k))
    BY <1>2, <2>3, <2>6, <2>8
  <2> QED
    BY <2>2, <2>9 DEF Bad
<1>8. Vec(g[K], Size(K))
  <2>1. K = 0 \/ K \in 1..K
    OBVIOUS
  <2> QED
    BY <1>6, <1>7, <2>1
<1> QED
  BY <1>1, <1>2, <1>5, <1>8 DEF d

\* One pass is erasing once.
LEMMA TimesOnce ==
    ASSUME NEW s, NEW D
    PROVE  WithoutTimes(s, D, 1) = Without(s, D)
<1>1. PICK K \in Nat : K = 1
  OBVIOUS
<1>2. PICK g : /\ g[0] = s /\ g[K] = WithoutTimes(s, D, K)
               /\ \A k \in 1..K : g[k] = Without(g[k - 1], D)
  BY TimesSteps
<1>3. K \in 1..K /\ K - 1 = 0
  BY <1>1
<1>4. g[K] = Without(s, D)
  BY <1>2, <1>3
<1> QED
  BY <1>1, <1>2, <1>4

LEMMA VecContains ==
    ASSUME NEW s, NEW m \in Nat, Vec(s, m), NEW a, ~Contains(s, a)
    PROVE  \A i \in 1..m : s[i] # a
BY VecLen DEF Contains

\* The number of objects that free_dynmem() leaves.
Left(u) == [c \in Class |-> Cardinality(LiveObj(u, c))]

LEMMA LeftType ==
    ASSUME NEW u, NEW n \in [Class -> Nat], Sized(u, n)
    PROVE  /\ Left(u) \in [Class -> Nat]
           /\ \A c \in Class : LiveObj(u, c) \subseteq 1..n[c]
<1>1. \A c \in Class : Vec(u.v_maddr[c], n[c])
  BY DEF Sized
<1>2. \A c \in Class : LiveObj(u, c) \subseteq 1..n[c]
  BY <1>1 DEF Vec, LiveObj
<1>3. ASSUME NEW c \in Class PROVE Cardinality(LiveObj(u, c)) \in Nat
  BY <1>2, RankRange
<1> QED
  BY <1>2, <1>3 DEF Left

\* What free_dynmem() takes out of the vectors of an area.
LEMMA DeadLeft ==
    ASSUME NEW u, NEW n \in [Class -> Nat], Sized(u, n), NEW c \in Class
    PROVE  /\ Dead(u, c) \subseteq 1..n[c] /\ n[c] \in Nat
           /\ (1..n[c]) \ Dead(u, c) = LiveObj(u, c)
           /\ n[c] - Cardinality(Dead(u, c)) = Left(u)[c]
<1>1. n[c] \in Nat /\ Vec(u.v_maddr[c], n[c])
  BY DEF Sized
<1>2. DOMAIN u.v_maddr[c] = 1..n[c]
  BY <1>1 DEF Vec
<1>3. LiveObj(u, c) \subseteq 1..n[c] /\ Cardinality(LiveObj(u, c)) \in Nat
  BY <1>1, LeftType, RankRange
<1>4. PICK N \in Nat : N = n[c]
  BY <1>1
<1>4a. PICK L : L = LiveObj(u, c)
  OBVIOUS
<1>5. IsFiniteSet(1..N) /\ Cardinality(1..N) = N
  BY FS_Interval
<1>6. L \subseteq 1..N /\ (1..N) \ ((1..N) \ L) = L /\ (1..N) \ L \subseteq 1..N
  BY <1>3, <1>4, <1>4a
<1>7. Cardinality((1..N) \ L) = N - Cardinality(L)
  BY <1>5, <1>6, DifferenceSize
<1>8. Dead(u, c) = (1..N) \ L
  BY <1>2, <1>4, <1>4a DEF Dead
<1>9. Left(u)[c] = Cardinality(L)
  BY <1>4a DEF Left
<1> QED
  BY <1>1, <1>3, <1>4, <1>4a, <1>6, <1>7, <1>8, <1>9

LEMMA EraseSized ==
    ASSUME conf \in Configs, NEW u, NEW n \in [Class -> Nat], Sized(u, n), NEW s, NEW a
    PROVE  /\ Vec(s, Count(n, a)) => Vec(Erased(u, a, s), Count(Left(u), a))
           /\ Vec(s, CountPtr(n, a)) => Vec(Erased(u, a, s), CountPtr(Left(u), a))
           /\ a \notin Pointee \cup Class => Erased(u, a, s) = s
           /\ a \in Class /\ Vec(s, n[a]) => \A j \in 1..Left(u)[a] :
                  Erased(u, a, s)[j] = s[Nth(LiveObj(u, a), j)]
<1>1. CASE AreaClass(a) \notin Class
  BY <1>1, CopiesType DEF Erased, Count, CountPtr
<1>2. CASE AreaClass(a) \in Class
  <2>1a. PICK c \in Class, K \in Nat : c = AreaClass(a) /\ K = Copies(a)
    BY <1>2, CopiesType
  <2>1b. PICK D : D = Dead(u, c)
    OBVIOUS
  <2>1. c = AreaClass(a) /\ K = Copies(a) /\ D = Dead(u, c)
    BY <2>1a, <2>1b
  <2>2. /\ D \subseteq 1..n[c] /\ n[c] \in Nat /\ (1..n[c]) \ D = LiveObj(u, c)
        /\ n[c] - Cardinality(D) = Left(u)[c]
    BY <2>1, DeadLeft
  <2>3. Erased(u, a, s) = WithoutTimes(s, D, K)
    BY <1>2, <2>1 DEF Erased
  <2>4. Vec(s, K * n[c]) => Vec(WithoutTimes(s, D, K), K * (n[c] - Cardinality(D)))
    BY <2>2, VecTimes
  <2>5. /\ Count(n, a) = K * n[c] /\ CountPtr(n, a) = K * n[c]
        /\ Count(Left(u), a) = K * Left(u)[c] /\ CountPtr(Left(u), a) = K * Left(u)[c]
    BY <1>2, <2>1 DEF Count, CountPtr
  <2>6. Vec(s, K * n[c]) => Vec(Erased(u, a, s), K * Left(u)[c])
    BY <2>2, <2>3, <2>4
  <2>7. ASSUME a \in Class, Vec(s, n[a]), NEW j \in 1..Left(u)[a]
        PROVE  Erased(u, a, s)[j] = s[Nth(LiveObj(u, a), j)]
    <3>1. K = 1 /\ c = a
      BY <2>1, <2>7, CopiesType
    <3>2. WithoutTimes(s, D, K) = Without(s, D)
      BY <3>1, TimesOnce
    <3>3. DOMAIN s = 1..n[c]
      BY <2>7, <3>1 DEF Vec
    <3>4. Without(s, D) = Keep(s, LiveObj(u, a))
      BY <2>2, <3>1, <3>3 DEF Without
    <3>5. j \in 1..Cardinality(LiveObj(u, a))
      BY <2>7 DEF Left
    <3>6. Keep(s, LiveObj(u, a))[j] = s[Nth(LiveObj(u, a), j)]
      BY <3>5 DEF Keep
    <3> QED
      BY <2>3, <3>2, <3>4, <3>6
  <2>8. a \notin Pointee \cup Class => FALSE
    BY <1>2, CopiesType
  <2> QED
    BY <2>5, <2>6, <2>7, <2>8
<1> QED
  BY <1>1, <1>2

\* free_dynmem() and free_ptrmem(): what belongs to an object stays together.
LEMMA EraseRemembered ==
    ASSUME conf \in Configs, NEW u, NEW n \in [Class -> Nat], Remembered(u, n)
    PROVE  Remembered(Erase(u), Left(u))
<1> DEFINE v == Erase(u)
           m == Left(u)
<1>0. Sized(u, n) /\ DOMAIN u = Fields
  BY DEF Remembered, Sized
<1>1. /\ DOMAIN v = Fields /\ v.lastptr = u.lastptr /\ v.follows = u.follows
      /\ v.v_oldval = [e \in Entry |-> Erased(u, Cfg(e).area, u.v_oldval[e])]
      /\ v.v_value  = [e \in Entry |-> Erased(u, Cfg(e).area, u.v_value[e])]
      /\ v.v_state  = [p \in Pointee |-> Erased(u, p, u.v_state[p])]
      /\ v.v_offs   = [p \in Pointee |-> Erased(u, p, u.v_offs[p])]
      /\ v.v_maddr  = [c \in Class |-> Keep(u.v_maddr[c], LiveObj(u, c))]
  BY <1>0 DEF Erase, Fields
<1> HIDE DEF v
<1>2. /\ \A e \in Entry : Vec(u.v_oldval[e], Count(n, Cfg(e).area)) /\ Vec(u.v_value[e], Count(n, Cfg(e).area))
      /\ \A p \in Pointee : Vec(u.v_state[p], CountPtr(n, p)) /\ Vec(u.v_offs[p], CountPtr(n, p))
      /\ \A c \in Class : Vec(u.v_maddr[c], n[c])
  BY <1>0 DEF Sized
<1>3. ASSUME NEW c \in Class
      PROVE  /\ n[c] \in Nat /\ m[c] \in Nat /\ m[c] = Cardinality(LiveObj(u, c))
             /\ LiveObj(u, c) \subseteq 1..n[c]
             /\ Vec(v.v_maddr[c], m[c])
             /\ \A j \in 1..m[c] : /\ Nth(LiveObj(u, c), j) \in 1..n[c]
                                   /\ v.v_maddr[c][j] = u.v_maddr[c][Nth(LiveObj(u, c), j)]
  <2>1. n[c] \in Nat /\ m[c] \in Nat /\ m[c] = Cardinality(LiveObj(u, c)) /\ LiveObj(u, c) \subseteq 1..n[c]
    BY <1>0, LeftType DEF Left
  <2>2. v.v_maddr[c] = Keep(u.v_maddr[c], LiveObj(u, c))
    BY <1>1
  <2>3. Vec(u.v_maddr[c], n[c])
    BY <1>2
  <2> QED
    BY <2>1, <2>2, <2>3, VecKeep
<1>4. \A e \in Entry : Vec(v.v_oldval[e], Count(m, Cfg(e).area)) /\ Vec(v.v_value[e], Count(m, Cfg(e).area))
  BY <1>0, <1>1, <1>2, EraseSized
<1>5. \A p \in Pointee : Vec(v.v_state[p], CountPtr(m, p)) /\ Vec(v.v_offs[p], CountPtr(m, p))
  BY <1>0, <1>1, <1>2, EraseSized
<1> HIDE DEF m
<1>6. Sized(v, m)
  BY <1>1, <1>3, <1>4, <1>5 DEF Sized
<1>7. Logged(v) /\ Same(v)
  BY <1>1 DEF Remembered, Logged, Same
<1>8. Mapped(v, m)
  <2> SUFFICES ASSUME NEW c \in Class
               PROVE  (\A i \in 1..m[c] : v.v_maddr[c][i] \in 0..MemSize) /\ Distinct(v.v_maddr[c], m[c])
    BY DEF Mapped
  <2>1. (\A i \in 1..n[c] : u.v_maddr[c][i] \in 0..MemSize) /\ Distinct(u.v_maddr[c], n[c])
    BY DEF Remembered, Mapped
  <2>2. \A i \in 1..m[c] : v.v_maddr[c][i] \in 0..MemSize
    BY <1>3, <2>1
  <2>3. Distinct(v.v_maddr[c], m[c])
    <3> SUFFICES ASSUME NEW i \in 1..m[c], NEW k \in 1..m[c], v.v_maddr[c][i] # 0, v.v_maddr[c][i] = v.v_maddr[c][k]
                 PROVE  i = k
      BY DEF Distinct
    <3>1. Nth(LiveObj(u, c), i) = Nth(LiveObj(u, c), k)
      BY <1>3, <2>1 DEF Distinct
    <3> QED
      BY <1>3, <3>1, NthInjective
  <2> QED
    BY <2>2, <2>3
<1>9. Latest(v, m)
  <2> SUFFICES ASSUME NEW e \in Pointer PROVE LatestOf(v, m, e)
    BY DEF Latest
  <2>1. LatestOf(u, n, e) /\ e \in Entry /\ Cfg(e).area \notin Pointee
    BY DEF Remembered, Latest, Pointer
  <2>2. v.v_oldval[e] = Erased(u, Cfg(e).area, u.v_oldval[e])
        /\ (Cfg(e).area \in Class => Vec(u.v_oldval[e], n[Cfg(e).area]))
    BY <1>1, <1>2, <2>1, CountClass
  <2>3. /\ Cfg(e).area \notin Class => v.v_oldval[e][1] = u.v_oldval[e][1]
        /\ Cfg(e).area \in Class => \A j \in 1..m[Cfg(e).area] :
               v.v_oldval[e][j] = u.v_oldval[e][Nth(LiveObj(u, Cfg(e).area), j)]
    BY <1>0, <2>1, <2>2, EraseSized DEF m
  <2>4. CASE Cfg(e).area \notin Class
    BY <1>1, <2>1, <2>3, <2>4 DEF LatestOf
  <2>5. CASE Cfg(e).area \in Class
    <3>1. PICK c \in Class : c = Cfg(e).area
      BY <2>5
    <3>2. ASSUME NEW j \in 1..m[c], v.v_maddr[c][j] # 0
          PROVE  v.v_oldval[e][j] = v.lastptr[e][v.v_maddr[c][j]]
      BY SMTT(30), <1>1, <1>3, <2>1, <2>3, <3>1, <3>2 DEF LatestOf
    <3> QED
      BY <3>1, <3>2 DEF LatestOf
  <2> QED
    BY <2>4, <2>5
<1> QED
  BY <1>6, <1>7, <1>8, <1>9 DEF Remembered, v, m

\* alloc_dynmem() and alloc_ptrmem()
LEMMA AllocateRemembered ==
    ASSUME conf \in Configs, NEW u, NEW n \in [Class -> Nat], Remembered(u, n),
           NEW c \in Class, NEW a \in 1..MemSize, ~Contains(u.v_maddr[c], a)
    PROVE  Remembered(Allocate(u, c, a), [n EXCEPT ![c] = @ + 1])
<1> DEFINE v == Allocate(u, c, a)
           m == [n EXCEPT ![c] = @ + 1]
           New(area, x) == IF AreaClass(area) = c THEN [k \in 1..Copies(area) |-> x] ELSE <<>>
<1>0. Sized(u, n) /\ Logged(u) /\ Mapped(u, n) /\ DOMAIN u = Fields
  BY DEF Remembered, Sized
<1>1. /\ DOMAIN v = Fields /\ v.follows = u.follows
      /\ v.v_maddr  = [u.v_maddr EXCEPT ![c] = Added(@, a)]
      /\ v.v_oldval = [e \in Entry |-> u.v_oldval[e] \o New(Cfg(e).area, 0)]
      /\ v.v_value  = [e \in Entry |-> u.v_value[e] \o New(Cfg(e).area, value[e])]
      /\ v.v_state  = [p \in Pointee |-> u.v_state[p] \o New(p, "init")]
      /\ v.v_offs   = [p \in Pointee |-> u.v_offs[p] \o New(p, 0)]
      /\ v.lastptr  = [e \in Entry |-> IF Cfg(e).area = c THEN [u.lastptr[e] EXCEPT ![a] = 0] ELSE u.lastptr[e]]
  BY <1>0 DEF Allocate, Fields, Added
<1> HIDE DEF v
<1>2. /\ \A e \in Entry : Vec(u.v_oldval[e], Count(n, Cfg(e).area)) /\ Vec(u.v_value[e], Count(n, Cfg(e).area))
      /\ \A p \in Pointee : Vec(u.v_state[p], CountPtr(n, p)) /\ Vec(u.v_offs[p], CountPtr(n, p))
      /\ \A d \in Class : Vec(u.v_maddr[d], n[d])
      /\ u.v_maddr = [d \in Class |-> u.v_maddr[d]]
  BY <1>0 DEF Sized
<1>3. m \in [Class -> Nat] /\ m[c] = n[c] + 1 /\ \A d \in Class : n[d] \in Nat /\ (d # c => m[d] = n[d])
  OBVIOUS
<1> HIDE DEF m
<1>4. ASSUME NEW d, NEW s, NEW x, NEW N \in Nat, Vec(s, N)
      PROVE  /\ AreaClass(d) = c => s \o New(d, x) = More(s, x, Copies(d)) /\ Vec(s \o New(d, x), N + Copies(d))
             /\ AreaClass(d) # c => s \o New(d, x) = s
  <2>1. CASE AreaClass(d) = c
    <3>1. s \o New(d, x) = More(s, x, Copies(d))
      BY <2>1 DEF More
    <3>2. Copies(d) \in Nat
      BY CopiesType
    <3>3. Vec(More(s, x, Copies(d)), N + Copies(d))
      BY <1>4, <3>2, VecMore
    <3> QED
      BY <2>1, <3>1, <3>3
  <2>2. CASE AreaClass(d) # c
    <3>1. New(d, x) = <<>>
      BY <2>2
    <3>2. s \in Seq({s[i] : i \in 1..N})
      BY <1>4, VecLen
    <3> QED
      BY <2>2, <3>1, <3>2
  <2> QED
    BY <2>1, <2>2
<1> HIDE DEF New
<1>4a. ASSUME NEW d
       PROVE  /\ Count(n, d) \in Nat /\ CountPtr(n, d) \in Nat
              /\ AreaClass(d) = c => /\ Count(m, d) = Count(n, d) + Copies(d)
                                     /\ CountPtr(m, d) = CountPtr(n, d) + Copies(d)
              /\ AreaClass(d) # c => Count(m, d) = Count(n, d) /\ CountPtr(m, d) = CountPtr(n, d)
  <2>1a. PICK K \in Nat : K = Copies(d)
    BY CopiesType
  <2>1b. PICK b : b = AreaClass(d)
    OBVIOUS
  <2>1. K = Copies(d) /\ b = AreaClass(d)
    BY <2>1a, <2>1b
  <2>2. /\ Count(n, d) = IF b \in Class THEN K * n[b] ELSE 1
        /\ CountPtr(n, d) = IF b \in Class THEN K * n[b] ELSE K
        /\ Count(m, d) = IF b \in Class THEN K * m[b] ELSE 1
        /\ CountPtr(m, d) = IF b \in Class THEN K * m[b] ELSE K
    BY <2>1 DEF Count, CountPtr
  <2>3. b \in Class => n[b] \in Nat /\ K * n[b] \in Nat
    BY <1>3
  <2>4. K * (n[c] + 1) = K * n[c] + K
    BY <1>3
  <2> QED
    BY <1>3, <2>1, <2>2, <2>3, <2>4
<1>4b. ASSUME NEW d, NEW s, NEW x
       PROVE  /\ Vec(s, Count(n, d)) => Vec(s \o New(d, x), Count(m, d))
              /\ Vec(s, CountPtr(n, d)) => Vec(s \o New(d, x), CountPtr(m, d))
  BY <1>4, <1>4a
<1>5. \A e \in Entry : Vec(v.v_oldval[e], Count(m, Cfg(e).area)) /\ Vec(v.v_value[e], Count(m, Cfg(e).area))
  BY <1>1, <1>2, <1>4b
<1>6. \A p \in Pointee : Vec(v.v_state[p], CountPtr(m, p)) /\ Vec(v.v_offs[p], CountPtr(m, p))
  BY <1>1, <1>2, <1>4b
<1>7. /\ v.v_maddr = [d \in Class |-> v.v_maddr[d]]
      /\ v.v_maddr[c] = Added(u.v_maddr[c], a)
      /\ \A d \in Class : d # c => v.v_maddr[d] = u.v_maddr[d]
  BY <1>1, <1>2
<1>8. /\ Vec(v.v_maddr[c], n[c] + 1) /\ v.v_maddr[c][n[c] + 1] = a
      /\ \A k \in 1..n[c] : v.v_maddr[c][k] = u.v_maddr[c][k]
  BY <1>2, <1>3, <1>7, VecAppend
<1>9. \A d \in Class : Vec(v.v_maddr[d], m[d])
  BY <1>2, <1>3, <1>7, <1>8
<1>10. Sized(v, m)
  BY <1>1, <1>5, <1>6, <1>7, <1>9 DEF Sized
<1>11. \A k \in 1..n[c] : u.v_maddr[c][k] # a
  BY <1>2, <1>3, VecContains
<1>12. Mapped(v, m)
  <2> SUFFICES ASSUME NEW d \in Class
               PROVE  (\A i \in 1..m[d] : v.v_maddr[d][i] \in 0..MemSize) /\ Distinct(v.v_maddr[d], m[d])
    BY DEF Mapped
  <2>1. (\A i \in 1..n[d] : u.v_maddr[d][i] \in 0..MemSize) /\ Distinct(u.v_maddr[d], n[d])
    BY <1>0 DEF Mapped
  <2>2. CASE d # c
    BY <1>3, <1>7, <2>1, <2>2
  <2>3. CASE d = c
    <3>1. \A i \in 1..m[c] : i \in 1..n[c] \/ i = n[c] + 1
      BY <1>3
    <3>2. a \in 0..MemSize /\ a # 0
      BY MemAssumption
    <3>3. \A i \in 1..m[c] : v.v_maddr[c][i] \in 0..MemSize
      BY <1>8, <2>1, <2>3, <3>1, <3>2
    <3>4. Distinct(v.v_maddr[c], m[c])
      BY <1>8, <1>11, <2>1, <2>3, <3>1, <3>2 DEF Distinct
    <3> QED
      BY <2>3, <3>3, <3>4
  <2> QED
    BY <2>2, <2>3
<1>13. Logged(v) /\ Same(v)
  <2>1. ASSUME NEW e \in Entry PROVE v.lastptr[e] = [k \in 0..MemSize |-> v.lastptr[e][k]]
    <3>1. u.lastptr[e] = [k \in 0..MemSize |-> u.lastptr[e][k]]
      BY <1>0 DEF Logged
    <3>2. v.lastptr[e] = [u.lastptr[e] EXCEPT ![a] = 0] \/ v.lastptr[e] = u.lastptr[e]
      BY <1>1
    <3> QED
      BY <3>1, <3>2
  <2>2. Same(v)
    BY <1>1 DEF Remembered, Same
  <2> QED
    BY <1>1, <2>1, <2>2 DEF Logged
<1>14. Latest(v, m)
  <2> SUFFICES ASSUME NEW e \in Pointer PROVE LatestOf(v, m, e)
    BY DEF Latest
  <2>1. LatestOf(u, n, e) /\ e \in Entry /\ Cfg(e).area \notin Pointee
    BY DEF Remembered, Latest, Pointer
  <2>a. /\ AreaClass(Cfg(e).area) = Cfg(e).area /\ Copies(Cfg(e).area) = 1
        /\ Vec(u.v_oldval[e], Count(n, Cfg(e).area)) /\ Count(n, Cfg(e).area) \in Nat
    BY <1>2, <1>4a, <2>1, CopiesType
  <2>b. PICK N \in Nat : Vec(u.v_oldval[e], N)
    BY <2>a
  <2> DEFINE d == Cfg(e).area
             s == u.v_oldval[e]
  <2>c. v.v_oldval[e] = s \o New(d, 0)
    BY <1>1, <2>1, <2>b
  <2>2. CASE Cfg(e).area # c
    <3>0. s \o New(d, 0) = s
      BY <1>4, <2>a, <2>b, <2>2
    <3>1. v.v_oldval[e] = u.v_oldval[e] /\ v.lastptr[e] = u.lastptr[e]
      BY <1>1, <2>1, <2>b, <2>c, <2>2, <3>0
    <3> QED
      BY <1>3, <1>7, <2>1, <2>2, <3>1 DEF LatestOf
  <2>3. CASE Cfg(e).area = c
    <3>0. s \o New(d, 0) = More(s, 0, 1)
      BY <1>4, <2>a, <2>b, <2>3
    <3>1. v.v_oldval[e] = More(u.v_oldval[e], 0, 1) /\ v.lastptr[e] = [u.lastptr[e] EXCEPT ![a] = 0]
      BY <1>1, <2>1, <2>b, <2>c, <2>3, <3>0
    <3>2. Vec(u.v_oldval[e], n[c])
      BY <2>a, <2>3, CountClass
    <3>3. (\A k \in 1..n[c] : v.v_oldval[e][k] = u.v_oldval[e][k]) /\ v.v_oldval[e][n[c] + 1] = 0
      <4>1. n[c] \in Nat /\ n[c] + 1 \in (n[c] + 1)..(n[c] + 1)
        BY <1>3
      <4> QED
        BY <3>1, <3>2, <4>1, VecMore
    <3>4. \A k \in 0..MemSize : v.lastptr[e][k] = IF k = a THEN 0 ELSE u.lastptr[e][k]
      BY <1>0, <2>1, <3>1 DEF Logged
    <3>5. ASSUME NEW j \in 1..m[c], v.v_maddr[c][j] # 0
          PROVE  v.v_oldval[e][j] = v.lastptr[e][v.v_maddr[c][j]]
      <4>1. CASE j = n[c] + 1
        BY <1>8, <3>3, <3>4, <4>1
      <4>2. CASE j \in 1..n[c]
        <5>1. u.v_maddr[c][j] \in 0..MemSize
          BY <1>0, <4>2 DEF Mapped
        <5> QED
          BY <1>8, <1>11, <2>1, <2>3, <3>3, <3>4, <3>5, <4>2, <5>1 DEF LatestOf
      <4> QED
        BY <1>3, <4>1, <4>2
    <3> QED
      BY <2>3, <3>5 DEF LatestOf
  <2> QED
    BY <2>2, <2>3
<1> QED
  BY <1>10, <1>12, <1>13, <1>14 DEF Remembered, v, m
-----------------------------------------------------------------------------
(***************************************************************************)
(* The invariant of the specification, for n[c] objects of class c.        *)
(***************************************************************************)
Lists ==
    /\ cfg_act \in Seq({e \in Entry : Cfg(e).area \in Area \ Pointee})
    /\ area_act = [a \in Area |-> area_act[a]]
    /\ \A a \in Area : area_act[a] \in Seq({e \in Entry : Cfg(e).area = a})

Sizes(n) == /\ v_msize = [c \in Class |-> v_msize[c]]
            /\ \A c \in Class : Vec(v_msize[c], n[c])

Position(n) ==
    /\ pos \in [k : Nat \ {0}, i : Nat, j : Nat \ {0}, old : Area]
    /\ pos.i > 0 => phase = "process" /\ pos.old \in Class /\ pos.i <= n[pos.old]

ValuesInv(n) ==
    /\ conf \in Configs /\ n \in [Class -> Nat]
    /\ Lists /\ Sizes(n) /\ Position(n) /\ Remembered(w, n)

Inv == \E n : ValuesInv(n)

\* The next value of w, when the config stays.
LEMMA RememberedNext ==
    ASSUME conf' = conf, NEW n, NEW x, x = w', Remembered(x, n)
    PROVE  Remembered(w, n)'
<1>1. /\ Entry' = Entry /\ \A e : Cfg(e)' = Cfg(e)
  BY DEF Entry, Cfg
<1>2. /\ \A a : Copies(a)' = Copies(a) /\ AreaClass(a)' = AreaClass(a)
      /\ Pointer' = Pointer
  BY <1>1 DEF Copies, Pointers, AreaClass, Pointer
<1>2a. \A a : Count(n, a)' = Count(n, a) /\ CountPtr(n, a)' = CountPtr(n, a)
  BY <1>2 DEF Count, CountPtr
<1>3. Sized(w, n)'
  <2>1. Sized(x, n)
    BY DEF Remembered
  <2> QED
    BY <1>1, <1>2a, <2>1 DEF Sized
<1>4. Logged(w)'
  <2>1. Logged(x)
    BY DEF Remembered
  <2> QED
    BY <1>1, <2>1 DEF Logged
<1>5. Mapped(w, n)' /\ Same(w)'
  <2>1. Mapped(x, n) /\ Same(x)
    BY DEF Remembered
  <2> QED
    BY <2>1 DEF Mapped, Same
<1>6. Latest(w, n)'
  <2>1. Latest(x, n)
    BY DEF Remembered
  <2> QED
    BY <1>1, <1>2, <2>1 DEF Latest, LatestOf
<1> QED
  BY <1>3, <1>4, <1>5, <1>6 DEF Remembered

LEMMA InvNext ==
    ASSUME NEW n, ValuesInv(n), conf' = conf, NEW m \in [Class -> Nat], Lists', Sizes(m)', Position(m)',
           NEW x, x = w', Remembered(x, m)
    PROVE  Inv'
<1>1. Remembered(w, m)'
  BY RememberedNext
<1>2. conf' \in Configs
  BY DEF ValuesInv
<1>3. ValuesInv(m)'
  BY <1>1, <1>2 DEF ValuesInv
<1> QED
  BY <1>3 DEF Inv

LEMMA ListsNext ==
    ASSUME Lists, conf' = conf, cfg_act' = cfg_act, area_act' = area_act
    PROVE  Lists'
BY DEF Lists, Entry, Cfg

LEMMA Initially ==
    ASSUME Init
    PROVE  Inv
<1> DEFINE n == [c \in Class |-> 0]
<1>0. conf \in Configs
  BY DEF Init
<1>1. n \in [Class -> Nat]
  OBVIOUS
<1>2. Lists
  <2>1. cfg_act = conf.cfg_act /\ area_act = conf.area_act
    BY DEF Init
  <2> QED
    BY <1>0, <2>1, ConfigType DEF Lists
<1>3. Sizes(n)
  BY DEF Init, Sizes, Vec
<1>4. Position(n)
  BY AreaAssumption DEF Init, Position
<1>5. /\ DOMAIN w = Fields
      /\ w.v_maddr = [c \in Class |-> <<>>]
      /\ w.v_oldval = [e \in Entry |-> IF Initial(e) = <<>> THEN <<>> ELSE <<0>>]
      /\ w.v_value = [e \in Entry |-> Initial(e)]
      /\ w.v_state = InitialPtr("init") /\ w.v_offs = InitialPtr(0)
      /\ w.lastptr = [e \in Entry |-> [a \in 0..MemSize |-> 0]]
      /\ w.follows = {}
  BY DEF Init, Fields
<1>6. \A x : Vec(<<>>, 0) /\ Vec(<<x>>, 1)
  BY DEF Vec
<1>7. \A e \in Entry : IF IndexClass(e) \in Class THEN w.v_oldval[e] = <<>> /\ w.v_value[e] = <<>>
                       ELSE w.v_oldval[e] = <<0>> /\ w.v_value[e] = <<Cfg(e).want>>
  BY <1>5 DEF Initial
<1>7a. \A a : AreaClass(a) \in Class => Copies(a) * n[AreaClass(a)] = 0
  <2> SUFFICES ASSUME NEW a, AreaClass(a) \in Class PROVE Copies(a) * n[AreaClass(a)] = 0
    OBVIOUS
  <2>1. Copies(a) \in Nat /\ n[AreaClass(a)] = 0
    BY <1>0, CopiesType
  <2> QED
    BY <2>1
<1>8. \A e \in Entry : Vec(w.v_oldval[e], Count(n, Cfg(e).area)) /\ Vec(w.v_value[e], Count(n, Cfg(e).area))
  <2> SUFFICES ASSUME NEW e \in Entry, NEW a, a = Cfg(e).area
               PROVE  Vec(w.v_oldval[e], Count(n, a)) /\ Vec(w.v_value[e], Count(n, a))
    OBVIOUS
  <2>1. Count(n, a) = IF AreaClass(a) \in Class THEN 0 ELSE 1
    BY <1>7a DEF Count
  <2>2. IndexClass(e) = AreaClass(a)
    BY DEF IndexClass
  <2> QED
    BY <1>6, <1>7, <2>1, <2>2
<1>9. \A p \in Pointee : Vec(w.v_state[p], CountPtr(n, p)) /\ Vec(w.v_offs[p], CountPtr(n, p))
  <2> SUFFICES ASSUME NEW p \in Pointee
               PROVE  Vec(w.v_state[p], CountPtr(n, p)) /\ Vec(w.v_offs[p], CountPtr(n, p))
    OBVIOUS
  <2>1. AreaClass(p) = conf.owner[p]
    BY DEF AreaClass
  <2>2. CASE conf.owner[p] \in Class
    <3>1. CountPtr(n, p) = 0
      BY <1>7a, <2>1, <2>2 DEF CountPtr
    <3>2. w.v_state[p] = <<>> /\ w.v_offs[p] = <<>>
      BY <1>5, <2>2 DEF InitialPtr
    <3> QED
      BY <1>6, <3>1, <3>2
  <2>3. CASE conf.owner[p] \notin Class
    <3>1. CountPtr(n, p) = Copies(p)
      BY <2>1, <2>3 DEF CountPtr
    <3>2. w.v_state[p] = [k \in 1..Copies(p) |-> "init"] /\ w.v_offs[p] = [k \in 1..Copies(p) |-> 0]
      BY <1>5, <2>3 DEF InitialPtr
    <3> QED
      BY <3>1, <3>2 DEF Vec
  <2> QED
    BY <2>2, <2>3
<1>10. \A c \in Class : Vec(w.v_maddr[c], n[c])
  BY <1>5, <1>6
<1>10a. /\ w.v_state = [p \in Pointee |-> w.v_state[p]]
        /\ w.v_offs = [p \in Pointee |-> w.v_offs[p]]
  BY <1>5 DEF InitialPtr
<1>11. Sized(w, n)
  BY <1>5, <1>8, <1>9, <1>10, <1>10a DEF Sized
<1>12. Logged(w) /\ Mapped(w, n) /\ Same(w)
  BY <1>5 DEF Logged, Mapped, Same, Distinct
<1>13. Latest(w, n)
  <2> SUFFICES ASSUME NEW e \in Pointer PROVE LatestOf(w, n, e)
    BY DEF Latest
  <2>1. e \in Entry /\ IndexClass(e) = Cfg(e).area /\ 0 \in 0..MemSize
    BY MemAssumption DEF Pointer, IndexClass, AreaClass
  <2>2. Cfg(e).area \notin Class => w.v_oldval[e] = <<0>>
    BY <1>7, <2>1
  <2>3. w.lastptr[e][0] = 0
    BY <1>5, <2>1
  <2> QED
    BY <2>2, <2>3 DEF LatestOf
<1> HIDE DEF n
<1>14. Remembered(w, n)
  BY <1>11, <1>12, <1>13 DEF Remembered
<1>15. ValuesInv(n)
  BY <1>0, <1>1, <1>2, <1>3, <1>4, <1>14 DEF ValuesInv
<1> QED
  BY <1>15 DEF Inv
\* Steps that the vectors and the history of pointers do not notice.
LEMMA ApartNext ==
    ASSUME NEW n, ValuesInv(n), UNCHANGED <<conf, cfg_act, area_act, v_msize>>, Position(n)',
           NEW x, x = w', Apart(w, x) \/ Apart(NoLog(w), x)
    PROVE  Inv'
<1>1. Remembered(w, n) /\ Remembered(NoLog(w), n) /\ n \in [Class -> Nat]
  BY NoLogRemembered DEF ValuesInv
<1>2. Remembered(x, n)
  <2>1. ASSUME NEW u, Remembered(u, n), Apart(u, x) PROVE Remembered(x, n)
    BY <2>1, ApartKeeps, StillRemembered DEF Remembered
  <2> QED
    BY <1>1, <2>1
<1>3. Lists' /\ Sizes(n)'
  BY ListsNext DEF ValuesInv, Sizes
<1> QED
  BY <1>1, <1>2, <1>3, InvNext

\* free_dynmem(), whatever the lists of active entries become.
LEMMA FreeNext ==
    ASSUME NEW n, ValuesInv(n), FreeDynmem, UNCHANGED <<conf, pos>>, pos.i = 0, Lists'
    PROVE  Inv'
<1> DEFINE u == NoLog(w)
<1>0. PICK m : m = Left(w)
  OBVIOUS
<1>1. Remembered(u, n) /\ n \in [Class -> Nat] /\ conf \in Configs
  BY NoLogRemembered DEF ValuesInv
<1>2. Left(u) = m
  BY <1>0 DEF NoLog, Left, LiveObj, ValuesInv, Remembered, Sized, Fields
<1>3. PICK x : x = w'
  OBVIOUS
<1>4. x = Erase(u)
  BY <1>3 DEF FreeDynmem
<1> HIDE DEF u
<1>5. Remembered(x, m)
  BY <1>1, <1>2, <1>4, EraseRemembered
<1>6. Sized(w, n)
  BY DEF ValuesInv, Remembered
<1>7. m \in [Class -> Nat] /\ \A c \in Class : LiveObj(w, c) \subseteq 1..n[c]
  BY <1>0, <1>1, <1>6, LeftType
<1>8. Sizes(m)'
  <2>1. v_msize' = [c \in Class |-> Keep(v_msize[c], LiveObj(w, c))]
    BY DEF FreeDynmem
  <2>2. ASSUME NEW c \in Class PROVE Vec(v_msize'[c], m[c])
    <3>1. Vec(v_msize[c], n[c]) /\ n[c] \in Nat /\ LiveObj(w, c) \subseteq 1..n[c]
      BY <1>1, <1>7 DEF ValuesInv, Sizes
    <3>2. Vec(Keep(v_msize[c], LiveObj(w, c)), Cardinality(LiveObj(w, c)))
      BY <3>1, VecKeep
    <3> QED
      BY <1>0, <2>1, <3>2 DEF Left
  <2> QED
    BY <2>1, <2>2 DEF Sizes
<1>9. Position(m)'
  BY DEF ValuesInv, Position
<1> QED
  BY <1>3, <1>5, <1>7, <1>8, <1>9, InvNext

LEMMA ConfigSteps ==
    ASSUME Inv, ReadConfig \/ StartTrainer
    PROVE  Inv'
<1>1. PICK n : ValuesInv(n)
  BY DEF Inv
<1>2. Position(n)'
  BY <1>1 DEF ValuesInv, Position, ReadConfig, StartTrainer
<1>3. DOMAIN w = Fields
  BY <1>1 DEF ValuesInv, Remembered, Sized
<1>4. Apart(w, w')
  BY <1>3 DEF ReadConfig, StartTrainer, Apart, Fields
<1>5. UNCHANGED <<conf, cfg_act, area_act, v_msize>>
  BY DEF ReadConfig, StartTrainer
<1>6. PICK x : x = w'
  OBVIOUS
<1> QED
  BY <1>1, <1>2, <1>4, <1>5, <1>6, ApartNext

\* toggle_cfg()
LEMMA ToggleType ==
    ASSUME NEW S, NEW list \in Seq(S), NEW e \in S
    PROVE  ToggleIn(list, e) \in Seq(S)
<1> DEFINE K == {i \in DOMAIN list : list[i] # e}
<1>1. Keep(list, K) \in Seq(S)
  BY KeepType
<1> HIDE DEF K
<1>2. Append(list, e) \in Seq(S)
  OBVIOUS
<1> QED
  BY <1>1, <1>2 DEF ToggleIn, K

LEMMA ToggleLists ==
    ASSUME conf \in Configs, conf' = conf, Lists, NEW e \in conf.keys, ToggleCfg(e)
    PROVE  Lists'
<1> DEFINE A == {d \in Entry : Cfg(d).area \in Area \ Pointee}
           I(a) == {d \in Entry : Cfg(d).area = a}
<1>1. e \in Entry /\ Cfg(e).area \in Area
  BY ConfigType
<1>2. e \in I(Cfg(e).area) /\ (Cfg(e).area \notin Pointee => e \in A)
  BY <1>1
<1>3. cfg_act \in Seq(A) /\ \A a \in Area : area_act[a] \in Seq(I(a))
  BY DEF Lists
<1>4. Entry' = Entry /\ \A d : Cfg(d)' = Cfg(d)
  BY DEF Entry, Cfg
<1>5. cfg_act' \in Seq(A)
  <2> HIDE DEF A
  <2> QED
    BY <1>2, <1>3, ToggleType DEF ToggleCfg
<1>6. \A a \in Area : area_act'[a] \in Seq(I(a))
  <2> HIDE DEF I
  <2>1. ToggleIn(area_act[Cfg(e).area], e) \in Seq(I(Cfg(e).area))
    BY <1>1, <1>2, <1>3, ToggleType
  <2>2. \/ area_act' = area_act
        \/ area_act' = [area_act EXCEPT ![Cfg(e).area] = ToggleIn(area_act[Cfg(e).area], e)]
    BY DEF ToggleCfg
  <2>3. area_act = [a \in Area |-> area_act[a]]
    BY DEF Lists
  <2> QED
    BY <1>3, <2>1, <2>2, <2>3
<1>7. area_act' = [a \in Area |-> area_act'[a]]
  BY DEF Lists, ToggleCfg
<1> QED
  BY <1>4, <1>5, <1>6, <1>7 DEF Lists

LEMMA StartSteps ==
    ASSUME Inv, StartRound \/ StartPass
    PROVE  Inv'
<1>1. PICK n : ValuesInv(n)
  BY DEF Inv
<1>2. CASE StartRound
  <2>1. conf' = conf /\ pos' = pos /\ phase = "idle" /\ conf \in Configs /\ Lists
    BY <1>1, <1>2 DEF StartRound, ValuesInv
  <2>2. pos.i = 0
    BY <1>1, <2>1 DEF ValuesInv, Position
  <2>3. Lists'
    <3>1. \/ UNCHANGED <<cfg_act, area_act>>
          \/ \E e \in conf.keys : ToggleCfg(e)
      BY <1>2 DEF StartRound
    <3> QED
      BY <2>1, <3>1, ListsNext, ToggleLists
  <2>4. CASE UNCHANGED <<w, v_msize, phase>>
    <3>1. Position(n)' /\ Sizes(n)' /\ n \in [Class -> Nat] /\ Remembered(w, n)
      BY <1>1, <2>1, <2>4 DEF ValuesInv, Position, Sizes
    <3>2. PICK x : x = w
      OBVIOUS
    <3> QED
      BY <1>1, <2>1, <2>3, <2>4, <3>1, <3>2, InvNext
  <2>5. CASE FreeDynmem
    BY <1>1, <2>1, <2>2, <2>3, <2>5, FreeNext
  <2> QED
    BY <1>2, <2>4, <2>5 DEF StartRound
<1>3. CASE StartPass
  <2>1. UNCHANGED <<conf, cfg_act, area_act, v_msize>>
    BY <1>3 DEF StartPass
  <2>2. Position(n)'
    BY <1>3, AreaAssumption DEF StartPass, Position
  <2>3. PICK x : x = w'
    OBVIOUS
  <2>4. Apart(NoLog(w), x)
    <3>1. PICK u : u = NoLog(w)
      OBVIOUS
    <3>2. DOMAIN u = Fields
      BY <1>1, <3>1, NoLogRemembered DEF ValuesInv, Remembered, Sized
    <3>3. Apart(u, Invalidate(u, Static))
      BY <3>2, CachesApart
    <3>4. x = [Invalidate(u, Static) EXCEPT !.visited = {}]
      BY <1>3, <2>3, <3>1 DEF StartPass
    <3> QED
      BY <3>1, <3>3, <3>4 DEF Apart, Fields
  <2> QED
    BY <1>1, <2>1, <2>2, <2>3, <2>4, ApartNext
<1> QED
  BY <1>2, <1>3
\* process_act_cfg(): a static entry.
LEMMA StaticStep ==
    ASSUME Inv, VisitStatic
    PROVE  Inv'
<1>1. PICK n : ValuesInv(n)
  BY DEF Inv
<1>2. PICK u : u = NoLog(w)
  OBVIOUS
<1>3. PICK k : k = pos.k
  OBVIOUS
<1>4. PICK e : e = cfg_act[k]
  OBVIOUS
<1>5. /\ conf \in Configs /\ Lists /\ n \in [Class -> Nat]
      /\ Remembered(u, n) /\ k \in Nat \ {0}
  BY <1>1, <1>2, <1>3, NoLogRemembered DEF ValuesInv, Position
<1>6. e \in Entry /\ Cfg(e).area \notin Pointee
  BY <1>3, <1>4, <1>5 DEF VisitStatic, Lists
<1>7. Cfg(e).area \notin Class
  BY <1>3, <1>4 DEF VisitStatic
<1>8. At(u, n, e, 1, 0)
  BY <1>7 DEF At
<1>9. Remembered(VisitEntry(u, e, 1, 0), n)
  BY <1>5, <1>6, <1>8, EntryRemembered DEF Lists
<1>10. PICK x : x = w'
  OBVIOUS
<1>11. x = VisitEntry(u, e, 1, 0)
  BY <1>2, <1>3, <1>4, <1>10 DEF VisitStatic
<1>12. Lists' /\ Sizes(n)'
  BY <1>1, ListsNext DEF VisitStatic, ValuesInv, Sizes
<1>13. Position(n)'
  BY <1>1 DEF VisitStatic, ValuesInv, Position
<1>14. conf' = conf
  BY DEF VisitStatic
<1> QED
  BY <1>1, <1>5, <1>9, <1>10, <1>11, <1>12, <1>13, <1>14, InvNext

\* process_act_cfg(): a class with objects.
LEMMA EnterStep ==
    ASSUME Inv, EnterClass
    PROVE  Inv'
<1>1. PICK n : ValuesInv(n)
  BY DEF Inv
<1>2. PICK u : u = NoLog(w)
  OBVIOUS
<1>3. PICK c : c = Cfg(cfg_act[pos.k]).area
  OBVIOUS
<1>4. c \in Class /\ c \in Area /\ n[c] \in Nat
  BY <1>1, <1>3, AreaAssumption DEF EnterClass, ValuesInv
<1>5. Vec(w.v_maddr[c], n[c]) /\ DOMAIN u = Fields
  BY <1>1, <1>2, <1>4, NoLogRemembered DEF ValuesInv, Remembered, Sized
<1>6. w.v_maddr[c] # <<>> => 1 <= n[c]
  <2>1. CASE n[c] = 0
    BY <1>5, <2>1 DEF Vec
  <2>2. CASE n[c] # 0
    BY <1>4, <2>2
  <2> QED
    BY <2>1, <2>2
<1>7. Position(n)'
  <2>1. /\ pos \in [k : Nat \ {0}, i : Nat, j : Nat \ {0}, old : Area]
        /\ pos.i = 0 /\ phase' = "process"
    BY <1>1 DEF EnterClass, ValuesInv, Position
  <2>2. \/ pos' = [pos EXCEPT !.k = @ + 1, !.old = c]
        \/ pos' = [pos EXCEPT !.old = c, !.i = 1, !.j = 1] /\ 1 <= n[c]
    BY <1>3, <1>6 DEF EnterClass
  <2>3. /\ pos' \in [k : Nat \ {0}, i : Nat, j : Nat \ {0}, old : Area]
        /\ pos'.i > 0 => pos'.old = c /\ pos'.i <= n[c]
    <3>1. pos.k \in Nat \ {0} /\ pos.k + 1 \in Nat \ {0} /\ pos.j \in Nat \ {0} /\ 1 \in Nat \ {0} /\ 1 \in Nat
      BY <2>1
    <3>2. CASE pos' = [pos EXCEPT !.k = @ + 1, !.old = c]
      <4>1. pos' = [k |-> pos.k + 1, i |-> 0, j |-> pos.j, old |-> c]
        BY <2>1, <3>2
      <4> QED
        BY <1>4, <3>1, <4>1
    <3>3. CASE pos' = [pos EXCEPT !.old = c, !.i = 1, !.j = 1] /\ 1 <= n[c]
      BY <1>4, <2>1, <3>1, <3>3
    <3> QED
      BY <2>2, <3>2, <3>3
  <2> QED
    BY <1>4, <2>1, <2>3 DEF Position
<1>8. PICK x : x = w'
  OBVIOUS
<1>9. x = u \/ x = StartObject(u, c)
  BY <1>2, <1>3, <1>8 DEF EnterClass
<1>10. Apart(u, x)
  BY <1>5, <1>9, CachesApart DEF Apart
<1>11. UNCHANGED <<conf, cfg_act, area_act, v_msize>>
  BY DEF EnterClass
<1> QED
  BY <1>1, <1>2, <1>7, <1>8, <1>10, <1>11, ApartNext

\* process_dynmem_cfg_act(): an entry of an object.
LEMMA ObjectStep ==
    ASSUME Inv, VisitObject
    PROVE  Inv'
<1>1. PICK n : ValuesInv(n)
  BY DEF Inv
<1>2. PICK u : u = NoLog(w)
  OBVIOUS
<1>3. PICK i, j, c : i = pos.i /\ j = pos.j /\ c = pos.old
  OBVIOUS
<1>4. PICK e : e = area_act[c][j]
  OBVIOUS
<1>5. PICK a : a = w.v_maddr[c][i]
  OBVIOUS
<1>6. /\ conf \in Configs /\ Lists /\ n \in [Class -> Nat] /\ Remembered(u, n)
      /\ c \in Class /\ c \in Area /\ i \in 1..n[c] /\ j \in Nat \ {0}
      /\ DOMAIN u = Fields /\ u.v_maddr = w.v_maddr
  <2>1. conf \in Configs /\ Lists /\ n \in [Class -> Nat] /\ Remembered(w, n) /\ Remembered(u, n)
    BY <1>1, <1>2, NoLogRemembered DEF ValuesInv
  <2>2. c \in Class /\ i \in 1..n[c] /\ j \in Nat \ {0}
    BY <1>1, <1>3, <2>1 DEF ValuesInv, Position, VisitObject
  <2>3. DOMAIN w = Fields /\ DOMAIN u = Fields
    BY <2>1 DEF Remembered, Sized
  <2>4. u.v_maddr = w.v_maddr
    BY <1>2, <2>3 DEF NoLog, Fields
  <2> QED
    BY <2>1, <2>2, <2>3, <2>4, AreaAssumption
<1>7. e \in Entry /\ Cfg(e).area = c
  <2>1. area_act[c] \in Seq({d \in Entry : Cfg(d).area = c})
    BY <1>6 DEF Lists
  <2>2. j \in 1..Len(area_act[c])
    BY <1>3, <1>6, <2>1 DEF VisitObject
  <2>3. e \in {d \in Entry : Cfg(d).area = c}
    BY <1>4, <2>1, <2>2
  <2> QED
    BY <2>3
<1>8. PICK y : y = [u EXCEPT !.obj_idx[c] = i]
  OBVIOUS
<1>9. Apart(u, y)
  BY <1>6, <1>8 DEF Apart, Fields
<1>10. Remembered(y, n)
  BY <1>6, <1>9, ApartKeeps, StillRemembered DEF Remembered
<1>11. PICK x : x = w'
  OBVIOUS
<1>12. x = u \/ (a # 0 /\ x = VisitEntry(y, e, i, a))
  BY <1>2, <1>3, <1>4, <1>5, <1>8, <1>11 DEF VisitObject
<1>13. Remembered(x, n)
  <2>1. CASE x = u
    BY <1>6, <2>1
  <2>2. CASE a # 0 /\ x = VisitEntry(y, e, i, a)
    <3>1. At(y, n, e, i, a)
      BY <1>5, <1>6, <1>7, <1>9, <2>2 DEF At, Apart
    <3>2. Cfg(e).area \notin Pointee
      BY <1>6, <1>7, AreaAssumption
    <3> QED
      BY <1>6, <1>7, <1>10, <2>2, <3>1, <3>2, EntryRemembered DEF Lists
  <2> QED
    BY <1>12, <2>1, <2>2
<1>14. Lists' /\ Sizes(n)'
  BY <1>1, ListsNext DEF VisitObject, ValuesInv, Sizes
<1>15. Position(n)'
  BY <1>1 DEF VisitObject, ValuesInv, Position
<1>16. conf' = conf
  BY DEF VisitObject
<1> QED
  BY <1>1, <1>6, <1>11, <1>13, <1>14, <1>15, <1>16, InvNext

\* process_dynmem_cfg_act() and process_act_cfg(): the caches are written back.
LEMMA EndSteps ==
    ASSUME Inv, EndObject \/ EndPass
    PROVE  Inv'
<1>1. PICK n : ValuesInv(n)
  BY DEF Inv
<1>2. PICK u : u = NoLog(w)
  OBVIOUS
<1>3. PICK x : x = w'
  OBVIOUS
<1>4. DOMAIN u = Fields /\ DOMAIN w = Fields /\ n \in [Class -> Nat]
  BY <1>1, <1>2, NoLogRemembered DEF ValuesInv, Remembered, Sized
<1>5. CASE EndObject
  <2>1. PICK c : c = pos.old
    OBVIOUS
  <2>2. PICK y : y = WriteCaches(u, c)
    OBVIOUS
  <2>3. c \in Class /\ Vec(w.v_maddr[c], n[c]) /\ n[c] \in Nat
    BY <1>1, <1>5, <2>1 DEF EndObject, ValuesInv, Position, Remembered, Sized
  <2>4. Len(w.v_maddr[c]) = n[c]
    BY <2>3, VecLen
  <2>5. Apart(u, y) /\ DOMAIN y = Fields
    BY <1>4, <2>2, CachesApart DEF Apart
  <2>6. x = y \/ x = StartObject(y, c)
    BY <1>2, <1>3, <1>5, <2>1, <2>2 DEF EndObject
  <2>7. Apart(y, x)
    BY <2>5, <2>6, CachesApart DEF Apart
  <2>8. Apart(u, x)
    BY <2>5, <2>7 DEF Apart
  <2>9. Position(n)'
    <3>1. /\ pos \in [k : Nat \ {0}, i : Nat, j : Nat \ {0}, old : Area]
          /\ pos.i > 0 /\ phase' = "process"
      BY <1>1, <1>5 DEF EndObject, ValuesInv, Position
    <3>2. \/ pos' = [pos EXCEPT !.i = @ + 1, !.j = 1] /\ pos.i < n[c]
          \/ pos' = [pos EXCEPT !.i = 0, !.k = @ + 1]
      BY <1>5, <2>1, <2>4 DEF EndObject
    <3>3. /\ pos' \in [k : Nat \ {0}, i : Nat, j : Nat \ {0}, old : Area]
          /\ pos'.i > 0 => pos'.old = c /\ pos'.i <= n[c]
      <4>1. pos.k + 1 \in Nat \ {0} /\ pos.i + 1 \in Nat /\ pos.j \in Nat \ {0} /\ 1 \in Nat \ {0} /\ 0 \in Nat
        BY <3>1
      <4>2. CASE pos' = [pos EXCEPT !.i = @ + 1, !.j = 1] /\ pos.i < n[c]
        <5>1. pos' = [k |-> pos.k, i |-> pos.i + 1, j |-> 1, old |-> c]
          BY <2>1, <3>1, <4>2
        <5>2. pos.k \in Nat \ {0} /\ pos.i \in Nat /\ c \in Area
          BY <2>1, <3>1
        <5>3. pos' \in [k : Nat \ {0}, i : Nat, j : Nat \ {0}, old : Area]
          BY <4>1, <5>1, <5>2
        <5>4. pos.i + 1 <= n[c]
          BY <2>3, <4>2, <5>2
        <5>5. pos'.old = c /\ pos'.i = pos.i + 1
          BY <5>1
        <5> QED
          BY <5>3, <5>4, <5>5
      <4>3. CASE pos' = [pos EXCEPT !.i = 0, !.k = @ + 1]
        <5>1. pos' = [k |-> pos.k + 1, i |-> 0, j |-> pos.j, old |-> c]
          BY <2>1, <3>1, <4>3
        <5>2. c \in Area
          BY <2>1, <3>1
        <5> QED
          BY <2>3, <4>1, <5>1, <5>2
      <4> QED
        BY <3>2, <4>2, <4>3
    <3> QED
      BY <2>3, <3>1, <3>3 DEF Position
  <2>10. UNCHANGED <<conf, cfg_act, area_act, v_msize>>
    BY <1>5 DEF EndObject
  <2> QED
    BY <1>1, <1>2, <1>3, <2>8, <2>9, <2>10, ApartNext
<1>6. CASE EndPass
  <2>1. x = WriteCaches(u, Static)
    BY <1>2, <1>3, <1>6 DEF EndPass
  <2>2. Apart(u, x)
    BY <1>4, <2>1, CachesApart
  <2>3. Position(n)'
    BY <1>1, <1>6 DEF EndPass, ValuesInv, Position
  <2>4. UNCHANGED <<conf, cfg_act, area_act, v_msize>>
    BY <1>6 DEF EndPass
  <2> QED
    BY <1>1, <1>2, <1>3, <2>2, <2>3, <2>4, ApartNext
<1> QED
  BY <1>5, <1>6

\* The rest of the round.
LEMMA OutputStep ==
    ASSUME Inv, Output
    PROVE  Inv'
<1>1. PICK n : ValuesInv(n)
  BY DEF Inv
<1>2. FreeDynmem /\ UNCHANGED <<conf, pos, cfg_act, area_act>> /\ phase # "process"
  BY DEF Output
<1>3. pos.i = 0
  BY <1>1, <1>2 DEF ValuesInv, Position
<1>4. Lists'
  BY <1>1, <1>2, ListsNext DEF ValuesInv
<1> QED
  BY <1>1, <1>2, <1>3, <1>4, FreeNext

LEMMA MallocsStep ==
    ASSUME Inv, Mallocs
    PROVE  Inv'
<1>1. PICK n : ValuesInv(n)
  BY DEF Inv
<1>2. PICK u : u = NoLog(w)
  OBVIOUS
<1>3. PICK x : x = w'
  OBVIOUS
<1>4. /\ conf \in Configs /\ n \in [Class -> Nat] /\ Remembered(u, n)
      /\ DOMAIN u = Fields /\ u.v_maddr = w.v_maddr
  <2>1. conf \in Configs /\ n \in [Class -> Nat] /\ Remembered(w, n) /\ Remembered(u, n)
    BY <1>1, <1>2, NoLogRemembered DEF ValuesInv
  <2>2. DOMAIN w = Fields /\ DOMAIN u = Fields
    BY <2>1 DEF Remembered, Sized
  <2>3. u.v_maddr = w.v_maddr
    BY <1>2, <2>2 DEF NoLog, Fields
  <2> QED
    BY <2>1, <2>2, <2>3
<1>5. UNCHANGED <<conf, cfg_act, area_act, pos>> /\ phase # "process" /\ Lists'
  <2>1. UNCHANGED <<conf, cfg_act, area_act, pos>> /\ phase # "process"
    BY DEF Mallocs
  <2> QED
    BY <1>1, <2>1, ListsNext DEF ValuesInv
<1>6. CASE w' = u /\ v_msize' = v_msize
  <2>1. Position(n)'
    BY <1>1, <1>5 DEF ValuesInv, Position
  <2>2. Apart(u, x)
    BY <1>3, <1>4, <1>6 DEF Apart
  <2> QED
    BY <1>1, <1>2, <1>3, <1>5, <1>6, <2>1, <2>2, ApartNext
<1>7. ASSUME NEW c \in Class, NEW a \in conf.bases[c], NEW s \in conf.sizes[c],
             ~Contains(w.v_maddr[c], a), w' = Allocate(u, c, a),
             v_msize' = [v_msize EXCEPT ![c] = Append(@, s)]
      PROVE  Inv'
  <2>1. a \in 1..MemSize
    BY <1>4, ConfigType DEF Cell
  <2>2. PICK m : m = [n EXCEPT ![c] = @ + 1]
    OBVIOUS
  <2>3. m \in [Class -> Nat] /\ m[c] = n[c] + 1 /\ \A d \in Class : n[d] \in Nat /\ (d # c => m[d] = n[d])
    BY <1>4, <2>2
  <2>4. Remembered(x, m)
    BY <1>3, <1>4, <1>7, <2>1, <2>2, AllocateRemembered
  <2>5. Sizes(m)'
    <3>1. v_msize = [d \in Class |-> v_msize[d]] /\ \A d \in Class : Vec(v_msize[d], n[d])
      BY <1>1 DEF ValuesInv, Sizes
    <3>2. v_msize' = [v_msize EXCEPT ![c] = Added(v_msize[c], s)]
      BY <1>7 DEF Added
    <3>3. Vec(Added(v_msize[c], s), m[c])
      BY <2>3, <3>1, VecAppend
    <3>4. \A d \in Class : Vec(v_msize'[d], m[d])
      BY <2>3, <3>1, <3>2, <3>3
    <3>5. v_msize' = [d \in Class |-> v_msize'[d]]
      BY <3>1, <3>2
    <3> QED
      BY <3>4, <3>5 DEF Sizes
  <2>6. Position(m)'
    BY <1>1, <1>5 DEF ValuesInv, Position
  <2> QED
    BY <1>1, <1>3, <1>5, <2>3, <2>4, <2>5, <2>6, InvNext
<1> QED
  BY <1>2, <1>6, <1>7 DEF Mallocs

\* What the game does.
LEMMA GameSteps ==
    ASSUME Inv, GameFrees \/ GameWrites
    PROVE  Inv'
<1>1. PICK n : ValuesInv(n)
  BY DEF Inv
<1>2. PICK u : u = NoLog(w)
  OBVIOUS
<1>3. PICK x : x = w'
  OBVIOUS
<1>4. n \in [Class -> Nat] /\ Remembered(u, n) /\ Sized(u, n) /\ DOMAIN u = Fields
  BY <1>1, <1>2, NoLogRemembered DEF ValuesInv, Remembered, Sized
<1>5. Position(n)'
  BY <1>1 DEF ValuesInv, Position, GameFrees, GameWrites
<1>6. CASE GameWrites
  <2>1. Apart(u, x)
    BY <1>2, <1>3, <1>4, <1>6 DEF GameWrites, Apart, Fields
  <2>2. UNCHANGED <<conf, cfg_act, area_act, v_msize>>
    BY <1>6 DEF GameWrites
  <2> QED
    BY <1>1, <1>2, <1>3, <1>5, <2>1, <2>2, ApartNext
<1>7. CASE GameFrees
  <2>0. PICK c \in Class : \E i \in LiveObj(w, c) :
           /\ w' = [u EXCEPT !.v_maddr[c][i] = 0]
           /\ v_msize' = [v_msize EXCEPT ![c][i] = 0]
    BY <1>2, <1>7 DEF GameFrees
  <2>1. PICK i \in LiveObj(w, c) :
           /\ w' = [u EXCEPT !.v_maddr[c][i] = 0]
           /\ v_msize' = [v_msize EXCEPT ![c][i] = 0]
    BY <2>0
  <2>2. /\ DOMAIN x = Fields /\ x.v_oldval = u.v_oldval /\ x.v_value = u.v_value
        /\ x.v_state = u.v_state /\ x.v_offs = u.v_offs
        /\ x.lastptr = u.lastptr /\ x.follows = u.follows
        /\ x.v_maddr = [u.v_maddr EXCEPT ![c] = [@ EXCEPT ![i] = 0]]
    BY <1>3, <1>4, <2>1 DEF Fields
  <2>3. \A d \in Class : Vec(u.v_maddr[d], n[d]) /\ u.v_maddr = [d1 \in Class |-> u.v_maddr[d1]]
    BY <1>4 DEF Sized
  <2>4. /\ Vec([u.v_maddr[c] EXCEPT ![i] = 0], n[c])
        /\ \A k \in 1..n[c] : [u.v_maddr[c] EXCEPT ![i] = 0][k] \in {u.v_maddr[c][k], 0}
    <3>1. PICK t : t = u.v_maddr[c]
      OBVIOUS
    <3>2. /\ Vec([t EXCEPT ![i] = 0], n[c])
          /\ \A k \in 1..n[c] : [t EXCEPT ![i] = 0][k] \in {t[k], 0}
      <4>1. PICK z : z = [t EXCEPT ![i] = 0]
        OBVIOUS
      <4>2. Vec(t, n[c])
        BY <2>3, <3>1
      <4>3. /\ Vec(z, n[c])
            /\ \A k \in 1..n[c] : z[k] \in {t[k], 0}
        BY <4>1, <4>2 DEF Vec
      <4> QED
        BY <4>1, <4>3
    <3> QED
      BY <3>1, <3>2
  <2>5. /\ \A d \in Class : Vec(x.v_maddr[d], n[d]) /\ DOMAIN u.v_maddr[d] = 1..n[d]
        /\ x.v_maddr = [d \in Class |-> x.v_maddr[d]]
        /\ \A d \in Class : \A k \in 1..n[d] : x.v_maddr[d][k] \in {u.v_maddr[d][k], 0}
    <3>1. x.v_maddr[c] = [u.v_maddr[c] EXCEPT ![i] = 0] /\ \A d \in Class : d # c => x.v_maddr[d] = u.v_maddr[d]
      BY <2>2, <2>3
    <3>2. \A d \in Class : DOMAIN u.v_maddr[d] = 1..n[d]
      BY <2>3 DEF Vec
    <3>3. x.v_maddr = [d \in Class |-> x.v_maddr[d]]
      BY <2>2, <2>3
    <3> QED
      BY <2>3, <2>4, <3>1, <3>2, <3>3
  <2>6. Sized(x, n) /\ Still(u, x)
    BY <1>4, <2>2, <2>5 DEF Sized, Still
  <2>7. Remembered(x, n)
    BY <1>4, <2>6, StillRemembered
  <2>8. Sizes(n)'
    <3>1. v_msize = [d \in Class |-> v_msize[d]] /\ \A d \in Class : Vec(v_msize[d], n[d])
      BY <1>1 DEF ValuesInv, Sizes
    <3>2. Vec([v_msize[c] EXCEPT ![i] = 0], n[c])
      BY <3>1, VecSet
    <3>3. v_msize'[c] = [v_msize[c] EXCEPT ![i] = 0] /\ \A d \in Class : d # c => v_msize'[d] = v_msize[d]
      BY <2>1, <3>1
    <3>4. v_msize' = [d \in Class |-> v_msize'[d]]
      BY <2>1, <3>1
    <3> QED
      BY <3>1, <3>2, <3>3, <3>4 DEF Sizes
  <2>9. conf' = conf /\ Lists'
    BY <1>1, <1>7, ListsNext DEF GameFrees, ValuesInv
  <2> QED
    BY <1>1, <1>3, <1>4, <1>5, <2>7, <2>8, <2>9, InvNext
<1> QED
  BY <1>6, <1>7

LEMMA StutterInv ==
    ASSUME Inv, UNCHANGED vars
    PROVE  Inv'
<1>1. PICK n : ValuesInv(n)
  BY DEF Inv
<1>2. Position(n)'
  BY <1>1 DEF vars, ValuesInv, Position
<1>3. UNCHANGED <<conf, cfg_act, area_act, v_msize>>
  BY DEF vars
<1>4. PICK x : x = w'
  OBVIOUS
<1>5. Apart(w, x)
  BY <1>1, <1>4 DEF vars, Apart, ValuesInv, Remembered, Sized
<1> QED
  BY <1>1, <1>2, <1>3, <1>4, <1>5, ApartNext
-----------------------------------------------------------------------------
(***************************************************************************)
(* The theorems.                                                           *)
(***************************************************************************)
LEMMA InvAlways == Spec => []Inv
<1>1. Inv /\ [Next]_vars => Inv'
  <2> SUFFICES ASSUME Inv, [Next]_vars PROVE Inv'
    OBVIOUS
  <2> QED
    BY ConfigSteps, StartSteps, StaticStep, EnterStep, ObjectStep, EndSteps,
       OutputStep, MallocsStep, GameSteps, StutterInv DEF Next
<1> QED
  BY Initially, <1>1, PTL DEF Spec

(* free_dynmem(), free_ptrmem() and alloc_ptrmem() keep all vectors of a   *)
(* class in step, whatever the config, and the vectors of static entries   *)
(* at their one element.                                                   *)
THEOREM VectorsAlignedAlways == Spec => []VectorsAligned
<1>1. ASSUME Inv PROVE VectorsAligned
  <2>1. PICK n : ValuesInv(n)
    BY <1>1 DEF Inv
  <2>2. n \in [Class -> Nat] /\ Sizes(n) /\ Sized(w, n)
    BY <2>1 DEF ValuesInv, Remembered
  <2>3. ASSUME NEW c \in Class PROVE Len(v_msize[c]) = n[c] /\ Len(w.v_maddr[c]) = n[c]
    <3>1. n[c] \in Nat /\ Vec(v_msize[c], n[c]) /\ Vec(w.v_maddr[c], n[c])
      BY <2>2 DEF Sizes, Sized
    <3> QED
      BY <3>1, VecLen
  <2>4. ASSUME NEW a
        PROVE  /\ Count(n, a) \in Nat /\ CountPtr(n, a) \in Nat
               /\ Count(n, a) = IF AreaClass(a) \in Class THEN Copies(a) * Objects(a) ELSE 1
               /\ CountPtr(n, a) = Copies(a) * Objects(a)
    <3>1. Copies(a) \in Nat
      BY <2>1, CopiesType DEF ValuesInv
    <3>2. CASE AreaClass(a) \in Class
      <4>1. Objects(a) = n[AreaClass(a)] /\ n[AreaClass(a)] \in Nat
        BY <2>2, <2>3, <3>2 DEF Objects
      <4>2. Copies(a) * n[AreaClass(a)] \in Nat
        BY <3>1, <4>1
      <4> QED
        BY <3>2, <4>1, <4>2 DEF Count, CountPtr
    <3>3. CASE AreaClass(a) \notin Class
      <4>1. Objects(a) = 1 /\ Copies(a) * 1 = Copies(a)
        BY <3>1, <3>3 DEF Objects
      <4> QED
        BY <3>1, <3>3, <4>1 DEF Count, CountPtr
    <3> QED
      BY <3>2, <3>3
  <2>5. ASSUME NEW e \in Entry
        PROVE  Len(w.v_oldval[e]) = Count(n, Cfg(e).area) /\ Len(w.v_value[e]) = Count(n, Cfg(e).area)
    <3>1. Vec(w.v_oldval[e], Count(n, Cfg(e).area)) /\ Vec(w.v_value[e], Count(n, Cfg(e).area))
      BY <2>2 DEF Sized
    <3> QED
      BY <2>4, <3>1, VecLen
  <2>6. ASSUME NEW p \in Pointee
        PROVE  Len(w.v_state[p]) = CountPtr(n, p) /\ Len(w.v_offs[p]) = CountPtr(n, p)
    <3>1. Vec(w.v_state[p], CountPtr(n, p)) /\ Vec(w.v_offs[p], CountPtr(n, p))
      BY <2>2 DEF Sized
    <3> QED
      BY <2>4, <3>1, VecLen
  <2> QED
    BY <2>3, <2>4, <2>5, <2>6 DEF VectorsAligned
<1> QED
  BY <1>1, InvAlways, PTL

(* process_ptrmem() follows a pointer only with the value it had in this   *)
(* very object the last time it was read.                                  *)
THEOREM FollowSeenAlways == Spec => []FollowSeen
<1>1. ASSUME Inv PROVE FollowSeen
  BY <1>1 DEF Inv, ValuesInv, Remembered, Same, FollowSeen
<1> QED
  BY <1>1, InvAlways, PTL

(* What the value processing does with the caches, it does with the layout *)
(* that build_caches() has left: the lemmas about the layout hold for it.  *)
THEOREM LayoutImplemented == Spec => LayoutSpec
<1>1. Init => LayoutInit
  BY DEF Init
<1>2. [Next]_vars => [LayoutNext]_layoutVars
  BY DEF Next, vars, ReadConfig, StartTrainer, StartRound, StartPass, VisitStatic, EnterClass,
         VisitObject, EndObject, EndPass, Output, Mallocs, GameFrees, GameWrites
<1> QED
  BY <1>1, <1>2, PTL DEF Spec, LayoutSpec

(* So WRITE_CACHES and FILL_CACHE_AND_BUF find every value inside of one   *)
(* cache, and write the caches back in an order that loses nothing.        *)
THEOREM CachesAlways == Spec => [](InsideCache /\ LaterCachesBehind)
  BY LayoutImplemented, InsideCacheAlways, LaterCachesBehindAlways, PTL
=============================================================================
