---------------------------- MODULE MemhackProofs ----------------------------
(***************************************************************************)
(* The two parts of libmemhack that have a protocol of their own.          *)
(*                                                                         *)
(* The table of memory addresses, for every set of addresses and threads:  *)
(* its slots implement the set of module AddrSet although preprocess_free  *)
(* writes insert_idx under the read lock only.                             *)
(*                                                                         *)
(* The start of a game with libmemhack and every later dlopen(), for every *)
(* config, every number of libraries and every choice of the loader.  For  *)
(* any number of threads, and with every wait timing out: types.  For one  *)
(* thread in the hook of dlopen() that has got its answers: both sides     *)
(* have the same code addresses, the right ones, and the trainer knows the *)
(* code address of every object that is reported to it.                    *)
(***************************************************************************)
EXTENDS AddrTable, Startup, VecOpsProofs

-----------------------------------------------------------------------------
(***************************************************************************)
(* The table of memory addresses.                                          *)
(***************************************************************************)
\* The shape of the table: a terminator, no invalid slot in front of a slot
\* that is in use or was, and no address twice.
Shape ==
    HasTable =>
        /\ max_obj > 0
        /\ mem_addrs[max_obj] = Inval
        /\ \A j, k \in 0..max_obj :
              j < k /\ mem_addrs[k] # Inval => mem_addrs[j] # Inval
        /\ \A j, k \in Used : mem_addrs[j] = mem_addrs[k] => j = k

\* A thread in preprocess_free() holds an index of the iterated part.
FreersValid ==
    \A t \in Callers :
        freeing[t].at # "no" =>
            /\ HasTable
            /\ freeing[t].idx < max_obj
            /\ mem_addrs[freeing[t].idx] # Inval

IInv == TypeOK /\ Shape /\ InsertIdxValid /\ FreersValid

-----------------------------------------------------------------------------
\* The history variable stays a number.
LEMMA PeakNat ==
    ASSUME TypeOK, NEW J, J \subseteq 0..GrownMax, max_obj \in Nat
    PROVE  Cardinality(Used \cup J) \in Nat
<1>1. GrownMax \in Nat /\ max_obj <= GrownMax
  BY DEF GrownMax
<1>2. Used \cup J \in SUBSET (0..GrownMax)
  <2>1. Used \subseteq 0..max_obj
    BY DEF Used
  <2>2. 0..max_obj \subseteq 0..GrownMax
    BY <1>1
  <2> QED
    BY <2>1, <2>2
<1>3. IsFiniteSet(0..GrownMax)
  BY <1>1, FS_Interval
<1> QED
  BY <1>2, <1>3, FS_Subset, FS_CardinalityType

\* A table with slots is not the empty one.
LEMMA SlotsAreTable ==
    ASSUME NEW n \in Nat, NEW f \in [0..n -> Slot]
    PROVE  f # NoTable
<1>1. 0 \in DOMAIN f
  OBVIOUS
<1>2. DOMAIN NoTable = {}
  BY DEF NoTable
<1> QED
  BY <1>1, <1>2

LEMMA HasTableType ==
    ASSUME TypeOK
    PROVE  HasTable <=> mem_addrs \in [0..max_obj -> Slot]
BY SlotsAreTable DEF TypeOK, HasTable

LEMMA InitIInv == TableInit => IInv
<1> SUFFICES ASSUME TableInit PROVE IInv
  OBVIOUS
<1>1. TypeOK
  BY DEF TableInit, TypeOK, Slot, NotFreeing
<1>2. mem_addrs \in [0..max_obj -> Slot] /\ HasTable
  BY <1>1, HasTableType DEF TableInit, Slot
<1>3. Shape
  BY <1>2, SlotAssumption DEF TableInit, Shape, Used
<1>4. InsertIdxValid
  BY <1>2 DEF TableInit, InsertIdxValid
<1>5. FreersValid
  BY DEF TableInit, FreersValid, NotFreeing
<1> QED
  BY <1>1, <1>3, <1>4, <1>5 DEF IInv

-----------------------------------------------------------------------------
\* store_mem_addr(): there is an empty slot behind insert_idx, the first one
\* is taken, and everything in front of it stays in use.
LEMMA StoreSlot ==
    ASSUME IInv, NEW a \in Addr \cup {Zero}, StoreMemAddr(a)
    PROVE  /\ HasTable
           /\ GrownMax \in Nat /\ max_obj <= GrownMax /\ max_obj > 0 /\ max_obj \in Nat
           /\ Grown \in [0..GrownMax -> Slot]
           /\ Grown[GrownMax] = Inval
           /\ Grown[GrownMax - 1] = Inval
           /\ \E j \in Candidates :
                 /\ \A k \in Candidates : j <= k
                 /\ mem_addrs' = [Grown EXCEPT ![j] = a]
                 /\ insert_idx' = j
                 /\ peak' \in Nat
                 /\ \A k \in 0..(j - 1) : Grown[k] # Inval
                 /\ j \in 0..(GrownMax - 1)
<1>1. HasTable
  BY DEF StoreMemAddr
<1>2. mem_addrs \in [0..max_obj -> Slot] /\ max_obj \in Nat /\ max_obj > 0 /\ insert_idx \in Nat
  BY <1>1, HasTableType DEF IInv, TypeOK, Shape
<1>3. GrownMax \in Nat /\ max_obj <= GrownMax
  BY <1>2 DEF GrownMax
<1>4. Grown \in [0..GrownMax -> Slot]
  BY <1>2, <1>3 DEF Grown, Slot
<1>5. \A j \in 0..GrownMax : j <= max_obj => Grown[j] = mem_addrs[j]
  BY <1>2, <1>3 DEF Grown
<1>6. \A j \in 0..GrownMax : j > max_obj => Grown[j] = Inval
  BY <1>2, <1>3 DEF Grown
<1>7. mem_addrs[max_obj] = Inval
  BY <1>1 DEF IInv, Shape
<1>8. Grown[GrownMax] = Inval
  BY <1>2, <1>3, <1>5, <1>6, <1>7
<1>9. Grown[GrownMax - 1] = Inval
  <2>1. CASE Full
    <3>1. GrownMax = 2 * max_obj
      BY <2>1 DEF GrownMax
    <3>2. CASE max_obj = 1
      BY <3>1, <3>2, <1>5, <1>7
    <3>3. CASE max_obj # 1
      <4>1. GrownMax - 1 \in 0..GrownMax /\ GrownMax - 1 > max_obj
        BY <3>1, <3>3, <1>2
      <4> QED
        BY <4>1, <1>6
    <3> QED
      BY <3>2, <3>3
  <2>2. CASE ~Full
    <3>1. GrownMax = max_obj
      BY <2>2 DEF GrownMax
    <3>2. GrownMax - 1 \in 0..GrownMax /\ GrownMax - 1 <= max_obj
      BY <3>1, <1>2
    <3> QED
      BY <2>2, <3>1, <3>2, <1>5 DEF Full
  <2> QED
    BY <2>1, <2>2
<1>10. insert_idx < max_obj /\ \A k \in 0..(insert_idx - 1) : mem_addrs[k] # Inval
  BY <1>1 DEF IInv, InsertIdxValid
<1>11. GrownMax - 1 \in Candidates
  BY <1>2, <1>3, <1>9, <1>10 DEF Candidates
<1>12. Candidates # {}
  BY <1>11
<1>13. PICK j \in Candidates :
          /\ \A k \in Candidates : j <= k
          /\ mem_addrs' = [Grown EXCEPT ![j] = a]
          /\ insert_idx' = j
          /\ peak' = LET n == Cardinality(Used \cup (IF a = Zero THEN {} ELSE {j}))
                     IN  IF n > peak THEN n ELSE peak
  BY <1>12 DEF StoreMemAddr
<1>14. j \in insert_idx..(GrownMax - 1) /\ j \in 0..(GrownMax - 1)
  BY <1>2, <1>3 DEF Candidates
<1>15. peak' \in Nat
  <2>1. (IF a = Zero THEN {} ELSE {j}) \subseteq 0..GrownMax
    BY <1>14, <1>3
  <2>2. Cardinality(Used \cup (IF a = Zero THEN {} ELSE {j})) \in Nat
    BY <2>1, <1>2, PeakNat DEF IInv
  <2>3. peak \in Nat
    BY DEF IInv, TypeOK
  <2> QED
    BY <2>2, <2>3, <1>13
<1>16. ASSUME NEW k \in 0..(j - 1) PROVE Grown[k] # Inval
  <2>1. k \in 0..GrownMax /\ k \in Nat
    BY <1>14, <1>3
  <2>2. CASE k < insert_idx
    BY <2>1, <2>2, <1>2, <1>5, <1>10
  <2>3. CASE k >= insert_idx
    <3>1. k \in insert_idx..(GrownMax - 1)
      BY <2>1, <2>3, <1>14, <1>2, <1>3
    <3>2. k \notin Candidates
      BY <1>13, <1>14, <2>1
    <3> QED
      BY <3>1, <3>2 DEF Candidates
  <2> QED
    BY <2>1, <2>2, <2>3, <1>2
<1> QED
  BY <1>1, <1>2, <1>3, <1>4, <1>8, <1>9, <1>13, <1>14, <1>15, <1>16

\* Every step keeps the shape.
LEMMA StoreIInv ==
    ASSUME IInv, NEW a \in (Addr \ Stored) \cup {Zero}, StoreMemAddr(a)
    PROVE  IInv'
<1> DEFINE S == 0..GrownMax
<1>0. a \in Addr \cup {Zero} /\ a # Inval /\ a \in Slot
  BY SlotAssumption DEF Slot
<1>1. /\ HasTable
      /\ GrownMax \in Nat /\ max_obj <= GrownMax /\ max_obj > 0 /\ max_obj \in Nat
      /\ Grown \in [0..GrownMax -> Slot]
      /\ Grown[GrownMax] = Inval
      /\ Grown[GrownMax - 1] = Inval
  BY <1>0, StoreSlot
<1>2. PICK j \in Candidates :
                 /\ \A k \in Candidates : j <= k
                 /\ mem_addrs' = [Grown EXCEPT ![j] = a]
                 /\ insert_idx' = j
                 /\ peak' \in Nat
                 /\ \A k \in 0..(j - 1) : Grown[k] # Inval
                 /\ j \in 0..(GrownMax - 1)
  BY <1>0, StoreSlot
<1>3. max_obj' = GrownMax /\ freeing' = freeing /\ \A t \in Callers : freeing[t].at = "no"
  BY DEF StoreMemAddr, WrLock
<1>4. mem_addrs \in [0..max_obj -> Slot]
  BY <1>1, HasTableType DEF IInv
<1>5. \A i \in S : i <= max_obj => Grown[i] = mem_addrs[i]
  BY <1>1, <1>4 DEF Grown
<1>6. \A i \in S : i > max_obj => Grown[i] = Inval
  BY <1>1, <1>4 DEF Grown
<1>7. mem_addrs' \in [S -> Slot] /\ j \in S /\ j \in Nat
  BY <1>0, <1>1, <1>2
<1>8. mem_addrs'[j] = a /\ \A i \in S : i # j => mem_addrs'[i] = Grown[i]
  BY <1>1, <1>2, <1>7
<1>9. TypeOK'
  BY <1>1, <1>2, <1>3, <1>7 DEF IInv, TypeOK, Slot
<1>10. HasTable'
  BY <1>1, <1>3, <1>7, SlotsAreTable DEF HasTable
<1>11. Shape'
  <2>1. max_obj' > 0 /\ mem_addrs'[max_obj'] = Inval
    BY <1>1, <1>2, <1>3, <1>8
  <2>2. ASSUME NEW i \in S, NEW k \in S, i < k, mem_addrs'[k] # Inval
        PROVE  mem_addrs'[i] # Inval
    <3>0. i \in Nat /\ k \in Nat
      BY <1>1
    <3>1. CASE i = j
      BY <3>1, <1>8, <1>0
    <3>2. CASE i < j
      BY <3>0, <3>2, <1>2, <1>7, <1>8
    <3>3. CASE i > j
      <4>1. Grown[k] # Inval /\ k # j
        BY <2>2, <3>0, <3>3, <1>7, <1>8
      <4>2. k <= max_obj
        BY <4>1, <1>6, <1>1, <3>0
      <4>3. i <= max_obj /\ i \in 0..max_obj /\ k \in 0..max_obj
        BY <4>2, <2>2, <3>0, <1>1
      <4>4. mem_addrs[k] # Inval
        BY <4>1, <4>2, <1>5
      <4>5. mem_addrs[i] # Inval
        BY <4>3, <4>4, <2>2, <1>1 DEF IInv, Shape
      <4>6. mem_addrs'[i] = mem_addrs[i]
        BY <4>3, <1>5, <1>8, <3>3, <3>0, <1>7
      <4> QED
        BY <4>5, <4>6
    <3> QED
      BY <3>0, <3>1, <3>2, <3>3, <1>7
  <2>3. \A i \in S : i # j /\ mem_addrs'[i] \in Addr => i \in Used /\ mem_addrs'[i] = mem_addrs[i]
    <3> SUFFICES ASSUME NEW i \in S, i # j, mem_addrs'[i] \in Addr
                 PROVE  i \in Used /\ mem_addrs'[i] = mem_addrs[i]
      OBVIOUS
    <3>1. Grown[i] \in Addr /\ mem_addrs'[i] = Grown[i]
      BY <1>8
    <3>2. i <= max_obj
      BY <3>1, <1>6, <1>1, SlotAssumption
    <3>3. mem_addrs[i] = Grown[i] /\ i \in 0..max_obj
      BY <3>2, <1>5, <1>1
    <3> QED
      BY <3>1, <3>3, <1>1 DEF Used
  <2>4. Used' = {i \in S : mem_addrs'[i] \in Addr}
    BY <1>10, <1>3 DEF Used
  <2>5. ASSUME NEW i \in Used', NEW k \in Used', mem_addrs'[i] = mem_addrs'[k]
        PROVE  i = k
    <3>1. i \in S /\ k \in S /\ mem_addrs'[i] \in Addr /\ mem_addrs'[k] \in Addr
      BY <2>4
    <3>2. CASE i # j /\ k # j
      BY <3>1, <3>2, <2>3, <2>5, <1>1 DEF IInv, Shape
    <3>3. CASE i = j /\ k # j
      BY <3>1, <3>3, <2>3, <2>5, <1>8, SlotAssumption DEF Stored
    <3>4. CASE i # j /\ k = j
      BY <3>1, <3>4, <2>3, <2>5, <1>8, SlotAssumption DEF Stored
    <3> QED
      BY <3>2, <3>3, <3>4
  <2> QED
    BY <2>1, <2>2, <2>5, <1>3 DEF Shape
<1>12. InsertIdxValid'
  BY <1>1, <1>2, <1>3, <1>7, <1>8 DEF InsertIdxValid
<1>13. FreersValid'
  BY <1>3 DEF FreersValid
<1> QED
  BY <1>9, <1>11, <1>12, <1>13 DEF IInv

\* preprocess_free() empties a slot in front of the first invalid one.
LEMMA FreeSlot ==
    ASSUME IInv, NEW t \in Callers, NEW a \in Addr, FreeFound(t, a)
    PROVE  /\ HasTable /\ HasTable'
           /\ max_obj \in Nat /\ max_obj > 0
           /\ mem_addrs \in [0..max_obj -> Slot]
           /\ mem_addrs' \in [0..max_obj -> Slot]
           /\ \E j \in 0..(max_obj - 1) :
                 /\ mem_addrs[j] = a
                 /\ mem_addrs' = [mem_addrs EXCEPT ![j] = Zero]
                 /\ freeing' = [freeing EXCEPT ![t] = [at |-> "compare", addr |-> a, idx |-> j]]
<1>1. HasTable
  BY DEF FreeFound
<1>2. mem_addrs \in [0..max_obj -> Slot] /\ max_obj \in Nat /\ max_obj > 0
  BY <1>1, HasTableType DEF IInv, TypeOK, Shape
<1>3. PICK j \in Scanned :
          /\ mem_addrs[j] = a
          /\ mem_addrs' = [mem_addrs EXCEPT ![j] = Zero]
          /\ freeing' = [freeing EXCEPT ![t] = [at |-> "compare", addr |-> a, idx |-> j]]
  BY DEF FreeFound
<1>4. j \in 0..max_obj /\ mem_addrs[max_obj] = Inval
  BY <1>1 DEF Scanned, IInv, Shape
<1>5. j # max_obj
  BY <1>3, <1>4, SlotAssumption
<1>6. j \in 0..(max_obj - 1)
  BY <1>2, <1>4, <1>5
<1>7. mem_addrs' \in [0..max_obj -> Slot]
  BY <1>2, <1>3, <1>4 DEF Slot
<1>8. HasTable'
  BY <1>2, <1>7, SlotsAreTable DEF HasTable
<1> QED
  BY <1>1, <1>2, <1>3, <1>6, <1>7, <1>8

LEMMA FreeFoundIInv ==
    ASSUME IInv, NEW t \in Callers, NEW a \in Addr, FreeFound(t, a)
    PROVE  IInv'
<1>1. /\ HasTable /\ HasTable'
      /\ max_obj \in Nat /\ max_obj > 0
      /\ mem_addrs \in [0..max_obj -> Slot]
      /\ mem_addrs' \in [0..max_obj -> Slot]
  BY FreeSlot
<1>2. PICK j \in 0..(max_obj - 1) :
          /\ mem_addrs[j] = a
          /\ mem_addrs' = [mem_addrs EXCEPT ![j] = Zero]
          /\ freeing' = [freeing EXCEPT ![t] = [at |-> "compare", addr |-> a, idx |-> j]]
  BY FreeSlot
<1>3. UNCHANGED <<max_obj, insert_idx, peak>>
  BY DEF FreeFound
<1>4. j \in Nat /\ j < max_obj /\ j \in 0..max_obj
  BY <1>1
<1>5. \A i \in 0..max_obj : mem_addrs'[i] = IF i = j THEN Zero ELSE mem_addrs[i]
  BY <1>1, <1>2, <1>4
<1>6. \A i \in 0..max_obj : mem_addrs'[i] = Inval <=> mem_addrs[i] = Inval
  BY <1>2, <1>5, SlotAssumption
<1>7. TypeOK'
  BY <1>1, <1>2, <1>3, <1>4 DEF IInv, TypeOK
<1>8. Shape'
  <2>1. mem_addrs'[max_obj'] = Inval /\ max_obj' > 0
    BY <1>1, <1>3, <1>6 DEF IInv, Shape
  <2>2. \A i, k \in 0..max_obj' :
            i < k /\ mem_addrs'[k] # Inval => mem_addrs'[i] # Inval
    BY <1>1, <1>3, <1>6 DEF IInv, Shape
  <2>3. Used' \subseteq Used /\ \A i \in Used' : mem_addrs'[i] = mem_addrs[i]
    BY <1>1, <1>3, <1>5, SlotAssumption DEF Used
  <2>4. \A i, k \in Used' : mem_addrs'[i] = mem_addrs'[k] => i = k
    BY <1>1, <2>3 DEF IInv, Shape
  <2> QED
    BY <2>1, <2>2, <2>4 DEF Shape
<1>9. InsertIdxValid'
  <2>1. insert_idx < max_obj /\ \A i \in 0..(insert_idx - 1) : mem_addrs[i] # Inval
    BY <1>1 DEF IInv, InsertIdxValid
  <2>2. insert_idx \in Nat
    BY DEF IInv, TypeOK
  <2>3. \A i \in 0..(insert_idx - 1) : i \in 0..max_obj
    BY <2>1, <2>2, <1>1
  <2> QED
    BY <2>1, <2>3, <1>3, <1>6 DEF InsertIdxValid
<1>10. FreersValid'
  <2> SUFFICES ASSUME NEW u \in Callers, freeing'[u].at # "no"
               PROVE  freeing'[u].idx < max_obj /\ mem_addrs'[freeing'[u].idx] # Inval
    BY <1>1, <1>3 DEF FreersValid
  <2>1. CASE u = t
    <3>1. freeing'[u].idx = j
      BY <2>1, <1>2 DEF IInv, TypeOK
    <3> QED
      BY <3>1, <1>2, <1>4, <1>6, SlotAssumption
  <2>2. CASE u # t
    <3>1. freeing'[u] = freeing[u]
      BY <2>2, <1>2 DEF IInv, TypeOK
    <3>2. freeing[u].idx < max_obj /\ mem_addrs[freeing[u].idx] # Inval
      BY <3>1 DEF IInv, FreersValid
    <3>3. freeing[u].idx \in 0..max_obj
      BY <3>2, <1>1 DEF IInv, TypeOK
    <3> QED
      BY <3>1, <3>2, <3>3, <1>6
  <2> QED
    BY <2>1, <2>2
<1> QED
  BY <1>7, <1>8, <1>9, <1>10 DEF IInv

\* The race: the index that is stored may be anything another thread held, yet
\* never one behind the first invalid slot.
LEMMA FreeSetIInv ==
    ASSUME IInv, NEW t \in Callers, FreeCompare(t) \/ FreeSet(t)
    PROVE  IInv'
<1>1. UNCHANGED <<mem_addrs, max_obj, peak>> /\ freeing[t].at # "no"
  BY DEF FreeCompare, FreeSet
<1>2. HasTable' = HasTable /\ Used' = Used
  BY <1>1 DEF HasTable, Used, NoTable
<1>3. /\ freeing[t].idx \in Nat /\ freeing[t].idx < max_obj /\ HasTable
      /\ mem_addrs[freeing[t].idx] # Inval
  BY <1>1 DEF IInv, FreersValid, TypeOK
<1>4. freeing' \in [Callers -> [at : {"no", "compare", "set"}, addr : Addr \cup {Zero}, idx : Nat]]
  BY DEF FreeCompare, FreeSet, NotFreeing, IInv, TypeOK
<1>5. insert_idx' \in {insert_idx, freeing[t].idx}
  BY DEF FreeCompare, FreeSet
<1>6. TypeOK'
  BY <1>1, <1>3, <1>4, <1>5 DEF IInv, TypeOK
<1>7. Shape'
  BY <1>1, <1>2 DEF IInv, Shape
<1>8. InsertIdxValid'
  <2>1. CASE insert_idx' = insert_idx
    BY <2>1, <1>1, <1>2 DEF IInv, InsertIdxValid
  <2>2. CASE insert_idx' = freeing[t].idx
    <3>1. \A k \in 0..(freeing[t].idx - 1) : mem_addrs[k] # Inval
      BY <1>3 DEF IInv, TypeOK, Shape
    <3> QED
      BY <2>2, <3>1, <1>1, <1>3 DEF InsertIdxValid
  <2> QED
    BY <1>5, <2>1, <2>2
<1>9. FreersValid'
  <2>1. \A u \in Callers : freeing'[u].at # "no" =>
            freeing[u].at # "no" /\ freeing'[u].idx = freeing[u].idx
    BY <1>1 DEF FreeCompare, FreeSet, NotFreeing, IInv, TypeOK
  <2> QED
    BY <2>1, <1>1, <1>2 DEF FreersValid, IInv
<1> QED
  BY <1>6, <1>7, <1>8, <1>9 DEF IInv

\* Without a table there is nothing left to keep.
LEMMA NoTableIInv ==
    ASSUME IInv, StoreLosesTable \/ StoreNoTable
    PROVE  IInv'
<1>1. /\ mem_addrs' = NoTable /\ max_obj' = 0 /\ UNCHANGED <<insert_idx, freeing, peak>>
      /\ \A t \in Callers : freeing[t].at = "no"
  BY DEF StoreLosesTable, StoreNoTable, WrLock, HasTable
<1>2. ~HasTable'
  BY <1>1 DEF HasTable, NoTable
<1> QED
  BY <1>1, <1>2 DEF IInv, TypeOK, Shape, InsertIdxValid, FreersValid

LEMMA NextIInv ==
    ASSUME IInv, [TableNext]_tableVars
    PROVE  IInv'
<1>1. ASSUME NEW a \in Addr \ Stored, StoreMemAddr(a)
      PROVE  IInv'
  BY <1>1, StoreIInv
<1>2. CASE StoreMemAddr(Zero)
  BY <1>2, StoreIInv
<1>3. CASE StoreLosesTable \/ StoreNoTable
  BY <1>3, NoTableIInv
<1>4. ASSUME NEW t \in Callers, NEW a \in Addr, FreeFound(t, a)
      PROVE  IInv'
  BY <1>4, FreeFoundIInv
<1>5. ASSUME NEW t \in Callers, FreeCompare(t) \/ FreeSet(t)
      PROVE  IInv'
  BY <1>5, FreeSetIInv
<1>6. CASE UNCHANGED tableVars
  BY <1>6 DEF tableVars, IInv, TypeOK, Shape, InsertIdxValid, FreersValid, HasTable, NoTable, Used
<1> QED
  BY <1>1, <1>2, <1>3, <1>4, <1>5, <1>6 DEF TableNext

\* The table keeps its types, whatever the threads of the game do.
THEOREM AddrTableTypeOK == TableSpec => []TypeOK
<1>1. IInv => TypeOK
  BY DEF IInv
<1> QED
  BY <1>1, InitIInv, NextIInv, PTL DEF TableSpec

\* store_mem_addr() starts its search in front of the first invalid slot,
\* although preprocess_free() writes insert_idx under the read lock.
THEOREM InsertIdxSafe == TableSpec => []InsertIdxValid
<1>1. IInv => InsertIdxValid
  BY DEF IInv
<1> QED
  BY <1>1, InitIInv, NextIInv, PTL DEF TableSpec

\* No stored address is behind the first invalid slot.
LEMMA IInvFindable ==
    ASSUME IInv
    PROVE  Findable
<1> SUFFICES ASSUME HasTable
             PROVE  mem_addrs[max_obj] = Inval /\ Used \subseteq Scanned
  BY DEF Findable
<1>1. mem_addrs[max_obj] = Inval /\ max_obj \in Nat
  BY DEF IInv, Shape, TypeOK
<1>2. ASSUME NEW j \in Used PROVE j \in Scanned
  <2>1. j \in 0..max_obj /\ mem_addrs[j] \in Addr
    BY DEF Used
  <2>2. ASSUME NEW k \in 0..j PROVE mem_addrs[k] # Inval
    <3>1. k \in 0..max_obj /\ (k < j \/ k = j)
      BY <2>1, <1>1
    <3>2. mem_addrs[j] # Inval
      BY <2>1, SlotAssumption
    <3> QED
      BY <2>1, <3>1, <3>2 DEF IInv, Shape
  <2> QED
    BY <2>1, <2>2 DEF Scanned
<1> QED
  BY <1>1, <1>2

\* free() finds every address that is stored, and stops inside the array.
THEOREM FindableAlways == TableSpec => []Findable
  BY IInvFindable, InitIInv, NextIInv, PTL DEF TableSpec

-----------------------------------------------------------------------------
\* A store adds the address it was given, and nothing when that was NULL.
LEMMA StoreAdds ==
    ASSUME IInv, NEW a \in (Addr \ Stored) \cup {Zero}, StoreMemAddr(a)
    PROVE  HasTable /\ HasTable' /\ Stored' = Stored \cup ({a} \ {Zero})
<1>1. /\ HasTable
      /\ GrownMax \in Nat /\ max_obj <= GrownMax /\ max_obj \in Nat
      /\ Grown \in [0..GrownMax -> Slot]
  BY StoreSlot
<1>2. PICK j \in 0..(GrownMax - 1) :
          j \in Candidates /\ mem_addrs' = [Grown EXCEPT ![j] = a]
  BY StoreSlot
<1>3. max_obj' = GrownMax /\ j \in 0..GrownMax
  BY <1>1 DEF StoreMemAddr
<1>4. a \in Slot /\ mem_addrs' \in [0..GrownMax -> Slot]
  BY <1>1, <1>2, <1>3 DEF Slot
<1>5. HasTable'
  BY <1>1, <1>4, SlotsAreTable DEF HasTable
<1>6. mem_addrs \in [0..max_obj -> Slot]
  BY <1>1, HasTableType DEF IInv
<1>7. Grown[j] \notin Addr
  BY <1>2, SlotAssumption DEF Candidates
<1>8. \A i \in 0..GrownMax : mem_addrs'[i] = IF i = j THEN a ELSE Grown[i]
  BY <1>1, <1>2, <1>3
<1>9. \A i \in 0..GrownMax : Grown[i] \in Addr <=> i \in Used
  BY <1>1, <1>6, SlotAssumption DEF Grown, Used
<1>10. \A i \in Used : i \in 0..GrownMax /\ Grown[i] = mem_addrs[i]
  BY <1>1, <1>6 DEF Grown, Used
<1>11. Used' = (Used \cup {j}) \ (IF a = Zero THEN {j} ELSE {})
  <2>1. Used' = {i \in 0..GrownMax : mem_addrs'[i] \in Addr}
    BY <1>3, <1>5 DEF Used
  <2>2. ASSUME NEW i \in 0..GrownMax
        PROVE  mem_addrs'[i] \in Addr <=> (IF i = j THEN a # Zero ELSE i \in Used)
    BY <1>8, <1>9, SlotAssumption
  <2> QED
    BY <2>1, <2>2, <1>3, <1>10
<1>12. j \notin Used
  BY <1>3, <1>7, <1>9
<1>13. \A i \in Used : mem_addrs'[i] = mem_addrs[i]
  BY <1>8, <1>10, <1>12
<1>14. mem_addrs'[j] = a
  BY <1>3, <1>8
<1>15. CASE a = Zero
  <2>1. Used' = Used
    BY <1>11, <1>12, <1>15
  <2> QED
    BY <2>1, <1>1, <1>5, <1>13, <1>15 DEF Stored
<1>16. CASE a # Zero
  <2>1. Used' = Used \cup {j}
    BY <1>11, <1>16
  <2> QED
    BY <2>1, <1>1, <1>5, <1>13, <1>14, <1>16 DEF Stored
<1> QED
  BY <1>15, <1>16

\* A found free() removes the address it was given and no other.
LEMMA FreeRemoves ==
    ASSUME IInv, NEW t \in Callers, NEW a \in Addr, FreeFound(t, a)
    PROVE  HasTable /\ HasTable' /\ a \in Stored /\ Stored' = Stored \ {a}
<1>1. /\ HasTable /\ HasTable'
      /\ max_obj \in Nat /\ max_obj > 0
      /\ mem_addrs \in [0..max_obj -> Slot]
  BY FreeSlot
<1>2. PICK j \in 0..(max_obj - 1) :
          mem_addrs[j] = a /\ mem_addrs' = [mem_addrs EXCEPT ![j] = Zero]
  BY FreeSlot
<1>3. max_obj' = max_obj /\ j \in 0..max_obj
  BY <1>1 DEF FreeFound
<1>4. \A i \in 0..max_obj : mem_addrs'[i] = IF i = j THEN Zero ELSE mem_addrs[i]
  BY <1>1, <1>2, <1>3
<1>5. j \in Used
  BY <1>1, <1>2, <1>3 DEF Used
<1>6. Used' = Used \ {j}
  BY <1>1, <1>3, <1>4, SlotAssumption DEF Used
<1>7. \A i \in Used' : mem_addrs'[i] = mem_addrs[i]
  BY <1>4, <1>6 DEF Used
<1>8. \A i \in Used : mem_addrs[i] = a <=> i = j
  BY <1>1, <1>2, <1>5 DEF IInv, Shape
<1> QED
  BY <1>1, <1>2, <1>5, <1>6, <1>7, <1>8 DEF Stored

\* The table of slots, with threads racing in preprocess_free(), implements
\* the set of addresses that the model of the hooks uses.
THEOREM AddrTableRefinesAddrSet == TableSpec => RefinesAddrSet
<1>1. TableInit => Abstract!Init
  <2> SUFFICES ASSUME TableInit PROVE Stored = {} /\ HasTable
    BY DEF Abstract!Init
  <2>1. HasTable
    BY InitIInv, HasTableType DEF IInv, TableInit, Slot
  <2>2. Used = {}
    BY <2>1, SlotAssumption DEF TableInit, Used
  <2> QED
    BY <2>1, <2>2 DEF Stored
<1>2. ASSUME IInv, [TableNext]_tableVars
      PROVE  [Abstract!Next]_(Abstract!vars)
  <2> USE <1>2 DEF Abstract!Next, Abstract!vars, Abstract!Add, Abstract!Remove, Abstract!Lose
  <2>1. ASSUME NEW a \in Addr \ Stored, StoreMemAddr(a)
        PROVE  Abstract!Next
    <3>1. HasTable /\ HasTable' /\ Stored' = Stored \cup ({a} \ {Zero})
      BY <2>1, StoreAdds
    <3>2. a # Zero
      BY SlotAssumption
    <3> QED
      BY <3>1, <3>2
  <2>2. ASSUME StoreMemAddr(Zero)
        PROVE  UNCHANGED Abstract!vars
    <3>1. HasTable /\ HasTable' /\ Stored' = Stored \cup ({Zero} \ {Zero})
      BY <2>2, StoreAdds
    <3> QED
      BY <3>1
  <2>3. ASSUME StoreLosesTable
        PROVE  Abstract!Next
    <3>1. ~HasTable'
      BY <2>3 DEF StoreLosesTable, HasTable, NoTable
    <3>2. Stored' = {}
      BY <3>1 DEF Stored, Used
    <3> QED
      BY <3>1, <3>2
  <2>4. ASSUME NEW t \in Callers, NEW a \in Addr, FreeFound(t, a)
        PROVE  Abstract!Next
    <3>1. HasTable /\ HasTable' /\ a \in Stored /\ Stored' = Stored \ {a}
      BY <2>4, FreeRemoves
    <3> QED
      BY <3>1
  <2>5. ASSUME UNCHANGED <<mem_addrs, max_obj>>
        PROVE  UNCHANGED Abstract!vars
    BY <2>5 DEF Stored, Used, HasTable, NoTable
  <2>6. ASSUME StoreNoTable
        PROVE  UNCHANGED Abstract!vars
    <3>1. ~HasTable /\ ~HasTable'
      BY <2>6 DEF StoreNoTable, HasTable, NoTable
    <3> QED
      BY <3>1 DEF Stored, Used
  <2>7. \A t \in Callers : FreeCompare(t) \/ FreeSet(t) => UNCHANGED <<mem_addrs, max_obj>>
    BY DEF FreeCompare, FreeSet
  <2>8. UNCHANGED tableVars => UNCHANGED <<mem_addrs, max_obj>>
    BY DEF tableVars
  <2> QED
    BY <2>1, <2>2, <2>3, <2>4, <2>5, <2>6, <2>7, <2>8 DEF TableNext
<1> QED
  BY <1>1, <1>2, InitIInv, NextIInv, PTL DEF TableSpec, RefinesAddrSet, Abstract!Spec
-----------------------------------------------------------------------------
(***************************************************************************)
(* The two FIFOs, and the order in which the processes use them.           *)
(***************************************************************************)
UgMsg  == [op : {"ready", "S"}] \cup [op : {"l"}, lib : LibName]
              \cup [op : {"m"}, key : Key, addr : Nat]
LibMsg == [op : {"cfg"}] \cup [op : {"offs"}, offs : [DOMAIN UgKeys -> Load]]
              \cup [op : {"bounds"}, start : Load, end : Nat]

\* The kinds of messages in a FIFO.
Ops(s) == {s[i].op : i \in DOMAIN s}

Fifos == toUg \in Seq(UgMsg) /\ toLib \in Seq(LibMsg)

Typed ==
    /\ ug \in {"prepare", "preloader", "openofd", "aslr", "stack", "loop", "failed", "ended"}
    /\ mh \in {"none", "loader", "openifd", "openofd", "readcfg", "readoffs", "active",
               "inactive", "dead"}
    /\ base \in [LibName -> Nat] /\ \A l \in LibName : base[l] \in LoadAddr[l] \cup {0}
    /\ mhaddr \in [Key -> Load]
    /\ ugaddr \in [Key -> Load]
    /\ call \in [Threads -> [at : {"run", "wait"}, lib : LibName \cup {Exe},
                             pos : 0..Len(UgKeys)]]
    /\ missed \subseteq Key
    /\ gaveup \in BOOLEAN

Unmoved == [key \in Key |-> 0]

\* What is in the FIFOs at which point of the start: the library reads the
\* config, then the offsets, and both sides add an offset once.
Phases ==
    /\ mh = "none" <=> ug = "prepare"
    /\ mh \in {"none", "loader", "openifd"} =>
         toLib = <<>> /\ ug \in {"prepare", "preloader", "openofd", "failed"}
    /\ mh \in {"none", "loader", "openifd", "openofd", "readcfg"} => toUg = <<>>
    /\ mh \in {"openofd", "readcfg"} =>
         \/ toLib = <<>> /\ ug \in {"preloader", "openofd", "failed"}
         \/ toLib = <<[op |-> "cfg"]>> /\ ug = "aslr"
    /\ mh \notin {"openofd", "readcfg"} => "cfg" \notin Ops(toLib)
    /\ mh \in {"none", "loader", "openifd", "openofd", "readcfg", "readoffs"} =>
         mhaddr = Unmoved /\ call = [t \in Threads |-> Idle]
    /\ mh = "readoffs" => Ops(toUg) \subseteq {"ready"} /\ Ops(toLib) \subseteq {"offs"}
    /\ ug \in {"prepare", "preloader", "openofd", "aslr", "failed"} => ugaddr = Unmoved
    /\ \A t \in Threads : call[t].at = "wait" => call[t].lib \in LibName

StartInv == Typed /\ Fifos /\ Phases

-----------------------------------------------------------------------------
(***************************************************************************)
(* Sequences of messages.                                                  *)
(***************************************************************************)
LEMMA Appended ==
    ASSUME NEW T, NEW s \in Seq(T), NEW x \in T
    PROVE  /\ Append(s, x) \in Seq(T) /\ Len(Append(s, x)) = Len(s) + 1
           /\ Append(s, x)[Len(s) + 1] = x
           /\ \A i \in DOMAIN Append(s, x) :
                 i = Len(s) + 1 \/ (i \in DOMAIN s /\ Append(s, x)[i] = s[i])
           /\ \A i \in DOMAIN s : i \in DOMAIN Append(s, x) /\ Append(s, x)[i] = s[i]
           /\ Ops(Append(s, x)) = Ops(s) \cup {x.op}
<1> DEFINE t == Append(s, x)
<1>1. /\ t \in Seq(T) /\ Len(t) = Len(s) + 1 /\ Len(s) \in Nat
      /\ t[Len(s) + 1] = x /\ \A i \in 1..Len(s) : t[i] = s[i]
      /\ DOMAIN s = 1..Len(s) /\ DOMAIN t = 1..(Len(s) + 1)
  BY AppendProperties
<1> HIDE DEF t
<1>2. /\ \A i \in DOMAIN t : i = Len(s) + 1 \/ (i \in DOMAIN s /\ t[i] = s[i])
      /\ \A i \in DOMAIN s : i \in DOMAIN t /\ t[i] = s[i]
      /\ Len(s) + 1 \in DOMAIN t
  BY <1>1
<1>3. Ops(t) = Ops(s) \cup {x.op}
  BY <1>1, <1>2 DEF Ops
<1> QED
  BY <1>1, <1>2, <1>3 DEF t

LEMMA Tailed ==
    ASSUME NEW T, NEW s \in Seq(T), s # <<>>
    PROVE  /\ Tail(s) \in Seq(T) /\ Len(Tail(s)) = Len(s) - 1 /\ Len(s) \in Nat \ {0}
           /\ Head(s) = s[1] /\ 1 \in DOMAIN s /\ Head(s) \in T
           /\ \A i \in DOMAIN Tail(s) : i + 1 \in DOMAIN s /\ Tail(s)[i] = s[i + 1]
           /\ Ops(Tail(s)) \subseteq Ops(s) /\ Head(s).op \in Ops(s)
<1> DEFINE t == Tail(s)
<1>1. /\ t \in Seq(T) /\ Len(t) = Len(s) - 1 /\ Len(s) \in Nat \ {0}
      /\ Head(s) = s[1] /\ DOMAIN s = 1..Len(s) /\ DOMAIN t = 1..(Len(s) - 1)
      /\ \A i \in 1..(Len(s) - 1) : t[i] = s[i + 1]
      /\ s[1] \in T
  OBVIOUS
<1> HIDE DEF t
<1>2. /\ \A i \in DOMAIN t : i + 1 \in DOMAIN s /\ t[i] = s[i + 1]
      /\ 1 \in DOMAIN s
  BY <1>1
<1>3. Ops(t) \subseteq Ops(s) /\ s[1].op \in Ops(s)
  BY <1>2 DEF Ops
<1> QED
  BY <1>1, <1>2, <1>3 DEF t

LEMMA NoOps == Ops(<<>>) = {}
BY DEF Ops

-----------------------------------------------------------------------------
(***************************************************************************)
(* The code addresses.                                                     *)
(***************************************************************************)
Lib(key) == Essentials(key).lib

ConfigKey ==
    {p \in (DOMAIN Class) \X Nat :
        \/ p[2] = 0
        \/ p[2] \in DOMAIN Class[p[1]].consts
        \/ p[2] = GrowIdx(p[1]) /\ Class[p[1]].grow # NoGrow}

\* Every code address is that of a class, of a const or of a growing.
LEMMA KeysType ==
    /\ UgKeys \in Seq(ConfigKey) /\ UgKeys # <<>>
    /\ Key \subseteq ConfigKey
<1> DEFINE s == [c \in DOMAIN Class |-> Keys(c)]
<1>1. \A c \in DOMAIN Class : Len(Class[c].consts) \in Nat /\ DOMAIN Class[c].consts = 1..Len(Class[c].consts)
  BY StartupAssumption
<1>2. ASSUME NEW c \in DOMAIN Class
      PROVE  Keys(c) \in Seq(ConfigKey) /\ Keys(c) # <<>>
  <2> DEFINE n == GrowIdx(c) + IF Class[c].grow = NoGrow THEN 0 ELSE 1
  <2> DEFINE L == Len(Class[c].consts)
  <2>0. L \in Nat /\ DOMAIN Class[c].consts = 1..L
    BY <1>1
  <2>1. n = IF Class[c].grow = NoGrow THEN L + 1 ELSE L + 2
    <3> HIDE DEF L
    <3>1. GrowIdx(c) = L + 1
      BY DEF GrowIdx, L
    <3> QED
      BY <2>0, <3>1
  <2> HIDE DEF L
  <2>2. ASSUME NEW k \in 1..n
        PROVE  <<c, k - 1>> \in ConfigKey
    <3>1. k - 1 \in Nat
      BY <2>0, <2>1
    <3>a. GrowIdx(c) = L + 1
      BY DEF GrowIdx, L
    <3>2. \/ k - 1 = 0
          \/ k - 1 \in 1..L
          \/ k - 1 = GrowIdx(c) /\ Class[c].grow # NoGrow
      <4> HIDE DEF n
      <4> QED
        BY <2>0, <2>1, <3>a
    <3> QED
      BY <2>0, <3>1, <3>2 DEF ConfigKey
  <2> HIDE DEF n
  <2>3. [k \in 1..n |-> <<c, k - 1>>] \in Seq(ConfigKey)
    BY <2>0, <2>1, <2>2
  <2>4. [k \in 1..n |-> <<c, k - 1>>] # <<>>
    <3>1. n \in Nat /\ 1 \in 1..n
      BY <2>0, <2>1
    <3>2. \A f \in [1..n -> ConfigKey] : f # <<>>
      <4> HIDE DEF ConfigKey
      <4> QED
        BY <3>1
    <3>3. [k \in 1..n |-> <<c, k - 1>>] \in [1..n -> ConfigKey]
      BY <2>2
    <3> QED
      BY <3>2, <3>3
  <2> QED
    BY <2>3, <2>4 DEF Keys, n
<1>3. s \in Seq(Seq(ConfigKey)) /\ s # <<>> /\ Head(s) # <<>>
  <2>1. DOMAIN Class = 1..Len(Class) /\ Len(Class) \in Nat \ {0}
    BY StartupAssumption
  <2>2. 1 \in DOMAIN Class /\ s[1] = Keys(1)
    BY <2>1
  <2> HIDE DEF ConfigKey
  <2> QED
    BY <1>2, <2>1, <2>2
<1>4. UgKeys = FlattenSeq(s)
  BY DEF UgKeys
<1> HIDE DEF s
<1>7. UgKeys \in Seq(ConfigKey)
  BY <1>3, <1>4, FlattenType
<1>8. UgKeys # <<>>
  <2>1. UgKeys = Cat(Head(s), FlattenSeq(Tail(s)))
    BY <1>3, <1>4, FlattenTail
  <2>2. Tail(s) \in Seq(Seq(ConfigKey)) /\ Head(s) \in Seq(ConfigKey)
    BY <1>3
  <2>3. FlattenSeq(Tail(s)) \in Seq(ConfigKey)
    BY <2>2, FlattenType
  <2>4. \A a, b \in Seq(ConfigKey) : a # <<>> => Cat(a, b) # <<>>
    BY DEF Cat
  <2> QED
    BY <1>3, <2>1, <2>2, <2>3, <2>4
<1>9. Key \subseteq ConfigKey
  BY <1>7 DEF Key, ToSet
<1> QED
  BY <1>7, <1>8, <1>9
Ess == [size : Nat, addr : BOOLEAN, lib : LibName \cup {Exe}]

LEMMA ClassType ==
    ASSUME NEW c \in DOMAIN Class
    PROVE  /\ Class[c].lib \in LibName \cup {Exe}
           /\ Class[c].consts \in Seq(Ess)
           /\ Class[c].grow # NoGrow => Class[c].grow.lib \in LibName \cup {Exe}
<1> DEFINE grow == [addr : BOOLEAN, lib : LibName \cup {Exe}]
           cls  == [size : Nat, addr : BOOLEAN, lib : LibName \cup {Exe},
                    consts : Seq(Ess), grow : grow \cup {NoGrow}]
<1>1. Class \in Seq(cls)
  BY StartupAssumption DEF Ess
<1>2. Class[c] \in cls
  <2> HIDE DEF cls
  <2> QED
    BY <1>1
<1>3. \A g \in grow : g.lib \in LibName \cup {Exe}
  OBVIOUS
<1> HIDE DEF grow
<1> QED
  BY <1>2, <1>3

LEMMA LibType ==
    ASSUME NEW key \in Key
    PROVE  Lib(key) \in LibName \cup {Exe}
<1> DEFINE c == key[1]
           k == key[2]
<1>1. key \in ConfigKey
  BY KeysType
<1>2. /\ c \in DOMAIN Class /\ k \in Nat
      /\ \/ k = 0
         \/ k \in DOMAIN Class[c].consts
         \/ k = GrowIdx(c) /\ Class[c].grow # NoGrow
  BY <1>1 DEF ConfigKey
<1> HIDE DEF c, k
<1>3. /\ Class[c].lib \in LibName \cup {Exe}
      /\ Class[c].consts \in Seq(Ess)
      /\ Class[c].grow # NoGrow => Class[c].grow.lib \in LibName \cup {Exe}
  BY <1>2, ClassType
<1>4. \A j \in DOMAIN Class[c].consts : Class[c].consts[j].lib \in LibName \cup {Exe} /\ j # GrowIdx(c)
  <2>1. \A s \in Seq(Ess) : \A j \in DOMAIN s : s[j] \in Ess /\ j # Len(s) + 1
    OBVIOUS
  <2>2. \A e \in Ess : e.lib \in LibName \cup {Exe}
    BY DEF Ess
  <2> QED
    BY <1>3, <2>1, <2>2 DEF GrowIdx
<1> QED
  BY <1>2, <1>3, <1>4 DEF Lib, Essentials, IsGrow, c, k

LEMMA LoadType ==
    /\ Load \subseteq Nat /\ 0 \in Load /\ ExeOffs \in Load
    /\ \A l \in LibName : LoadAddr[l] \subseteq Load
BY StartupAssumption DEF Load

LEMMA LoadOffsType ==
    ASSUME Typed, NEW key \in Key
    PROVE  LoadOffs(Lib(key)) \in Load
BY LibType, LoadType DEF LoadOffs, Typed

-----------------------------------------------------------------------------
(***************************************************************************)
(* Types, for any number of threads.                                       *)
(***************************************************************************)
LEMMA StartInit == Init => StartInv
<1> SUFFICES ASSUME Init PROVE StartInv
  OBVIOUS
<1>1. 0 \in Load /\ Load \subseteq Nat /\ Len(UgKeys) \in Nat
  BY LoadType, KeysType
<1>2. base \in [LibName -> Nat]
  BY StartupAssumption DEF Init
<1>3. Typed
  <2>1. [at |-> "run", lib |-> Exe, pos |-> 0] \in [at : {"run", "wait"}, lib : LibName \cup {Exe}, pos : 0..Len(UgKeys)]
    BY <1>1
  <2>2. call \in [Threads -> [at : {"run", "wait"}, lib : LibName \cup {Exe}, pos : 0..Len(UgKeys)]]
    BY <2>1 DEF Init, Idle
  <2> QED
    BY <1>1, <1>2, <2>2 DEF Init, Typed
<1>4. Fifos
  BY DEF Init, Fifos
<1>5. Phases
  BY NoOps DEF Init, Phases, Unmoved, Idle
<1> QED
  BY <1>3, <1>4, <1>5 DEF StartInv

\* A thread asks, or has nothing to ask.
LEMMA AskType ==
    ASSUME StartInv, NEW t \in Threads, NEW n \in LibName, NEW pos \in Nat, Ask(t, n, pos)
    PROVE  /\ call' \in [Threads -> [at : {"run", "wait"}, lib : LibName \cup {Exe}, pos : 0..Len(UgKeys)]]
           /\ toUg' \in Seq(UgMsg)
           /\ \A u \in Threads : call'[u].at = "wait" => call'[u].lib \in LibName
<1>0. /\ call \in [Threads -> [at : {"run", "wait"}, lib : LibName \cup {Exe}, pos : 0..Len(UgKeys)]]
      /\ toUg \in Seq(UgMsg) /\ Len(UgKeys) \in Nat
      /\ \A u \in Threads : call[u].at = "wait" => call[u].lib \in LibName
  BY KeysType DEF StartInv, Typed, Fifos, Phases
<1>1. CASE NextAsk(n, pos) = {} \/ ~UgRunning
  BY <1>0, <1>1 DEF Ask, Idle
<1>2. CASE ~(NextAsk(n, pos) = {} \/ ~UgRunning)
  <2>1. PICK j : j \in NextAsk(n, pos) /\ call' = [call EXCEPT ![t] = [at |-> "wait", lib |-> n, pos |-> j]]
    BY <1>2 DEF Ask
  <2>2. j \in 0..Len(UgKeys)
    BY <1>0, <2>1, KeysType DEF NextAsk, Asking
  <2>3. toUg' = Append(toUg, [op |-> "l", lib |-> n]) /\ [op |-> "l", lib |-> n] \in UgMsg
    BY <1>2 DEF Ask, UgMsg
  <2>4. toUg' \in Seq(UgMsg)
    BY <1>0, <2>3, Appended
  <2> QED
    BY <1>0, <2>1, <2>2, <2>4
<1> QED
  BY <1>1, <1>2
CallSet == [Threads -> [at : {"run", "wait"}, lib : LibName \cup {Exe}, pos : 0..Len(UgKeys)]]

\* No FIFO and no address changes: the trainer and the library go on.
Proceed == \/ PrepareDynmem \/ GameFound \/ GameTooSlow \/ HandleStackEnd \/ CheckProcess
           \/ ExecGame \/ OpenIfd \/ OpenOfd \/ ReadConfigFails

LEMMA ProceedTypes ==
    ASSUME StartInv, Proceed
    PROVE  StartInv'
<1>0. UNCHANGED <<toLib, toUg, base, mhaddr, ugaddr, call, missed>>
  BY DEF Proceed, PrepareDynmem, GameFound, GameTooSlow, HandleStackEnd, CheckProcess,
         ExecGame, OpenIfd, OpenOfd, ReadConfigFails
<1>1. Typed'
  BY <1>0 DEF StartInv, Typed, Proceed, PrepareDynmem, GameFound, GameTooSlow, HandleStackEnd,
              CheckProcess, ExecGame, OpenIfd, OpenOfd, ReadConfigFails
<1>2. Fifos'
  BY <1>0 DEF StartInv, Fifos
<1>3. Phases'
  <2>1. UNCHANGED <<Ops(toUg), Ops(toLib)>>
    BY <1>0 DEF Ops
  <2>2. Phases /\ Typed
    BY DEF StartInv
  <2>3. CASE PrepareDynmem
    BY <1>0, <2>1, <2>2, <2>3, NoOps DEF Phases, PrepareDynmem
  <2>4. CASE GameFound \/ GameTooSlow
    BY <1>0, <2>1, <2>2, <2>4 DEF Phases, GameFound, GameTooSlow
  <2>5. CASE HandleStackEnd \/ CheckProcess
    BY <1>0, <2>1, <2>2, <2>5 DEF Phases, HandleStackEnd, CheckProcess
  <2>6. CASE ExecGame \/ OpenIfd \/ OpenOfd
    BY <1>0, <2>1, <2>2, <2>6, NoOps DEF Phases, ExecGame, OpenIfd, OpenOfd
  <2>7. CASE ReadConfigFails
    BY <1>0, <2>1, <2>2, <2>7, NoOps DEF Phases, ReadConfigFails
  <2> QED
    BY <2>3, <2>4, <2>5, <2>6, <2>7 DEF Proceed
<1> QED
  BY <1>1, <1>2, <1>3 DEF StartInv

\* The dialogue of the start.
LEMMA SendConfigTypes ==
    ASSUME StartInv, SendConfig
    PROVE  StartInv'
<1>1. toLib = <<>> /\ toLib' = <<[op |-> "cfg"]>>
  <2>1. toLib = <<>> /\ toLib' = Append(<<>>, [op |-> "cfg"])
    BY DEF StartInv, Phases, SendConfig
  <2> QED
    BY <2>1
<1>2. toLib' \in Seq(LibMsg)
  <2>1. [op |-> "cfg"] \in LibMsg
    BY DEF LibMsg
  <2> HIDE DEF LibMsg
  <2> QED
    BY <1>1, <2>1
<1>3. Typed'
  BY DEF StartInv, Typed, SendConfig
<1>4. Fifos'
  BY <1>2 DEF StartInv, Fifos, SendConfig
<1>5. Phases'
  BY <1>1 DEF StartInv, Typed, Phases, SendConfig, Ops
<1> QED
  BY <1>3, <1>4, <1>5 DEF StartInv

LEMMA HandleAslrTypes ==
    ASSUME StartInv, HandleAslr
    PROVE  /\ StartInv'
           /\ \A key \in Key : ugaddr'[key] = LoadOffs(Lib(key))
           /\ toLib' = Append(toLib, [op |-> "offs", offs |-> [i \in DOMAIN UgKeys |-> LoadOffs(Lib(UgKeys[i]))]])
<1> DEFINE msg == [op |-> "offs", offs |-> [i \in DOMAIN UgKeys |-> LoadOffs(Lib(UgKeys[i]))]]
<1>0. Typed /\ Fifos /\ Phases
  BY DEF StartInv
<1>1. toLib' = Append(toLib, msg)
  BY DEF HandleAslr, Lib
<1>2. /\ ugaddr' = [key \in Key |-> ugaddr[key] + LoadOffs(Lib(key))]
      /\ ugaddr = Unmoved
  BY <1>0 DEF HandleAslr, Lib, Phases
<1>3. \A key \in Key : ugaddr'[key] = LoadOffs(Lib(key)) /\ LoadOffs(Lib(key)) \in Load
  <2> SUFFICES ASSUME NEW key \in Key
               PROVE  ugaddr'[key] = LoadOffs(Lib(key)) /\ LoadOffs(Lib(key)) \in Load
    OBVIOUS
  <2>1. LoadOffs(Lib(key)) \in Load /\ LoadOffs(Lib(key)) \in Nat
    BY <1>0, LoadOffsType, LoadType
  <2>2. ugaddr[key] = 0
    BY <1>2 DEF Unmoved
  <2>3. ugaddr'[key] = 0 + LoadOffs(Lib(key))
    BY <1>2, <2>2
  <2> QED
    BY <2>1, <2>3
<1>4. ugaddr' \in [Key -> Load]
  BY <1>2, <1>3
<1>5. msg \in LibMsg /\ msg.op = "offs"
  <2>1. \A i \in DOMAIN UgKeys : UgKeys[i] \in Key
    BY KeysType DEF Key, ToSet
  <2>2. [i \in DOMAIN UgKeys |-> LoadOffs(Lib(UgKeys[i]))] \in [DOMAIN UgKeys -> Load]
    BY <1>3, <2>1
  <2> QED
    BY <2>2 DEF LibMsg
<1> HIDE DEF msg
<1>6. toLib' \in Seq(LibMsg) /\ Ops(toLib') = Ops(toLib) \cup {"offs"}
  BY <1>0, <1>1, <1>5, Appended DEF Fifos
<1>7. toUg' = Tail(toUg) /\ toUg' \in Seq(UgMsg) /\ Ops(toUg') \subseteq Ops(toUg) /\ toUg # <<>>
  BY <1>0, Tailed DEF HandleAslr, Fifos
<1>8. UNCHANGED <<mh, base, mhaddr, call, missed, gaveup>> /\ ug = "aslr" /\ ug' = "stack"
  BY DEF HandleAslr
<1>9. Typed'
  BY <1>0, <1>4, <1>8 DEF Typed
<1>10. Fifos'
  BY <1>6, <1>7 DEF Fifos
<1>11. Phases'
  <2> HIDE DEF UgMsg
  <2>1. Ops(toLib)' = Ops(toLib) \cup {"offs"} /\ Ops(toUg)' \subseteq Ops(toUg)
    BY <1>6, <1>7 DEF Ops
  <2> QED
    BY <1>0, <1>7, <1>8, <2>1 DEF Phases
<1> QED
  BY <1>1, <1>3, <1>9, <1>10, <1>11 DEF StartInv, msg
LEMMA Concatenated ==
    ASSUME NEW T, NEW s \in Seq(T), NEW e \in Seq(T)
    PROVE  Cat(s, e) \in Seq(T) /\ Ops(Cat(s, e)) = Ops(s) \cup Ops(e)
<1> DEFINE t == s \o e
<1>1. /\ t \in Seq(T) /\ Len(t) = Len(s) + Len(e) /\ Len(s) \in Nat /\ Len(e) \in Nat
      /\ \A i \in 1..Len(s) : t[i] = s[i]
      /\ \A i \in 1..Len(e) : t[Len(s) + i] = e[i]
      /\ \A i \in 1..Len(t) : i \in 1..Len(s) \/ (i - Len(s) \in 1..Len(e) /\ t[i] = e[i - Len(s)])
      /\ DOMAIN s = 1..Len(s) /\ DOMAIN e = 1..Len(e) /\ DOMAIN t = 1..Len(t)
  OBVIOUS
<1> HIDE DEF t
<1>2. Ops(t) \subseteq Ops(s) \cup Ops(e)
  <2> SUFFICES ASSUME NEW i \in 1..Len(t) PROVE t[i].op \in Ops(s) \cup Ops(e)
    BY <1>1 DEF Ops
  <2>1. CASE i \in 1..Len(s)
    BY <1>1, <2>1 DEF Ops
  <2>2. CASE i - Len(s) \in 1..Len(e) /\ t[i] = e[i - Len(s)]
    BY <1>1, <2>2 DEF Ops
  <2> QED
    BY <1>1, <2>1, <2>2
<1>3. Ops(s) \subseteq Ops(t)
  <2>1. \A i \in DOMAIN s : i \in DOMAIN t
    BY <1>1
  <2> QED
    BY <1>1, <2>1 DEF Ops
<1>4. Ops(e) \subseteq Ops(t)
  <2>1. \A i \in DOMAIN e : Len(s) + i \in DOMAIN t
    BY <1>1
  <2> QED
    BY <1>1, <2>1 DEF Ops
<1>5. t = Cat(s, e)
  BY DEF t, Cat
<1> QED
  BY <1>1, <1>2, <1>3, <1>4, <1>5

LEMMA ReadConfigTypes ==
    ASSUME StartInv, ReadConfig
    PROVE  /\ StartInv'
           /\ ~SkipAslr => toUg' = <<[op |-> "ready"]>>
           /\ SkipAslr  => Ops(toUg') = {"ready", "S"}
<1>0. Typed /\ Fifos /\ Phases
  BY DEF StartInv
<1>1. toUg = <<>> /\ toLib' = <<>> /\ ug = "aslr"
  BY <1>0 DEF ReadConfig, Phases
<1> DEFINE r == [op |-> "ready"]
           s == [op |-> "S"]
<1>2. r \in UgMsg /\ s \in UgMsg /\ r.op = "ready" /\ s.op = "S"
  BY DEF UgMsg
<1> HIDE DEF r, s
<1> DEFINE e == IF SkipAslr THEN <<s>> ELSE <<>>
<1>3. toUg' = Cat(<<r>>, e)
  <2>1. toUg' = Cat(Cat(<<>>, <<r>>), e)
    BY <1>1 DEF ReadConfig, Activated, Cat, r, s
  <2>a. <<r>> \in Seq(UgMsg)
    <3> HIDE DEF UgMsg
    <3> QED
      BY <1>2
  <2>2. Cat(<<>>, <<r>>) = <<r>>
    BY <2>a, CatEmpty
  <2> QED
    BY <2>1, <2>2
<1>4. <<r>> \in Seq(UgMsg) /\ e \in Seq(UgMsg) /\ Ops(<<r>>) = {"ready"}
  <2> HIDE DEF UgMsg
  <2> QED
    BY <1>2 DEF Ops
<1> HIDE DEF e
<1>5. toUg' \in Seq(UgMsg) /\ Ops(toUg') = {"ready"} \cup Ops(e)
  <2> DEFINE d == <<r>>
  <2>0. d \in Seq(UgMsg) /\ Ops(d) = {"ready"} /\ toUg' = Cat(d, e)
    BY <1>3, <1>4
  <2> HIDE DEF d
  <2>1. Cat(d, e) \in Seq(UgMsg) /\ Ops(Cat(d, e)) = Ops(d) \cup Ops(e)
    BY <1>4, <2>0, Concatenated
  <2> QED
    BY <2>0, <2>1
<1>6. /\ ~SkipAslr => toUg' = <<r>>
      /\ SkipAslr  => Ops(toUg') = {"ready", "S"}
  <2>1. Ops(<<s>>) = {"S"}
    BY <1>2 DEF Ops
  <2>2. Cat(<<r>>, <<>>) = <<r>>
    BY <1>4, CatEmpty
  <2> QED
    BY <1>3, <1>5, <2>1, <2>2 DEF e
<1>7. UNCHANGED <<ug, base, mhaddr, ugaddr, call, missed, gaveup>>
  BY DEF ReadConfig
<1>8. mh' = IF SkipAslr THEN "active" ELSE "readoffs"
  BY DEF ReadConfig
<1>9. Typed'
  BY <1>0, <1>7, <1>8 DEF Typed
<1>10. Fifos'
  BY <1>1, <1>5 DEF Fifos
<1>11. Phases'
  <2>0. mh = "readcfg"
    BY DEF ReadConfig
  <2>1. Ops(toLib)' = {} /\ (~SkipAslr => Ops(toUg)' = {"ready"})
    BY <1>1, <1>4, <1>6 DEF Ops
  <2> QED
    BY <1>0, <1>1, <1>7, <1>8, <2>0, <2>1 DEF Phases
<1> QED
  BY <1>6, <1>9, <1>10, <1>11 DEF StartInv, r

\* The library adds the offsets it has read, or none.
LEMMA ActivateTypes ==
    ASSUME StartInv, ReadOffs \/ ReadOffsFails
    PROVE  /\ StartInv'
           /\ toUg' \in Seq(UgMsg) /\ Ops(toUg') \subseteq Ops(toUg) \cup {"S"}
<1>0. Typed /\ Fifos /\ Phases /\ mh = "readoffs" /\ mh' = "active"
  BY DEF StartInv, ReadOffs, ReadOffsFails
<1>1. [op |-> "S"] \in UgMsg
  BY DEF UgMsg
<1>2. toUg' = Cat(toUg, Activated)
  BY DEF ReadOffs, ReadOffsFails, Cat
<1>3. Activated \in Seq(UgMsg) /\ Ops(Activated) = {"S"}
  <2>1. Activated \in Seq(UgMsg)
    BY <1>1 DEF Activated
  <2>2. Ops(Activated) = {"S"}
    BY DEF Activated, Ops
  <2> QED
    BY <2>1, <2>2
<1>4. toUg' \in Seq(UgMsg) /\ Ops(toUg') \subseteq Ops(toUg) \cup {"S"}
  BY <1>0, <1>2, <1>3, Concatenated DEF Fifos
<1>5. mhaddr' \in [Key -> Load]
  <2>1. CASE ReadOffsFails
    BY <1>0, <2>1 DEF ReadOffsFails, Typed
  <2>2. CASE ReadOffs
    <3>1. Head(toLib) \in LibMsg /\ Head(toLib).op = "offs"
      BY <1>0, <2>2, Tailed DEF ReadOffs, Fifos, Phases
    <3>2. Head(toLib).offs \in [DOMAIN UgKeys -> Load]
      BY <3>1 DEF LibMsg
    <3>3. ASSUME NEW key \in Key
          PROVE  mhaddr[key] + TakeOffs(Head(toLib).offs, key) \in Load
      <4>1. TakeOffs(Head(toLib).offs, key) \in Load
        <5> DEFINE offs == Head(toLib).offs
                   slot == {j \in DOMAIN MhKeys : MhKeys[j] = key /\ j \in DOMAIN offs}
        <5>1. slot # {} => (CHOOSE j \in slot : TRUE) \in DOMAIN UgKeys
          BY <3>2
        <5>2. slot # {} => offs[CHOOSE j \in slot : TRUE] \in Load
          BY <3>2, <5>1
        <5>3. 0 \in Load
          BY LoadType
        <5> QED
          BY <5>2, <5>3 DEF TakeOffs
      <4>2. mhaddr[key] = 0
        BY <1>0 DEF Phases, Unmoved
      <4>3. TakeOffs(Head(toLib).offs, key) \in Nat
        BY <4>1, LoadType
      <4>4. mhaddr[key] + TakeOffs(Head(toLib).offs, key) = TakeOffs(Head(toLib).offs, key)
        BY <4>2, <4>3
      <4> QED
        BY <4>1, <4>4
    <3> QED
      BY <2>2, <3>3 DEF ReadOffs
  <2> QED
    BY <2>1, <2>2
<1>6. toLib' \in {<<>>, toLib} /\ UNCHANGED <<ug, base, ugaddr, call, missed>> /\ gaveup' \in BOOLEAN
  BY <1>0 DEF ReadOffs, ReadOffsFails, Typed
<1>7. Typed'
  BY <1>0, <1>5, <1>6 DEF Typed
<1>8. Fifos'
  <2>1. <<>> \in Seq(LibMsg)
    OBVIOUS
  <2> QED
    BY <1>0, <1>4, <1>6, <2>1 DEF Fifos
<1>9. Phases'
  <2>1. Ops(toLib)' \subseteq Ops(toLib)
    BY <1>6, NoOps DEF Ops
  <2> QED
    BY <1>0, <1>6, <2>1 DEF Phases
<1> QED
  BY <1>4, <1>7, <1>8, <1>9 DEF StartInv
\* What read_input() and sscanf() get begins with a load address.
LEMMA LibStartType ==
    ASSUME Fifos, "cfg" \notin Ops(toLib), toLib # <<>>
    PROVE  LibStart[1] \in Load
<1> DEFINE s == [i \in DOMAIN toLib |-> Numbers(toLib[i])]
<1>1. ASSUME NEW i \in DOMAIN toLib
      PROVE  /\ Numbers(toLib[i]) \in Seq(Nat) /\ Len(Numbers(toLib[i])) >= 1
             /\ Numbers(toLib[i])[1] \in Load
  <2>1. toLib[i] \in LibMsg /\ toLib[i].op # "cfg"
    BY DEF Fifos, Ops
  <2>2. CASE toLib[i].op = "offs"
    <3>1. toLib[i].offs \in [DOMAIN UgKeys -> Load]
      BY <2>1, <2>2 DEF LibMsg
    <3>2. DOMAIN UgKeys = 1..Len(UgKeys) /\ Len(UgKeys) \in Nat /\ Len(UgKeys) >= 1
      BY KeysType
    <3>3. \A f \in [1..Len(UgKeys) -> Load] : f \in Seq(Nat) /\ Len(f) >= 1 /\ f[1] \in Load
      <4> SUFFICES ASSUME NEW f \in [1..Len(UgKeys) -> Load]
                   PROVE  f \in Seq(Nat) /\ Len(f) >= 1 /\ f[1] \in Load
        OBVIOUS
      <4>1. \A j \in 1..Len(UgKeys) : f[j] \in Nat
        BY LoadType
      <4>2. f \in [1..Len(UgKeys) -> Nat]
        BY <4>1
      <4>3. f \in Seq(Nat)
        BY <3>2, <4>2
      <4>4. Len(f) = Len(UgKeys)
        BY <3>2, <4>3
      <4> QED
        BY <3>2, <4>3, <4>4
    <3> QED
      BY <2>2, <3>1, <3>2, <3>3 DEF Numbers
  <2>3. CASE toLib[i].op # "offs"
    <3>1. toLib[i].start \in Load /\ toLib[i].end \in Nat
      BY <2>1, <2>3 DEF LibMsg
    <3>2. Numbers(toLib[i]) = <<toLib[i].start, toLib[i].end>>
      BY <2>3 DEF Numbers
    <3>3. toLib[i].start \in Nat
      BY <3>1, LoadType
    <3> QED
      BY <3>1, <3>2, <3>3
  <2> QED
    BY <2>2, <2>3
<1>2. s \in Seq(Seq(Nat)) /\ s # <<>> /\ Head(s) = Numbers(toLib[1]) /\ 1 \in DOMAIN toLib
  <2>1. DOMAIN toLib = 1..Len(toLib) /\ Len(toLib) \in Nat /\ Len(toLib) >= 1
    BY DEF Fifos
  <2> QED
    BY <1>1, <2>1
<1>3. LibStart = FlattenSeq(s)
  BY DEF LibStart
<1> HIDE DEF s
<1>4. LibStart = Cat(Head(s), FlattenSeq(Tail(s)))
  BY <1>2, <1>3, FlattenTail
<1>5. Tail(s) \in Seq(Seq(Nat))
  BY <1>2
<1>6. FlattenSeq(Tail(s)) \in Seq(Nat)
  BY <1>5, FlattenType
<1>7. \A a, b \in Seq(Nat) : Len(a) >= 1 => Cat(a, b)[1] = a[1]
  BY DEF Cat
<1>8. Head(s) \in Seq(Nat) /\ Len(Head(s)) >= 1 /\ Head(s)[1] \in Load
  BY <1>1, <1>2
<1> QED
  BY <1>4, <1>6, <1>7, <1>8

\* The game's threads, with or without the library.
LEMMA DlopenTypes ==
    ASSUME StartInv, NEW t \in Threads, NEW n \in LibName, Dlopen(t, n)
    PROVE  StartInv'
<1>0. Typed /\ Fifos /\ Phases /\ GameRuns
  BY DEF StartInv, Dlopen
<1>1. base' \in [LibName -> Nat] /\ \A l \in LibName : base'[l] \in LoadAddr[l] \cup {0}
  <2>1. PICK a \in IF base[n] = 0 THEN LoadAddr[n] \cup {0} ELSE {base[n]} : base' = [base EXCEPT ![n] = a]
    BY DEF Dlopen
  <2>2. a \in LoadAddr[n] \cup {0}
    BY <1>0, <2>1 DEF Typed
  <2>3. a \in Nat
    BY <2>2, StartupAssumption
  <2> QED
    BY <1>0, <2>1, <2>2, <2>3 DEF Typed
<1>2. /\ call' \in CallSet
      /\ toUg' \in Seq(UgMsg)
      /\ \A u \in Threads : call'[u].at = "wait" => call'[u].lib \in LibName
  <2>1. CASE mh = "active"
    BY <2>1, AskType DEF Dlopen, CallSet
  <2>2. CASE mh # "active"
    BY <1>0, <2>2 DEF Dlopen, Typed, Fifos, Phases, CallSet
  <2> QED
    BY <2>1, <2>2
<1>3. UNCHANGED <<ug, mh, toLib, mhaddr, ugaddr, missed, gaveup>> /\ mh \in {"active", "inactive"}
  BY DEF Dlopen, GameRuns
<1>4. Typed'
  BY <1>0, <1>1, <1>2, <1>3 DEF Typed, CallSet
<1>5. Fifos'
  BY <1>0, <1>2, <1>3 DEF Fifos
<1>6. Phases'
  BY <1>0, <1>2, <1>3 DEF Phases, Ops
<1> QED
  BY <1>4, <1>5, <1>6 DEF StartInv

LEMMA LibReplyTypes ==
    ASSUME StartInv, NEW t \in Threads, LibReply(t)
    PROVE  StartInv'
<1>0. Typed /\ Fifos /\ Phases /\ GameRuns /\ toLib # <<>> /\ call[t].at = "wait"
  BY DEF StartInv, LibReply
<1> DEFINE n    == call[t].lib
           load == LibStart[1]
<1>1. n \in LibName /\ call[t].pos \in Nat /\ load \in Load
  <2>1. Len(UgKeys) \in Nat
    BY KeysType
  <2>2. "cfg" \notin Ops(toLib)
    BY <1>0 DEF Phases, GameRuns
  <2> QED
    BY <1>0, <2>1, <2>2, LibStartType DEF Phases, Typed
<1>2. \A key \in Key : Relocated(n, call[t].pos, load)[key] \in Load
  BY <1>0, <1>1 DEF Relocated, Typed
<1>3. Relocated(n, call[t].pos, load) \in [Key -> Load]
  BY <1>2 DEF Relocated
<1>a. Idle \in [at : {"run", "wait"}, lib : LibName \cup {Exe}, pos : 0..Len(UgKeys)] /\ Idle.at = "run"
  BY KeysType DEF Idle
<1>4. /\ call' \in CallSet
      /\ toUg' \in Seq(UgMsg)
      /\ \A u \in Threads : call'[u].at = "wait" => call'[u].lib \in LibName
      /\ mhaddr' \in [Key -> Load]
  <2>1. CASE Len(LibStart) < 2
    <3>1. call' = [call EXCEPT ![t] = Idle] /\ UNCHANGED <<toUg, mhaddr>>
      BY <2>1 DEF LibReply
    <3> QED
      BY <1>0, <1>a, <3>1 DEF Typed, Fifos, Phases, CallSet
  <2>2. CASE ~(Len(LibStart) < 2) /\ load = 0
    <3>1. Ask(t, n, call[t].pos) /\ UNCHANGED mhaddr
      BY <2>2 DEF LibReply
    <3> HIDE DEF n
    <3>2. /\ call' \in CallSet
          /\ toUg' \in Seq(UgMsg)
          /\ \A u \in Threads : call'[u].at = "wait" => call'[u].lib \in LibName
      BY <1>1, <3>1, AskType DEF CallSet
    <3> QED
      BY <1>0, <3>1, <3>2 DEF Typed
  <2>3. CASE ~(Len(LibStart) < 2) /\ load # 0
    <3>1. call' = [call EXCEPT ![t] = Idle] /\ UNCHANGED toUg /\ mhaddr' = Relocated(n, call[t].pos, load)
      BY <2>3 DEF LibReply
    <3> HIDE DEF n, load
    <3> QED
      BY <1>0, <1>3, <1>a, <3>1 DEF Typed, Fifos, Phases, CallSet
  <2> QED
    BY <2>1, <2>2, <2>3
<1>5. UNCHANGED <<ug, mh, base, ugaddr, missed, gaveup>> /\ mh \in {"active", "inactive"} /\ toLib' = <<>>
  BY DEF LibReply, GameRuns
<1>6. Typed'
  BY <1>0, <1>4, <1>5 DEF Typed, CallSet
<1>7. Fifos'
  BY <1>4, <1>5 DEF Fifos
<1>8. Phases'
  BY <1>0, <1>4, <1>5, NoOps DEF Phases, Ops
<1> QED
  BY <1>6, <1>7, <1>8 DEF StartInv
LEMMA ReportTypes ==
    ASSUME StartInv, NEW t \in Threads, NEW key \in Key, Report(t, key)
    PROVE  StartInv'
<1>0. Typed /\ Fifos /\ Phases
  BY DEF StartInv
<1> DEFINE msg == [op |-> "m", key |-> key, addr |-> mhaddr[key]]
<1>1. msg \in UgMsg
  BY <1>0, LoadType DEF Typed, UgMsg
<1>2. toUg' = Append(toUg, msg) /\ UNCHANGED <<ug, mh, toLib, base, mhaddr, ugaddr, call, missed, gaveup>>
  BY DEF Report
<1> HIDE DEF msg
<1>3. toUg' \in Seq(UgMsg)
  BY <1>0, <1>1, <1>2, Appended DEF Fifos
<1>4. Typed' /\ Fifos'
  BY <1>0, <1>2, <1>3 DEF Typed, Fifos
<1>5. Phases'
  <2>1. mh = "active"
    BY DEF Report
  <2> QED
    BY <1>0, <1>2, <2>1 DEF Phases, Ops
<1> QED
  BY <1>4, <1>5 DEF StartInv

\* A thread gives up, a library is closed, the game ends.
LEMMA GameTypes ==
    ASSUME StartInv,
           \/ \E t \in Threads : LibGiveUp(t) \/ (\E n \in LibName : Dlclose(t, n))
           \/ GameEnds
    PROVE  StartInv'
<1>0. Typed /\ Fifos /\ Phases
  BY DEF StartInv
<1>a. Idle \in [at : {"run", "wait"}, lib : LibName \cup {Exe}, pos : 0..Len(UgKeys)] /\ Idle.at = "run"
  BY KeysType DEF Idle
<1>1. ASSUME NEW t \in Threads, LibGiveUp(t) PROVE StartInv'
  <2>1. /\ call' = [call EXCEPT ![t] = Idle] /\ gaveup' \in BOOLEAN /\ mh \in {"active", "inactive"}
        /\ UNCHANGED <<ug, mh, toLib, toUg, base, mhaddr, ugaddr, missed>>
    BY <1>0, <1>1 DEF LibGiveUp, GameRuns, Typed, Owes, UgRunning
  <2>2. Typed' /\ Fifos'
    BY <1>0, <1>a, <2>1 DEF Typed, Fifos
  <2>3. Phases'
    BY <1>0, <1>a, <2>1 DEF Phases, Typed, Ops
  <2> QED
    BY <2>2, <2>3 DEF StartInv
<1>2. ASSUME NEW t \in Threads, NEW n \in LibName, Dlclose(t, n) PROVE StartInv'
  <2>1. /\ base' = [base EXCEPT ![n] = 0] /\ mh \in {"active", "inactive"}
        /\ UNCHANGED <<ug, mh, toLib, toUg, mhaddr, ugaddr, call, missed, gaveup>>
    BY <1>2 DEF Dlclose, GameRuns
  <2>2. Typed' /\ Fifos'
    BY <1>0, <2>1 DEF Typed, Fifos
  <2>3. Phases'
    BY <1>0, <2>1 DEF Phases, Ops
  <2> QED
    BY <2>2, <2>3 DEF StartInv
<1>3. CASE GameEnds
  <2>1. /\ mh' = "dead" /\ call' = [t \in Threads |-> Idle] /\ toLib' = <<>> /\ mh # "none"
        /\ UNCHANGED <<ug, toUg, base, mhaddr, ugaddr, missed, gaveup>>
    BY <1>3 DEF GameEnds
  <2>2. Typed' /\ Fifos'
    BY <1>0, <1>a, <2>1 DEF Typed, Fifos
  <2>3. Phases'
    BY <1>0, <1>a, <2>1, NoOps DEF Phases
  <2> QED
    BY <2>2, <2>3 DEF StartInv
<1> QED
  BY <1>1, <1>2, <1>3

\* The trainer reads a message in its main loop.
LEMMA ReadTypes ==
    ASSUME StartInv, GetLibLoadAddr \/ ReadMalloc \/ ReadStackEnd
    PROVE  StartInv'
<1>0. Typed /\ Fifos /\ Phases /\ toUg # <<>> /\ ug = "loop"
  BY DEF StartInv, GetLibLoadAddr, ReadMalloc, ReadStackEnd, ReadMsg
<1>1. /\ toUg' = Tail(toUg) /\ toUg' \in Seq(UgMsg) /\ Ops(toUg') \subseteq Ops(toUg)
      /\ Head(toUg) \in UgMsg /\ Head(toUg).op \in Ops(toUg)
  BY <1>0, Tailed DEF Fifos, GetLibLoadAddr, ReadMalloc, ReadStackEnd, ReadMsg
<1>2. UNCHANGED <<ug, mh, base, mhaddr, call, gaveup>>
  BY DEF GetLibLoadAddr, ReadMalloc, ReadStackEnd
<1>3. CASE ReadMalloc \/ ReadStackEnd
  <2>1. missed' \subseteq Key /\ UNCHANGED <<toLib, ugaddr>>
    BY <1>0, <1>1, <1>3 DEF ReadMalloc, ReadStackEnd, Typed, UgMsg, ReadMsg
  <2>2. Typed' /\ Fifos'
    BY <1>0, <1>1, <1>2, <2>1 DEF Typed, Fifos
  <2>3. Phases'
    BY <1>0, <1>1, <1>2, <2>1 DEF Phases, Ops
  <2> QED
    BY <2>2, <2>3 DEF StartInv
<1>4. CASE GetLibLoadAddr
  <2> DEFINE n == Head(toUg).lib
  <2>1. n \in LibName /\ Head(toUg).op = "l"
    BY <1>1, <1>4 DEF GetLibLoadAddr, ReadMsg, UgMsg
  <2>2. base[n] \in Load /\ base[n] \in Nat /\ base[n] + 1 \in Nat
    BY <1>0, <2>1, LoadType DEF Typed
  <2>3. missed' = missed
    BY <1>4 DEF GetLibLoadAddr
  <2>4. mh \notin {"openofd", "readcfg", "readoffs", "none", "loader", "openifd"}
    BY <1>0, <1>1, <2>1, NoOps DEF Phases
  <2>5. CASE base[n] = 0
    <3>1. UNCHANGED <<ugaddr, toLib>>
      BY <1>4, <2>5 DEF GetLibLoadAddr
    <3>2. Typed' /\ Fifos'
      BY <1>0, <1>1, <1>2, <2>3, <3>1 DEF Typed, Fifos
    <3>3. Phases'
      BY <1>0, <1>1, <1>2, <2>4, <3>1 DEF Phases, Ops
    <3> QED
      BY <3>2, <3>3 DEF StartInv
  <2>6. CASE base[n] # 0
    <3> DEFINE msg == [op |-> "bounds", start |-> base[n], end |-> base[n] + 1]
    <3>1. /\ ugaddr' = [key \in Key |-> IF LateKey(n, key) THEN base[n] ELSE ugaddr[key]]
          /\ toLib' = Append(toLib, msg)
      BY <1>4, <2>6 DEF GetLibLoadAddr
    <3>2. msg \in LibMsg /\ msg.op = "bounds"
      BY <2>2 DEF LibMsg
    <3> HIDE DEF msg, n
    <3>3. toLib' \in Seq(LibMsg) /\ Ops(toLib') = Ops(toLib) \cup {"bounds"}
      BY <1>0, <3>1, <3>2, Appended DEF Fifos
    <3>4. ugaddr' \in [Key -> Load]
      BY <1>0, <2>2, <3>1 DEF Typed
    <3>5. Typed' /\ Fifos'
      BY <1>0, <1>1, <1>2, <2>3, <3>3, <3>4 DEF Typed, Fifos
    <3>6. Phases'
      <4>1. Ops(toLib)' = Ops(toLib) \cup {"bounds"} /\ Ops(toUg)' \subseteq Ops(toUg)
        BY <1>1, <3>3 DEF Ops
      <4> QED
        BY <1>0, <1>2, <2>4, <4>1 DEF Phases
    <3> QED
      BY <3>5, <3>6 DEF StartInv
  <2> QED
    BY <2>5, <2>6
<1> QED
  BY <1>3, <1>4

LEMMA StartNext == StartInv /\ [Next]_vars => StartInv'
<1> SUFFICES ASSUME StartInv, [Next]_vars PROVE StartInv'
  OBVIOUS
<1>1. CASE UNCHANGED vars
  BY ZenonT(60), <1>1 DEF vars, StartInv, Typed, Fifos, Phases, Ops
<1>2. CASE UgStep
  BY <1>2, ProceedTypes, SendConfigTypes, HandleAslrTypes, ReadTypes DEF UgStep, Proceed
<1>3. CASE MhStep \/ GaveUp
  BY <1>3, ProceedTypes, ReadConfigTypes, ActivateTypes DEF MhStep, GaveUp, Proceed
<1>4. CASE GameEnds \/ \E t \in Threads : HookStep(t) \/ GameStep(t)
  BY <1>4, GameTypes, LibReplyTypes, DlopenTypes, ReportTypes DEF HookStep, GameStep
<1> QED
  BY <1>1, <1>2, <1>3, <1>4 DEF Next

LEMMA StartTypes == StartInv => StartupTypeOK
<1> SUFFICES ASSUME StartInv PROVE StartupTypeOK
  OBVIOUS
<1>1. \A i \in DOMAIN toLib : toLib[i].op \in {"cfg", "offs", "bounds"}
  <2>1. \A x \in LibMsg : x.op \in {"cfg", "offs", "bounds"}
    BY DEF LibMsg
  <2> HIDE DEF LibMsg
  <2> QED
    BY <2>1 DEF StartInv, Fifos
<1>2. \A i \in DOMAIN toUg : toUg[i].op \in {"ready", "S", "l", "m"}
  <2>1. \A x \in UgMsg : x.op \in {"ready", "S", "l", "m"}
    BY DEF UgMsg
  <2> HIDE DEF UgMsg
  <2> QED
    BY <2>1 DEF StartInv, Fifos
<1> QED
  BY <1>1, <1>2 DEF StartInv, Typed, StartupTypeOK

\* Whatever times out and however many threads open libraries: every address
\* the two sides hold is one of the loader's, every thread waits at a code
\* address of the config.
THEOREM StartupTypeAlways == Spec => []StartupTypeOK
<1>1. Init => StartInv
  BY StartInit
<1>2. StartInv /\ [Next]_vars => StartInv'
  BY StartNext
<1>3. StartInv => StartupTypeOK
  BY StartTypes
<1> QED
  BY <1>1, <1>2, <1>3, PTL DEF Spec
-----------------------------------------------------------------------------
(***************************************************************************)
(* One thread that opens libraries, and nobody has given up waiting.       *)
(*                                                                         *)
(* While nobody asks, both sides have added the same, and what is mapped   *)
(* is where they think it is.  A question is the last message in its FIFO, *)
(* so what is in front of it is about the addresses before the answer; the *)
(* trainer updates its own before it answers, and the thread reports       *)
(* nothing before it has the answer.                                       *)
(***************************************************************************)
StartGiven == OneGameThread /\ NamesDiffer /\ StackClassesLast /\ ConstsOfExe

Game == CHOOSE t \in Threads : Threads = {t}

Reportable(key) == ~Skipped(key) /\ Essentials(key).addr
Agree(key)      == Reportable(key) => mhaddr[key] = ugaddr[key]
RightPlace(key)   == Reportable(key) /\ Mapped(key) => mhaddr[key] = LoadOffs(Lib(key))
Offsets         == [op |-> "offs", offs |-> [i \in DOMAIN UgKeys |-> LoadOffs(Lib(UgKeys[i]))]]
Bounds(n)       == [op |-> "bounds", start |-> base[n], end |-> base[n] + 1]
Asked           == "l" \in Ops(toUg)

\* What the trainer is going to read about objects, it knows as things are.
Heard ==
    \A i \in DOMAIN toUg :
        /\ toUg[i].op \in {"l", "m"} => ug \in {"stack", "loop", "ended"}
        /\ toUg[i].op = "m" => ugaddr[toUg[i].key] = toUg[i].addr
        /\ toUg[i].op = "l" => i = Len(toUg)

Quiet ==
    /\ toLib = <<>> /\ ~Asked
    /\ \A key \in Key : Agree(key) /\ RightPlace(key)

\* The thread waits for the answer about library n: the question has not been
\* read, or the trainer has not found the library, or the answer is there.
Waiting(n) ==
    /\ \A key \in Key : Lib(key) # n => Agree(key) /\ RightPlace(key)
    /\ call[Game].pos \in Asking(n) /\ \A j \in Asking(n) : call[Game].pos <= j
    /\ \/ /\ toLib = <<>> /\ Asked /\ toUg[Len(toUg)].lib = n
          /\ \A key \in Key : Agree(key)
       \/ /\ toLib = <<>> /\ ~Asked /\ base[n] = 0
          /\ \A key \in Key : Agree(key)
       \/ /\ toLib = <<Bounds(n)>> /\ ~Asked /\ base[n] # 0
          /\ \A key \in Key : LateKey(n, key) => ugaddr[key] = base[n]

Dialogue ==
    /\ mh # "inactive"
    /\ mh = "readoffs" =>
         \/ ug = "aslr" /\ toUg = <<[op |-> "ready"]>> /\ toLib = <<>>
         \/ /\ ug \in {"stack", "loop"} /\ toUg = <<>> /\ toLib = <<Offsets>>
            /\ \A key \in Key : ugaddr[key] = LoadOffs(Lib(key))
    /\ mh = "active" =>
         /\ ug \in {"stack", "loop"}
         /\ call[Game].at = "run"  => Quiet
         /\ call[Game].at = "wait" => Waiting(call[Game].lib)

AgreeInv ==
    /\ StartInv
    /\ gaveup \/ /\ missed = {}
                 /\ SkipAslr  => "m" \notin Ops(toUg)
                 /\ ~SkipAslr => Dialogue /\ Heard

-----------------------------------------------------------------------------
(***************************************************************************)
(* What the hypotheses give.                                               *)
(***************************************************************************)
LEMMA OneGame ==
    ASSUME OneGameThread
    PROVE  Game \in Threads /\ \A t \in Threads : t = Game
BY DEF OneGameThread, Game

\* An offset is read at the position it was written at.
LEMMA OffsetsMatch ==
    ASSUME StackClassesLast, NEW key \in Key, Reportable(key)
    PROVE  TakeOffs(Offsets.offs, key) = LoadOffs(Lib(key))
<1> DEFINE offs == Offsets.offs
           slot == {j \in DOMAIN MhKeys : MhKeys[j] = key /\ j \in DOMAIN offs}
<1>1. offs = [i \in DOMAIN UgKeys |-> LoadOffs(Lib(UgKeys[i]))]
  BY DEF Offsets
<1> HIDE DEF offs
<1>2. UgKeys \in Seq(ConfigKey) /\ DOMAIN UgKeys = 1..Len(UgKeys) /\ Len(UgKeys) \in Nat
  BY KeysType
<1>3. PICK n \in 0..Len(UgKeys) : /\ MhKeys = SubSeq(UgKeys, 1, n)
                                  /\ \A i \in (n + 1)..Len(UgKeys) : Skipped(UgKeys[i])
  BY DEF StackClassesLast
<1>4. DOMAIN MhKeys = 1..n /\ \A j \in 1..n : MhKeys[j] = UgKeys[j] /\ j \in DOMAIN UgKeys
  BY <1>2, <1>3
<1>5. PICK i \in 1..Len(UgKeys) : UgKeys[i] = key
  BY <1>2 DEF Key, ToSet
<1>6. i \in slot
  <2>1. i \in 1..n
    BY <1>2, <1>3, <1>5 DEF Reportable
  <2> QED
    BY <1>1, <1>4, <1>5, <2>1
<1>7. \A j \in slot : offs[j] = LoadOffs(Lib(key))
  BY <1>1, <1>4
<1> QED
  BY <1>6, <1>7 DEF TakeOffs, Reportable, offs

\* A config of stack values alone reports no object.
LEMMA SkippedAll ==
    ASSUME StackClassesLast, SkipAslr, NEW key \in Key
    PROVE  Skipped(key)
<1>1. UgKeys \in Seq(ConfigKey) /\ DOMAIN UgKeys = 1..Len(UgKeys) /\ Len(UgKeys) \in Nat
  BY KeysType
<1>2. PICK n \in 0..Len(UgKeys) : /\ MhKeys = SubSeq(UgKeys, 1, n)
                                  /\ \A i \in (n + 1)..Len(UgKeys) : Skipped(UgKeys[i])
  BY DEF StackClassesLast
<1>3. n = 0
  <2>1. Len(SubSeq(UgKeys, 1, n)) = n
    BY <1>1, <1>2
  <2>2. MhKeys = <<>>
    BY DEF SkipAslr
  <2> QED
    BY <1>2, <2>1, <2>2
<1>4. PICK i \in 1..Len(UgKeys) : UgKeys[i] = key
  BY <1>1 DEF Key, ToSet
<1> QED
  BY <1>2, <1>3, <1>4

\* The code addresses a question about a mapped library is for are its own,
\* and the trainer updates the same ones.
LEMMA AskingOwn ==
    ASSUME NamesDiffer, NEW n \in LibName, LoadAddr[n] # {}, NEW key \in Key
    PROVE  (\E j \in Asking(n) : UgKeys[j] = key) <=> Lib(key) = n
<1>1. UgKeys \in Seq(ConfigKey) /\ DOMAIN UgKeys = 1..Len(UgKeys)
  BY KeysType
<1>2. PICK i \in DOMAIN UgKeys : UgKeys[i] = key
  BY <1>1 DEF Key, ToSet
<1>3. Lib(key) = n => i \in Asking(n)
  BY <1>2 DEF Asking, Lib, NamesDiffer
<1>4. \A j \in Asking(n) : UgKeys[j] = key => Lib(key) = n
  BY DEF Asking, Lib, NamesDiffer
<1> QED
  BY <1>2, <1>3, <1>4

LEMMA KeyKinds ==
    ASSUME ConstsOfExe, NEW key \in Key
    PROVE  /\ Class[key[1]].grow = NoGrow \/ key[2] = 0 \/ IsGrow(key)
           /\ \A n \in LibName : LateKey(n, key) <=> Lib(key) = n
<1> DEFINE c == key[1]
           k == key[2]
<1>1. key \in ConfigKey
  BY KeysType
<1>2. /\ c \in DOMAIN Class /\ k \in Nat
      /\ \/ k = 0
         \/ k \in DOMAIN Class[c].consts
         \/ k = GrowIdx(c) /\ Class[c].grow # NoGrow
  BY <1>1 DEF ConfigKey
<1>3. /\ \A j \in DOMAIN Class[c].consts : Class[c].consts[j].lib = Exe /\ j # GrowIdx(c) /\ j # 0
      /\ Class[c].grow # NoGrow => DOMAIN Class[c].consts = {}
  <2>1. Class[c].consts \in Seq(Ess)
    BY <1>2, ClassType
  <2>2. \A j \in DOMAIN Class[c].consts : j # GrowIdx(c) /\ j # 0
    BY <2>1 DEF GrowIdx
  <2> QED
    BY <1>2, <2>2 DEF ConstsOfExe
<1>4. Exe \notin LibName
  BY StartupAssumption
<1> HIDE DEF c, k
<1> QED
  BY <1>2, <1>3, <1>4 DEF LateKey, Lib, Essentials, IsGrow, c, k

\* A thread asks at the first code address there is.
LEMMA FirstAsk ==
    ASSUME NEW n \in LibName
    PROVE  /\ \A j \in NextAsk(n, 0) : j \in Asking(n) /\ \A i \in Asking(n) : j <= i
           /\ NextAsk(n, 0) = {} => Asking(n) = {}
<1>1. DOMAIN UgKeys = 1..Len(UgKeys) /\ Len(UgKeys) \in Nat
  BY KeysType
<1>2. Asking(n) \subseteq 1..Len(UgKeys)
  BY <1>1 DEF Asking
<1>3. ASSUME Asking(n) # {}
      PROVE  NextAsk(n, 0) # {}
  <2>1. PICK j \in Asking(n) : \A i \in Asking(n) : j <= i
    BY <1>1, <1>2, <1>3, LeastIndex
  <2> QED
    BY <1>2, <2>1 DEF NextAsk
<1> QED
  BY <1>2, <1>3 DEF NextAsk
-----------------------------------------------------------------------------
(***************************************************************************)
(* The steps, up to the library's activation.                              *)
(***************************************************************************)
LEMMA StartSame ==
    ASSUME Dialogue, Heard, mh' = mh \/ mh' \notin {"inactive", "readoffs", "active"},
           UNCHANGED <<toLib, toUg, base, mhaddr, ugaddr, call>>,
           ug' = ug \/ (ug \in {"prepare", "preloader", "openofd"} /\ mh' \notin {"readoffs", "active"})
                    \/ (ug = "stack" /\ ug' = "loop")
                    \/ (ug = "loop" /\ ug' = "ended" /\ mh' = "dead")
    PROVE  Dialogue' /\ Heard'
<1>1. Heard'
  BY DEF Heard
<1>2. UNCHANGED <<Quiet, Ops(toUg)>> /\ \A n : UNCHANGED Waiting(n)
  BY DEF Quiet, Waiting, Asked, Agree, RightPlace, Mapped, LoadOffs, Bounds, Ops
<1>3. UNCHANGED Offsets
  BY DEF Offsets, LoadOffs
<1>4. \A key \in Key : UNCHANGED LoadOffs(Lib(key))
  BY DEF LoadOffs
<1>5. mh = "active" /\ call[Game].at = "run" => Quiet
  BY DEF Dialogue
<1>6. mh = "active" /\ call[Game].at = "wait" => Waiting(call[Game].lib)
  BY DEF Dialogue
<1>7. Dialogue'
  BY <1>2, <1>3, <1>4, <1>5, <1>6 DEF Dialogue
<1> QED
  BY <1>1, <1>7

LEMMA ProceedAgrees ==
    ASSUME StartInv, Dialogue, Heard, Proceed, ~gaveup'
    PROVE  Dialogue' /\ Heard'
<1>1. ~ReadConfigFails
  BY DEF ReadConfigFails
<1>2. UNCHANGED <<toLib, toUg, base, mhaddr, ugaddr, call>>
  BY DEF Proceed, PrepareDynmem, GameFound, GameTooSlow, HandleStackEnd, CheckProcess,
         ExecGame, OpenIfd, OpenOfd, ReadConfigFails
<1>3. mh' = mh \/ mh' \notin {"inactive", "readoffs", "active"}
  BY <1>1 DEF Proceed, PrepareDynmem, GameFound, GameTooSlow, HandleStackEnd, CheckProcess,
              ExecGame, OpenIfd, OpenOfd
<1>4. \/ ug' = ug
      \/ (ug \in {"prepare", "preloader", "openofd"} /\ mh' \notin {"readoffs", "active"})
      \/ (ug = "stack" /\ ug' = "loop")
      \/ (ug = "loop" /\ ug' = "ended" /\ mh' = "dead")
  <2>1. ug = "preloader" => mh \notin {"readoffs", "active"}
    BY DEF Dialogue
  <2> QED
    BY <1>1, <2>1 DEF Proceed, PrepareDynmem, GameFound, GameTooSlow, HandleStackEnd, CheckProcess,
                ExecGame, OpenIfd, OpenOfd
<1> QED
  BY <1>2, <1>3, <1>4, StartSame

LEMMA OpeningAgrees ==
    ASSUME StartGiven, ~SkipAslr, StartInv, StartInv', Dialogue, Heard, ~gaveup',
           SendConfig \/ ReadConfig \/ HandleAslr
    PROVE  Dialogue' /\ Heard'
<1>1. CASE SendConfig
  <2>1. toUg = <<>> /\ toUg' = <<>> /\ mh' = mh /\ mh \in {"openofd", "readcfg"}
    BY <1>1 DEF SendConfig, StartInv, Phases
  <2> QED
    BY <2>1 DEF Dialogue, Heard
<1>2. CASE ReadConfig
  <2>1. toUg' = <<[op |-> "ready"]>> /\ toLib' = <<>> /\ mh' = "readoffs" /\ ug' = "aslr"
    <3>1. toUg' = <<[op |-> "ready"]>>
      BY <1>2, ReadConfigTypes
    <3> QED
      BY <1>2, <3>1 DEF ReadConfig, StartInv, Phases
  <2> QED
    BY <2>1 DEF Dialogue, Heard
<1>3. CASE HandleAslr
  <2>1. /\ \A key \in Key : ugaddr'[key] = LoadOffs(Lib(key))
        /\ toLib' = Append(toLib, Offsets)
    BY <1>3, HandleAslrTypes DEF Offsets
  <2>2. ug = "aslr" /\ ug' = "stack" /\ toUg # <<>> /\ toUg' = Tail(toUg) /\ UNCHANGED <<mh, base, call>>
    BY <1>3 DEF HandleAslr
  <2>3. mh \notin {"openofd", "readcfg", "active"}
    BY <2>2 DEF StartInv, Phases, Dialogue
  <2>4. \A i \in DOMAIN toUg' : i + 1 \in DOMAIN toUg /\ toUg'[i] = toUg[i + 1]
    BY <2>2, Tailed DEF StartInv, Fifos
  <2>5. \A i \in DOMAIN toUg : toUg[i].op \notin {"l", "m"}
    BY <2>2 DEF Heard
  <2>6. Heard'
    BY <2>4, <2>5 DEF Heard
  <2>7. mh = "readoffs" => toUg' = <<>> /\ toLib' = <<Offsets>>
    <3>1. mh = "readoffs" => toUg = <<[op |-> "ready"]>> /\ toLib = <<>>
      BY <2>2 DEF Dialogue
    <3>2. mh = "readoffs" => toUg' = Tail(<<[op |-> "ready"]>>) /\ toLib' = Append(<<>>, Offsets)
      BY <2>1, <2>2, <3>1
    <3> QED
      BY <3>2
  <2>8. UNCHANGED Offsets /\ \A key \in Key : UNCHANGED LoadOffs(Lib(key))
    BY <2>2 DEF Offsets, LoadOffs
  <2>9. Dialogue'
    BY <2>1, <2>2, <2>3, <2>7, <2>8 DEF Dialogue
  <2> QED
    BY <2>6, <2>9
<1> QED
  BY <1>1, <1>2, <1>3

LEMMA ReadOffsAgrees ==
    ASSUME StartGiven, StartInv, StartInv', Dialogue, ReadOffs
    PROVE  Dialogue' /\ Heard'
<1>1. mh = "readoffs" /\ toLib # <<>>
  BY DEF ReadOffs
<1>2. /\ ug \in {"stack", "loop"} /\ toUg = <<>> /\ toLib = <<Offsets>>
      /\ \A key \in Key : ugaddr[key] = LoadOffs(Lib(key))
  BY <1>1 DEF Dialogue
<1>3. Head(toLib) = Offsets
  BY <1>2
<1>4. /\ mhaddr' = [key \in Key |-> mhaddr[key] + TakeOffs(Offsets.offs, key)]
      /\ toLib' = <<>> /\ mh' = "active" /\ UNCHANGED <<ug, base, ugaddr, call>>
  BY <1>3 DEF ReadOffs
<1>5. ASSUME NEW key \in Key, Reportable(key)
      PROVE  mhaddr'[key] = LoadOffs(Lib(key))
  <2>1. TakeOffs(Offsets.offs, key) = LoadOffs(Lib(key))
    BY <1>5, OffsetsMatch DEF StartGiven
  <2>2. LoadOffs(Lib(key)) \in Nat
    BY LoadOffsType, LoadType DEF StartInv
  <2>3. mhaddr[key] = 0
    BY <1>1 DEF StartInv, Phases, Unmoved
  <2> QED
    BY <1>4, <2>1, <2>2, <2>3
<1>6. call[Game].at = "run"
  BY <1>1, OneGame DEF StartGiven, StartInv, Phases, Idle
<1>7. toUg' = <<[op |-> "S"]>>
  <2>1. toUg' = <<>> \o <<[op |-> "S"]>>
    BY <1>2 DEF ReadOffs, Activated
  <2> QED
    BY <2>1
<1>8. Quiet'
  <2>1. ~Asked'
    BY <1>7 DEF Asked, Ops
  <2>2. \A key \in Key : UNCHANGED LoadOffs(Lib(key))
    BY <1>4 DEF LoadOffs
  <2> QED
    BY <1>2, <1>4, <1>5, <2>1, <2>2 DEF Quiet, Agree, RightPlace
<1>9. Dialogue'
  BY <1>2, <1>4, <1>6, <1>8 DEF Dialogue
<1>10. Heard'
  BY <1>7 DEF Heard
<1> QED
  BY <1>9, <1>10
-----------------------------------------------------------------------------
(***************************************************************************)
(* The steps of the game's thread.                                         *)
(***************************************************************************)
LEMMA DlopenAgrees ==
    ASSUME StartGiven, StartInv, Dialogue, Heard, NEW n \in LibName, Dlopen(Game, n)
    PROVE  Dialogue' /\ Heard'
<1>1. /\ mh = "active" /\ call[Game].at = "run" /\ ug \in {"stack", "loop"} /\ Quiet
      /\ Ask(Game, n, 0) /\ UNCHANGED <<ug, mh, toLib, mhaddr, ugaddr, gaveup>>
  BY DEF Dialogue, Dlopen, GameRuns
<1>2. Game \in Threads /\ call \in CallSet /\ toUg \in Seq(UgMsg)
  BY OneGame DEF StartGiven, StartInv, Typed, Fifos, CallSet
<1>3. \A l \in LibName : l # n => base'[l] = base[l]
  BY DEF Dlopen, StartInv, Typed
<1>4. \A key \in Key : Lib(key) # n => (RightPlace(key) => RightPlace(key)')
  BY <1>1, <1>3, LibType DEF RightPlace, Mapped, LoadOffs, Lib
<1>5. \A key \in Key : Agree(key)'
  BY <1>1 DEF Quiet, Agree
<1>6. UgRunning
  BY <1>1 DEF UgRunning
<1>7. CASE NextAsk(n, 0) = {}
  <2>1. call' = [call EXCEPT ![Game] = Idle] /\ toUg' = toUg
    BY <1>1, <1>7 DEF Ask
  <2>2. \A key \in Key : Lib(key) # n
    <3> SUFFICES ASSUME NEW key \in Key, Lib(key) = n PROVE FALSE
      OBVIOUS
    <3>1. PICK i \in DOMAIN UgKeys : UgKeys[i] = key
      BY KeysType DEF Key, ToSet
    <3>2. i \in Asking(n)
      BY <3>1 DEF Asking, Lib, StartGiven, NamesDiffer
    <3> QED
      BY <1>7, <3>2, FirstAsk
  <2>3. Quiet'
    BY <1>1, <1>4, <1>5, <2>1, <2>2 DEF Quiet, Asked, Ops
  <2>4. call'[Game].at = "run"
    BY <1>2, <2>1 DEF CallSet, Idle
  <2> QED
    BY <1>1, <2>1, <2>3, <2>4 DEF Dialogue, Heard
<1>8. CASE NextAsk(n, 0) # {}
  <2>1. PICK j \in NextAsk(n, 0) : call' = [call EXCEPT ![Game] = [at |-> "wait", lib |-> n, pos |-> j]]
    BY <1>1, <1>6, <1>8 DEF Ask
  <2>2. call'[Game] = [at |-> "wait", lib |-> n, pos |-> j]
    BY <1>2, <2>1 DEF CallSet
  <2> DEFINE msg == [op |-> "l", lib |-> n]
  <2>3. toUg' = Append(toUg, msg) /\ msg \in UgMsg /\ msg.op = "l" /\ msg.lib = n
    BY <1>1, <1>6, <1>8 DEF Ask, UgMsg
  <2> HIDE DEF msg
  <2>4. /\ Len(toUg') = Len(toUg) + 1 /\ toUg'[Len(toUg) + 1] = msg
        /\ \A i \in DOMAIN toUg' : i = Len(toUg) + 1 \/ (i \in DOMAIN toUg /\ toUg'[i] = toUg[i])
        /\ Ops(toUg') = Ops(toUg) \cup {"l"}
    BY <1>2, <2>3, Appended
  <2>5. \A i \in DOMAIN toUg : toUg[i].op # "l"
    BY <1>1 DEF Quiet, Asked, Ops
  <2>6. Heard'
    BY <1>1, <2>3, <2>4, <2>5 DEF Heard
  <2>7. Waiting(n)'
    <3>1. Asked'
      BY <2>4 DEF Asked, Ops
    <3>2. call'[Game].pos \in Asking(n) /\ \A i \in Asking(n) : call'[Game].pos <= i
      BY <2>2, FirstAsk
    <3>3. toUg'[Len(toUg')].lib = n
      BY <2>3, <2>4
    <3> QED
      BY <1>1, <1>4, <1>5, <3>1, <3>2, <3>3 DEF Waiting, Quiet
  <2> QED
    BY <1>1, <2>2, <2>6, <2>7 DEF Dialogue
<1> QED
  BY <1>7, <1>8

LEMMA LibReplyAgrees ==
    ASSUME StartGiven, StartInv, Dialogue, Heard, LibReply(Game)
    PROVE  Dialogue' /\ Heard'
<1> DEFINE n == call[Game].lib
<1>1. /\ mh = "active" /\ call[Game].at = "wait" /\ ug \in {"stack", "loop"} /\ Waiting(n)
      /\ toLib # <<>> /\ toLib' = <<>>
      /\ UNCHANGED <<ug, mh, base, ugaddr, missed, gaveup>>
  BY DEF Dialogue, LibReply, GameRuns
<1>2. Game \in Threads /\ call \in CallSet /\ n \in LibName
  BY <1>1, OneGame DEF StartGiven, StartInv, Typed, Phases, CallSet
<1>3. /\ toLib = <<Bounds(n)>> /\ ~Asked /\ base[n] # 0
      /\ \A key \in Key : LateKey(n, key) => ugaddr[key] = base[n]
  BY <1>1 DEF Waiting
<1>4. base[n] \in Nat /\ LoadAddr[n] # {}
  BY <1>2, <1>3 DEF StartInv, Typed
<1>5. LibStart = <<base[n], base[n] + 1>>
  <2>1. [i \in DOMAIN toLib |-> Numbers(toLib[i])] = <<Numbers(Bounds(n))>>
    BY <1>3
  <2>2. Numbers(Bounds(n)) = <<base[n], base[n] + 1>>
    BY DEF Numbers, Bounds
  <2>3. Numbers(Bounds(n)) \in Seq(Nat)
    BY <1>4, <2>2
  <2>4. FlattenSeq(<<Numbers(Bounds(n))>>) = Numbers(Bounds(n))
    BY <2>3, FlattenOne
  <2> QED
    BY <2>1, <2>2, <2>4 DEF LibStart
<1>6. Len(LibStart) = 2 /\ LibStart[1] = base[n]
  BY <1>4, <1>5
<1>7. /\ mhaddr' = Relocated(n, call[Game].pos, base[n])
      /\ call' = [call EXCEPT ![Game] = Idle] /\ toUg' = toUg
  BY <1>3, <1>6 DEF LibReply
<1>8. ASSUME NEW key \in Key
      PROVE  mhaddr'[key] = IF Lib(key) = n THEN base[n] ELSE mhaddr[key]
  <2>1. \A j \in Asking(n) : call[Game].pos <= j
    BY <1>1 DEF Waiting
  <2>2. Asking(n) \subseteq Nat /\ call[Game].pos \in Nat
    BY <1>1, KeysType DEF Waiting, Asking
  <2>3. (\E j \in Asking(n) : j >= call[Game].pos /\ UgKeys[j] = key) <=> Lib(key) = n
    <3>1. \A j \in Asking(n) : j >= call[Game].pos
      BY <2>1, <2>2
    <3>2. (\E j \in Asking(n) : UgKeys[j] = key) <=> Lib(key) = n
      BY <1>2, <1>4, AskingOwn DEF StartGiven
    <3> QED
      BY <3>1, <3>2
  <2> QED
    BY <1>7, <2>3 DEF Relocated
<1>9. \A key \in Key : Lib(key) = n => ugaddr[key] = base[n]
  BY <1>2, <1>3, KeyKinds DEF StartGiven
<1>10. Exe \notin LibName
  BY StartupAssumption
<1>11. Quiet'
  <2>1. \A key \in Key : Agree(key)' /\ RightPlace(key)'
    <3> SUFFICES ASSUME NEW key \in Key PROVE Agree(key)' /\ RightPlace(key)'
      OBVIOUS
    <3>1. CASE Lib(key) = n
      <4> HIDE DEF n
      <4>1. mhaddr'[key] = base[n] /\ ugaddr'[key] = base[n] /\ base' = base
        BY <1>1, <1>8, <1>9, <3>1
      <4>2. LoadOffs(Lib(key))' = base[n]
        BY <1>2, <1>10, <3>1, <4>1 DEF LoadOffs
      <4> QED
        BY <4>1, <4>2 DEF Agree, RightPlace
    <3>2. CASE Lib(key) # n
      <4>1. Agree(key) /\ RightPlace(key)
        BY <1>1, <3>2 DEF Waiting
      <4>2. mhaddr'[key] = mhaddr[key] /\ UNCHANGED <<ugaddr, base>>
        BY <1>1, <1>8, <3>2
      <4> QED
        BY <4>1, <4>2 DEF Agree, RightPlace, Mapped, LoadOffs
    <3> QED
      BY <3>1, <3>2
  <2>2. ~Asked'
    BY <1>3, <1>7 DEF Asked, Ops
  <2> QED
    BY <1>1, <2>1, <2>2 DEF Quiet
<1>12. call'[Game].at = "run"
  BY <1>2, <1>7 DEF CallSet, Idle
<1> QED
  BY <1>1, <1>7, <1>11, <1>12 DEF Dialogue, Heard

LEMMA GiveUpAgrees ==
    ASSUME StartGiven, StartInv, Dialogue, Heard, LibGiveUp(Game), ~gaveup'
    PROVE  Dialogue' /\ Heard'
<1> DEFINE n == call[Game].lib
<1>1. /\ mh = "active" /\ call[Game].at = "wait" /\ ug \in {"stack", "loop"} /\ Waiting(n)
      /\ toLib = <<>> /\ ~Owes /\ call' = [call EXCEPT ![Game] = Idle]
      /\ UNCHANGED <<ug, mh, toLib, toUg, base, mhaddr, ugaddr, missed>>
  BY DEF Dialogue, LibGiveUp, GameRuns
<1>2. Game \in Threads /\ call \in CallSet /\ n \in LibName /\ Exe \notin LibName
  BY <1>1, OneGame, StartupAssumption DEF StartGiven, StartInv, Typed, Phases, CallSet
<1>3. ~Asked
  BY <1>1 DEF Owes, UgRunning, Asked, Ops
<1>4. base[n] = 0 /\ \A key \in Key : Agree(key)
  BY <1>1, <1>3 DEF Waiting
<1>5. \A key \in Key : RightPlace(key)
  <2> SUFFICES ASSUME NEW key \in Key PROVE RightPlace(key)
    OBVIOUS
  <2>1. CASE Lib(key) = n
    BY <1>2, <1>4, <2>1 DEF RightPlace, Mapped, Lib
  <2>2. CASE Lib(key) # n
    BY <1>1, <2>2 DEF Waiting
  <2> QED
    BY <2>1, <2>2
<1>6. Quiet'
  BY <1>1, <1>3, <1>4, <1>5 DEF Quiet, Asked, Ops, Agree, RightPlace, Mapped, LoadOffs
<1>7. call'[Game].at = "run"
  BY <1>1, <1>2 DEF CallSet, Idle
<1> QED
  BY <1>1, <1>6, <1>7 DEF Dialogue, Heard

LEMMA DlcloseAgrees ==
    ASSUME StartGiven, StartInv, Dialogue, Heard, NEW n \in LibName, Dlclose(Game, n)
    PROVE  Dialogue' /\ Heard'
<1>1. /\ mh = "active" /\ call[Game].at = "run" /\ Quiet
      /\ base' = [base EXCEPT ![n] = 0]
      /\ UNCHANGED <<ug, mh, toLib, toUg, mhaddr, ugaddr, call, missed, gaveup>>
  BY DEF Dialogue, Dlclose, GameRuns
<1>2. base'[n] = 0 /\ \A l \in LibName : l # n => base'[l] = base[l]
  BY <1>1 DEF StartInv, Typed
<1>3. \A key \in Key : RightPlace(key)'
  <2> SUFFICES ASSUME NEW key \in Key PROVE RightPlace(key)'
    OBVIOUS
  <2>1. Lib(key) \in LibName \cup {Exe} /\ RightPlace(key) /\ Exe \notin LibName
    BY <1>1, LibType, StartupAssumption DEF Quiet
  <2>2. CASE Lib(key) = n
    BY <1>2, <2>1, <2>2 DEF RightPlace, Mapped, Lib
  <2>3. CASE Lib(key) # n
    BY <1>1, <1>2, <2>1, <2>3 DEF RightPlace, Mapped, LoadOffs, Lib
  <2> QED
    BY <2>2, <2>3
<1>4. Quiet'
  BY <1>1, <1>3 DEF Quiet, Asked, Ops, Agree
<1> QED
  BY <1>1, <1>4 DEF Dialogue, Heard

LEMMA ReportAgrees ==
    ASSUME StartGiven, StartInv, Dialogue, Heard, NEW key \in Key, Report(Game, key)
    PROVE  Dialogue' /\ Heard'
<1> DEFINE msg == [op |-> "m", key |-> key, addr |-> mhaddr[key]]
<1>1. /\ mh = "active" /\ call[Game].at = "run" /\ Quiet /\ ug \in {"stack", "loop"}
      /\ toUg' = Append(toUg, msg) /\ Reportable(key)
      /\ UNCHANGED <<ug, mh, toLib, base, mhaddr, ugaddr, call, missed, gaveup>>
  BY DEF Dialogue, Report, Reportable
<1>2. msg \in UgMsg /\ msg.op = "m" /\ msg.key = key /\ msg.addr = mhaddr[key] /\ toUg \in Seq(UgMsg)
  BY LoadType DEF StartInv, Typed, Fifos, UgMsg
<1> HIDE DEF msg
<1>3. /\ Len(toUg') = Len(toUg) + 1 /\ toUg'[Len(toUg) + 1] = msg
      /\ \A i \in DOMAIN toUg' : i = Len(toUg) + 1 \/ (i \in DOMAIN toUg /\ toUg'[i] = toUg[i])
      /\ Ops(toUg') = Ops(toUg) \cup {"m"}
  BY <1>1, <1>2, Appended
<1>4. ugaddr[key] = mhaddr[key]
  BY <1>1 DEF Quiet, Agree
<1>5. \A i \in DOMAIN toUg : toUg[i].op # "l"
  BY <1>1 DEF Quiet, Asked, Ops
<1>6. Heard'
  BY <1>1, <1>2, <1>3, <1>4, <1>5 DEF Heard
<1>7. Quiet'
  <2>1. ~Asked'
    <3>1. ~Asked /\ Ops(toUg)' = Ops(toUg) \cup {"m"}
      BY <1>1, <1>3 DEF Quiet, Ops
    <3> QED
      BY <3>1 DEF Asked
  <2> QED
    BY <1>1, <2>1 DEF Quiet, Agree, RightPlace, Mapped, LoadOffs
<1> QED
  BY <1>1, <1>6, <1>7 DEF Dialogue
-----------------------------------------------------------------------------
(***************************************************************************)
(* The trainer's steps in its main loop.                                   *)
(***************************************************************************)
LEMMA LibLoadAgrees ==
    ASSUME StartGiven, StartInv, Dialogue, Heard, GetLibLoadAddr
    PROVE  Dialogue' /\ Heard'
<1>1. /\ ug = "loop" /\ toUg # <<>> /\ Head(toUg).op = "l" /\ toUg' = Tail(toUg)
      /\ UNCHANGED <<ug, mh, base, mhaddr, call, missed, gaveup>>
  BY DEF GetLibLoadAddr, ReadMsg
<1>2. toUg \in Seq(UgMsg) /\ Head(toUg) = toUg[1] /\ 1 \in DOMAIN toUg
  BY <1>1, Tailed DEF StartInv, Fifos
<1>n. PICK n \in LibName : Head(toUg).lib = n
  <2>1. Head(toUg) \in UgMsg
    BY <1>1, Tailed DEF StartInv, Fifos
  <2> QED
    BY <1>1, <2>1 DEF UgMsg
<1>3. Len(toUg) = 1
  BY <1>1, <1>2 DEF Heard
<1>4. toUg' = <<>>
  BY <1>1, <1>2, <1>3
<1>5. Heard'
  BY <1>4 DEF Heard
<1>6. Asked /\ mh # "readoffs"
  <2>1. "l" \in Ops(toUg)
    BY <1>1, <1>2 DEF Ops
  <2> QED
    BY <2>1 DEF Asked, StartInv, Phases
<1>7. Dialogue'
  <2>1. CASE mh # "active"
    BY <1>1, <1>6, <2>1 DEF Dialogue
  <2>2. CASE mh = "active"
    <3>0. call[Game].at # "run"
      BY <1>6, <2>2 DEF Dialogue, Quiet
    <3>1. CASE call[Game].at # "wait"
      BY <1>1, <2>2, <3>0, <3>1 DEF Dialogue
    <3>2. CASE call[Game].at = "wait"
      <4>1. Waiting(call[Game].lib) /\ call[Game].lib = n /\ toLib = <<>> /\ \A key \in Key : Agree(key)
        BY <1>2, <1>n, <1>3, <1>6, <2>2, <3>2 DEF Dialogue, Waiting
      <4>2. ~Asked'
        BY <1>4, NoOps DEF Asked
      <4>5. Waiting(n)'
        <5>1. CASE base[n] = 0
          <6>1. UNCHANGED <<ugaddr, toLib>>
            BY <1>1, <1>n, <5>1 DEF GetLibLoadAddr
          <6> QED
            BY <1>1, <4>1, <4>2, <5>1, <6>1 DEF Waiting, Agree, RightPlace, Mapped, LoadOffs
        <5>2. CASE base[n] # 0
          <6>1. /\ ugaddr' = [key \in Key |-> IF LateKey(n, key) THEN base[n] ELSE ugaddr[key]]
                /\ toLib' = Append(<<>>, Bounds(n))
            BY <1>1, <1>n, <4>1, <5>2 DEF GetLibLoadAddr, Bounds
          <6>2. toLib' = <<Bounds(n)>>
            BY <6>1
          <6>3. \A key \in Key : LateKey(n, key) => ugaddr'[key] = base[n]
            BY <6>1
          <6>4. \A key \in Key : Lib(key) # n => ugaddr'[key] = ugaddr[key]
            BY <6>1 DEF LateKey, Lib
          <6>5. \A key \in Key : Lib(key) # n => Agree(key)' /\ RightPlace(key)'
            BY <1>1, <4>1, <6>4 DEF Waiting, Agree, RightPlace, Mapped, LoadOffs
          <6>6. Bounds(n)' = Bounds(n)
            BY <1>1 DEF Bounds
          <6> QED
            BY <1>1, <4>1, <4>2, <5>2, <6>2, <6>3, <6>5, <6>6 DEF Waiting
        <5> QED
          BY <5>1, <5>2
      <4> QED
        BY <1>1, <2>2, <3>2, <4>1, <4>5 DEF Dialogue
    <3> QED
      BY <3>1, <3>2
  <2> QED
    BY <2>1, <2>2
<1> QED
  BY <1>5, <1>7

LEMMA ReadAgrees ==
    ASSUME StartGiven, StartInv, Dialogue, Heard, ReadMalloc \/ ReadStackEnd
    PROVE  Dialogue' /\ Heard' /\ missed' = missed
<1>1. /\ ug = "loop" /\ toUg # <<>> /\ toUg' = Tail(toUg) /\ Head(toUg).op \in {"m", "S"}
      /\ UNCHANGED <<ug, mh, toLib, base, mhaddr, ugaddr, call, gaveup>>
  BY DEF ReadMalloc, ReadStackEnd, ReadMsg
<1>2. /\ toUg \in Seq(UgMsg) /\ Head(toUg) = toUg[1] /\ 1 \in DOMAIN toUg /\ Head(toUg) \in UgMsg
      /\ Len(toUg') = Len(toUg) - 1 /\ Len(toUg) \in Nat \ {0} /\ toUg' \in Seq(UgMsg)
      /\ \A i \in DOMAIN toUg' : i + 1 \in DOMAIN toUg /\ toUg'[i] = toUg[i + 1]
      /\ DOMAIN toUg = 1..Len(toUg) /\ DOMAIN toUg' = 1..Len(toUg')
  BY <1>1, Tailed DEF StartInv, Fifos
<1>3. missed' = missed
  <2>1. CASE ReadMalloc
    <3>1. Head(toUg).op = "m" /\ Head(toUg).key \in Key
      BY <1>2, <2>1 DEF ReadMalloc, ReadMsg, UgMsg
    <3>2. ugaddr[Head(toUg).key] = Head(toUg).addr
      BY <1>2, <3>1 DEF Heard
    <3>3. Recognised(Head(toUg))
      BY <3>1, <3>2, KeyKinds DEF Recognised, StartGiven
    <3> QED
      BY <2>1, <3>3 DEF ReadMalloc
  <2>2. CASE ReadStackEnd
    BY <2>2 DEF ReadStackEnd
  <2> QED
    BY <2>1, <2>2
<1>4. Heard'
  <2> SUFFICES ASSUME NEW i \in DOMAIN toUg'
               PROVE  /\ toUg'[i].op \in {"l", "m"} => ug' \in {"stack", "loop", "ended"}
                      /\ toUg'[i].op = "m" => ugaddr'[toUg'[i].key] = toUg'[i].addr
                      /\ toUg'[i].op = "l" => i = Len(toUg')
    BY DEF Heard
  <2>1. i + 1 \in DOMAIN toUg /\ toUg'[i] = toUg[i + 1] /\ i \in Nat
    BY <1>2
  <2> QED
    BY <1>1, <1>2, <2>1 DEF Heard
<1>5. Asked <=> Asked'
  <2>1. ASSUME Asked PROVE Asked'
    <3>1. PICK i \in DOMAIN toUg : toUg[i].op = "l"
      BY <2>1 DEF Asked, Ops
    <3>2. i # 1
      BY <1>1, <1>2, <3>1
    <3>3. i - 1 \in DOMAIN toUg' /\ (i - 1) + 1 = i
      BY <1>2, <3>2
    <3>4. toUg'[i - 1].op = "l"
      BY <1>2, <3>1, <3>3
    <3> QED
      BY <3>3, <3>4 DEF Asked, Ops
  <2>2. ASSUME Asked' PROVE Asked
    BY <1>2, <2>2 DEF Asked, Ops
  <2> QED
    BY <2>1, <2>2
<1>6. ASSUME Asked PROVE toUg'[Len(toUg')] = toUg[Len(toUg)]
  <2>1. PICK i \in DOMAIN toUg' : toUg'[i].op = "l"
    BY <1>5, <1>6 DEF Asked, Ops
  <2>2. i = Len(toUg')
    BY <1>4, <2>1 DEF Heard
  <2> QED
    BY <1>2, <2>1, <2>2
<1>7. Dialogue'
  <2>1. mh # "readoffs"
    <3>1. Head(toUg).op \in Ops(toUg)
      BY <1>2 DEF Ops
    <3> QED
      BY <1>1, <3>1 DEF StartInv, Phases
  <2>2. Quiet => Quiet'
    BY <1>1, <1>5 DEF Quiet, Agree, RightPlace, Mapped, LoadOffs
  <2>3. ASSUME NEW n, Waiting(n) PROVE Waiting(n)'
    BY <1>1, <1>5, <1>6, <2>3 DEF Waiting, Agree, RightPlace, Mapped, LoadOffs, Bounds
  <2> QED
    BY <1>1, <2>1, <2>2, <2>3 DEF Dialogue
<1> QED
  BY <1>3, <1>4, <1>7

\* A config of stack values alone: no report.
LEMMA NothingReported ==
    ASSUME StartGiven, SkipAslr, StartInv, "m" \notin Ops(toUg), Next
    PROVE  "m" \notin Ops(toUg') /\ missed' = missed
<1>0. toUg \in Seq(UgMsg)
  BY DEF StartInv, Fifos
<1>1. CASE Proceed \/ SendConfig
  BY <1>1 DEF Proceed, PrepareDynmem, GameFound, GameTooSlow, HandleStackEnd, CheckProcess,
       ExecGame, OpenIfd, OpenOfd, ReadConfigFails, SendConfig
<1>2. CASE ReadConfig
  BY <1>2, ReadConfigTypes DEF ReadConfig
<1>3. CASE ReadOffs \/ ReadOffsFails
  <2>1. missed' = missed
    BY <1>3 DEF ReadOffs, ReadOffsFails
  <2> QED
    BY <1>3, <2>1, ActivateTypes
<1>4. CASE HandleAslr \/ GetLibLoadAddr \/ ReadMalloc \/ ReadStackEnd
  <2>1. toUg # <<>> /\ toUg' = Tail(toUg)
    BY <1>4 DEF HandleAslr, GetLibLoadAddr, ReadMalloc, ReadStackEnd, ReadMsg
  <2>2. Ops(Tail(toUg)) \subseteq Ops(toUg) /\ Head(toUg).op \in Ops(toUg)
    BY <1>0, <2>1, Tailed
  <2>3. ~ReadMalloc
    BY <2>2 DEF ReadMalloc, ReadMsg
  <2>4. missed' = missed
    BY <1>4, <2>3 DEF HandleAslr, GetLibLoadAddr, ReadStackEnd
  <2> QED
    BY <2>1, <2>2, <2>4
<1>5. ASSUME NEW t \in Threads, NEW n, NEW pos, Ask(t, n, pos), n \in LibName
      PROVE  "m" \notin Ops(toUg')
  <2>1. CASE UNCHANGED toUg
    BY <2>1
  <2>2. CASE toUg' = Append(toUg, [op |-> "l", lib |-> n])
    <3> DEFINE msg == [op |-> "l", lib |-> n]
    <3>1. msg \in UgMsg /\ msg.op = "l"
      BY <1>5 DEF UgMsg
    <3>2. toUg' = Append(toUg, msg)
      BY <2>2
    <3> HIDE DEF msg
    <3>3. Ops(Append(toUg, msg)) = Ops(toUg) \cup {"l"}
      BY <1>0, <3>1, Appended
    <3> QED
      BY <3>2, <3>3
  <2> QED
    BY <1>5, <2>1, <2>2 DEF Ask
<1>6. ASSUME NEW t \in Threads, NEW n \in LibName, Dlopen(t, n)
      PROVE  "m" \notin Ops(toUg') /\ missed' = missed
  BY <1>5, <1>6 DEF Dlopen
<1>7. ASSUME NEW t \in Threads, LibReply(t)
      PROVE  "m" \notin Ops(toUg') /\ missed' = missed
  <2>1. call[t].lib \in LibName
    BY <1>7 DEF LibReply, StartInv, Phases
  <2>2. UNCHANGED toUg \/ Ask(t, call[t].lib, call[t].pos)
    BY <1>7 DEF LibReply
  <2>3. missed' = missed
    BY <1>7 DEF LibReply
  <2>4. "m" \notin Ops(toUg')
    BY <1>5, <2>1, <2>2
  <2> QED
    BY <2>3, <2>4
<1>8. ASSUME NEW t \in Threads, NEW key \in Key, Report(t, key)
      PROVE  FALSE
  BY <1>8, SkippedAll DEF Report, StartGiven
<1>9. CASE GameEnds \/ \E t \in Threads : LibGiveUp(t) \/ \E n \in LibName : Dlclose(t, n)
  BY <1>9 DEF GameEnds, LibGiveUp, Dlclose
<1> QED
  BY <1>1, <1>2, <1>3, <1>4, <1>6, <1>7, <1>8, <1>9
     DEF Next, UgStep, MhStep, GaveUp, HookStep, GameStep, Proceed
LEMMA AgreeInit == Init /\ StartGiven => AgreeInv
<1> SUFFICES ASSUME Init, StartGiven PROVE AgreeInv
  OBVIOUS
<1>1. Heard
  BY DEF Init, Heard
<1>2. Dialogue
  BY DEF Init, Dialogue
<1> QED
  BY <1>1, <1>2, StartInit, NoOps DEF AgreeInv, Init

LEMMA AgreeNext ==
    ASSUME StartGiven, AgreeInv, [Next]_vars
    PROVE  AgreeInv'
<1>0. StartInv /\ StartInv'
  BY StartNext DEF AgreeInv
<1> SUFFICES ASSUME ~gaveup'
             PROVE  /\ missed' = {}
                    /\ SkipAslr  => "m" \notin Ops(toUg')
                    /\ ~SkipAslr => Dialogue' /\ Heard'
  BY <1>0 DEF AgreeInv
<1>1. ~gaveup
  <2>1. gaveup \in BOOLEAN
    BY <1>0 DEF StartInv, Typed
  <2>2. gaveup' = gaveup \/ gaveup'
    BY <2>1 DEF Next, vars, UgStep, MhStep, GaveUp, HookStep, GameStep, PrepareDynmem, GameFound,
           SendConfig, HandleAslr, HandleStackEnd, GetLibLoadAddr, ReadMalloc, ReadStackEnd,
           CheckProcess, ExecGame, OpenIfd, OpenOfd, ReadConfig, ReadOffs, ReadConfigFails,
           ReadOffsFails, GameTooSlow, GameEnds, LibReply, LibGiveUp, Dlopen, Dlclose, Report
  <2> QED
    BY <2>2
<1>2. /\ missed = {}
      /\ SkipAslr  => "m" \notin Ops(toUg)
      /\ ~SkipAslr => Dialogue /\ Heard
  BY <1>1 DEF AgreeInv
<1>3. CASE UNCHANGED vars
  <2>1. UNCHANGED <<toUg, missed, Ops(toUg)>>
    BY <1>3 DEF vars, Ops
  <2>2. Dialogue /\ Heard => Dialogue' /\ Heard'
    BY <1>3, StartSame DEF vars
  <2> QED
    BY <1>2, <2>1, <2>2
<1>4. CASE Next /\ SkipAslr
  BY <1>0, <1>2, <1>4, NothingReported
<1>5. CASE Next /\ ~SkipAslr
  <2>0. Dialogue /\ Heard
    BY <1>2, <1>5
  <2>1. CASE Proceed
    <3>1. missed' = missed
      BY <2>1 DEF Proceed, PrepareDynmem, GameFound, GameTooSlow, HandleStackEnd, CheckProcess,
                  ExecGame, OpenIfd, OpenOfd, ReadConfigFails
    <3> QED
      BY <1>0, <1>2, <1>5, <2>0, <2>1, <3>1, ProceedAgrees
  <2>2. CASE SendConfig \/ ReadConfig \/ HandleAslr
    <3>1. missed' = missed
      BY <2>2 DEF SendConfig, ReadConfig, HandleAslr
    <3> QED
      BY <1>0, <1>2, <1>5, <2>0, <2>2, <3>1, OpeningAgrees
  <2>3. CASE ReadOffs
    <3>1. missed' = missed
      BY <2>3 DEF ReadOffs
    <3> QED
      BY <1>0, <1>2, <1>5, <2>0, <2>3, <3>1, ReadOffsAgrees
  <2>4. CASE ReadOffsFails
    BY <2>4 DEF ReadOffsFails
  <2>5. CASE GetLibLoadAddr
    <3>1. missed' = missed
      BY <2>5 DEF GetLibLoadAddr
    <3> QED
      BY <1>0, <1>2, <1>5, <2>0, <2>5, <3>1, LibLoadAgrees
  <2>6. CASE ReadMalloc \/ ReadStackEnd
    BY <1>0, <1>2, <1>5, <2>0, <2>6, ReadAgrees
  <2>7. CASE GameEnds
    <3>1. mh' = "dead" /\ UNCHANGED <<missed, ug, toUg, ugaddr>>
      BY <2>7 DEF GameEnds
    <3>2. Dialogue' /\ Heard'
      BY <2>0, <3>1 DEF Dialogue, Heard
    <3> QED
      BY <1>2, <1>5, <3>1, <3>2
  <2>8. ASSUME NEW t \in Threads, HookStep(t) \/ GameStep(t)
        PROVE  Dialogue' /\ Heard' /\ missed' = missed
    <3>0. t = Game
      BY OneGame DEF StartGiven
    <3>1. CASE LibReply(Game)
      BY <1>0, <2>0, <3>1, LibReplyAgrees DEF LibReply
    <3>2. CASE LibGiveUp(Game)
      BY <1>0, <2>0, <3>2, GiveUpAgrees DEF LibGiveUp
    <3>3. CASE \E n \in LibName : Dlopen(Game, n)
      BY <1>0, <2>0, <3>3, DlopenAgrees DEF Dlopen
    <3>4. CASE \E n \in LibName : Dlclose(Game, n)
      BY <1>0, <2>0, <3>4, DlcloseAgrees DEF Dlclose
    <3>5. CASE \E key \in Key : Report(Game, key)
      BY <1>0, <2>0, <3>5, ReportAgrees DEF Report
    <3> QED
      BY <2>8, <3>0, <3>1, <3>2, <3>3, <3>4, <3>5 DEF HookStep, GameStep
  <2> QED
    BY <1>2, <1>5, <2>1, <2>2, <2>3, <2>4, <2>5, <2>6, <2>7, <2>8
       DEF Next, UgStep, MhStep, GaveUp, Proceed
<1> QED
  BY <1>3, <1>4, <1>5

LEMMA AgreeLocated ==
    ASSUME StartGiven, AgreeInv
    PROVE  Located /\ NoneMissed
<1>1. NoneMissed
  BY DEF AgreeInv, NoneMissed
<1>2. Located
  <2> SUFFICES ASSUME mh = "active", ~gaveup, NEW key \in Key,
                      ~Skipped(key), Essentials(key).addr, Mapped(key),
                      Lib(key) # Exe => Settled(Lib(key))
               PROVE  mhaddr[key] = LoadOffs(Lib(key))
    BY DEF Located, Lib
  <2>1. ~SkipAslr
    BY SkippedAll DEF StartGiven
  <2>2. Dialogue /\ Game \in Threads
    BY <2>1, OneGame DEF AgreeInv, StartGiven
  <2>3. CASE call[Game].at = "run"
    BY <2>2, <2>3 DEF Dialogue, Quiet, RightPlace, Reportable
  <2>4. CASE call[Game].at = "wait"
    <3>1. Waiting(call[Game].lib) /\ call[Game].lib \in LibName
      BY <2>2, <2>4 DEF Dialogue, AgreeInv, StartInv, Phases
    <3>2. Lib(key) # call[Game].lib
      <4>1. Lib(key) # Exe => call[Game].lib \notin Substr[Lib(key)]
        BY <2>2, <2>4 DEF Settled
      <4>2. call[Game].lib \in Substr[call[Game].lib] /\ Exe \notin LibName
        BY <3>1, StartupAssumption DEF StartGiven, NamesDiffer
      <4> QED
        BY <3>1, <4>1, <4>2
    <3> QED
      BY <3>1, <3>2 DEF Waiting, RightPlace, Reportable
  <2>5. call[Game].at \in {"run", "wait"}
    BY <2>2 DEF AgreeInv, StartInv, Typed
  <2> QED
    BY <2>3, <2>4, <2>5
<1> QED
  BY <1>1, <1>2

\* While no answer is under way for a library, libmemhack compares with the
\* right code addresses: the offsets it read by position and the answers to
\* its questions about libraries that come, go and come back elsewhere.
THEOREM LocatedAlways ==
    ASSUME StartGiven
    PROVE  Spec => []Located
<1>1. Init => AgreeInv
  BY AgreeInit
<1>2. AgreeInv /\ [Next]_vars => AgreeInv'
  BY AgreeNext
<1>3. AgreeInv => Located
  BY AgreeLocated
<1> QED
  BY <1>1, <1>2, <1>3, PTL DEF Spec

\* ugtrain knows the code address of every object that is reported to it.
THEOREM NoneMissedAlways ==
    ASSUME StartGiven
    PROVE  Spec => []NoneMissed
<1>1. Init => AgreeInv
  BY AgreeInit
<1>2. AgreeInv /\ [Next]_vars => AgreeInv'
  BY AgreeNext
<1>3. AgreeInv => NoneMissed
  BY AgreeLocated
<1> QED
  BY <1>1, <1>2, <1>3, PTL DEF Spec
=============================================================================
