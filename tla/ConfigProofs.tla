---------------------------- MODULE ConfigProofs ----------------------------
(***************************************************************************)
(* The config parser, for every config file, every output of the           *)
(* adaptation script and both starts of ugtrain, in three parts:           *)
(*   Homes       the memory area an entry or a check is listed with is the *)
(*               one build_caches() takes;                                 *)
(*   TakenOnce   every object of the script's output goes to a class of    *)
(*               its own;                                                  *)
(*   RereadSame  the file adaptation leaves behind is read back the same.  *)
(*                                                                         *)
(* The invariant for Homes says it of every entry read so far, with what   *)
(* keeps it: areas never lose their cache, offsets only get lower, and     *)
(* nothing is read for a class and for what a pointer leads to at the same *)
(* time.  The other parts begin with the invariants of their own, which    *)
(* build on this one.                                                      *)
(***************************************************************************)
EXTENDS Config, VecOpsProofs

\* A sequence, of whatever elements.
IsLog(s) == s \in Seq({s[k] : k \in DOMAIN s})

\* A list of lines whose offsets are numbers.
LinesOK(s) == IsLog(s) /\ \A k \in DOMAIN s : TypedLine(s[k])

Typed ==
    /\ LinesOK(cfg_lines) /\ LinesOK(disk.lines)
    /\ lnr \in Nat \ {0}
    /\ chk_addr \in Nat

\* The caches of the memory areas.
OffsOK ==
    /\ offs \in [DOMAIN offs -> Nat]
    /\ NoBlock("mem") \in DOMAIN offs /\ NoBlock("stack") \in DOMAIN offs

\* The block that is being read has its caches, and is the only one.
ScopeOK ==
    /\ dynmem_enp = 0 \/ ptrmem_enp = 0
    /\ dynmem_enp # 0 => Class(dynmem_enp) \in DOMAIN offs
    /\ ptrmem_enp # 0 => Pointee(ptrmem_enp) \in DOMAIN offs

\* The first cache of an area begins at or before an offset.
Covered(o, a, addr) == a \in DOMAIN o /\ o[a] <= addr

IsCheck(c) == c.addr \in Nat

CheckOK(o, e, c) ==
    /\ IsCheck(c)
    /\ Cached(e, c) => Covered(o, HomeOf(e.dynmem, e.ptrmem, c.where), c.addr)

\* A record with the fields of an entry.
IsEntry(e) ==
    /\ e \in [name : {e.name}, addr : Nat, where : {e.where}, cstr : {e.cstr},
              dynmem : {e.dynmem}, ptrmem : {e.ptrmem}, ptrtgt : {e.ptrtgt},
              checks : {e.checks}]
    /\ IsLog(e.checks)
    /\ e.dynmem = 0 \/ e.ptrmem = 0

EntryOK(o, e) ==
    /\ IsEntry(e)
    /\ HomeOf(e.dynmem, e.ptrmem, e.where) \in DOMAIN o
    /\ ~e.cstr => Covered(o, HomeOf(e.dynmem, e.ptrmem, e.where), e.addr)
    /\ \A k \in DOMAIN e.checks : CheckOK(o, e, e.checks[k])

EntriesOK == IsLog(cfg) /\ \A i \in DOMAIN cfg : EntryOK(offs, cfg[i])

HomesInv == Typed /\ OffsOK /\ ScopeOK /\ EntriesOK

-----------------------------------------------------------------------------
(* Sequences and greatest elements.                                        *)

LEMMA SeqIsLog ==
    ASSUME NEW S, NEW s \in Seq(S)
    PROVE  IsLog(s)
  BY DEF IsLog

LEMMA LogFacts ==
    ASSUME NEW s, IsLog(s)
    PROVE  /\ Len(s) \in Nat /\ DOMAIN s = 1..Len(s)
           /\ s = [k \in DOMAIN s |-> s[k]]
           /\ s # <<>> <=> Len(s) # 0
  BY DEF IsLog

LEMMA FunIsLog ==
    ASSUME NEW n \in Nat, NEW s, s = [k \in 1..n |-> s[k]]
    PROVE  IsLog(s)
  BY DEF IsLog

LEMMA AppendLog ==
    ASSUME NEW s, IsLog(s), NEW x
    PROVE  /\ IsLog(Append(s, x))
           /\ Len(Append(s, x)) = Len(s) + 1
           /\ DOMAIN Append(s, x) = DOMAIN s \cup {Len(s) + 1}
           /\ \A k \in DOMAIN s : Append(s, x)[k] = s[k]
           /\ Append(s, x)[Len(s) + 1] = x
<1> DEFINE S == {s[k] : k \in DOMAIN s} \cup {x}
<1>1. s \in Seq(S)
  BY DEF IsLog
<1>2. x \in S
  OBVIOUS
<1> HIDE DEF S
<1>3. Append(s, x) \in Seq(S)
  BY <1>1, <1>2
<1>4. IsLog(Append(s, x))
  BY <1>3, SeqIsLog
<1>5. /\ Len(s) \in Nat /\ DOMAIN s = 1..Len(s)
      /\ Len(Append(s, x)) = Len(s) + 1
      /\ DOMAIN Append(s, x) = 1..(Len(s) + 1)
  BY <1>1, <1>3
<1>6. \A k \in 1..Len(s) : Append(s, x)[k] = s[k]
  BY <1>1, <1>2
<1>7. Append(s, x)[Len(s) + 1] = x
  BY <1>1, <1>2
<1> QED
  BY <1>4, <1>5, <1>6, <1>7

\* A set of indices that is not empty has a greatest element.
LEMMA Greatest ==
    ASSUME NEW n \in Nat, NEW K, K \subseteq 1..n, K # {}
    PROVE  LargestOf(K) \in K /\ \A k \in K : k <= LargestOf(K)
<1> DEFINE c == Cardinality(K)
           m == Nth(K, c)
           L == {k \in K : k <= m}
<1>1. IsFiniteSet(K) /\ c \in Nat
  BY RankRange
<1>2. c # 0
  BY <1>1, FS_EmptySet
<1>3. m \in K /\ Cardinality(L) = c
  <2>1. \A j \in 1..c : Nth(K, j) \in K /\ Rank(K, Nth(K, j)) = j
    BY NthRank
  <2>2. c \in 1..c
    BY <1>1, <1>2
  <2> HIDE DEF c
  <2>3. m \in K /\ Rank(K, m) = c
    BY <2>1, <2>2
  <2> QED
    BY <2>3 DEF Rank
<1>4. L \in SUBSET K
  OBVIOUS
<1>5. L = K
  BY <1>1, <1>3, <1>4, FS_Subset
<1>6. \A k \in K : k <= m
  BY <1>5
<1> HIDE DEF m
<1> QED
  BY <1>3, <1>6 DEF LargestOf

LEMMA FindsEntry ==
    ASSUME EntriesOK, NEW name, FindCfgEn(name) # 0
    PROVE  FindCfgEn(name) \in DOMAIN cfg
<1> DEFINE named == {i \in DOMAIN cfg : cfg[i].name = name}
<1>1. named # {} /\ FindCfgEn(name) = LargestOf(named)
  BY DEF FindCfgEn
<1>2. Len(cfg) \in Nat /\ named \subseteq 1..Len(cfg)
  BY LogFacts DEF EntriesOK
<1> HIDE DEF named
<1>3. LargestOf(named) \in named
  BY <1>1, <1>2, Greatest
<1> QED
  BY <1>1, <1>3 DEF named

-----------------------------------------------------------------------------
(* Caches: areas stay, and offsets get lower.                              *)

\* What may become of the offsets.
Lower(o, p) ==
    /\ DOMAIN o \subseteq DOMAIN p
    /\ p \in [DOMAIN p -> Nat]
    /\ \A a \in DOMAIN o : p[a] <= o[a]

LEMMA SameLower ==
    ASSUME OffsOK
    PROVE  Lower(offs, offs)
  BY DEF OffsOK, Lower

LEMMA WithAreaLower ==
    ASSUME NEW o, o \in [DOMAIN o -> Nat], NEW a
    PROVE  Lower(o, WithArea(o, a)) /\ a \in DOMAIN WithArea(o, a)
  BY ConfigAssumption DEF Lower, WithArea

LEMMA WithLibLower ==
    ASSUME OffsOK, NEW where
    PROVE  Lower(offs, WithLib(offs, where)) /\ NoBlock(where) \in DOMAIN WithLib(offs, where)
<1>1. CASE where \in {"mem", "stack"}
  BY <1>1, SameLower DEF WithLib, OffsOK
<1>2. CASE where \notin {"mem", "stack"}
  BY <1>2, WithAreaLower DEF WithLib, OffsOK
<1> QED
  BY <1>1, <1>2

LEMMA StartedLower ==
    ASSUME NEW o, o \in [DOMAIN o -> Nat], NEW a \in DOMAIN o, NEW addr \in Nat
    PROVE  Lower(o, Started(o, a, addr)) /\ Covered(Started(o, a, addr), a, addr)
  BY DEF Lower, Started, Covered

LEMMA LowerTransitive ==
    ASSUME NEW o, NEW p, NEW q, o \in [DOMAIN o -> Nat], Lower(o, p), Lower(p, q)
    PROVE  Lower(o, q)
<1> SUFFICES ASSUME NEW a \in DOMAIN o
             PROVE  q[a] <= o[a]
  BY DEF Lower
<1>1. a \in DOMAIN p /\ a \in DOMAIN q
  BY DEF Lower
<1>2. o[a] \in Nat /\ p[a] \in Nat /\ q[a] \in Nat
  BY <1>1 DEF Lower
<1> QED
  BY <1>1, <1>2 DEF Lower

LEMMA CoveredLower ==
    ASSUME NEW o, NEW p, o \in [DOMAIN o -> Nat], Lower(o, p),
           NEW a, NEW addr \in Nat, Covered(o, a, addr)
    PROVE  Covered(p, a, addr)
<1>1. a \in DOMAIN o /\ a \in DOMAIN p
  BY DEF Covered, Lower
<1>2. o[a] \in Nat /\ p[a] \in Nat
  BY <1>1 DEF Lower
<1> QED
  BY <1>1, <1>2 DEF Covered, Lower

LEMMA EntryLower ==
    ASSUME NEW o, NEW p, o \in [DOMAIN o -> Nat], Lower(o, p), NEW e, EntryOK(o, e)
    PROVE  EntryOK(p, e)
<1>1. e.addr \in Nat
  BY DEF EntryOK, IsEntry
<1>2. ~e.cstr => Covered(p, HomeOf(e.dynmem, e.ptrmem, e.where), e.addr)
  BY <1>1, CoveredLower DEF EntryOK
<1>3. HomeOf(e.dynmem, e.ptrmem, e.where) \in DOMAIN p
  BY DEF EntryOK, Lower
<1>4. ASSUME NEW k \in DOMAIN e.checks
      PROVE  CheckOK(p, e, e.checks[k])
  <2>1. CheckOK(o, e, e.checks[k])
    BY DEF EntryOK
  <2> QED
    BY <2>1, CoveredLower DEF CheckOK, IsCheck
<1> QED
  BY <1>2, <1>3, <1>4 DEF EntryOK

\* So the offsets may get lower under the entries and the block.
LEMMA OffsLower ==
    ASSUME HomesInv, Lower(offs, offs')
    PROVE  /\ OffsOK'
           /\ \A a : a \in DOMAIN offs => a \in DOMAIN offs'
           /\ \A i \in DOMAIN cfg : EntryOK(offs', cfg[i])
<1>1. OffsOK'
  BY DEF HomesInv, OffsOK, Lower, NoBlock, Area
<1>2. \A i \in DOMAIN cfg : EntryOK(offs', cfg[i])
  BY EntryLower DEF HomesInv, OffsOK, EntriesOK
<1> QED
  BY <1>1, <1>2 DEF Lower

LEMMA EntriesKept ==
    ASSUME HomesInv, Lower(offs, offs'), UNCHANGED cfg
    PROVE  OffsOK' /\ EntriesOK'
<1>1. EntriesOK'
  BY OffsLower DEF HomesInv, EntriesOK
<1> QED
  BY <1>1, OffsLower

\* Offsets and blocks as they were.
LEMMA NothingLower ==
    ASSUME HomesInv, UNCHANGED offs
    PROVE  Lower(offs, offs')
  BY SameLower DEF HomesInv

LEMMA ScopeKept ==
    ASSUME HomesInv, Lower(offs, offs'), UNCHANGED scopeVars
    PROVE  ScopeOK'
  BY DEF HomesInv, ScopeOK, scopeVars, Lower, Class, Pointee, Area

-----------------------------------------------------------------------------
(* Reading a line.                                                         *)

LEMMA ParseTyped ==
    ASSUME HomesInv, NEW kind, Parse(kind), chk_addr' \in Nat
    PROVE  Typed'
  BY DEF HomesInv, Typed, LinesOK, IsLog, Parse

LEMMA LineTyped ==
    ASSUME HomesInv, Reading
    PROVE  TypedLine(Line)
<1>1. lnr \in DOMAIN cfg_lines
  BY LogFacts DEF Reading, HomesInv, Typed, LinesOK
<1> QED
  BY <1>1 DEF Line, HomesInv, Typed, LinesOK

LEMMA ReadPlainKeeps ==
    ASSUME HomesInv, ReadSkip \/ ReadDump \/ ReadOption
    PROVE  HomesInv'
<1>1. \E kind : Parse(kind)
  BY DEF ReadSkip, ReadDump, ReadOption
<1>2. UNCHANGED <<cfg, chk_addr>> /\ UNCHANGED scopeVars
  BY DEF ReadSkip, ReadDump, ReadOption, scopeVars
<1>3. Lower(offs, offs')
  BY WithLibLower, SameLower DEF ReadSkip, ReadDump, ReadOption, HomesInv
<1>4. Typed'
  BY <1>1, <1>2, ParseTyped DEF HomesInv, Typed
<1> QED
  BY <1>2, <1>3, <1>4, EntriesKept, ScopeKept DEF HomesInv

\* The beginning, the inner lines and the end of a block.
LEMMA ReadBlockKeeps ==
    ASSUME HomesInv,
           \/ ReadDynmemStart \/ ReadDynmemConst \/ ReadDynmemGrow \/ ReadDynmemEnd
           \/ ReadPtrmemStart \/ ReadPtrmemEnd
    PROVE  HomesInv'
<1>0. OffsOK
  BY DEF HomesInv
<1>1. \E kind : Parse(kind)
  BY DEF ReadDynmemStart, ReadDynmemConst, ReadDynmemGrow, ReadDynmemEnd,
         ReadPtrmemStart, ReadPtrmemEnd
<1>2. UNCHANGED <<cfg, chk_addr>>
  BY DEF ReadDynmemStart, ReadDynmemConst, ReadDynmemGrow, ReadDynmemEnd,
         ReadPtrmemStart, ReadPtrmemEnd
<1>3. Lower(offs, offs') /\ ScopeOK'
  <2>1. CASE ReadDynmemStart
    <3>1. dynmem_enp = 0 /\ ptrmem_enp = 0
      BY <2>1 DEF ReadDynmemStart, Parse, Accepted, InScope
    <3>2. UNCHANGED ptrmem_enp /\ offs' = WithArea(offs, Class(dynmem_enp'))
      BY <2>1 DEF ReadDynmemStart
    <3> QED
      BY <1>0, <3>1, <3>2, WithAreaLower DEF ScopeOK, OffsOK
  <2>2. CASE ReadDynmemConst
    BY <2>2, NothingLower, ScopeKept DEF ReadDynmemConst, scopeVars
  <2>3. CASE ReadDynmemGrow
    <3>1. ptrmem_enp = 0 /\ UNCHANGED ptrmem_enp
      BY <2>3 DEF ReadDynmemGrow, Parse, Accepted
    <3>2. \/ UNCHANGED <<dynmem_enp, offs>>
          \/ offs' = WithArea(offs, Class(dynmem_enp'))
      BY <2>3 DEF ReadDynmemGrow
    <3>3. CASE UNCHANGED <<dynmem_enp, offs>>
      BY <3>1, <3>3, NothingLower, ScopeKept DEF scopeVars
    <3>4. CASE offs' = WithArea(offs, Class(dynmem_enp'))
      BY <1>0, <3>1, <3>4, WithAreaLower DEF ScopeOK, OffsOK
    <3> QED
      BY <3>2, <3>3, <3>4
  <2>4. CASE ReadDynmemEnd \/ ReadPtrmemEnd
    <3>1. UNCHANGED offs /\ Lower(offs, offs')
      BY <2>4, NothingLower DEF ReadDynmemEnd, ReadPtrmemEnd
    <3>2. /\ dynmem_enp' = 0 \/ dynmem_enp' = dynmem_enp
          /\ ptrmem_enp' = 0 \/ ptrmem_enp' = ptrmem_enp
      BY <2>4 DEF ReadDynmemEnd, ReadPtrmemEnd
    <3> QED
      BY <3>1, <3>2 DEF HomesInv, ScopeOK
  <2>5. CASE ReadPtrmemStart
    <3>1. dynmem_enp = 0 /\ UNCHANGED dynmem_enp
      BY <2>5 DEF ReadPtrmemStart, Parse, Accepted
    <3>2. offs' = WithArea(offs, Pointee(ptrmem_enp'))
      BY <2>5 DEF ReadPtrmemStart
    <3> QED
      BY <1>0, <3>1, <3>2, WithAreaLower DEF ScopeOK, OffsOK
  <2> QED
    BY <2>1, <2>2, <2>3, <2>4, <2>5
<1>4. Typed'
  BY <1>1, <1>2, ParseTyped DEF HomesInv, Typed
<1> QED
  BY <1>2, <1>3, <1>4, EntriesKept DEF HomesInv

LEMMA CurrentEntry ==
    ASSUME HomesInv, cfg # <<>>
    PROVE  Len(cfg) \in DOMAIN cfg /\ EntryOK(offs, Current) /\ Current.addr \in Nat
<1>1. Len(cfg) \in DOMAIN cfg
  BY LogFacts DEF HomesInv, EntriesOK
<1> QED
  BY <1>1 DEF HomesInv, EntriesOK, Current, EntryOK, IsEntry

\* A value is listed with the block it is in, or else with its own area.
LEMMA ReadValueKeeps ==
    ASSUME HomesInv, ReadValue
    PROVE  HomesInv'
<1> DEFINE addr  == ValueAddr(Line)
           where == ValueWhere(Line)
           home  == HomeOf(dynmem_enp, ptrmem_enp, where)
           lib   == WithLib(offs, where)
           new   == [name |-> Line.name, addr |-> addr, where |-> where,
                     cstr |-> Line.cstr, dynmem |-> dynmem_enp, ptrmem |-> ptrmem_enp,
                     ptrtgt |-> IF Line.target = "" THEN 0 ELSE FindPtrMem(Line.target),
                     checks |-> <<>>]
<1>0. /\ Parse("value") /\ UNCHANGED chk_addr /\ UNCHANGED scopeVars
      /\ cfg' = Append(cfg, new)
      /\ offs' = IF Line.cstr THEN lib ELSE Started(lib, home, addr)
  BY DEF ReadValue
<1>1. Typed'
  BY <1>0, ParseTyped DEF HomesInv, Typed
<1>2. addr \in Nat
  <2>1. Line.kind = "value" /\ Line.addr \in Nat
    BY <1>0, LineTyped DEF Parse, TypedLine
  <2>2. Line.prev => cfg # <<>>
    BY <1>0, <2>1 DEF Parse, Accepted, AcceptedValue
  <2> QED
    BY <2>1, <2>2, CurrentEntry DEF ValueAddr
<1>3. Lower(offs, lib) /\ NoBlock(where) \in DOMAIN lib
  BY WithLibLower DEF HomesInv
<1>4. home \in DOMAIN lib
  BY <1>3 DEF HomesInv, ScopeOK, HomeOf, Lower
<1>5. lib \in [DOMAIN lib -> Nat] /\ offs \in [DOMAIN offs -> Nat]
  BY <1>3 DEF Lower, HomesInv, OffsOK
<1> HIDE DEF addr, home, lib, where
<1>6. /\ Lower(offs, offs')
      /\ home \in DOMAIN offs'
      /\ ~Line.cstr => Covered(offs', home, addr)
  <2>1. CASE Line.cstr
    BY <1>0, <1>3, <1>4, <2>1
  <2>2. CASE ~Line.cstr
    <3>1. offs' = Started(lib, home, addr)
      BY <1>0, <2>2
    <3>2. Lower(lib, offs') /\ Covered(offs', home, addr)
      BY <3>1, <1>2, <1>4, <1>5, StartedLower
    <3>3. Lower(offs, offs')
      BY <3>2, <1>3, <1>5, LowerTransitive
    <3> QED
      BY <3>2, <3>3 DEF Covered
  <2> QED
    BY <2>1, <2>2
<1>7. EntryOK(offs', new)
  <2>1. IsEntry(new)
    <3>1. IsLog(<<>>)
      BY DEF IsLog
    <3> QED
      BY <1>2, <3>1 DEF IsEntry, HomesInv, ScopeOK
  <2>2. \A k \in DOMAIN new.checks : CheckOK(offs', new, new.checks[k])
    <3>1. new.checks = <<>>
      OBVIOUS
    <3> HIDE DEF new
    <3> QED
      BY <3>1
  <2> QED
    BY <1>6, <2>1, <2>2 DEF EntryOK, home
<1> HIDE DEF new
<1>8. OffsOK' /\ \A i \in DOMAIN cfg : EntryOK(offs', cfg[i])
  BY <1>6, OffsLower
<1>9. EntriesOK'
  <2>1. IsLog(cfg)
    BY DEF HomesInv, EntriesOK
  <2>2. /\ IsLog(cfg') /\ DOMAIN cfg' = DOMAIN cfg \cup {Len(cfg) + 1}
        /\ \A i \in DOMAIN cfg : cfg'[i] = cfg[i]
        /\ cfg'[Len(cfg) + 1] = new
    BY <1>0, <2>1, AppendLog
  <2>3. \A i \in DOMAIN cfg' : EntryOK(offs', cfg'[i])
    BY <1>7, <1>8, <2>2
  <2> QED
    BY <2>2, <2>3 DEF EntriesOK
<1>10. ScopeOK'
  BY <1>0, <1>6, ScopeKept
<1> QED
  BY <1>1, <1>8, <1>9, <1>10 DEF HomesInv

\* What a check reads is at a known offset: its own, that of an entry found by
\* its name, that of the last entry, or what chk_en held.
LEMMA CheckAddrNat ==
    ASSUME HomesInv, Parse("check")
    PROVE  cfg # <<>> /\ CheckAddr(Line) \in Nat
<1>1. /\ Line.kind = "check" /\ Line.addr \in Nat
      /\ Reading /\ ~Dangling(Line) /\ AcceptedCheck(Line)
  BY LineTyped DEF Parse, TypedLine, Accepted
<1>2. cfg # <<>>
  BY <1>1 DEF Dangling, AcceptedCheck
<1>3. ASSUME Line.by = "addr of"
      PROVE  cfg[FindCfgEn(Line.name)].addr \in Nat
  <2>1. FindCfgEn(Line.name) \in DOMAIN cfg
    BY <1>1, <1>3, FindsEntry DEF AcceptedCheck, HomesInv
  <2> QED
    BY <2>1 DEF HomesInv, EntriesOK, EntryOK, IsEntry
<1>4. CheckedEntry(Line).addr \in Nat
  BY <1>2, <1>3, CurrentEntry DEF CheckedEntry
<1> QED
  BY <1>1, <1>2, <1>4 DEF CheckAddr, HomesInv, Typed

\* A check is listed with the block of its entry: the block that is being read
\* is the one the last entry is in, or the check dangles.
LEMMA CheckHomeFound ==
    ASSUME HomesInv, Parse("check"), CheckRef(Line) = 0
    PROVE  LET where == CheckWhere(Line)
               lib == WithLib(offs, where)
           IN  /\ CheckHome(Line) \in DOMAIN lib
               /\ InScope => CheckHome(Line) = HomeOf(Current.dynmem, Current.ptrmem, where)
               /\ ~InScope => CheckHome(Line) = NoBlock(where)
<1> DEFINE where == CheckWhere(Line)
           lib == WithLib(offs, where)
<1>1. /\ ~Dangling(Line) /\ AcceptedCheck(Line) /\ Line.kind = "check"
  BY DEF Parse, Accepted
<1>2. cfg # <<>>
  BY CheckAddrNat
<1>3. /\ IsEntry(Current)
      /\ HomeOf(Current.dynmem, Current.ptrmem, Current.where) \in DOMAIN offs
  BY <1>2, CurrentEntry DEF EntryOK
<1>4. Lower(offs, lib) /\ NoBlock(where) \in DOMAIN lib
  BY WithLibLower DEF HomesInv
<1>5. CASE dynmem_enp # 0
  <2>1. Current.dynmem # 0
    BY <1>1, <1>2, <1>5 DEF Dangling
  <2>2. CheckHome(Line) = Class(Current.dynmem)
    BY <1>5 DEF CheckHome
  <2> QED
    BY <1>3, <1>4, <1>5, <2>1, <2>2 DEF HomeOf, Lower, InScope
<1>6. CASE dynmem_enp = 0 /\ ptrmem_enp # 0
  <2>0. ~Line.obj
    BY <1>1, <1>6 DEF AcceptedCheck
  <2>1. Current.ptrmem # 0
    BY <1>1, <1>2, <1>6, <2>0 DEF Dangling
  <2>4. Current.dynmem = 0
    BY <1>3, <2>1 DEF IsEntry
  <2>2. CheckHome(Line) = Pointee(Current.ptrmem)
    BY <1>6 DEF CheckHome
  <2> QED
    BY <1>3, <1>4, <1>6, <2>1, <2>4, <2>2 DEF HomeOf, Lower, InScope
<1>7. CASE dynmem_enp = 0 /\ ptrmem_enp = 0
  BY <1>4, <1>7 DEF CheckHome, InScope
<1> QED
  BY <1>5, <1>6, <1>7

LEMMA ReadCheckKeeps ==
    ASSUME HomesInv, ReadCheck
    PROVE  HomesInv'
<1> DEFINE addr  == CheckAddr(Line)
           where == CheckWhere(Line)
           lib   == WithLib(offs, where)
           home  == CheckHome(Line)
           check == [addr |-> addr, where |-> where, ref |-> CheckRef(Line),
                     num |-> Line.by = "obj", open |-> ~InScope]
           last  == Len(cfg)
           e     == cfg[last]
           f     == [e EXCEPT !.checks = Append(@, check)]
<1>0. /\ Parse("check") /\ UNCHANGED scopeVars
      /\ cfg' = [cfg EXCEPT ![last] = f]
      /\ chk_addr' = addr
      /\ offs' = IF CheckRef(Line) # 0 THEN offs ELSE Started(lib, home, addr)
  BY DEF ReadCheck
<1>1. cfg # <<>> /\ addr \in Nat
  BY <1>0, CheckAddrNat
<1>2. Typed'
  BY <1>0, <1>1, ParseTyped
<1>3. /\ last \in DOMAIN cfg /\ e = Current
      /\ EntryOK(offs, e)
  BY <1>1, CurrentEntry DEF Current
<1>4. /\ Lower(offs, lib)
      /\ lib \in [DOMAIN lib -> Nat] /\ offs \in [DOMAIN offs -> Nat]
  BY WithLibLower DEF Lower, HomesInv, OffsOK
<1>5. /\ Lower(offs, offs')
      /\ CheckRef(Line) = 0 => Covered(offs', home, addr)
  <2>1. CASE CheckRef(Line) # 0
    BY <1>0, <2>1, NothingLower
  <2>2. CASE CheckRef(Line) = 0
    <3>1. home \in DOMAIN lib
      BY <1>0, <2>2, CheckHomeFound
    <3>2. offs' = Started(lib, home, addr)
      BY <1>0, <2>2
    <3> HIDE DEF home, lib, addr
    <3>3. Lower(lib, offs') /\ Covered(offs', home, addr)
      BY <3>1, <3>2, <1>1, <1>4, StartedLower
    <3> QED
      BY <3>3, <1>4, LowerTransitive
  <2> QED
    BY <2>1, <2>2
<1>6. OffsOK' /\ \A i \in DOMAIN cfg : EntryOK(offs', cfg[i])
  BY <1>5, OffsLower
<1>7. CheckOK(offs', e, check)
  <2>1. ASSUME Cached(e, check)
        PROVE  Covered(offs', HomeOf(e.dynmem, e.ptrmem, where), addr)
    <3>1. /\ CheckRef(Line) = 0
          /\ ~InScope => e.dynmem = 0 /\ e.ptrmem = 0
      BY <2>1 DEF Cached
    <3>2. home = HomeOf(e.dynmem, e.ptrmem, where)
      BY <1>0, <1>3, <3>1, CheckHomeFound DEF HomeOf
    <3> QED
      BY <1>5, <3>1, <3>2
  <2> QED
    BY <1>1, <2>1 DEF CheckOK, IsCheck
<1> HIDE DEF check
<1>8. EntryOK(offs', f)
  <2>1. EntryOK(offs', e)
    BY <1>3, <1>6
  <2>2. /\ f.addr = e.addr /\ f.where = e.where /\ f.cstr = e.cstr
        /\ f.dynmem = e.dynmem /\ f.ptrmem = e.ptrmem
        /\ f.checks = Append(e.checks, check)
        /\ f \in [name : {f.name}, addr : Nat, where : {f.where}, cstr : {f.cstr},
                  dynmem : {f.dynmem}, ptrmem : {f.ptrmem}, ptrtgt : {f.ptrtgt},
                  checks : {f.checks}]
    BY <2>1 DEF EntryOK, IsEntry
  <2>3. IsLog(e.checks) /\ (e.dynmem = 0 \/ e.ptrmem = 0)
    BY <2>1 DEF EntryOK, IsEntry
  <2> HIDE DEF e, f
  <2>4. /\ IsLog(f.checks)
        /\ DOMAIN f.checks = DOMAIN e.checks \cup {Len(e.checks) + 1}
        /\ \A k \in DOMAIN e.checks : f.checks[k] = e.checks[k]
        /\ f.checks[Len(e.checks) + 1] = check
    BY <2>2, <2>3, AppendLog
  <2>5. \A k \in DOMAIN e.checks : CheckOK(offs', e, e.checks[k])
    BY <2>1 DEF EntryOK
  <2>6. \A k \in DOMAIN f.checks : CheckOK(offs', e, f.checks[k])
    BY <2>4, <2>5, <1>7
  <2>7. \A c : CheckOK(offs', e, c) => CheckOK(offs', f, c)
    BY <2>2 DEF CheckOK, Cached
  <2>8. \A k \in DOMAIN f.checks : CheckOK(offs', f, f.checks[k])
    BY <2>6, <2>7
  <2> QED
    BY <2>1, <2>2, <2>3, <2>4, <2>8 DEF EntryOK, IsEntry
<1> HIDE DEF f, e, last
<1>9. EntriesOK'
  <2>1. IsLog(cfg)
    BY DEF HomesInv, EntriesOK
  <2>2. /\ DOMAIN cfg' = DOMAIN cfg
        /\ cfg' = [i \in DOMAIN cfg |-> cfg'[i]]
        /\ \A i \in DOMAIN cfg : cfg'[i] = IF i = last THEN f ELSE cfg[i]
    BY <1>0, <2>1, LogFacts
  <2>3. IsLog(cfg')
    BY <2>1, <2>2, LogFacts, FunIsLog
  <2>4. \A i \in DOMAIN cfg' : EntryOK(offs', cfg'[i])
    BY <1>6, <1>8, <2>2
  <2> QED
    BY <2>3, <2>4 DEF EntriesOK
<1>10. ScopeOK'
  BY <1>0, <1>5, ScopeKept
<1> QED
  BY <1>2, <1>6, <1>9, <1>10 DEF HomesInv

-----------------------------------------------------------------------------
(* Adaptation changes lines and classes, but nothing that entries or       *)
(* caches depend on.                                                       *)

\* What only depends on what has been read.
LEMMA BookKept ==
    ASSUME HomesInv, UNCHANGED scopeVars, UNCHANGED <<cfg, offs>>
    PROVE  OffsOK' /\ ScopeOK' /\ EntriesOK'
  BY NothingLower, EntriesKept, ScopeKept

LEMMA OneLineOK ==
    ASSUME NEW s, LinesOK(s), NEW k, NEW l, TypedLine(l)
    PROVE  LinesOK([s EXCEPT ![k] = l])
<1> DEFINE t == [s EXCEPT ![k] = l]
<1>1. /\ DOMAIN t = DOMAIN s /\ t = [i \in DOMAIN t |-> t[i]]
      /\ \A i \in DOMAIN s : t[i] = s[i] \/ t[i] = l
  BY LogFacts DEF LinesOK
<1>2. IsLog(t)
  BY <1>1, LogFacts, FunIsLog DEF LinesOK
<1> HIDE DEF t
<1>3. LinesOK(t)
  BY <1>1, <1>2 DEF LinesOK
<1> QED
  BY <1>3 DEF t

LEMMA AdaptedLinesOK ==
    ASSUME LinesOK(cfg_lines), NEW classes
    PROVE  LinesOK(AdaptedLines(classes))
<1> DEFINE t == AdaptedLines(classes)
<1>1. DOMAIN t = DOMAIN cfg_lines /\ t = [k \in DOMAIN t |-> t[k]]
  BY DEF AdaptedLines
<1>2. ASSUME NEW k \in DOMAIN cfg_lines
      PROVE  TypedLine(t[k])
  <2>1. \/ t[k] = [kind |-> "adapt_required", val |-> FALSE]
        \/ \E c : t[k] = StartLine(c)
        \/ t[k] = cfg_lines[k]
    BY DEF AdaptedLines
  <2>2. \A c : TypedLine(StartLine(c))
    BY DEF StartLine, TypedLine
  <2>3. TypedLine([kind |-> "adapt_required", val |-> FALSE])
    BY DEF TypedLine
  <2>4. TypedLine(cfg_lines[k])
    BY DEF LinesOK
  <2> HIDE DEF t
  <2> QED
    BY <2>1, <2>2, <2>3, <2>4
<1>3. IsLog(t)
  BY <1>1, LogFacts, FunIsLog DEF LinesOK
<1> HIDE DEF t
<1>4. LinesOK(t)
  BY <1>1, <1>2, <1>3 DEF LinesOK
<1> QED
  BY <1>4 DEF t

LEMMA WrittenOK ==
    ASSUME NEW s, LinesOK(s)
    PROVE  LinesOK(SubSeq(s, 1, Len(s) - 1))
<1> DEFINE n == Len(s) - 1
           t == SubSeq(s, 1, n)
<1>1. Len(s) \in Nat /\ s \in Seq({s[k] : k \in DOMAIN s})
  BY LogFacts DEF LinesOK, IsLog
<1>2. CASE Len(s) = 0
  <2>1. s = <<>>
    BY <1>1, <1>2
  <2>2. t = <<>> /\ LinesOK(<<>>)
    BY <2>1 DEF LinesOK, IsLog
  <2> QED
    BY <2>2
<1>3. CASE Len(s) # 0
  <2>1. n \in Nat /\ 1..n \subseteq 1..Len(s)
    BY <1>1, <1>3
  <2>2. t = [k \in 1..n |-> s[k]]
    BY <1>1, <2>1
  <2> HIDE DEF n, t
  <2>3. IsLog(t)
    BY <2>1, <2>2, FunIsLog
  <2>4. DOMAIN t = 1..n /\ \A k \in 1..n : t[k] = s[k] /\ k \in DOMAIN s
    BY <1>1, <2>1, <2>2
  <2>5. LinesOK(t)
    BY <2>3, <2>4 DEF LinesOK
  <2> QED
    BY <2>5 DEF n, t
<1> QED
  BY <1>1, <1>2, <1>3

LEMMA ReadFileOK ==
    ASSUME NEW f, LinesOK(f.lines)
    PROVE  LinesOK(ReadFile(f))
<1> DEFINE t == Append(f.lines, [kind |-> "skip"])
<1>1. TypedLine([kind |-> "skip"])
  BY DEF TypedLine
<1>2. LinesOK(t)
  BY <1>1, AppendLog DEF LinesOK
<1> QED
  BY <1>2 DEF ReadFile

LEMMA StopKeeps ==
    ASSUME HomesInv, NEW how, Stop(how)
    PROVE  HomesInv'
<1>1. Typed'
  BY DEF Stop, HomesInv, Typed, LinesOK, IsLog
<1>2. OffsOK' /\ ScopeOK' /\ EntriesOK'
  BY BookKept DEF Stop
<1> QED
  BY <1>1, <1>2 DEF HomesInv

LEMMA AdaptationKeeps ==
    ASSUME HomesInv, Adaptation
    PROVE  HomesInv'
<1>1. CASE SkipAdaptation \/ NoAdaptation \/ RejectScript \/ WriteFails
  BY <1>1, StopKeeps DEF SkipAdaptation, NoAdaptation, RejectScript, WriteFails
<1>2. ASSUME UNCHANGED configVars, LinesOK(cfg_lines)', LinesOK(disk.lines)'
      PROVE  HomesInv'
  <2>1. Typed'
    BY <1>2 DEF configVars, HomesInv, Typed
  <2>2. OffsOK' /\ ScopeOK' /\ EntriesOK'
    BY <1>2, BookKept DEF configVars
  <2> QED
    BY <2>1, <2>2 DEF HomesInv
<1>3. ASSUME UNCHANGED <<cfg_lines, disk>>
      PROVE  LinesOK(cfg_lines)' /\ LinesOK(disk.lines)'
  BY <1>3 DEF HomesInv, Typed, LinesOK, IsLog
<1>4. ASSUME NEW s, RunScript(s)
      PROVE  HomesInv'
  BY <1>2, <1>3, <1>4 DEF RunScript
<1>5. CASE TakeObject
  BY <1>2, <1>3, <1>5 DEF TakeObject
<1>6. CASE TakeSetting
  <2>1. UNCHANGED disk /\ UNCHANGED configVars
    BY <1>6 DEF TakeSetting
  <2>2. \/ UNCHANGED cfg_lines
        \/ cfg_lines' = [cfg_lines EXCEPT ![1] = [kind |-> "proc", val |-> Item.val]]
        \/ cfg_lines' = [cfg_lines EXCEPT ![opt.binpath_line] =
                            [kind |-> "game_binpath", val |-> Item.val]]
    BY <1>6 DEF TakeSetting
  <2>3. \A val : TypedLine([kind |-> "proc", val |-> val])
    BY DEF TypedLine
  <2>4. \A val : TypedLine([kind |-> "game_binpath", val |-> val])
    BY DEF TypedLine
  <2>5. LinesOK(cfg_lines)'
    <3>1. CASE UNCHANGED cfg_lines
      BY <3>1 DEF HomesInv, Typed, LinesOK, IsLog
    <3>2. CASE ~UNCHANGED cfg_lines
      <4>1. PICK k, l : TypedLine(l) /\ cfg_lines' = [cfg_lines EXCEPT ![k] = l]
        BY <2>2, <2>3, <2>4, <3>2
      <4>2. LinesOK([cfg_lines EXCEPT ![k] = l])
        BY <4>1, OneLineOK DEF HomesInv, Typed
      <4>3. \A s : cfg_lines' = s /\ LinesOK(s) => LinesOK(cfg_lines)'
        BY DEF LinesOK, IsLog
      <4> QED
        BY <4>1, <4>2, <4>3
    <3> QED
      BY <3>1, <3>2
  <2>6. LinesOK(disk.lines)'
    BY <2>1 DEF HomesInv, Typed, LinesOK, IsLog
  <2> QED
    BY <1>2, <2>1, <2>5, <2>6
<1>7. CASE TakeOver
  <2>1. /\ UNCHANGED configVars
        /\ cfg_lines' = AdaptedLines(dynmems')
        /\ disk' = [lines |-> SubSeq(cfg_lines', 1, Len(cfg_lines) - 1), ended |-> TRUE]
    BY <1>7 DEF TakeOver
  <2>2. LinesOK(AdaptedLines(dynmems'))
    BY AdaptedLinesOK DEF HomesInv, Typed
  <2>3. LinesOK(cfg_lines)'
    BY <2>1, <2>2 DEF LinesOK, IsLog
  <2>4. Len(cfg_lines') = Len(cfg_lines)
    <3>1. DOMAIN cfg_lines' = DOMAIN cfg_lines
      BY <2>1 DEF AdaptedLines
    <3>2. /\ DOMAIN cfg_lines = 1..Len(cfg_lines) /\ Len(cfg_lines) \in Nat
          /\ DOMAIN cfg_lines' = 1..Len(cfg_lines') /\ Len(cfg_lines') \in Nat
      BY <2>3, LogFacts DEF HomesInv, Typed, LinesOK
    <3> QED
      BY <3>1, <3>2
  <2>5. LinesOK(SubSeq(cfg_lines', 1, Len(cfg_lines') - 1))
    BY <2>3, WrittenOK DEF LinesOK, IsLog
  <2>6. disk'.lines = SubSeq(cfg_lines', 1, Len(cfg_lines') - 1)
    BY <2>1, <2>4
  <2>7. LinesOK(disk.lines)'
    BY <2>5, <2>6 DEF LinesOK, IsLog
  <2> QED
    BY <1>2, <2>1, <2>3, <2>7
<1> QED
  BY <1>1, <1>4, <1>5, <1>6, <1>7 DEF Adaptation

-----------------------------------------------------------------------------
\* A config that has not been read yet.
Fresh ==
    /\ LinesOK(disk.lines) /\ cfg_lines = ReadFile(disk) /\ lnr = 2
    /\ dynmem_enp = 0 /\ ptrmem_enp = 0 /\ cfg = <<>>
    /\ chk_addr \in Garbage /\ offs = NoOffs

LEMMA FreshInv == Fresh => HomesInv
<1> SUFFICES ASSUME Fresh PROVE HomesInv
  OBVIOUS
<1>1. Typed
  BY ReadFileOK, ConfigAssumption DEF Fresh, Typed
<1>2. OffsOK
  BY ConfigAssumption DEF Fresh, OffsOK, NoOffs
<1>3. ScopeOK
  BY DEF Fresh, ScopeOK
<1>4. EntriesOK
  BY DEF Fresh, EntriesOK, IsLog
<1> QED
  BY <1>1, <1>2, <1>3, <1>4 DEF HomesInv

LEMMA HomesInit == Init => HomesInv
  BY FreshInv, ConfigAssumption DEF Init, Fresh, LinesOK, IsLog

LEMMA RestartKeeps ==
    ASSUME HomesInv, Restart
    PROVE  HomesInv'
<1>1. LinesOK(disk.lines)'
  BY DEF Restart, HomesInv, Typed, LinesOK, IsLog
<1>2. Fresh'
  BY <1>1 DEF Restart, Fresh, ReadFile, NoOffs
<1> QED
  BY <1>2, FreshInv, PTL

LEMMA HomesNext ==
    ASSUME HomesInv, [Next]_vars
    PROVE  HomesInv'
<1>1. CASE ReadConfig
  BY <1>1, ReadPlainKeeps, ReadBlockKeeps, ReadValueKeeps, ReadCheckKeeps, StopKeeps
     DEF ReadConfig, Reject, Dangle, EndOfConfig
<1>2. CASE UNCHANGED vars
  <2>1. OffsOK' /\ ScopeOK' /\ EntriesOK'
    BY <1>2, BookKept DEF vars
  <2> QED
    BY <1>2, <2>1 DEF vars, HomesInv, Typed, LinesOK, IsLog
<1> QED
  BY <1>1, <1>2, AdaptationKeeps, RestartKeeps DEF Next, Terminated

\* When the values are given their caches, the first cache of the memory area
\* build_caches() takes for a value or a check does not begin behind it,
\* whatever the config file says.
THEOREM HomesAlways == Spec => []Homes
<1>1. HomesInv => Homes
  <2> SUFFICES ASSUME HomesInv, NEW i \in DOMAIN cfg, ~cfg[i].cstr
               PROVE  LET e == cfg[i] IN
                      /\ offs[HomeOf(e.dynmem, e.ptrmem, e.where)] <= e.addr
                      /\ \A k \in DOMAIN e.checks : LET c == e.checks[k] IN
                            Cached(e, c) => offs[HomeOf(e.dynmem, e.ptrmem, c.where)] <= c.addr
    BY DEF Homes
  <2>1. EntryOK(offs, cfg[i])
    BY DEF HomesInv, EntriesOK
  <2> QED
    BY <2>1 DEF EntryOK, CheckOK, Covered
<1> QED
  BY <1>1, HomesInit, HomesNext, PTL DEF Spec

-----------------------------------------------------------------------------
(***************************************************************************)
(* Every object of the script's output goes to a class of its own, if none *)
(* of them has the code address 0: a class that has got its object is no   *)
(* candidate any more.  For the file, the classes are on lines of their    *)
(* own, and none of them is on the last line, which is dropped.            *)
(***************************************************************************)
NonzeroCodes(items) ==
    /\ IsLog(items)
    /\ \A k \in DOMAIN items : items[k].kind = "obj" => items[k].code # 0

ScriptsNonzero == \A s \in Scripts : NonzeroCodes(s.items)

\* A record with the fields of a class.
IsClass(c) ==
    c \in [name : {c.name}, size : {c.size}, code : {c.code}, lib : {c.lib},
           cfg_line : Nat \ {0}, grow : {c.grow}, consts : {c.consts},
           adp_size : {c.adp_size}, adp_addr : {c.adp_addr}]

\* The classes that have been read, and the entries that are in them.
ClassesOK ==
    /\ IsLog(dynmems) /\ \A i \in DOMAIN dynmems : IsClass(dynmems[i])
    /\ dynmem_enp \in 0..Len(dynmems)
    /\ \A k \in DOMAIN cfg : cfg[k].dynmem \in 0..Len(dynmems)

\* The lines they have been read from.
ClassLines ==
    /\ \A i \in DOMAIN dynmems :
          /\ dynmems[i].cfg_line < lnr
          /\ dynmems[i].cfg_line # 1 => dynmems[i].cfg_line <= Len(cfg_lines)
          /\ dynmems[i].cfg_line # 1 /\ i # dynmem_enp =>
                dynmems[i].cfg_line < Len(cfg_lines)
    /\ \A i, k \in DOMAIN dynmems :
          dynmems[i].cfg_line = dynmems[k].cfg_line /\ dynmems[i].cfg_line # 1 => i = k

\* What each status means for adaptation.
Phases ==
    /\ lnr \in Nat /\ lnr > 1
    /\ status \in {"built", "adapt", "ready"} => dynmem_enp = 0
    /\ status = "adapt" => run = 1
    /\ run = 1 /\ status \in {"read", "built"} => taken = <<>>
    /\ ScriptsNonzero => NonzeroCodes(script.items)

\* A class that has got an object, in memory.
Holder(t) ==
    /\ t.class \in Listed
    /\ dynmems[t.class].name = t.obj.name
    /\ dynmems[t.class].adp_size = t.obj.size
    /\ dynmems[t.class].adp_addr = t.obj.code
    /\ t.obj.code # 0

\* The same in the file.
InFile(t) ==
    /\ dynmems[t.class].size = t.obj.size
    /\ dynmems[t.class].code = t.obj.code
    /\ dynmems[t.class].cfg_line \notin {1, opt.adp_req_line} =>
          disk.lines[dynmems[t.class].cfg_line] = StartLine(t.obj)

TakenOK ==
    /\ IsLog(taken)
    /\ \A j, k \in DOMAIN taken : taken[j].class = taken[k].class => j = k
    /\ run = 1 => \A j \in DOMAIN taken : Holder(taken[j])
    /\ run = 1 /\ status = "ready" => \A j \in DOMAIN taken : InFile(taken[j])

TakenInv ==
    /\ HomesInv /\ ClassesOK /\ ClassLines /\ Phases
    /\ ScriptsNonzero => TakenOK

-----------------------------------------------------------------------------
\* A set of indices that is not empty has a least element.
LEMMA Least ==
    ASSUME NEW n \in Nat, NEW K, K \subseteq 1..n, K # {}
    PROVE  LeastOf(K) \in K
<1>1. \E m \in K : \A k \in K : m <= k
  BY LeastIndex
<1> QED
  BY <1>1 DEF LeastOf

\* Before the script runs nothing has been taken, so reading disturbs nothing.
LEMMA ReadTaken ==
    ASSUME TakenInv, NEW kind, Parse(kind),
           status \in {"built", "adapt", "ready"} => dynmem_enp' = 0
    PROVE  Phases' /\ (ScriptsNonzero => TakenOK') /\ status = "read" /\ lnr' = lnr + 1
           /\ lnr \in 2..Len(cfg_lines) /\ UNCHANGED cfg_lines
<1>1. /\ status = "read" /\ lnr' = lnr + 1 /\ lnr <= Len(cfg_lines)
      /\ UNCHANGED <<run, status, cfg_lines, script, taken>>
  BY DEF Parse, Reading, adaptVars
<1>2. lnr \in Nat /\ lnr > 1 /\ Len(cfg_lines) \in Nat
  BY LogFacts DEF TakenInv, Phases, HomesInv, Typed, LinesOK
<1>3. Phases'
  BY <1>1, <1>2 DEF TakenInv, Phases, NonzeroCodes, IsLog
<1>4. run' = 1 => taken' = <<>>
  BY <1>1 DEF TakenInv, Phases
<1>5. DOMAIN <<>> = {}
  OBVIOUS
<1>6. ScriptsNonzero => TakenOK'
  BY <1>1, <1>4, <1>5 DEF TakenInv, TakenOK, IsLog
<1> QED
  BY <1>1, <1>2, <1>3, <1>6

\* Lines inside of a block leave the classes alone.
LEMMA ReadInnerTaken ==
    ASSUME TakenInv, NEW kind, Parse(kind), UNCHANGED <<dynmems, dynmem_enp>>,
           \A k \in DOMAIN cfg' : \/ cfg'[k].dynmem = dynmem_enp
                                  \/ k \in DOMAIN cfg /\ cfg'[k].dynmem = cfg[k].dynmem
    PROVE  ClassesOK' /\ ClassLines' /\ Phases' /\ (ScriptsNonzero => TakenOK')
<1>1. /\ Phases' /\ (ScriptsNonzero => TakenOK') /\ lnr' = lnr + 1 /\ lnr \in 2..Len(cfg_lines)
      /\ UNCHANGED cfg_lines
  BY ReadTaken DEF TakenInv, Phases
<1>2. ClassesOK'
  BY DEF TakenInv, ClassesOK, IsClass, IsLog
<1>3. ClassLines'
  <2>1. \A i \in DOMAIN dynmems : dynmems[i].cfg_line \in Nat
    BY DEF TakenInv, ClassesOK, IsClass
  <2> QED
    BY <1>1, <2>1 DEF TakenInv, ClassLines
<1> QED
  BY <1>1, <1>2, <1>3

LEMMA ReadOtherTaken ==
    ASSUME TakenInv,
           \/ ReadSkip \/ ReadDump \/ ReadOption \/ ReadPtrmemStart \/ ReadPtrmemEnd
           \/ ReadValue \/ ReadCheck
    PROVE  ClassesOK' /\ ClassLines' /\ Phases' /\ (ScriptsNonzero => TakenOK')
<1>1. \E kind : Parse(kind)
  BY DEF ReadSkip, ReadDump, ReadOption, ReadPtrmemStart, ReadPtrmemEnd, ReadValue, ReadCheck
<1>2. UNCHANGED <<dynmems, dynmem_enp>>
  BY DEF ReadSkip, ReadDump, ReadOption, ReadPtrmemStart, ReadPtrmemEnd, ReadValue, ReadCheck,
         scopeVars
<1>3. \A k \in DOMAIN cfg' : \/ cfg'[k].dynmem = dynmem_enp
                             \/ k \in DOMAIN cfg /\ cfg'[k].dynmem = cfg[k].dynmem
  <2>0. IsLog(cfg)
    BY DEF TakenInv, HomesInv, EntriesOK
  <2>1. CASE UNCHANGED cfg
    BY <2>1
  <2>2. CASE ReadValue
    <3> DEFINE e == [name |-> Line.name, addr |-> ValueAddr(Line), where |-> ValueWhere(Line),
                     cstr |-> Line.cstr, dynmem |-> dynmem_enp, ptrmem |-> ptrmem_enp,
                     ptrtgt |-> IF Line.target = "" THEN 0 ELSE FindPtrMem(Line.target),
                     checks |-> <<>>]
    <3>1. cfg' = Append(cfg, e) /\ e.dynmem = dynmem_enp
      BY <2>2 DEF ReadValue
    <3> HIDE DEF e
    <3> QED
      BY <2>0, <3>1, AppendLog
  <2>3. CASE ReadCheck
    <3>1. PICK c : cfg' = [cfg EXCEPT ![Len(cfg)].checks = Append(@, c)]
      BY <2>3 DEF ReadCheck
    <3>2. ASSUME NEW k \in DOMAIN cfg
          PROVE  cfg'[k].dynmem = cfg[k].dynmem
      <4>1. IsEntry(cfg[k])
        BY DEF TakenInv, HomesInv, EntriesOK, EntryOK
      <4> QED
        BY <3>1, <4>1 DEF IsEntry
    <3> QED
      BY <3>1, <3>2
  <2> QED
    BY <2>1, <2>2, <2>3
       DEF ReadSkip, ReadDump, ReadOption, ReadPtrmemStart, ReadPtrmemEnd
<1> QED
  BY <1>1, <1>2, <1>3, ReadInnerTaken

LEMMA ClassFields ==
    ASSUME TakenInv
    PROVE  /\ Len(dynmems) \in Nat /\ DOMAIN dynmems = 1..Len(dynmems)
           /\ \A i \in DOMAIN dynmems : dynmems[i].cfg_line \in Nat
           /\ lnr \in Nat /\ Len(cfg_lines) \in Nat
  BY LogFacts DEF TakenInv, ClassesOK, IsClass, Phases, HomesInv, Typed, LinesOK

\* A new class begins on the line that is being read, or has the first one.
LEMMA NewClassTaken ==
    ASSUME TakenInv, NEW kind, Parse(kind), UNCHANGED cfg, dynmem_enp = 0,
           NEW c, IsClass(c), c.cfg_line \in {1, lnr},
           dynmems' = Append(dynmems, c), dynmem_enp' = Len(dynmems')
    PROVE  ClassesOK' /\ ClassLines' /\ Phases' /\ (ScriptsNonzero => TakenOK')
<1> DEFINE n == Len(dynmems)
<1>0. status = "read"
  BY DEF Parse, Reading
<1>1. /\ Phases' /\ (ScriptsNonzero => TakenOK') /\ lnr' = lnr + 1 /\ lnr \in 2..Len(cfg_lines)
      /\ UNCHANGED cfg_lines
  BY <1>0, ReadTaken
<1>2. n \in Nat /\ DOMAIN dynmems = 1..n /\ \A i \in 1..n : dynmems[i].cfg_line \in Nat
  BY ClassFields
<1>3. /\ IsLog(dynmems') /\ Len(dynmems') = n + 1
      /\ DOMAIN dynmems' = 1..(n + 1)
      /\ \A i \in 1..n : dynmems'[i] = dynmems[i]
      /\ dynmems'[n + 1] = c
  <2>1. IsLog(dynmems)
    BY DEF TakenInv, ClassesOK
  <2> QED
    BY <1>2, <2>1, AppendLog, LogFacts
<1> HIDE DEF n
<1>4. ClassesOK'
  <2>1. \A i \in DOMAIN dynmems' : IsClass(dynmems'[i])
    BY <1>2, <1>3 DEF TakenInv, ClassesOK
  <2>2. \A k \in DOMAIN cfg' : cfg'[k].dynmem \in 0..Len(dynmems')
    BY <1>2, <1>3 DEF TakenInv, ClassesOK, n
  <2>3. dynmem_enp' \in 0..Len(dynmems')
    BY <1>2, <1>3
  <2> QED
    BY <1>3, <2>1, <2>2, <2>3 DEF ClassesOK, IsClass
<1>5. ClassLines'
  <2>1. ASSUME NEW i \in 1..n
        PROVE  /\ dynmems[i].cfg_line < lnr
               /\ dynmems[i].cfg_line # 1 => dynmems[i].cfg_line < Len(cfg_lines)
    BY <1>2, <2>1 DEF TakenInv, ClassLines
  <2>2. ASSUME NEW i \in 1..(n + 1)
        PROVE  /\ dynmems'[i].cfg_line < lnr'
               /\ dynmems'[i].cfg_line # 1 => dynmems'[i].cfg_line <= Len(cfg_lines)
               /\ dynmems'[i].cfg_line # 1 /\ i # n + 1 =>
                     dynmems'[i].cfg_line < Len(cfg_lines)
    <3>1. CASE i \in 1..n
      <4>1. dynmems'[i] = dynmems[i] /\ dynmems[i].cfg_line \in Nat
        BY <1>2, <1>3, <3>1
      <4> QED
        BY <1>1, <2>1, <3>1, <4>1
    <3>2. CASE i = n + 1
      BY <1>1, <1>3, <3>2
    <3> QED
      BY <1>2, <3>1, <3>2
  <2>3. ASSUME NEW i \in 1..(n + 1), NEW k \in 1..(n + 1),
               dynmems'[i].cfg_line = dynmems'[k].cfg_line, dynmems'[i].cfg_line # 1
        PROVE  i = k
    <3>1. CASE i \in 1..n /\ k \in 1..n
      BY <1>2, <1>3, <2>3, <3>1 DEF TakenInv, ClassLines
    <3>2. CASE i = n + 1 /\ k \in 1..n
      <4>1. dynmems[k].cfg_line < lnr /\ dynmems[k].cfg_line \in Nat /\ lnr \in Nat
        BY <1>1, <1>2, <2>1, <3>2
      <4> QED
        BY <1>3, <2>3, <3>2, <4>1
    <3>3. CASE k = n + 1 /\ i \in 1..n
      <4>1. dynmems[i].cfg_line < lnr /\ dynmems[i].cfg_line \in Nat /\ lnr \in Nat
        BY <1>1, <1>2, <2>1, <3>3
      <4> QED
        BY <1>3, <2>3, <3>3, <4>1
    <3> QED
      BY <1>2, <3>1, <3>2, <3>3
  <2>4. dynmem_enp' = n + 1 /\ Len(cfg_lines') = Len(cfg_lines)
    BY <1>1, <1>3
  <2> QED
    BY <1>3, <2>2, <2>3, <2>4 DEF ClassLines
<1> QED
  BY <1>1, <1>4, <1>5

\* A class keeps its line when something else of it changes.
LEMMA SameLinesTaken ==
    ASSUME TakenInv, NEW kind, Parse(kind), UNCHANGED <<cfg, dynmem_enp>>,
           IsLog(dynmems'), DOMAIN dynmems' = DOMAIN dynmems,
           \A i \in DOMAIN dynmems : /\ IsClass(dynmems'[i])
                                     /\ dynmems'[i].cfg_line = dynmems[i].cfg_line
    PROVE  ClassesOK' /\ ClassLines' /\ Phases' /\ (ScriptsNonzero => TakenOK')
<1>1. /\ Phases' /\ (ScriptsNonzero => TakenOK') /\ lnr' = lnr + 1 /\ lnr \in 2..Len(cfg_lines)
      /\ UNCHANGED cfg_lines
  BY ReadTaken DEF TakenInv, Phases
<1>2. Len(dynmems') = Len(dynmems)
  BY LogFacts, ClassFields
<1>3. ClassesOK'
  BY <1>2 DEF TakenInv, ClassesOK, IsClass
<1>4. ClassLines'
  BY <1>1, ClassFields DEF TakenInv, ClassLines
<1> QED
  BY <1>1, <1>3, <1>4

LEMMA ReadBlockTaken ==
    ASSUME TakenInv,
           ReadDynmemStart \/ ReadDynmemConst \/ ReadDynmemGrow \/ ReadDynmemEnd
    PROVE  ClassesOK' /\ ClassLines' /\ Phases' /\ (ScriptsNonzero => TakenOK')
<1>0. /\ UNCHANGED cfg /\ lnr \in Nat \ {0}
  BY DEF ReadDynmemStart, ReadDynmemConst, ReadDynmemGrow, ReadDynmemEnd, TakenInv, HomesInv, Typed
<1>1. CASE ReadDynmemStart
  <2> DEFINE c == NewClass(Line, lnr)
  <2>1. /\ Parse("dynmemstart") /\ dynmem_enp = 0
        /\ dynmems' = Append(dynmems, c) /\ dynmem_enp' = Len(dynmems')
    BY <1>1 DEF ReadDynmemStart, Parse, Accepted, InScope
  <2>2. IsClass(c) /\ c.cfg_line = lnr
    BY <1>0 DEF NewClass, IsClass
  <2> HIDE DEF c
  <2> QED
    BY <1>0, <2>1, <2>2, NewClassTaken
<1>2. CASE ReadDynmemConst
  <2>1. /\ Parse("dynmemconst") /\ UNCHANGED dynmem_enp
        /\ dynmems' = [dynmems EXCEPT ![dynmem_enp].consts = @ + 1]
    BY <1>2 DEF ReadDynmemConst, scopeVars
  <2>2. DOMAIN dynmems' = DOMAIN dynmems /\ dynmems' = [i \in DOMAIN dynmems |-> dynmems'[i]]
    BY <2>1
  <2>3. ASSUME NEW i \in DOMAIN dynmems
        PROVE  IsClass(dynmems'[i]) /\ dynmems'[i].cfg_line = dynmems[i].cfg_line
    BY <2>1 DEF TakenInv, ClassesOK, IsClass
  <2>4. IsLog(dynmems')
    BY <2>2, ClassFields, FunIsLog
  <2> QED
    BY <1>0, <2>1, <2>2, <2>3, <2>4, SameLinesTaken
<1>3. CASE ReadDynmemGrow
  <2>1. Parse("dynmemgrow")
    BY <1>3 DEF ReadDynmemGrow
  <2>2. CASE dynmem_enp # 0
    <3>1. /\ UNCHANGED dynmem_enp
          /\ dynmems' = [dynmems EXCEPT ![dynmem_enp].grow = TRUE]
      BY <1>3, <2>2 DEF ReadDynmemGrow
    <3>2. DOMAIN dynmems' = DOMAIN dynmems /\ dynmems' = [i \in DOMAIN dynmems |-> dynmems'[i]]
      BY <3>1
    <3>3. ASSUME NEW i \in DOMAIN dynmems
          PROVE  IsClass(dynmems'[i]) /\ dynmems'[i].cfg_line = dynmems[i].cfg_line
      BY <3>1 DEF TakenInv, ClassesOK, IsClass
    <3>4. IsLog(dynmems')
      BY <3>2, ClassFields, FunIsLog
    <3> QED
      BY <1>0, <2>1, <3>1, <3>2, <3>3, <3>4, SameLinesTaken
  <2>3. CASE dynmem_enp = 0
    <3> DEFINE c == [NewClass([name |-> Line.name, size |-> 0, code |-> 0, lib |-> ""], 1)
                        EXCEPT !.grow = TRUE]
    <3>1. dynmems' = Append(dynmems, c) /\ dynmem_enp' = Len(dynmems')
      BY <1>3, <2>3 DEF ReadDynmemGrow
    <3>2. IsClass(c) /\ c.cfg_line = 1
      <4> DEFINE r == NewClass([name |-> Line.name, size |-> 0, code |-> 0, lib |-> ""], 1)
      <4>1. IsClass(r) /\ r.cfg_line = 1
        BY DEF NewClass, IsClass
      <4>2. c = [r EXCEPT !.grow = TRUE]
        OBVIOUS
      <4> HIDE DEF r, c
      <4> QED
        BY <4>1, <4>2 DEF IsClass
    <3> HIDE DEF c
    <3> QED
      BY <1>0, <2>1, <2>3, <3>1, <3>2, NewClassTaken
  <2> QED
    BY <2>2, <2>3
<1>4. CASE ReadDynmemEnd
  <2>1. Parse("dynmemend") /\ dynmem_enp' = 0 /\ UNCHANGED dynmems
    BY <1>4 DEF ReadDynmemEnd
  <2>2. /\ Phases' /\ (ScriptsNonzero => TakenOK') /\ lnr' = lnr + 1 /\ lnr \in 2..Len(cfg_lines)
        /\ UNCHANGED cfg_lines
    BY <2>1, ReadTaken
  <2>3. ClassesOK'
    BY <1>0, <2>1, ClassFields DEF TakenInv, ClassesOK, IsClass, IsLog
  <2>4. ClassLines'
    BY <2>1, <2>2, ClassFields DEF TakenInv, ClassLines
  <2> QED
    BY <2>2, <2>3, <2>4
<1> QED
  BY <1>1, <1>2, <1>3, <1>4

-----------------------------------------------------------------------------
LEMMA TailNonzero ==
    ASSUME NEW items, NonzeroCodes(items), items # <<>>
    PROVE  NonzeroCodes(Tail(items))
<1> DEFINE S == {items[k] : k \in DOMAIN items}
<1>1. items \in Seq(S) /\ Len(items) \in Nat /\ Len(items) # 0
  BY LogFacts DEF NonzeroCodes, IsLog
<1> HIDE DEF S
<1>2. /\ Tail(items) \in Seq(S)
      /\ DOMAIN Tail(items) = 1..(Len(items) - 1)
      /\ \A k \in 1..(Len(items) - 1) : Tail(items)[k] = items[k + 1]
  BY <1>1
<1>3. IsLog(Tail(items))
  BY <1>2, SeqIsLog
<1>4. \A k \in 1..(Len(items) - 1) : k + 1 \in DOMAIN items
  BY <1>1
<1> QED
  BY <1>2, <1>3, <1>4 DEF NonzeroCodes

LEMMA StopTaken ==
    ASSUME TakenInv, NEW how, Stop(how), how \notin {"read", "adapt"},
           how \in {"built", "ready"} => dynmem_enp = 0,
           run = 1 /\ how \in {"built", "ready"} => taken = <<>>
    PROVE  ClassesOK' /\ ClassLines' /\ Phases' /\ (ScriptsNonzero => TakenOK')
<1>1. /\ UNCHANGED <<run, cfg_lines, lnr, dynmem_enp, dynmems, cfg, script, taken>>
      /\ status' = how
  BY DEF Stop, scopeVars, adaptVars
<1>2. ClassesOK' /\ ClassLines'
  BY <1>1 DEF TakenInv, ClassesOK, ClassLines, IsClass, IsLog
<1>3. Phases'
  BY <1>1 DEF TakenInv, Phases, NonzeroCodes, IsLog
<1>4. ASSUME NEW t
      PROVE  Holder(t) => Holder(t)'
  BY <1>1 DEF Holder, Listed
<1>5. run = 1 /\ how = "ready" => DOMAIN taken = {}
  OBVIOUS
<1>6. ScriptsNonzero => TakenOK'
  <2> SUFFICES ASSUME ScriptsNonzero PROVE TakenOK'
    OBVIOUS
  <2>1. IsLog(taken)' /\ \A j, k \in DOMAIN taken' : taken'[j].class = taken'[k].class => j = k
    BY <1>1 DEF TakenInv, TakenOK, IsLog
  <2>2. run' = 1 => \A j \in DOMAIN taken' : Holder(taken[j])'
    BY <1>1, <1>4 DEF TakenInv, TakenOK
  <2>3. run' = 1 /\ status' = "ready" => \A j \in DOMAIN taken' : InFile(taken[j])'
    BY <1>1, <1>5
  <2> QED
    BY <2>1, <2>2, <2>3 DEF TakenOK
<1> QED
  BY <1>2, <1>3, <1>6

\* What the output of the script says is taken over or refused piece by piece;
\* the classes keep their lines.
LEMMA RunScriptTaken ==
    ASSUME TakenInv, NEW s \in Scripts, RunScript(s)
    PROVE  ClassesOK' /\ ClassLines' /\ Phases' /\ (ScriptsNonzero => TakenOK')
<1>1. /\ UNCHANGED <<run, cfg_lines, lnr, dynmem_enp, dynmems, cfg, taken>>
      /\ status = "built" /\ status' = "adapt" /\ run = 1 /\ script' = s
  BY DEF RunScript, configVars, scopeVars
<1>2. ClassesOK' /\ ClassLines'
  BY <1>1 DEF TakenInv, ClassesOK, ClassLines, IsClass, IsLog
<1>3. ScriptsNonzero => NonzeroCodes(script.items)'
  BY <1>1 DEF ScriptsNonzero, NonzeroCodes, IsLog
<1>4. Phases'
  BY <1>1, <1>3 DEF TakenInv, Phases
<1>5. ScriptsNonzero => TakenOK'
  <2> SUFFICES ASSUME ScriptsNonzero PROVE TakenOK'
    OBVIOUS
  <2>1. taken' = <<>>
    BY <1>1 DEF TakenInv, Phases
  <2> QED
    BY <2>1 DEF TakenOK, IsLog
<1> QED
  BY <1>2, <1>4, <1>5

LEMMA TakeSettingTaken ==
    ASSUME TakenInv, TakeSetting
    PROVE  ClassesOK' /\ ClassLines' /\ Phases' /\ (ScriptsNonzero => TakenOK')
<1>1. /\ UNCHANGED <<run, status, lnr, dynmem_enp, dynmems, cfg, taken>>
      /\ status = "adapt" /\ run = 1
      /\ script.items # <<>> /\ script' = [script EXCEPT !.items = Tail(@)]
  BY DEF TakeSetting, Parsing, configVars, scopeVars, TakenInv, Phases
<1>2. Len(cfg_lines') = Len(cfg_lines)
  <2>1. \/ UNCHANGED cfg_lines
        \/ \E k, l : cfg_lines' = [cfg_lines EXCEPT ![k] = l]
    BY DEF TakeSetting
  <2>2. ASSUME NEW k, NEW l, cfg_lines' = [cfg_lines EXCEPT ![k] = l]
        PROVE  Len(cfg_lines') = Len(cfg_lines)
    <3>1. IsLog(cfg_lines)
      BY DEF TakenInv, HomesInv, Typed, LinesOK
    <3>2. /\ DOMAIN cfg_lines' = 1..Len(cfg_lines) /\ Len(cfg_lines) \in Nat
          /\ cfg_lines' = [i \in 1..Len(cfg_lines) |-> cfg_lines'[i]]
      BY <2>2, <3>1, LogFacts
    <3>3. IsLog(cfg_lines')
      BY <3>2, FunIsLog
    <3> QED
      BY <3>2, <3>3, LogFacts
  <2> QED
    BY <2>1, <2>2
<1>3. ClassesOK' /\ ClassLines'
  BY <1>1, <1>2 DEF TakenInv, ClassesOK, ClassLines, IsClass, IsLog
<1>4. Phases'
  <2>1. ScriptsNonzero => NonzeroCodes(Tail(script.items))
    BY <1>1, TailNonzero DEF TakenInv, Phases
  <2>2. \/ script'.items = Tail(script.items)
        \/ script' = script
    BY <1>1
  <2>3. ScriptsNonzero => NonzeroCodes(script'.items)
    BY <2>1, <2>2 DEF TakenInv, Phases
  <2>4. ScriptsNonzero => NonzeroCodes(script.items)'
    BY <2>3 DEF NonzeroCodes, IsLog
  <2> QED
    BY <1>1, <2>4 DEF TakenInv, Phases
<1>5. ScriptsNonzero => TakenOK'
  <2> SUFFICES ASSUME ScriptsNonzero PROVE TakenOK'
    OBVIOUS
  <2>1. ASSUME NEW t
        PROVE  Holder(t) => Holder(t)'
    BY <1>1 DEF Holder, Listed
  <2>2. IsLog(taken)' /\ \A j, k \in DOMAIN taken' : taken'[j].class = taken'[k].class => j = k
    BY <1>1 DEF TakenInv, TakenOK, IsLog
  <2>3. \A j \in DOMAIN taken' : Holder(taken[j])'
    BY <1>1, <2>1 DEF TakenInv, TakenOK
  <2> QED
    BY <1>1, <2>2, <2>3 DEF TakenOK
<1> QED
  BY <1>3, <1>4, <1>5

\* An object goes to a class that has none yet.
LEMMA TakeObjectTaken ==
    ASSUME TakenInv, TakeObject
    PROVE  ClassesOK' /\ ClassLines' /\ Phases' /\ (ScriptsNonzero => TakenOK')
<1> DEFINE K == Candidates(Item.name)
           c == LeastOf(K)
           t == [class |-> c, obj |-> Item]
<1>1. /\ UNCHANGED <<run, status, cfg_lines, lnr, dynmem_enp, cfg>>
      /\ status = "adapt" /\ run = 1
      /\ script.items # <<>> /\ Item.kind = "obj" /\ K # {}
      /\ dynmems' = [dynmems EXCEPT ![c].adp_size = Item.size, ![c].adp_addr = Item.code]
      /\ taken' = Append(taken, t)
      /\ script' = [num |-> script.num - 1, items |-> Tail(script.items)]
  BY DEF TakeObject, Parsing, configVars, scopeVars, TakenInv, Phases
<1>2. ScriptsNonzero => Item.code # 0
  <2> SUFFICES ASSUME ScriptsNonzero PROVE Item.code # 0
    OBVIOUS
  <2>1. 1 \in DOMAIN script.items
    BY <1>1, LogFacts DEF TakenInv, Phases, NonzeroCodes
  <2> QED
    BY <1>1, <2>1 DEF Item, TakenInv, Phases, NonzeroCodes
<1>3. Listed \subseteq DOMAIN dynmems
  <2>1. \A k \in DOMAIN cfg : cfg[k].dynmem \in 0..Len(dynmems)
    BY DEF TakenInv, ClassesOK
  <2> QED
    BY <2>1, ClassFields DEF Listed
<1>4. c \in K
  <2>1. K \subseteq 1..Len(dynmems) /\ Len(dynmems) \in Nat
    BY <1>3, ClassFields DEF Candidates
  <2> HIDE DEF K
  <2> QED
    BY <1>1, <2>1, Least
<1> HIDE DEF c, K
<1>5. /\ c \in Listed /\ c \in DOMAIN dynmems
      /\ dynmems[c].adp_addr = 0 /\ dynmems[c].name = Item.name
  BY <1>3, <1>4 DEF Candidates, K
<1>6. /\ DOMAIN dynmems' = DOMAIN dynmems
      /\ dynmems' = [i \in DOMAIN dynmems |-> dynmems'[i]]
      /\ \A i \in DOMAIN dynmems : i # c => dynmems'[i] = dynmems[i]
  BY <1>1
<1>7. /\ IsClass(dynmems'[c])
      /\ dynmems'[c].cfg_line = dynmems[c].cfg_line
      /\ dynmems'[c].name = Item.name
      /\ dynmems'[c].adp_size = Item.size /\ dynmems'[c].adp_addr = Item.code
  <2>1. IsClass(dynmems[c])
    BY <1>5 DEF TakenInv, ClassesOK
  <2>2. dynmems'[c] = [[dynmems[c] EXCEPT !.adp_size = Item.size] EXCEPT !.adp_addr = Item.code]
    BY <1>1, <1>5
  <2> QED
    BY <1>5, <2>1, <2>2 DEF IsClass
<1>8. \A i \in DOMAIN dynmems : /\ IsClass(dynmems'[i])
                                /\ dynmems'[i].cfg_line = dynmems[i].cfg_line
  BY <1>6, <1>7 DEF TakenInv, ClassesOK
<1>9. IsLog(dynmems') /\ Len(dynmems') = Len(dynmems)
  BY <1>6, ClassFields, FunIsLog, LogFacts
<1>10. ClassesOK' /\ ClassLines'
  <2>1. \A i \in DOMAIN dynmems' : IsClass(dynmems'[i])
    BY <1>6, <1>8
  <2>2. ClassesOK'
    BY <1>1, <1>9, <2>1 DEF TakenInv, ClassesOK, IsClass, IsLog
  <2>3. ClassLines'
    BY <1>1, <1>6, <1>8 DEF TakenInv, ClassLines
  <2> QED
    BY <2>2, <2>3
<1>11. Phases'
  <2>1. ScriptsNonzero => NonzeroCodes(Tail(script.items))
    BY <1>1, TailNonzero DEF TakenInv, Phases
  <2>2. ScriptsNonzero => NonzeroCodes(script.items)'
    BY <1>1, <2>1 DEF NonzeroCodes, IsLog
  <2> QED
    BY <1>1, <2>2 DEF TakenInv, Phases
<1>12. ScriptsNonzero => TakenOK'
  <2> SUFFICES ASSUME ScriptsNonzero PROVE TakenOK'
    OBVIOUS
  <2>1. /\ IsLog(taken) /\ Len(taken) \in Nat /\ DOMAIN taken = 1..Len(taken)
        /\ \A j \in DOMAIN taken : Holder(taken[j])
    BY <1>1, LogFacts DEF TakenInv, TakenOK
  <2> HIDE DEF t
  <2>2. /\ IsLog(taken') /\ DOMAIN taken' = DOMAIN taken \cup {Len(taken) + 1}
        /\ \A j \in DOMAIN taken : taken'[j] = taken[j]
        /\ taken'[Len(taken) + 1] = t
    BY <1>1, <2>1, AppendLog
  <2>3. \A j \in DOMAIN taken : taken[j].class # c
    BY <1>5, <2>1 DEF Holder
  <2>4. t.class = c /\ t.obj = Item
    BY DEF t
  <2>5. \A j, k \in DOMAIN taken' : taken'[j].class = taken'[k].class => j = k
    BY <2>2, <2>3, <2>4 DEF TakenInv, TakenOK
  <2>6. \A j \in DOMAIN taken : Holder(taken'[j])
    BY <2>1, <2>2
  <2>7. ASSUME NEW j \in DOMAIN taken'
        PROVE  Holder(taken[j])'
    <3>1. CASE j \in DOMAIN taken
      <4>1. taken'[j] = taken[j] /\ taken[j].class # c /\ Holder(taken[j])
        BY <2>1, <2>2, <2>3, <3>1
      <4>2. dynmems'[taken[j].class] = dynmems[taken[j].class]
        BY <1>3, <1>6, <4>1 DEF Holder
      <4> QED
        BY <1>1, <4>1, <4>2 DEF Holder, Listed
    <3>2. CASE j = Len(taken) + 1
      <4>1. taken'[j] = t
        BY <2>2, <3>2
      <4> QED
        BY <1>1, <1>2, <1>5, <1>7, <2>4, <4>1 DEF Holder, Listed
    <3> QED
      BY <2>2, <3>1, <3>2
  <2> QED
    BY <1>1, <2>2, <2>5, <2>7 DEF TakenOK, IsLog
<1> QED
  BY <1>10, <1>11, <1>12

\* Memory and file get what the output says: the line of a class is no other
\* class's, and is written.
LEMMA TakeOverTaken ==
    ASSUME TakenInv, TakeOver
    PROVE  ClassesOK' /\ ClassLines' /\ Phases' /\ (ScriptsNonzero => TakenOK')
<1>1. /\ UNCHANGED <<run, lnr, dynmem_enp, cfg, opt, script, taken>>
      /\ status = "adapt" /\ status' = "ready" /\ run = 1 /\ dynmem_enp = 0
      /\ dynmems' = Adapted
      /\ cfg_lines' = AdaptedLines(dynmems')
      /\ disk' = [lines |-> SubSeq(cfg_lines', 1, Len(cfg_lines) - 1), ended |-> TRUE]
  BY DEF TakeOver, configVars, scopeVars, TakenInv, Phases
<1>2. /\ DOMAIN dynmems' = DOMAIN dynmems
      /\ dynmems' = [i \in DOMAIN dynmems |-> dynmems'[i]]
  BY <1>1 DEF Adapted
<1>3. ASSUME NEW i \in DOMAIN dynmems
      PROVE  /\ IsClass(dynmems'[i])
             /\ dynmems'[i].cfg_line = dynmems[i].cfg_line
             /\ dynmems'[i].name = dynmems[i].name
             /\ dynmems'[i].adp_size = dynmems[i].adp_size
             /\ dynmems'[i].adp_addr = dynmems[i].adp_addr
             /\ i \in Listed => /\ dynmems'[i].size = dynmems[i].adp_size
                                /\ dynmems'[i].code = dynmems[i].adp_addr
  <2>1. IsClass(dynmems[i])
    BY DEF TakenInv, ClassesOK
  <2>2. dynmems'[i] = IF i \notin Listed THEN dynmems[i]
                      ELSE [dynmems[i] EXCEPT !.size = dynmems[i].adp_size,
                                              !.code = dynmems[i].adp_addr]
    BY <1>1 DEF Adapted
  <2>3. CASE i \notin Listed
    BY <2>1, <2>2, <2>3
  <2>4. CASE i \in Listed
    <3>1. dynmems'[i] = [[dynmems[i] EXCEPT !.size = dynmems[i].adp_size]
                                     EXCEPT !.code = dynmems[i].adp_addr]
      BY <2>2, <2>4
    <3> QED
      BY <2>1, <3>1 DEF IsClass
  <2> QED
    BY <2>3, <2>4
<1>4. IsLog(dynmems') /\ Len(dynmems') = Len(dynmems)
  BY <1>2, ClassFields, FunIsLog, LogFacts
<1>5. ClassesOK'
  <2>1. \A i \in DOMAIN dynmems' : IsClass(dynmems'[i])
    BY <1>2, <1>3
  <2> QED
    BY <1>1, <1>4, <2>1 DEF TakenInv, ClassesOK, IsClass, IsLog
<1>6. /\ IsLog(cfg_lines') /\ DOMAIN cfg_lines' = DOMAIN cfg_lines
      /\ Len(cfg_lines') = Len(cfg_lines) /\ Len(cfg_lines) \in Nat
      /\ DOMAIN cfg_lines = 1..Len(cfg_lines)
  <2>1. IsLog(cfg_lines)
    BY DEF TakenInv, HomesInv, Typed, LinesOK
  <2>2. DOMAIN cfg_lines' = DOMAIN cfg_lines /\ cfg_lines' = [k \in DOMAIN cfg_lines |-> cfg_lines'[k]]
    BY <1>1 DEF AdaptedLines
  <2>3. IsLog(cfg_lines')
    BY <2>1, <2>2, LogFacts, FunIsLog
  <2> QED
    BY <2>1, <2>2, <2>3, LogFacts
<1>7. ClassLines'
  BY <1>1, <1>2, <1>3, <1>6 DEF TakenInv, ClassLines
<1>8. Phases'
  BY <1>1 DEF TakenInv, Phases, NonzeroCodes, IsLog
<1>9. Listed' = Listed /\ Listed \subseteq DOMAIN dynmems
  <2>1. \A k \in DOMAIN cfg : cfg[k].dynmem \in 0..Len(dynmems)
    BY DEF TakenInv, ClassesOK
  <2> QED
    BY <1>1, <2>1, ClassFields DEF Listed
<1>10. ASSUME NEW t, Holder(t)
       PROVE  Holder(t)'
  <2>1. t.class \in Listed /\ t.class \in DOMAIN dynmems
    BY <1>9, <1>10 DEF Holder
  <2> QED
    BY <1>3, <1>9, <1>10, <2>1 DEF Holder
<1>11. ASSUME NEW t, Holder(t)
       PROVE  InFile(t)'
  <2> DEFINE c == t.class
             k == dynmems[c].cfg_line
             here == {i \in Listed : dynmems'[i].cfg_line = k}
  <2>1. c \in Listed /\ c \in DOMAIN dynmems
    BY <1>9, <1>11 DEF Holder
  <2>2. /\ dynmems'[c].size = t.obj.size /\ dynmems'[c].code = t.obj.code
        /\ dynmems'[c].name = t.obj.name
        /\ dynmems'[c].cfg_line = k /\ k \in Nat \ {0}
    BY <1>3, <1>11, <2>1 DEF Holder, TakenInv, ClassesOK, IsClass
  <2>3. ASSUME k # 1, k # opt.adp_req_line
        PROVE  disk'.lines[k] = StartLine(t.obj)
    <3>1. c # dynmem_enp
      BY <1>1, <2>1, ClassFields
    <3>2. k \in Nat /\ k >= 1 /\ k <= Len(cfg_lines) - 1 /\ k \in DOMAIN cfg_lines
      <4>1. k < Len(cfg_lines)
        BY <2>1, <2>3, <3>1 DEF TakenInv, ClassLines
      <4> QED
        BY <1>6, <2>2, <4>1
    <3>3. disk'.lines[k] = cfg_lines'[k]
      <4>1. cfg_lines' \in Seq({cfg_lines'[x] : x \in DOMAIN cfg_lines'})
        BY <1>6 DEF IsLog
      <4>2. disk'.lines = SubSeq(cfg_lines', 1, Len(cfg_lines) - 1)
        BY <1>1
      <4> HIDE DEF k
      <4>3. SubSeq(cfg_lines', 1, Len(cfg_lines) - 1)[k] = cfg_lines'[k]
        BY <1>6, <3>2, <4>1
      <4> QED
        BY <4>2, <4>3
    <3>4. here = {c}
      <4>1. \A i \in Listed : dynmems'[i].cfg_line = k => i = c
        BY <1>3, <1>9, <2>1, <2>3 DEF TakenInv, ClassLines
      <4> QED
        BY <2>1, <2>2, <4>1
    <3>5. LargestOf({c}) = c
      <4>1. c <= c
        BY <2>1, ClassFields
      <4> HIDE DEF c
      <4> QED
        BY <4>1 DEF LargestOf
    <3>6. cfg_lines'[k] = StartLine(dynmems'[c])
      <4>1. cfg_lines'[k] = IF k = opt.adp_req_line THEN [kind |-> "adapt_required", val |-> FALSE]
                            ELSE IF here # {} THEN StartLine(dynmems'[LargestOf(here)])
                            ELSE cfg_lines[k]
        BY <1>1, <3>2 DEF AdaptedLines
      <4> HIDE DEF here
      <4> QED
        BY <2>3, <3>4, <3>5, <4>1
    <3> QED
      BY <2>2, <3>3, <3>6 DEF StartLine
  <2> QED
    BY <1>1, <2>2, <2>3 DEF InFile
<1>12. ScriptsNonzero => TakenOK'
  <2> SUFFICES ASSUME ScriptsNonzero PROVE TakenOK'
    OBVIOUS
  <2>1. \A j \in DOMAIN taken : Holder(taken[j])
    BY <1>1 DEF TakenInv, TakenOK
  <2>2. \A j \in DOMAIN taken' : Holder(taken[j])' /\ InFile(taken[j])'
    BY <1>1, <1>10, <1>11, <2>1
  <2> QED
    BY <1>1, <2>2 DEF TakenInv, TakenOK, IsLog
<1> QED
  BY <1>5, <1>7, <1>8, <1>12

LEMMA RestartTaken ==
    ASSUME TakenInv, Restart
    PROVE  ClassesOK' /\ ClassLines' /\ Phases' /\ (ScriptsNonzero => TakenOK')
<1>1. /\ run' = 2 /\ status' = "read" /\ lnr' = 2 /\ UNCHANGED <<script, taken>>
      /\ dynmem_enp' = 0 /\ dynmems' = <<>> /\ cfg' = <<>>
  BY DEF Restart, adaptVars
<1>2. ClassesOK' /\ ClassLines'
  BY <1>1 DEF ClassesOK, ClassLines, IsLog
<1>3. Phases'
  BY <1>1 DEF TakenInv, Phases, NonzeroCodes, IsLog
<1>4. ScriptsNonzero => TakenOK'
  BY <1>1 DEF TakenInv, TakenOK, IsLog
<1> QED
  BY <1>2, <1>3, <1>4

LEMMA TakenStep ==
    ASSUME TakenInv, [Next]_vars
    PROVE  ClassesOK' /\ ClassLines' /\ Phases' /\ (ScriptsNonzero => TakenOK')
<1>1. CASE ReadConfig
  <2>1. CASE Reject \/ Dangle \/ EndOfConfig
    <3>1. PICK how \in {"failed", "undefined", "built"} :
             Stop(how) /\ status = "read" /\ (how = "built" => dynmem_enp = 0)
      BY <2>1 DEF Reject, Dangle, EndOfConfig, Reading, InScope
    <3>2. run = 1 => taken = <<>>
      BY <3>1 DEF TakenInv, Phases
    <3> QED
      BY <3>1, <3>2, StopTaken
  <2> QED
    BY <1>1, <2>1, ReadOtherTaken, ReadBlockTaken DEF ReadConfig
<1>2. CASE Adaptation
  <2>1. CASE SkipAdaptation
    <3>1. Stop("ready") /\ dynmem_enp = 0 /\ (run = 1 => taken = <<>>)
      BY <2>1 DEF SkipAdaptation, TakenInv, Phases
    <3> QED
      BY <3>1, StopTaken
  <2>2. CASE NoAdaptation \/ RejectScript \/ WriteFails
    BY <2>2, StopTaken DEF NoAdaptation, RejectScript, WriteFails
  <2> QED
    BY <1>2, <2>1, <2>2, RunScriptTaken, TakeSettingTaken, TakeObjectTaken, TakeOverTaken
       DEF Adaptation
<1>3. CASE UNCHANGED vars
  <2>1. /\ UNCHANGED <<run, status, cfg_lines, lnr, dynmem_enp, dynmems, cfg>>
        /\ UNCHANGED <<disk, opt, script, taken>>
    BY <1>3 DEF vars, scopeVars, adaptVars
  <2>2. ClassesOK' /\ ClassLines'
    BY <2>1 DEF TakenInv, ClassesOK, ClassLines, IsClass, IsLog
  <2>3. Phases'
    BY <2>1 DEF TakenInv, Phases, NonzeroCodes, IsLog
  <2>4. ASSUME NEW t
        PROVE  (Holder(t) => Holder(t)') /\ (InFile(t) => InFile(t)')
    BY <2>1 DEF Holder, InFile, Listed
  <2>5. ScriptsNonzero => TakenOK'
    <3> SUFFICES ASSUME ScriptsNonzero PROVE TakenOK'
      OBVIOUS
    <3>1. IsLog(taken)' /\ \A j, k \in DOMAIN taken' : taken'[j].class = taken'[k].class => j = k
      BY <2>1 DEF TakenInv, TakenOK, IsLog
    <3>2. run' = 1 => \A j \in DOMAIN taken' : Holder(taken[j])'
      BY <2>1, <2>4 DEF TakenInv, TakenOK
    <3>3. run' = 1 /\ status' = "ready" => \A j \in DOMAIN taken' : InFile(taken[j])'
      BY <2>1, <2>4 DEF TakenInv, TakenOK
    <3> QED
      BY <3>1, <3>2, <3>3 DEF TakenOK
  <2> QED
    BY <2>2, <2>3, <2>5
<1> QED
  BY <1>1, <1>2, <1>3, RestartTaken DEF Next, Terminated

LEMMA TakenNext ==
    ASSUME TakenInv, [Next]_vars
    PROVE  TakenInv'
<1>1. HomesInv'
  BY HomesNext DEF TakenInv
<1> QED
  BY <1>1, TakenStep DEF TakenInv

LEMMA TakenInit == Init => TakenInv
<1> SUFFICES ASSUME Init PROVE TakenInv
  OBVIOUS
<1>1. HomesInv
  BY HomesInit
<1>2. /\ run = 1 /\ status = "read" /\ lnr = 2 /\ dynmem_enp = 0
      /\ dynmems = <<>> /\ cfg = <<>> /\ taken = <<>> /\ script.items = <<>>
  BY DEF Init
<1>3. ClassesOK /\ ClassLines
  BY <1>2 DEF ClassesOK, ClassLines, IsLog
<1>4. Phases
  BY <1>2 DEF Phases, NonzeroCodes, IsLog
<1>5. ScriptsNonzero => TakenOK
  BY <1>2 DEF TakenOK, IsLog
<1> QED
  BY <1>1, <1>3, <1>4, <1>5 DEF TakenInv

\* Also when classes have the same name, each object of the script's output
\* goes to a class of its own, which then has its size and code address in
\* memory and in the file: if no object has the code address 0.
THEOREM TakenOnceAlways ==
    ASSUME ScriptsNonzero
    PROVE  Spec => []TakenOnce
<1>1. TakenInv => TakenOnce
  BY DEF TakenInv, TakenOK, TakenOnce, InFile
<1>2. TakenInv /\ [Next]_vars => TakenInv'
  BY TakenNext
<1> QED
  BY <1>1, <1>2, TakenInit, PTL DEF Spec
-----------------------------------------------------------------------------
(***************************************************************************)
(* The file adaptation leaves behind is the config in memory.              *)
(*                                                                         *)
(* The shape of what has been read is a function of the lines: of all but  *)
(* the sizes, code addresses and options that adaptation may change.  The  *)
(* invariant remembers the shapes the first start went through; the lines  *)
(* that are written back are alike, and so the next start goes through the *)
(* same shapes and finds every line accepted.  Sizes, code addresses and   *)
(* options are those of the lines in both.                                 *)
(***************************************************************************)
ClassShape(c) ==
    [name |-> c.name, lib |-> c.lib, grow |-> c.grow, consts |-> c.consts,
     cfg_line |-> c.cfg_line]

WithChecks(e, checks) ==
    [name |-> e.name, addr |-> e.addr, where |-> e.where, cstr |-> e.cstr,
     dynmem |-> e.dynmem, ptrmem |-> e.ptrmem, ptrtgt |-> e.ptrtgt, checks |-> checks]

EntryShape(e) ==
    WithChecks(e, [k \in DOMAIN e.checks |-> Meaningful(e.checks[k])])

Shape ==
    [de |-> dynmem_enp, pe |-> ptrmem_enp,
     dyn |-> [i \in DOMAIN dynmems |-> ClassShape(dynmems[i])],
     ptr |-> ptrmems,
     cfg |-> [i \in DOMAIN cfg |-> EntryShape(cfg[i])]]

NoShape == [de |-> 0, pe |-> 0, dyn |-> <<>>, ptr |-> <<>>, cfg |-> <<>>]

\* What the definitions of Config of the same meaning say of a shape.
Inside(s) == s.de # 0 \/ s.pe # 0
LastEntry(s) == s.cfg[Len(s.cfg)]

PointeeNamed(s, name) ==
    LET named == {i \in DOMAIN s.cfg : /\ s.cfg[i].ptrmem # 0
                                       /\ s.ptr[s.cfg[i].ptrmem].name = name}
    IN  IF named = {} THEN 0 ELSE s.cfg[LeastOf(named)].ptrmem

EntryNamed(s, name) ==
    LET named == {i \in DOMAIN s.cfg : s.cfg[i].name = name}
    IN  IF named = {} THEN 0 ELSE LargestOf(named)

RefOf(s, l) ==
    IF l.by = "value" /\ EntryNamed(s, l.name) # Len(s.cfg) THEN EntryNamed(s, l.name) ELSE 0

Checked(s, l) == IF l.by = "addr of" THEN s.cfg[EntryNamed(s, l.name)] ELSE LastEntry(s)

AddrOf(s, l) ==
    IF l.by = "number" THEN l.addr
    ELSE IF l.by = "obj" \/ RefOf(s, l) # 0 THEN 0 ELSE Checked(s, l).addr

WhereOf(s, l) ==
    IF l.by = "number" THEN l.where
    ELSE IF l.by = "obj" \/ RefOf(s, l) # 0 THEN "mem" ELSE Checked(s, l).where

FitsValue(s, l) ==
    /\ l.prev => s.cfg # <<>>
    /\ (IF l.prev THEN LastEntry(s).where ELSE l.where) # "mem" => ~Inside(s)
    /\ l.target # "" => PointeeNamed(s, l.target) # 0

FitsCheck(s, l) ==
    /\ l.obj => s.de # 0
    /\ l.by = "obj" => s.de # 0
    /\ l.by \in {"value", "addr of"} => EntryNamed(s, l.name) # 0
    /\ WhereOf(s, l) # "mem" => ~Inside(s)

Fits(s, l) ==
    /\ l.kind \in Settings \cup {"dynmemstart"} => ~Inside(s)
    /\ l.kind = "ptrmemstart" => s.de = 0
    /\ l.kind \in {"dynmemconst", "dynmemend"} => s.de # 0
    /\ l.kind = "ptrmemend" => s.pe # 0
    /\ l.kind = "dynmemgrow" => s.pe = 0 /\ (s.de # 0 => ~s.dyn[s.de].grow)
    /\ l.kind = "value" => FitsValue(s, l)
    /\ l.kind = "check" => FitsCheck(s, l)

Hangs(s, l) ==
    /\ l.kind = "check"
    /\ l.obj => s.de # 0
    /\ IF s.cfg = <<>> THEN TRUE
       ELSE /\ FitsCheck(s, l) /\ RefOf(s, l) = 0
            /\ (s.de # 0 /\ LastEntry(s).dynmem = 0) \/ (s.pe # 0 /\ LastEntry(s).ptrmem = 0)

\* What becomes of the shape on line k.
Begun(s, l) == l.kind = "dynmemstart" \/ (l.kind = "dynmemgrow" /\ s.de = 0)

BegunClass(l, k) ==
    [name |-> l.name, lib |-> IF l.kind = "dynmemstart" THEN l.lib ELSE "",
     grow |-> l.kind = "dynmemgrow", consts |-> 0,
     cfg_line |-> IF l.kind = "dynmemstart" THEN k ELSE 1]

DynAfter(s, l, k) ==
    IF Begun(s, l) THEN Append(s.dyn, BegunClass(l, k))
    ELSE IF l.kind \in {"dynmemgrow", "dynmemconst"} THEN
        [i \in DOMAIN s.dyn |->
            IF i # s.de THEN s.dyn[i]
            ELSE [name |-> s.dyn[i].name, lib |-> s.dyn[i].lib,
                  grow |-> IF l.kind = "dynmemgrow" THEN TRUE ELSE s.dyn[i].grow,
                  consts |-> IF l.kind = "dynmemconst" THEN s.dyn[i].consts + 1
                             ELSE s.dyn[i].consts,
                  cfg_line |-> s.dyn[i].cfg_line]]
    ELSE s.dyn

PtrAfter(s, l) ==
    IF l.kind = "ptrmemstart" THEN Append(s.ptr, [name |-> l.name, dynmem |-> 0, v_state |-> 0])
    ELSE IF l.kind # "value" \/ l.target = "" THEN s.ptr
    ELSE IF s.de # 0 THEN [s.ptr EXCEPT ![PointeeNamed(s, l.target)].dynmem = s.de]
    ELSE [s.ptr EXCEPT ![PointeeNamed(s, l.target)].v_state = @ + 1]

ReadEntry(s, l) ==
    [name |-> l.name,
     addr |-> IF l.prev THEN LastEntry(s).addr + l.addr ELSE l.addr,
     where |-> IF l.prev THEN LastEntry(s).where ELSE l.where,
     cstr |-> l.cstr, dynmem |-> s.de, ptrmem |-> s.pe,
     ptrtgt |-> IF l.target = "" THEN 0 ELSE PointeeNamed(s, l.target),
     checks |-> <<>>]

ReadChecked(s, l) ==
    [addr |-> AddrOf(s, l), where |-> WhereOf(s, l), ref |-> RefOf(s, l),
     num |-> l.by = "obj", open |-> ~Inside(s)]

CfgAfter(s, l) ==
    IF l.kind = "value" THEN Append(s.cfg, ReadEntry(s, l))
    ELSE IF l.kind = "check" THEN
        [i \in DOMAIN s.cfg |->
            IF i # Len(s.cfg) THEN s.cfg[i]
            ELSE WithChecks(s.cfg[i], Append(s.cfg[i].checks, ReadChecked(s, l)))]
    ELSE s.cfg

After(s, l, k) ==
    [de |-> IF Begun(s, l) THEN Len(DynAfter(s, l, k)) ELSE IF l.kind = "dynmemend" THEN 0 ELSE s.de,
     pe |-> IF l.kind = "ptrmemstart" THEN Len(PtrAfter(s, l))
            ELSE IF l.kind = "ptrmemend" THEN 0 ELSE s.pe,
     dyn |-> DynAfter(s, l, k), ptr |-> PtrAfter(s, l), cfg |-> CfgAfter(s, l)]

\* The shapes in front of the lines 2..n.
Chain(h, lines, n) ==
    /\ h[2] = NoShape
    /\ \A k \in 2..(n - 1) : /\ ~Hangs(h[k], lines[k]) /\ Fits(h[k], lines[k])
                             /\ h[k + 1] = After(h[k], lines[k], k)

\* What the lines in front of line n say of an option: the last line counts.
Saying(lines, n, kind) == {k \in 2..(n - 1) : lines[k].kind = kind}

SaidAt(lines, n, kind) ==
    IF Saying(lines, n, kind) = {} THEN 0 ELSE LargestOf(Saying(lines, n, kind))

Said(lines, n, kind, none) ==
    IF Saying(lines, n, kind) = {} THEN none ELSE lines[SaidAt(lines, n, kind)].val

CallSaid(lines, n) == Said(lines, n, "game_call", ProcName(lines[1]))

\* The size and the code address on the line of a class.
LineSize(lines, k) == IF k = 1 THEN 0 ELSE lines[k].size
LineCode(lines, k) == IF k = 1 THEN 0 ELSE lines[k].code

\* The config the lines say, when they have been read with this shape.
ConfOf(s, lines) ==
    [dynmems |-> [i \in DOMAIN s.dyn |->
                     [name |-> s.dyn[i].name, size |-> LineSize(lines, s.dyn[i].cfg_line),
                      code |-> LineCode(lines, s.dyn[i].cfg_line), lib |-> s.dyn[i].lib,
                      grow |-> s.dyn[i].grow, consts |-> s.dyn[i].consts]],
     ptrmems |-> s.ptr,
     cfg |-> s.cfg,
     proc |-> ProcName(lines[1]), call |-> CallSaid(lines, Len(lines) + 1),
     path |-> Said(lines, Len(lines) + 1, "game_path", ""),
     binpath |-> Said(lines, Len(lines) + 1, "game_binpath", "")]

-----------------------------------------------------------------------------
\* The classes that have been read from lines like these.
FromLines(lines) ==
    \A i \in DOMAIN dynmems : LET c == dynmems[i] IN
        /\ c.size = LineSize(lines, c.cfg_line)
        /\ c.code = LineCode(lines, c.cfg_line)
        /\ c.cfg_line # 1 => /\ c.cfg_line \in 2..(lnr - 1)
                             /\ lines[c.cfg_line].kind = "dynmemstart"
                             /\ lines[c.cfg_line].name = c.name
                             /\ lines[c.cfg_line].lib = c.lib

\* A record with the fields of the options.
IsOpt ==
    opt \in [proc : {opt.proc}, call : {opt.call}, path : {opt.path},
             binpath : {opt.binpath}, binpath_line : {opt.binpath_line},
             adp_script : {opt.adp_script}, adp_required : {opt.adp_required},
             adp_req_line : {opt.adp_req_line}]

\* The options that have been read, and those the lines were accepted for.
OptionLines(lines) ==
    /\ opt.path = Said(lines, lnr, "game_path", "")
    /\ opt.binpath_line = SaidAt(lines, lnr, "game_binpath")
    /\ opt.adp_req_line = SaidAt(lines, lnr, "adapt_required")
    /\ \A k \in 2..(lnr - 1) :
           /\ lines[k].kind = "game_path" => lines[k].val = CallSaid(lines, k)
           /\ lines[k].kind = "game_binpath" => lines[k].val = ProcName(lines[1])

ReadSoFar ==
    /\ cfg_lines = ReadFile(disk) /\ disk.lines # <<>>
    /\ FromLines(cfg_lines) /\ OptionLines(cfg_lines)
    /\ opt.proc = ProcName(cfg_lines[1])
    /\ opt.call = CallSaid(cfg_lines, lnr)
    /\ opt.binpath = Said(cfg_lines, lnr, "game_binpath", "")

\* What the script's output has changed before the classes are taken over.
Settled ==
    LET lines == ReadFile(disk) IN
    /\ disk.lines # <<>>
    /\ FromLines(lines) /\ OptionLines(lines)
    /\ Len(cfg_lines) = Len(lines)
    /\ \A k \in 2..Len(lines) : cfg_lines[k] = lines[k] \/ k = opt.binpath_line
    /\ opt.proc = ProcName(cfg_lines[1])
    /\ Saying(lines, lnr, "game_call") = {} => opt.call = opt.proc
    /\ opt.binpath_line = 0 => opt.binpath = ""
    /\ opt.binpath_line # 0 => /\ cfg_lines[opt.binpath_line].kind = "game_binpath"
                               /\ cfg_lines[opt.binpath_line].val = opt.binpath

\* Lines that are read alike.
Alike(l, m) ==
    \/ l = m
    \/ /\ l.kind = "dynmemstart" /\ m.kind = "dynmemstart"
       /\ l.name = m.name /\ l.lib = m.lib
    \/ l.kind = m.kind /\ l.kind \in {"game_binpath", "adapt_required"}

\* What the next start needs of the new lines.
Written(h, old, new) ==
    /\ Chain(h, old, Len(old) + 1) /\ ~Inside(h[Len(old) + 1])
    /\ Len(new) = Len(old)
    /\ \A k \in 2..Len(new) :
           /\ Alike(old[k], new[k])
           /\ new[k].kind = "adapt_required" => new[k].val = FALSE
           /\ new[k].kind = "game_binpath" => new[k].val = ProcName(new[1])
           /\ new[k].kind = "game_path" => new[k].val = CallSaid(new, k)
    /\ kept.conf = ConfOf(h[Len(new) + 1], new)

Recorded == \E h : Chain(h, ReadFile(disk), lnr) /\ h[lnr] = Shape

Replayed ==
    /\ disk.lines # <<>>
    /\ \E h, old :
          /\ Written(h, old, ReadFile(disk))
          /\ run = 2 /\ status \in {"read", "built"} => Shape = h[lnr]

RereadInv ==
    /\ TakenInv /\ IsOpt
    /\ run \in {1, 2}
    /\ status \in {"read", "built"} => ReadSoFar
    /\ status \in {"built", "adapt"} => lnr = Len(cfg_lines) + 1 /\ ~InScope
    /\ status = "read" => lnr <= Len(cfg_lines) + 1
    /\ status = "adapt" => Settled
    /\ run = 1 /\ status \in {"read", "built", "adapt"} => ~kept.sound /\ Recorded
    /\ kept.sound /\ (run = 1 => status = "ready") => Replayed
    /\ run = 2 => /\ kept.sound
                  /\ status \in {"read", "built", "ready"}
                  /\ status \in {"read", "built"} => opt.adp_required = FALSE

-----------------------------------------------------------------------------
(* Config's definitions say the same of what has been read and of its      *)
(* shape.                                                                  *)

LEMMA LogsEqual ==
    ASSUME NEW s, NEW t, IsLog(s), IsLog(t), Len(s) = Len(t),
           \A i \in 1..Len(s) : s[i] = t[i]
    PROVE  s = t
<1>1. /\ DOMAIN s = 1..Len(s) /\ DOMAIN t = 1..Len(s)
      /\ s = [k \in DOMAIN s |-> s[k]] /\ t = [k \in DOMAIN t |-> t[k]]
  BY LogFacts
<1> QED
  BY <1>1

LEMMA MapLog ==
    ASSUME NEW s, IsLog(s), NEW t, t = [k \in DOMAIN s |-> t[k]]
    PROVE  IsLog(t) /\ Len(t) = Len(s) /\ DOMAIN t = DOMAIN s /\ DOMAIN s = 1..Len(s)
           /\ Len(s) \in Nat
<1>1. IsLog(t)
  BY LogFacts, FunIsLog
<1>2. DOMAIN t = DOMAIN s
  BY LogFacts
<1> QED
  BY <1>1, <1>2, LogFacts

LEMMA ShapeFields ==
    ASSUME TakenInv
    PROVE  /\ Shape.de = dynmem_enp /\ Shape.pe = ptrmem_enp /\ Shape.ptr = ptrmems
           /\ IsLog(Shape.dyn) /\ Len(Shape.dyn) = Len(dynmems)
           /\ DOMAIN Shape.dyn = DOMAIN dynmems
           /\ \A i \in DOMAIN dynmems : Shape.dyn[i] = ClassShape(dynmems[i])
           /\ IsLog(Shape.cfg) /\ Len(Shape.cfg) = Len(cfg)
           /\ DOMAIN Shape.cfg = DOMAIN cfg
           /\ \A i \in DOMAIN cfg : Shape.cfg[i] = EntryShape(cfg[i])
           /\ Shape.cfg = <<>> <=> cfg = <<>>
<1>1. IsLog(dynmems) /\ IsLog(cfg)
  BY DEF TakenInv, ClassesOK, HomesInv, EntriesOK
<1> DEFINE d == [i \in DOMAIN dynmems |-> ClassShape(dynmems[i])]
           c == [i \in DOMAIN cfg |-> EntryShape(cfg[i])]
<1>2. /\ Shape.de = dynmem_enp /\ Shape.pe = ptrmem_enp /\ Shape.ptr = ptrmems
      /\ Shape.dyn = d /\ Shape.cfg = c
  BY DEF Shape
<1>3. IsLog(d) /\ Len(d) = Len(dynmems) /\ DOMAIN d = DOMAIN dynmems
  <2>1. d = [k \in DOMAIN dynmems |-> d[k]]
    OBVIOUS
  <2> HIDE DEF d
  <2> QED
    BY <1>1, <2>1, MapLog
<1>4. IsLog(c) /\ Len(c) = Len(cfg) /\ DOMAIN c = DOMAIN cfg
  <2>1. c = [k \in DOMAIN cfg |-> c[k]]
    OBVIOUS
  <2> HIDE DEF c
  <2> QED
    BY <1>1, <2>1, MapLog
<1>5. c = <<>> <=> cfg = <<>>
  <2> HIDE DEF c
  <2> QED
    BY <1>1, <1>4, LogFacts
<1>6. /\ \A i \in DOMAIN dynmems : d[i] = ClassShape(dynmems[i])
      /\ \A i \in DOMAIN cfg : c[i] = EntryShape(cfg[i])
  OBVIOUS
<1> QED
  BY <1>2, <1>3, <1>4, <1>5, <1>6

\* An entry and its shape differ in the checks only.
LEMMA EntryShapeFields ==
    ASSUME TakenInv, NEW i \in DOMAIN cfg
    PROVE  /\ Shape.cfg[i].name = cfg[i].name /\ Shape.cfg[i].addr = cfg[i].addr
           /\ Shape.cfg[i].where = cfg[i].where
           /\ Shape.cfg[i].dynmem = cfg[i].dynmem /\ Shape.cfg[i].ptrmem = cfg[i].ptrmem
<1>1. Shape.cfg[i] = EntryShape(cfg[i])
  BY ShapeFields
<1> QED
  BY <1>1 DEF EntryShape, WithChecks

LEMMA SameNames ==
    ASSUME TakenInv, NEW name
    PROVE  /\ EntryNamed(Shape, name) = FindCfgEn(name)
           /\ PointeeNamed(Shape, name) = FindPtrMem(name)
           /\ FindCfgEn(name) # 0 => FindCfgEn(name) \in DOMAIN cfg
<1> DEFINE named == {i \in DOMAIN cfg : cfg[i].name = name}
           shape == {i \in DOMAIN Shape.cfg : Shape.cfg[i].name = name}
           ptr == {i \in DOMAIN cfg : /\ cfg[i].ptrmem # 0
                                      /\ ptrmems[cfg[i].ptrmem].name = name}
           shptr == {i \in DOMAIN Shape.cfg : /\ Shape.cfg[i].ptrmem # 0
                                       /\ Shape.ptr[Shape.cfg[i].ptrmem].name = name}
<1>1. named = shape /\ ptr = shptr
  BY ShapeFields, EntryShapeFields
<1>2. EntryNamed(Shape, name) = FindCfgEn(name)
  BY <1>1 DEF EntryNamed, FindCfgEn
<1>3. ptr # {} => Shape.cfg[LeastOf(ptr)].ptrmem = cfg[LeastOf(ptr)].ptrmem
  <2>1. ptr \subseteq 1..Len(cfg) /\ Len(cfg) \in Nat /\ ptr \subseteq DOMAIN cfg
    BY LogFacts DEF TakenInv, HomesInv, EntriesOK
  <2> HIDE DEF ptr
  <2>2. ptr # {} => LeastOf(ptr) \in DOMAIN cfg
    BY <2>1, Least
  <2> QED
    BY <2>2, EntryShapeFields
<1>4. PointeeNamed(Shape, name) = FindPtrMem(name)
  <2>1. PointeeNamed(Shape, name) =
            IF shptr = {} THEN 0 ELSE Shape.cfg[LeastOf(shptr)].ptrmem
    BY DEF PointeeNamed
  <2>2. FindPtrMem(name) = IF ptr = {} THEN 0 ELSE cfg[LeastOf(ptr)].ptrmem
    BY DEF FindPtrMem
  <2> HIDE DEF ptr, shptr
  <2> QED
    BY <1>1, <1>3, <2>1, <2>2
<1>5. FindCfgEn(name) # 0 => FindCfgEn(name) \in DOMAIN cfg
  BY FindsEntry DEF TakenInv, HomesInv
<1> QED
  BY <1>2, <1>4, <1>5

LEMMA LastShape ==
    ASSUME TakenInv, cfg # <<>>
    PROVE  /\ Len(cfg) \in DOMAIN cfg
           /\ LastEntry(Shape) = Shape.cfg[Len(cfg)]
           /\ LastEntry(Shape).addr = Current.addr /\ LastEntry(Shape).where = Current.where
           /\ LastEntry(Shape).dynmem = Current.dynmem
           /\ LastEntry(Shape).ptrmem = Current.ptrmem
<1>1. Len(cfg) \in DOMAIN cfg
  BY CurrentEntry DEF TakenInv
<1> QED
  BY <1>1, ShapeFields, EntryShapeFields DEF LastEntry, Current

LEMMA SameCheck ==
    ASSUME TakenInv, cfg # <<>>, NEW l
    PROVE  /\ RefOf(Shape, l) = CheckRef(l)
           /\ FitsCheck(Shape, l) <=> AcceptedCheck(l)
           /\ AcceptedCheck(l) => /\ WhereOf(Shape, l) = CheckWhere(l)
                                  /\ l.by # "obj" => AddrOf(Shape, l) = CheckAddr(l)
<1>1. RefOf(Shape, l) = CheckRef(l)
  BY SameNames, ShapeFields DEF RefOf, CheckRef
<1>2. Shape.de = dynmem_enp /\ (Inside(Shape) <=> InScope)
  BY ShapeFields DEF Inside, InScope
<1>3. ASSUME l.by = "addr of" => FindCfgEn(l.name) # 0
      PROVE  /\ Checked(Shape, l).addr = CheckedEntry(l).addr
             /\ Checked(Shape, l).where = CheckedEntry(l).where
  <2>1. CASE l.by = "addr of"
    BY <1>3, <2>1, SameNames, EntryShapeFields DEF Checked, CheckedEntry
  <2>2. CASE l.by # "addr of"
    BY <2>2, LastShape DEF Checked, CheckedEntry
  <2> QED
    BY <2>1, <2>2
<1>4. ASSUME l.by = "addr of" => FindCfgEn(l.name) # 0
      PROVE  /\ WhereOf(Shape, l) = CheckWhere(l)
             /\ l.by # "obj" => AddrOf(Shape, l) = CheckAddr(l)
  <2>1. /\ Checked(Shape, l).addr = CheckedEntry(l).addr
        /\ Checked(Shape, l).where = CheckedEntry(l).where
    BY <1>3, <1>4
  <2> QED
    BY <1>1, <2>1 DEF WhereOf, CheckWhere, AddrOf, CheckAddr
<1>5. FitsCheck(Shape, l) <=> AcceptedCheck(l)
  <2>1. EntryNamed(Shape, l.name) = FindCfgEn(l.name)
    BY SameNames
  <2>2. CASE l.by = "addr of" /\ FindCfgEn(l.name) = 0
    BY <2>1, <2>2 DEF FitsCheck, AcceptedCheck
  <2>3. CASE l.by = "addr of" => FindCfgEn(l.name) # 0
    <3>1. WhereOf(Shape, l) = CheckWhere(l)
      BY <1>4, <2>3
    <3> QED
      BY <1>2, <2>1, <3>1 DEF FitsCheck, AcceptedCheck
  <2> QED
    BY <2>2, <2>3
<1>6. AcceptedCheck(l) => (l.by = "addr of" => FindCfgEn(l.name) # 0)
  BY DEF AcceptedCheck
<1> QED
  BY <1>1, <1>4, <1>5, <1>6

LEMMA SameDangling ==
    ASSUME TakenInv, NEW l
    PROVE  Hangs(Shape, l) <=> Dangling(l)
<1>1. Shape.de = dynmem_enp /\ Shape.pe = ptrmem_enp /\ (Shape.cfg = <<>> <=> cfg = <<>>)
  BY ShapeFields
<1>2. CASE cfg = <<>>
  BY <1>1, <1>2 DEF Hangs, Dangling
<1>3. CASE cfg # <<>>
  <2>1. /\ RefOf(Shape, l) = CheckRef(l)
        /\ FitsCheck(Shape, l) <=> AcceptedCheck(l)
        /\ LastEntry(Shape).dynmem = Current.dynmem
        /\ LastEntry(Shape).ptrmem = Current.ptrmem
    BY <1>3, SameCheck, LastShape
  <2> QED
    BY <1>1, <1>3, <2>1 DEF Hangs, Dangling
<1> QED
  BY <1>2, <1>3

\* Lines with an option are accepted for the process name and the game call.
OptionFits(l) ==
    /\ l.kind = "game_path" => l.val = opt.call
    /\ l.kind = "game_binpath" => l.val = opt.proc

LEMMA SameValue ==
    ASSUME TakenInv, NEW l
    PROVE  FitsValue(Shape, l) <=> AcceptedValue(l)
<1>1. /\ Shape.cfg = <<>> <=> cfg = <<>>
      /\ Inside(Shape) <=> InScope
      /\ PointeeNamed(Shape, l.target) = FindPtrMem(l.target)
  BY ShapeFields, SameNames DEF Inside, InScope
<1>2. CASE l.prev
  <2>1. CASE cfg = <<>>
    BY <1>1, <1>2, <2>1 DEF FitsValue, AcceptedValue
  <2>2. CASE cfg # <<>>
    <3>1. LastEntry(Shape).where = Current.where
      BY <2>2, LastShape
    <3> QED
      BY <1>1, <1>2, <3>1 DEF FitsValue, AcceptedValue, ValueWhere
  <2> QED
    BY <2>1, <2>2
<1>3. CASE ~l.prev
  BY <1>1, <1>3 DEF FitsValue, AcceptedValue, ValueWhere
<1> QED
  BY <1>2, <1>3

LEMMA SameAccepted ==
    ASSUME TakenInv, NEW l, l.kind = "check" => cfg # <<>>
    PROVE  Accepted(l) <=> Fits(Shape, l) /\ OptionFits(l)
<1>1. /\ Shape.de = dynmem_enp /\ Shape.pe = ptrmem_enp
      /\ Inside(Shape) <=> InScope
  BY ShapeFields DEF Inside, InScope
<1>2. dynmem_enp # 0 => Shape.dyn[dynmem_enp].grow = dynmems[dynmem_enp].grow
  <2>1. dynmem_enp # 0 => dynmem_enp \in DOMAIN dynmems
    BY ClassFields DEF TakenInv, ClassesOK
  <2>2. dynmem_enp # 0 => Shape.dyn[dynmem_enp] = ClassShape(dynmems[dynmem_enp])
    BY <2>1, ShapeFields
  <2> QED
    BY <2>2 DEF ClassShape
<1>3. FitsValue(Shape, l) <=> AcceptedValue(l)
  BY SameValue
<1>4. l.kind = "check" => (FitsCheck(Shape, l) <=> AcceptedCheck(l))
  BY SameCheck
<1> QED
  BY <1>1, <1>2, <1>3, <1>4 DEF Fits, Accepted, OptionFits

-----------------------------------------------------------------------------
(* A line turns the shape into the one behind it.                          *)

\* Len(dynmems) and the like, next to the shape's.
LEMMA BookFields ==
    ASSUME TakenInv
    PROVE  /\ IsLog(dynmems) /\ Len(dynmems) \in Nat /\ DOMAIN dynmems = 1..Len(dynmems)
           /\ IsLog(cfg) /\ Len(cfg) \in Nat /\ DOMAIN cfg = 1..Len(cfg)
           /\ dynmem_enp \in 0..Len(dynmems)
  BY LogFacts DEF TakenInv, ClassesOK, HomesInv, EntriesOK

\* What a line that is read is like.
LEMMA ReadLine ==
    ASSUME TakenInv, NEW kind, Parse(kind)
    PROVE  /\ Line.kind = kind /\ ~Hangs(Shape, Line) /\ Fits(Shape, Line)
           /\ OptionFits(Line)
           /\ kind = "check" => cfg # <<>>
<1>1. Line.kind = kind /\ ~Dangling(Line) /\ Accepted(Line)
  BY DEF Parse
<1>2. kind = "check" => cfg # <<>>
  BY CheckAddrNat DEF TakenInv
<1> QED
  BY <1>1, <1>2, SameDangling, SameAccepted

\* Lines that leave classes, pointees and entries alone.
LEMMA ReadPlainShape ==
    ASSUME TakenInv,
           ReadSkip \/ ReadDump \/ ReadOption \/ ReadDynmemEnd \/ ReadPtrmemEnd
    PROVE  Shape' = After(Shape, Line, lnr)
<1>1. UNCHANGED <<dynmems, ptrmems, cfg>>
  BY DEF ReadSkip, ReadDump, ReadOption, ReadDynmemEnd, ReadPtrmemEnd
<1>2. Line.kind \in Settings \cup {"skip", "dynmemend", "ptrmemend"}
  BY DEF ReadSkip, ReadDump, ReadOption, ReadDynmemEnd, ReadPtrmemEnd, Parse, Settings
<1>3. /\ dynmem_enp' = IF Line.kind = "dynmemend" THEN 0 ELSE dynmem_enp
      /\ ptrmem_enp' = IF Line.kind = "ptrmemend" THEN 0 ELSE ptrmem_enp
  BY DEF ReadSkip, ReadDump, ReadOption, ReadDynmemEnd, ReadPtrmemEnd, Parse, scopeVars
<1>4. Shape' = [de |-> dynmem_enp', pe |-> ptrmem_enp', dyn |-> Shape.dyn,
                ptr |-> Shape.ptr, cfg |-> Shape.cfg]
  BY <1>1 DEF Shape
<1>5. /\ ~Begun(Shape, Line) /\ DynAfter(Shape, Line, lnr) = Shape.dyn
      /\ PtrAfter(Shape, Line) = Shape.ptr /\ CfgAfter(Shape, Line) = Shape.cfg
      /\ Line.kind # "ptrmemstart"
  BY <1>2 DEF Begun, DynAfter, PtrAfter, CfgAfter, Settings
<1>6. Shape.de = dynmem_enp /\ Shape.pe = ptrmem_enp
  BY DEF Shape
<1> QED
  BY <1>3, <1>4, <1>5, <1>6 DEF After

LEMMA ReadPtrmemStartShape ==
    ASSUME TakenInv, ReadPtrmemStart
    PROVE  Shape' = After(Shape, Line, lnr)
<1> DEFINE new == [name |-> Line.name, dynmem |-> 0, v_state |-> 0]
<1>1. /\ UNCHANGED <<dynmem_enp, dynmems, cfg>> /\ Line.kind = "ptrmemstart"
      /\ ptrmems' = Append(ptrmems, new)
      /\ ptrmem_enp' = Len(ptrmems')
  BY DEF ReadPtrmemStart, Parse
<1>3. Shape.de = dynmem_enp /\ Shape.pe = ptrmem_enp /\ Shape.ptr = ptrmems
  BY DEF Shape
<1>4. Shape' = [de |-> Shape.de, pe |-> Len(Append(Shape.ptr, new)), dyn |-> Shape.dyn,
                ptr |-> Append(Shape.ptr, new), cfg |-> Shape.cfg]
  BY <1>1, <1>3 DEF Shape
<1>5. /\ ~Begun(Shape, Line) /\ DynAfter(Shape, Line, lnr) = Shape.dyn
      /\ PtrAfter(Shape, Line) = Append(Shape.ptr, new) /\ CfgAfter(Shape, Line) = Shape.cfg
  BY <1>1 DEF Begun, DynAfter, PtrAfter, CfgAfter
<1> QED
  BY <1>1, <1>4, <1>5 DEF After

\* The shape of the classes, when one more of them has been begun.
LEMMA BegunShape ==
    ASSUME TakenInv, NEW c, dynmems' = Append(dynmems, c)
    PROVE  Shape.dyn' = Append(Shape.dyn, ClassShape(c))
<1> DEFINE n == Len(dynmems)
           d == Append(Shape.dyn, ClassShape(c))
           e == [i \in DOMAIN dynmems' |-> ClassShape(dynmems'[i])]
<1>1. /\ IsLog(dynmems') /\ Len(dynmems') = n + 1 /\ DOMAIN dynmems' = DOMAIN dynmems \cup {n + 1}
      /\ \A k \in DOMAIN dynmems : dynmems'[k] = dynmems[k]
      /\ dynmems'[n + 1] = c
  BY BookFields, AppendLog
<1>2. /\ IsLog(d) /\ Len(d) = n + 1
      /\ \A k \in DOMAIN dynmems : d[k] = ClassShape(dynmems[k])
      /\ d[n + 1] = ClassShape(c)
  BY ShapeFields, AppendLog
<1>3. IsLog(e) /\ Len(e) = n + 1
  <2>1. e = [k \in DOMAIN dynmems' |-> e[k]]
    OBVIOUS
  <2> HIDE DEF e
  <2> QED
    BY <1>1, <2>1, MapLog
<1>4. Shape.dyn' = e
  BY DEF Shape
<1>5. \A i \in 1..(n + 1) : e[i] = d[i]
  <2>1. DOMAIN dynmems = 1..n /\ n \in Nat
    BY BookFields
  <2>0. \A i \in DOMAIN dynmems' : e[i] = ClassShape(dynmems'[i])
    OBVIOUS
  <2> HIDE DEF d, n, e
  <2>2. ASSUME NEW i \in 1..n
        PROVE  e[i] = d[i]
    BY <1>1, <1>2, <2>0, <2>1
  <2>3. e[n + 1] = d[n + 1]
    BY <1>1, <1>2, <2>0
  <2> QED
    BY <2>1, <2>2, <2>3
<1> HIDE DEF d, e, n
<1>6. e = d
  BY <1>2, <1>3, <1>5, LogsEqual
<1> QED
  BY <1>4, <1>6 DEF d

LEMMA BeginShape ==
    ASSUME TakenInv, NEW c, dynmems' = Append(dynmems, c), dynmem_enp' = Len(dynmems'),
           UNCHANGED <<ptrmem_enp, ptrmems, cfg>>,
           Begun(Shape, Line), ClassShape(c) = BegunClass(Line, lnr)
    PROVE  Shape' = After(Shape, Line, lnr)
<1>1. Line.kind \in {"dynmemstart", "dynmemgrow"}
  BY DEF Begun
<1>2. Shape.dyn' = Append(Shape.dyn, BegunClass(Line, lnr))
  BY BegunShape
<1>3. DynAfter(Shape, Line, lnr) = Append(Shape.dyn, BegunClass(Line, lnr))
  BY DEF DynAfter
<1>4. dynmem_enp' = Len(Append(Shape.dyn, BegunClass(Line, lnr)))
  BY BookFields, ShapeFields, AppendLog
<1>5. PtrAfter(Shape, Line) = Shape.ptr /\ CfgAfter(Shape, Line) = Shape.cfg
  BY <1>1 DEF PtrAfter, CfgAfter
<1>6. Shape' = [de |-> dynmem_enp', pe |-> Shape.pe, dyn |-> Shape.dyn', ptr |-> Shape.ptr,
                cfg |-> Shape.cfg]
  BY DEF Shape
<1> QED
  BY <1>1, <1>2, <1>3, <1>4, <1>5, <1>6 DEF After

\* The shape of the classes, when the one that is being read has changed.
LEMMA InnerShape ==
    ASSUME TakenInv, UNCHANGED <<scopeVars, ptrmems, cfg>>, dynmem_enp # 0,
           Line.kind \in {"dynmemgrow", "dynmemconst"}, ~Begun(Shape, Line),
           DOMAIN dynmems' = DOMAIN dynmems,
           \A i \in DOMAIN dynmems : i # dynmem_enp => dynmems'[i] = dynmems[i],
           ClassShape(dynmems'[dynmem_enp]) =
               [name |-> dynmems[dynmem_enp].name, lib |-> dynmems[dynmem_enp].lib,
                grow |-> IF Line.kind = "dynmemgrow" THEN TRUE ELSE dynmems[dynmem_enp].grow,
                consts |-> IF Line.kind = "dynmemconst" THEN dynmems[dynmem_enp].consts + 1
                           ELSE dynmems[dynmem_enp].consts,
                cfg_line |-> dynmems[dynmem_enp].cfg_line]
    PROVE  Shape' = After(Shape, Line, lnr)
<1> DEFINE d == DynAfter(Shape, Line, lnr)
           e == [i \in DOMAIN dynmems' |-> ClassShape(dynmems'[i])]
<1>1. /\ DOMAIN Shape.dyn = DOMAIN dynmems /\ Shape.de = dynmem_enp
      /\ \A i \in DOMAIN dynmems : Shape.dyn[i] = ClassShape(dynmems[i])
      /\ dynmem_enp \in DOMAIN dynmems
  BY ShapeFields, BookFields
<1>2. d = [i \in DOMAIN dynmems |->
              IF i # dynmem_enp THEN Shape.dyn[i]
              ELSE [name |-> Shape.dyn[i].name, lib |-> Shape.dyn[i].lib,
                    grow |-> IF Line.kind = "dynmemgrow" THEN TRUE ELSE Shape.dyn[i].grow,
                    consts |-> IF Line.kind = "dynmemconst" THEN Shape.dyn[i].consts + 1
                               ELSE Shape.dyn[i].consts,
                    cfg_line |-> Shape.dyn[i].cfg_line]]
  BY <1>1 DEF DynAfter
<1>3. ASSUME NEW i \in DOMAIN dynmems
      PROVE  e[i] = d[i]
  <2>1. e[i] = ClassShape(dynmems'[i])
    OBVIOUS
  <2>2. Shape.dyn[i] = ClassShape(dynmems[i])
    BY <1>1
  <2>3. CASE i # dynmem_enp
    BY <1>2, <2>1, <2>2, <2>3
  <2>4. CASE i = dynmem_enp
    <3>1. /\ Shape.dyn[i].name = dynmems[i].name /\ Shape.dyn[i].lib = dynmems[i].lib
          /\ Shape.dyn[i].grow = dynmems[i].grow
          /\ Shape.dyn[i].consts = dynmems[i].consts
          /\ Shape.dyn[i].cfg_line = dynmems[i].cfg_line
      BY <2>2 DEF ClassShape
    <3>2. d[i] = [name |-> Shape.dyn[i].name, lib |-> Shape.dyn[i].lib,
                    grow |-> IF Line.kind = "dynmemgrow" THEN TRUE ELSE Shape.dyn[i].grow,
                    consts |-> IF Line.kind = "dynmemconst" THEN Shape.dyn[i].consts + 1
                               ELSE Shape.dyn[i].consts,
                    cfg_line |-> Shape.dyn[i].cfg_line]
      BY <1>2, <2>4
    <3> HIDE DEF d, e
    <3> QED
      BY <2>1, <2>4, <3>1, <3>2
  <2> QED
    BY <2>3, <2>4
<1>4. Shape.dyn' = e
  BY DEF Shape
<1>5. DOMAIN d = DOMAIN dynmems /\ d = [i \in DOMAIN dynmems |-> d[i]]
  BY <1>2
<1>6. e = [i \in DOMAIN dynmems |-> e[i]]
  OBVIOUS
<1> HIDE DEF d, e
<1>7. e = d
  BY <1>3, <1>5, <1>6
<1>8. PtrAfter(Shape, Line) = Shape.ptr /\ CfgAfter(Shape, Line) = Shape.cfg
  BY DEF PtrAfter, CfgAfter
<1>9. Shape' = [de |-> Shape.de, pe |-> Shape.pe, dyn |-> Shape.dyn', ptr |-> Shape.ptr,
                cfg |-> Shape.cfg]
  BY DEF Shape, scopeVars
<1> QED
  BY <1>4, <1>7, <1>8, <1>9 DEF After, d

LEMMA ReadClassShape ==
    ASSUME TakenInv, ReadDynmemStart \/ ReadDynmemConst \/ ReadDynmemGrow
    PROVE  Shape' = After(Shape, Line, lnr)
<1>0. Shape.de = dynmem_enp
  BY DEF Shape
<1>1. CASE ReadDynmemStart
  <2> DEFINE c == NewClass(Line, lnr)
  <2>1. /\ Line.kind = "dynmemstart" /\ dynmems' = Append(dynmems, c)
        /\ dynmem_enp' = Len(dynmems') /\ UNCHANGED <<ptrmem_enp, ptrmems, cfg>>
    BY <1>1 DEF ReadDynmemStart, Parse
  <2>2. ClassShape(c) = BegunClass(Line, lnr) /\ Begun(Shape, Line)
    BY <2>1 DEF NewClass, ClassShape, BegunClass, Begun
  <2> HIDE DEF c
  <2> QED
    BY <2>1, <2>2, BeginShape
<1>2. CASE ReadDynmemGrow /\ dynmem_enp = 0
  <2> DEFINE c == [NewClass([name |-> Line.name, size |-> 0, code |-> 0, lib |-> ""], 1)
                      EXCEPT !.grow = TRUE]
  <2>1. /\ Line.kind = "dynmemgrow" /\ dynmems' = Append(dynmems, c)
        /\ dynmem_enp' = Len(dynmems') /\ UNCHANGED <<ptrmem_enp, ptrmems, cfg>>
    BY <1>2 DEF ReadDynmemGrow, Parse
  <2>2. ClassShape(c) = BegunClass(Line, lnr) /\ Begun(Shape, Line)
    BY <1>0, <1>2, <2>1 DEF NewClass, ClassShape, BegunClass, Begun
  <2> HIDE DEF c
  <2> QED
    BY <2>1, <2>2, BeginShape
<1>3. CASE (ReadDynmemGrow /\ dynmem_enp # 0) \/ ReadDynmemConst
  <2> DEFINE o == dynmems[dynmem_enp]
             c == IF Line.kind = "dynmemgrow" THEN [o EXCEPT !.grow = TRUE]
                  ELSE [o EXCEPT !.consts = @ + 1]
  <2>1. /\ Line.kind \in {"dynmemgrow", "dynmemconst"} /\ dynmem_enp # 0
        /\ UNCHANGED <<scopeVars, ptrmems, cfg>>
        /\ dynmems' = [dynmems EXCEPT ![dynmem_enp] = c]
    BY <1>3 DEF ReadDynmemGrow, ReadDynmemConst, Parse, Accepted, scopeVars
  <2>2. dynmem_enp \in DOMAIN dynmems /\ IsClass(o)
    BY <2>1, BookFields DEF TakenInv, ClassesOK
  <2>3. /\ DOMAIN dynmems' = DOMAIN dynmems
        /\ \A i \in DOMAIN dynmems : i # dynmem_enp => dynmems'[i] = dynmems[i]
        /\ dynmems'[dynmem_enp] = c
    BY <2>1, <2>2
  <2>4. ClassShape(c) =
            [name |-> o.name, lib |-> o.lib,
             grow |-> IF Line.kind = "dynmemgrow" THEN TRUE ELSE o.grow,
             consts |-> IF Line.kind = "dynmemconst" THEN o.consts + 1 ELSE o.consts,
             cfg_line |-> o.cfg_line]
    BY <2>1, <2>2 DEF ClassShape, IsClass
  <2>5. ~Begun(Shape, Line)
    BY <1>0, <2>1 DEF Begun
  <2> QED
    BY <2>1, <2>3, <2>4, <2>5, InnerShape
<1> QED
  BY <1>1, <1>2, <1>3

\* The shape of the entries, when there is one more of them.
LEMMA EntryReadShape ==
    ASSUME TakenInv, NEW e, cfg' = Append(cfg, e)
    PROVE  Shape.cfg' = Append(Shape.cfg, EntryShape(e))
<1> DEFINE n == Len(cfg)
           d == Append(Shape.cfg, EntryShape(e))
           t == [i \in DOMAIN cfg' |-> EntryShape(cfg'[i])]
<1>1. /\ IsLog(cfg') /\ Len(cfg') = n + 1 /\ DOMAIN cfg' = DOMAIN cfg \cup {n + 1}
      /\ \A k \in DOMAIN cfg : cfg'[k] = cfg[k]
      /\ cfg'[n + 1] = e
  BY BookFields, AppendLog
<1>2. /\ IsLog(d) /\ Len(d) = n + 1
      /\ \A k \in DOMAIN cfg : d[k] = EntryShape(cfg[k])
      /\ d[n + 1] = EntryShape(e)
  BY ShapeFields, AppendLog
<1>3. IsLog(t) /\ Len(t) = n + 1
  <2>1. t = [k \in DOMAIN cfg' |-> t[k]]
    OBVIOUS
  <2> HIDE DEF t
  <2> QED
    BY <1>1, <2>1, MapLog
<1>4. Shape.cfg' = t
  BY DEF Shape
<1>5. \A i \in 1..(n + 1) : t[i] = d[i]
  <2>1. DOMAIN cfg = 1..n /\ n \in Nat
    BY BookFields
  <2>0. \A i \in DOMAIN cfg' : t[i] = EntryShape(cfg'[i])
    OBVIOUS
  <2> HIDE DEF d, n, t
  <2>2. ASSUME NEW i \in 1..n
        PROVE  t[i] = d[i]
    BY <1>1, <1>2, <2>0, <2>1
  <2>3. t[n + 1] = d[n + 1]
    BY <1>1, <1>2, <2>0
  <2> QED
    BY <2>1, <2>2, <2>3
<1> HIDE DEF d, t, n
<1>6. t = d
  BY <1>2, <1>3, <1>5, LogsEqual
<1> QED
  BY <1>4, <1>6 DEF d

LEMMA NoChecksShape ==
    ASSUME NEW e, e.checks = <<>>
    PROVE  EntryShape(e) = WithChecks(e, <<>>)
<1>1. DOMAIN e.checks = {}
  OBVIOUS
<1>2. [k \in {} |-> Meaningful(e.checks[k])] = <<>>
  OBVIOUS
<1> QED
  BY <1>1, <1>2 DEF EntryShape

LEMMA ReadValueShape ==
    ASSUME TakenInv, ReadValue
    PROVE  Shape' = After(Shape, Line, lnr)
<1> DEFINE new == [name |-> Line.name, addr |-> ValueAddr(Line), where |-> ValueWhere(Line),
                   cstr |-> Line.cstr, dynmem |-> dynmem_enp, ptrmem |-> ptrmem_enp,
                   ptrtgt |-> IF Line.target = "" THEN 0 ELSE FindPtrMem(Line.target),
                   checks |-> <<>>]
<1>1. /\ Parse("value") /\ UNCHANGED <<dynmem_enp, ptrmem_enp, dynmems>>
      /\ cfg' = Append(cfg, new) /\ ptrmems' = Targeted(Line)
  BY DEF ReadValue, scopeVars
<1>2. Line.kind = "value" /\ (Line.prev => cfg # <<>>)
  BY <1>1 DEF Parse, Accepted, AcceptedValue
<1>3. /\ Shape.de = dynmem_enp /\ Shape.pe = ptrmem_enp /\ Shape.ptr = ptrmems
      /\ PointeeNamed(Shape, Line.target) = FindPtrMem(Line.target)
  BY SameNames DEF Shape
<1>4. EntryShape(new) = ReadEntry(Shape, Line)
  <2>1. EntryShape(new) = new
    <3>1. EntryShape(new) = WithChecks(new, <<>>)
      <4>1. new.checks = <<>>
        OBVIOUS
      <4> HIDE DEF new
      <4> QED
        BY <4>1, NoChecksShape
    <3> QED
      BY <3>1 DEF WithChecks
  <2>2. /\ ValueAddr(Line) = IF Line.prev THEN LastEntry(Shape).addr + Line.addr ELSE Line.addr
        /\ ValueWhere(Line) = IF Line.prev THEN LastEntry(Shape).where ELSE Line.where
    BY <1>2, LastShape DEF ValueAddr, ValueWhere
  <2>3. new = ReadEntry(Shape, Line)
    BY <1>3, <2>2 DEF ReadEntry
  <2> QED
    BY <2>1, <2>3
<1> HIDE DEF new
<1>5. Shape.cfg' = CfgAfter(Shape, Line)
  BY <1>1, <1>2, <1>4, EntryReadShape DEF CfgAfter
<1>6. Targeted(Line) = PtrAfter(Shape, Line)
  BY <1>2, <1>3 DEF Targeted, PtrAfter
<1>7. ~Begun(Shape, Line) /\ DynAfter(Shape, Line, lnr) = Shape.dyn
  BY <1>2 DEF Begun, DynAfter
<1>8. Shape' = [de |-> Shape.de, pe |-> Shape.pe, dyn |-> Shape.dyn, ptr |-> ptrmems',
                cfg |-> Shape.cfg']
  BY <1>1 DEF Shape
<1> QED
  BY <1>1, <1>2, <1>5, <1>6, <1>7, <1>8 DEF After

\* A check is attached to the last entry; its shape is the one of its line.
LEMMA CheckRead ==
    ASSUME TakenInv, Parse("check"),
           NEW check, check = [addr |-> CheckAddr(Line), where |-> CheckWhere(Line),
                               ref |-> CheckRef(Line), num |-> Line.by = "obj",
                               open |-> ~InScope]
    PROVE  Meaningful(check) = ReadChecked(Shape, Line)
<1>1. Line.kind = "check" /\ cfg # <<>> /\ AcceptedCheck(Line)
  BY ReadLine DEF Parse, Accepted
<1>2. /\ RefOf(Shape, Line) = CheckRef(Line) /\ WhereOf(Shape, Line) = CheckWhere(Line)
      /\ Line.by # "obj" => AddrOf(Shape, Line) = CheckAddr(Line)
  BY <1>1, SameCheck
<1>3. Line.by = "obj" => AddrOf(Shape, Line) = 0
  BY DEF AddrOf
<1>4. (~InScope) = (~Inside(Shape))
  BY ShapeFields DEF Inside, InScope
<1>5. CASE Line.by = "obj"
  <2>1. Meaningful(check) = [check EXCEPT !.addr = 0]
    BY <1>5 DEF Meaningful
  <2> QED
    BY <1>2, <1>3, <1>4, <1>5, <2>1 DEF ReadChecked
<1>6. CASE Line.by # "obj"
  <2>1. Meaningful(check) = check
    BY <1>6 DEF Meaningful
  <2> QED
    BY <1>2, <1>4, <1>6, <2>1 DEF ReadChecked
<1> QED
  BY <1>5, <1>6

LEMMA ChecksShape ==
    ASSUME NEW s, IsLog(s), NEW c
    PROVE  [k \in DOMAIN Append(s, c) |-> Meaningful(Append(s, c)[k])] =
               Append([k \in DOMAIN s |-> Meaningful(s[k])], Meaningful(c))
<1> DEFINE a == Append(s, c)
           t == [k \in DOMAIN s |-> Meaningful(s[k])]
           d == Append(t, Meaningful(c))
           u == [k \in DOMAIN a |-> Meaningful(a[k])]
<1>1. /\ IsLog(a) /\ Len(a) = Len(s) + 1
      /\ \A k \in DOMAIN s : a[k] = s[k]
      /\ a[Len(s) + 1] = c
      /\ DOMAIN a = DOMAIN s \cup {Len(s) + 1}
  BY AppendLog
<1>2. IsLog(t) /\ Len(t) = Len(s) /\ DOMAIN t = DOMAIN s /\ DOMAIN s = 1..Len(s) /\ Len(s) \in Nat
  <2>1. t = [k \in DOMAIN s |-> t[k]]
    OBVIOUS
  <2> HIDE DEF t
  <2> QED
    BY <2>1, MapLog
<1>3. /\ \A k \in DOMAIN s : t[k] = Meaningful(s[k])
      /\ \A k \in DOMAIN a : u[k] = Meaningful(a[k])
  OBVIOUS
<1>4. IsLog(u) /\ Len(u) = Len(a)
  <2>1. u = [k \in DOMAIN a |-> u[k]]
    OBVIOUS
  <2> HIDE DEF u, a
  <2> QED
    BY <1>1, <2>1, MapLog
<1> HIDE DEF a, t, u
<1>5. /\ IsLog(d) /\ Len(d) = Len(s) + 1
      /\ \A k \in DOMAIN s : d[k] = t[k]
      /\ d[Len(s) + 1] = Meaningful(c)
  BY <1>2, AppendLog
<1> HIDE DEF d
<1>6. \A k \in 1..(Len(s) + 1) : u[k] = d[k]
  <2>1. ASSUME NEW k \in 1..Len(s)
        PROVE  u[k] = d[k]
    BY <1>1, <1>2, <1>3, <1>5
  <2>2. u[Len(s) + 1] = d[Len(s) + 1]
    BY <1>1, <1>3, <1>5
  <2> QED
    BY <1>2, <2>1, <2>2
<1>7. u = d
  BY <1>1, <1>4, <1>5, <1>6, LogsEqual
<1> QED
  BY <1>7 DEF u, d, a, t

LEMMA ReadCheckShape ==
    ASSUME TakenInv, ReadCheck
    PROVE  Shape' = After(Shape, Line, lnr)
<1> DEFINE check == [addr |-> CheckAddr(Line), where |-> CheckWhere(Line),
                     ref |-> CheckRef(Line), num |-> Line.by = "obj", open |-> ~InScope]
           n == Len(cfg)
           f == [cfg[n] EXCEPT !.checks = Append(@, check)]
           d == CfgAfter(Shape, Line)
           t == [i \in DOMAIN cfg' |-> EntryShape(cfg'[i])]
<1>1. /\ Parse("check") /\ UNCHANGED <<dynmem_enp, ptrmem_enp, dynmems, ptrmems>>
      /\ cfg' = [cfg EXCEPT ![n] = f]
  BY DEF ReadCheck, scopeVars
<1>2. Line.kind = "check" /\ cfg # <<>> /\ n \in DOMAIN cfg
  BY <1>1, ReadLine, LastShape
<1>3. Meaningful(check) = ReadChecked(Shape, Line)
  BY <1>1, CheckRead
<1> HIDE DEF check
<1>4. IsEntry(cfg[n])
  BY <1>2 DEF TakenInv, HomesInv, EntriesOK, EntryOK
<1>5. /\ f.name = cfg[n].name /\ f.addr = cfg[n].addr /\ f.where = cfg[n].where
      /\ f.cstr = cfg[n].cstr /\ f.dynmem = cfg[n].dynmem /\ f.ptrmem = cfg[n].ptrmem
      /\ f.ptrtgt = cfg[n].ptrtgt /\ f.checks = Append(cfg[n].checks, check)
      /\ IsLog(cfg[n].checks)
  BY <1>4 DEF IsEntry
<1>6. /\ DOMAIN cfg' = DOMAIN cfg /\ cfg'[n] = f
      /\ \A i \in DOMAIN cfg : i # n => cfg'[i] = cfg[i]
  BY <1>1, <1>2
<1>7. /\ DOMAIN Shape.cfg = DOMAIN cfg /\ Len(Shape.cfg) = n
      /\ \A i \in DOMAIN cfg : Shape.cfg[i] = EntryShape(cfg[i])
  BY ShapeFields
<1>8. d = [i \in DOMAIN cfg |->
              IF i # n THEN Shape.cfg[i]
              ELSE WithChecks(Shape.cfg[i],
                              Append(Shape.cfg[i].checks, ReadChecked(Shape, Line)))]
  BY <1>2, <1>7 DEF CfgAfter
<1>9. EntryShape(f) = WithChecks(Shape.cfg[n],
                          Append(Shape.cfg[n].checks, ReadChecked(Shape, Line)))
  <2> DEFINE old == [k \in DOMAIN cfg[n].checks |-> Meaningful(cfg[n].checks[k])]
  <2>1. /\ Shape.cfg[n].checks = old
        /\ Shape.cfg[n].name = cfg[n].name /\ Shape.cfg[n].addr = cfg[n].addr
        /\ Shape.cfg[n].where = cfg[n].where /\ Shape.cfg[n].cstr = cfg[n].cstr
        /\ Shape.cfg[n].dynmem = cfg[n].dynmem /\ Shape.cfg[n].ptrmem = cfg[n].ptrmem
        /\ Shape.cfg[n].ptrtgt = cfg[n].ptrtgt
    <3>1. Shape.cfg[n] = EntryShape(cfg[n])
      BY <1>2, <1>7
    <3> QED
      BY <3>1 DEF EntryShape, WithChecks
  <2>2. [k \in DOMAIN f.checks |-> Meaningful(f.checks[k])] =
            Append(old, Meaningful(check))
    BY <1>5, ChecksShape
  <2> HIDE DEF old, f
  <2>3. EntryShape(f) = WithChecks(f, Append(old, Meaningful(check)))
    BY <2>2 DEF EntryShape
  <2> QED
    BY <1>3, <1>5, <2>1, <2>3 DEF WithChecks
<1> HIDE DEF f
<1>10. \A i \in DOMAIN cfg : t[i] = d[i]
  <2>1. \A i \in DOMAIN cfg : t[i] = EntryShape(cfg'[i])
    BY <1>6
  <2> HIDE DEF t, d
  <2>2. t[n] = d[n]
    BY <1>2, <1>6, <1>8, <1>9, <2>1
  <2>3. \A i \in DOMAIN cfg : i # n => t[i] = d[i]
    BY <1>6, <1>7, <1>8, <2>1
  <2> QED
    BY <2>2, <2>3
<1>11. t = [i \in DOMAIN cfg |-> t[i]]
  BY <1>6
<1>12. d = [i \in DOMAIN cfg |-> d[i]]
  BY <1>8
<1>13. Shape.cfg' = t
  BY DEF Shape
<1> HIDE DEF t, d
<1>14. Shape.cfg' = CfgAfter(Shape, Line)
  BY <1>10, <1>11, <1>12, <1>13 DEF d
<1>15. /\ ~Begun(Shape, Line) /\ DynAfter(Shape, Line, lnr) = Shape.dyn
       /\ PtrAfter(Shape, Line) = Shape.ptr
  BY <1>2 DEF Begun, DynAfter, PtrAfter
<1>16. Shape' = [de |-> Shape.de, pe |-> Shape.pe, dyn |-> Shape.dyn, ptr |-> Shape.ptr,
                 cfg |-> Shape.cfg']
  BY <1>1 DEF Shape
<1> QED
  BY <1>2, <1>14, <1>15, <1>16 DEF After

Reads ==
    \/ ReadSkip \/ ReadDump \/ ReadOption
    \/ ReadDynmemStart \/ ReadDynmemConst \/ ReadDynmemGrow \/ ReadDynmemEnd
    \/ ReadPtrmemStart \/ ReadPtrmemEnd \/ ReadValue \/ ReadCheck

\* Every line that is read: it is accepted, and leads to the shape behind it.
LEMMA ReadsShape ==
    ASSUME TakenInv, Reads
    PROVE  /\ ~Hangs(Shape, Line) /\ Fits(Shape, Line) /\ OptionFits(Line)
           /\ Shape' = After(Shape, Line, lnr)
           /\ Parse(Line.kind)
<1>1. PICK kind : Parse(kind)
  BY DEF Reads, ReadSkip, ReadDump, ReadOption, ReadDynmemStart, ReadDynmemConst,
         ReadDynmemGrow, ReadDynmemEnd, ReadPtrmemStart, ReadPtrmemEnd, ReadValue, ReadCheck
<1>2. kind = Line.kind
  BY <1>1 DEF Parse
<1>3. ~Hangs(Shape, Line) /\ Fits(Shape, Line) /\ OptionFits(Line)
  BY <1>1, ReadLine
<1>4. Shape' = After(Shape, Line, lnr)
  BY ReadPlainShape, ReadPtrmemStartShape, ReadClassShape, ReadValueShape, ReadCheckShape
     DEF Reads
<1> QED
  BY <1>1, <1>2, <1>3, <1>4

-----------------------------------------------------------------------------
(* The options and the classes that have been read are those of the lines. *)

LEMMA SaidNext ==
    ASSUME NEW lines, NEW n \in Nat, n >= 2, NEW kind
    PROVE  /\ SaidAt(lines, n + 1, kind) =
                  IF lines[n].kind = kind THEN n ELSE SaidAt(lines, n, kind)
           /\ lines[n].kind = kind =>
                  \A none : Said(lines, n + 1, kind, none) = lines[n].val
           /\ lines[n].kind # kind =>
                  \A none : Said(lines, n + 1, kind, none) = Said(lines, n, kind, none)
<1> DEFINE K == Saying(lines, n, kind)
           L == Saying(lines, n + 1, kind)
<1>1. CASE lines[n].kind # kind
  <2>1. 2..(n + 1 - 1) = 2..(n - 1) \cup {n}
    OBVIOUS
  <2>2. L = K
    BY <1>1, <2>1 DEF Saying
  <2> QED
    BY <1>1, <2>2 DEF SaidAt, Said
<1>2. CASE lines[n].kind = kind
  <2>1. n \in L /\ \A j \in L : j <= n /\ j \in Nat
    BY <1>2 DEF Saying
  <2> HIDE DEF L
  <2>2. LargestOf(L) = n
    <3>1. \A i \in L : (\A j \in L : j <= i) => i = n
      BY <2>1
    <3>2. LargestOf(L) \in L /\ \A j \in L : j <= LargestOf(L)
      BY <2>1 DEF LargestOf
    <3> QED
      BY <3>1, <3>2
  <2>3. L # {}
    BY <2>1
  <2>4. SaidAt(lines, n + 1, kind) = n
    BY <2>2, <2>3 DEF SaidAt, L
  <2> QED
    BY <1>2, <2>3, <2>4 DEF Said, L
<1> QED
  BY <1>1, <1>2

LEMMA SaidFound ==
    ASSUME NEW lines, NEW n \in Nat, NEW kind
    PROVE  /\ SaidAt(lines, n, kind) = 0 <=> Saying(lines, n, kind) = {}
           /\ Saying(lines, n, kind) # {} => SaidAt(lines, n, kind) \in Saying(lines, n, kind)
<1> DEFINE K == Saying(lines, n, kind)
<1>1. K \subseteq 1..n /\ 0 \notin K
  BY DEF Saying
<1> HIDE DEF K
<1>2. K # {} => LargestOf(K) \in K
  BY <1>1, Greatest
<1> QED
  BY <1>1, <1>2 DEF SaidAt, K

\* Nothing is said in front of the second line.
LEMMA SaidNothing ==
    ASSUME NEW lines, NEW kind
    PROVE  /\ Saying(lines, 2, kind) = {} /\ SaidAt(lines, 2, kind) = 0
           /\ \A none : Said(lines, 2, kind, none) = none
<1>1. Saying(lines, 2, kind) = {}
  BY DEF Saying
<1> QED
  BY <1>1 DEF SaidAt, Said

LEMMA OptAfter ==
    ASSUME IsOpt, Reads
    PROVE  /\ IsOpt'
           /\ opt'.proc = opt.proc
           /\ opt'.path = IF Line.kind = "game_path" THEN Line.val ELSE opt.path
           /\ opt'.call = IF Line.kind = "game_call" THEN Line.val ELSE opt.call
           /\ opt'.binpath = IF Line.kind = "game_binpath" THEN Line.val ELSE opt.binpath
           /\ opt'.binpath_line = IF Line.kind = "game_binpath" THEN lnr ELSE opt.binpath_line
           /\ opt'.adp_req_line = IF Line.kind = "adapt_required" THEN lnr
                                  ELSE opt.adp_req_line
           /\ opt'.adp_required = IF Line.kind = "adapt_required"
                                  THEN opt.adp_required \/ Line.val ELSE opt.adp_required
<1>1. CASE ReadOption
  <2>1. CASE Line.kind = "game_path"
    <3>1. opt' = [opt EXCEPT !.path = Line.val]
      BY <1>1, <2>1 DEF ReadOption, Parse
    <3> QED
      BY <2>1, <3>1 DEF IsOpt
  <2>2. CASE Line.kind = "game_call"
    <3>1. opt' = [opt EXCEPT !.call = Line.val]
      BY <1>1, <2>2 DEF ReadOption, Parse
    <3> QED
      BY <2>2, <3>1 DEF IsOpt
  <2>3. CASE Line.kind = "game_binpath"
    <3>1. opt' = [opt EXCEPT !.binpath = Line.val, !.binpath_line = lnr]
      BY <1>1, <2>3 DEF ReadOption, Parse
    <3> QED
      BY <2>3, <3>1 DEF IsOpt
  <2>4. CASE Line.kind = "adapt_script"
    <3>1. opt' = [opt EXCEPT !.adp_script = TRUE]
      BY <1>1, <2>4 DEF ReadOption, Parse
    <3> QED
      BY <2>4, <3>1 DEF IsOpt
  <2>5. CASE Line.kind = "adapt_required"
    <3>1. opt' = [opt EXCEPT !.adp_required = opt.adp_required \/ Line.val,
                             !.adp_req_line = lnr]
      BY <1>1, <2>5 DEF ReadOption, Parse, IsOpt
    <3> HIDE DEF IsOpt
    <3> DEFINE required == opt.adp_required \/ Line.val
    <3> HIDE DEF required
    <3>2. opt' = [opt EXCEPT !.adp_required = required, !.adp_req_line = lnr]
      BY <3>1 DEF required
    <3>3. /\ IsOpt' /\ opt'.proc = opt.proc /\ opt'.path = opt.path /\ opt'.call = opt.call
          /\ opt'.binpath = opt.binpath /\ opt'.binpath_line = opt.binpath_line
          /\ opt'.adp_req_line = lnr /\ opt'.adp_required = required
      BY <3>2 DEF IsOpt
    <3> QED
      BY <2>5, <3>3 DEF required
  <2> QED
    BY <1>1, <2>1, <2>2, <2>3, <2>4, <2>5 DEF ReadOption, Parse
<1>2. CASE ~ReadOption
  <2>1. UNCHANGED opt
    BY <1>2 DEF Reads, ReadSkip, ReadDump, ReadDynmemStart, ReadDynmemConst, ReadDynmemGrow,
           ReadDynmemEnd, ReadPtrmemStart, ReadPtrmemEnd, ReadValue, ReadCheck
  <2>2. Line.kind \notin {"game_path", "game_call", "game_binpath", "adapt_required"}
    BY <1>2 DEF Reads, ReadSkip, ReadDump, ReadDynmemStart, ReadDynmemConst, ReadDynmemGrow,
           ReadDynmemEnd, ReadPtrmemStart, ReadPtrmemEnd, ReadValue, ReadCheck, Parse
  <2> QED
    BY <2>1, <2>2 DEF IsOpt
<1> QED
  BY <1>1, <1>2

\* Where reading stands, before and behind a line.
LEMMA ReadsPlace ==
    ASSUME TakenInv, Reads
    PROVE  /\ status = "read" /\ lnr \in 2..Len(cfg_lines) /\ Len(cfg_lines) \in Nat
           /\ lnr' = lnr + 1 /\ Line = cfg_lines[lnr]
           /\ UNCHANGED <<disk, run, status, cfg_lines, script, taken, kept>>
<1>1. Parse(Line.kind)
  BY ReadsShape
<1>2. lnr \in Nat /\ lnr > 1 /\ Len(cfg_lines) \in Nat
  BY ClassFields DEF TakenInv, Phases
<1> QED
  BY <1>1, <1>2 DEF Parse, Reading, Line, adaptVars

LEMMA ReadsSaid ==
    ASSUME TakenInv, Reads, NEW kind
    PROVE  /\ SaidAt(cfg_lines, lnr + 1, kind) =
                  IF Line.kind = kind THEN lnr ELSE SaidAt(cfg_lines, lnr, kind)
           /\ \A none : Said(cfg_lines, lnr + 1, kind, none) =
                  IF Line.kind = kind THEN Line.val ELSE Said(cfg_lines, lnr, kind, none)
<1>1. lnr \in Nat /\ lnr >= 2 /\ Line = cfg_lines[lnr]
  BY ReadsPlace
<1>2. /\ SaidAt(cfg_lines, lnr + 1, kind) =
             IF cfg_lines[lnr].kind = kind THEN lnr ELSE SaidAt(cfg_lines, lnr, kind)
      /\ cfg_lines[lnr].kind = kind =>
             \A none : Said(cfg_lines, lnr + 1, kind, none) = cfg_lines[lnr].val
      /\ cfg_lines[lnr].kind # kind =>
             \A none : Said(cfg_lines, lnr + 1, kind, none) = Said(cfg_lines, lnr, kind, none)
  BY <1>1, SaidNext, Zenon
<1>3. ASSUME NEW none
      PROVE  Said(cfg_lines, lnr + 1, kind, none) =
                 IF Line.kind = kind THEN Line.val ELSE Said(cfg_lines, lnr, kind, none)
  BY <1>1, <1>2
<1> QED
  BY <1>1, <1>2, <1>3

LEMMA ReadsOptions ==
    ASSUME TakenInv, IsOpt, ReadSoFar, Reads
    PROVE  /\ OptionLines(cfg_lines)'
           /\ opt'.proc = ProcName(cfg_lines[1])
           /\ opt'.call = CallSaid(cfg_lines, lnr + 1)
           /\ opt'.binpath = Said(cfg_lines, lnr + 1, "game_binpath", "")
<1>1. /\ lnr \in Nat /\ lnr >= 2 /\ lnr' = lnr + 1 /\ Line = cfg_lines[lnr]
      /\ UNCHANGED cfg_lines
  BY ReadsPlace
<1>2. /\ opt.proc = ProcName(cfg_lines[1])
      /\ opt.call = CallSaid(cfg_lines, lnr)
      /\ opt.binpath = Said(cfg_lines, lnr, "game_binpath", "")
      /\ OptionLines(cfg_lines)
  BY DEF ReadSoFar
<1>3. opt'.proc = ProcName(cfg_lines[1])
  BY <1>2, OptAfter
<1>4. opt'.call = CallSaid(cfg_lines, lnr + 1)
  <2>1. Said(cfg_lines, lnr + 1, "game_call", ProcName(cfg_lines[1])) =
            IF Line.kind = "game_call" THEN Line.val
            ELSE Said(cfg_lines, lnr, "game_call", ProcName(cfg_lines[1]))
    BY ReadsSaid
  <2> QED
    BY <1>2, <2>1, OptAfter DEF CallSaid
<1>5. opt'.binpath = Said(cfg_lines, lnr + 1, "game_binpath", "")
  <2>1. Said(cfg_lines, lnr + 1, "game_binpath", "") =
            IF Line.kind = "game_binpath" THEN Line.val
            ELSE Said(cfg_lines, lnr, "game_binpath", "")
    BY ReadsSaid
  <2> QED
    BY <1>2, <2>1, OptAfter
<1>6. opt'.path = Said(cfg_lines, lnr + 1, "game_path", "")
  <2>1. Said(cfg_lines, lnr + 1, "game_path", "") =
            IF Line.kind = "game_path" THEN Line.val
            ELSE Said(cfg_lines, lnr, "game_path", "")
    BY ReadsSaid
  <2> QED
    BY <1>2, <2>1, OptAfter DEF OptionLines
<1>7. /\ opt'.binpath_line = SaidAt(cfg_lines, lnr + 1, "game_binpath")
      /\ opt'.adp_req_line = SaidAt(cfg_lines, lnr + 1, "adapt_required")
  <2>1. /\ SaidAt(cfg_lines, lnr + 1, "game_binpath") =
               IF Line.kind = "game_binpath" THEN lnr
               ELSE SaidAt(cfg_lines, lnr, "game_binpath")
        /\ SaidAt(cfg_lines, lnr + 1, "adapt_required") =
               IF Line.kind = "adapt_required" THEN lnr
               ELSE SaidAt(cfg_lines, lnr, "adapt_required")
    BY ReadsSaid
  <2> QED
    BY <1>2, <2>1, OptAfter DEF OptionLines
<1>8. ASSUME NEW k \in 2..(lnr + 1 - 1)
      PROVE  /\ cfg_lines[k].kind = "game_path" => cfg_lines[k].val = CallSaid(cfg_lines, k)
             /\ cfg_lines[k].kind = "game_binpath" =>
                    cfg_lines[k].val = ProcName(cfg_lines[1])
  <2>1. CASE k \in 2..(lnr - 1)
    BY <1>2, <2>1 DEF OptionLines
  <2>2. CASE k = lnr
    <3>1. OptionFits(Line)
      BY ReadsShape
    <3> QED
      BY <1>1, <1>2, <2>2, <3>1 DEF OptionFits
  <2> QED
    BY <1>1, <2>1, <2>2
<1>9. OptionLines(cfg_lines)'
  <2>1. /\ opt'.path = Said(cfg_lines', lnr', "game_path", "")
        /\ opt'.binpath_line = SaidAt(cfg_lines', lnr', "game_binpath")
        /\ opt'.adp_req_line = SaidAt(cfg_lines', lnr', "adapt_required")
    BY <1>1, <1>6, <1>7
  <2>2. \A k \in 2..(lnr' - 1) :
           /\ cfg_lines'[k].kind = "game_path" => cfg_lines'[k].val = CallSaid(cfg_lines', k)
           /\ cfg_lines'[k].kind = "game_binpath" => cfg_lines'[k].val = ProcName(cfg_lines'[1])
    BY <1>1, <1>8
  <2> QED
    BY <2>1, <2>2 DEF OptionLines
<1> QED
  BY <1>3, <1>4, <1>5, <1>9

\* A class that is from lines like these, in front of line n.
ClassFrom(c, lines, n) ==
    /\ c.size = LineSize(lines, c.cfg_line)
    /\ c.code = LineCode(lines, c.cfg_line)
    /\ c.cfg_line # 1 => /\ c.cfg_line \in 2..(n - 1)
                         /\ lines[c.cfg_line].kind = "dynmemstart"
                         /\ lines[c.cfg_line].name = c.name
                         /\ lines[c.cfg_line].lib = c.lib

LEMMA ReadsClasses ==
    ASSUME TakenInv, FromLines(cfg_lines), Reads
    PROVE  FromLines(cfg_lines)'
<1> DEFINE n == Len(dynmems)
<1>1. /\ lnr \in Nat /\ lnr >= 2 /\ lnr' = lnr + 1 /\ Line = cfg_lines[lnr]
      /\ UNCHANGED cfg_lines
  BY ReadsPlace
<1>2. \A i \in DOMAIN dynmems : ClassFrom(dynmems[i], cfg_lines, lnr)
  BY DEF FromLines, ClassFrom
<1>3. \A c : ClassFrom(c, cfg_lines, lnr) => ClassFrom(c, cfg_lines, lnr + 1)
  BY <1>1 DEF ClassFrom
<1>4. ASSUME NEW c, dynmems' = Append(dynmems, c), ClassFrom(c, cfg_lines, lnr + 1),
             NEW i \in DOMAIN dynmems'
      PROVE  ClassFrom(dynmems'[i], cfg_lines, lnr + 1)
  <2>1. /\ DOMAIN dynmems' = DOMAIN dynmems \cup {n + 1}
        /\ \A k \in DOMAIN dynmems : dynmems'[k] = dynmems[k]
        /\ dynmems'[n + 1] = c
    BY <1>4, BookFields, AppendLog
  <2> QED
    BY <1>2, <1>3, <1>4, <2>1
<1>5. ASSUME NEW i \in DOMAIN dynmems'
      PROVE  ClassFrom(dynmems'[i], cfg_lines, lnr + 1)
  <2>1. CASE ReadDynmemStart
    <3> DEFINE c == NewClass(Line, lnr)
    <3>1. dynmems' = Append(dynmems, c) /\ Line.kind = "dynmemstart"
      BY <2>1 DEF ReadDynmemStart, Parse
    <3>2. ClassFrom(c, cfg_lines, lnr + 1)
      BY <1>1, <3>1 DEF NewClass, ClassFrom, LineSize, LineCode
    <3> HIDE DEF c
    <3> QED
      BY <1>4, <1>5, <3>1, <3>2
  <2>2. CASE ReadDynmemGrow /\ dynmem_enp = 0
    <3> DEFINE c == [NewClass([name |-> Line.name, size |-> 0, code |-> 0, lib |-> ""], 1)
                        EXCEPT !.grow = TRUE]
    <3>1. dynmems' = Append(dynmems, c)
      BY <2>2 DEF ReadDynmemGrow
    <3>2. ClassFrom(c, cfg_lines, lnr + 1)
      BY DEF NewClass, ClassFrom, LineSize, LineCode
    <3> HIDE DEF c
    <3> QED
      BY <1>4, <1>5, <3>1, <3>2
  <2>3. CASE (ReadDynmemGrow /\ dynmem_enp # 0) \/ ReadDynmemConst
    <3> DEFINE o == dynmems[dynmem_enp]
               c == IF Line.kind = "dynmemgrow" THEN [o EXCEPT !.grow = TRUE]
                    ELSE [o EXCEPT !.consts = @ + 1]
    <3>1. dynmem_enp # 0 /\ dynmems' = [dynmems EXCEPT ![dynmem_enp] = c]
      BY <2>3 DEF ReadDynmemGrow, ReadDynmemConst, Parse, Accepted
    <3>2. dynmem_enp \in DOMAIN dynmems /\ IsClass(o)
      BY <3>1, BookFields DEF TakenInv, ClassesOK
    <3>3. /\ c.size = o.size /\ c.code = o.code /\ c.cfg_line = o.cfg_line
          /\ c.name = o.name /\ c.lib = o.lib
      BY <3>2 DEF IsClass
    <3>4. ClassFrom(o, cfg_lines, lnr + 1)
      BY <1>2, <1>3, <3>2
    <3> HIDE DEF c, o
    <3>5. ClassFrom(c, cfg_lines, lnr + 1)
      BY <3>3, <3>4 DEF ClassFrom
    <3>6. i \in DOMAIN dynmems /\ dynmems'[i] = IF i = dynmem_enp THEN c ELSE dynmems[i]
      BY <1>5, <3>1
    <3> QED
      BY <1>2, <1>3, <3>5, <3>6
  <2>4. CASE UNCHANGED dynmems
    BY <1>2, <1>3, <1>5, <2>4
  <2> QED
    BY <2>1, <2>2, <2>3, <2>4
       DEF Reads, ReadSkip, ReadDump, ReadOption, ReadDynmemEnd, ReadPtrmemStart,
           ReadPtrmemEnd, ReadValue, ReadCheck
<1>6. \A i \in DOMAIN dynmems' : ClassFrom(dynmems'[i], cfg_lines', lnr')
  BY <1>1, <1>5
<1> QED
  BY <1>6 DEF FromLines, ClassFrom

LEMMA ReadsSoFar ==
    ASSUME TakenInv, IsOpt, ReadSoFar, Reads
    PROVE  ReadSoFar' /\ IsOpt'
<1>1. lnr' = lnr + 1 /\ UNCHANGED <<disk, cfg_lines>>
  BY ReadsPlace
<1>2. FromLines(cfg_lines)'
  BY ReadsClasses DEF ReadSoFar
<1>3. cfg_lines' = ReadFile(disk') /\ disk'.lines # <<>>
  BY <1>1 DEF ReadSoFar
<1>4. /\ opt'.proc = ProcName(cfg_lines'[1])
      /\ opt'.call = CallSaid(cfg_lines', lnr')
      /\ opt'.binpath = Said(cfg_lines', lnr', "game_binpath", "")
  BY <1>1, ReadsOptions
<1> QED
  BY <1>2, <1>3, <1>4, ReadsOptions, OptAfter DEF ReadSoFar

-----------------------------------------------------------------------------
(* The history of the first start.                                         *)

LEMMA ChainLonger ==
    ASSUME NEW h, NEW lines, NEW n \in Nat, n >= 2, Chain(h, lines, n),
           ~Hangs(h[n], lines[n]), Fits(h[n], lines[n]), NEW s,
           s = After(h[n], lines[n], n)
    PROVE  \E g : Chain(g, lines, n + 1) /\ g[n + 1] = s
<1> DEFINE g == [k \in 2..(n + 1) |-> IF k = n + 1 THEN s ELSE h[k]]
<1>1. /\ g[n + 1] = s
      /\ \A k \in 2..n : g[k] = h[k]
  OBVIOUS
<1> HIDE DEF g
<1>2. g[2] = NoShape
  BY <1>1 DEF Chain
<1>3. ASSUME NEW k \in 2..(n + 1 - 1)
      PROVE  /\ ~Hangs(g[k], lines[k]) /\ Fits(g[k], lines[k])
             /\ g[k + 1] = After(g[k], lines[k], k)
  <2>1. CASE k = n
    BY <1>1, <2>1
  <2>2. CASE k \in 2..(n - 1)
    <3>1. g[k] = h[k] /\ g[k + 1] = h[k + 1]
      BY <1>1, <2>2
    <3> QED
      BY <2>2, <3>1 DEF Chain
  <2> QED
    BY <2>1, <2>2
<1>4. Chain(g, lines, n + 1)
  BY <1>2, <1>3 DEF Chain
<1> QED
  BY <1>1, <1>4

LEMMA ReadsRecorded ==
    ASSUME TakenInv, ReadSoFar, Reads, Recorded
    PROVE  Recorded'
<1>1. /\ lnr \in Nat /\ lnr >= 2 /\ lnr' = lnr + 1 /\ Line = cfg_lines[lnr]
      /\ UNCHANGED <<disk, cfg_lines>>
  BY ReadsPlace
<1>2. PICK h : Chain(h, ReadFile(disk), lnr) /\ h[lnr] = Shape
  BY DEF Recorded
<1>3. cfg_lines = ReadFile(disk)
  BY DEF ReadSoFar
<1>4. /\ ~Hangs(h[lnr], cfg_lines[lnr]) /\ Fits(h[lnr], cfg_lines[lnr])
      /\ Shape' = After(h[lnr], cfg_lines[lnr], lnr)
  BY <1>1, <1>2, ReadsShape
<1> DEFINE s == Shape'
<1> HIDE DEF s
<1>5. \E g : Chain(g, cfg_lines, lnr + 1) /\ g[lnr + 1] = s
  BY <1>1, <1>2, <1>3, <1>4, ChainLonger DEF s
<1>6. \E g : Chain(g, ReadFile(disk'), lnr') /\ g[lnr'] = Shape'
  BY <1>1, <1>3, <1>5 DEF s
<1> QED
  BY <1>6 DEF Recorded

-----------------------------------------------------------------------------
(* The script's output changes the first line and the one of the binary.   *)

\* Nothing that Settled says of what has been read changes.
LEMMA SettledBook ==
    ASSUME UNCHANGED <<disk, dynmems, lnr>>,
           disk.lines # <<>>, FromLines(ReadFile(disk)), OptionLines(ReadFile(disk)),
           opt'.path = opt.path, opt'.binpath_line = opt.binpath_line,
           opt'.adp_req_line = opt.adp_req_line
    PROVE  /\ ReadFile(disk)' = ReadFile(disk) /\ disk'.lines # <<>>
           /\ FromLines(ReadFile(disk))' /\ OptionLines(ReadFile(disk))'
<1>1. ReadFile(disk)' = ReadFile(disk)
  BY DEF ReadFile
<1>2. disk'.lines # <<>>
  OBVIOUS
<1>3. FromLines(ReadFile(disk))'
  <2>1. ReadFile(disk') = ReadFile(disk) /\ lnr' = lnr /\ dynmems' = dynmems
    OBVIOUS
  <2> QED
    BY <2>1 DEF FromLines
<1>4. OptionLines(ReadFile(disk))'
  <2>1. ReadFile(disk') = ReadFile(disk) /\ lnr' = lnr
    OBVIOUS
  <2> QED
    BY <2>1 DEF OptionLines
<1> QED
  BY <1>1, <1>2, <1>3, <1>4

LEMMA RunScriptSettles ==
    ASSUME TakenInv, ReadSoFar, NEW s, RunScript(s)
    PROVE  Settled'
<1> DEFINE lines == ReadFile(disk)
<1>1. UNCHANGED <<disk, dynmems, lnr, opt, cfg_lines>>
  BY DEF RunScript, configVars
<1>2. /\ cfg_lines = lines /\ disk.lines # <<>> /\ FromLines(lines) /\ OptionLines(lines)
      /\ opt.proc = ProcName(lines[1]) /\ opt.call = CallSaid(lines, lnr)
      /\ opt.binpath = Said(lines, lnr, "game_binpath", "")
  BY DEF ReadSoFar
<1>3. /\ lines' = lines /\ disk'.lines # <<>>
      /\ FromLines(lines)' /\ OptionLines(lines)'
  BY <1>1, <1>2, SettledBook
<1>4. lnr \in Nat
  BY ClassFields
<1> HIDE DEF lines
<1>5. Saying(lines, lnr, "game_call") = {} => opt.call = opt.proc
  BY <1>2 DEF CallSaid, Said
<1>6. opt.binpath_line = SaidAt(lines, lnr, "game_binpath")
  BY <1>2 DEF OptionLines
<1>7. opt.binpath_line = 0 => opt.binpath = ""
  BY <1>2, <1>4, <1>6, SaidFound DEF Said
<1>8. opt.binpath_line # 0 => /\ lines[opt.binpath_line].kind = "game_binpath"
                              /\ lines[opt.binpath_line].val = opt.binpath
  <2> SUFFICES ASSUME opt.binpath_line # 0
               PROVE  /\ lines[opt.binpath_line].kind = "game_binpath"
                      /\ lines[opt.binpath_line].val = opt.binpath
    OBVIOUS
  <2>1. opt.binpath_line \in Saying(lines, lnr, "game_binpath")
    BY <1>4, <1>6, SaidFound
  <2>2. lines[opt.binpath_line].kind = "game_binpath"
    BY <2>1 DEF Saying
  <2>3. Said(lines, lnr, "game_binpath", "") = lines[opt.binpath_line].val
    BY <1>6, <2>1 DEF Said
  <2> QED
    BY <1>2, <2>2, <2>3
<1>9. /\ Len(cfg_lines') = Len(lines)
      /\ \A k \in 2..Len(lines) : cfg_lines'[k] = lines[k] \/ k = opt'.binpath_line
      /\ opt'.proc = ProcName(cfg_lines'[1])
      /\ Saying(lines, lnr', "game_call") = {} => opt'.call = opt'.proc
      /\ opt'.binpath_line = 0 => opt'.binpath = ""
      /\ opt'.binpath_line # 0 => /\ cfg_lines'[opt'.binpath_line].kind = "game_binpath"
                                  /\ cfg_lines'[opt'.binpath_line].val = opt'.binpath
  BY <1>1, <1>2, <1>5, <1>7, <1>8
<1> QED
  BY <1>3, <1>9 DEF Settled, lines

LEMMA TakeObjectSettles ==
    ASSUME TakenInv, Settled, TakeObject
    PROVE  Settled'
<1> DEFINE lines == ReadFile(disk)
           c == LeastOf(Candidates(Item.name))
<1>1. /\ UNCHANGED <<disk, lnr, opt, cfg_lines>>
      /\ dynmems' = [dynmems EXCEPT ![c].adp_size = Item.size, ![c].adp_addr = Item.code]
  BY DEF TakeObject, configVars
<1> HIDE DEF c
<1>2. DOMAIN dynmems' = DOMAIN dynmems
  BY <1>1
<1>3. ASSUME NEW i \in DOMAIN dynmems
      PROVE  /\ dynmems'[i].size = dynmems[i].size /\ dynmems'[i].code = dynmems[i].code
             /\ dynmems'[i].cfg_line = dynmems[i].cfg_line
             /\ dynmems'[i].name = dynmems[i].name /\ dynmems'[i].lib = dynmems[i].lib
  <2>1. IsClass(dynmems[i])
    BY DEF TakenInv, ClassesOK
  <2>2. CASE i # c
    BY <1>1, <2>2
  <2>3. CASE i = c
    <3>1. dynmems'[i] = [[dynmems[i] EXCEPT !.adp_size = Item.size] EXCEPT !.adp_addr = Item.code]
      BY <1>1, <2>3
    <3> QED
      BY <2>1, <3>1 DEF IsClass
  <2> QED
    BY <2>2, <2>3
<1>4. lines' = lines /\ disk'.lines = disk.lines
  BY <1>1 DEF ReadFile
<1> HIDE DEF lines
<1>5. FromLines(lines)'
  <2>1. \A i \in DOMAIN dynmems : ClassFrom(dynmems[i], lines, lnr)
    BY DEF Settled, FromLines, ClassFrom, lines
  <2>2. \A i \in DOMAIN dynmems' : ClassFrom(dynmems'[i], lines, lnr)
    BY <1>2, <1>3, <2>1 DEF ClassFrom
  <2> QED
    BY <1>1, <1>4, <2>2 DEF FromLines, ClassFrom
<1>6. OptionLines(lines)'
  BY <1>1, <1>4 DEF Settled, OptionLines, lines
<1> QED
  BY <1>1, <1>4, <1>5, <1>6 DEF Settled, lines

\* A file and the lines it is read to.
LEMMA FileLines ==
    ASSUME NEW f, LinesOK(f.lines), f.lines # <<>>
    PROVE  /\ Len(f.lines) \in Nat \ {0} /\ IsLog(ReadFile(f))
           /\ DOMAIN f.lines = 1..Len(f.lines)
           /\ Len(ReadFile(f)) \in Nat \ {0} /\ DOMAIN ReadFile(f) = 1..Len(ReadFile(f))
           /\ \A k \in DOMAIN f.lines : ReadFile(f)[k] = f.lines[k]
           /\ f.ended => /\ Len(ReadFile(f)) = Len(f.lines) + 1
                         /\ ReadFile(f)[Len(f.lines) + 1] = [kind |-> "skip"]
<1>1. IsLog(f.lines)
  BY DEF LinesOK
<1>2. Len(f.lines) \in Nat \ {0} /\ DOMAIN f.lines = 1..Len(f.lines)
  BY <1>1, LogFacts
<1>3. CASE f.ended
  <2>1. ReadFile(f) = Append(f.lines, [kind |-> "skip"])
    BY <1>3 DEF ReadFile
  <2>2. /\ IsLog(ReadFile(f)) /\ Len(ReadFile(f)) = Len(f.lines) + 1
        /\ \A k \in DOMAIN f.lines : ReadFile(f)[k] = f.lines[k]
        /\ ReadFile(f)[Len(f.lines) + 1] = [kind |-> "skip"]
    BY <1>1, <2>1, AppendLog
  <2>3. DOMAIN ReadFile(f) = 1..Len(ReadFile(f))
    BY <2>2, LogFacts
  <2> QED
    BY <1>2, <2>2, <2>3
<1>4. CASE ~f.ended
  <2>1. ReadFile(f) = f.lines
    BY <1>4 DEF ReadFile
  <2> QED
    BY <1>1, <1>2, <1>4, <2>1
<1> QED
  BY <1>3, <1>4

\* The line an option was on.
LEMMA OptionAt ==
    ASSUME NEW lines, NEW n \in Nat, NEW kind, NEW k, k = SaidAt(lines, n, kind), k # 0
    PROVE  k \in 2..(n - 1) /\ lines[k].kind = kind
<1>1. k \in Saying(lines, n, kind)
  BY SaidFound
<1> QED
  BY <1>1 DEF Saying

LEMMA OneLineOf ==
    ASSUME NEW s, IsLog(s), NEW b \in DOMAIN s, NEW l, NEW t, t = [s EXCEPT ![b] = l]
    PROVE  /\ DOMAIN t = DOMAIN s /\ t[b] = l
           /\ \A k \in DOMAIN s : k # b => t[k] = s[k]
           /\ t = [k \in DOMAIN s |-> t[k]]
  OBVIOUS

LEMMA TakeSettingSettles ==
    ASSUME TakenInv, IsOpt, Settled, lnr = Len(cfg_lines) + 1, TakeSetting
    PROVE  Settled' /\ IsOpt'
<1> DEFINE lines == ReadFile(disk)
           v == Item.val
           b == opt.binpath_line
<1>1. UNCHANGED <<disk, lnr, dynmems>>
  BY DEF TakeSetting, configVars
<1>2. /\ disk.lines # <<>> /\ FromLines(lines) /\ OptionLines(lines)
      /\ Len(cfg_lines) = Len(lines)
      /\ \A k \in 2..Len(lines) : cfg_lines[k] = lines[k] \/ k = opt.binpath_line
      /\ opt.proc = ProcName(cfg_lines[1])
      /\ Saying(lines, lnr, "game_call") = {} => opt.call = opt.proc
      /\ opt.binpath_line = 0 => opt.binpath = ""
      /\ opt.binpath_line # 0 => /\ cfg_lines[opt.binpath_line].kind = "game_binpath"
                                 /\ cfg_lines[opt.binpath_line].val = opt.binpath
  BY DEF Settled
<1>3. /\ IsLog(cfg_lines) /\ Len(cfg_lines) \in Nat /\ DOMAIN cfg_lines = 1..Len(cfg_lines)
      /\ lnr \in Nat /\ 1 \in DOMAIN cfg_lines
  <2>1. LinesOK(disk.lines) /\ IsLog(cfg_lines)
    BY DEF TakenInv, HomesInv, Typed, LinesOK
  <2>2. Len(ReadFile(disk)) \in Nat \ {0}
    BY <1>2, <2>1, FileLines
  <2>3. Len(cfg_lines) \in Nat \ {0}
    BY <1>2, <2>2
  <2>4. DOMAIN cfg_lines = 1..Len(cfg_lines)
    BY <2>1, LogFacts
  <2> QED
    BY <2>1, <2>3, <2>4
<1> HIDE DEF lines
<1>9. Len(lines) = Len(cfg_lines)
  BY <1>2
<1>4. b # 0 => b \in 2..Len(cfg_lines)
  <2>1. b = SaidAt(lines, lnr, "game_binpath")
    BY <1>2 DEF OptionLines
  <2>2. b # 0 => b \in 2..(lnr - 1)
    BY <1>3, <2>1, OptionAt
  <2> QED
    BY <1>3, <2>2
<1>5. /\ IsOpt'
      /\ opt'.path = opt.path /\ opt'.binpath_line = opt.binpath_line
      /\ opt'.adp_req_line = opt.adp_req_line
      /\ Len(cfg_lines') = Len(lines)
      /\ \A k \in 2..Len(lines) : cfg_lines'[k] = lines[k] \/ k = opt'.binpath_line
      /\ opt'.proc = ProcName(cfg_lines'[1])
      /\ Saying(lines, lnr', "game_call") = {} => opt'.call = opt'.proc
      /\ opt'.binpath_line = 0 => opt'.binpath = ""
      /\ opt'.binpath_line # 0 => /\ cfg_lines'[opt'.binpath_line].kind = "game_binpath"
                                  /\ cfg_lines'[opt'.binpath_line].val = opt'.binpath
  <2>1. CASE Item.kind = "proc_name"
    <3> DEFINE l == [kind |-> "proc", val |-> v]
    <3>1. /\ opt' = [opt EXCEPT !.proc = v, !.call = IF opt.call = opt.proc THEN v ELSE opt.call]
          /\ cfg_lines' = [cfg_lines EXCEPT ![1] = l]
      BY <2>1 DEF TakeSetting
    <3>2. /\ IsOpt' /\ opt'.path = opt.path /\ opt'.binpath = opt.binpath
          /\ opt'.binpath_line = opt.binpath_line /\ opt'.adp_req_line = opt.adp_req_line
          /\ opt'.proc = v
          /\ opt'.call = IF opt.call = opt.proc THEN v ELSE opt.call
      <4> DEFINE call == IF opt.call = opt.proc THEN v ELSE opt.call
      <4> HIDE DEF call
      <4>1. opt' = [[opt EXCEPT !.proc = v] EXCEPT !.call = call]
        BY <3>1 DEF call
      <4>2. /\ IsOpt' /\ opt'.path = opt.path /\ opt'.binpath = opt.binpath
            /\ opt'.binpath_line = opt.binpath_line /\ opt'.adp_req_line = opt.adp_req_line
            /\ opt'.proc = v /\ opt'.call = call
        BY <4>1 DEF IsOpt
      <4> QED
        BY <4>2 DEF call
    <3>3. ProcName(l) = v
      BY DEF ProcName
    <3> HIDE DEF l
    <3>4. /\ DOMAIN cfg_lines' = DOMAIN cfg_lines /\ cfg_lines'[1] = l
          /\ \A k \in DOMAIN cfg_lines : k # 1 => cfg_lines'[k] = cfg_lines[k]
          /\ cfg_lines' = [k \in DOMAIN cfg_lines |-> cfg_lines'[k]]
      BY <1>3, <3>1, OneLineOf
    <3>5. Len(cfg_lines') = Len(cfg_lines)
      BY <1>3, <3>4, MapLog
    <3>6. \A k \in 2..Len(lines) : cfg_lines'[k] = cfg_lines[k]
      BY <1>3, <1>9, <3>4
    <3>7. b # 0 => cfg_lines'[b] = cfg_lines[b]
      BY <1>2, <1>4, <3>6
    <3> QED
      BY <1>1, <1>2, <3>2, <3>3, <3>4, <3>5, <3>6, <3>7
  <2>2. CASE Item.kind = "game_binpath" /\ b = 0
    <3>1. UNCHANGED <<opt, cfg_lines>>
      BY <2>2 DEF TakeSetting
    <3>2. IsOpt'
      BY <3>1 DEF IsOpt
    <3> QED
      BY <1>1, <1>2, <3>1, <3>2
  <2>3. CASE Item.kind = "game_binpath" /\ b # 0
    <3> DEFINE l == [kind |-> "game_binpath", val |-> v]
    <3>1. opt' = [opt EXCEPT !.binpath = v] /\ cfg_lines' = [cfg_lines EXCEPT ![b] = l]
      BY <2>3 DEF TakeSetting
    <3>2. /\ IsOpt' /\ opt'.path = opt.path /\ opt'.binpath = v
          /\ opt'.binpath_line = opt.binpath_line /\ opt'.adp_req_line = opt.adp_req_line
          /\ opt'.proc = opt.proc /\ opt'.call = opt.call
      BY <3>1 DEF IsOpt
    <3>3. l.kind = "game_binpath" /\ l.val = v
      OBVIOUS
    <3> HIDE DEF l
    <3>4. /\ DOMAIN cfg_lines' = DOMAIN cfg_lines /\ cfg_lines'[b] = l
          /\ \A k \in DOMAIN cfg_lines : k # b => cfg_lines'[k] = cfg_lines[k]
          /\ cfg_lines' = [k \in DOMAIN cfg_lines |-> cfg_lines'[k]]
      <4>1. b \in DOMAIN cfg_lines
        BY <1>3, <1>4, <2>3
      <4> QED
        BY <1>3, <3>1, <4>1, OneLineOf
    <3>5. Len(cfg_lines') = Len(cfg_lines)
      BY <1>3, <3>4, MapLog
    <3>6. \A k \in 2..Len(lines) : cfg_lines'[k] = cfg_lines[k] \/ k = b
      BY <1>3, <1>9, <3>4
    <3>7. cfg_lines'[1] = cfg_lines[1]
      BY <1>3, <1>4, <2>3, <3>4
    <3> QED
      BY <1>1, <1>2, <2>3, <3>2, <3>3, <3>4, <3>5, <3>6, <3>7
  <2>4. Item.kind \in {"proc_name", "game_binpath"}
    BY DEF TakeSetting
  <2> QED
    BY <2>1, <2>2, <2>3, <2>4
<1>6. /\ ReadFile(disk)' = ReadFile(disk) /\ disk'.lines # <<>>
      /\ FromLines(ReadFile(disk))' /\ OptionLines(ReadFile(disk))'
  BY <1>1, <1>2, <1>5, SettledBook DEF lines
<1> QED
  BY <1>5, <1>6 DEF Settled, lines

-----------------------------------------------------------------------------
(* The config in memory, and what lines say.                               *)

\* The names of what the rest of the program sees of a class are its fields.
LEMMA SixFields ==
    ASSUME NEW c
    PROVE  [f \in {"name", "size", "code", "lib", "grow", "consts"} |-> c[f]] =
               [name |-> c.name, size |-> c.size, code |-> c.code, lib |-> c.lib,
                grow |-> c.grow, consts |-> c.consts]
  OBVIOUS

LEMMA ClassShapeFields ==
    ASSUME NEW c
    PROVE  /\ ClassShape(c).name = c.name /\ ClassShape(c).lib = c.lib
           /\ ClassShape(c).grow = c.grow /\ ClassShape(c).consts = c.consts
           /\ ClassShape(c).cfg_line = c.cfg_line
  BY DEF ClassShape

LEMMA ShapeIsEntry ==
    ASSUME NEW e, IsEntry(e), NEW checks
    PROVE  [e EXCEPT !.checks = checks] = WithChecks(e, checks)
  BY DEF IsEntry, WithChecks

LEMMA ConfSaid ==
    ASSUME TakenInv, NEW classes, NEW lines,
           DOMAIN classes = DOMAIN dynmems,
           \A i \in DOMAIN dynmems :
               /\ ClassShape(classes[i]) = ClassShape(dynmems[i])
               /\ classes[i].size = LineSize(lines, classes[i].cfg_line)
               /\ classes[i].code = LineCode(lines, classes[i].cfg_line),
           opt.proc = ProcName(lines[1]), opt.call = CallSaid(lines, Len(lines) + 1),
           opt.path = Said(lines, Len(lines) + 1, "game_path", ""),
           opt.binpath = Said(lines, Len(lines) + 1, "game_binpath", "")
    PROVE  Conf(classes) = ConfOf(Shape, lines)
<1> DEFINE d == [i \in DOMAIN classes |->
                     [f \in {"name", "size", "code", "lib", "grow", "consts"} |->
                         classes[i][f]]]
           c == [i \in DOMAIN cfg |-> [cfg[i] EXCEPT !.checks =
                 [k \in DOMAIN @ |-> Meaningful(@[k])]]]
           e == [i \in DOMAIN Shape.dyn |->
                     [name |-> Shape.dyn[i].name, size |-> LineSize(lines, Shape.dyn[i].cfg_line),
                      code |-> LineCode(lines, Shape.dyn[i].cfg_line), lib |-> Shape.dyn[i].lib,
                      grow |-> Shape.dyn[i].grow, consts |-> Shape.dyn[i].consts]]
<1>1. ASSUME NEW i \in DOMAIN dynmems
      PROVE  d[i] = e[i]
  <2>1. d[i] = [name |-> classes[i].name, size |-> classes[i].size,
                code |-> classes[i].code, lib |-> classes[i].lib,
                grow |-> classes[i].grow, consts |-> classes[i].consts]
    <3>1. d[i] = [f \in {"name", "size", "code", "lib", "grow", "consts"} |-> classes[i][f]]
      OBVIOUS
    <3> QED
      BY <3>1, SixFields
  <2>2. i \in DOMAIN Shape.dyn
    BY ShapeFields
  <2>3. /\ Shape.dyn[i].name = classes[i].name /\ Shape.dyn[i].lib = classes[i].lib
        /\ Shape.dyn[i].grow = classes[i].grow /\ Shape.dyn[i].consts = classes[i].consts
        /\ Shape.dyn[i].cfg_line = classes[i].cfg_line
    <3>1. Shape.dyn[i] = ClassShape(classes[i])
      BY ShapeFields
    <3> HIDE DEF d, c, e
    <3> QED
      BY <3>1, ClassShapeFields
  <2>4. e[i] = [name |-> Shape.dyn[i].name, size |-> LineSize(lines, Shape.dyn[i].cfg_line),
                code |-> LineCode(lines, Shape.dyn[i].cfg_line), lib |-> Shape.dyn[i].lib,
                grow |-> Shape.dyn[i].grow, consts |-> Shape.dyn[i].consts]
    BY <2>2
  <2> HIDE DEF d, e
  <2> QED
    BY <2>1, <2>3, <2>4
<1>2. d = [i \in DOMAIN dynmems |-> d[i]]
  OBVIOUS
<1>3. e = [i \in DOMAIN dynmems |-> e[i]]
  BY ShapeFields
<1>4. c = Shape.cfg
  <2>1. ASSUME NEW i \in DOMAIN cfg
        PROVE  c[i] = EntryShape(cfg[i])
    <3> DEFINE checks == [k \in DOMAIN cfg[i].checks |-> Meaningful(cfg[i].checks[k])]
    <3>1. c[i] = [cfg[i] EXCEPT !.checks = checks]
      OBVIOUS
    <3>2. IsEntry(cfg[i])
      BY DEF TakenInv, HomesInv, EntriesOK, EntryOK
    <3>3. EntryShape(cfg[i]) = WithChecks(cfg[i], checks)
      BY DEF EntryShape
    <3> HIDE DEF checks, c
    <3> QED
      BY <3>1, <3>2, <3>3, ShapeIsEntry
  <2>2. c = [i \in DOMAIN cfg |-> c[i]]
    OBVIOUS
  <2>3. Shape.cfg = [i \in DOMAIN cfg |-> EntryShape(cfg[i])]
    BY DEF Shape
  <2> HIDE DEF c
  <2> QED
    BY <2>1, <2>2, <2>3
<1>5. Conf(classes) = [dynmems |-> d, ptrmems |-> ptrmems, cfg |-> c, proc |-> opt.proc,
                       call |-> opt.call, path |-> opt.path, binpath |-> opt.binpath]
  BY DEF Conf
<1>6. ConfOf(Shape, lines) =
          [dynmems |-> e, ptrmems |-> Shape.ptr, cfg |-> Shape.cfg,
           proc |-> ProcName(lines[1]), call |-> CallSaid(lines, Len(lines) + 1),
           path |-> Said(lines, Len(lines) + 1, "game_path", ""),
           binpath |-> Said(lines, Len(lines) + 1, "game_binpath", "")]
  BY DEF ConfOf
<1> HIDE DEF d, c, e
<1>7. d = e
  BY <1>1, <1>2, <1>3
<1> QED
  BY <1>4, <1>5, <1>6, <1>7, ShapeFields

LEMMA BuiltConf ==
    ASSUME TakenInv, ReadSoFar, lnr = Len(cfg_lines) + 1
    PROVE  Conf(dynmems) = ConfOf(Shape, cfg_lines)
<1>1. \A i \in DOMAIN dynmems :
          /\ ClassShape(dynmems[i]) = ClassShape(dynmems[i])
          /\ dynmems[i].size = LineSize(cfg_lines, dynmems[i].cfg_line)
          /\ dynmems[i].code = LineCode(cfg_lines, dynmems[i].cfg_line)
  BY DEF ReadSoFar, FromLines
<1>2. /\ opt.proc = ProcName(cfg_lines[1])
      /\ opt.call = CallSaid(cfg_lines, Len(cfg_lines) + 1)
      /\ opt.path = Said(cfg_lines, Len(cfg_lines) + 1, "game_path", "")
      /\ opt.binpath = Said(cfg_lines, Len(cfg_lines) + 1, "game_binpath", "")
  BY DEF ReadSoFar, OptionLines
<1> QED
  BY <1>1, <1>2, ConfSaid

-----------------------------------------------------------------------------
(* The next start.                                                         *)

LEMMA AlikeRead ==
    ASSUME NEW l, NEW m, Alike(l, m), NEW s, NEW k
    PROVE  /\ Fits(s, l) => Fits(s, m)
           /\ ~Hangs(s, l) => ~Hangs(s, m)
           /\ After(s, m, k) = After(s, l, k)
<1>1. CASE l = m
  BY <1>1
<1>2. CASE /\ l.kind = "dynmemstart" /\ m.kind = "dynmemstart"
           /\ l.name = m.name /\ l.lib = m.lib
  <2>1. BegunClass(l, k) = BegunClass(m, k)
    BY <1>2 DEF BegunClass
  <2>2. /\ Fits(s, l) => Fits(s, m)
        /\ ~Hangs(s, m)
    BY <1>2 DEF Fits, Hangs
  <2>3. /\ Begun(s, l) /\ Begun(s, m) /\ DynAfter(s, l, k) = DynAfter(s, m, k)
        /\ PtrAfter(s, l) = PtrAfter(s, m) /\ CfgAfter(s, l) = CfgAfter(s, m)
    BY <1>2, <2>1 DEF Begun, DynAfter, PtrAfter, CfgAfter
  <2> QED
    BY <1>2, <2>2, <2>3 DEF After
<1>3. CASE l.kind = m.kind /\ l.kind \in {"game_binpath", "adapt_required"}
  <2>2. /\ Fits(s, l) => Fits(s, m)
        /\ ~Hangs(s, m)
    BY <1>3 DEF Fits, Hangs
  <2>3. /\ ~Begun(s, l) /\ ~Begun(s, m) /\ DynAfter(s, l, k) = DynAfter(s, m, k)
        /\ PtrAfter(s, l) = PtrAfter(s, m) /\ CfgAfter(s, l) = CfgAfter(s, m)
    BY <1>3 DEF Begun, DynAfter, PtrAfter, CfgAfter
  <2> QED
    BY <1>3, <2>2, <2>3 DEF After
<1> QED
  BY <1>1, <1>2, <1>3 DEF Alike

\* The line that is read next fits the shape that has been read.
LEMMA NextLineFits ==
    ASSUME NEW h, NEW old, NEW new, Written(h, old, new), Len(old) \in Nat,
           NEW k \in 2..Len(new)
    PROVE  /\ Fits(h[k], new[k]) /\ ~Hangs(h[k], new[k])
           /\ h[k + 1] = After(h[k], new[k], k)
<1>1. Alike(old[k], new[k]) /\ Len(new) = Len(old) /\ Chain(h, old, Len(old) + 1)
  BY DEF Written
<1>2. k \in 2..(Len(old) + 1 - 1)
  BY <1>1
<1>3. /\ Fits(h[k], old[k]) /\ ~Hangs(h[k], old[k])
      /\ h[k + 1] = After(h[k], old[k], k)
  BY <1>1, <1>2 DEF Chain
<1> QED
  BY <1>1, <1>3, AlikeRead

LEMMA NextLineAccepted ==
    ASSUME TakenInv, ReadSoFar, Reading, NEW h, NEW old,
           Written(h, old, ReadFile(disk)), Shape = h[lnr]
    PROVE  ~Dangling(Line) /\ Accepted(Line)
<1>1. /\ cfg_lines = ReadFile(disk) /\ Line = cfg_lines[lnr]
      /\ lnr \in 2..Len(cfg_lines) /\ Len(cfg_lines) \in Nat
  <2>1. lnr \in Nat /\ Len(cfg_lines) \in Nat
    BY ClassFields
  <2>2. lnr > 1 /\ lnr <= Len(cfg_lines)
    BY DEF Reading, TakenInv, Phases
  <2>3. lnr \in 2..Len(cfg_lines)
    BY <2>1, <2>2
  <2>4. cfg_lines = ReadFile(disk)
    BY DEF ReadSoFar
  <2> QED
    BY <2>1, <2>3, <2>4 DEF Line
<1>2. Len(old) = Len(cfg_lines)
  BY <1>1 DEF Written
<1>3. Fits(Shape, Line) /\ ~Hangs(Shape, Line)
  BY <1>1, <1>2, NextLineFits
<1>4. ~Dangling(Line)
  BY <1>3, SameDangling
<1>5. Line.kind = "check" => cfg # <<>>
  BY <1>3, <1>4 DEF Fits, FitsCheck, Dangling, Shape
<1>6. OptionFits(Line)
  <2>1. /\ Line.kind = "game_binpath" => Line.val = ProcName(cfg_lines[1])
        /\ Line.kind = "game_path" => Line.val = CallSaid(cfg_lines, lnr)
    BY <1>1 DEF Written
  <2> QED
    BY <2>1 DEF ReadSoFar, OptionFits
<1> QED
  BY <1>3, <1>4, <1>5, <1>6, SameAccepted

LEMMA ReadsReplayed ==
    ASSUME TakenInv, ReadSoFar, Reads, NEW h, NEW old,
           Written(h, old, ReadFile(disk)), Shape = h[lnr]
    PROVE  Shape' = h[lnr + 1]
<1>1. /\ cfg_lines = ReadFile(disk) /\ Line = cfg_lines[lnr]
      /\ lnr \in 2..Len(cfg_lines) /\ Len(cfg_lines) \in Nat
  BY ReadsPlace DEF ReadSoFar
<1>2. Len(old) = Len(cfg_lines)
  BY <1>1 DEF Written
<1>3. h[lnr + 1] = After(h[lnr], cfg_lines[lnr], lnr)
  BY <1>1, <1>2, NextLineFits
<1> QED
  BY <1>1, <1>3, ReadsShape

LEMMA RereadIsSame ==
    ASSUME RereadInv
    PROVE  RereadSame
<1> SUFFICES ASSUME run = 2
             PROVE  /\ status \notin {"failed", "undefined"}
                    /\ status = "built" => /\ Conf(dynmems) = kept.conf
                                           /\ ~opt.adp_required
  BY DEF RereadSame
<1>1. kept.sound /\ status \in {"read", "built", "ready"}
  BY DEF RereadInv
<1>2. ASSUME status = "built"
      PROVE  Conf(dynmems) = kept.conf /\ ~opt.adp_required
  <2>1. TakenInv /\ ReadSoFar /\ lnr = Len(cfg_lines) + 1 /\ opt.adp_required = FALSE /\ Replayed
    BY <1>1, <1>2 DEF RereadInv
  <2>2. Conf(dynmems) = ConfOf(Shape, cfg_lines) /\ cfg_lines = ReadFile(disk)
    BY <2>1, BuiltConf DEF ReadSoFar
  <2>3. PICK h, old : Written(h, old, ReadFile(disk)) /\ Shape = h[lnr]
    BY <1>2, <2>1 DEF Replayed
  <2>4. kept.conf = ConfOf(h[Len(cfg_lines) + 1], cfg_lines)
    BY <2>2, <2>3 DEF Written
  <2> QED
    BY <2>1, <2>2, <2>3, <2>4
<1> QED
  BY <1>1, <1>2

-----------------------------------------------------------------------------
(* The file that is written back.                                          *)

\* The classes are taken over, and the file can express it.
WritesBack ==
    /\ TakenInv /\ Settled /\ lnr = Len(cfg_lines) + 1 /\ ~InScope
    /\ TakeOver /\ Expressible

\* The classes keep everything but sizes and code addresses.
LEMMA AdaptedClasses ==
    ASSUME TakenInv, TakeOver
    PROVE  /\ DOMAIN dynmems' = DOMAIN dynmems
           /\ \A i \in DOMAIN dynmems :
                  /\ ClassShape(dynmems'[i]) = ClassShape(dynmems[i])
                  /\ dynmems'[i].cfg_line = dynmems[i].cfg_line
                  /\ dynmems'[i].name = dynmems[i].name
                  /\ i \notin Listed => dynmems'[i] = dynmems[i]
<1>1. dynmems' = Adapted
  BY DEF TakeOver
<1>2. DOMAIN dynmems' = DOMAIN dynmems
  BY <1>1 DEF Adapted
<1>3. ASSUME NEW i \in DOMAIN dynmems
      PROVE  /\ ClassShape(dynmems'[i]) = ClassShape(dynmems[i])
             /\ dynmems'[i].cfg_line = dynmems[i].cfg_line
             /\ dynmems'[i].name = dynmems[i].name
             /\ i \notin Listed => dynmems'[i] = dynmems[i]
  <2>1. IsClass(dynmems[i])
    BY DEF TakenInv, ClassesOK
  <2>2. dynmems'[i] = IF i \notin Listed THEN dynmems[i]
                      ELSE [dynmems[i] EXCEPT !.size = dynmems[i].adp_size,
                                              !.code = dynmems[i].adp_addr]
    BY <1>1 DEF Adapted
  <2>3. CASE i \notin Listed
    BY <2>2, <2>3
  <2>4. CASE i \in Listed
    <3>1. dynmems'[i] = [[dynmems[i] EXCEPT !.size = dynmems[i].adp_size]
                                     EXCEPT !.code = dynmems[i].adp_addr]
      BY <2>2, <2>4
    <3>2. /\ dynmems'[i].name = dynmems[i].name /\ dynmems'[i].lib = dynmems[i].lib
          /\ dynmems'[i].grow = dynmems[i].grow /\ dynmems'[i].consts = dynmems[i].consts
          /\ dynmems'[i].cfg_line = dynmems[i].cfg_line
      BY <2>1, <3>1 DEF IsClass
    <3> QED
      BY <2>4, <3>2 DEF ClassShape
  <2> QED
    BY <2>3, <2>4
<1> QED
  BY <1>2, <1>3

\* The new file has the lines that have been written, and an empty last line.
LEMMA NewFile ==
    ASSUME WritesBack
    PROVE  /\ Len(cfg_lines) \in Nat /\ Len(cfg_lines) >= 2
           /\ DOMAIN cfg_lines = 1..Len(cfg_lines)
           /\ Len(ReadFile(disk)) = Len(cfg_lines) /\ Len(ReadFile(disk')) = Len(cfg_lines)
           /\ ReadFile(disk)[Len(cfg_lines)] = [kind |-> "skip"]
           /\ ReadFile(disk')[Len(cfg_lines)] = [kind |-> "skip"]
           /\ Len(disk.lines) = Len(cfg_lines) - 1
           /\ \A k \in 1..(Len(cfg_lines) - 1) :
                  /\ ReadFile(disk)[k] = disk.lines[k]
                  /\ ReadFile(disk')[k] = AdaptedLines(dynmems')[k]
           /\ disk'.lines # <<>>
<1> DEFINE n == Len(cfg_lines)
           t == AdaptedLines(dynmems')
           w == SubSeq(t, 1, n - 1)
<1>1. /\ TakenInv /\ disk.lines # <<>> /\ Len(cfg_lines) = Len(ReadFile(disk))
      /\ disk.ended /\ disk' = [lines |-> w, ended |-> TRUE]
  BY DEF WritesBack, Settled, Expressible, TakeOver
<1>2. LinesOK(disk.lines) /\ LinesOK(cfg_lines) /\ IsLog(cfg_lines)
  BY <1>1 DEF TakenInv, HomesInv, Typed, LinesOK
<1>3. /\ Len(disk.lines) \in Nat \ {0} /\ n = Len(disk.lines) + 1
      /\ \A k \in DOMAIN disk.lines : ReadFile(disk)[k] = disk.lines[k]
      /\ ReadFile(disk)[Len(disk.lines) + 1] = [kind |-> "skip"]
      /\ DOMAIN disk.lines = 1..Len(disk.lines)
  <2>1. /\ Len(disk.lines) \in Nat \ {0} /\ Len(ReadFile(disk)) = Len(disk.lines) + 1
        /\ \A k \in DOMAIN disk.lines : ReadFile(disk)[k] = disk.lines[k]
        /\ ReadFile(disk)[Len(disk.lines) + 1] = [kind |-> "skip"]
        /\ DOMAIN disk.lines = 1..Len(disk.lines)
    BY <1>1, <1>2, FileLines
  <2> QED
    BY <1>1, <2>1
<1>4. n \in Nat /\ n >= 2 /\ Len(disk.lines) = n - 1
  BY <1>3
<1>5. DOMAIN cfg_lines = 1..n
  BY <1>2, LogFacts
<1>6. LinesOK(t) /\ DOMAIN t = 1..n /\ t = [k \in DOMAIN t |-> t[k]]
  <2>1. LinesOK(t)
    BY <1>2, AdaptedLinesOK
  <2> QED
    BY <1>5, <2>1 DEF AdaptedLines
<1> HIDE DEF t
<1>7. Len(t) = n
  BY <1>4, <1>6, LogFacts DEF LinesOK
<1>8. LinesOK(w) /\ Len(w) = n - 1 /\ DOMAIN w = 1..(n - 1)
      /\ \A k \in 1..(n - 1) : w[k] = t[k]
  <2>1. LinesOK(w)
    BY <1>6, <1>7, WrittenOK
  <2>2. t \in Seq({t[k] : k \in DOMAIN t})
    BY <1>6 DEF LinesOK, IsLog
  <2>3. n - 1 \in Nat /\ 1..(n - 1) \subseteq 1..n
    BY <1>4
  <2>4. w = [k \in 1..(n - 1) |-> t[k]]
    BY <1>4, <1>7, <2>2, <2>3
  <2>5. Len(w) \in Nat /\ DOMAIN w = 1..Len(w)
    BY <2>1, LogFacts DEF LinesOK
  <2>6. DOMAIN w = 1..(n - 1)
    BY <2>4
  <2> HIDE DEF w
  <2> QED
    BY <2>1, <2>3, <2>4, <2>5, <2>6
<1> HIDE DEF w
<1>9. disk'.lines = w /\ disk'.ended
  BY <1>1
<1>10. w # <<>>
  BY <1>4, <1>8, LogFacts DEF LinesOK
<1>11. /\ Len(ReadFile(disk')) = n
       /\ \A k \in 1..(n - 1) : ReadFile(disk')[k] = t[k]
       /\ ReadFile(disk')[n] = [kind |-> "skip"]
  <2>1. /\ Len(ReadFile(disk')) = Len(w) + 1
        /\ \A k \in DOMAIN w : ReadFile(disk')[k] = w[k]
        /\ ReadFile(disk')[Len(w) + 1] = [kind |-> "skip"]
    BY <1>8, <1>9, <1>10, FileLines
  <2> QED
    BY <1>4, <1>8, <2>1
<1> QED
  BY <1>1, <1>3, <1>4, <1>5, <1>9, <1>10, <1>11 DEF t

\* The lines of the options, before and behind adaptation.
LEMMA OptionLine ==
    ASSUME WritesBack
    PROVE  /\ opt.adp_req_line # 0 =>
                  /\ opt.adp_req_line \in 2..(Len(cfg_lines) - 1)
                  /\ ReadFile(disk)[opt.adp_req_line].kind = "adapt_required"
           /\ opt.binpath_line # 0 =>
                  /\ opt.binpath_line \in 2..(Len(cfg_lines) - 1)
                  /\ ReadFile(disk)[opt.binpath_line].kind = "game_binpath"
                  /\ cfg_lines[opt.binpath_line].kind = "game_binpath"
                  /\ cfg_lines[opt.binpath_line].val = opt.binpath
                  /\ opt.binpath = opt.proc
<1> DEFINE n == Len(cfg_lines)
           old == ReadFile(disk)
<1>1. n \in Nat /\ n >= 2 /\ old[n] = [kind |-> "skip"]
  BY NewFile
<1>2. /\ lnr = n + 1
      /\ opt.binpath_line = SaidAt(old, lnr, "game_binpath")
      /\ opt.adp_req_line = SaidAt(old, lnr, "adapt_required")
  BY DEF WritesBack, Settled, OptionLines
<1>3. opt.binpath_line # 0 => /\ cfg_lines[opt.binpath_line].kind = "game_binpath"
                              /\ cfg_lines[opt.binpath_line].val = opt.binpath
                              /\ opt.binpath = opt.proc
  BY DEF WritesBack, Settled, Expressible
<1> HIDE DEF n, old
<1>4. old[n].kind = "skip"
  BY <1>1
<1>5. ASSUME NEW kind \in {"adapt_required", "game_binpath"}, NEW k,
             k = SaidAt(old, lnr, kind), k # 0
      PROVE  k \in 2..(n - 1) /\ old[k].kind = kind
  <2>1. k \in 2..(lnr - 1) /\ old[k].kind = kind
    <3>1. lnr \in Nat
      BY <1>1, <1>2
    <3> QED
      BY <1>5, <3>1, OptionAt
  <2>2. k # n
    BY <1>4, <1>5, <2>1
  <2> QED
    BY <1>1, <1>2, <2>1, <2>2
<1> QED
  BY <1>2, <1>3, <1>5 DEF n, old

\* No other class has the line of a class with entries.
LEMMA OwnLine ==
    ASSUME WritesBack, NEW i \in Listed, NEW j \in DOMAIN dynmems,
           dynmems[j].cfg_line = dynmems[i].cfg_line
    PROVE  i = j
<1>1. TakenInv
  BY DEF WritesBack
<1>2. i \in DOMAIN dynmems
  <2>1. /\ \A k \in DOMAIN cfg : cfg[k].dynmem \in 0..Len(dynmems)
        /\ DOMAIN dynmems = 1..Len(dynmems) /\ Len(dynmems) \in Nat
    BY <1>1, ClassFields DEF TakenInv, ClassesOK
  <2> QED
    BY <2>1 DEF Listed
<1>3. dynmems[i].cfg_line # 1
  BY DEF WritesBack, Expressible
<1>4. ClassLines
  BY <1>1 DEF TakenInv
<1> QED
  BY <1>2, <1>3, <1>4 DEF ClassLines

\* The line of a class that has entries.
LEMMA ClassLine ==
    ASSUME WritesBack, NEW i \in Listed, NEW k, k = dynmems[i].cfg_line
    PROVE  /\ i \in DOMAIN dynmems /\ k \in 2..(Len(cfg_lines) - 1)
           /\ ReadFile(disk)[k].kind = "dynmemstart"
           /\ ReadFile(disk)[k].name = dynmems[i].name /\ ReadFile(disk)[k].lib = ""
           /\ k # opt.adp_req_line
           /\ ReadFile(disk')[k] = StartLine(dynmems'[i])
           /\ \A j \in DOMAIN dynmems : dynmems[j].cfg_line = k => j = i
<1> DEFINE n == Len(cfg_lines)
           old == ReadFile(disk)
           here == {j \in Listed : dynmems'[j].cfg_line = k}
<1>1. TakenInv /\ TakeOver /\ Settled /\ ~InScope
  BY DEF WritesBack
<1>2. /\ Listed \subseteq DOMAIN dynmems /\ i \in DOMAIN dynmems /\ i \in Nat
      /\ Len(dynmems) \in Nat
  <2>1. \A j \in DOMAIN cfg : cfg[j].dynmem \in 0..Len(dynmems)
    BY <1>1 DEF TakenInv, ClassesOK
  <2> QED
    BY <1>1, <2>1, ClassFields DEF Listed
<1>3. k # 1 /\ dynmems[i].lib = ""
  BY DEF WritesBack, Expressible
<1>4. k < n /\ \A j \in DOMAIN dynmems : dynmems[j].cfg_line = k => j = i
  <2>1. i # dynmem_enp
    BY <1>1, <1>2 DEF InScope
  <2>2. ClassLines
    BY <1>1 DEF TakenInv
  <2> QED
    BY <1>2, <1>3, <2>1, <2>2 DEF ClassLines
<1>5. k \in 2..(n - 1)
  <2>1. k \in Nat \ {0}
    BY <1>1, <1>2 DEF TakenInv, ClassesOK, IsClass
  <2>2. n \in Nat
    BY NewFile
  <2>3. k # 1 /\ k < n
    BY <1>3, <1>4
  <2> HIDE DEF n
  <2> QED
    BY <2>1, <2>2, <2>3
<1>6. old[k].kind = "dynmemstart" /\ old[k].name = dynmems[i].name /\ old[k].lib = ""
  <2>1. FromLines(old)
    BY <1>1 DEF Settled
  <2> QED
    BY <1>2, <1>3, <2>1 DEF FromLines
<1>7. k # opt.adp_req_line
  <2>1. opt.adp_req_line # 0 => old[opt.adp_req_line].kind = "adapt_required"
    BY OptionLine
  <2>2. k # 0
    BY <1>5
  <2> HIDE DEF old
  <2> QED
    BY <1>6, <2>1, <2>2
<1>8. here = {i}
  <2>1. \A j \in Listed : dynmems'[j].cfg_line = dynmems[j].cfg_line
    BY <1>1, <1>2, AdaptedClasses
  <2> QED
    BY <1>2, <1>4, <2>1
<1>9. LargestOf({i}) = i
  BY <1>2 DEF LargestOf
<1>10. ReadFile(disk')[k] = StartLine(dynmems'[i])
  <2>1. ReadFile(disk')[k] = AdaptedLines(dynmems')[k] /\ k \in DOMAIN cfg_lines
    <3>1. /\ n \in Nat /\ DOMAIN cfg_lines = 1..n
          /\ \A j \in 1..(n - 1) : ReadFile(disk')[j] = AdaptedLines(dynmems')[j]
      BY NewFile
    <3>2. k \in 1..(n - 1) /\ k \in 1..n
      BY <1>5, <3>1
    <3> QED
      BY <3>1, <3>2
  <2>2. AdaptedLines(dynmems')[k] =
            IF k = opt.adp_req_line THEN [kind |-> "adapt_required", val |-> FALSE]
            ELSE IF here # {} THEN StartLine(dynmems'[LargestOf(here)])
            ELSE cfg_lines[k]
    BY <2>1 DEF AdaptedLines
  <2> HIDE DEF here
  <2> QED
    BY <1>7, <1>8, <1>9, <2>1, <2>2
<1> QED
  BY <1>2, <1>4, <1>5, <1>6, <1>7, <1>10

\* What becomes of a line.
NewLine(k, l, m) ==
    \/ /\ k = opt.adp_req_line
       /\ l.kind = "adapt_required" /\ m = [kind |-> "adapt_required", val |-> FALSE]
    \/ /\ l.kind = "dynmemstart" /\ m.kind = "dynmemstart"
       /\ l.name = m.name /\ l.lib = m.lib
       /\ k \in {dynmems[i].cfg_line : i \in Listed}
    \/ /\ k = opt.binpath_line
       /\ l.kind = "game_binpath" /\ m.kind = "game_binpath" /\ m.val = opt.binpath
    \/ l = m /\ k # opt.adp_req_line /\ k # opt.binpath_line

LEMMA StartLineFields ==
    ASSUME NEW c
    PROVE  /\ StartLine(c).kind = "dynmemstart" /\ StartLine(c).name = c.name
           /\ StartLine(c).lib = "" /\ StartLine(c).size = c.size
           /\ StartLine(c).code = c.code
  BY DEF StartLine

LEMMA NewLines ==
    ASSUME WritesBack, NEW k \in 2..Len(cfg_lines)
    PROVE  NewLine(k, ReadFile(disk)[k], ReadFile(disk')[k])
<1> DEFINE n == Len(cfg_lines)
           old == ReadFile(disk)
           new == ReadFile(disk')
           here == {j \in Listed : dynmems'[j].cfg_line = k}
<1>1. /\ n \in Nat /\ n >= 2 /\ DOMAIN cfg_lines = 1..n /\ Len(old) = n
      /\ old[n] = [kind |-> "skip"] /\ new[n] = [kind |-> "skip"]
      /\ \A j \in 1..(n - 1) : new[j] = AdaptedLines(dynmems')[j]
  BY NewFile
<1>2. ASSUME NEW j \in Listed
      PROVE  dynmems'[j].cfg_line = dynmems[j].cfg_line /\ dynmems'[j].name = dynmems[j].name
  <2>1. TakenInv /\ TakeOver
    BY DEF WritesBack
  <2>2. j \in DOMAIN dynmems
    BY ClassLine
  <2> QED
    BY <2>1, <2>2, AdaptedClasses
<1>3. old[k] = cfg_lines[k] \/ k = opt.binpath_line
  BY <1>1 DEF WritesBack, Settled
<1> HIDE DEF old, new
<1>4. ASSUME k = n
      PROVE  NewLine(k, old[k], new[k])
  <2>1. k # opt.adp_req_line /\ k # opt.binpath_line
    <3>1. /\ opt.adp_req_line # 0 => opt.adp_req_line \in 2..(n - 1)
          /\ opt.binpath_line # 0 => opt.binpath_line \in 2..(n - 1)
      BY OptionLine
    <3> HIDE DEF n
    <3> QED
      BY <1>1, <1>4, <3>1
  <2>2. old[k] = new[k]
    BY <1>1, <1>4
  <2> QED
    BY <2>1, <2>2 DEF NewLine
<1>5. ASSUME k \in 2..(n - 1)
      PROVE  NewLine(k, old[k], new[k])
  <2>1. k \in 1..(n - 1) /\ k \in DOMAIN cfg_lines /\ k # 0
    BY <1>1, <1>5
  <2>2. new[k] = IF k = opt.adp_req_line THEN [kind |-> "adapt_required", val |-> FALSE]
                 ELSE IF here # {} THEN StartLine(dynmems'[LargestOf(here)])
                 ELSE cfg_lines[k]
    BY <1>1, <2>1 DEF AdaptedLines
  <2> HIDE DEF here
  <2>3. CASE k = opt.adp_req_line
    <3>1. old[k].kind = "adapt_required"
      BY <2>1, <2>3, OptionLine DEF old
    <3> QED
      BY <2>2, <2>3, <3>1 DEF NewLine
  <2>4. CASE \E i \in Listed : k = dynmems[i].cfg_line
    <3>1. PICK i \in Listed : k = dynmems[i].cfg_line
      BY <2>4
    <3>2. /\ old[k].kind = "dynmemstart" /\ old[k].name = dynmems[i].name /\ old[k].lib = ""
          /\ new[k] = StartLine(dynmems'[i])
      <4>1. ReadFile(disk)[k].kind = "dynmemstart"
        BY <3>1, ClassLine
      <4>2. ReadFile(disk)[k].name = dynmems[i].name
        BY <3>1, ClassLine
      <4>3. ReadFile(disk)[k].lib = ""
        BY <3>1, ClassLine
      <4>4. ReadFile(disk')[k] = StartLine(dynmems'[i])
        BY <3>1, ClassLine
      <4> QED
        BY <4>1, <4>2, <4>3, <4>4 DEF old, new
    <3>3. /\ new[k].kind = "dynmemstart" /\ new[k].name = dynmems[i].name /\ new[k].lib = ""
      <4>1. new[k].kind = "dynmemstart" /\ new[k].lib = ""
        BY <3>2, StartLineFields
      <4>2. new[k].name = dynmems'[i].name
        BY <3>2, StartLineFields
      <4> QED
        BY <1>2, <4>1, <4>2
    <3>4. k \in {dynmems[j].cfg_line : j \in Listed}
      BY <3>1
    <3> QED
      BY <3>2, <3>3, <3>4 DEF NewLine
  <2>5. CASE k # opt.adp_req_line /\ ~ \E i \in Listed : k = dynmems[i].cfg_line
    <3>1. here = {}
      BY <1>2, <2>5 DEF here
    <3>2. new[k] = cfg_lines[k]
      BY <2>2, <2>5, <3>1
    <3>3. CASE k = opt.binpath_line
      <4>1. /\ old[k].kind = "game_binpath" /\ cfg_lines[k].kind = "game_binpath"
            /\ cfg_lines[k].val = opt.binpath
        BY <2>1, <3>3, OptionLine DEF old
      <4> QED
        BY <3>2, <3>3, <4>1 DEF NewLine
    <3>4. CASE k # opt.binpath_line
      <4> QED
        BY <1>3, <2>5, <3>2, <3>4 DEF NewLine
    <3> QED
      BY <3>3, <3>4
  <2> QED
    BY <2>3, <2>4, <2>5
<1> QED
  <2>1. n \in Nat /\ k \in 2..n
    BY <1>1
  <2>2. k = n \/ k \in 2..(n - 1)
    BY <2>1
  <2> QED
    BY <1>4, <1>5, <2>2 DEF old, new

\* Lines of the same kinds, with the same lines of one kind, say the same of it.
LEMMA SameSaid ==
    ASSUME NEW old, NEW new, NEW n \in Nat, NEW kind,
           \A k \in 2..(n - 1) : new[k].kind = old[k].kind
    PROVE  /\ Saying(new, n, kind) = Saying(old, n, kind)
           /\ SaidAt(new, n, kind) = SaidAt(old, n, kind)
<1>1. Saying(new, n, kind) = Saying(old, n, kind)
  BY DEF Saying
<1> QED
  BY <1>1 DEF SaidAt

LEMMA SameVals ==
    ASSUME NEW old, NEW new, NEW n \in Nat, NEW kind,
           \A k \in 2..(n - 1) : new[k].kind = old[k].kind,
           \A k \in 2..(n - 1) : old[k].kind = kind => new[k] = old[k], NEW none
    PROVE  Said(new, n, kind, none) = Said(old, n, kind, none)
<1>1. /\ Saying(new, n, kind) = Saying(old, n, kind)
      /\ SaidAt(new, n, kind) = SaidAt(old, n, kind)
  BY SameSaid
<1>2. CASE Saying(old, n, kind) = {}
  BY <1>1, <1>2 DEF Said
<1>3. CASE Saying(old, n, kind) # {}
  <2>1. SaidAt(old, n, kind) \in Saying(old, n, kind)
    BY <1>3, SaidFound
  <2>2. new[SaidAt(old, n, kind)] = old[SaidAt(old, n, kind)]
    BY <2>1 DEF Saying
  <2> QED
    BY <1>1, <1>3, <2>2 DEF Said
<1> QED
  BY <1>2, <1>3

LEMMA NewKinds ==
    ASSUME WritesBack, NEW k \in 2..Len(cfg_lines), NEW l, NEW m,
           l = ReadFile(disk)[k], m = ReadFile(disk')[k]
    PROVE  /\ Alike(l, m) /\ m.kind = l.kind
           /\ l.kind \notin {"dynmemstart", "game_binpath", "adapt_required"} => m = l
<1>1. NewLine(k, l, m)
  BY NewLines
<1>2. CASE /\ k = opt.adp_req_line
           /\ l.kind = "adapt_required" /\ m = [kind |-> "adapt_required", val |-> FALSE]
  <2>1. m.kind = "adapt_required"
    BY <1>2
  <2> QED
    BY <1>2, <2>1 DEF Alike
<1>3. CASE ~(k = opt.adp_req_line /\ l.kind = "adapt_required")
  BY <1>1, <1>3 DEF NewLine, Alike
<1> QED
  BY <1>1, <1>2, <1>3 DEF NewLine

\* The first line has the process name.
LEMMA NewName ==
    ASSUME WritesBack
    PROVE  ProcName(ReadFile(disk')[1]) = opt.proc
<1>1. Len(cfg_lines) \in Nat /\ Len(cfg_lines) >= 2 /\ DOMAIN cfg_lines = 1..Len(cfg_lines)
  BY NewFile
<1>2. ReadFile(disk')[1] = AdaptedLines(dynmems')[1]
  <2>1. 1 \in 1..(Len(cfg_lines) - 1)
    BY <1>1
  <2> QED
    BY <2>1, NewFile
<1>3. opt.adp_req_line # 1
  BY <1>1, OptionLine
<1>4. \A i \in Listed : dynmems'[i].cfg_line # 1
  <2>1. ASSUME NEW i \in Listed
        PROVE  dynmems'[i].cfg_line # 1
    <3>1. i \in DOMAIN dynmems
      BY ClassLine
    <3>2. dynmems[i].cfg_line # 1
      BY DEF WritesBack, Expressible
    <3> QED
      BY <3>1, <3>2, AdaptedClasses DEF WritesBack
  <2> QED
    BY <2>1
<1>5. AdaptedLines(dynmems')[1] = cfg_lines[1]
  <2> DEFINE here == {i \in Listed : dynmems'[i].cfg_line = 1}
  <2>1. here = {}
    BY <1>4
  <2>2. 1 \in DOMAIN cfg_lines
    BY <1>1
  <2>3. AdaptedLines(dynmems')[1] =
            IF 1 = opt.adp_req_line THEN [kind |-> "adapt_required", val |-> FALSE]
            ELSE IF here # {} THEN StartLine(dynmems'[LargestOf(here)])
            ELSE cfg_lines[1]
    BY <2>2 DEF AdaptedLines
  <2> HIDE DEF here
  <2> QED
    BY <1>3, <2>1, <2>3
<1> QED
  BY <1>2, <1>5 DEF WritesBack, Settled

\* Lines that refer to the process name: with a new one there are none but the
\* line of the binary.
LEMMA NewVals ==
    ASSUME WritesBack, NEW k \in 2..Len(cfg_lines)
    PROVE  /\ ReadFile(disk')[k].kind = "adapt_required" => ReadFile(disk')[k].val = FALSE
           /\ ReadFile(disk')[k].kind = "game_binpath" => ReadFile(disk')[k].val = opt.proc
           /\ ReadFile(disk')[k].kind = "game_path" =>
                  opt.proc = ProcName(ReadFile(disk)[1])
<1> DEFINE n == Len(cfg_lines)
           old == ReadFile(disk)
           new == ReadFile(disk')
<1>1. /\ n \in Nat /\ n >= 2 /\ Len(disk.lines) = n - 1
      /\ old[n] = [kind |-> "skip"]
      /\ \A j \in 1..(n - 1) : old[j] = disk.lines[j]
  BY NewFile
<1>2. NewLine(k, old[k], new[k]) /\ new[k].kind = old[k].kind
      /\ (old[k].kind = "game_path" => new[k] = old[k])
  BY NewLines, NewKinds
<1>3. /\ opt.proc # ProcName(disk.lines[1]) =>
             \A j \in 2..Len(disk.lines) :
               /\ disk.lines[j].kind \notin {"game_path", "game_call"}
               /\ disk.lines[j].kind = "game_binpath" => j = opt.binpath_line
      /\ \A j \in 2..Len(disk.lines) :
             disk.lines[j].kind = "adapt_required" => j = opt.adp_req_line
      /\ opt.binpath_line # 0 => opt.binpath = opt.proc
      /\ lnr = n + 1
  BY DEF WritesBack, Expressible
<1>4. \A j \in 2..(lnr - 1) : old[j].kind = "game_binpath" => old[j].val = ProcName(old[1])
  BY DEF WritesBack, Settled, OptionLines
<1> HIDE DEF old, new
<1>5. CASE k = n
  <2>1. old[k].kind = "skip"
    BY <1>1, <1>5
  <2> QED
    BY <1>2, <2>1 DEF new
<1>6. CASE k \in 2..(n - 1)
  <2>1. /\ k \in 2..Len(disk.lines) /\ k # 0 /\ old[k] = disk.lines[k]
        /\ old[1] = disk.lines[1] /\ k \in 2..(lnr - 1)
    BY <1>1, <1>3, <1>6
  <2>2. old[k].kind = "adapt_required" => k = opt.adp_req_line
    BY <1>3, <2>1
  <2>3. opt.proc # ProcName(old[1]) => /\ old[k].kind # "game_path"
                                       /\ old[k].kind = "game_binpath" => k = opt.binpath_line
    BY <1>3, <2>1
  <2>4. old[k].kind = "game_binpath" => old[k].val = ProcName(old[1])
    BY <1>4, <2>1
  <2>5. k = opt.binpath_line => opt.binpath = opt.proc
    BY <1>3, <2>1
  <2>6. CASE /\ k = opt.adp_req_line
             /\ old[k].kind = "adapt_required"
             /\ new[k] = [kind |-> "adapt_required", val |-> FALSE]
    <3>1. new[k].val = FALSE
      BY <2>6
    <3> QED
      BY <1>2, <2>6, <3>1 DEF new
  <2>7. CASE old[k].kind # "adapt_required"
    <3>1. new[k].kind = "game_binpath" => new[k].val = opt.proc
      BY <1>2, <2>3, <2>4, <2>5, <2>7 DEF NewLine
    <3>2. new[k].kind = "game_path" => opt.proc = ProcName(old[1])
      BY <1>2, <2>3
    <3> QED
      BY <1>2, <2>7, <3>1, <3>2 DEF old, new
  <2> QED
    BY <1>2, <2>2, <2>6, <2>7 DEF NewLine
<1>7. k = n \/ k \in 2..(n - 1)
  BY <1>1
<1> QED
  BY <1>5, <1>6, <1>7

\* What the new file says of the options.
LEMMA NewSaid ==
    ASSUME WritesBack, NEW n \in 2..(Len(cfg_lines) + 1)
    PROVE  /\ \A kind : SaidAt(ReadFile(disk'), n, kind) = SaidAt(ReadFile(disk), n, kind)
           /\ CallSaid(ReadFile(disk'), n) = Said(ReadFile(disk), n, "game_call", opt.proc)
           /\ Said(ReadFile(disk'), n, "game_path", "") =
                  Said(ReadFile(disk), n, "game_path", "")
<1> DEFINE old == ReadFile(disk)
           new == ReadFile(disk')
<1>1. Len(cfg_lines) \in Nat
  BY NewFile
<1>2. ASSUME NEW k \in 2..(n - 1)
      PROVE  /\ new[k].kind = old[k].kind
             /\ old[k].kind \in {"game_call", "game_path"} => new[k] = old[k]
  <2>1. k \in 2..Len(cfg_lines)
    BY <1>1
  <2>2. /\ new[k].kind = old[k].kind
        /\ old[k].kind \notin {"dynmemstart", "game_binpath", "adapt_required"} => new[k] = old[k]
    BY <2>1, NewKinds
  <2> HIDE DEF old, new
  <2> QED
    BY <2>2
<1>3. ProcName(new[1]) = opt.proc
  BY NewName
<1> HIDE DEF old, new
<1>4. n \in Nat /\ \A k \in 2..(n - 1) : new[k].kind = old[k].kind
  BY <1>1, <1>2
<1>5. \A kind : SaidAt(new, n, kind) = SaidAt(old, n, kind)
  BY <1>4, SameSaid
<1>6. ASSUME NEW kind \in {"game_call", "game_path"}, NEW none
      PROVE  Said(new, n, kind, none) = Said(old, n, kind, none)
  <2>1. \A k \in 2..(n - 1) : old[k].kind = kind => new[k] = old[k]
    BY <1>2
  <2> QED
    BY <1>4, <2>1, SameVals
<1>7. CallSaid(new, n) = Said(old, n, "game_call", opt.proc)
  BY <1>3, <1>6 DEF CallSaid
<1> QED
  BY <1>5, <1>6, <1>7 DEF old, new

\* A line game_path is accepted, as it was.
LEMMA NewPath ==
    ASSUME WritesBack, NEW k \in 2..Len(cfg_lines), ReadFile(disk')[k].kind = "game_path"
    PROVE  ReadFile(disk')[k].val = CallSaid(ReadFile(disk'), k)
<1> DEFINE old == ReadFile(disk)
           new == ReadFile(disk')
<1>1. /\ Len(cfg_lines) \in Nat /\ k \in 2..(Len(cfg_lines) + 1)
      /\ lnr = Len(cfg_lines) + 1
  <2>1. Len(cfg_lines) \in Nat
    BY NewFile
  <2>2. k \in 2..(Len(cfg_lines) + 1)
    BY <2>1
  <2>3. lnr = Len(cfg_lines) + 1
    BY DEF WritesBack
  <2> QED
    BY <2>1, <2>2, <2>3
<1>2. new[k].kind = old[k].kind
  BY NewKinds
<1>3. new[k] = old[k] /\ opt.proc = ProcName(old[1])
  BY <1>2, NewKinds, NewVals
<1>4. old[k].val = CallSaid(old, k)
  <2>1. OptionLines(old)
    BY DEF WritesBack, Settled
  <2>2. k \in 2..(lnr - 1) /\ old[k].kind = "game_path"
    BY <1>1, <1>2
  <2> HIDE DEF old
  <2> QED
    BY <2>1, <2>2 DEF OptionLines
<1>5. CallSaid(new, k) = Said(old, k, "game_call", opt.proc)
  BY <1>1, NewSaid
<1> QED
  BY <1>3, <1>4, <1>5 DEF CallSaid

LEMMA NewOptions ==
    ASSUME WritesBack, NEW new, new = ReadFile(disk')
    PROVE  /\ opt.proc = ProcName(new[1]) /\ opt.call = CallSaid(new, Len(new) + 1)
           /\ opt.path = Said(new, Len(new) + 1, "game_path", "")
           /\ opt.binpath = Said(new, Len(new) + 1, "game_binpath", "")
<1> DEFINE old == ReadFile(disk)
           n == Len(cfg_lines)
<1>1. /\ n \in Nat /\ n >= 2 /\ Len(new) = n /\ n + 1 \in 2..(n + 1)
      /\ old[n] = [kind |-> "skip"] /\ Len(disk.lines) = n - 1
      /\ \A j \in 1..(n - 1) : old[j] = disk.lines[j]
  <2>1. n \in Nat /\ n >= 2 /\ Len(disk.lines) = n - 1
    BY NewFile
  <2>2. Len(new) = n /\ old[n] = [kind |-> "skip"]
    BY NewFile
  <2>3. \A j \in 1..(n - 1) : old[j] = disk.lines[j]
    BY NewFile
  <2>4. n + 1 \in 2..(n + 1)
    BY <2>1
  <2> QED
    BY <2>1, <2>2, <2>3, <2>4
<1>2. lnr = n + 1 /\ Settled
  BY DEF WritesBack
<1>3. /\ opt.path = Said(old, n + 1, "game_path", "")
      /\ opt.binpath_line = SaidAt(old, n + 1, "game_binpath")
  BY <1>2 DEF Settled, OptionLines
<1>4. /\ \A kind : SaidAt(new, n + 1, kind) = SaidAt(old, n + 1, kind)
      /\ CallSaid(new, n + 1) = Said(old, n + 1, "game_call", opt.proc)
      /\ Said(new, n + 1, "game_path", "") = Said(old, n + 1, "game_path", "")
  BY <1>1, NewSaid
<1>5. opt.call = Said(old, n + 1, "game_call", opt.proc)
  <2> DEFINE k == SaidAt(old, n + 1, "game_call")
  <2>1. CASE Saying(old, n + 1, "game_call") = {}
    <3>1. opt.call = opt.proc
      BY <1>2, <2>1 DEF Settled
    <3> QED
      BY <2>1, <3>1 DEF Said
  <2>2. CASE Saying(old, n + 1, "game_call") # {}
    <3>1. k \in Saying(old, n + 1, "game_call")
      BY <1>1, <2>2, SaidFound
    <3>2. /\ k \in 2..n /\ old[k].kind = "game_call"
          /\ \A j \in 2..n : old[j].kind = "game_call" => j <= k
      <4>1. Saying(old, n + 1, "game_call") \subseteq 1..n
        BY <1>1 DEF Saying
      <4>2. k = LargestOf(Saying(old, n + 1, "game_call"))
        BY <2>2 DEF SaidAt
      <4>3. k \in 2..(n + 1 - 1) /\ old[k].kind = "game_call"
        BY <3>1 DEF Saying
      <4> HIDE DEF k
      <4>4. \A j \in Saying(old, n + 1, "game_call") : j <= k
        BY <1>1, <2>2, <4>1, <4>2, Greatest
      <4>5. \A j \in 2..n : old[j].kind = "game_call" => j \in Saying(old, n + 1, "game_call")
        BY <1>1 DEF Saying
      <4> QED
        BY <1>1, <4>3, <4>4, <4>5
    <3> HIDE DEF k
    <3>3. k # n
      BY <1>1, <3>2
    <3>4. k \in 2..Len(disk.lines) /\ old[k] = disk.lines[k]
      BY <1>1, <3>2, <3>3
    <3>5. \A j \in (k + 1)..Len(disk.lines) : disk.lines[j].kind # "game_call"
      <4>1. ASSUME NEW j \in (k + 1)..Len(disk.lines)
            PROVE  disk.lines[j].kind # "game_call"
        <5>1. j \in 2..n /\ j \in 1..(n - 1) /\ ~(j <= k)
          BY <1>1, <3>4
        <5>2. old[j].kind # "game_call" /\ old[j] = disk.lines[j]
          BY <1>1, <3>2, <5>1
        <5> QED
          BY <5>2
      <4> QED
        BY <4>1
    <3>6. opt.call = disk.lines[k].val
      BY <3>2, <3>4, <3>5 DEF WritesBack, Expressible
    <3> QED
      BY <2>2, <3>4, <3>6 DEF Said, k
  <2> QED
    BY <2>1, <2>2
<1>6. opt.binpath = Said(new, n + 1, "game_binpath", "")
  <2>0. n + 1 \in Nat
    BY <1>1
  <2>4. SaidAt(new, n + 1, "game_binpath") = 0 <=> Saying(new, n + 1, "game_binpath") = {}
    BY <2>0, SaidFound
  <2>1. /\ SaidAt(new, n + 1, "game_binpath") = 0 <=> Saying(new, n + 1, "game_binpath") = {}
        /\ SaidAt(new, n + 1, "game_binpath") = opt.binpath_line
    BY <1>3, <1>4, <2>4
  <2>2. CASE opt.binpath_line = 0
    BY <1>2, <2>1, <2>2 DEF Said, Settled
  <2>3. CASE opt.binpath_line # 0
    <3>1. /\ opt.binpath_line \in 2..(n - 1) /\ opt.binpath = opt.proc
          /\ old[opt.binpath_line].kind = "game_binpath"
      BY <2>3, OptionLine
    <3>2. opt.binpath_line \in 2..n
      BY <1>1, <3>1
    <3>3. new[opt.binpath_line].kind = "game_binpath"
      BY <3>1, <3>2, NewKinds
    <3>4. new[opt.binpath_line].val = opt.proc
      BY <3>2, <3>3, NewVals
    <3> QED
      BY <2>1, <2>3, <3>1, <3>4 DEF Said
  <2> QED
    BY <2>2, <2>3
<1>7. opt.proc = ProcName(new[1])
  BY NewName
<1> QED
  BY <1>1, <1>3, <1>4, <1>5, <1>6, <1>7

\* The config in memory is what the new file says.
LEMMA NewConf ==
    ASSUME WritesBack, NEW new, new = ReadFile(disk')
    PROVE  Conf(dynmems') = ConfOf(Shape, new)
<1> DEFINE old == ReadFile(disk)
           n == Len(cfg_lines)
<1>1. TakenInv /\ TakeOver /\ Settled /\ lnr = n + 1
  BY DEF WritesBack
<1>2. n \in Nat
  BY NewFile
<1>3. ASSUME NEW i \in DOMAIN dynmems
      PROVE  /\ dynmems'[i].size = LineSize(new, dynmems'[i].cfg_line)
             /\ dynmems'[i].code = LineCode(new, dynmems'[i].cfg_line)
  <2> DEFINE k == dynmems[i].cfg_line
  <2>1. /\ dynmems'[i].cfg_line = k
        /\ i \notin Listed => dynmems'[i] = dynmems[i]
    BY <1>1, AdaptedClasses
  <2>2. CASE i \in Listed
    <3>1. k \in 2..(n - 1) /\ new[k] = StartLine(dynmems'[i])
      BY <2>2, ClassLine
    <3>2. new[k].size = dynmems'[i].size /\ new[k].code = dynmems'[i].code
      BY <3>1, StartLineFields
    <3>3. k # 1
      BY <1>2, <3>1
    <3> QED
      BY <2>1, <3>2, <3>3 DEF LineSize, LineCode
  <2>3. CASE i \notin Listed
    <3>1. ClassFrom(dynmems[i], old, lnr)
      BY <1>1 DEF Settled, FromLines, ClassFrom
    <3>2. /\ dynmems[i].size = LineSize(old, k) /\ dynmems[i].code = LineCode(old, k)
          /\ k # 1 => k \in 2..(lnr - 1) /\ old[k].kind = "dynmemstart"
      BY <3>1 DEF ClassFrom
    <3>3. ASSUME k # 1
          PROVE  new[k] = old[k]
      <4>1. k \in 2..n /\ k # 0
        BY <1>1, <1>2, <3>2, <3>3
      <4>2. NewLine(k, old[k], new[k])
        BY <4>1, NewLines
      <4>3. k \notin {dynmems[j].cfg_line : j \in Listed}
        <5>1. ASSUME NEW j \in Listed, k = dynmems[j].cfg_line
              PROVE  i = j
          BY <5>1, OwnLine
        <5> QED
          BY <2>3, <5>1
      <4> HIDE DEF k, old
      <4> QED
        BY <3>2, <3>3, <4>2, <4>3 DEF NewLine
    <3> QED
      BY <2>1, <2>3, <3>2, <3>3 DEF LineSize, LineCode
  <2> QED
    BY <2>2, <2>3
<1>4. /\ DOMAIN dynmems' = DOMAIN dynmems
      /\ \A i \in DOMAIN dynmems : ClassShape(dynmems'[i]) = ClassShape(dynmems[i])
  BY <1>1, AdaptedClasses
<1>5. /\ opt.proc = ProcName(new[1]) /\ opt.call = CallSaid(new, Len(new) + 1)
      /\ opt.path = Said(new, Len(new) + 1, "game_path", "")
      /\ opt.binpath = Said(new, Len(new) + 1, "game_binpath", "")
  BY NewOptions
<1> QED
  BY <1>1, <1>3, <1>4, <1>5, ConfSaid

LEMMA TakeOverReplayed ==
    ASSUME WritesBack, Recorded
    PROVE  Replayed'
<1> DEFINE old == ReadFile(disk)
           new == ReadFile(disk')
           n == Len(cfg_lines)
<1>1. TakenInv /\ TakeOver /\ ~InScope /\ lnr = n + 1 /\ run = 1
  BY DEF WritesBack, TakeOver, TakenInv, Phases
<1>2. /\ n \in Nat /\ Len(old) = n /\ Len(new) = n
  BY NewFile
<1>3. PICK h : Chain(h, old, lnr) /\ h[lnr] = Shape
  BY DEF Recorded
<1>4. ~Inside(h[n + 1])
  BY <1>1, <1>3, ShapeFields DEF Inside, InScope
<1>5. ProcName(new[1]) = opt.proc
  BY NewName
<1>6. ASSUME NEW k \in 2..n
      PROVE  /\ Alike(old[k], new[k])
             /\ new[k].kind = "adapt_required" => new[k].val = FALSE
             /\ new[k].kind = "game_binpath" => new[k].val = ProcName(new[1])
             /\ new[k].kind = "game_path" => new[k].val = CallSaid(new, k)
  <2>1. Alike(old[k], new[k])
    BY NewKinds
  <2>2. /\ new[k].kind = "adapt_required" => new[k].val = FALSE
        /\ new[k].kind = "game_binpath" => new[k].val = opt.proc
    BY NewVals
  <2>3. new[k].kind = "game_path" => new[k].val = CallSaid(new, k)
    BY NewPath
  <2> QED
    BY <1>5, <2>1, <2>2, <2>3
<1>7. kept'.conf = ConfOf(h[n + 1], new)
  <2>1. kept'.conf = Conf(dynmems')
    BY <1>1 DEF TakeOver
  <2>2. Conf(dynmems') = ConfOf(Shape, new)
    BY NewConf
  <2> QED
    BY <1>1, <1>3, <2>1, <2>2
<1> HIDE DEF old, new
<1>8. /\ Chain(h, old, Len(old) + 1) /\ ~Inside(h[Len(old) + 1])
      /\ Len(new) = Len(old)
      /\ \A k \in 2..Len(new) :
             /\ Alike(old[k], new[k])
             /\ new[k].kind = "adapt_required" => new[k].val = FALSE
             /\ new[k].kind = "game_binpath" => new[k].val = ProcName(new[1])
             /\ new[k].kind = "game_path" => new[k].val = CallSaid(new, k)
      /\ kept'.conf = ConfOf(h[Len(new) + 1], new)
  BY <1>1, <1>2, <1>3, <1>4, <1>6, <1>7
<1>9. PICK o, m : o = old /\ m = new
  OBVIOUS
<1>10. Written(h, o, m)'
  BY <1>8, <1>9 DEF Written
<1>11. m = ReadFile(disk')
  BY <1>9 DEF new
<1>12. Written(h, o, ReadFile(disk))'
  BY <1>10, <1>11 DEF Written
<1>13. ~(run' = 2)
  BY <1>1 DEF TakeOver, configVars
<1>14. disk'.lines # <<>>
  BY NewFile
<1> QED
  BY <1>12, <1>13, <1>14 DEF Replayed

-----------------------------------------------------------------------------
(* The steps.                                                              *)

\* A config file that is going to be read.
Unread ==
    /\ LinesOK(disk.lines) /\ disk.lines # <<>> /\ cfg_lines = ReadFile(disk) /\ lnr = 2
    /\ dynmem_enp = 0 /\ ptrmem_enp = 0 /\ dynmems = <<>> /\ ptrmems = <<>> /\ cfg = <<>>
    /\ opt = FirstOpt(disk)

NothingRead ==
    /\ ReadSoFar /\ IsOpt /\ Shape = NoShape /\ opt.adp_required = FALSE
    /\ lnr <= Len(cfg_lines) + 1

LEMMA UnreadRead == Unread => NothingRead
<1> SUFFICES ASSUME Unread PROVE NothingRead
  OBVIOUS
<1>1. /\ LinesOK(disk.lines) /\ disk.lines # <<>> /\ cfg_lines = ReadFile(disk) /\ lnr = 2
      /\ dynmem_enp = 0 /\ ptrmem_enp = 0 /\ dynmems = <<>> /\ ptrmems = <<>> /\ cfg = <<>>
      /\ opt = FirstOpt(disk)
  BY DEF Unread
<1>2. /\ Len(disk.lines) \in Nat \ {0} /\ DOMAIN disk.lines = 1..Len(disk.lines)
      /\ Len(cfg_lines) \in Nat \ {0}
      /\ \A k \in DOMAIN disk.lines : cfg_lines[k] = disk.lines[k]
  BY <1>1, FileLines
<1>3. cfg_lines[1] = disk.lines[1]
  BY <1>2
<1>4. /\ IsOpt /\ opt.proc = ProcName(cfg_lines[1]) /\ opt.call = ProcName(cfg_lines[1])
      /\ opt.path = "" /\ opt.binpath = "" /\ opt.binpath_line = 0 /\ opt.adp_req_line = 0
      /\ opt.adp_required = FALSE
  BY <1>1, <1>3 DEF FirstOpt, IsOpt
<1>5. Shape = NoShape
  <2>1. DOMAIN <<>> = {}
    OBVIOUS
  <2>2. \A S : S = {} => [i \in S |-> ClassShape(<<>>[i])] = <<>>
    OBVIOUS
  <2>3. \A S : S = {} => [i \in S |-> EntryShape(<<>>[i])] = <<>>
    OBVIOUS
  <2>4. Shape = [de |-> 0, pe |-> 0, dyn |-> [i \in DOMAIN <<>> |-> ClassShape(<<>>[i])],
                 ptr |-> <<>>, cfg |-> [i \in DOMAIN <<>> |-> EntryShape(<<>>[i])]]
    BY <1>1 DEF Shape
  <2> QED
    BY <2>1, <2>2, <2>3, <2>4 DEF NoShape
<1>6. FromLines(cfg_lines)
  BY <1>1 DEF FromLines
<1>7. OptionLines(cfg_lines)
  <2>1. \A k \in 2..(lnr - 1) : FALSE
    BY <1>1
  <2>2. /\ Said(cfg_lines, lnr, "game_path", "") = ""
        /\ SaidAt(cfg_lines, lnr, "game_binpath") = 0
        /\ SaidAt(cfg_lines, lnr, "adapt_required") = 0
    BY <1>1, SaidNothing
  <2> QED
    BY <1>4, <2>1, <2>2 DEF OptionLines
<1>8. /\ opt.call = CallSaid(cfg_lines, lnr)
      /\ opt.binpath = Said(cfg_lines, lnr, "game_binpath", "")
  <2>1. \A none : Said(cfg_lines, 2, "game_call", none) = none
    BY SaidNothing
  <2>2. \A none : Said(cfg_lines, 2, "game_binpath", none) = none
    BY SaidNothing
  <2> QED
    BY <1>1, <1>4, <2>1, <2>2 DEF CallSaid
<1>9. lnr <= Len(cfg_lines) + 1
  BY <1>1, <1>2
<1> QED
  BY <1>1, <1>4, <1>5, <1>6, <1>7, <1>8, <1>9 DEF ReadSoFar, NothingRead

LEMMA RereadInit == Init => RereadInv
<1> SUFFICES ASSUME Init PROVE RereadInv
  OBVIOUS
<1>1. TakenInv
  BY TakenInit
<1>2. run = 1 /\ status = "read" /\ lnr = 2 /\ ~kept.sound
  BY DEF Init
<1>3. Unread
  <2>1. disk.lines # <<>>
    BY ConfigAssumption DEF Init
  <2>2. LinesOK(disk.lines)
    BY <1>1 DEF TakenInv, HomesInv, Typed
  <2> QED
    BY <2>1, <2>2 DEF Init, Unread
<1>4. ReadSoFar /\ IsOpt /\ Shape = NoShape /\ lnr <= Len(cfg_lines) + 1
  BY <1>3, UnreadRead DEF NothingRead
<1>5. Recorded
  <2>1. PICK h : h = [k \in {2} |-> NoShape]
    OBVIOUS
  <2>2. h[2] = NoShape
    BY <2>1
  <2>3. \A k \in 2..(lnr - 1) : FALSE
    BY <1>2
  <2>4. Chain(h, ReadFile(disk), lnr)
    BY <2>2, <2>3 DEF Chain
  <2> QED
    BY <1>2, <1>4, <2>2, <2>4 DEF Recorded
<1> QED
  BY <1>1, <1>2, <1>4, <1>5 DEF RereadInv

LEMMA RestartReread ==
    ASSUME RereadInv, TakenInv', Restart
    PROVE  RereadInv'
<1>1. /\ status = "ready" /\ run = 1 /\ kept.sound /\ run' = 2 /\ status' = "read"
      /\ lnr' = 2 /\ UNCHANGED <<disk, kept>>
  BY DEF Restart, adaptVars
<1>2. Replayed
  BY <1>1 DEF RereadInv
<1>3. Unread'
  <2>1. disk'.lines # <<>>
    BY <1>1, <1>2 DEF Replayed
  <2>2. LinesOK(disk.lines)'
    BY DEF TakenInv, HomesInv, Typed
  <2>3. /\ cfg_lines' = ReadFile(disk)' /\ lnr' = 2
        /\ dynmem_enp' = 0 /\ ptrmem_enp' = 0
        /\ dynmems' = <<>> /\ ptrmems' = <<>> /\ cfg' = <<>>
        /\ opt' = FirstOpt(disk)'
    BY DEF Restart, adaptVars, ReadFile, FirstOpt
  <2> QED
    BY <2>1, <2>2, <2>3 DEF Unread
<1>4. /\ ReadSoFar' /\ IsOpt' /\ Shape' = NoShape /\ opt'.adp_required = FALSE
      /\ lnr' <= Len(cfg_lines') + 1
  <2>1. NothingRead'
    BY <1>3, UnreadRead, PTL
  <2> QED
    BY <2>1 DEF NothingRead, NoShape
<1>5. Replayed'
  <2>1. PICK h, old : Written(h, old, ReadFile(disk))
    BY <1>2 DEF Replayed
  <2>2. Written(h, old, ReadFile(disk))'
    BY <1>1, <2>1 DEF Written, ReadFile
  <2>3. Shape' = h[lnr']
    BY <1>1, <1>4, <2>1 DEF Written, Chain
  <2> QED
    BY <1>1, <1>2, <2>2, <2>3 DEF Replayed
<1> QED
  BY <1>1, <1>4, <1>5 DEF RereadInv

LEMMA ReadsReread ==
    ASSUME RereadInv, TakenInv', Reads
    PROVE  RereadInv'
<1>1. /\ status = "read" /\ lnr \in 2..Len(cfg_lines) /\ Len(cfg_lines) \in Nat
      /\ lnr' = lnr + 1 /\ UNCHANGED <<disk, run, status, cfg_lines, kept>>
      /\ Line = cfg_lines[lnr]
  BY ReadsPlace DEF RereadInv
<1>2. TakenInv /\ IsOpt /\ ReadSoFar /\ run \in {1, 2}
  BY <1>1 DEF RereadInv
<1>3. ReadSoFar' /\ IsOpt'
  BY <1>2, ReadsSoFar
<1>4. lnr' <= Len(cfg_lines') + 1
  BY <1>1
<1>5. CASE run = 1
  <2>1. ~kept.sound /\ Recorded
    BY <1>1, <1>5 DEF RereadInv
  <2>2. Recorded'
    BY <1>2, <2>1, ReadsRecorded
  <2> QED
    BY <1>1, <1>3, <1>4, <1>5, <2>1, <2>2 DEF RereadInv
<1>6. CASE run = 2
  <2>1. kept.sound /\ Replayed /\ opt.adp_required = FALSE
    BY <1>1, <1>6 DEF RereadInv
  <2>2. PICK h, old : Written(h, old, ReadFile(disk)) /\ Shape = h[lnr]
    BY <1>1, <1>6, <2>1 DEF Replayed
  <2>3. Shape' = h[lnr + 1]
    BY <1>2, <2>2, ReadsReplayed
  <2>4. Written(h, old, ReadFile(disk))'
    BY <1>1, <2>2 DEF Written, ReadFile
  <2>5. Replayed'
    BY <1>1, <2>1, <2>3, <2>4 DEF Replayed
  <2>6. opt'.adp_required = FALSE
    <3>1. Line.kind = "adapt_required" => Line.val = FALSE
      <4>1. cfg_lines = ReadFile(disk)
        BY <1>2 DEF ReadSoFar
      <4> QED
        BY <1>1, <2>2, <4>1 DEF Written
    <3>2. opt'.adp_required = IF Line.kind = "adapt_required"
                              THEN opt.adp_required \/ Line.val ELSE opt.adp_required
      BY <1>2, OptAfter
    <3> QED
      BY <2>1, <3>1, <3>2
  <2> QED
    BY <1>1, <1>3, <1>4, <1>6, <2>1, <2>5, <2>6 DEF RereadInv
<1> QED
  BY <1>2, <1>5, <1>6

\* What a step leaves alone that changes none of these.
LEMMA BookStays ==
    ASSUME UNCHANGED <<disk, cfg_lines, lnr, scopeVars, dynmems, ptrmems, cfg, opt, kept>>
    PROVE  /\ (ReadSoFar => ReadSoFar') /\ (Settled => Settled') /\ (Recorded => Recorded')
           /\ (IsOpt => IsOpt') /\ Shape' = Shape
           /\ \A h, old : Written(h, old, ReadFile(disk)) => Written(h, old, ReadFile(disk))'
           /\ (InScope' <=> InScope)
<1>1. Shape' = Shape
  BY DEF Shape, scopeVars
<1>2. ReadSoFar => ReadSoFar'
  BY DEF ReadSoFar, FromLines, OptionLines, ReadFile
<1>3. Settled => Settled'
  BY DEF Settled, FromLines, OptionLines, ReadFile
<1>4. Recorded => Recorded'
  BY <1>1 DEF Recorded, ReadFile
<1>5. IsOpt => IsOpt'
  BY DEF IsOpt
<1>6. \A h, old : Written(h, old, ReadFile(disk)) => Written(h, old, ReadFile(disk))'
  BY DEF Written, ReadFile
<1>7. InScope' <=> InScope
  BY DEF InScope, scopeVars
<1> QED
  BY <1>1, <1>2, <1>3, <1>4, <1>5, <1>6, <1>7

\* The first start fails, or goes on without adaptation.
LEMMA StopReread ==
    ASSUME RereadInv, TakenInv', NEW how \in {"failed", "undefined", "ready"}, Stop(how),
           status \in {"read", "built", "adapt"}, run = 1
    PROVE  RereadInv'
<1>1. /\ status' = how
      /\ UNCHANGED <<disk, run, cfg_lines, lnr, scopeVars, dynmems, ptrmems, cfg, opt, kept>>
  BY DEF Stop, adaptVars
<1>2. IsOpt'
  BY <1>1, BookStays DEF RereadInv
<1>3. ~kept.sound
  BY DEF RereadInv
<1> QED
  BY <1>1, <1>2, <1>3 DEF RereadInv

\* No line of the next start is rejected.
LEMMA NoneRejected ==
    ASSUME RereadInv, Reject \/ Dangle
    PROVE  run = 1
<1>1. Reading /\ (Dangling(Line) \/ ~Accepted(Line))
  BY DEF Reject, Dangle
<1>2. TakenInv /\ ReadSoFar /\ status = "read" /\ run \in {1, 2}
  BY <1>1 DEF RereadInv, Reading
<1>3. run = 2 => FALSE
  <2> SUFFICES ASSUME run = 2 PROVE FALSE
    OBVIOUS
  <2>1. Replayed
    BY DEF RereadInv
  <2>2. PICK h, old : Written(h, old, ReadFile(disk)) /\ Shape = h[lnr]
    BY <1>2, <2>1 DEF Replayed
  <2> QED
    BY <1>1, <1>2, <2>2, NextLineAccepted
<1> QED
  BY <1>2, <1>3

LEMMA EndReread ==
    ASSUME RereadInv, TakenInv', EndOfConfig
    PROVE  RereadInv'
<1>1. /\ status = "read" /\ lnr > Len(cfg_lines)
      /\ status' = IF InScope THEN "failed" ELSE "built"
      /\ UNCHANGED <<disk, run, cfg_lines, lnr, scopeVars, dynmems, ptrmems, cfg, opt, kept>>
  BY DEF EndOfConfig, Stop, adaptVars
<1>2. TakenInv /\ IsOpt /\ ReadSoFar /\ run \in {1, 2} /\ lnr <= Len(cfg_lines) + 1
  BY <1>1 DEF RereadInv
<1>3. lnr = Len(cfg_lines) + 1
  <2>1. lnr \in Nat /\ Len(cfg_lines) \in Nat
    BY <1>2, ClassFields
  <2> QED
    BY <1>1, <1>2, <2>1
<1>4. ReadSoFar' /\ IsOpt' /\ (InScope' <=> InScope) /\ Shape' = Shape
  BY <1>1, <1>2, BookStays
<1>5. CASE run = 1
  <2>1. ~kept.sound /\ Recorded
    BY <1>1, <1>5 DEF RereadInv
  <2>2. Recorded'
    BY <1>1, <2>1, BookStays
  <2>3. lnr' = Len(cfg_lines') + 1
    BY <1>1, <1>3
  <2> QED
    BY <1>1, <1>4, <1>5, <2>1, <2>2, <2>3 DEF RereadInv
<1>6. CASE run = 2
  <2>1. kept.sound /\ Replayed /\ opt.adp_required = FALSE
    BY <1>1, <1>6 DEF RereadInv
  <2>2. PICK h, old : Written(h, old, ReadFile(disk)) /\ Shape = h[lnr]
    BY <1>1, <1>6, <2>1 DEF Replayed
  <2>3. ~InScope
    <3>1. ~Inside(h[Len(old) + 1]) /\ Len(old) = Len(cfg_lines)
      BY <1>2, <2>2 DEF Written, ReadSoFar
    <3>2. ~Inside(Shape)
      BY <1>3, <2>2, <3>1
    <3> QED
      BY <1>2, <3>2, ShapeFields DEF Inside, InScope
  <2>4. Written(h, old, ReadFile(disk))'
    BY <1>1, <2>2, BookStays
  <2>5. Replayed'
    BY <1>1, <1>4, <2>1, <2>2, <2>4 DEF Replayed
  <2>6. lnr' = Len(cfg_lines') + 1 /\ status' = "built"
    BY <1>1, <1>3, <2>3
  <2> QED
    BY <1>1, <1>4, <1>6, <2>1, <2>3, <2>5, <2>6 DEF RereadInv
<1> QED
  BY <1>2, <1>5, <1>6

LEMMA SkipReread ==
    ASSUME RereadInv, TakenInv', SkipAdaptation
    PROVE  RereadInv'
<1>1. /\ status = "built" /\ status' = "ready" /\ Stop("ready")
      /\ UNCHANGED <<disk, run, cfg_lines, lnr, scopeVars, dynmems, ptrmems, cfg, opt, kept>>
  BY DEF SkipAdaptation, Stop, adaptVars
<1>2. CASE run = 1
  BY <1>1, <1>2, StopReread
<1>3. CASE run = 2
  <2>1. kept.sound /\ Replayed /\ IsOpt
    BY <1>3 DEF RereadInv
  <2>2. PICK h, old : Written(h, old, ReadFile(disk))
    BY <2>1 DEF Replayed
  <2>3. Written(h, old, ReadFile(disk))' /\ IsOpt'
    BY <1>1, <2>1, <2>2, BookStays
  <2>4. Replayed'
    BY <1>1, <2>1, <2>3 DEF Replayed
  <2> QED
    BY <1>1, <1>3, <2>1, <2>3, <2>4 DEF RereadInv
<1> QED
  BY <1>2, <1>3 DEF RereadInv

LEMMA AdaptReread ==
    ASSUME RereadInv, TakenInv', (\E s : RunScript(s)) \/ TakeSetting \/ TakeObject
    PROVE  RereadInv'
<1>1. TakenInv /\ IsOpt
  BY DEF RereadInv
<1>2. /\ status \in {"built", "adapt"} /\ status' = "adapt" /\ run = 1
      /\ UNCHANGED <<disk, run, lnr, scopeVars, ptrmems, cfg, kept>>
  BY <1>1 DEF RunScript, TakeSetting, TakeObject, Parsing, configVars, TakenInv, Phases
<1>3. /\ lnr = Len(cfg_lines) + 1 /\ ~InScope /\ ~kept.sound /\ Recorded
      /\ status = "built" => ReadSoFar
      /\ status = "adapt" => Settled
  BY <1>2 DEF RereadInv
<1>4. ~InScope'
  BY <1>2, <1>3 DEF InScope, scopeVars
<1>5. Settled' /\ IsOpt'
  <2>1. ASSUME NEW s, RunScript(s)
        PROVE  Settled' /\ IsOpt'
    <3>1. status = "built" /\ UNCHANGED opt
      BY <2>1 DEF RunScript
    <3>2. Settled'
      BY <1>1, <1>3, <2>1, <3>1, RunScriptSettles
    <3> QED
      BY <1>1, <3>1, <3>2 DEF IsOpt
  <2>2. CASE TakeSetting
    <3>1. status = "adapt"
      BY <2>2 DEF TakeSetting, Parsing
    <3> QED
      BY <1>1, <1>3, <2>2, <3>1, TakeSettingSettles
  <2>3. CASE TakeObject
    <3>1. status = "adapt" /\ UNCHANGED opt
      BY <2>3 DEF TakeObject, Parsing
    <3>2. Settled'
      BY <1>1, <1>3, <2>3, <3>1, TakeObjectSettles
    <3> QED
      BY <1>1, <3>1, <3>2 DEF IsOpt
  <2> QED
    BY <2>1, <2>2, <2>3
<1>6. lnr' = Len(cfg_lines') + 1
  <2>1. Len(cfg_lines') = Len(ReadFile(disk'))
    BY <1>5 DEF Settled
  <2>2. Len(cfg_lines) = Len(ReadFile(disk))
    BY <1>2, <1>3 DEF ReadSoFar, Settled
  <2> QED
    BY <1>2, <1>3, <2>1, <2>2
<1>7. Shape' = Shape
  <2>1. DOMAIN dynmems' = DOMAIN dynmems /\
        \A i \in DOMAIN dynmems : ClassShape(dynmems'[i]) = ClassShape(dynmems[i])
    <3>1. CASE UNCHANGED dynmems
      BY <3>1
    <3>2. CASE TakeObject
      <4> DEFINE c == LeastOf(Candidates(Item.name))
      <4>1. dynmems' = [dynmems EXCEPT ![c].adp_size = Item.size, ![c].adp_addr = Item.code]
        BY <3>2 DEF TakeObject
      <4> HIDE DEF c
      <4>2. DOMAIN dynmems' = DOMAIN dynmems
        BY <4>1
      <4>3. ASSUME NEW i \in DOMAIN dynmems
            PROVE  ClassShape(dynmems'[i]) = ClassShape(dynmems[i])
        <5>1. IsClass(dynmems[i])
          BY <1>1 DEF TakenInv, ClassesOK
        <5>2. CASE i # c
          BY <4>1, <5>2
        <5>3. CASE i = c
          <6>1. dynmems'[i] = [[dynmems[i] EXCEPT !.adp_size = Item.size]
                                           EXCEPT !.adp_addr = Item.code]
            BY <4>1, <5>3
          <6>2. /\ dynmems'[i].name = dynmems[i].name /\ dynmems'[i].lib = dynmems[i].lib
                /\ dynmems'[i].grow = dynmems[i].grow
                /\ dynmems'[i].consts = dynmems[i].consts
                /\ dynmems'[i].cfg_line = dynmems[i].cfg_line
            BY <5>1, <6>1 DEF IsClass
          <6> QED
            BY <6>2 DEF ClassShape
        <5> QED
          BY <5>2, <5>3
      <4> QED
        BY <4>2, <4>3
    <3> QED
      BY <3>1, <3>2 DEF RunScript, TakeSetting
  <2> DEFINE d == [i \in DOMAIN dynmems |-> ClassShape(dynmems[i])]
             e == [i \in DOMAIN dynmems' |-> ClassShape(dynmems'[i])]
  <2>2. d = e
    BY <2>1
  <2>3. Shape.dyn' = e /\ Shape.dyn = d
    BY DEF Shape
  <2> HIDE DEF d, e
  <2>4. Shape' = [de |-> Shape.de, pe |-> Shape.pe, dyn |-> Shape.dyn', ptr |-> Shape.ptr,
                  cfg |-> Shape.cfg]
    BY <1>2 DEF Shape, scopeVars
  <2>5. Shape = [de |-> Shape.de, pe |-> Shape.pe, dyn |-> Shape.dyn, ptr |-> Shape.ptr,
                 cfg |-> Shape.cfg]
    BY DEF Shape
  <2> QED
    BY <2>2, <2>3, <2>4, <2>5
<1>8. Recorded'
  BY <1>2, <1>3, <1>7 DEF Recorded, ReadFile
<1> QED
  BY <1>2, <1>3, <1>4, <1>5, <1>6, <1>8 DEF RereadInv

LEMMA TakeOverReread ==
    ASSUME RereadInv, TakenInv', TakeOver
    PROVE  RereadInv'
<1>1. TakenInv /\ IsOpt
  BY DEF RereadInv
<1>2. /\ status = "adapt" /\ run = 1 /\ status' = "ready" /\ UNCHANGED <<run, opt>>
      /\ kept'.sound = Expressible
  BY <1>1 DEF TakeOver, configVars, TakenInv, Phases
<1>3. Settled /\ lnr = Len(cfg_lines) + 1 /\ ~InScope /\ Recorded
  BY <1>2 DEF RereadInv
<1>4. kept'.sound => Replayed'
  BY <1>1, <1>2, <1>3, TakeOverReplayed DEF WritesBack
<1>5. IsOpt'
  BY <1>1, <1>2 DEF IsOpt
<1> QED
  BY <1>2, <1>4, <1>5 DEF RereadInv

LEMMA RereadNext ==
    ASSUME RereadInv, [Next]_vars
    PROVE  RereadInv'
<1>1. TakenInv /\ TakenInv'
  BY TakenNext DEF RereadInv
<1>2. CASE ReadConfig
  <2>1. CASE Reads
    BY <1>1, <2>1, ReadsReread
  <2>2. CASE Reject \/ Dangle
    <3>1. run = 1 /\ status = "read"
      BY <2>2, NoneRejected DEF Reject, Dangle, Reading
    <3>2. Stop("failed") \/ Stop("undefined")
      BY <2>2 DEF Reject, Dangle
    <3> QED
      BY <1>1, <3>1, <3>2, StopReread
  <2> QED
    BY <1>1, <1>2, <2>1, <2>2, EndReread DEF ReadConfig, Reads
<1>3. CASE Adaptation
  <2>1. CASE NoAdaptation \/ RejectScript \/ WriteFails
    <3>1. Stop("failed") /\ status \in {"built", "adapt"} /\ run = 1
      BY <1>1, <2>1 DEF NoAdaptation, RejectScript, WriteFails, Parsing, TakenInv, Phases
    <3> QED
      BY <1>1, <3>1, StopReread
  <2> QED
    BY <1>1, <1>3, <2>1, SkipReread, AdaptReread, TakeOverReread DEF Adaptation
<1>4. CASE Restart
  BY <1>1, <1>4, RestartReread
<1>5. CASE UNCHANGED vars
  <2>1. UNCHANGED <<disk, run, status, cfg_lines, lnr, scopeVars, dynmems, ptrmems, cfg,
                    opt, kept>>
    BY <1>5 DEF vars, adaptVars
  <2>2. /\ (ReadSoFar => ReadSoFar') /\ (Settled => Settled') /\ (Recorded => Recorded')
        /\ (IsOpt => IsOpt') /\ Shape' = Shape
        /\ \A h, old : Written(h, old, ReadFile(disk)) => Written(h, old, ReadFile(disk))'
        /\ (InScope' <=> InScope)
    BY <2>1, BookStays
  <2>3. Replayed => Replayed'
    BY <2>1, <2>2 DEF Replayed
  <2> QED
    BY <1>1, <2>1, <2>2, <2>3 DEF RereadInv
<1> QED
  BY <1>2, <1>3, <1>4, <1>5 DEF Next, Terminated

\* The file adaptation leaves behind is the config in memory: started again,
\* ugtrain rejects no line of it, builds the same config and asks for no
\* adaptation; for every file and every output of the script that the lines of
\* the file can express.
THEOREM RereadSameAlways == Spec => []RereadSame
<1>1. RereadInv /\ [Next]_vars => RereadInv'
  BY RereadNext
<1> QED
  BY <1>1, RereadInit, RereadIsSame, PTL DEF Spec
=============================================================================
