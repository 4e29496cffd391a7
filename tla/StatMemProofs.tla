---------------------------- MODULE StatMemProofs ----------------------------
(***************************************************************************)
(* Static memory, for every config, every file the loader may map and      *)
(* every place it may choose, at any point of any round: the regions of    *)
(* the memory map are told apart, libraries are found at their load        *)
(* addresses, and what was configured is moved to where it really is.      *)
(*                                                                         *)
(* The proof follows process_map() from line to line of the map.  What it  *)
(* keeps in its static variables is only worth something together with the *)
(* line it has just seen (After), and with the fact that the lines of a    *)
(* file follow each other, but for the gap of the executable (Apart).      *)
(***************************************************************************)
EXTENDS StatMem, VecOpsProofs

-----------------------------------------------------------------------------
(***************************************************************************)
(* The memory map: what is mapped, and that no file lies inside of another *)
(* one, unless in the gap of the executable.                               *)
(***************************************************************************)
Names(f)    == {"text"} \cup parts[f]
Slot(s)     == CASE s = "text" -> 0 [] s = "hole" -> 1 [] s = "rodata" -> 2 [] s = "data" -> 3
                 [] OTHER -> 4
Start(f, s) == Mapped(f) + Slot(s) + IF f = ExePath /\ s # "text" THEN Gap ELSE 0
Line(f, s)  == Section(f, s, Start(f, s))
Files       == {f \in File : Mapped(f) # 0}

\* Between .text and the other sections of the executable.
InGap(x) == exeBase <= x /\ \A s \in parts[ExePath] : x < Start(ExePath, s)

Outside(x, f) ==
    \/ x < Mapped(f)
    \/ \A s \in Names(f) : Start(f, s) < x
    \/ f = ExePath /\ x # exeBase /\ InGap(x)

Apart == \A f, g \in Files : f # g => \A s \in Names(f) : Outside(Start(f, s), g)

MapInv ==
    /\ exeBase \in ExeBases
    /\ base \in [Lib -> Nat] /\ \A l \in Lib : base[l] = 0 \/ base[l] \in LoadAddr[l]
    /\ \A f \in File : parts[f] \in PartsOf[f]
    /\ heapEnd = 0 \/ heapEnd \in (HeapMin + 1)..HeapMax
    /\ Apart

(***************************************************************************)
(* process_map().                                                          *)
(***************************************************************************)
One(c) == IF c THEN 1 ELSE 0

\* How many regions of the file f there are up to p.
Nr(f, p) ==
    1 + One("hole" \in parts[f] /\ Slot(p) >= 1) + One("rodata" \in parts[f] /\ Slot(p) >= 2)
      + One("data" \in parts[f] /\ Slot(p) >= 3) + One("bss" \in parts[f] /\ Slot(p) >= 4)

\* The region that is one too many for process_map().
Fifth(f, p) == p = "bss" /\ {"hole", "rodata"} \subseteq parts[f]

ScanState == [codePath : File \cup {NoFile}, codeRegions : Nat, exeRegions : Nat, isExe : BOOLEAN,
              prevEnd : Nat, loadAddr : Nat, exeLoad : Nat]

\* What a reading leaves for the next one.
Rested(s) ==
    /\ s \in ScanState
    /\ s.isExe => s.codeRegions > 0
    /\ ~s.isExe => s.exeRegions < 2

\* The static variables when the line p of the file f was the last one.
Seen(s, f, p) ==
    IF Fifth(f, p) THEN s.codeRegions = 0
    ELSE /\ s.codePath = f /\ s.codeRegions = Nr(f, p)
         /\ s.isExe <=> f = ExePath
         /\ s.loadAddr = Mapped(f)
         /\ f = ExePath => s.exeRegions = s.codeRegions

\* The static variables when the line m was the last one.
After(s, m) ==
    /\ Rested(s) /\ s.prevEnd = m.end
    /\ \A f \in Files : \A p \in Names(f) : m = Line(f, p) => Seen(s, f, p)
    /\ m.file \in {HeapPath, StackPath} => s.codeRegions = 0
    /\ InGap(m.start) => s.exeRegions = 1 /\ s.exeLoad = exeBase

\* A region of the list is a line of the map, and its type and its load address are right.
RightSection(r, f, p) ==
    /\ r.start = Start(f, p) /\ r.x = (p = "text")
    /\ r.file = IF p = "bss" THEN NoFile ELSE f
    /\ r.type = IF Fifth(f, p) THEN "misc" ELSE IF f = ExePath THEN "exe" ELSE "code"
    /\ r.load = IF Fifth(f, p) THEN r.start ELSE Mapped(f)

Right(r) ==
    \/ \E f \in Files : \E p \in Names(f) : RightSection(r, f, p)
    \/ r.file = HeapPath /\ r.type = "heap" /\ r.x = FALSE /\ r.start = HeapMin /\ r.end <= heapEnd
    \/ r.file = StackPath /\ r.type = "stack" /\ r.x = FALSE

Region == [start : Nat, end : Nat, x : BOOLEAN, file : File \cup {NoFile, HeapPath, StackPath},
           type : {"exe", "code", "heap", "stack", "misc"}, load : Nat]

AllRight(q) == q \in Seq(Region) /\ \A k \in DOMAIN q : Right(q[k])

RegionsInv == Rested(scan) /\ AllRight(rlist)

-----------------------------------------------------------------------------
(***************************************************************************)
(* Where the lines of the map are.                                         *)
(***************************************************************************)
LEMMA SectionPlaces ==
    ASSUME MapInv, NEW f \in Files
    PROVE  /\ f \in File /\ Mapped(f) \in Nat \ {0}
           /\ f # ExePath => f \in Lib /\ Mapped(f) = base[f] /\ Mapped(f) \in LoadAddr[f]
           /\ f = ExePath => Mapped(f) = exeBase /\ exeBase \in ExeBases
           /\ parts[f] \subseteq {"hole", "rodata", "data", "bss"}
           /\ "bss" \in parts[f] => "data" \in parts[f]
           /\ "hole" \in parts[f] => f # ExePath
           /\ \A s \in Names(f) :
                 /\ s \in {"text", "hole", "rodata", "data", "bss"}
                 /\ Slot(s) \in 0..4 /\ (s = "text" <=> Slot(s) = 0)
                 /\ Start(f, s) \in Nat
                 /\ Start(f, s) = Mapped(f) + Slot(s) + (IF f = ExePath /\ s # "text" THEN 4 ELSE 0)
<1>1. f \in File /\ Mapped(f) # 0
  BY DEF Files
<1>2. f # ExePath => f \in Lib /\ Mapped(f) = base[f]
  BY <1>1 DEF File, Mapped
<1>3. f = ExePath => Mapped(f) = exeBase /\ exeBase \in ExeBases
  BY DEF MapInv, Mapped
<1>4. Mapped(f) \in Nat \ {0} /\ (f # ExePath => Mapped(f) \in LoadAddr[f])
  BY <1>1, <1>2, <1>3, LoaderAssumption DEF MapInv
<1>5. /\ parts[f] \subseteq {"hole", "rodata", "data", "bss"}
      /\ "bss" \in parts[f] => "data" \in parts[f]
      /\ "hole" \in parts[f] => f # ExePath
  BY <1>1, LoaderAssumption DEF MapInv
<1>6. ASSUME NEW s \in Names(f)
      PROVE  /\ s \in {"text", "hole", "rodata", "data", "bss"}
             /\ Slot(s) \in 0..4 /\ (s = "text" <=> Slot(s) = 0)
  BY <1>5 DEF Names, Slot
<1>7. ASSUME NEW s \in Names(f)
      PROVE  /\ Start(f, s) \in Nat
             /\ Start(f, s) = Mapped(f) + Slot(s) + (IF f = ExePath /\ s # "text" THEN 4 ELSE 0)
  BY <1>4, <1>6 DEF Start, Gap
<1> QED
  BY <1>1, <1>2, <1>3, <1>4, <1>5, <1>6, <1>7

\* The executable is always mapped.
LEMMA ExeMapped ==
    ASSUME MapInv
    PROVE  ExePath \in Files /\ Mapped(ExePath) = exeBase /\ exeBase \in Nat \ {0}
  BY LoaderAssumption DEF MapInv, Files, File, Mapped

HeapLine  == Area(HeapPath, HeapMin, heapEnd)
StackLine == Area(StackPath, StackRange[1], StackRange[2])

LEMMA SectionLines ==
    ASSUME MapInv, NEW f \in Files
    PROVE  Sections(f, Mapped(f)) = {Line(f, s) : s \in Names(f)}
<1> DEFINE b   == Mapped(f)
           gap == IF f = ExePath THEN Gap ELSE 0
           at  == [text |-> b, hole |-> b + 1, rodata |-> b + 2 + gap, data |-> b + 3 + gap,
                   bss |-> b + 4 + gap]
<1>1. Sections(f, b) = {Section(f, s, at[s]) : s \in Names(f)}
  BY DEF Sections, Names
<1>2. ASSUME NEW s \in Names(f)
      PROVE  at[s] = Start(f, s)
  <2>1. s \in {"text", "hole", "rodata", "data", "bss"} /\ b \in Nat /\ (s = "hole" => f # ExePath)
    BY SectionPlaces DEF Names
  <2>2. /\ at["text"] = b /\ at["hole"] = b + 1 /\ at["rodata"] = b + 2 + gap
        /\ at["data"] = b + 3 + gap /\ at["bss"] = b + 4 + gap
    OBVIOUS
  <2>3. gap = IF f = ExePath THEN 4 ELSE 0
    BY DEF Gap
  <2>4. /\ Slot("text") = 0 /\ Slot("hole") = 1 /\ Slot("rodata") = 2
        /\ Slot("data") = 3 /\ Slot("bss") = 4
    BY DEF Slot
  <2>5. Start(f, s) = b + Slot(s) + IF f = ExePath /\ s # "text" THEN 4 ELSE 0
    BY DEF Start, Gap
  <2> HIDE DEF at, gap, b
  <2> QED
    BY <2>1, <2>2, <2>3, <2>4, <2>5
<1> HIDE DEF at
<1> QED
  BY <1>1, <1>2 DEF Line

LEMMA MapLines ==
    ASSUME MapInv
    PROVE  /\ \A f \in Files : \A s \in Names(f) : Line(f, s) \in MapSet
           /\ StackLine \in MapSet /\ (heapEnd # 0 => HeapLine \in MapSet)
           /\ \A m \in MapSet : \/ \E f \in Files : \E s \in Names(f) : m = Line(f, s)
                                \/ m = StackLine
                                \/ heapEnd # 0 /\ m = HeapLine
<1>1. ASSUME NEW m
      PROVE  m \in MapSet <=> \/ \E f \in Files : m \in Sections(f, Mapped(f))
                              \/ m = StackLine
                              \/ heapEnd # 0 /\ m = HeapLine
  BY DEF MapSet, Files, StackLine, HeapLine
<1>2. \A m : (\E f \in Files : m \in Sections(f, Mapped(f)))
                <=> (\E f \in Files : \E s \in Names(f) : m = Line(f, s))
  BY SectionLines
<1> QED
  BY <1>1, <1>2

\* The fields of the lines.
LEMMA LineFields ==
    /\ \A f, s : LET m == Line(f, s)
                 IN  /\ m.start = Start(f, s) /\ m.end = Start(f, s) + 1
                     /\ m.x = (s = "text") /\ m.w = (s \in {"data", "bss"}) /\ m.r = (s # "hole")
                     /\ m.file = IF s = "bss" THEN NoFile ELSE f
    /\ /\ HeapLine.start = HeapMin /\ HeapLine.end = heapEnd
       /\ HeapLine.x = FALSE /\ HeapLine.w = TRUE /\ HeapLine.file = HeapPath
    /\ /\ StackLine.start = StackRange[1] /\ StackLine.end = StackRange[2]
       /\ StackLine.x = FALSE /\ StackLine.w = TRUE /\ StackLine.file = StackPath
  BY DEF Line, Section, HeapLine, StackLine, Area

\* .text is listed.
LEMMA TextFields ==
    \A f : Line(f, "text").x /\ IsListed(Line(f, "text")) /\ Line(f, "text").file = f
<1> TAKE f
<1>1. /\ Line(f, "text").x = ("text" = "text") /\ Line(f, "text").r = ("text" # "hole")
      /\ Line(f, "text").file = IF "text" = "bss" THEN NoFile ELSE f
  BY DEF Line, Section
<1>2. ("text" = "text") = TRUE /\ ("text" # "hole") = TRUE /\ ("text" = "bss") = FALSE
  OBVIOUS
<1> QED
  BY <1>1, <1>2 DEF IsListed

\* The heap and the stack are outside of every file.
LEMMA AreasOutside ==
    ASSUME MapInv, NEW f \in Files
    PROVE  Outside(HeapMin, f) /\ Outside(StackRange[1], f)
<1>1. HeapMin \in Nat /\ HeapMax \in Nat /\ StackRange[1] \in Nat /\ StackRange[2] \in Nat
  BY LoaderAssumption
<1>2. CASE f = ExePath
  <2>1. \A s \in Names(f) : Start(f, s) < exeBase + 9
    BY <1>2, SectionPlaces
  <2>2. exeBase + 9 <= HeapMin /\ HeapMin < StackRange[1] /\ exeBase \in Nat
    BY <1>1, ExeMapped, LoaderAssumption DEF MapInv, Gap
  <2>3. \A s \in Names(f) : Start(f, s) \in Nat
    BY SectionPlaces
  <2>4. \A s \in Names(f) : Start(f, s) < HeapMin /\ Start(f, s) < StackRange[1]
    BY <1>1, <2>1, <2>2, <2>3
  <2> QED
    BY <2>4 DEF Outside
<1>3. CASE f # ExePath
  <2> DEFINE b == Mapped(f)
  <2>1. f \in Lib /\ b \in LoadAddr[f] /\ b \in Nat
    BY <1>3, SectionPlaces
  <2>2. /\ b + 5 <= HeapMin \/ HeapMax <= b
        /\ b + 5 <= StackRange[1] \/ StackRange[2] <= b
        /\ HeapMin < HeapMax /\ StackRange[1] < StackRange[2]
    BY <2>1, LoaderAssumption
  <2>3. \A s \in Names(f) : Start(f, s) \in Nat /\ Start(f, s) < b + 5
    BY <1>3, SectionPlaces
  <2> HIDE DEF b
  <2>4. (HeapMin < b \/ \A s \in Names(f) : Start(f, s) < HeapMin)
        /\ (StackRange[1] < b \/ \A s \in Names(f) : Start(f, s) < StackRange[1])
    BY <1>1, <2>1, <2>2, <2>3
  <2> QED
    BY <2>4 DEF Outside, b
<1> QED
  BY <1>2, <1>3

\* What is outside of a file begins where none of its lines does.
LEMMA OutsideElsewhere ==
    ASSUME MapInv, NEW f \in Files, NEW x \in Nat, Outside(x, f), NEW s \in Names(f)
    PROVE  x # Start(f, s)
<1>1. /\ Start(f, s) \in Nat /\ Mapped(f) \in Nat /\ Mapped(f) <= Start(f, s)
      /\ s = "text" => Start(f, s) = Mapped(f)
  BY SectionPlaces
<1>2. CASE x < Mapped(f) \/ \A p \in Names(f) : Start(f, p) < x
  BY <1>1, <1>2
<1>3. CASE f = ExePath /\ x # exeBase /\ InGap(x)
  <2>1. s = "text" \/ s \in parts[ExePath]
    BY <1>3 DEF Names
  <2>2. s = "text" => Start(f, s) = exeBase
    BY <1>1, <1>3, SectionPlaces
  <2>3. s \in parts[ExePath] => x < Start(f, s)
    BY <1>3 DEF InGap
  <2> QED
    BY <1>1, <1>3, <2>1, <2>2, <2>3
<1> QED
  BY <1>2, <1>3 DEF Outside

LEMMA SlotsDiffer ==
    ASSUME MapInv, NEW f \in Files, NEW s \in Names(f), NEW p \in Names(f)
    PROVE  /\ Start(f, s) = Start(f, p) => s = p
           /\ Start(f, s) < Start(f, p) <=> Slot(s) < Slot(p)
<1>1. \A q \in Names(f) : q \in {"text", "hole", "rodata", "data", "bss"} /\ Start(f, q) \in Nat
         /\ Slot(q) \in 0..4 /\ (q = "text" <=> Slot(q) = 0)
         /\ Start(f, q) = Mapped(f) + Slot(q) + (IF f = ExePath /\ q # "text" THEN 4 ELSE 0)
  BY SectionPlaces
<1>2. Mapped(f) \in Nat
  BY SectionPlaces
<1>3. Slot(s) = Slot(p) => s = p
  BY <1>1 DEF Slot
<1>4. /\ Slot(s) < Slot(p) => Start(f, s) < Start(f, p)
      /\ Slot(p) < Slot(s) => Start(f, p) < Start(f, s)
  BY <1>1, <1>2
<1> QED
  BY <1>1, <1>3, <1>4

\* Every line begins somewhere else.
LEMMA MapDistinct ==
    ASSUME MapInv, NEW m \in MapSet, NEW n \in MapSet, m.start = n.start
    PROVE  m = n
<1> DEFINE InFile(z) == \E f \in Files : \E s \in Names(f) : z = Line(f, s)
<1>1. \A z \in MapSet : InFile(z) \/ z = StackLine \/ (heapEnd # 0 /\ z = HeapLine)
  BY MapLines
<1>2. ASSUME NEW f \in Files, NEW s \in Names(f), NEW z \in MapSet, z.start = Start(f, s)
      PROVE  z = Line(f, s)
  <2>1. CASE z = StackLine \/ z = HeapLine
    <3>1. z.start \in {HeapMin, StackRange[1]}
      BY <2>1, LineFields
    <3>2. z.start \in Nat /\ Outside(z.start, f)
      BY <3>1, AreasOutside, LoaderAssumption
    <3> QED
      BY <1>2, <3>2, OutsideElsewhere
  <2>2. CASE InFile(z)
    <3>1. PICK g \in Files : \E p \in Names(g) : z = Line(g, p)
      BY <2>2
    <3> PICK p \in Names(g) : z = Line(g, p)
      BY <3>1
    <3>2. z.start = Start(g, p) /\ Start(g, p) \in Nat
      BY <3>1, LineFields, SectionPlaces
    <3>3. CASE g = f
      BY <1>2, <3>1, <3>2, <3>3, SlotsDiffer
    <3>4. CASE g # f
      <4>1. Outside(Start(g, p), f)
        BY <3>4 DEF MapInv, Apart
      <4> QED
        BY <1>2, <3>2, <4>1, OutsideElsewhere
    <3> QED
      BY <3>3, <3>4
  <2> QED
    BY <1>1, <2>1, <2>2
<1>3. HeapLine.start # StackLine.start
  BY LineFields, LoaderAssumption
<1>4. ASSUME NEW y \in MapSet, NEW z \in MapSet, y.start = z.start, InFile(y)
      PROVE  y = z
  <2>1. PICK f \in Files : \E s \in Names(f) : y = Line(f, s)
    BY <1>4
  <2> PICK s \in Names(f) : y = Line(f, s)
    BY <2>1
  <2>2. z.start = Start(f, s)
    BY <1>4, <2>1, LineFields
  <2> QED
    BY <1>2, <2>1, <2>2
<1>5. CASE InFile(m) \/ InFile(n)
  BY <1>4, <1>5
<1>6. CASE ~InFile(m) /\ ~InFile(n)
  BY <1>1, <1>3, <1>6
<1> QED
  BY <1>5, <1>6

\* The starts are numbers.
LEMMA MapStarts ==
    ASSUME MapInv, NEW m \in MapSet
    PROVE  m.start \in Nat /\ m.end \in Nat
<1>1. CASE \E f \in Files : \E s \in Names(f) : m = Line(f, s)
  <2>1. PICK f \in Files : \E s \in Names(f) : m = Line(f, s)
    BY <1>1
  <2> PICK s \in Names(f) : m = Line(f, s)
    BY <2>1
  <2>2. m.start = Start(f, s) /\ m.end = Start(f, s) + 1
    BY LineFields
  <2>3. Start(f, s) \in Nat
    BY SectionPlaces
  <2> QED
    BY <2>2, <2>3
<1>2. CASE m = StackLine \/ (heapEnd # 0 /\ m = HeapLine)
  BY <1>2, LineFields, LoaderAssumption DEF MapInv
<1> QED
  BY <1>1, <1>2, MapLines
-----------------------------------------------------------------------------
(***************************************************************************)
(* The lines in the order of their addresses.                              *)
(***************************************************************************)
Below(M, x) == {n \in M : n.start < x}
Place0(M, m) == Cardinality(Below(M, m.start))

LEMMA Sorted ==
    ASSUME NEW M, IsFiniteSet(M), \A m \in M : m.start \in Nat,
           \A m, n \in M : m.start = n.start => m = n
    PROVE  /\ Cardinality(M) \in Nat
           /\ \A k \in 1..Cardinality(M) : \E m \in M : Place0(M, m) = k - 1
           /\ \A m \in M : Place0(M, m) \in 0..(Cardinality(M) - 1)
           /\ \A m, n \in M : Place0(M, m) < Place0(M, n) => m.start < n.start
           /\ \A m, n \in M : Place0(M, m) = Place0(M, n) => m = n
<1> DEFINE N       == Cardinality(M)
           rank(m) == Place0(M, m)
<1> USE DEF Place0
<1>1. N \in Nat
  BY FS_CardinalityType
<1>2. ASSUME NEW m \in M
      PROVE  IsFiniteSet(Below(M, m.start)) /\ rank(m) \in 0..(N - 1)
  <2>1. Below(M, m.start) \in SUBSET M /\ m \notin Below(M, m.start)
    BY DEF Below
  <2>2. IsFiniteSet(Below(M, m.start)) /\ rank(m) <= N /\ rank(m) # N
    BY <2>1, FS_Subset
  <2>3. rank(m) \in Nat
    BY <2>2, FS_CardinalityType
  <2> HIDE DEF rank
  <2> QED
    BY <1>1, <2>2, <2>3
<1>3. ASSUME NEW m \in M, NEW n \in M
      PROVE  /\ m.start <= n.start => rank(m) <= rank(n)
             /\ m.start < n.start => rank(m) # rank(n)
  <2>1. m.start <= n.start => Below(M, m.start) \in SUBSET Below(M, n.start)
    BY DEF Below
  <2>2. m.start < n.start => m \in Below(M, n.start) /\ m \notin Below(M, m.start)
    BY DEF Below
  <2>3. m.start < n.start => m.start <= n.start
    OBVIOUS
  <2>4. m.start <= n.start => rank(m) <= rank(n)
    BY <1>2, <2>1, FS_Subset
  <2>5. m.start < n.start => rank(m) # rank(n)
    BY <1>2, <2>1, <2>2, <2>3, FS_Subset
  <2> QED
    BY <2>4, <2>5
<1>9. \A m, n \in M : rank(m) = rank(n) => m = n
  <2> SUFFICES ASSUME NEW m \in M, NEW n \in M, rank(m) = rank(n) PROVE m = n
    OBVIOUS
  <2>1. ~(m.start < n.start) /\ ~(n.start < m.start)
    BY <1>3
  <2>2. m.start = n.start
    BY <2>1
  <2> QED
    BY <2>2
<1> DEFINE f == [m \in M |-> rank(m)]
<1>4. f \in Injection(M, 0..(N - 1))
  <2>1. \A m \in M : f[m] = rank(m) /\ f[m] \in 0..(N - 1)
    BY <1>2
  <2>2. \A m, n \in M : f[m] = f[n] => m = n
    BY <1>9
  <2> QED
    BY <2>1, <2>2 DEF Injection, IsInjective
<1>5. IsFiniteSet(0..(N - 1)) /\ Cardinality(0..(N - 1)) = N
  <2>1. 0 \in Int /\ N - 1 \in Int /\ (0 > N - 1 <=> N = 0) /\ N - 1 - 0 + 1 = N
    BY <1>1
  <2> HIDE DEF N
  <2> QED
    BY <2>1, FS_Interval
<1>6. f \in Surjection(M, 0..(N - 1))
  BY <1>4, <1>5, FS_Injection
<1>7. \A k \in 1..N : \E m \in M : rank(m) = k - 1
  <2>1. \A k \in 1..N : k - 1 \in 0..(N - 1)
    BY <1>1
  <2> QED
    BY <1>6, <2>1 DEF Surjection
<1>8. \A m, n \in M : rank(m) < rank(n) => m.start < n.start
  <2> SUFFICES ASSUME NEW m \in M, NEW n \in M, rank(m) < rank(n) PROVE m.start < n.start
    OBVIOUS
  <2>1. rank(m) \in Int /\ rank(n) \in Int
    BY <1>2
  <2> HIDE DEF rank
  <2>2. ~(rank(n) <= rank(m))
    BY <2>1
  <2>3. ~(n.start <= m.start)
    BY <1>3, <2>2
  <2> QED
    BY <2>3
<1> QED
  BY <1>1, <1>2, <1>7, <1>8, <1>9

LEMMA MapFinite ==
    ASSUME MapInv
    PROVE  IsFiniteSet(MapSet)
<1> DEFINE names == {"text", "hole", "rodata", "data", "bss"}
           P     == File \X names
           f     == [p \in P |-> Line(p[1], p[2])]
           R     == {f[p] : p \in P}
<1>1. IsFiniteSet(Lib)
  <2>1. LibList \in [1..Len(LibList) -> Lib] /\ Len(LibList) \in Nat
    BY StatMemAssumption
  <2>2. Lib = {LibList[k] : k \in 1..Len(LibList)}
    BY <2>1, StatMemAssumption DEF ToSet
  <2>3. LibList \in Surjection(1..Len(LibList), Lib)
    BY <2>1, <2>2 DEF Surjection
  <2> QED
    BY <2>1, <2>3, FS_Interval, FS_Surjection
<1>2. IsFiniteSet(File)
  BY <1>1, FS_AddElement DEF File
<1>3. IsFiniteSet(names)
  <2>1. IsFiniteSet({"text"}) /\ IsFiniteSet({"text"} \cup {"hole"})
    BY FS_Singleton, FS_AddElement
  <2>2. IsFiniteSet(({"text"} \cup {"hole"}) \cup {"rodata"})
    BY <2>1, FS_AddElement
  <2>3. IsFiniteSet((({"text"} \cup {"hole"}) \cup {"rodata"}) \cup {"data"})
    BY <2>2, FS_AddElement
  <2>4. IsFiniteSet(((({"text"} \cup {"hole"}) \cup {"rodata"}) \cup {"data"}) \cup {"bss"})
    BY <2>3, FS_AddElement
  <2>5. names = ((({"text"} \cup {"hole"}) \cup {"rodata"}) \cup {"data"}) \cup {"bss"}
    OBVIOUS
  <2> QED
    BY <2>4, <2>5
<1>4. IsFiniteSet(P)
  BY <1>2, <1>3, FS_Product
<1>5. IsFiniteSet(R)
  <2>1. f \in Surjection(P, R)
    BY DEF Surjection
  <2> QED
    BY <1>4, <2>1, FS_Surjection
<1>6. IsFiniteSet((R \cup {StackLine}) \cup {HeapLine})
  BY <1>5, FS_AddElement
<1>7. ASSUME NEW m \in MapSet
      PROVE  m \in (R \cup {StackLine}) \cup {HeapLine}
  <2>1. ASSUME NEW g \in Files, NEW s \in Names(g)
        PROVE  Line(g, s) \in R
    <3>1. <<g, s>> \in P
      BY SectionPlaces
    <3>2. f[<<g, s>>] = Line(g, s)
      BY <3>1
    <3> QED
      BY <3>1, <3>2
  <2> HIDE DEF R
  <2> QED
    BY <2>1, MapLines
<1> QED
  BY <1>6, <1>7, FS_Subset

\* Maps holds every line once, in the order of the starts.
LEMMA MapsSorted ==
    ASSUME MapInv
    PROVE  \E N \in Nat :
              /\ Maps = [k \in 1..N |-> Maps[k]]
              /\ \A k \in 1..N : Maps[k] \in MapSet
              /\ \A m \in MapSet : \E k \in 1..N : Maps[k] = m
              /\ \A j, k \in 1..N : j < k => Maps[j].start < Maps[k].start
<1>1. IsFiniteSet(MapSet)
  BY MapFinite
<1>2. \A m \in MapSet : m.start \in Nat
  BY MapStarts
<1>3. \A m, n \in MapSet : m.start = n.start => m = n
  BY MapDistinct
<1> DEFINE N == Cardinality(MapSet)
<1>4. Maps = [k \in 1..N |-> CHOOSE m \in MapSet : Place0(MapSet, m) = k - 1]
  BY DEF Maps, Below, Place0
<1>5. /\ N \in Nat
      /\ \A k \in 1..N : \E m \in MapSet : Place0(MapSet, m) = k - 1
      /\ \A m \in MapSet : Place0(MapSet, m) \in 0..(N - 1)
      /\ \A m, n \in MapSet : Place0(MapSet, m) < Place0(MapSet, n) => m.start < n.start
      /\ \A m, n \in MapSet : Place0(MapSet, m) = Place0(MapSet, n) => m = n
  BY <1>1, <1>2, <1>3, Sorted
<1> HIDE DEF N
<1>6. \A k \in 1..N : Maps[k] \in MapSet /\ Place0(MapSet, Maps[k]) = k - 1
  BY <1>4, <1>5
<1>7. ASSUME NEW j \in 1..N, NEW k \in 1..N, j < k
      PROVE  Maps[j].start < Maps[k].start
  BY <1>5, <1>6, <1>7
<1>8. ASSUME NEW m \in MapSet
      PROVE  \E k \in 1..N : Maps[k] = m
  <2> DEFINE k == Place0(MapSet, m) + 1
  <2>1. k \in 1..N /\ k - 1 = Place0(MapSet, m)
    BY <1>5
  <2>2. Maps[k] \in MapSet /\ Place0(MapSet, Maps[k]) = Place0(MapSet, m)
    BY <1>6, <2>1
  <2> HIDE DEF k
  <2> QED
    BY <1>5, <2>1, <2>2
<1>9. Maps = [k \in 1..N |-> Maps[k]]
  BY <1>4
<1> QED
  BY <1>5, <1>6, <1>7, <1>8, <1>9
\* A line of the map that is not of a file lies outside of it.
LEMMA OthersOutside ==
    ASSUME MapInv, NEW f \in Files, NEW m \in MapSet, \A s \in Names(f) : m # Line(f, s)
    PROVE  Outside(m.start, f)
<1>1. CASE \E g \in Files : \E s \in Names(g) : m = Line(g, s)
  <2>1. PICK g \in Files : \E s \in Names(g) : m = Line(g, s)
    BY <1>1
  <2> PICK s \in Names(g) : m = Line(g, s)
    BY <2>1
  <2>2. m.start = Start(g, s) /\ g # f
    BY LineFields
  <2> QED
    BY <2>2 DEF MapInv, Apart
<1>2. CASE m = StackLine \/ m = HeapLine
  BY <1>2, LineFields, AreasOutside
<1> QED
  BY <1>1, <1>2, MapLines

\* No line of two files, and none of the heap or the stack, is the same.
LEMMA SameLine ==
    ASSUME MapInv, NEW f \in Files, NEW s \in Names(f), NEW g \in Files, NEW p \in Names(g),
           Line(f, s) = Line(g, p)
    PROVE  f = g /\ s = p
<1>1. Start(f, s) = Start(g, p) /\ Start(f, s) \in Nat
  BY LineFields, SectionPlaces
<1>2. f = g
  <2> SUFFICES ASSUME f # g PROVE FALSE
    OBVIOUS
  <2>1. Outside(Start(f, s), g)
    BY DEF MapInv, Apart
  <2> QED
    BY <1>1, <2>1, OutsideElsewhere
<1> QED
  BY <1>1, <1>2, SlotsDiffer

\* The line directly before another one.
Before(p, m) == p.start < m.start /\ \A n \in MapSet : ~(p.start < n.start /\ n.start < m.start)

\* Of the sections of f, s is the next one behind t.
Follows(f, t, s) == Slot(t) < Slot(s) /\ \A u \in Names(f) : ~(Slot(t) < Slot(u) /\ Slot(u) < Slot(s))

LEMMA PrevOfSection ==
    ASSUME MapInv, NEW f \in Files, NEW s \in Names(f), s # "text",
           NEW p \in MapSet, Before(p, Line(f, s))
    PROVE  \/ \E t \in Names(f) : /\ p = Line(f, t) /\ Follows(f, t, s)
                                  /\ s = "bss" => p.end = Start(f, s)
           \/ /\ f = ExePath /\ s # "bss" /\ InGap(p.start)
              /\ Follows(f, "text", s) /\ \A t \in Names(f) : p # Line(f, t)
<1>1. /\ p.start \in Nat /\ Start(f, s) \in Nat /\ p.start < Start(f, s)
      /\ \A n \in MapSet : ~(p.start < n.start /\ n.start < Start(f, s))
  BY MapStarts, LineFields, SectionPlaces DEF Before
<1>2. ASSUME NEW t \in Names(f), Start(f, t) < Start(f, s)
      PROVE  Start(f, t) <= p.start
  <2>1. Line(f, t) \in MapSet /\ Line(f, t).start = Start(f, t) /\ Start(f, t) \in Nat
    BY MapLines, LineFields, SectionPlaces
  <2>2. ~(p.start < Start(f, t))
    BY <1>1, <1>2, <2>1
  <2> QED
    BY <1>1, <2>1, <2>2
<1>3. Mapped(f) <= p.start /\ Mapped(f) \in Nat
  <2>1. "text" \in Names(f) /\ Start(f, "text") = Mapped(f) /\ Mapped(f) \in Nat
    BY SectionPlaces DEF Names
  <2>2. Mapped(f) < Start(f, s)
    BY SectionPlaces
  <2> QED
    BY <1>2, <2>1, <2>2
<1>4. s = "bss" => /\ "data" \in Names(f) /\ Start(f, "data") + 1 = Start(f, s)
                   /\ Start(f, "data") \in Nat /\ Slot("data") = 3 /\ Slot(s) = 4
                   /\ Start(f, "data") <= p.start
  <2> SUFFICES ASSUME s = "bss" PROVE /\ "data" \in Names(f) /\ Start(f, "data") + 1 = Start(f, s)
                   /\ Start(f, "data") \in Nat /\ Slot("data") = 3 /\ Slot(s) = 4
                   /\ Start(f, "data") <= p.start
    OBVIOUS
  <2>1. "data" \in Names(f) /\ Slot("data") = 3 /\ Slot(s) = 4
    BY SectionPlaces DEF Names, Slot
  <2>2. Start(f, "data") + 1 = Start(f, s) /\ Start(f, "data") \in Nat
    BY <1>1, <1>3, <2>1 DEF Start, Gap
  <2> QED
    BY <1>2, <2>1, <2>2
<1>5. CASE \E t \in Names(f) : p = Line(f, t)
  <2> PICK t \in Names(f) : p = Line(f, t)
    BY <1>5
  <2>1. p.start = Start(f, t) /\ p.end = Start(f, t) + 1
    BY LineFields
  <2>2. Follows(f, t, s)
    <3>1. Slot(t) < Slot(s)
      BY <1>1, <2>1, SlotsDiffer
    <3>2. ASSUME NEW u \in Names(f), Slot(t) < Slot(u), Slot(u) < Slot(s)
          PROVE  FALSE
      <4>1. Start(f, t) < Start(f, u) /\ Start(f, u) < Start(f, s)
        BY <3>2, SlotsDiffer
      <4>2. Line(f, u) \in MapSet /\ Line(f, u).start = Start(f, u)
        BY MapLines, LineFields
      <4> QED
        BY <1>1, <2>1, <4>1, <4>2
    <3> QED
      BY <3>1, <3>2 DEF Follows
  <2>3. s = "bss" => p.end = Start(f, s)
    BY <1>1, <1>4, <2>1
  <2> QED
    BY <2>2, <2>3
<1>6. CASE \A t \in Names(f) : p # Line(f, t)
  <2>1. Outside(p.start, f)
    BY <1>6, OthersOutside
  <2>2. ~(p.start < Mapped(f)) /\ ~(Start(f, s) < p.start)
    BY <1>1, <1>3
  <2>3. f = ExePath /\ InGap(p.start)
    BY <2>1, <2>2 DEF Outside
  <2>4. s # "bss"
    <3>1. SUFFICES ASSUME s = "bss" PROVE FALSE
      OBVIOUS
    <3>2. "data" \in parts[ExePath]
      BY <1>4, <2>3, <3>1 DEF Names
    <3>3. p.start < Start(f, "data")
      BY <2>3, <3>2 DEF InGap
    <3> QED
      BY <1>1, <1>4, <3>1, <3>3
  <2>5. Follows(f, "text", s)
    <3>1. "text" \in Names(f) /\ Slot("text") < Slot(s)
      BY SectionPlaces DEF Names
    <3>2. ASSUME NEW u \in Names(f), Slot("text") < Slot(u), Slot(u) < Slot(s)
          PROVE  FALSE
      <4>1. u # "text" /\ u \in parts[ExePath]
        BY <2>3, <3>1, <3>2, SectionPlaces DEF Names
      <4>2. p.start < Start(f, u) /\ Start(f, u) \in Nat
        BY <2>3, <4>1, SectionPlaces DEF InGap
      <4>3. Start(f, u) <= p.start
        BY <1>2, <3>2, SlotsDiffer
      <4> QED
        BY <1>1, <4>2, <4>3
    <3> QED
      BY <3>1, <3>2 DEF Follows
  <2> QED
    BY <1>6, <2>3, <2>4, <2>5
<1> QED
  BY <1>5, <1>6

\* Counting the regions of a file.
LEMMA Numbers ==
    ASSUME MapInv, NEW f \in Files
    PROVE  /\ Nr(f, "text") = 1 /\ ~Fifth(f, "text")
           /\ \A p \in Names(f) : /\ Nr(f, p) \in 1..5
                                  /\ Nr(f, p) = 5 <=> Fifth(f, p)
                                  /\ f = ExePath => ~Fifth(f, p)
           /\ \A p, q \in Names(f) : Follows(f, p, q) => Nr(f, q) = Nr(f, p) + 1 /\ ~Fifth(f, p)
<1>1. /\ parts[f] \subseteq {"hole", "rodata", "data", "bss"}
      /\ "bss" \in parts[f] => "data" \in parts[f]
      /\ "hole" \in parts[f] => f # ExePath
      /\ \A p \in Names(f) : p \in {"text", "hole", "rodata", "data", "bss"}
  BY SectionPlaces
<1>2. /\ Slot("text") = 0 /\ Slot("hole") = 1 /\ Slot("rodata") = 2
      /\ Slot("data") = 3 /\ Slot("bss") = 4
  BY DEF Slot
<1>3. Nr(f, "text") = 1 /\ ~Fifth(f, "text")
  BY <1>2 DEF Nr, One, Fifth
<1>4. ASSUME NEW p \in Names(f)
      PROVE  Nr(f, p) \in 1..5 /\ (Nr(f, p) = 5 <=> Fifth(f, p)) /\ (f = ExePath => ~Fifth(f, p))
  <2>1. p \in parts[f] \/ p = "text"
    BY DEF Names
  <2> QED
    BY <1>1, <1>2, <2>1 DEF Nr, One, Fifth
<1>5. ASSUME NEW p \in Names(f), NEW q \in Names(f), Follows(f, p, q)
      PROVE  Nr(f, q) = Nr(f, p) + 1 /\ ~Fifth(f, p)
  <2>1. Slot(p) < Slot(q) /\ \A u \in parts[f] : ~(Slot(p) < Slot(u) /\ Slot(u) < Slot(q))
    BY <1>5 DEF Follows, Names
  <2>2. q \in parts[f]
    BY <1>1, <1>2, <2>1 DEF Names
  <2> QED
    BY <1>1, <1>2, <2>1, <2>2 DEF Nr, One, Fifth
<1> QED
  BY <1>3, <1>4, <1>5

\* The first line of a file is its .text.
LEMMA SectionNotFirst ==
    ASSUME MapInv, NEW f \in Files, NEW s \in Names(f), s # "text"
    PROVE  Line(f, "text") \in MapSet /\ Line(f, "text").start < Line(f, s).start
<1>1. "text" \in Names(f)
  BY DEF Names
<1>2. Start(f, "text") < Start(f, s)
  BY <1>1, SectionPlaces
<1> QED
  BY <1>1, <1>2, MapLines, LineFields
-----------------------------------------------------------------------------
(***************************************************************************)
(* process_map(), line by line.                                            *)
(***************************************************************************)
Scanned(s, m) == [Open(Continue(s, m), m) EXCEPT !.prevEnd = m.end]

Listed(s, m) == [start |-> m.start, end |-> m.end, x |-> m.x, file |-> m.file,
                 type |-> RegionType(s, m), load |-> s.loadAddr]

LEMMA ProcessMapIs ==
    ASSUME NEW acc, NEW m
    PROVE  ProcessMap(acc, m) =
              [scan  |-> Scanned(acc.scan, m),
               rlist |-> IF IsListed(m) THEN Append(acc.rlist, Listed(Scanned(acc.scan, m), m))
                         ELSE acc.rlist]
  BY DEF ProcessMap, Scanned, Listed

\* What process_map() has seen when it comes to the line m.
Ready(s, m) ==
    /\ Rested(s)
    /\ \/ \A n \in MapSet : ~(n.start < m.start)
       \/ \E p \in MapSet : Before(p, m) /\ After(s, p)

\* In the gap of the executable its .text stays in mind.
LEMMA GapReady ==
    ASSUME MapInv, NEW m \in MapSet, NEW s, Ready(s, m), InGap(m.start), m # Line(ExePath, "text")
    PROVE  s.exeRegions = 1 /\ s.exeLoad = exeBase
<1> DEFINE t == Line(ExePath, "text")
<1>1. ExePath \in Files /\ "text" \in Names(ExePath) /\ exeBase \in Nat
  BY ExeMapped DEF Names
<1>2. t \in MapSet /\ t.start = exeBase
  BY <1>1, MapLines, LineFields, SectionPlaces
<1>3. m.start \in Nat /\ t.start # m.start
  BY <1>2, MapDistinct, MapStarts
<1>4. t.start < m.start
  BY <1>1, <1>2, <1>3 DEF InGap
<1>5. PICK p \in MapSet : Before(p, m) /\ After(s, p)
  BY <1>2, <1>4 DEF Ready
<1>6. p.start \in Nat /\ p.start < m.start /\ ~(p.start < t.start)
  BY <1>2, <1>4, <1>5, MapStarts DEF Before
<1>7. InGap(p.start)
  <2>1. exeBase <= p.start
    BY <1>1, <1>2, <1>6
  <2>2. ASSUME NEW q \in parts[ExePath]
        PROVE  p.start < Start(ExePath, q)
    <3>1. Start(ExePath, q) \in Nat
      BY <1>1, SectionPlaces DEF Names
    <3>2. m.start < Start(ExePath, q)
      BY DEF InGap
    <3> QED
      BY <1>3, <1>6, <3>1, <3>2
  <2> QED
    BY <2>1, <2>2 DEF InGap
<1> QED
  BY <1>5, <1>7 DEF After

\* Outside of the regions of an ELF file.
Between(s, c) ==
    /\ c \in ScanState /\ c.codeRegions = 0 /\ ~c.isExe /\ c.exeRegions < 2
    /\ c.exeLoad = s.exeLoad /\ (s.exeRegions = 1 => c.exeRegions = 1)

LEMMA ContinueEnds ==
    ASSUME NEW s, Rested(s), NEW m, s.codeRegions = 0 \/ LeavesFile(s, m)
    PROVE  Between(s, Continue(s, m))
<1>1. s \in ScanState
  BY DEF Rested
<1>2. CASE s.codeRegions = 0
  <2>1. Continue(s, m) = s
    BY <1>2 DEF Continue
  <2>2. ~s.isExe /\ s.exeRegions < 2
    BY <1>2 DEF Rested
  <2> QED
    BY <1>1, <1>2, <2>1, <2>2 DEF Between
<1>3. CASE s.codeRegions # 0 /\ LeavesFile(s, m)
  <2> DEFINE c == [s EXCEPT !.codeRegions = 0, !.isExe = FALSE, !.exeRegions = IF @ > 1 THEN 0 ELSE @]
  <2>1. Continue(s, m) = c
    BY <1>3 DEF Continue
  <2>2. c \in ScanState /\ c.codeRegions = 0 /\ c.isExe = FALSE /\ c.exeLoad = s.exeLoad
        /\ c.exeRegions = IF s.exeRegions > 1 THEN 0 ELSE s.exeRegions
    BY <1>1 DEF ScanState
  <2>3. s.exeRegions \in Nat
    BY <1>1 DEF ScanState
  <2> HIDE DEF c
  <2> QED
    BY <2>1, <2>2, <2>3 DEF Between
<1> QED
  BY <1>2, <1>3

\* .text opens a file.
LEMMA TextLine ==
    ASSUME MapInv, NEW f \in Files, NEW m, m = Line(f, "text"), NEW s, Ready(s, m)
    PROVE  After(Scanned(s, m), m) /\ Right(Listed(Scanned(s, m), m))
<1> DEFINE c == Continue(s, m)
           n == Scanned(s, m)
<1>0. "text" \in Names(f) /\ m \in MapSet
  BY MapLines DEF Names
<1>1. /\ m \in MapSet /\ "text" \in Names(f)
      /\ m.start = Mapped(f) /\ m.end \in Nat /\ m.x = TRUE /\ m.file = f
  <2>1. m.start = Start(f, "text") /\ m.x = TRUE /\ m.file = f
    BY LineFields
  <2>2. Start(f, "text") = Mapped(f)
    BY <1>0, SectionPlaces
  <2> QED
    BY <1>0, <2>1, <2>2, MapStarts
<1>2. Rested(s)
  BY DEF Ready
<1>3. Between(s, c)
  BY <1>1, <1>2, ContinueEnds DEF LeavesFile
<1>4. f # NoFile /\ f \in File /\ Mapped(f) \in Nat
  BY SectionPlaces, LoaderAssumption
<1> HIDE DEF c
<1> DEFINE o == [c EXCEPT !.codeRegions = 1, !.codePath = m.file,
                          !.exeRegions = IF m.file = ExePath THEN 1 ELSE @,
                          !.exeLoad = IF m.file = ExePath THEN m.start ELSE @,
                          !.isExe = @ \/ m.file = ExePath]
           d == [o EXCEPT !.loadAddr = m.start]
<1>a. c \in ScanState /\ c.codeRegions = 0 /\ c.isExe = FALSE
  BY <1>3 DEF Between, ScanState
<1>5. /\ o \in ScanState
      /\ o.codeRegions = 1 /\ o.codePath = f
      /\ o.exeRegions = IF f = ExePath THEN 1 ELSE c.exeRegions
      /\ o.exeLoad = IF f = ExePath THEN m.start ELSE c.exeLoad
      /\ o.isExe <=> f = ExePath
  <2>1. /\ o.codeRegions = 1 /\ o.codePath = f
        /\ o.exeRegions = IF f = ExePath THEN 1 ELSE c.exeRegions
        /\ o.exeLoad = IF f = ExePath THEN m.start ELSE c.exeLoad
        /\ o.isExe = (f = ExePath)
    BY <1>1, <1>a DEF ScanState
  <2>2. o \in ScanState
    BY <1>1, <1>4, <1>a DEF ScanState
  <2> QED
    BY <2>1, <2>2
<1>6. o.exeRegions < 2
  BY <1>3, <1>5 DEF Between
<1>7. Open(c, m) = d
  <2>1. (m.x /\ m.file # NoFile) = TRUE /\ (c.codeRegions > 0) = FALSE
    BY <1>1, <1>4, <1>a
  <2> QED
    BY <1>6, <2>1 DEF Open
<1> HIDE DEF o
<1>8. /\ n \in ScanState /\ n.codeRegions = 1 /\ n.codePath = f
      /\ n.exeRegions = o.exeRegions /\ n.exeLoad = o.exeLoad
      /\ n.isExe <=> f = ExePath
      /\ n.loadAddr = m.start /\ n.prevEnd = m.end
  BY <1>1, <1>4, <1>5, <1>7 DEF Scanned, ScanState, c
<1> HIDE DEF n
<1>9. Rested(n)
  BY <1>6, <1>8 DEF Rested
<1>10. ASSUME NEW g \in Files, NEW p \in Names(g), m = Line(g, p)
       PROVE  Seen(n, g, p)
  <2>1. g = f /\ p = "text"
    BY <1>1, <1>10, SameLine
  <2>2. Nr(f, "text") = 1 /\ ~Fifth(f, "text")
    BY Numbers
  <2> QED
    BY <1>1, <1>5, <1>8, <2>1, <2>2 DEF Seen
<1>11. InGap(m.start) => n.exeRegions = 1 /\ n.exeLoad = exeBase
  <2>1. CASE f = ExePath
    BY <1>1, <1>5, <1>8, <2>1, SectionPlaces
  <2>2. CASE f # ExePath
    <3>1. m # Line(ExePath, "text")
      BY <1>1, <2>2, SameLine, ExeMapped DEF Names
    <3> QED
      BY <1>1, <1>3, <1>5, <1>8, <2>2, <3>1, GapReady DEF Between
  <2> QED
    BY <2>1, <2>2
<1>12. After(n, m)
  BY <1>1, <1>4, <1>8, <1>9, <1>10, <1>11, LoaderAssumption DEF After
<1>13. Right(Listed(n, m))
  <2>1. /\ Listed(n, m).start = Start(f, "text") /\ Listed(n, m).x = TRUE /\ Listed(n, m).file = f
        /\ Listed(n, m).type = IF f = ExePath THEN "exe" ELSE "code"
        /\ Listed(n, m).load = Mapped(f)
    BY <1>1, <1>8, SectionPlaces DEF Listed, RegionType
  <2>2. ~Fifth(f, "text")
    BY Numbers
  <2> HIDE DEF n
  <2> QED
    BY <1>1, <2>1, <2>2 DEF Right, RightSection
<1> QED
  BY <1>12, <1>13 DEF n
\* A line that goes on with the file of the line before it.
LEMMA ContinuedLine ==
    ASSUME MapInv, NEW f \in Files, NEW q \in Names(f), q # "text", NEW m, m = Line(f, q),
           NEW s, Ready(s, m), NEW p \in MapSet, After(s, p),
           NEW t \in Names(f), p = Line(f, t), Follows(f, t, q), q = "bss" => p.end = Start(f, q),
           ~Fifth(f, q)
    PROVE  After(Scanned(s, m), m) /\ Right(Listed(Scanned(s, m), m))
<1> DEFINE c == Continue(s, m)
           n == Scanned(s, m)
<1>1. /\ m \in MapSet
      /\ m.start = Start(f, q) /\ m.end \in Nat /\ m.x = FALSE
      /\ m.file = IF q = "bss" THEN NoFile ELSE f
  <2>1. m \in MapSet
    BY MapLines
  <2>2. m.start = Start(f, q) /\ m.file = IF q = "bss" THEN NoFile ELSE f
    BY LineFields
  <2>3. m.x = FALSE
    <3>1. m.x = (q = "text") /\ (q = "text") = FALSE
      BY LineFields
    <3> QED
      BY <3>1
  <2> QED
    BY <2>1, <2>2, <2>3, MapStarts
<1>2. /\ s \in ScanState /\ s.prevEnd = p.end /\ s.codePath = f
      /\ s.codeRegions = Nr(f, t) /\ s.loadAddr = Mapped(f)
      /\ s.isExe <=> f = ExePath
      /\ f = ExePath => s.exeRegions = s.codeRegions
  BY Numbers DEF After, Rested, Seen
<1>3. s.codeRegions \in 1..3 /\ s.exeRegions \in Nat /\ s.codeRegions + 1 = Nr(f, q)
  <2>1. Nr(f, t) \in 1..5 /\ Nr(f, q) = Nr(f, t) + 1 /\ Nr(f, q) \in 1..5 /\ Nr(f, q) # 5
    BY Numbers
  <2>2. s.exeRegions \in Nat
    BY <1>2 DEF ScanState
  <2> QED
    BY <1>2, <2>1, <2>2
<1>4. f # NoFile /\ f \in File /\ Mapped(f) \in Nat
  BY SectionPlaces, LoaderAssumption
<1>5. ~LeavesFile(s, m)
  BY <1>1, <1>2, <1>3, <1>4 DEF LeavesFile
<1>6. c = [s EXCEPT !.codeRegions = @ + 1, !.exeRegions = IF s.isExe THEN @ + 1 ELSE @]
  BY <1>3, <1>5 DEF Continue
<1>7. /\ c \in ScanState /\ c.codeRegions = s.codeRegions + 1 /\ c.codePath = f
      /\ c.loadAddr = Mapped(f) /\ c.isExe = s.isExe /\ c.exeLoad = s.exeLoad
      /\ c.exeRegions = IF f = ExePath THEN s.exeRegions + 1 ELSE s.exeRegions
  <2>1. /\ c.codeRegions = s.codeRegions + 1 /\ c.codePath = f
        /\ c.loadAddr = Mapped(f) /\ c.isExe = s.isExe /\ c.exeLoad = s.exeLoad
        /\ c.exeRegions = IF f = ExePath THEN s.exeRegions + 1 ELSE s.exeRegions
    BY <1>2, <1>6 DEF ScanState
  <2>2. c \in ScanState
    <3> DEFINE x == s.codeRegions + 1
               y == IF s.isExe THEN s.exeRegions + 1 ELSE s.exeRegions
    <3>1. x \in Nat /\ y \in Nat
      BY <1>3
    <3>2. c = [s EXCEPT !.codeRegions = x, !.exeRegions = y]
      BY <1>6
    <3> HIDE DEF x, y
    <3> QED
      BY <1>2, <3>1, <3>2 DEF ScanState
  <2> QED
    BY <2>1, <2>2
<1> HIDE DEF c
<1>8. Open(c, m) = c
  <2>1. (c.codeRegions > 0) = TRUE
    BY <1>3, <1>7
  <2> QED
    BY <2>1 DEF Open
<1>9. /\ n \in ScanState /\ n.codeRegions = s.codeRegions + 1 /\ n.codePath = f
      /\ n.loadAddr = Mapped(f) /\ n.isExe = s.isExe /\ n.exeLoad = s.exeLoad
      /\ n.exeRegions = IF f = ExePath THEN s.exeRegions + 1 ELSE s.exeRegions
      /\ n.prevEnd = m.end
  <2>1. n = [c EXCEPT !.prevEnd = m.end]
    BY <1>8 DEF Scanned, c
  <2> HIDE DEF n
  <2>2. n \in ScanState
    BY <1>1, <1>7, <2>1 DEF ScanState
  <2>3. /\ n.codeRegions = c.codeRegions /\ n.codePath = c.codePath
        /\ n.loadAddr = c.loadAddr /\ n.isExe = c.isExe /\ n.exeLoad = c.exeLoad
        /\ n.exeRegions = c.exeRegions /\ n.prevEnd = m.end
    BY <1>7, <2>1 DEF ScanState
  <2> QED
    BY <1>7, <2>2, <2>3
<1> HIDE DEF n
<1>10. Rested(n)
  <2>1. n.codeRegions > 0
    BY <1>3, <1>9
  <2>2. ~n.isExe => n.exeRegions < 2
    BY <1>2, <1>9 DEF After, Rested
  <2> QED
    BY <1>9, <2>1, <2>2 DEF Rested
<1>11. ASSUME NEW g \in Files, NEW r \in Names(g), m = Line(g, r)
       PROVE  Seen(n, g, r)
  <2>1. g = f /\ r = q
    BY <1>11, SameLine
  <2> QED
    BY <1>2, <1>3, <1>9, <2>1 DEF Seen
<1>12. InGap(m.start) => n.exeRegions = 1 /\ n.exeLoad = exeBase
  <2>1. CASE f = ExePath
    <3>1. q \in parts[ExePath] /\ Start(f, q) \in Nat
      BY <2>1, SectionPlaces DEF Names
    <3>2. ~(Start(f, q) < Start(f, q))
      BY <3>1
    <3> QED
      BY <1>1, <2>1, <3>1, <3>2 DEF InGap
  <2>2. CASE f # ExePath
    <3>1. m # Line(ExePath, "text")
      BY <2>2, SameLine, ExeMapped DEF Names
    <3> QED
      BY <1>1, <1>9, <2>2, <3>1, GapReady
  <2> QED
    BY <2>1, <2>2
<1>13. After(n, m)
  BY <1>1, <1>4, <1>9, <1>10, <1>11, <1>12, LoaderAssumption DEF After
<1>14. Right(Listed(n, m))
  <2>1. RegionType(n, m) = IF f = ExePath THEN "exe" ELSE "code"
    <3>1. n.codeRegions > 0
      BY <1>3, <1>9
    <3> QED
      BY <1>2, <1>9, <3>1 DEF RegionType
  <2>2. /\ Listed(n, m).start = Start(f, q) /\ Listed(n, m).x = FALSE
        /\ Listed(n, m).file = IF q = "bss" THEN NoFile ELSE f
        /\ Listed(n, m).type = IF f = ExePath THEN "exe" ELSE "code"
        /\ Listed(n, m).load = Mapped(f)
    BY <1>1, <1>9, <2>1 DEF Listed
  <2> QED
    BY <2>2 DEF Right, RightSection
<1> QED
  BY <1>13, <1>14 DEF n

\* The line that opens the executable again behind its gap.
LEMMA GapLine ==
    ASSUME MapInv, NEW q \in Names(ExePath), q \notin {"text", "bss"},
           NEW m, m = Line(ExePath, q), NEW s, NEW p \in MapSet, After(s, p),
           InGap(p.start), Follows(ExePath, "text", q),
           \A t \in Names(ExePath) : p # Line(ExePath, t)
    PROVE  After(Scanned(s, m), m) /\ Right(Listed(Scanned(s, m), m))
<1> DEFINE c == Continue(s, m)
           n == Scanned(s, m)
<1>0. ExePath \in Files /\ Mapped(ExePath) = exeBase /\ exeBase \in Nat /\ ExePath \in File
  BY ExeMapped, SectionPlaces
<1>1. /\ m \in MapSet
      /\ m.start = Start(ExePath, q) /\ m.end \in Nat /\ m.x = FALSE /\ m.file = ExePath
  <2>1. m \in MapSet
    BY <1>0, MapLines
  <2>2. m.start = Start(ExePath, q) /\ m.file = ExePath
    BY LineFields
  <2>3. m.x = FALSE
    <3>1. m.x = (q = "text") /\ (q = "text") = FALSE
      BY LineFields
    <3> QED
      BY <3>1
  <2> QED
    BY <2>1, <2>2, <2>3, MapStarts
<1>2. Rested(s) /\ s.exeRegions = 1 /\ s.exeLoad = exeBase
  BY DEF After
<1>3. s.codeRegions = 0 \/ LeavesFile(s, m)
  <2>1. CASE \E g \in Files : \E t \in Names(g) : p = Line(g, t)
    <3>1. PICK g \in Files : \E t \in Names(g) : p = Line(g, t)
      BY <2>1
    <3>2. g # ExePath /\ (s.codePath = g \/ s.codeRegions = 0)
      BY <3>1 DEF After, Seen
    <3> QED
      BY <1>0, <1>1, <3>2, LoaderAssumption DEF LeavesFile
  <2>2. CASE p = StackLine \/ p = HeapLine
    BY <2>2, LineFields DEF After
  <2> QED
    BY <2>1, <2>2, MapLines
<1>4. Between(s, c)
  BY <1>2, <1>3, ContinueEnds
<1>5. /\ c \in ScanState /\ c.codeRegions = 0 /\ c.isExe = FALSE
      /\ c.exeRegions = 1 /\ c.exeLoad = exeBase
  BY <1>2, <1>4 DEF Between, ScanState
<1> HIDE DEF c
<1> DEFINE o == [c EXCEPT !.codeRegions = c.exeRegions + 1, !.exeRegions = @ + 1,
                          !.loadAddr = c.exeLoad, !.isExe = TRUE, !.codePath = m.file]
<1>6. /\ o \in ScanState /\ o.codeRegions = 2 /\ o.exeRegions = 2
      /\ o.loadAddr = exeBase /\ o.exeLoad = exeBase
      /\ o.isExe = TRUE /\ o.codePath = ExePath
  <2>1. /\ o.codeRegions = 2 /\ o.exeRegions = 2
        /\ o.loadAddr = exeBase /\ o.exeLoad = exeBase
        /\ o.isExe = TRUE /\ o.codePath = ExePath
    BY <1>1, <1>5 DEF ScanState
  <2>2. o \in ScanState
    <3> DEFINE x == c.exeRegions + 1
    <3>1. x \in Nat
      BY <1>5
    <3>2. o = [c EXCEPT !.codeRegions = x, !.exeRegions = x, !.loadAddr = exeBase,
                        !.isExe = TRUE, !.codePath = ExePath]
      BY <1>1, <1>5
    <3> HIDE DEF x, o
    <3> QED
      BY <1>0, <1>5, <3>1, <3>2 DEF ScanState
  <2> QED
    BY <2>1, <2>2
<1>7. Open(c, m) = o
  <2>1. (m.x /\ m.file # NoFile) = FALSE /\ (c.codeRegions > 0) = FALSE
        /\ c.exeRegions = 1 /\ m.file = ExePath
    BY <1>1, <1>5
  <2>2. (o.exeRegions < 2) = FALSE
    BY <1>6
  <2> QED
    BY <2>1, <2>2 DEF Open
<1>8. /\ n \in ScanState /\ n.codeRegions = 2 /\ n.exeRegions = 2
      /\ n.loadAddr = exeBase /\ n.exeLoad = exeBase
      /\ n.isExe = TRUE /\ n.codePath = ExePath /\ n.prevEnd = m.end
  <2>1. n = [o EXCEPT !.prevEnd = m.end]
    BY <1>7 DEF Scanned, c
  <2> HIDE DEF n, o
  <2> QED
    BY <1>1, <1>6, <2>1 DEF ScanState
<1> HIDE DEF n
<1>9. Rested(n)
  BY <1>8 DEF Rested
<1>10. ASSUME NEW g \in Files, NEW r \in Names(g), m = Line(g, r)
       PROVE  Seen(n, g, r)
  <2>1. g = ExePath /\ r = q
    BY <1>0, <1>10, SameLine
  <2>2. Nr(ExePath, q) = 2 /\ ~Fifth(ExePath, q)
    BY <1>0, Numbers DEF Names
  <2> QED
    BY <1>0, <1>8, <2>1, <2>2 DEF Seen
<1>11. ~InGap(m.start)
  <2>1. q \in parts[ExePath] /\ Start(ExePath, q) \in Nat
    BY <1>0, SectionPlaces DEF Names
  <2>2. ~(Start(ExePath, q) < Start(ExePath, q))
    BY <2>1
  <2> QED
    BY <1>1, <2>1, <2>2 DEF InGap
<1>12. After(n, m)
  BY <1>0, <1>1, <1>8, <1>9, <1>10, <1>11, LoaderAssumption DEF After
<1>13. Right(Listed(n, m))
  <2>1. /\ Listed(n, m).start = Start(ExePath, q) /\ Listed(n, m).x = FALSE
        /\ Listed(n, m).file = ExePath
        /\ Listed(n, m).type = "exe"
        /\ Listed(n, m).load = Mapped(ExePath)
    BY <1>0, <1>1, <1>8 DEF Listed, RegionType
  <2>2. ~Fifth(ExePath, q)
    BY <1>0, Numbers
  <2> QED
    BY <1>0, <2>1, <2>2 DEF Right, RightSection
<1> QED
  BY <1>12, <1>13 DEF n

\* The heap and the stack end every ELF file.
LEMMA AreaLine ==
    ASSUME MapInv, NEW m \in MapSet, m = StackLine \/ (heapEnd # 0 /\ m = HeapLine),
           NEW s, Ready(s, m)
    PROVE  After(Scanned(s, m), m) /\ Right(Listed(Scanned(s, m), m))
<1> DEFINE c == Continue(s, m)
           n == Scanned(s, m)
<1>1. m.start \in Nat /\ m.end \in Nat /\ m.x = FALSE /\ m.file \in {HeapPath, StackPath}
  BY MapStarts, LineFields
<1>2. Rested(s) /\ s.codePath \in File \cup {NoFile}
  BY DEF Ready, Rested, ScanState
<1>3. LeavesFile(s, m)
  BY <1>1, <1>2, LoaderAssumption DEF LeavesFile
<1>4. Between(s, c)
  BY <1>2, <1>3, ContinueEnds
<1>5. c \in ScanState /\ c.codeRegions = 0 /\ c.isExe = FALSE /\ c.exeRegions < 2
  BY <1>4 DEF Between, ScanState
<1> HIDE DEF c
<1>6. Open(c, m) = [c EXCEPT !.loadAddr = m.start]
  <2>1. (m.x /\ m.file # NoFile) = FALSE /\ (c.codeRegions > 0) = FALSE /\ m.file # ExePath
    BY <1>1, <1>5, LoaderAssumption DEF File
  <2> QED
    BY <1>5, <2>1 DEF Open
<1>7. /\ n \in ScanState /\ n.codeRegions = 0 /\ n.exeRegions = c.exeRegions
      /\ n.exeLoad = c.exeLoad /\ n.isExe = FALSE /\ n.prevEnd = m.end
  <2>1. n = [[c EXCEPT !.loadAddr = m.start] EXCEPT !.prevEnd = m.end]
    BY <1>6 DEF Scanned, c
  <2> HIDE DEF n
  <2> QED
    BY <1>1, <1>5, <2>1 DEF ScanState
<1> HIDE DEF n
<1>8. Rested(n)
  BY <1>5, <1>7 DEF Rested
<1>9. ASSUME NEW g \in Files, NEW r \in Names(g)
      PROVE  m # Line(g, r)
  <2>1. Line(g, r).file \in File \cup {NoFile}
    BY LineFields, SectionPlaces
  <2> QED
    BY <1>1, <2>1, LoaderAssumption
<1>10. InGap(m.start) => n.exeRegions = 1 /\ n.exeLoad = exeBase
  <2>1. m # Line(ExePath, "text")
    BY <1>9, ExeMapped DEF Names
  <2> QED
    BY <1>4, <1>7, <2>1, GapReady DEF Between
<1>11. After(n, m)
  BY <1>7, <1>8, <1>9, <1>10 DEF After
<1>12. Right(Listed(n, m))
  <2>1. /\ Listed(n, m).start = m.start /\ Listed(n, m).end = m.end /\ Listed(n, m).x = FALSE
        /\ Listed(n, m).file = m.file
        /\ Listed(n, m).type = IF m.file = HeapPath THEN "heap" ELSE "stack"
    BY <1>1, <1>7 DEF Listed, RegionType
  <2>2. heapEnd \in Nat /\ heapEnd <= heapEnd
    BY LoaderAssumption DEF MapInv
  <2>3. CASE heapEnd # 0 /\ m = HeapLine
    BY <2>1, <2>2, <2>3, LineFields DEF Right, RightSection
  <2>4. CASE m = StackLine
    BY <2>1, <2>4, LineFields, LoaderAssumption DEF Right, RightSection
  <2> QED
    BY <2>3, <2>4
<1> QED
  BY <1>11, <1>12 DEF n

\* The fifth region of a file ends it.
LEMMA FifthLine ==
    ASSUME MapInv, NEW f \in Files, NEW q \in Names(f), NEW m, m = Line(f, q), Fifth(f, q),
           NEW s, Ready(s, m), NEW p \in MapSet, After(s, p),
           NEW t \in Names(f), p = Line(f, t), Follows(f, t, q)
    PROVE  After(Scanned(s, m), m) /\ Right(Listed(Scanned(s, m), m))
<1> DEFINE c == Continue(s, m)
           n == Scanned(s, m)
<1>1. /\ m \in MapSet /\ m.start \in Nat /\ m.end \in Nat /\ f # ExePath
      /\ q = "bss" /\ m.start = Start(f, q) /\ m.x = FALSE /\ m.file = NoFile
  <2>1. m \in MapSet /\ m.start \in Nat /\ m.end \in Nat
    BY MapLines, MapStarts
  <2>2. q = "bss" /\ f # ExePath
    BY Numbers DEF Fifth
  <2>3. m.start = Start(f, q) /\ m.x = (q = "text") /\ m.file = IF q = "bss" THEN NoFile ELSE f
    BY LineFields
  <2>4. (q = "text") = FALSE
    BY <2>2
  <2> QED
    BY <2>1, <2>2, <2>3, <2>4
<1>2. s.codeRegions = 4
  <2>1. s.codeRegions = Nr(f, t)
    BY Numbers DEF After, Seen
  <2> QED
    BY <2>1, Numbers
<1>3. LeavesFile(s, m)
  BY <1>2 DEF LeavesFile
<1>4. Between(s, c)
  BY <1>3, ContinueEnds DEF Ready
<1>5. c \in ScanState /\ c.codeRegions = 0 /\ c.isExe = FALSE /\ c.exeRegions < 2
  BY <1>4 DEF Between, ScanState
<1> HIDE DEF c
<1>6. Open(c, m) = [c EXCEPT !.loadAddr = m.start]
  <2>1. (m.x /\ m.file # NoFile) = FALSE /\ (c.codeRegions > 0) = FALSE /\ m.file # ExePath
    BY <1>1, <1>5, LoaderAssumption DEF File
  <2> QED
    BY <1>5, <2>1 DEF Open
<1>7. /\ n \in ScanState /\ n.codeRegions = 0 /\ n.exeRegions = c.exeRegions
      /\ n.exeLoad = c.exeLoad /\ n.isExe = FALSE /\ n.prevEnd = m.end /\ n.loadAddr = m.start
  <2>1. n = [[c EXCEPT !.loadAddr = m.start] EXCEPT !.prevEnd = m.end]
    BY <1>6 DEF Scanned, c
  <2> HIDE DEF n
  <2> QED
    BY <1>1, <1>5, <2>1 DEF ScanState
<1> HIDE DEF n
<1>8. Rested(n)
  BY <1>5, <1>7 DEF Rested
<1>9. ASSUME NEW g \in Files, NEW r \in Names(g), m = Line(g, r)
      PROVE  Seen(n, g, r)
  <2>1. Fifth(g, r)
    BY <1>9, SameLine
  <2> QED
    BY <1>7, <2>1 DEF Seen
<1>10. InGap(m.start) => n.exeRegions = 1 /\ n.exeLoad = exeBase
  <2>1. m # Line(ExePath, "text")
    BY <1>1, SameLine, ExeMapped DEF Names
  <2> QED
    BY <1>1, <1>4, <1>7, <2>1, GapReady DEF Between
<1>11. After(n, m)
  BY <1>1, <1>7, <1>8, <1>9, <1>10, LoaderAssumption DEF After
<1>12. Right(Listed(n, m))
  <2>1. /\ Listed(n, m).start = Start(f, q) /\ Listed(n, m).x = FALSE
        /\ Listed(n, m).file = NoFile /\ Listed(n, m).type = "misc"
        /\ Listed(n, m).load = Start(f, q)
    BY <1>1, <1>7, LoaderAssumption DEF Listed, RegionType
  <2> QED
    BY <1>1, <2>1 DEF Right, RightSection
<1> QED
  BY <1>11, <1>12 DEF n

\* process_map() sees every line of the map for what it is.
LEMMA ProcessMapRight ==
    ASSUME MapInv, NEW m \in MapSet, NEW s, Ready(s, m)
    PROVE  /\ After(Scanned(s, m), m) /\ Right(Listed(Scanned(s, m), m))
           /\ Listed(Scanned(s, m), m).end \in Nat
<1>1. Listed(Scanned(s, m), m).end = m.end /\ m.end \in Nat
  BY MapStarts DEF Listed
<1>2. CASE \E f \in Files : \E q \in Names(f) : m = Line(f, q)
  <2>1. PICK f \in Files : \E q \in Names(f) : m = Line(f, q)
    BY <1>2
  <2> PICK q \in Names(f) : m = Line(f, q)
    BY <2>1
  <2>2. CASE q = "text"
    BY <1>1, <2>2, TextLine
  <2>3. CASE q # "text"
    <3>1. PICK p \in MapSet : Before(p, m) /\ After(s, p)
      BY <2>3, SectionNotFirst DEF Ready
    <3>2. CASE \E t \in Names(f) : /\ p = Line(f, t) /\ Follows(f, t, q)
                                   /\ q = "bss" => p.end = Start(f, q)
      <4>1. CASE Fifth(f, q)
        BY <1>1, <3>1, <3>2, <4>1, FifthLine
      <4>2. CASE ~Fifth(f, q)
        BY <1>1, <2>3, <3>1, <3>2, <4>2, ContinuedLine
      <4> QED
        BY <4>1, <4>2
    <3>3. CASE /\ f = ExePath /\ q # "bss" /\ InGap(p.start)
               /\ Follows(f, "text", q) /\ \A t \in Names(f) : p # Line(f, t)
      BY <1>1, <2>3, <3>1, <3>3, GapLine
    <3> QED
      BY <2>3, <3>1, <3>2, <3>3, PrevOfSection
  <2> QED
    BY <2>2, <2>3
<1>3. CASE m = StackLine \/ (heapEnd # 0 /\ m = HeapLine)
  BY <1>1, <1>3, AreaLine
<1> QED
  BY <1>2, <1>3, MapLines
-----------------------------------------------------------------------------
(***************************************************************************)
(* Folds: the lines of a reading, and the regions that libraries are       *)
(* looked for in.                                                          *)
(***************************************************************************)
Step(kind, a, b, acc, x) == IF kind = "map" THEN ProcessMap(acc, x) ELSE FindLib(a, acc, x, b)

\* f goes through q from the first to the last; its arguments are sets of indices.
IsFold(kind, a, b, base0, q, L, f) ==
    f = [s \in SUBSET (1..L) |->
            IF s = {} THEN base0 ELSE Step(kind, a, b, f[s \ {Max(s)}], q[Max(s)])]

Steps(kind, a, b, base0, q, L, f) ==
    /\ f[1..0] = base0
    /\ \A k \in 1..L : f[1..k] = Step(kind, a, b, f[1..(k - 1)], q[k])

\* The largest of a set of indices up to k.
LEMMA LastOf ==
    ASSUME NEW k \in Nat, NEW s, s \subseteq 1..k, k \in s
    PROVE  Max(s) = k
<1>1. \A x \in s : k >= x
  OBVIOUS
<1>2. \A m \in s : (\A x \in s : m >= x) => m = k
  OBVIOUS
<1> QED
  BY <1>1, <1>2 DEF Max

\* The recursive function a fold is defined with exists.
LEMMA FoldExists ==
    ASSUME NEW kind, NEW a, NEW b, NEW base0, NEW q, NEW L \in Nat
    PROVE  \E g : IsFold(kind, a, b, base0, q, L, g)
<1> DEFINE Fold(k, g) == IsFold(kind, a, b, base0, q, k, g)
           K == {k \in 1..L : ~\E g : Fold(k, g)}
<1>1. \E g : Fold(0, g)
  <2> DEFINE g == [s \in SUBSET (1..0) |-> base0]
  <2>1. \A s \in SUBSET (1..0) : s = {}
    OBVIOUS
  <2>2. Fold(0, g)
    BY <2>1 DEF IsFold
  <2> QED
    BY <2>2
<1>2. ASSUME NEW k \in 1..L, NEW g, Fold(k - 1, g)
      PROVE  \E h : Fold(k, h)
  <2> DEFINE h == [s \in SUBSET (1..k) |-> IF k \in s THEN Step(kind, a, b, g[s \ {k}], q[k]) ELSE g[s]]
  <2>1. k - 1 \in Nat /\ k \in Nat /\ \A s \in SUBSET (1..k) : /\ k \notin s => s \in SUBSET (1..(k - 1))
                                                               /\ s \ {k} \in SUBSET (1..(k - 1))
    OBVIOUS
  <2>2. \A s \in SUBSET (1..(k - 1)) :
           g[s] = IF s = {} THEN base0 ELSE Step(kind, a, b, g[s \ {Max(s)}], q[Max(s)])
    BY <1>2 DEF IsFold
  <2>3. \A s \in SUBSET (1..(k - 1)) : s \in SUBSET (1..k) /\ k \notin s
    BY <2>1
  <2>4. \A s \in SUBSET (1..(k - 1)) : h[s] = g[s]
    BY <2>3
  <2>5. ASSUME NEW s \in SUBSET (1..k)
        PROVE  h[s] = IF s = {} THEN base0 ELSE Step(kind, a, b, h[s \ {Max(s)}], q[Max(s)])
    <3>1. CASE k \in s
      <4>1. Max(s) = k /\ s # {}
        BY <2>1, <3>1, LastOf
      <4>2. h[s] = Step(kind, a, b, g[s \ {k}], q[k]) /\ h[s \ {k}] = g[s \ {k}]
        BY <2>1, <2>4, <3>1
      <4> QED
        BY <4>1, <4>2
    <3>2. CASE k \notin s
      <4>1. h[s] = g[s] /\ s \in SUBSET (1..(k - 1)) /\ s \ {Max(s)} \in SUBSET (1..(k - 1))
        BY <2>1, <2>4, <3>2
      <4>2. h[s \ {Max(s)}] = g[s \ {Max(s)}]
        BY <2>4, <4>1
      <4> QED
        BY <2>2, <4>1, <4>2
    <3> QED
      BY <3>1, <3>2
  <2>6. h = [s \in SUBSET (1..k) |-> h[s]]
    OBVIOUS
  <2> HIDE DEF h
  <2>7. Fold(k, h)
    BY <2>5, <2>6 DEF IsFold
  <2> QED
    BY <2>7
<1> SUFFICES \E g : Fold(L, g)
  OBVIOUS
<1> HIDE DEF Fold
<1>3. K = {}
  <2> SUFFICES ASSUME K # {} PROVE FALSE
    OBVIOUS
  <2>1. PICK k \in K : \A j \in K : k <= j
    BY LeastIndex
  <2>2. k \in 1..L /\ (k = 1 \/ k - 1 \in 1..L) /\ ~(k <= k - 1)
    BY <2>1
  <2>3. \E g : Fold(k - 1, g)
    BY <1>1, <2>1, <2>2
  <2> QED
    BY <1>2, <2>1, <2>2, <2>3
<1> QED
  <2>1. L = 0 \/ L \in 1..L
    OBVIOUS
  <2> QED
    BY <1>1, <1>3, <2>1

\* The first k elements of a fold.
LEMMA FoldSteps ==
    ASSUME NEW kind, NEW a, NEW b, NEW base0, NEW q, NEW L \in Nat, NEW f,
           IsFold(kind, a, b, base0, q, L, f)
    PROVE  Steps(kind, a, b, base0, q, L, f)
<1>1. 1..0 = {} /\ 1..0 \in SUBSET (1..L)
  OBVIOUS
<1>2. ASSUME NEW k \in 1..L
      PROVE  f[1..k] = Step(kind, a, b, f[1..(k - 1)], q[k])
  <2>1. k \in Nat /\ k \in 1..k /\ 1..k \in SUBSET (1..L) /\ (1..k) \ {k} = 1..(k - 1)
    OBVIOUS
  <2>2. Max(1..k) = k
    BY <2>1, LastOf
  <2> QED
    BY <2>1, <2>2 DEF IsFold
<1> QED
  BY <1>1, <1>2 DEF IsFold, Steps

\* read_maps() with process_map(), line by line.
LEMMA MapsFold ==
    ASSUME NEW sc, NEW q, NEW L \in Nat, DOMAIN q = 1..L
    PROVE  \E g : /\ g[0] = [scan |-> sc, rlist |-> <<>>]
                  /\ \A k \in 1..L : g[k] = ProcessMap(g[k - 1], q[k])
                  /\ g[L] = ReadRegions(sc, q)
<1> DEFINE base0 == [scan |-> sc, rlist |-> <<>>]
           f[s \in SUBSET (DOMAIN q)] ==
               IF s = {} THEN base0 ELSE ProcessMap(f[s \ {Max(s)}], q[Max(s)])
<1>1. ReadRegions(sc, q) = f[DOMAIN q]
  BY DEF ReadRegions, FoldLeft, MapThenFoldSet
<1> HIDE DEF base0
<1>2. \A acc, x : Step("map", 1, 1, acc, x) = ProcessMap(acc, x)
  BY DEF Step
<1>3. \E g : g = [s \in SUBSET (DOMAIN q) |->
                    IF s = {} THEN base0 ELSE ProcessMap(g[s \ {Max(s)}], q[Max(s)])]
  <2>1. PICK g : IsFold("map", 1, 1, base0, q, L, g)
    BY FoldExists
  <2>2. \A s \in SUBSET (DOMAIN q) :
           g[s] = IF s = {} THEN base0 ELSE ProcessMap(g[s \ {Max(s)}], q[Max(s)])
    BY <1>2, <2>1 DEF IsFold
  <2>3. g = [s \in SUBSET (DOMAIN q) |-> g[s]]
    BY <2>1 DEF IsFold
  <2> QED
    BY <2>2, <2>3
<1>4. f = [s \in SUBSET (DOMAIN q) |->
              IF s = {} THEN base0 ELSE ProcessMap(f[s \ {Max(s)}], q[Max(s)])]
  BY <1>3
<1> HIDE DEF f
<1>5. PICK h : h = f
  OBVIOUS
<1>6. IsFold("map", 1, 1, base0, q, L, h)
  <2>1. \A s \in SUBSET (1..L) :
           h[s] = IF s = {} THEN base0 ELSE Step("map", 1, 1, h[s \ {Max(s)}], q[Max(s)])
    BY <1>2, <1>4, <1>5
  <2>2. h = [s \in SUBSET (1..L) |-> h[s]]
    BY <1>4, <1>5
  <2> QED
    BY <2>1, <2>2 DEF IsFold
<1>7. Steps("map", 1, 1, base0, q, L, h)
  BY <1>6, FoldSteps
<1> DEFINE g == [k \in 0..L |-> h[1..k]]
<1>8. /\ g[0] = base0 /\ g[L] = h[DOMAIN q]
      /\ \A k \in 1..L : g[k] = h[1..k] /\ g[k - 1] = h[1..(k - 1)]
  BY <1>7 DEF Steps
<1>9. \A k \in 1..L : g[k] = ProcessMap(g[k - 1], q[k])
  BY <1>2, <1>7, <1>8 DEF Steps
<1> QED
  BY <1>1, <1>5, <1>8, <1>9 DEF base0

\* find_lib_regions(), region by region.
LEMMA LibsFold ==
    ASSUME NEW libs, NEW st, NEW fits, NEW q, NEW L \in Nat, DOMAIN q = 1..L
    PROVE  \E g : /\ g[0] = st
                  /\ \A k \in 1..L : g[k] = FindLib(libs, g[k - 1], q[k], fits)
                  /\ g[L] = FindLibRegions(libs, st, q, fits)
<1> DEFINE base0 == st
           f[s \in SUBSET (DOMAIN q)] ==
               IF s = {} THEN base0 ELSE FindLib(libs, f[s \ {Max(s)}], q[Max(s)], fits)
<1>1. FindLibRegions(libs, st, q, fits) = f[DOMAIN q]
  BY DEF FindLibRegions, FoldLeft, MapThenFoldSet
<1> HIDE DEF base0
<1>2. \A acc, x : Step("lib", libs, fits, acc, x) = FindLib(libs, acc, x, fits)
  BY DEF Step
<1>3. \E g : g = [s \in SUBSET (DOMAIN q) |->
                    IF s = {} THEN base0 ELSE FindLib(libs, g[s \ {Max(s)}], q[Max(s)], fits)]
  <2>1. PICK g : IsFold("lib", libs, fits, base0, q, L, g)
    BY FoldExists
  <2>2. \A s \in SUBSET (DOMAIN q) :
           g[s] = IF s = {} THEN base0 ELSE FindLib(libs, g[s \ {Max(s)}], q[Max(s)], fits)
    BY <1>2, <2>1 DEF IsFold
  <2>3. g = [s \in SUBSET (DOMAIN q) |-> g[s]]
    BY <2>1 DEF IsFold
  <2> QED
    BY <2>2, <2>3
<1>4. f = [s \in SUBSET (DOMAIN q) |->
              IF s = {} THEN base0 ELSE FindLib(libs, f[s \ {Max(s)}], q[Max(s)], fits)]
  BY <1>3
<1> HIDE DEF f
<1>5. PICK h : h = f
  OBVIOUS
<1>6. IsFold("lib", libs, fits, base0, q, L, h)
  <2>1. \A s \in SUBSET (1..L) :
           h[s] = IF s = {} THEN base0 ELSE Step("lib", libs, fits, h[s \ {Max(s)}], q[Max(s)])
    BY <1>2, <1>4, <1>5
  <2>2. h = [s \in SUBSET (1..L) |-> h[s]]
    BY <1>4, <1>5
  <2> QED
    BY <2>1, <2>2 DEF IsFold
<1>7. Steps("lib", libs, fits, base0, q, L, h)
  BY <1>6, FoldSteps
<1> DEFINE g == [k \in 0..L |-> h[1..k]]
<1>8. /\ g[0] = base0 /\ g[L] = h[DOMAIN q]
      /\ \A k \in 1..L : g[k] = h[1..k] /\ g[k - 1] = h[1..(k - 1)]
  BY <1>7 DEF Steps
<1>9. \A k \in 1..L : g[k] = FindLib(libs, g[k - 1], q[k], fits)
  BY <1>2, <1>7, <1>8 DEF Steps
<1> QED
  BY <1>1, <1>5, <1>8, <1>9 DEF base0
-----------------------------------------------------------------------------
(***************************************************************************)
(* read_regions().                                                         *)
(***************************************************************************)
LEMMA LineFlags ==
    ASSUME MapInv, NEW m \in MapSet
    PROVE  m.x \in BOOLEAN /\ m.file \in File \cup {NoFile, HeapPath, StackPath}
<1>1. CASE \E f \in Files : \E s \in Names(f) : m = Line(f, s)
  <2>1. PICK f \in Files : \E s \in Names(f) : m = Line(f, s)
    BY <1>1
  <2> PICK s \in Names(f) : m = Line(f, s)
    BY <2>1
  <2>2. m.x = (s = "text") /\ (s = "text") \in BOOLEAN
    BY LineFields
  <2>3. m.file \in {f, NoFile} /\ f \in File
    BY LineFields, SectionPlaces
  <2>4. m.x \in BOOLEAN
    BY <2>2
  <2> QED
    BY <2>3, <2>4
<1>2. CASE m = StackLine \/ m = HeapLine
  <2>1. m.x = FALSE /\ m.file \in {HeapPath, StackPath}
    BY <1>2, LineFields
  <2> QED
    BY <2>1
<1> QED
  BY <1>1, <1>2, MapLines

LEMMA ListedType ==
    ASSUME MapInv, NEW m \in MapSet, NEW n, Rested(n)
    PROVE  Listed(n, m) \in Region
<1>1. m.start \in Nat /\ m.end \in Nat /\ n.loadAddr \in Nat
  BY MapStarts DEF Rested, ScanState
<1>2. m.x \in BOOLEAN /\ m.file \in File \cup {NoFile, HeapPath, StackPath}
  BY LineFlags
<1>3. RegionType(n, m) \in {"exe", "code", "heap", "stack", "misc"}
  BY DEF RegionType
<1> QED
  BY <1>1, <1>2, <1>3 DEF Listed, Region

\* A line of the map is in the list.
InList(q, m) == \E k \in DOMAIN q : q[k].start = m.start /\ q[k].file = m.file /\ q[k].x = m.x

LEMMA AppendRight ==
    ASSUME NEW q, AllRight(q), NEW r \in Region, Right(r)
    PROVE  /\ AllRight(Append(q, r))
           /\ \A m : InList(q, m) => InList(Append(q, r), m)
           /\ \A m : r.start = m.start /\ r.file = m.file /\ r.x = m.x => InList(Append(q, r), m)
<1>1. /\ q \in Seq(Region) /\ Append(q, r) \in Seq(Region)
      /\ DOMAIN q = 1..Len(q) /\ Len(q) \in Nat /\ DOMAIN Append(q, r) = 1..(Len(q) + 1)
      /\ \A k \in 1..Len(q) : Append(q, r)[k] = q[k]
      /\ Append(q, r)[Len(q) + 1] = r
  BY DEF AllRight
<1>2. \A k \in DOMAIN Append(q, r) : k \in DOMAIN q \/ k = Len(q) + 1
  BY <1>1
<1>3. \A k \in DOMAIN q : k \in DOMAIN Append(q, r) /\ Append(q, r)[k] = q[k]
  BY <1>1
<1>4. Len(q) + 1 \in DOMAIN Append(q, r)
  BY <1>1
<1>5. AllRight(Append(q, r))
  BY <1>1, <1>2, <1>3 DEF AllRight
<1> QED
  BY <1>1, <1>3, <1>4, <1>5 DEF InList

\* Every reading tells the regions apart, and lists all that is written or executed.
LEMMA ReadRight ==
    ASSUME MapInv, NEW sc, Rested(sc)
    PROVE  /\ Rested(ReadRegions(sc, Maps).scan)
           /\ AllRight(ReadRegions(sc, Maps).rlist)
           /\ \A m \in MapSet : IsListed(m) => InList(ReadRegions(sc, Maps).rlist, m)
<1>1. PICK N \in Nat :
         /\ Maps = [k \in 1..N |-> Maps[k]]
         /\ \A k \in 1..N : Maps[k] \in MapSet
         /\ \A m \in MapSet : \E k \in 1..N : Maps[k] = m
         /\ \A j, k \in 1..N : j < k => Maps[j].start < Maps[k].start
  BY MapsSorted
<1>2. DOMAIN Maps = 1..N
  BY <1>1
<1>3. PICK g : /\ g[0] = [scan |-> sc, rlist |-> <<>>]
               /\ \A k \in 1..N : g[k] = ProcessMap(g[k - 1], Maps[k])
               /\ g[N] = ReadRegions(sc, Maps)
  BY <1>2, MapsFold
<1> DEFINE Read(k) == /\ Rested(g[k].scan) /\ (k > 0 => After(g[k].scan, Maps[k]))
                      /\ AllRight(g[k].rlist)
                      /\ \A j \in 1..k : IsListed(Maps[j]) => InList(g[k].rlist, Maps[j])
           K == {k \in 1..N : ~Read(k)}
<1>4. Read(0)
  <2>1. <<>> \in Seq(Region) /\ DOMAIN <<>> = {}
    OBVIOUS
  <2> QED
    BY <1>3, <2>1 DEF AllRight
<1>5. ASSUME NEW k \in 1..N, Read(k - 1)
      PROVE  Read(k)
  <2> DEFINE s == g[k - 1].scan
             m == Maps[k]
             n == Scanned(s, m)
             r == Listed(n, m)
             q == g[k - 1].rlist
  <2>1. m \in MapSet
    BY <1>1
  <2>2. Ready(s, m)
    <3>1. CASE k = 1
      <4>1. ASSUME NEW z \in MapSet
            PROVE  ~(z.start < m.start)
        <5>1. PICK j \in 1..N : Maps[j] = z
          BY <1>1
        <5>2. j = 1 \/ 1 < j
          OBVIOUS
        <5>3. z = m \/ m.start < z.start
          BY <1>1, <3>1, <5>1, <5>2
        <5> QED
          BY <2>1, <5>3, MapStarts
      <4> QED
        BY <1>5, <4>1 DEF Ready
    <3>2. CASE k # 1
      <4> DEFINE p == Maps[k - 1]
      <4>1. k - 1 \in 1..N /\ k - 1 > 0 /\ k - 1 < k
        BY <3>2
      <4>2. p \in MapSet /\ p.start < m.start /\ After(s, p)
        BY <1>1, <1>5, <4>1
      <4>3. ASSUME NEW z \in MapSet, p.start < z.start, z.start < m.start
            PROVE  FALSE
        <5>1. PICK j \in 1..N : Maps[j] = z
          BY <1>1
        <5>2. j < k - 1 \/ j = k - 1 \/ j = k \/ k < j
          BY <4>1
        <5>3. z.start < p.start \/ z.start = p.start \/ z.start = m.start \/ m.start < z.start
          BY <1>1, <4>1, <5>1, <5>2
        <5>4. z.start \in Nat /\ p.start \in Nat /\ m.start \in Nat
          BY <2>1, <4>2, MapStarts
        <5> QED
          BY <4>3, <5>3, <5>4
      <4>4. Before(p, m)
        BY <4>2, <4>3 DEF Before
      <4> QED
        BY <1>5, <4>2, <4>4 DEF Ready
    <3> QED
      BY <3>1, <3>2
  <2>3. After(n, m) /\ Right(r)
    BY <2>1, <2>2, ProcessMapRight
  <2>4. Rested(n) /\ r \in Region
    BY <2>1, <2>3, ListedType DEF After
  <2>5. g[k].scan = n /\ g[k].rlist = IF IsListed(m) THEN Append(q, r) ELSE q
    <3>1. g[k] = ProcessMap(g[k - 1], Maps[k])
      BY <1>3
    <3>2. g[k] = [scan  |-> n, rlist |-> IF IsListed(m) THEN Append(q, r) ELSE q]
      BY <3>1, ProcessMapIs, Zenon
    <3> HIDE DEF n, r, q, m
    <3> QED
      BY <3>2
  <2>6. r.start = m.start /\ r.file = m.file /\ r.x = m.x
    BY DEF Listed
  <2>7. /\ AllRight(Append(q, r)) /\ InList(Append(q, r), m)
        /\ \A z : InList(q, z) => InList(Append(q, r), z)
    BY <1>5, <2>3, <2>4, <2>6, AppendRight
  <2>8. AllRight(g[k].rlist) /\ (IsListed(m) => InList(g[k].rlist, m))
        /\ \A z : InList(q, z) => InList(g[k].rlist, z)
    BY <1>5, <2>5, <2>7
  <2>9. ASSUME NEW j \in 1..k, IsListed(Maps[j])
        PROVE  InList(g[k].rlist, Maps[j])
    <3>1. j = k \/ j \in 1..(k - 1)
      OBVIOUS
    <3> QED
      BY <1>5, <2>8, <2>9, <3>1
  <2> QED
    BY <2>3, <2>4, <2>5, <2>8, <2>9
<1>6. ASSUME NEW k \in 0..N
      PROVE  Read(k)
  <2> HIDE DEF Read
  <2>1. K = {}
    <3> SUFFICES ASSUME K # {} PROVE FALSE
      OBVIOUS
    <3>1. PICK k1 \in K : \A j \in K : k1 <= j
      BY LeastIndex
    <3>2. k1 \in 1..N /\ (k1 - 1 = 0 \/ k1 - 1 \in 1..N) /\ ~(k1 <= k1 - 1)
      BY <3>1
    <3>3. Read(k1 - 1)
      BY <1>4, <3>1, <3>2
    <3> QED
      BY <1>5, <3>1, <3>2, <3>3
  <2>2. k = 0 \/ k \in 1..N
    OBVIOUS
  <2> QED
    BY <1>4, <2>1, <2>2
<1>7. Read(N)
  BY <1>6
<1> QED
  BY <1>1, <1>3, <1>7
-----------------------------------------------------------------------------
(***************************************************************************)
(* find_lib_regions().                                                     *)
(***************************************************************************)
\* Every library name is a part of the path of one library of the config.
LibNamesDiffer == \A l \in Lib : PartOf[l] \cap Lib = {l}

Hits(st, r) == {k \in DOMAIN LibList : st[LibList[k]] = 0 /\ r.file \in PartOf[LibList[k]]}

\* The least of a set of indices.
LEMMA FirstOf ==
    ASSUME NEW n \in Nat, NEW K, K \subseteq 1..n, K # {}
    PROVE  Min(K) \in K
  BY LeastIndex DEF Min

\* A region gives its start to a library that has none, if its name fits.
GivesStart(st, r, z) ==
    /\ z \in [Lib -> Nat]
    /\ \A l \in Lib : z[l] # st[l] => /\ st[l] = 0 /\ z[l] = r.start
                                      /\ r.type = "code" /\ r.x /\ r.file \in PartOf[l]
    /\ \A l \in Lib :
          /\ r.type = "code" /\ r.x /\ r.file \in PartOf[l]
          /\ \A i \in Lib : r.file \in PartOf[i] => i = l
          => st[l] # 0 \/ z[l] = r.start

LEMMA FindStep ==
    ASSUME NEW st \in [Lib -> Nat], NEW r \in Region
    PROVE  GivesStart(st, r, FindLib(LibList, st, r, PartOf))
<1> DEFINE hits == Hits(st, r)
           l0   == LibList[Min(hits)]
<1>0. PICK z : z = FindLib(LibList, st, r, PartOf)
  OBVIOUS
<1> SUFFICES GivesStart(st, r, z)
  BY <1>0
<1>1. /\ DOMAIN LibList = 1..Len(LibList) /\ Len(LibList) \in Nat
      /\ \A k \in DOMAIN LibList : LibList[k] \in Lib
      /\ \A l \in Lib : \E k \in DOMAIN LibList : LibList[k] = l
  BY StatMemAssumption DEF ToSet
<1>2. hits \subseteq 1..Len(LibList)
  BY <1>1 DEF Hits
<1>3. hits # {} => Min(hits) \in hits
  BY <1>1, <1>2, FirstOf
<1>4. hits # {} => l0 \in Lib /\ st[l0] = 0 /\ r.file \in PartOf[l0]
  BY <1>1, <1>3 DEF Hits
<1>5. z = IF r.type = "code" /\ r.x /\ hits # {} THEN [st EXCEPT ![l0] = r.start] ELSE st
  BY <1>0 DEF FindLib, Hits
<1>6. \A l \in Lib : st[l] = 0 /\ r.file \in PartOf[l] => hits # {}
  BY <1>1 DEF Hits
<1>7. r.start \in Nat
  BY DEF Region
<1> HIDE DEF hits, l0
<1>8. CASE r.type = "code" /\ r.x /\ hits # {}
  <2>1. z = [st EXCEPT ![l0] = r.start]
    BY <1>5, <1>8
  <2>2. z \in [Lib -> Nat] /\ z[l0] = r.start /\ \A l \in Lib : l # l0 => z[l] = st[l]
    BY <1>4, <1>7, <1>8, <2>1
  <2> QED
    BY <1>4, <1>8, <2>2 DEF GivesStart
<1>9. CASE ~(r.type = "code" /\ r.x /\ hits # {})
  <2>1. z = st
    BY <1>5, <1>9
  <2> QED
    BY <1>6, <1>9, <2>1 DEF GivesStart
<1> QED
  BY <1>8, <1>9

\* What a region says of a library.
LEMMA RightCode ==
    ASSUME MapInv, LibNamesDiffer, NEW r, Right(r), r.x, NEW l \in Lib
    PROVE  /\ r.type = "code" /\ r.file \in PartOf[l] => r.start = base[l]
           /\ r.file = l => /\ r.type = "code" /\ r.start = base[l] /\ r.file \in PartOf[l]
                            /\ \A i \in Lib : r.file \in PartOf[i] => i = l
<1>1. CASE r.file \in {HeapPath, StackPath} /\ r.type \in {"heap", "stack"}
  BY <1>1, LoaderAssumption DEF File
<1>2. CASE \E f \in Files : \E p \in Names(f) : RightSection(r, f, p)
  <2>1. PICK f \in Files : \E p \in Names(f) : RightSection(r, f, p)
    BY <1>2
  <2> PICK p \in Names(f) : RightSection(r, f, p)
    BY <2>1
  <2>2. /\ p = "text" /\ r.start = Start(f, p) /\ r.file = IF p = "bss" THEN NoFile ELSE f
        /\ r.type = IF f = ExePath THEN "exe" ELSE "code"
    BY DEF RightSection, Fifth
  <2>3. r.start = Mapped(f) /\ r.file = f
    BY <2>2, SectionPlaces
  <2>4. f # ExePath => f \in Lib /\ Mapped(f) = base[f]
    BY SectionPlaces
  <2>5. ASSUME NEW i \in Lib, f \in Lib, f \in PartOf[i]
        PROVE  i = f
    BY <2>5 DEF LibNamesDiffer
  <2>6. l \in PartOf[l] /\ l # ExePath
    BY LoaderAssumption DEF LibNamesDiffer
  <2> QED
    BY <2>2, <2>3, <2>4, <2>5, <2>6
<1> QED
  BY <1>1, <1>2 DEF Right

\* Starts are only given once, and under LibNamesDiffer only right ones.
LEMMA FindRight ==
    ASSUME NEW st \in [Lib -> Nat], NEW q \in Seq(Region)
    PROVE  /\ FindLibRegions(LibList, st, q, PartOf) \in [Lib -> Nat]
           /\ \A l \in Lib : st[l] # 0 => FindLibRegions(LibList, st, q, PartOf)[l] = st[l]
           /\ MapInv /\ LibNamesDiffer /\ AllRight(q) /\ (\A l \in Lib : st[l] \in {0, base[l]})
              => \A l \in Lib : /\ FindLibRegions(LibList, st, q, PartOf)[l] \in {0, base[l]}
                                /\ (\E k \in DOMAIN q : q[k].file = l /\ q[k].x)
                                      => FindLibRegions(LibList, st, q, PartOf)[l] = base[l]
<1> DEFINE N    == Len(q)
           hyp  == MapInv /\ LibNamesDiffer /\ AllRight(q) /\ \A l \in Lib : st[l] \in {0, base[l]}
<1>1. N \in Nat /\ DOMAIN q = 1..N /\ \A k \in 1..N : q[k] \in Region
  OBVIOUS
<1> HIDE DEF N
<1>2. PICK g : /\ g[0] = st
               /\ \A k \in 1..N : g[k] = FindLib(LibList, g[k - 1], q[k], PartOf)
               /\ g[N] = FindLibRegions(LibList, st, q, PartOf)
  BY <1>1, LibsFold
<1> DEFINE Found(k) == /\ g[k] \in [Lib -> Nat]
                       /\ \A l \in Lib : st[l] # 0 => g[k][l] = st[l]
                       /\ hyp => \A l \in Lib :
                                    /\ g[k][l] \in {0, base[l]}
                                    /\ (\E j \in 1..k : q[j].file = l /\ q[j].x) => g[k][l] = base[l]
           K == {k \in 1..N : ~Found(k)}
<1>3. Found(0)
  BY <1>2
<1>4. ASSUME NEW k \in 1..N, Found(k - 1)
      PROVE  Found(k)
  <2> DEFINE r == q[k]
             y == g[k - 1]
             z == g[k]
  <2>1. /\ z \in [Lib -> Nat]
        /\ \A l \in Lib : z[l] # y[l] => /\ y[l] = 0 /\ z[l] = r.start
                                         /\ r.type = "code" /\ r.x /\ r.file \in PartOf[l]
        /\ \A l \in Lib :
              /\ r.type = "code" /\ r.x /\ r.file \in PartOf[l]
              /\ \A i \in Lib : r.file \in PartOf[i] => i = l
              => y[l] # 0 \/ z[l] = r.start
    <3>1. y \in [Lib -> Nat] /\ r \in Region /\ z = FindLib(LibList, y, r, PartOf)
      BY <1>1, <1>2, <1>4
    <3>2. GivesStart(y, r, z)
      BY <3>1, FindStep
    <3> QED
      BY <3>2 DEF GivesStart
  <2>2. \A l \in Lib : st[l] # 0 => z[l] = st[l]
    BY <1>4, <2>1
  <2>3. ASSUME hyp, NEW l \in Lib
        PROVE  /\ z[l] \in {0, base[l]}
               /\ (\E j \in 1..k : q[j].file = l /\ q[j].x) => z[l] = base[l]
    <3>1. y[l] \in {0, base[l]}
      BY <1>4, <2>3
    <3>2. Right(r)
      BY <1>1, <2>3 DEF AllRight
    <3>3. /\ r.x /\ r.type = "code" /\ r.file \in PartOf[l] => r.start = base[l]
          /\ r.x /\ r.file = l => /\ r.type = "code" /\ r.start = base[l] /\ r.file \in PartOf[l]
                                  /\ \A i \in Lib : r.file \in PartOf[i] => i = l
      BY <2>3, <3>2, RightCode
    <3>4. z[l] \in {0, base[l]}
      BY <2>1, <3>1, <3>3
    <3>5. y[l] = base[l] /\ base[l] # 0 => z[l] = base[l]
      BY <2>1
    <3>6. base[l] = 0 => z[l] = base[l]
      BY <3>4
    <3>7. r.x /\ r.file = l => z[l] = base[l]
      BY <2>1, <3>1, <3>3, <3>5, <3>6
    <3>8. ASSUME NEW j \in 1..k, q[j].file = l, q[j].x
          PROVE  z[l] = base[l]
      <4>1. j = k \/ j \in 1..(k - 1)
        OBVIOUS
      <4>2. j \in 1..(k - 1) => y[l] = base[l]
        BY <1>4, <2>3, <3>8
      <4> QED
        BY <3>5, <3>6, <3>7, <3>8, <4>1, <4>2
    <3> QED
      BY <3>4, <3>8
  <2> HIDE DEF hyp
  <2> QED
    BY <2>1, <2>2, <2>3
<1>5. ASSUME NEW k \in 0..N
      PROVE  Found(k)
  <2> HIDE DEF Found
  <2>1. K = {}
    <3> SUFFICES ASSUME K # {} PROVE FALSE
      OBVIOUS
    <3>1. PICK k1 \in K : \A j \in K : k1 <= j
      BY <1>1, LeastIndex
    <3>2. k1 \in 1..N /\ (k1 - 1 = 0 \/ k1 - 1 \in 1..N) /\ ~(k1 <= k1 - 1)
      BY <1>1, <3>1
    <3>3. Found(k1 - 1)
      BY <1>3, <3>1, <3>2
    <3> QED
      BY <1>4, <3>1, <3>2, <3>3
  <2>2. k = 0 \/ k \in 1..N
    BY <1>1
  <2> QED
    BY <1>3, <2>1, <2>2
<1>6. Found(N)
  <2>1. N \in 0..N
    BY <1>1
  <2> HIDE DEF Found
  <2> QED
    BY <1>5, <2>1
<1> QED
  BY <1>1, <1>2, <1>6
-----------------------------------------------------------------------------
(***************************************************************************)
(* The game moves.                                                         *)
(***************************************************************************)
MapKept == \A r \in Region : Right(r) => Right(r)'

LEMMA MapSame ==
    ASSUME MapInv, UNCHANGED <<exeBase, base, parts, heapEnd>>
    PROVE  MapInv' /\ MapKept
<1>1. \A f : Mapped(f)' = Mapped(f) /\ Names(f)' = Names(f)
  BY DEF Mapped, Names
<1>2. \A f, s : Start(f, s)' = Start(f, s)
  BY <1>1 DEF Start
<1>3. Files' = Files
  BY <1>1 DEF Files
<1>4. \A x : InGap(x)' <=> InGap(x)
  BY <1>2 DEF InGap
<1>5. \A x, f : Outside(x, f)' <=> Outside(x, f)
  BY <1>1, <1>2, <1>4 DEF Outside
<1>6. Apart'
  BY <1>1, <1>2, <1>3, <1>5 DEF MapInv, Apart
<1>7. MapInv'
  BY <1>6 DEF MapInv
<1>8. MapKept
  BY <1>1, <1>2, <1>3 DEF MapKept, Right, RightSection, Fifth
<1> QED
  BY <1>7, <1>8

LEMMA GrowHeapMap ==
    ASSUME MapInv, GrowHeap
    PROVE  MapInv' /\ MapKept /\ heapEnd \in Nat /\ heapEnd' \in Nat /\ heapEnd <= heapEnd'
<1>0. UNCHANGED <<exeBase, base, parts>>
  BY DEF GrowHeap
<1>1. \A f : Mapped(f)' = Mapped(f) /\ Names(f)' = Names(f)
  BY <1>0 DEF Mapped, Names
<1>2. \A f, s : Start(f, s)' = Start(f, s)
  BY <1>1 DEF Start
<1>3. Files' = Files
  BY <1>1 DEF Files
<1>4. \A x : InGap(x)' <=> InGap(x)
  BY <1>0, <1>2 DEF InGap
<1>5. \A x, f : Outside(x, f)' <=> Outside(x, f)
  BY <1>0, <1>1, <1>2, <1>4 DEF Outside
<1>6. Apart'
  BY <1>1, <1>2, <1>3, <1>5 DEF MapInv, Apart
<1>7. heapEnd \in Nat /\ heapEnd' \in (HeapMin + 1)..HeapMax /\ heapEnd' \in Nat /\ heapEnd <= heapEnd'
  BY LoaderAssumption DEF MapInv, GrowHeap
<1>8. MapInv'
  BY <1>0, <1>6, <1>7 DEF MapInv
<1>9. MapKept
  <2> SUFFICES ASSUME NEW r \in Region, Right(r) PROVE Right(r)'
    BY DEF MapKept
  <2>1. r.end \in Nat
    BY DEF Region
  <2>2. r.end <= heapEnd => r.end <= heapEnd'
    BY <1>7, <2>1
  <2> QED
    BY <1>0, <1>1, <1>2, <1>3, <2>2 DEF Right, RightSection, Fifth
<1> QED
  BY <1>7, <1>8, <1>9

\* A library that is opened comes to lie between the others.
LEMMA LoadLibMap ==
    ASSUME MapInv, NEW l \in Lib, LoadLib(l)
    PROVE  MapInv' /\ MapKept
<1>1. PICK b \in LoadAddr[l] : ~Overlaps(l, b) /\ base' = [base EXCEPT ![l] = b]
  BY DEF LoadLib
<1>2. UNCHANGED <<exeBase, parts, heapEnd>> /\ base[l] = 0
  BY DEF LoadLib
<1>3. l # ExePath /\ l \in File /\ b \in Nat \ {0} /\ base \in [Lib -> Nat]
  BY <1>1, LoaderAssumption DEF MapInv, File
<1>4. /\ Mapped(l) = 0 /\ Mapped(l)' = b
      /\ \A f \in File : f # l => Mapped(f)' = Mapped(f)
      /\ \A f : Names(f)' = Names(f)
  BY <1>1, <1>2, <1>3 DEF Mapped, File, Names
<1>5. \A f \in Files : f \in File /\ f # l /\ f \in Files'
  BY <1>3, <1>4 DEF Files
<1>6. \A f \in Files' : f = l \/ f \in Files
  BY <1>4 DEF Files
<1>7. \A f \in File : f # l => \A s : Start(f, s)' = Start(f, s)
  BY <1>4 DEF Start
<1>8. \A x : InGap(x)' <=> InGap(x)
  BY <1>2, <1>3, <1>7 DEF InGap, File
<1>9. \A f \in Files : \A x : Outside(x, f)' <=> Outside(x, f)
  BY <1>2, <1>4, <1>5, <1>7, <1>8 DEF Outside
<1>10. ASSUME NEW s \in Names(l)
       PROVE  Start(l, s)' \in Nat /\ b <= Start(l, s)' /\ Start(l, s)' < b + 5
  <2>1. s \in {"text", "hole", "rodata", "data", "bss"}
    BY <1>3, LoaderAssumption DEF Names, MapInv
  <2>2. Slot(s) \in 0..4
    BY <2>1 DEF Slot
  <2>3. Start(l, s)' = b + Slot(s) + 0
    BY <1>3, <1>4 DEF Start
  <2> QED
    BY <1>3, <2>2, <2>3
<1>11. ASSUME NEW f \in Files, NEW s \in Names(f)
       PROVE  b + 5 <= Start(f, s) \/ Start(f, s) < b
  <2>1. Line(f, s) \in MapSet /\ Line(f, s).start = Start(f, s) /\ Line(f, s).end = Start(f, s) + 1
    BY MapLines, LineFields
  <2>2. Start(f, s) \in Nat
    BY SectionPlaces
  <2>3. ~(Start(f, s) < b + 5 /\ b < Start(f, s) + 1)
    BY <1>1, <2>1 DEF Overlaps
  <2> QED
    BY <1>3, <2>2, <2>3
<1>12. ASSUME NEW f \in Files, NEW x \in Nat, b <= x, x < b + 5
       PROVE  Outside(x, f)
  <2> DEFINE c == Mapped(f)
  <2>1. "text" \in Names(f) /\ Start(f, "text") = c /\ c \in Nat
    BY SectionPlaces DEF Names
  <2>2. b + 5 <= c \/ c < b
    BY <1>11, <2>1
  <2>3. CASE b + 5 <= c
    BY <1>3, <1>12, <2>1, <2>3 DEF Outside
  <2>4. CASE c < b /\ f # ExePath
    <3>1. \A s \in Names(f) : Start(f, s) \in Nat /\ Start(f, s) < c + 5
      BY <2>4, SectionPlaces
    <3> HIDE DEF c
    <3>2. \A s \in Names(f) : Start(f, s) < x
      BY <1>3, <1>11, <1>12, <2>1, <2>4, <3>1
    <3> QED
      BY <3>2 DEF Outside
  <2>5. CASE c < b /\ f = ExePath
    <3>1. \A s \in Names(f) : s # "text" => Start(f, s) \in Nat /\ c + 6 <= Start(f, s) /\ Start(f, s) <= c + 8
      <4>1. ASSUME NEW s \in Names(f), s # "text"
            PROVE  Slot(s) \in 2..4
        <5>1. s \in {"rodata", "data", "bss"}
          BY <2>5, <4>1, SectionPlaces DEF Names
        <5> QED
          BY <5>1 DEF Slot
      <4> QED
        BY <2>1, <2>5, <4>1, SectionPlaces
    <3>2. c = exeBase
      BY <2>5, SectionPlaces
    <3> HIDE DEF c
    <3>3. CASE \E s \in Names(f) : s # "text" /\ b + 5 <= Start(f, s)
      <4>1. PICK s \in Names(f) : s # "text" /\ b + 5 <= Start(f, s)
        BY <3>3
      <4>2. \A t \in Names(f) : t # "text" => b + 5 <= Start(f, t)
        BY <1>3, <1>11, <2>1, <3>1, <4>1
      <4>3. \A t \in parts[ExePath] : t \in Names(f) /\ t # "text"
        BY <2>5, SectionPlaces DEF Names
      <4>4. \A t \in parts[ExePath] : x < Start(ExePath, t)
        BY <1>3, <1>12, <2>5, <3>1, <4>2, <4>3
      <4>5. exeBase <= x /\ x # exeBase
        BY <1>3, <1>12, <2>1, <2>5, <3>2
      <4> QED
        BY <2>5, <4>4, <4>5 DEF Outside, InGap
    <3>4. CASE \A s \in Names(f) : s # "text" => Start(f, s) < b
      <4>1. \A s \in Names(f) : Start(f, s) < x
        BY <1>3, <1>12, <2>1, <2>5, <3>1, <3>4
      <4> QED
        BY <4>1 DEF Outside
    <3> QED
      BY <1>11, <3>3, <3>4
  <2> QED
    BY <2>2, <2>3, <2>4, <2>5
<1>13. ASSUME NEW f \in Files', NEW g \in Files', f # g, NEW s \in Names(f)'
       PROVE  Outside(Start(f, s), g)'
  <2>1. s \in Names(f)
    BY <1>4
  <2>2. PICK x : x = Start(f, s)'
    OBVIOUS
  <2>3. CASE f # l /\ g # l
    <3>1. f \in Files /\ g \in Files
      BY <1>6, <2>3
    <3>2. Outside(Start(f, s), g)
      BY <1>13, <2>1, <3>1 DEF MapInv, Apart
    <3>3. x = Start(f, s)
      BY <1>5, <1>7, <2>2, <3>1
    <3>4. Outside(x, g)'
      BY <1>9, <3>1, <3>2, <3>3
    <3> QED
      BY <2>2, <3>4 DEF Outside, InGap
  <2>4. CASE f = l
    <3>1. g \in Files
      BY <1>6, <1>13, <2>4
    <3>2. Outside(x, g)
      BY <1>10, <1>12, <2>1, <2>2, <2>4, <3>1
    <3>3. Outside(x, g)'
      BY <1>9, <3>1, <3>2
    <3> QED
      BY <2>2, <3>3 DEF Outside, InGap
  <2>5. CASE g = l
    <3>1. f \in Files
      BY <1>6, <1>13, <2>5
    <3>2. x = Start(f, s) /\ Start(f, s) \in Nat
      BY <1>5, <1>7, <2>1, <2>2, <3>1, SectionPlaces
    <3>3. b + 5 <= x \/ x < b
      BY <1>11, <2>1, <3>1, <3>2
    <3>4. ASSUME NEW t \in Names(g)'
          PROVE  t \in Names(l) /\ Start(g, t)' = Start(l, t)' /\ Start(l, t)' \in Nat /\ Start(l, t)' < b + 5
      BY <1>4, <1>10, <2>5
    <3>5. x < Mapped(g)' \/ \A t \in Names(g)' : Start(g, t)' < x
      BY <1>3, <1>4, <2>5, <3>2, <3>3, <3>4
    <3> QED
      BY <2>2, <3>5 DEF Outside
  <2> QED
    BY <2>3, <2>4, <2>5
<1>14. Apart'
  BY <1>13 DEF Apart
<1>15. MapInv'
  BY <1>1, <1>2, <1>3, <1>14 DEF MapInv
<1>16. MapKept
  BY <1>2, <1>4, <1>5, <1>7 DEF MapKept, Right, RightSection, Fifth
<1> QED
  BY <1>15, <1>16
LEMMA MapStep ==
    ASSUME MapInv, [Next]_vars
    PROVE  /\ MapInv' /\ MapKept /\ exeBase' = exeBase /\ parts' = parts
           /\ heapEnd \in Nat /\ heapEnd' \in Nat /\ heapEnd <= heapEnd'
           /\ \A l \in Lib : base[l] # 0 => base'[l] = base[l]
           /\ (\E l \in Lib : LoadLib(l)) \/ base' = base
<1>1. heapEnd \in Nat
  BY LoaderAssumption DEF MapInv
<1>2. CASE UNCHANGED <<exeBase, base, parts, heapEnd>>
  <2>1. heapEnd <= heapEnd
    BY <1>1
  <2> QED
    BY <1>1, <1>2, <2>1, MapSame
<1>3. ASSUME NEW l \in Lib, LoadLib(l)
      PROVE  /\ exeBase' = exeBase /\ parts' = parts /\ heapEnd' = heapEnd
             /\ \A i \in Lib : base[i] # 0 => base'[i] = base[i]
  BY <1>3 DEF LoadLib, MapInv
<1>4. CASE \E l \in Lib : LoadLib(l)
  <2>1. heapEnd <= heapEnd
    BY <1>1
  <2> QED
    BY <1>1, <1>3, <1>4, <2>1, LoadLibMap
<1>5. CASE GrowHeap
  <2>1. UNCHANGED <<exeBase, base, parts>>
    BY <1>5 DEF GrowHeap
  <2> QED
    BY <1>5, <2>1, GrowHeapMap
<1>6. CASE Startup
  <2>1. UNCHANGED gameVars
    BY <1>6 DEF Startup, HandleAslr, HandleStatmemPie, EarlyPic, HandleStackEnd
  <2> QED
    BY <1>2, <2>1 DEF gameVars
<1>7. CASE Round
  <2>1. UNCHANGED gameVars
    BY <1>7 DEF Round, Input, Skip, Attach, Process, LatePic, Output
  <2> QED
    BY <1>2, <2>1 DEF gameVars
<1>8. CASE SendStackEnd \/ GameEnds \/ UNCHANGED vars
  BY <1>2, <1>8 DEF SendStackEnd, GameEnds, gameVars, vars
<1> QED
  BY <1>4, <1>5, <1>6, <1>7, <1>8 DEF Next, Game
-----------------------------------------------------------------------------
(***************************************************************************)
(* The inductive invariant.                                                *)
(***************************************************************************)
TypesInv ==
    /\ addr \in [Item -> Int] /\ offs \in [Cache -> Int] /\ codeOffs \in Nat
    /\ dumpAddr \in [DOMAIN Dumps -> Int]
    /\ onStack \in [Item -> BOOLEAN] /\ \A i \in Item : onStack[i] => AreaOf[i] = Stack
    /\ libStart \in [Lib -> Nat] /\ isLoaded \in [Lib -> BOOLEAN] /\ skipVal \in [Lib -> BOOLEAN]
    /\ \A l \in Lib : isLoaded[l] => libStart[l] # 0
    /\ act \subseteq Value /\ alive \in BOOLEAN

HeapInv ==
    \/ chkHeap = <<0, 0>>
    \/ chkHeap[1] = HeapMin /\ chkHeap[2] \in Nat /\ chkHeap[2] <= heapEnd

\* What is active and known has been read, but for what a late library is held back for.
HeldInv ==
    /\ printed # {} => pc = "input" /\ HeldBack
    /\ pc = "heap" => \A i \in act : Known(i) => i \in read
    /\ pc = "output" => \A i \in act : Known(i) => \/ i \in read
                                                   \/ AreaOf[i] \in Lib /\ skipVal[AreaOf[i]]

BaseInv == MapInv /\ RegionsInv /\ TypesInv /\ HeapInv /\ HeldInv

\* Under LibNamesDiffer: no library has a wrong start, and a start is used once.
FoundInv ==
    /\ \A l \in Lib : libStart[l] \in {0, base[l]}
    /\ pc \notin {"aslr", "pie", "pic"} => \A l \in Lib : libStart[l] # 0 => isLoaded[l]
    /\ AllFound

ExeOffs == IF exeBase \in StaticLoad THEN 0 ELSE exeBase

\* How far what belongs to an area has been moved.
Moved(area) == IF area = Exe THEN IF pc \in {"aslr", "pie"} THEN 0 ELSE codeOffs
               ELSE IF isLoaded[area] THEN base[area] ELSE 0

CodeInv ==
    /\ pc = "process" => alive
    /\ alive /\ pc # "aslr" => codeOffs = ExeOffs

ItemsInv ==
    \A i \in Item : AreaOf[i] # Stack =>
       /\ offs[CacheOf[i]] = Offs0[CacheOf[i]] + Moved(AreaOf[i])
       /\ i \in Value => addr[i] = Addr0[i] + Moved(AreaOf[i])

DumpsInv == \A d \in DOMAIN Dumps : dumpAddr[d] = Dumps[d].addr + Moved(Dumps[d].area)

StackInv ==
    /\ \A i, j \in Item : AreaOf[i] = Stack /\ AreaOf[j] = Stack => onStack[i] = onStack[j]
    /\ \A i \in Item : AreaOf[i] = Stack =>
          /\ offs[CacheOf[i]] = IF onStack[i] THEN Offs0[CacheOf[i]] ELSE StackEnd - Offs0[CacheOf[i]]
          /\ i \in Value => addr[i] = IF onStack[i] THEN Addr0[i] ELSE StackEnd - Addr0[i]

\* Under DumpsDiffer, too: everything has been moved once, and to the right place.
MoveInv == CodeInv /\ ItemsInv /\ DumpsInv /\ StackInv

LEMMA RegionsRight ==
    ASSUME MapInv, RegionsInv
    PROVE  /\ Rested(Regions.scan) /\ AllRight(Regions.rlist)
           /\ alive => \A m \in MapSet : IsListed(m) => InList(Regions.rlist, m)
           /\ ~alive => Regions.rlist = <<>>
<1>1. CASE alive
  <2>1. Regions = ReadRegions(scan, Maps)
    BY <1>1 DEF Regions
  <2> QED
    BY <1>1, <2>1, ReadRight DEF RegionsInv
<1>2. CASE ~alive
  <2>1. Regions = [scan |-> scan, rlist |-> <<>>]
    BY <1>2 DEF Regions
  <2>2. <<>> \in Seq(Region) /\ DOMAIN <<>> = {}
    OBVIOUS
  <2> QED
    BY <1>2, <2>1, <2>2 DEF RegionsInv, AllRight
<1> QED
  BY <1>1, <1>2

LEMMA RegionsKept ==
    ASSUME MapInv, [Next]_vars, NEW sc, NEW q, Rested(sc), AllRight(q), scan' = sc, rlist' = q
    PROVE  RegionsInv'
<1>1. MapKept
  BY MapStep
<1>2. q \in Seq(Region) /\ \A k \in DOMAIN q : q[k] \in Region /\ Right(q[k])
  BY DEF AllRight
<1>3. \A k \in DOMAIN q : Right(q[k])'
  BY <1>1, <1>2 DEF MapKept
<1>4. \A k \in DOMAIN rlist' : Right(rlist[k])'
  BY <1>3 DEF Right, RightSection
<1>5. AllRight(rlist)'
  BY <1>2, <1>4 DEF AllRight
<1>6. Rested(scan)'
  BY DEF Rested
<1> QED
  BY <1>5, <1>6 DEF RegionsInv

LEMMA RegionsStep ==
    ASSUME MapInv, RegionsInv, [Next]_vars
    PROVE  RegionsInv'
<1>1. CASE UNCHANGED <<rlist, scan>>
  BY <1>1, RegionsKept DEF RegionsInv
<1>2. CASE rlist' = Regions.rlist /\ scan' = Regions.scan
  BY <1>2, RegionsRight, RegionsKept
<1>3. CASE Startup
  <2>1. HandleAslr => rlist' = Regions.rlist /\ scan' = Regions.scan
    BY DEF HandleAslr
  <2>2. HandleStatmemPie \/ EarlyPic \/ HandleStackEnd => UNCHANGED <<rlist, scan>>
    BY DEF HandleStatmemPie, EarlyPic, HandleStackEnd
  <2> QED
    BY <1>1, <1>2, <1>3, <2>1, <2>2 DEF Startup
<1>4. CASE Round
  <2>1. LatePic => \/ rlist' = Regions.rlist /\ scan' = Regions.scan
                   \/ UNCHANGED <<rlist, scan>>
    BY DEF LatePic
  <2>2. Input \/ Skip \/ Attach \/ Process \/ Output => UNCHANGED <<rlist, scan>>
    BY DEF Input, Skip, Attach, Process, Output
  <2> QED
    BY <1>1, <1>2, <1>4, <2>1, <2>2 DEF Round
<1>5. CASE Game \/ UNCHANGED vars
  <2>1. UNCHANGED <<rlist, scan>>
    BY <1>5 DEF Game, LoadLib, GrowHeap, SendStackEnd, GameEnds, trainerVars, vars
  <2> QED
    BY <1>1, <2>1
<1> QED
  BY <1>3, <1>4, <1>5 DEF Next
(***************************************************************************)
(* Moving the items.                                                       *)
(***************************************************************************)
LEMMA ItemFacts ==
    /\ AreaOf \in [Item -> Lib \cup {Exe, Stack}] /\ CacheOf \in [Item -> Cache]
    /\ ValueOf \in [Item -> Item] /\ Exe \notin Lib /\ Stack \notin Lib /\ Exe # Stack
    /\ Addr0 \in [Item -> Nat] /\ Offs0 \in [Cache -> Nat]
    /\ \A i, j \in Item : CacheOf[i] = CacheOf[j] => AreaOf[i] = AreaOf[j]
    /\ \A d \in DOMAIN Dumps : Dumps[d].area \in Lib \cup {Exe} /\ Dumps[d].addr \in Nat
    /\ DOMAIN Dumps = 1..Len(Dumps) /\ Len(Dumps) \in Nat
<1> DEFINE S == [area : Lib \cup {Exe}, addr : Nat]
<1>1. Dumps \in Seq(S)
  BY StatMemAssumption
<1> HIDE DEF S
<1>2. /\ DOMAIN Dumps = 1..Len(Dumps) /\ Len(Dumps) \in Nat
      /\ \A d \in DOMAIN Dumps : Dumps[d] \in S
  BY <1>1
<1>3. \A d \in DOMAIN Dumps : Dumps[d].area \in Lib \cup {Exe} /\ Dumps[d].addr \in Nat
  BY <1>2 DEF S
<1> QED
  BY <1>2, <1>3, StatMemAssumption

\* A cache moves by the amount of the area that it belongs to, or not at all.
LEMMA CacheMoves ==
    ASSUME TypesInv, NEW moved \in SUBSET Item, NEW by \in [moved -> Nat],
           \A i, j \in moved : AreaOf[i] = AreaOf[j] => by[i] = by[j],
           \A i \in Item, j \in moved : AreaOf[i] = AreaOf[j] => i \in moved
    PROVE  /\ MoveCaches(moved, by) \in [Cache -> Int]
           /\ \A i \in Item : MoveCaches(moved, by)[CacheOf[i]] =
                                 offs[CacheOf[i]] + IF i \in moved THEN by[i] ELSE 0
<1> DEFINE first(c) == CHOOSE i \in moved : CacheOf[i] = c
<1>1. MoveCaches(moved, by) = [c \in Cache |-> IF \E i \in moved : CacheOf[i] = c
                                               THEN offs[c] + by[first(c)] ELSE offs[c]]
  BY DEF MoveCaches
<1>2. ASSUME NEW c, \E i \in moved : CacheOf[i] = c
      PROVE  first(c) \in moved /\ CacheOf[first(c)] = c
  BY <1>2
<1>3. offs \in [Cache -> Int]
  BY DEF TypesInv
<1> HIDE DEF first
<1>4. MoveCaches(moved, by) \in [Cache -> Int]
  <2>1. ASSUME NEW c \in Cache
        PROVE  (IF \E i \in moved : CacheOf[i] = c THEN offs[c] + by[first(c)] ELSE offs[c]) \in Int
    BY <1>2, <1>3
  <2> QED
    BY <1>1, <2>1
<1>5. ASSUME NEW i \in Item
      PROVE  MoveCaches(moved, by)[CacheOf[i]] = offs[CacheOf[i]] + IF i \in moved THEN by[i] ELSE 0
  <2>1. CacheOf[i] \in Cache /\ offs[CacheOf[i]] \in Int
    BY <1>3, ItemFacts
  <2>2. CASE i \in moved
    <3>1. first(CacheOf[i]) \in moved /\ CacheOf[first(CacheOf[i])] = CacheOf[i]
      BY <1>2, <2>2
    <3>2. by[first(CacheOf[i])] = by[i]
      BY <2>2, <3>1, ItemFacts
    <3> QED
      BY <1>1, <2>1, <2>2, <3>2
  <2>3. CASE i \notin moved
    <3>1. ~\E j \in moved : CacheOf[j] = CacheOf[i]
      BY <2>3, ItemFacts
    <3> QED
      BY <1>1, <2>1, <2>3, <3>1
  <2> QED
    BY <2>2, <2>3
<1> QED
  BY <1>4, <1>5

\* What handle_statmem_pic() does: the libraries that are found now, and only these, move.
Pic(start, late) ==
    /\ addr' \in [Item -> Int] /\ offs' \in [Cache -> Int] /\ dumpAddr' \in [DOMAIN Dumps -> Int]
    /\ isLoaded' \in [Lib -> BOOLEAN] /\ skipVal' \in [Lib -> BOOLEAN]
    /\ \A i \in Item :
          LET amount == IF AreaOf[i] \in Fresh(start) THEN start[AreaOf[i]] ELSE 0
          IN  /\ offs'[CacheOf[i]] = offs[CacheOf[i]] + amount
              /\ i \in Value => addr'[i] = addr[i] + amount
    /\ \A d \in DOMAIN Dumps :
          dumpAddr'[d] = dumpAddr[d] + IF Dumps[d].area \in Fresh(start) /\ FirstDump(d)
                                       THEN start[Dumps[d].area] ELSE 0
    /\ \A l \in Lib : isLoaded'[l] <=> isLoaded[l] \/ l \in Fresh(start)
    /\ \A i \in Item : AreaOf[i] \in Fresh(start) /\ late => skipVal'[AreaOf[i]]
    /\ \A l \in Lib : skipVal[l] => skipVal'[l]

LEMMA PicMoves ==
    ASSUME TypesInv, NEW start \in [Lib -> Nat], NEW late \in BOOLEAN, HandleStatmemPic(start, late)
    PROVE  Pic(start, late)
<1> DEFINE moved == InFresh(start)
           by    == [i \in moved |-> start[AreaOf[i]]]
           dirty == {AreaOf[i] : i \in moved}
           dumps == MovedDumps(start)
           begun == dirty \cup {Dumps[d].area : d \in dumps}
<1>1. /\ addr' = [i \in Item |-> IF i \in moved THEN addr[i] + start[AreaOf[ValueOf[i]]] ELSE addr[i]]
      /\ offs' = MoveCaches(moved, by)
      /\ dumpAddr' = [d \in DOMAIN Dumps |-> IF d \in dumps THEN dumpAddr[d] + start[Dumps[d].area]
                                             ELSE dumpAddr[d]]
      /\ isLoaded' = [l \in Lib |-> isLoaded[l] \/ l \in begun]
      /\ skipVal' = [l \in Lib |-> skipVal[l] \/ (late /\ l \in dirty)]
  BY DEF HandleStatmemPic
<1>2. /\ addr \in [Item -> Int] /\ dumpAddr \in [DOMAIN Dumps -> Int]
      /\ isLoaded \in [Lib -> BOOLEAN] /\ skipVal \in [Lib -> BOOLEAN]
  BY DEF TypesInv
<1>3. /\ moved \in SUBSET Item /\ \A i \in Item : i \in moved <=> AreaOf[i] \in Fresh(start)
      /\ Fresh(start) \subseteq Lib
  BY DEF InFresh, Fresh
<1>4. \A d \in DOMAIN Dumps : d \in dumps <=> Dumps[d].area \in Fresh(start) /\ FirstDump(d)
  BY DEF MovedDumps
<1> HIDE DEF moved, dumps
<1>5. by \in [moved -> Nat] /\ \A i \in moved : by[i] = start[AreaOf[i]]
  BY <1>3
<1>6. /\ MoveCaches(moved, by) \in [Cache -> Int]
      /\ \A i \in Item : MoveCaches(moved, by)[CacheOf[i]] =
                            offs[CacheOf[i]] + IF i \in moved THEN by[i] ELSE 0
  <2>1. /\ \A i, j \in moved : AreaOf[i] = AreaOf[j] => by[i] = by[j]
        /\ \A i \in Item, j \in moved : AreaOf[i] = AreaOf[j] => i \in moved
    BY <1>3, <1>5
  <2> HIDE DEF by
  <2> QED
    BY <1>3, <1>5, <2>1, CacheMoves
<1> HIDE DEF by
<1>7. ASSUME NEW i \in moved
      PROVE  AreaOf[ValueOf[i]] \in Lib /\ start[AreaOf[ValueOf[i]]] \in Nat /\ addr[i] \in Int
  BY <1>2, <1>3, PointerAssumption
<1>8. addr' \in [Item -> Int]
  BY <1>1, <1>2, <1>7
<1>9. offs' \in [Cache -> Int] /\ \A i \in Item : offs'[CacheOf[i]] = offs[CacheOf[i]]
                                      + IF AreaOf[i] \in Fresh(start) THEN start[AreaOf[i]] ELSE 0
  BY <1>1, <1>3, <1>5, <1>6
<1>10. \A i \in Value : addr'[i] = addr[i] + IF AreaOf[i] \in Fresh(start) THEN start[AreaOf[i]] ELSE 0
  BY <1>1, <1>2, <1>3 DEF Value
<1>11. dumpAddr' \in [DOMAIN Dumps -> Int]
  BY <1>1, <1>2, <1>3, <1>4
<1>12. \A d \in DOMAIN Dumps :
          dumpAddr'[d] = dumpAddr[d] + IF Dumps[d].area \in Fresh(start) /\ FirstDump(d)
                                       THEN start[Dumps[d].area] ELSE 0
  BY <1>1, <1>2, <1>3, <1>4
<1>13. \A l \in Lib : l \in begun <=> l \in Fresh(start)
  <2>1. ASSUME NEW l \in begun
        PROVE  l \in Fresh(start)
    BY <1>3, <1>4 DEF MovedDumps, dumps
  <2>2. ASSUME NEW l \in Fresh(start)
        PROVE  l \in begun
    <3>1. CASE \E i \in Item : AreaOf[i] = l
      BY <1>3, <2>2, <3>1
    <3>2. CASE \E d \in DOMAIN Dumps : Dumps[d].area = l
      <4> DEFINE K == {d \in DOMAIN Dumps : Dumps[d].area = l}
      <4>1. PICK d \in K : \A e \in K : d <= e
        BY <3>2, ItemFacts, LeastIndex
      <4>2. d \in 1..Len(Dumps) /\ Dumps[d].area = l
        BY <4>1, ItemFacts
      <4>3. \A e \in 1..(d - 1) : Dumps[e].area # Dumps[d].area
        <5> SUFFICES ASSUME NEW e \in 1..(d - 1), Dumps[e].area = l PROVE FALSE
          BY <4>2
        <5>1. e \in DOMAIN Dumps /\ ~(d <= e)
          BY <4>2, ItemFacts
        <5> QED
          BY <4>1, <5>1
      <4>4. d \in dumps
        BY <1>4, <2>2, <4>2, <4>3, ItemFacts DEF FirstDump
      <4> QED
        BY <4>2, <4>4
    <3>3. l \in Lib
      BY <1>3, <2>2
    <3>4. (\E i \in Item : AreaOf[i] = l) \/ (\E d \in DOMAIN Dumps : Dumps[d].area = l)
      <4>1. Lib \subseteq {AreaOf[i] : i \in Item} \cup {Dumps[d].area : d \in DOMAIN Dumps}
        BY StatMemAssumption
      <4> QED
        BY <3>3, <4>1
    <3> QED
      BY <3>1, <3>2, <3>4
  <2> HIDE DEF begun
  <2> QED
    BY <2>1, <2>2
<1>14. /\ isLoaded' \in [Lib -> BOOLEAN]
       /\ \A l \in Lib : isLoaded'[l] <=> isLoaded[l] \/ l \in Fresh(start)
  BY <1>1, <1>2, <1>13
<1>15. /\ skipVal' \in [Lib -> BOOLEAN] /\ \A l \in Lib : skipVal[l] => skipVal'[l]
       /\ \A i \in Item : AreaOf[i] \in Fresh(start) /\ late => skipVal'[AreaOf[i]]
  BY <1>1, <1>2, <1>3
<1> QED
  BY <1>8, <1>9, <1>10, <1>11, <1>12, <1>14, <1>15 DEF Pic
\* The stack end moves what is on the stack.
StackMoves ==
    /\ addr' \in [Item -> Int] /\ offs' \in [Cache -> Int] /\ onStack' = [i \in Item |-> FALSE]
    /\ \A i \in Item : addr'[i] = IF onStack[i] THEN StackEnd - addr[i] ELSE addr[i]
    /\ \A i \in Item : offs'[CacheOf[i]] =
          IF \E j \in Item : onStack[j] /\ CacheOf[j] = CacheOf[i]
          THEN StackEnd - offs[CacheOf[i]] ELSE offs[CacheOf[i]]

StackStep == StackMoves \/ UNCHANGED <<addr, offs, onStack>>

LEMMA StackEndMoves ==
    ASSUME TypesInv, ProcessStackEnd(StackEnd)
    PROVE  StackMoves
<1>1. /\ addr' = [i \in Item |-> IF onStack[i] THEN StackEnd - addr[i] ELSE addr[i]]
      /\ offs' = [c \in Cache |-> IF \E i \in OnStack : CacheOf[i] = c THEN StackEnd - offs[c] ELSE offs[c]]
      /\ onStack' = [i \in Item |-> FALSE]
  BY DEF ProcessStackEnd
<1>2. addr \in [Item -> Int] /\ offs \in [Cache -> Int] /\ StackEnd \in Int
  BY LoaderAssumption DEF TypesInv
<1>3. \A i \in Item : CacheOf[i] \in Cache
  BY ItemFacts
<1>4. \A c : (\E i \in OnStack : CacheOf[i] = c) <=> (\E j \in Item : onStack[j] /\ CacheOf[j] = c)
  BY DEF OnStack
<1>5. addr' \in [Item -> Int] /\ offs' \in [Cache -> Int]
  BY <1>1, <1>2
<1>6. \A i \in Item : addr'[i] = IF onStack[i] THEN StackEnd - addr[i] ELSE addr[i]
  BY <1>1
<1>7. \A i \in Item : offs'[CacheOf[i]] =
          IF \E j \in Item : onStack[j] /\ CacheOf[j] = CacheOf[i]
          THEN StackEnd - offs[CacheOf[i]] ELSE offs[CacheOf[i]]
  BY <1>1, <1>3, <1>4
<1> QED
  BY <1>1, <1>5, <1>6, <1>7 DEF StackMoves

LEMMA StackSteps ==
    ASSUME TypesInv
    PROVE  /\ HandleStackEnd => StackStep
           /\ \A next : ReadFifo(next) => StackStep
<1>1. ASSUME HandleStackEnd
      PROVE  StackStep
  <2> DEFINE b == BoundsOf(rlist, "stack", <<0, 0>>)
  <2>1. PICK v \in StatSays :
           LET end == GetStackEnd(v, b)
           IN  IF end # b[1] THEN ProcessStackEnd(end)
               ELSE UNCHANGED <<addr, offs, onStack, stackEnd>>
    BY <1>1 DEF HandleStackEnd
  <2> HIDE DEF b
  <2>2. v \in {0, StackEnd}
    BY LoaderAssumption
  <2>3. GetStackEnd(v, b) # b[1] => GetStackEnd(v, b) = v /\ v # 0
    BY DEF GetStackEnd
  <2>4. ProcessStackEnd(StackEnd) \/ UNCHANGED <<addr, offs, onStack>>
    BY <2>1, <2>2, <2>3
  <2> QED
    BY <2>4, StackEndMoves DEF StackStep
<1>2. ASSUME NEW next, ReadFifo(next)
      PROVE  StackStep
  <2>1. ProcessStackEnd(StackEnd) \/ UNCHANGED <<addr, offs, onStack>>
    BY <1>2 DEF ReadFifo
  <2> QED
    BY <2>1, StackEndMoves DEF StackStep
<1> QED
  BY <1>1, <1>2

LEMMA StackTypes ==
    ASSUME TypesInv, StackStep
    PROVE  /\ addr' \in [Item -> Int] /\ offs' \in [Cache -> Int]
           /\ onStack' \in [Item -> BOOLEAN] /\ \A i \in Item : onStack'[i] => AreaOf[i] = Stack
<1>1. CASE StackMoves
  <2>1. onStack' = [i \in Item |-> FALSE]
    BY <1>1 DEF StackMoves
  <2>2. onStack' \in [Item -> BOOLEAN] /\ \A i \in Item : onStack'[i] = FALSE
    BY <2>1
  <2> QED
    BY <1>1, <2>2 DEF StackMoves
<1>2. CASE UNCHANGED <<addr, offs, onStack>>
  BY <1>2 DEF TypesInv
<1> QED
  BY <1>1, <1>2 DEF StackStep

\* handle_statmem_pie() moves what is in the executable.
PieMoves ==
    /\ addr' \in [Item -> Int] /\ offs' \in [Cache -> Int] /\ dumpAddr' \in [DOMAIN Dumps -> Int]
    /\ \A i \in Item : LET amount == IF AreaOf[i] = Exe THEN codeOffs ELSE 0
                       IN  /\ addr'[i] = addr[i] + amount
                           /\ offs'[CacheOf[i]] = offs[CacheOf[i]] + amount
    /\ \A d \in DOMAIN Dumps : dumpAddr'[d] = dumpAddr[d] + IF Dumps[d].area = Exe THEN codeOffs ELSE 0

LEMMA PieStep ==
    ASSUME TypesInv, HandleStatmemPie
    PROVE  PieMoves
<1> DEFINE by == [i \in InExe |-> codeOffs]
<1>1. /\ addr' = [i \in Item |-> IF i \in InExe THEN addr[i] + codeOffs ELSE addr[i]]
      /\ offs' = MoveCaches(InExe, by)
      /\ dumpAddr' = [d \in DOMAIN Dumps |->
                         IF Dumps[d].area = Exe THEN dumpAddr[d] + codeOffs ELSE dumpAddr[d]]
  BY DEF HandleStatmemPie
<1>2. addr \in [Item -> Int] /\ dumpAddr \in [DOMAIN Dumps -> Int] /\ codeOffs \in Nat
      /\ offs \in [Cache -> Int]
  BY DEF TypesInv
<1>3. InExe \in SUBSET Item /\ \A i \in Item : i \in InExe <=> AreaOf[i] = Exe
  BY DEF InExe
<1>4. by \in [InExe -> Nat] /\ \A i \in InExe : by[i] = codeOffs
  BY <1>2
<1> HIDE DEF by
<1>5. /\ MoveCaches(InExe, by) \in [Cache -> Int]
      /\ \A i \in Item : MoveCaches(InExe, by)[CacheOf[i]] =
                            offs[CacheOf[i]] + IF i \in InExe THEN by[i] ELSE 0
  <2>1. /\ \A i, j \in InExe : AreaOf[i] = AreaOf[j] => by[i] = by[j]
        /\ \A i \in Item, j \in InExe : AreaOf[i] = AreaOf[j] => i \in InExe
    BY <1>3, <1>4
  <2> QED
    BY <1>3, <1>4, <2>1, CacheMoves
<1>6. addr' \in [Item -> Int] /\ dumpAddr' \in [DOMAIN Dumps -> Int]
  BY <1>1, <1>2
<1>7. \A i \in Item : addr'[i] = addr[i] + IF AreaOf[i] = Exe THEN codeOffs ELSE 0
  BY <1>1, <1>2, <1>3
<1>8. \A i \in Item : offs'[CacheOf[i]] = offs[CacheOf[i]] + IF AreaOf[i] = Exe THEN codeOffs ELSE 0
  BY <1>1, <1>3, <1>4, <1>5
<1>9. \A d \in DOMAIN Dumps : dumpAddr'[d] = dumpAddr[d] + IF Dumps[d].area = Exe THEN codeOffs ELSE 0
  BY <1>1, <1>2
<1> QED
  BY <1>1, <1>5, <1>6, <1>7, <1>8, <1>9 DEF PieMoves

\* Looking for libraries, at the start and at the end of a round.
LEMMA StartKept ==
    ASSUME TypesInv, NEW q \in Seq(Region), NEW st, st = FindLibRegions(LibList, libStart, q, PartOf)
    PROVE  st \in [Lib -> Nat] /\ \A l \in Lib : libStart[l] # 0 => st[l] = libStart[l]
<1>1. libStart \in [Lib -> Nat]
  BY DEF TypesInv
<1> QED
  BY <1>1, FindRight

LEMMA LatePicStep ==
    ASSUME MapInv, RegionsInv, TypesInv, LatePic
    PROVE  /\ libStart' \in [Lib -> Nat] /\ \A l \in Lib : libStart[l] # 0 => libStart'[l] = libStart[l]
           /\ Pic(libStart', TRUE)
           /\ \/ (\A l \in Lib : isLoaded[l]) /\ libStart' = libStart
              \/ /\ rlist' = Regions.rlist
                 /\ libStart' = FindLibRegions(LibList, libStart, Regions.rlist, PartOf)
<1> DEFINE missing == \E l \in Lib : ~isLoaded[l]
           st      == IF missing THEN FindLibRegions(LibList, libStart, Regions.rlist, PartOf) ELSE libStart
<1>1. libStart' = st /\ (missing => rlist' = Regions.rlist) /\ HandleStatmemPic(st, TRUE)
  BY DEF LatePic
<1>2. libStart \in [Lib -> Nat]
  BY DEF TypesInv
<1>3. Regions.rlist \in Seq(Region)
  BY RegionsRight DEF AllRight
<1>4. PICK s : s = st
  OBVIOUS
<1>5. s \in [Lib -> Nat] /\ \A l \in Lib : libStart[l] # 0 => s[l] = libStart[l]
  <2>1. CASE missing
    <3>1. s = FindLibRegions(LibList, libStart, Regions.rlist, PartOf)
      BY <1>4, <2>1
    <3> QED
      BY <1>3, <3>1, StartKept
  <2>2. CASE ~missing
    BY <1>2, <1>4, <2>2
  <2> QED
    BY <2>1, <2>2
<1>6. HandleStatmemPic(s, TRUE)
  BY <1>1, <1>4
<1>7. Pic(s, TRUE)
  BY <1>5, <1>6, PicMoves
<1> QED
  BY <1>1, <1>4, <1>5, <1>7
\* find_exe_region() and calc_exe_offs().
LEMMA ExeOffsType ==
    ASSUME NEW q \in Seq(Region)
    PROVE  ExeOffsOf(q) \in Nat
<1> DEFINE exe == {k \in DOMAIN q : q[k].type = "exe" /\ q[k].x}
<1>1. Len(q) \in Nat /\ DOMAIN q = 1..Len(q) /\ \A k \in DOMAIN q : q[k] \in Region
  OBVIOUS
<1>2. exe \subseteq 1..Len(q) /\ \A k \in exe : q[k].start \in Nat
  BY <1>1 DEF Region
<1>3. exe # {} => Min(exe) \in exe
  BY <1>1, <1>2, FirstOf
<1>4. ExeOffsOf(q) = IF exe = {} \/ q[Min(exe)].start \in StaticLoad THEN 0 ELSE q[Min(exe)].start
  BY DEF ExeOffsOf
<1> HIDE DEF exe
<1>5. exe # {} => q[Min(exe)].start \in Nat
  BY <1>2, <1>3
<1>6. CASE exe = {} \/ q[Min(exe)].start \in StaticLoad
  BY <1>4, <1>6
<1>7. CASE ~(exe = {} \/ q[Min(exe)].start \in StaticLoad)
  BY <1>4, <1>5, <1>7
<1> QED
  BY <1>6, <1>7

LEMMA TypesKept ==
    ASSUME TypesInv, UNCHANGED <<addr, offs, codeOffs, dumpAddr, onStack, libStart, isLoaded,
                                 skipVal, act, alive>>
    PROVE  TypesInv'
  BY DEF TypesInv

LEMMA TypesStep ==
    ASSUME MapInv, RegionsInv, TypesInv, [Next]_vars
    PROVE  TypesInv'
<1> USE DEF TypesInv
<1>1. CASE HandleAslr
  <2> DEFINE q == Regions.rlist
  <2>1. codeOffs' = ExeOffsOf(q) /\ libStart' = FindLibRegions(LibList, libStart, q, PartOf)
        /\ UNCHANGED <<addr, offs, onStack, isLoaded, skipVal, dumpAddr, act, alive>>
    BY <1>1 DEF HandleAslr, gameVars
  <2>2. q \in Seq(Region)
    BY RegionsRight DEF AllRight
  <2> HIDE DEF q
  <2>3. codeOffs' \in Nat
    BY <2>1, <2>2, ExeOffsType
  <2>4. PICK st : st = libStart'
    OBVIOUS
  <2>5. st \in [Lib -> Nat] /\ \A l \in Lib : libStart[l] # 0 => st[l] = libStart[l]
    BY <2>1, <2>2, <2>4, StartKept
  <2> QED
    BY <2>1, <2>3, <2>4, <2>5
<1>2. CASE HandleStatmemPie
  <2>1. UNCHANGED <<codeOffs, onStack, libStart, isLoaded, skipVal, act, alive>>
    BY <1>2 DEF HandleStatmemPie, gameVars
  <2>2. addr' \in [Item -> Int] /\ offs' \in [Cache -> Int] /\ dumpAddr' \in [DOMAIN Dumps -> Int]
    BY <1>2, PieStep DEF PieMoves
  <2> QED
    BY <2>1, <2>2
<1>3. CASE EarlyPic
  <2>1. UNCHANGED <<codeOffs, onStack, libStart, act, alive>> /\ HandleStatmemPic(libStart, FALSE)
    BY <1>3 DEF EarlyPic, gameVars
  <2>2. Pic(libStart, FALSE)
    BY <2>1, PicMoves
  <2>3. /\ addr' \in [Item -> Int] /\ offs' \in [Cache -> Int] /\ dumpAddr' \in [DOMAIN Dumps -> Int]
        /\ isLoaded' \in [Lib -> BOOLEAN] /\ skipVal' \in [Lib -> BOOLEAN]
        /\ \A l \in Lib : isLoaded'[l] <=> isLoaded[l] \/ l \in Fresh(libStart)
    BY <2>2 DEF Pic
  <2>4. \A l \in Lib : isLoaded'[l] => libStart[l] # 0
    BY <2>3 DEF Fresh
  <2> QED
    BY <2>1, <2>3, <2>4
<1>4. CASE HandleStackEnd
  <2>1. UNCHANGED <<codeOffs, libStart, isLoaded, skipVal, dumpAddr, act, alive>>
    BY <1>4 DEF HandleStackEnd, gameVars
  <2> QED
    BY <1>4, <2>1, StackSteps, StackTypes
<1>5. CASE Input
  <2>1. UNCHANGED <<codeOffs, libStart, isLoaded, skipVal, dumpAddr, alive>> /\ ReadFifo("check")
    BY <1>5 DEF Input, gameVars
  <2>2. PICK t \in {{}} \cup {{i} : i \in Keyed} : act' = (act \ t) \cup (t \ act)
    BY <1>5 DEF Input
  <2>3. Keyed \subseteq Value
    BY StatMemAssumption
  <2>4. act' \subseteq Value
    BY <2>2, <2>3
  <2> QED
    BY <2>1, <2>4, StackSteps, StackTypes
<1>6. CASE Attach
  <2>1. UNCHANGED <<codeOffs, libStart, isLoaded, skipVal, dumpAddr, act, alive>> /\ ReadFifo("process")
    BY <1>6 DEF Attach, gameVars
  <2> QED
    BY <2>1, StackSteps, StackTypes
<1>7. CASE LatePic
  <2>1. UNCHANGED <<codeOffs, onStack, act, alive>>
    BY <1>7 DEF LatePic, gameVars
  <2>2. /\ libStart' \in [Lib -> Nat] /\ \A l \in Lib : libStart[l] # 0 => libStart'[l] = libStart[l]
        /\ Pic(libStart', TRUE)
    BY <1>7, LatePicStep
  <2>3. PICK st : st = libStart'
    OBVIOUS
  <2>4. /\ addr' \in [Item -> Int] /\ offs' \in [Cache -> Int] /\ dumpAddr' \in [DOMAIN Dumps -> Int]
        /\ isLoaded' \in [Lib -> BOOLEAN] /\ skipVal' \in [Lib -> BOOLEAN]
        /\ \A l \in Lib : isLoaded'[l] <=> isLoaded[l] \/ (st[l] # 0 /\ ~isLoaded[l])
    BY <2>2, <2>3 DEF Pic, Fresh
  <2>5. \A l \in Lib : isLoaded'[l] => st[l] # 0
    BY <2>2, <2>3, <2>4
  <2> QED
    BY <2>1, <2>2, <2>3, <2>4, <2>5
<1>8. CASE Output
  <2>1. UNCHANGED <<addr, offs, codeOffs, onStack, libStart, isLoaded, dumpAddr, act, alive>>
    BY <1>8 DEF Output, gameVars
  <2>2. skipVal' \in [Lib -> BOOLEAN]
    BY <1>8 DEF Output
  <2> QED
    BY <2>1, <2>2
<1>9. CASE Skip \/ Process
  <2>1. UNCHANGED <<addr, offs, codeOffs, dumpAddr, onStack, libStart, isLoaded, skipVal, act, alive>>
    BY <1>9 DEF Skip, Process, gameVars
  <2> QED
    BY <2>1, TypesKept
<1>10. CASE (\E l \in Lib : LoadLib(l)) \/ GrowHeap \/ SendStackEnd \/ UNCHANGED vars
  <2>1. UNCHANGED <<addr, offs, codeOffs, dumpAddr, onStack, libStart, isLoaded, skipVal, act, alive>>
    BY <1>10 DEF LoadLib, GrowHeap, SendStackEnd, vars, trainerVars, gameVars
  <2> QED
    BY <2>1, TypesKept
<1>11. CASE GameEnds
  <2>1. UNCHANGED trainerVars /\ alive' = FALSE
    BY <1>11 DEF GameEnds
  <2> QED
    BY <2>1 DEF trainerVars
<1> QED
  BY <1>1, <1>2, <1>3, <1>4, <1>5, <1>6, <1>7, <1>8, <1>9, <1>10, <1>11
     DEF Next, Startup, Round, Game
(***************************************************************************)
(* The heap checks.                                                        *)
(***************************************************************************)
LEMMA HeapBounds ==
    ASSUME NEW q, AllRight(q), HeapInv
    PROVE  LET b == BoundsOf(q, "heap", chkHeap)
           IN  b = <<0, 0>> \/ (b[1] = HeapMin /\ b[2] \in Nat /\ b[2] <= heapEnd)
<1> DEFINE hits == {k \in DOMAIN q : q[k].type = "heap"}
           b    == BoundsOf(q, "heap", chkHeap)
<1>1. /\ q \in Seq(Region) /\ Len(q) \in Nat /\ DOMAIN q = 1..Len(q)
      /\ \A k \in DOMAIN q : q[k] \in Region /\ Right(q[k])
  BY DEF AllRight
<1>2. hits # {} => Min(hits) \in hits
  BY <1>1, FirstOf
<1>3. b = IF hits = {} THEN chkHeap ELSE <<q[Min(hits)].start, q[Min(hits)].end>>
  BY DEF BoundsOf
<1>4. ASSUME NEW r \in Region, Right(r), r.type = "heap"
      PROVE  r.start = HeapMin /\ r.end \in Nat /\ r.end <= heapEnd
  BY <1>4 DEF Right, RightSection, Region
<1> HIDE DEF b
<1>5. CASE hits = {}
  BY <1>3, <1>5 DEF HeapInv, b
<1>6. CASE hits # {}
  <2> DEFINE r == q[Min(hits)]
  <2>1. r \in Region /\ Right(r) /\ r.type = "heap"
    BY <1>1, <1>2, <1>6
  <2>2. b = <<r.start, r.end>>
    BY <1>3, <1>6
  <2> HIDE DEF r
  <2> QED
    BY <1>4, <2>1, <2>2 DEF b
<1> QED
  BY <1>5, <1>6

LEMMA HeapStep ==
    ASSUME MapInv, RegionsInv, HeapInv, [Next]_vars
    PROVE  HeapInv'
<1>1. heapEnd \in Nat /\ heapEnd' \in Nat /\ heapEnd <= heapEnd'
  BY MapStep
<1>2. CASE UNCHANGED chkHeap
  <2>1. chkHeap[2] \in Nat /\ chkHeap[2] <= heapEnd => chkHeap[2] <= heapEnd'
    BY <1>1
  <2> QED
    BY <1>2, <2>1 DEF HeapInv
<1>3. CASE LatePic /\ HeapChecks
  <2>1. chkHeap' = BoundsOf(Regions.rlist, "heap", chkHeap) /\ heapEnd' = heapEnd
    BY <1>3 DEF LatePic, gameVars
  <2>2. PICK b : b = BoundsOf(Regions.rlist, "heap", chkHeap)
    OBVIOUS
  <2>3. b = <<0, 0>> \/ (b[1] = HeapMin /\ b[2] \in Nat /\ b[2] <= heapEnd)
    BY <2>2, RegionsRight, HeapBounds
  <2> QED
    BY <2>1, <2>2, <2>3 DEF HeapInv
<1>4. Startup => UNCHANGED chkHeap
  BY DEF Startup, HandleAslr, HandleStatmemPie, EarlyPic, HandleStackEnd
<1>5. LatePic /\ ~HeapChecks => UNCHANGED chkHeap
  BY DEF LatePic
<1>6. Input \/ Skip \/ Attach \/ Process \/ Output => UNCHANGED chkHeap
  BY DEF Input, Skip, Attach, Process, Output
<1>7. Game \/ UNCHANGED vars => UNCHANGED chkHeap
  BY DEF Game, LoadLib, GrowHeap, SendStackEnd, GameEnds, trainerVars, vars
<1> QED
  BY <1>2, <1>3, <1>4, <1>5, <1>6, <1>7 DEF Next, Round

(***************************************************************************)
(* What is output was read.                                                *)
(***************************************************************************)
\* What HeldInv depends on does not change.
LEMMA HeldKept ==
    ASSUME TypesInv, HeldInv, UNCHANGED <<act, read, printed, onStack, libStart, skipVal, pc>>
    PROVE  HeldInv'
<1>1. \A i : Known(i)' <=> Known(i)
  BY DEF Known
<1>2. HeldBack' <=> HeldBack
  BY <1>1 DEF HeldBack
<1> QED
  BY <1>1, <1>2 DEF HeldInv

\* Nothing is output, and there is nothing to be read.
LEMMA HeldNothing ==
    ASSUME printed' = {}, pc' \notin {"heap", "output"}
    PROVE  HeldInv'
  BY DEF HeldInv

LEMMA HeldStep ==
    ASSUME MapInv, RegionsInv, TypesInv, HeldInv, [Next]_vars
    PROVE  HeldInv'
<1>1. CASE Startup
  <2>1. UNCHANGED printed /\ pc # "input" /\ pc' \notin {"heap", "output"}
    BY <1>1 DEF Startup, HandleAslr, HandleStatmemPie, EarlyPic, HandleStackEnd
  <2> QED
    BY <2>1, HeldNothing DEF HeldInv
<1>2. CASE Input
  <2>1. printed' = {} /\ pc' \in {"check", "exit"}
    BY <1>2 DEF Input, ReadFifo
  <2> QED
    BY <2>1, HeldNothing
<1>3. CASE Skip
  <2>1. UNCHANGED printed /\ pc # "input" /\ pc' \in {"input", "end"}
    BY <1>3 DEF Skip, Gone
  <2> QED
    BY <2>1, HeldNothing DEF HeldInv
<1>4. CASE Attach
  <2>1. UNCHANGED printed /\ pc # "input" /\ pc' \in {"process", "exit"}
    BY <1>4 DEF Attach, ReadFifo
  <2> QED
    BY <2>1, HeldNothing DEF HeldInv
<1>5. CASE Process
  <2>1. /\ UNCHANGED <<printed, act, onStack, libStart>> /\ pc = "process" /\ pc' = "heap"
        /\ read' = read \cup {i \in act : Known(i)}
    BY <1>5 DEF Process
  <2>2. \A i : Known(i)' <=> Known(i)
    BY <2>1 DEF Known
  <2> QED
    BY <2>1, <2>2 DEF HeldInv
<1>6. CASE LatePic
  <2>1. UNCHANGED <<printed, act, onStack, read>> /\ pc = "heap" /\ pc' = "output"
    BY <1>6 DEF LatePic
  <2>2. PICK st : st = libStart'
    OBVIOUS
  <2>3. Pic(st, TRUE)
    BY <1>6, <2>2, LatePicStep
  <2>4. \A i \in Item : AreaOf[i] \in Fresh(st) => skipVal'[AreaOf[i]]
    BY <2>3 DEF Pic
  <2>5. ASSUME NEW i \in act, Known(i)'
        PROVE  i \in read \/ (AreaOf[i] \in Lib /\ skipVal'[AreaOf[i]])
    <3>1. i \in Item
      BY DEF TypesInv, Value
    <3>2. ~onStack[i] /\ (AreaOf[i] \in Lib => st[AreaOf[i]] # 0)
      BY <2>1, <2>2, <2>5 DEF Known
    <3>3. CASE Known(i)
      BY <2>1, <3>3 DEF HeldInv
    <3>4. CASE ~Known(i)
      <4>1. AreaOf[i] \in Lib /\ libStart[AreaOf[i]] = 0
        BY <3>2, <3>4 DEF Known
      <4>2. ~isLoaded[AreaOf[i]]
        BY <4>1 DEF TypesInv
      <4>3. AreaOf[i] \in Fresh(st)
        BY <3>2, <4>1, <4>2 DEF Fresh
      <4> QED
        BY <2>4, <3>1, <4>1, <4>3
    <3> QED
      BY <3>3, <3>4
  <2>6. printed = {}
    BY <2>1 DEF HeldInv
  <2> QED
    BY <2>1, <2>5, <2>6 DEF HeldInv
<1>7. CASE Output
  <2>1. UNCHANGED <<act, onStack, libStart, read>> /\ pc = "output" /\ pc' = "input"
    BY <1>7 DEF Output
  <2>2. PICK skipped \in SUBSET act :
           /\ \A l \in Lib : LET mine == {i \in act : AreaOf[i] = l /\ Known(i)}
                             IN  skipVal[l] /\ mine # {} => Cardinality(skipped \cap mine) = 1
           /\ printed' = {i \in act \ skipped : Known(i)}
    BY <1>7 DEF Output
  <2>3. \A i : Known(i)' <=> Known(i)
    BY <2>1 DEF Known
  <2>4. ASSUME NEW i \in printed' \ read
        PROVE  AreaOf[i] \in Lib /\ \E j \in act : /\ j \notin printed' /\ AreaOf[j] = AreaOf[i]
                                                   /\ Known(j)
    <3> DEFINE l    == AreaOf[i]
               mine == {k \in act : AreaOf[k] = l /\ Known(k)}
    <3>1. i \in act /\ Known(i) /\ i \notin read
      BY <2>2
    <3>2. l \in Lib /\ skipVal[l]
      BY <2>1, <3>1 DEF HeldInv
    <3>3. i \in mine
      BY <3>1
    <3>4. Cardinality(skipped \cap mine) = 1
      BY <2>2, <3>2, <3>3
    <3>5. skipped \cap mine # {}
      BY <3>4, FS_EmptySet
    <3>6. PICK j : j \in skipped /\ j \in mine
      BY <3>5
    <3> QED
      BY <2>2, <3>2, <3>6
  <2>5. HeldBack'
    BY <2>1, <2>3, <2>4 DEF HeldBack
  <2> QED
    BY <2>1, <2>5 DEF HeldInv
<1>8. CASE Game \/ UNCHANGED vars
  <2>1. UNCHANGED <<act, read, printed, onStack, libStart, skipVal, pc>>
    BY <1>8 DEF Game, LoadLib, GrowHeap, SendStackEnd, GameEnds, trainerVars, vars
  <2> QED
    BY <2>1, HeldKept
<1> QED
  BY <1>1, <1>2, <1>3, <1>4, <1>5, <1>6, <1>7, <1>8 DEF Next, Round
-----------------------------------------------------------------------------
(***************************************************************************)
(* The invariant holds, and with it what it says of the regions, of the    *)
(* heap checks and of the values of late libraries.                        *)
(***************************************************************************)
LEMMA BaseInit ==
    ASSUME Init
    PROVE  BaseInv
<1>1. MapInv
  <2>1. \A l \in Lib : base[l] = 0 /\ base \in [Lib -> Nat]
    BY DEF Init
  <2>2. \A f \in Files : f = ExePath
    BY <2>1 DEF Files, File, Mapped
  <2>3. Apart
    BY <2>2 DEF Apart
  <2> QED
    BY <2>1, <2>3 DEF Init, MapInv
<1>2. RegionsInv
  <2>1. <<>> \in Seq(Region) /\ DOMAIN <<>> = {}
    OBVIOUS
  <2>2. rlist = <<>> /\ scan = InitScan
    BY DEF Init
  <2>3. Rested(scan)
    BY <2>2 DEF Rested, ScanState, InitScan
  <2> QED
    BY <2>1, <2>2, <2>3 DEF RegionsInv, AllRight
<1>3. TypesInv
  <2>1. \A d \in DOMAIN Dumps : Dumps[d].addr \in Int
    BY ItemFacts
  <2>2. dumpAddr \in [DOMAIN Dumps -> Int]
    BY <2>1 DEF Init
  <2>3. addr \in [Item -> Int] /\ offs \in [Cache -> Int]
    BY ItemFacts DEF Init
  <2> QED
    BY <2>2, <2>3 DEF Init, TypesInv
<1>4. HeapInv /\ HeldInv
  BY DEF Init, HeapInv, HeldInv
<1> QED
  BY <1>1, <1>2, <1>3, <1>4 DEF BaseInv

LEMMA BaseStep ==
    ASSUME BaseInv, [Next]_vars
    PROVE  BaseInv'
  BY MapStep, RegionsStep, TypesStep, HeapStep, HeldStep DEF BaseInv

LEMMA BaseInvAlways == Spec => []BaseInv
  BY BaseInit, BaseStep, PTL DEF Spec

\* RegionTypes: process_map() tells the regions of the executable, of the
\* libraries, the heap and the stack apart and knows the load addresses, however
\* the files are laid out and whatever its static variables were left at.
THEOREM RegionTypesAlways == Spec => []RegionTypes
<1>1. ASSUME BaseInv
      PROVE  RegionTypes
  <2> USE <1>1 DEF BaseInv
  <2> SUFFICES ASSUME NEW r, Right(r)
               PROVE  CASE FileOf(r) = HeapPath  -> r.type = "heap"
                        [] FileOf(r) = StackPath -> r.type = "stack"
                        [] FileOf(r) = ExePath   -> r.type = "exe" /\ r.load = exeBase
                        [] IsFifth(r, FileOf(r)) -> r.type = "misc" /\ r.load = r.start
                        [] OTHER                 -> r.type = "code" /\ r.load = base[FileOf(r)]
    BY DEF RegionsInv, AllRight, RegionTypes
  <2>0. ExePath \notin {HeapPath, StackPath} /\ HeapPath # StackPath /\ NoFile \notin {HeapPath, StackPath}
        /\ \A f \in File : f \notin {NoFile, HeapPath, StackPath}
    BY LoaderAssumption DEF File
  <2>1. CASE r.file = HeapPath /\ r.type = "heap"
    BY <2>0, <2>1 DEF FileOf, IsFifth
  <2>2. CASE r.file = StackPath /\ r.type = "stack"
    BY <2>0, <2>2 DEF FileOf, IsFifth
  <2>3. ASSUME NEW f \in Files, NEW p \in Names(f), r.start = Start(f, p),
               r.file = IF p = "bss" THEN NoFile ELSE f
        PROVE  FileOf(r) = f
    <3>1. f \in File /\ Mapped(f) # 0
      BY DEF Files
    <3>2. CASE p # "bss"
      BY <2>0, <2>3, <3>1, <3>2 DEF FileOf
    <3>3. CASE p = "bss"
      <4> DEFINE Holds(g) == Mapped(g) # 0 /\ \E m \in Sections(g, Mapped(g)) : m.start = r.start
      <4>1. FileOf(r) = CHOOSE g \in File : Holds(g)
        BY <2>3, <3>3 DEF FileOf
      <4>2. Holds(f)
        <5>1. Line(f, p) \in Sections(f, Mapped(f)) /\ Line(f, p).start = r.start
          BY <2>3, SectionLines, LineFields
        <5> QED
          BY <3>1, <5>1
      <4>3. ASSUME NEW g \in File, Holds(g)
            PROVE  g = f
        <5>1. g \in Files
          BY <4>3 DEF Files
        <5>2. PICK m \in Sections(g, Mapped(g)) : m.start = r.start
          BY <4>3
        <5>3. PICK q \in Names(g) : m = Line(g, q)
          BY <5>1, <5>2, SectionLines
        <5>4. Start(g, q) = Start(f, p) /\ Start(f, p) \in Nat
          BY <2>3, <5>2, <5>3, LineFields, SectionPlaces
        <5> SUFFICES ASSUME g # f PROVE FALSE
          OBVIOUS
        <5>5. Outside(Start(f, p), g)
          BY <5>1 DEF MapInv, Apart
        <5> QED
          BY <5>1, <5>4, <5>5, OutsideElsewhere
      <4> HIDE DEF Holds
      <4> QED
        BY <3>1, <4>1, <4>2, <4>3
    <3> QED
      BY <3>2, <3>3
  <2>4. ASSUME NEW f \in Files, NEW p \in Names(f), RightSection(r, f, p)
        PROVE  CASE FileOf(r) = HeapPath  -> r.type = "heap"
                 [] FileOf(r) = StackPath -> r.type = "stack"
                 [] FileOf(r) = ExePath   -> r.type = "exe" /\ r.load = exeBase
                 [] IsFifth(r, FileOf(r)) -> r.type = "misc" /\ r.load = r.start
                 [] OTHER                 -> r.type = "code" /\ r.load = base[FileOf(r)]
    <3>1. FileOf(r) = f /\ f \in File
      BY <2>3, <2>4 DEF Files, RightSection
    <3>2. Mapped(f) = IF f = ExePath THEN exeBase ELSE base[f]
      BY DEF Mapped
    <3>3. f = ExePath => ~Fifth(f, p)
      BY Numbers
    <3>4. IsFifth(r, f) <=> Fifth(f, p)
      BY <2>0, <2>4, <3>1 DEF IsFifth, Fifth, RightSection
    <3> QED
      BY <2>0, <2>4, <3>1, <3>2, <3>3, <3>4 DEF RightSection
  <2> QED
    BY <2>1, <2>2, <2>4 DEF Right, RightSection
<1> QED
  BY <1>1, BaseInvAlways, PTL

\* HeapInside: handle_heap_checks() never compares with bounds that are wider
\* than the heap, however it grows and whenever it is read.
THEOREM HeapInsideAlways == Spec => []HeapInside
<1>1. BaseInv => HeapInside
  BY DEF BaseInv, HeapInv, HeapInside
<1> QED
  BY <1>1, BaseInvAlways, PTL

\* HeldBack: what output_mem_values() shows without having been read belongs to a
\* library that was found in this round, of which it holds another value back.
THEOREM HeldBackAlways == Spec => []HeldBack
<1>1. BaseInv => HeldBack
  BY DEF BaseInv, HeldInv, HeldBack
<1> QED
  BY <1>1, BaseInvAlways, PTL
-----------------------------------------------------------------------------
(***************************************************************************)
(* The libraries are found where they are.                                 *)
(***************************************************************************)
LEMMA FoundKept ==
    ASSUME BaseInv, FoundInv, [Next]_vars, UNCHANGED <<libStart, isLoaded, rlist>>,
           pc \in {"aslr", "pie", "pic"} => pc' \in {"aslr", "pie", "pic"},
           pc' = "output" => pc = "output"
    PROVE  FoundInv'
<1>1. \A l \in Lib : base[l] # 0 => base'[l] = base[l]
  BY MapStep DEF BaseInv
<1>2. \A l \in Lib : isLoaded[l] => libStart[l] # 0
  BY DEF BaseInv, TypesInv
<1>3. \A l \in Lib : libStart'[l] \in {0, base'[l]}
  BY <1>1 DEF FoundInv
<1>4. pc' = "output" => \A l \in Lib : (\E k \in DOMAIN rlist' : rlist'[k].file = l)
                                          => libStart'[l] = base'[l] /\ isLoaded'[l]
  BY <1>1, <1>2 DEF FoundInv, AllFound
<1> QED
  BY <1>3, <1>4 DEF FoundInv, AllFound

\* A file that a reading lists a region of has its code there, too.
LEMMA ListedCode ==
    ASSUME MapInv, RegionsInv, NEW l \in Lib, NEW k \in DOMAIN Regions.rlist,
           Regions.rlist[k].file = l
    PROVE  /\ l \in Files
           /\ \E j \in DOMAIN Regions.rlist : Regions.rlist[j].file = l /\ Regions.rlist[j].x
<1> DEFINE q == Regions.rlist
<1>1. AllRight(q) /\ (alive => \A m \in MapSet : IsListed(m) => InList(q, m)) /\ (~alive => q = <<>>)
  BY RegionsRight
<1>2. alive
  <2>1. DOMAIN <<>> = {}
    OBVIOUS
  <2> QED
    BY <1>1, <2>1
<1>3. Right(q[k]) /\ q[k].file = l
  BY <1>1 DEF AllRight
<1>4. l \notin {NoFile, HeapPath, StackPath}
  BY LoaderAssumption DEF File
<1> HIDE DEF q
<1>5. l \in Files
  BY <1>3, <1>4 DEF Right, RightSection
<1>6. PICK m : m = Line(l, "text")
  OBVIOUS
<1>7. m \in MapSet /\ m.x /\ IsListed(m) /\ m.file = l
  <2>1. m \in MapSet
    BY <1>5, <1>6, MapLines DEF Names
  <2> QED
    BY <1>6, <2>1, TextFields
<1>8. InList(q, m)
  BY <1>1, <1>2, <1>7
<1> QED
  BY <1>5, <1>7, <1>8 DEF InList, q

LEMMA FoundStep ==
    ASSUME LibNamesDiffer, BaseInv, FoundInv, [Next]_vars
    PROVE  FoundInv'
<1> USE DEF BaseInv
<1>0. libStart \in [Lib -> Nat] /\ (\A l \in Lib : libStart[l] \in {0, base[l]})
      /\ \A l \in Lib : isLoaded[l] => libStart[l] # 0
  BY DEF FoundInv, TypesInv
<1>1. CASE HandleAslr
  <2> DEFINE q == Regions.rlist
  <2>1. libStart' = FindLibRegions(LibList, libStart, q, PartOf) /\ pc' = "pie" /\ base' = base
    BY <1>1 DEF HandleAslr, gameVars
  <2>2. AllRight(q) /\ q \in Seq(Region)
    BY RegionsRight DEF AllRight
  <2> HIDE DEF q
  <2>3. PICK st : st = libStart'
    OBVIOUS
  <2>4. \A l \in Lib : st[l] \in {0, base[l]}
    BY <1>0, <2>1, <2>2, <2>3, FindRight
  <2> QED
    BY <2>1, <2>3, <2>4 DEF FoundInv, AllFound
<1>2. CASE EarlyPic
  <2>1. UNCHANGED <<libStart, base>> /\ pc' = "stackend" /\ HandleStatmemPic(libStart, FALSE)
    BY <1>2 DEF EarlyPic, gameVars
  <2>2. Pic(libStart, FALSE)
    BY <1>0, <2>1, PicMoves
  <2>3. \A l \in Lib : libStart[l] # 0 => isLoaded'[l]
    BY <2>2 DEF Pic, Fresh
  <2> QED
    BY <1>0, <2>1, <2>3 DEF FoundInv, AllFound
<1>3. CASE LatePic
  <2> DEFINE q == Regions.rlist
  <2>1. pc' = "output" /\ base' = base
    BY <1>3 DEF LatePic, gameVars
  <2>2. PICK st : st = libStart'
    OBVIOUS
  <2>3. /\ Pic(st, TRUE) /\ \A l \in Lib : libStart[l] # 0 => st[l] = libStart[l]
        /\ \/ (\A l \in Lib : isLoaded[l]) /\ st = libStart
           \/ rlist' = q /\ st = FindLibRegions(LibList, libStart, q, PartOf)
    BY <1>3, <2>2, LatePicStep
  <2>4. AllRight(q) /\ q \in Seq(Region)
    BY RegionsRight DEF AllRight
  <2>5. \A l \in Lib : isLoaded'[l] <=> isLoaded[l] \/ (st[l] # 0 /\ ~isLoaded[l])
    BY <2>3 DEF Pic, Fresh
  <2>6. \A l \in Lib : st[l] # 0 => isLoaded'[l]
    BY <2>5
  <2>7. CASE (\A l \in Lib : isLoaded[l]) /\ st = libStart
    <3>1. \A l \in Lib : st[l] = base[l] /\ st[l] # 0
      BY <1>0, <2>7
    <3> QED
      BY <2>1, <2>2, <2>6, <3>1 DEF FoundInv, AllFound
  <2>8. CASE rlist' = q /\ st = FindLibRegions(LibList, libStart, q, PartOf)
    <3>1. \A l \in Lib : /\ st[l] \in {0, base[l]}
                         /\ (\E k \in DOMAIN q : q[k].file = l /\ q[k].x) => st[l] = base[l]
      BY <1>0, <2>4, <2>8, FindRight
    <3>2. ASSUME NEW l \in Lib, \E k \in DOMAIN q : q[k].file = l
          PROVE  st[l] = base[l] /\ st[l] # 0
      <4>1. l \in Files /\ \E k \in DOMAIN q : q[k].file = l /\ q[k].x
        BY <3>2, ListedCode
      <4>2. base[l] # 0
        BY <4>1, LoaderAssumption DEF Files, Mapped
      <4> QED
        BY <3>1, <4>1, <4>2
    <3> HIDE DEF q
    <3> QED
      BY <2>1, <2>2, <2>6, <2>8, <3>1, <3>2 DEF FoundInv, AllFound
  <2> QED
    BY <2>3, <2>7, <2>8
<1>4. CASE HandleStatmemPie \/ HandleStackEnd
  <2>1. UNCHANGED <<libStart, isLoaded, rlist>> /\ pc' # "output"
        /\ (pc \in {"aslr", "pie", "pic"} => pc' \in {"aslr", "pie", "pic"})
    BY <1>4 DEF HandleStatmemPie, HandleStackEnd
  <2> QED
    BY <2>1, FoundKept
<1>5. CASE Input \/ Skip \/ Attach \/ Process \/ Output
  <2>1. UNCHANGED <<libStart, isLoaded, rlist>> /\ pc' # "output" /\ pc \notin {"aslr", "pie", "pic"}
    BY <1>5 DEF Input, Skip, Gone, Attach, ReadFifo, Process, Output
  <2> QED
    BY <2>1, FoundKept
<1>6. CASE Game \/ UNCHANGED vars
  <2>1. UNCHANGED <<libStart, isLoaded, rlist, pc>>
    BY <1>6 DEF Game, LoadLib, GrowHeap, SendStackEnd, GameEnds, trainerVars, vars
  <2> QED
    BY <2>1, FoundKept
<1> QED
  BY <1>1, <1>2, <1>3, <1>4, <1>5, <1>6 DEF Next, Startup, Round

LEMMA FoundInit ==
    ASSUME Init
    PROVE  FoundInv
  BY DEF Init, FoundInv, AllFound

\* AllFound: as long as a library name is only a part of the path of its own
\* library, each library that the memory map shows is found at its own load
\* address by the end of the round, in whatever order libraries are mapped.
THEOREM AllFoundAlways == ASSUME LibNamesDiffer PROVE Spec => []AllFound
<1>1. Init => BaseInv /\ FoundInv
  BY BaseInit, FoundInit
<1>2. BaseInv /\ FoundInv /\ [Next]_vars => (BaseInv /\ FoundInv)'
  BY BaseStep, FoundStep
<1>3. FoundInv => AllFound
  BY DEF FoundInv
<1> QED
  BY <1>1, <1>2, <1>3, PTL DEF Spec
-----------------------------------------------------------------------------
(***************************************************************************)
(* What was configured is moved once, to where it is.                      *)
(***************************************************************************)
\* A library has one dump area at most.
DumpsDiffer == \A d \in DOMAIN Dumps : Dumps[d].area \in Lib => FirstDump(d)

\* What is on the stack shares no cache with what is at another address.
StackCaches == \A i \in Item : AreaOf[i] = Stack => Addr0[i] = Offs0[CacheOf[i]]

LEMMA ExeOffsRight ==
    ASSUME MapInv, RegionsInv, alive
    PROVE  ExeOffsOf(Regions.rlist) = ExeOffs
<1> DEFINE q   == Regions.rlist
           exe == {k \in DOMAIN q : q[k].type = "exe" /\ q[k].x}
<1>1. AllRight(q) /\ \A m \in MapSet : IsListed(m) => InList(q, m)
  BY RegionsRight
<1>2. Len(q) \in Nat /\ DOMAIN q = 1..Len(q) /\ \A k \in DOMAIN q : Right(q[k])
  BY <1>1 DEF AllRight
<1> HIDE DEF q
<1>3. PICK m : m = Line(ExePath, "text")
  OBVIOUS
<1>4. m \in MapSet /\ m.x /\ IsListed(m) /\ m.file = ExePath
  <2>1. m \in MapSet
    BY <1>3, ExeMapped, MapLines DEF Names
  <2> QED
    BY <1>3, <2>1, TextFields
<1>5. PICK j \in DOMAIN q : q[j].file = ExePath /\ q[j].x
  BY <1>1, <1>4 DEF InList
<1>6. q[j].type = "exe"
  <2>1. Right(q[j])
    BY <1>2
  <2>2. ExePath \notin {NoFile, HeapPath, StackPath}
    BY LoaderAssumption DEF File
  <2> QED
    BY <1>5, <2>1, <2>2 DEF Right, RightSection, Fifth
<1>7. ASSUME NEW k \in exe
      PROVE  q[k].start = exeBase
  <2>1. Right(q[k]) /\ q[k].type = "exe" /\ q[k].x
    BY <1>2
  <2>2. PICK f \in Files : \E p \in Names(f) : q[k].start = Start(f, p) /\ p = "text" /\ f = ExePath
    BY <2>1 DEF Right, RightSection, Fifth
  <2>3. Start(f, "text") = Mapped(f) + 0 /\ Mapped(f) = exeBase /\ exeBase \in Nat
    BY <2>2, SectionPlaces, ExeMapped DEF Names, Slot
  <2> QED
    BY <2>2, <2>3
<1>8. exe # {} /\ exe \subseteq 1..Len(q)
  BY <1>2, <1>5, <1>6
<1>9. Min(exe) \in exe
  BY <1>2, <1>8, FirstOf
<1>10. ExeOffsOf(q) = IF exe = {} \/ q[Min(exe)].start \in StaticLoad THEN 0 ELSE q[Min(exe)].start
  BY DEF ExeOffsOf
<1> HIDE DEF exe
<1>11. q[Min(exe)].start = exeBase
  BY <1>7, <1>9
<1> QED
  BY <1>8, <1>10, <1>11 DEF ExeOffs, q

LEMMA CodeStep ==
    ASSUME BaseInv, CodeInv, [Next]_vars
    PROVE  CodeInv'
<1> USE DEF BaseInv
<1>1. ExeOffs' = ExeOffs
  BY MapStep DEF ExeOffs
<1>2. CASE HandleAslr
  <2>1. codeOffs' = ExeOffsOf(Regions.rlist) /\ pc' = "pie" /\ alive' = alive
    BY <1>2 DEF HandleAslr, gameVars
  <2> QED
    BY <1>1, <2>1, ExeOffsRight DEF CodeInv
<1>3. CASE /\ codeOffs' = codeOffs /\ (alive' => alive) /\ (pc' # "aslr" => pc # "aslr")
           /\ pc' = "process" => alive'
  BY <1>1, <1>3 DEF CodeInv
<1>4. CASE HandleStatmemPie \/ EarlyPic \/ HandleStackEnd
  BY <1>3, <1>4 DEF HandleStatmemPie, EarlyPic, HandleStackEnd, gameVars
<1>5. CASE Input \/ Skip \/ Process \/ LatePic \/ Output
  BY <1>3, <1>5 DEF Input, ReadFifo, Skip, Gone, Process, LatePic, Output, gameVars
<1>6. CASE Attach
  BY <1>3, <1>6 DEF Attach, ReadFifo, gameVars
<1>7. CASE Game \/ UNCHANGED vars
  <2>1. UNCHANGED <<codeOffs, pc>> /\ (alive' => alive)
    BY <1>7 DEF Game, LoadLib, GrowHeap, SendStackEnd, GameEnds, trainerVars, gameVars, vars
  <2>2. pc = "process" => alive'
    BY <1>7 DEF CodeInv, Game, LoadLib, GrowHeap, SendStackEnd, GameEnds, Runs, gameVars, vars
  <2> QED
    BY <1>3, <2>1, <2>2
<1> QED
  BY <1>2, <1>4, <1>5, <1>6, <1>7 DEF Next, Startup, Round

\* Items and dump areas move with their areas.
LEMMA ItemsMove ==
    ASSUME BaseInv, ItemsInv, DumpsInv, NEW by \in [Lib \cup {Exe} -> Nat],
           \A a \in Lib \cup {Exe} : Moved(a)' = Moved(a) + by[a],
           \A i \in Item : AreaOf[i] # Stack =>
              /\ offs'[CacheOf[i]] = offs[CacheOf[i]] + by[AreaOf[i]]
              /\ i \in Value => addr'[i] = addr[i] + by[AreaOf[i]],
           \A d \in DOMAIN Dumps : dumpAddr'[d] = dumpAddr[d] + by[Dumps[d].area]
    PROVE  ItemsInv' /\ DumpsInv'
<1>1. \A a \in Lib \cup {Exe} : Moved(a) \in Nat
  BY DEF BaseInv, TypesInv, MapInv, Moved
<1>2. ASSUME NEW i \in Item, AreaOf[i] # Stack
      PROVE  /\ offs'[CacheOf[i]] = Offs0[CacheOf[i]] + Moved(AreaOf[i])'
             /\ i \in Value => addr'[i] = Addr0[i] + Moved(AreaOf[i])'
  <2> DEFINE a == AreaOf[i]
  <2>1. a \in Lib \cup {Exe} /\ Offs0[CacheOf[i]] \in Nat /\ Addr0[i] \in Nat
    BY <1>2, ItemFacts
  <2>2. Moved(a) \in Nat /\ by[a] \in Nat
    BY <1>1, <2>1
  <2>3. Moved(a)' = Moved(a) + by[a]
    BY <2>1
  <2>4. /\ offs'[CacheOf[i]] = (Offs0[CacheOf[i]] + Moved(a)) + by[a]
        /\ i \in Value => addr'[i] = (Addr0[i] + Moved(a)) + by[a]
    BY <1>2 DEF ItemsInv
  <2> HIDE DEF a
  <2> QED
    BY <2>1, <2>2, <2>3, <2>4 DEF a
<1>3. ASSUME NEW d \in DOMAIN Dumps
      PROVE  dumpAddr'[d] = Dumps[d].addr + Moved(Dumps[d].area)'
  <2> DEFINE a == Dumps[d].area
  <2>1. a \in Lib \cup {Exe} /\ Dumps[d].addr \in Nat
    BY ItemFacts
  <2>2. Moved(a) \in Nat /\ by[a] \in Nat
    BY <1>1, <2>1
  <2>3. Moved(a)' = Moved(a) + by[a]
    BY <2>1
  <2>4. dumpAddr'[d] = (Dumps[d].addr + Moved(a)) + by[a]
    BY DEF DumpsInv
  <2> HIDE DEF a
  <2> QED
    BY <2>1, <2>2, <2>3, <2>4 DEF a
<1> QED
  BY <1>2, <1>3 DEF ItemsInv, DumpsInv
\* handle_statmem_pie().
LEMMA ItemsPie ==
    ASSUME BaseInv, ItemsInv, DumpsInv, [Next]_vars, HandleStatmemPie
    PROVE  ItemsInv' /\ DumpsInv'
<1> DEFINE by == [a \in Lib \cup {Exe} |-> IF a = Exe THEN codeOffs ELSE 0]
<1>1. codeOffs \in Nat /\ \A a \in Lib \cup {Exe} : Moved(a) \in Nat
  BY DEF BaseInv, TypesInv, MapInv, Moved
<1>2. by \in [Lib \cup {Exe} -> Nat]
  BY <1>1
<1>3. PieMoves
  BY PieStep DEF BaseInv
<1>4. UNCHANGED <<codeOffs, isLoaded, base>> /\ pc = "pie" /\ pc' = "pic"
  BY DEF HandleStatmemPie, gameVars
<1>5. \A a \in Lib \cup {Exe} : Moved(a)' = Moved(a) + by[a]
  BY <1>1, <1>4 DEF Moved
<1>6. \A i \in Item : AreaOf[i] # Stack =>
         /\ offs'[CacheOf[i]] = offs[CacheOf[i]] + by[AreaOf[i]]
         /\ i \in Value => addr'[i] = addr[i] + by[AreaOf[i]]
  BY <1>3, ItemFacts DEF PieMoves
<1>7. \A d \in DOMAIN Dumps : dumpAddr'[d] = dumpAddr[d] + by[Dumps[d].area]
  BY <1>3, ItemFacts DEF PieMoves
<1> HIDE DEF by
<1> QED
  BY <1>2, <1>5, <1>6, <1>7, ItemsMove

\* handle_statmem_pic(), early and late.
LEMMA ItemsPic ==
    ASSUME DumpsDiffer, BaseInv, ItemsInv, DumpsInv, [Next]_vars,
           NEW start \in [Lib -> Nat], NEW late \in BOOLEAN, Pic(start, late),
           \A l \in Lib : start[l] \in {0, base[l]},
           UNCHANGED <<codeOffs, base>>, pc \notin {"aslr", "pie"}, pc' \notin {"aslr", "pie"}
    PROVE  ItemsInv' /\ DumpsInv'
<1> DEFINE by == [a \in Lib \cup {Exe} |-> IF a \in Fresh(start) THEN start[a] ELSE 0]
<1>1. codeOffs \in Nat /\ \A l \in Lib : base[l] \in Nat
  BY DEF BaseInv, TypesInv, MapInv
<1>2. /\ Exe \notin Lib
      /\ \A a : a \in Fresh(start) => a \in Lib /\ start[a] = base[a] /\ ~isLoaded[a]
  BY ItemFacts DEF Fresh
<1>3. by \in [Lib \cup {Exe} -> Nat]
  BY <1>2
<1>4. \A l \in Lib : isLoaded'[l] <=> isLoaded[l] \/ l \in Fresh(start)
  BY DEF Pic
<1>5. ASSUME NEW a \in Lib \cup {Exe}
      PROVE  Moved(a)' = Moved(a) + by[a]
  <2>1. CASE a = Exe
    BY <1>1, <1>2, <2>1 DEF Moved
  <2>2. CASE a # Exe
    <3>1. a \in Lib /\ base[a] \in Nat /\ (a \in Fresh(start) => ~isLoaded[a] /\ start[a] = base[a])
      BY <1>1, <1>2, <2>2
    <3>2. isLoaded'[a] <=> isLoaded[a] \/ a \in Fresh(start)
      BY <1>4, <3>1
    <3>3. Moved(a) = IF isLoaded[a] THEN base[a] ELSE 0
      BY <2>2 DEF Moved
    <3>4. Moved(a)' = IF isLoaded'[a] THEN base[a] ELSE 0
      BY <2>2 DEF Moved
    <3>5. by[a] = IF a \in Fresh(start) THEN start[a] ELSE 0
      OBVIOUS
    <3> HIDE DEF by
    <3>6. CASE a \in Fresh(start)
      BY <3>1, <3>2, <3>3, <3>4, <3>5, <3>6
    <3>7. CASE a \notin Fresh(start) /\ isLoaded[a]
      BY <3>1, <3>2, <3>3, <3>4, <3>5, <3>7
    <3>8. CASE a \notin Fresh(start) /\ ~isLoaded[a]
      BY <3>1, <3>2, <3>3, <3>4, <3>5, <3>8
    <3> QED
      BY <3>6, <3>7, <3>8
  <2> QED
    BY <2>1, <2>2
<1>6. \A i \in Item : AreaOf[i] # Stack =>
         /\ offs'[CacheOf[i]] = offs[CacheOf[i]] + by[AreaOf[i]]
         /\ i \in Value => addr'[i] = addr[i] + by[AreaOf[i]]
  BY ItemFacts DEF Pic
<1>7. \A d \in DOMAIN Dumps : dumpAddr'[d] = dumpAddr[d] + by[Dumps[d].area]
  BY <1>2, ItemFacts DEF Pic, DumpsDiffer
<1> HIDE DEF by
<1> QED
  BY <1>3, <1>5, <1>6, <1>7, ItemsMove

\* The rest moves nothing but what is on the stack.
LEMMA ItemsStay ==
    ASSUME BaseInv, FoundInv, ItemsInv, DumpsInv, [Next]_vars, StackStep,
           UNCHANGED <<isLoaded, dumpAddr>>,
           \/ pc \in {"aslr", "pie"} /\ pc' \in {"aslr", "pie"}
           \/ pc \notin {"aslr", "pie"} /\ pc' \notin {"aslr", "pie"} /\ codeOffs' = codeOffs
    PROVE  ItemsInv' /\ DumpsInv'
<1> DEFINE by == [a \in Lib \cup {Exe} |-> 0]
<1>1. /\ codeOffs \in Nat /\ base \in [Lib -> Nat] /\ isLoaded \in [Lib -> BOOLEAN]
      /\ offs \in [Cache -> Int] /\ addr \in [Item -> Int] /\ dumpAddr \in [DOMAIN Dumps -> Int]
      /\ \A i \in Item : onStack[i] => AreaOf[i] = Stack
  BY DEF BaseInv, TypesInv, MapInv
<1>2. \A l \in Lib : isLoaded[l] => base'[l] = base[l]
  BY MapStep DEF BaseInv, FoundInv, TypesInv
<1>3. \A a \in Lib \cup {Exe} : Moved(a)' = Moved(a) + by[a]
  <2>1. \A a \in Lib \cup {Exe} : Moved(a)' = Moved(a)
    BY <1>2 DEF Moved
  <2>2. \A a \in Lib \cup {Exe} : Moved(a) \in Nat
    BY <1>1 DEF Moved
  <2> QED
    BY <2>1, <2>2
<1>4. \A i \in Item : AreaOf[i] # Stack =>
         offs'[CacheOf[i]] = offs[CacheOf[i]] /\ addr'[i] = addr[i]
  <2>1. CASE StackMoves
    <3>1. ASSUME NEW i \in Item, AreaOf[i] # Stack
          PROVE  ~onStack[i] /\ ~\E j \in Item : onStack[j] /\ CacheOf[j] = CacheOf[i]
      BY <1>1, <3>1, ItemFacts
    <3> QED
      BY <2>1, <3>1 DEF StackMoves
  <2>2. CASE UNCHANGED <<addr, offs, onStack>>
    BY <2>2
  <2> QED
    BY <2>1, <2>2 DEF StackStep
<1>5. \A i \in Item : offs[CacheOf[i]] \in Int /\ addr[i] \in Int
                      /\ (AreaOf[i] # Stack => by[AreaOf[i]] = 0)
  BY <1>1, ItemFacts
<1>6. \A i \in Item : AreaOf[i] # Stack =>
         /\ offs'[CacheOf[i]] = offs[CacheOf[i]] + by[AreaOf[i]]
         /\ i \in Value => addr'[i] = addr[i] + by[AreaOf[i]]
  BY <1>4, <1>5
<1>7. \A d \in DOMAIN Dumps : dumpAddr'[d] = dumpAddr[d] + by[Dumps[d].area]
  BY <1>1, ItemFacts
<1>8. by \in [Lib \cup {Exe} -> Nat]
  OBVIOUS
<1> HIDE DEF by
<1> QED
  BY <1>3, <1>6, <1>7, <1>8, ItemsMove

\* The stack: all of it is moved at once.
LEMMA StackKept ==
    ASSUME StackInv, onStack' = onStack,
           \A i \in Item : AreaOf[i] = Stack => /\ offs'[CacheOf[i]] = offs[CacheOf[i]]
                                                /\ i \in Value => addr'[i] = addr[i]
    PROVE  StackInv'
  BY DEF StackInv

LEMMA StackMoved ==
    ASSUME TypesInv, StackInv, StackStep
    PROVE  StackInv'
<1>1. CASE UNCHANGED <<addr, offs, onStack>>
  BY <1>1, StackKept
<1>2. CASE StackMoves
  <2>1. \A i \in Item : onStack'[i] = FALSE
    BY <1>2 DEF StackMoves
  <2>2. StackEnd \in Nat
    BY LoaderAssumption
  <2>3. ASSUME NEW i \in Item, AreaOf[i] = Stack
        PROVE  /\ offs'[CacheOf[i]] = StackEnd - Offs0[CacheOf[i]]
               /\ i \in Value => addr'[i] = StackEnd - Addr0[i]
    <3>1. \A j \in Item : onStack[j] => onStack[i]
      BY <2>3 DEF StackInv, TypesInv
    <3>2. (\E j \in Item : onStack[j] /\ CacheOf[j] = CacheOf[i]) <=> onStack[i]
      BY <3>1 DEF TypesInv
    <3>3. /\ offs'[CacheOf[i]] = IF onStack[i] THEN StackEnd - offs[CacheOf[i]] ELSE offs[CacheOf[i]]
          /\ addr'[i] = IF onStack[i] THEN StackEnd - addr[i] ELSE addr[i]
      BY <1>2, <3>2 DEF StackMoves
    <3> QED
      BY <2>3, <3>3 DEF StackInv
  <2> QED
    BY <2>1, <2>3 DEF StackInv
<1> QED
  BY <1>1, <1>2 DEF StackStep

LEMMA MoveStep ==
    ASSUME DumpsDiffer, BaseInv, FoundInv, FoundInv', MoveInv, [Next]_vars
    PROVE  MoveInv'
<1> USE DEF MoveInv
<1>1. CodeInv'
  BY CodeStep
<1>2. CASE HandleStatmemPie
  <2>1. PieMoves /\ onStack' = onStack
    BY <1>2, PieStep DEF BaseInv, HandleStatmemPie
  <2>2. \A i \in Item : AreaOf[i] = Stack =>
           offs'[CacheOf[i]] = offs[CacheOf[i]] + 0 /\ addr'[i] = addr[i] + 0
    BY <2>1, ItemFacts DEF PieMoves
  <2>3. \A i \in Item : offs[CacheOf[i]] \in Int /\ addr[i] \in Int
    BY ItemFacts DEF BaseInv, TypesInv
  <2>4. StackInv'
    BY <2>1, <2>2, <2>3, StackKept
  <2> QED
    BY <1>1, <1>2, <2>4, ItemsPie
<1>3. ASSUME NEW start \in [Lib -> Nat], NEW late \in BOOLEAN, Pic(start, late),
             \A l \in Lib : start[l] \in {0, base[l]}, UNCHANGED <<codeOffs, base, onStack>>,
             pc \notin {"aslr", "pie"}, pc' \notin {"aslr", "pie"}
      PROVE  MoveInv'
  <2>1. \A i \in Item : AreaOf[i] = Stack => AreaOf[i] \notin Fresh(start)
    BY ItemFacts DEF Fresh
  <2>2. \A i \in Item : AreaOf[i] = Stack =>
           offs'[CacheOf[i]] = offs[CacheOf[i]] + 0 /\ (i \in Value => addr'[i] = addr[i] + 0)
    BY <1>3, <2>1 DEF Pic
  <2>3. \A i \in Item : offs[CacheOf[i]] \in Int /\ addr[i] \in Int
    BY ItemFacts DEF BaseInv, TypesInv
  <2>4. StackInv'
    BY <1>3, <2>2, <2>3, StackKept
  <2> QED
    BY <1>1, <1>3, <2>4, ItemsPic
<1>4. CASE EarlyPic
  <2>1. /\ UNCHANGED <<codeOffs, base, onStack>> /\ pc = "pic" /\ pc' = "stackend"
        /\ HandleStatmemPic(libStart, FALSE)
    BY <1>4 DEF EarlyPic, gameVars
  <2>2. libStart \in [Lib -> Nat] /\ \A l \in Lib : libStart[l] \in {0, base[l]}
    BY DEF BaseInv, TypesInv, FoundInv
  <2>3. Pic(libStart, FALSE)
    BY <2>1, <2>2, PicMoves DEF BaseInv
  <2> QED
    BY <1>3, <2>1, <2>2, <2>3
<1>5. CASE LatePic
  <2>1. UNCHANGED <<codeOffs, base, onStack>> /\ pc = "heap" /\ pc' = "output"
    BY <1>5 DEF LatePic, gameVars
  <2>2. PICK st : st = libStart'
    OBVIOUS
  <2>3. Pic(st, TRUE) /\ st \in [Lib -> Nat]
    BY <1>5, <2>2, LatePicStep DEF BaseInv
  <2>4. \A l \in Lib : st[l] \in {0, base[l]}
    BY <2>1, <2>2 DEF FoundInv
  <2> QED
    BY <1>3, <2>1, <2>3, <2>4
<1>6. CASE /\ StackStep /\ UNCHANGED <<isLoaded, dumpAddr>>
           /\ \/ pc \in {"aslr", "pie"} /\ pc' \in {"aslr", "pie"}
              \/ pc \notin {"aslr", "pie"} /\ pc' \notin {"aslr", "pie"} /\ codeOffs' = codeOffs
  <2>1. ItemsInv' /\ DumpsInv'
    BY <1>6, ItemsStay
  <2>2. StackInv'
    BY <1>6, StackMoved DEF BaseInv
  <2> QED
    BY <1>1, <2>1, <2>2
<1>7. CASE HandleAslr \/ Skip \/ Process \/ Output
  <2>1. /\ UNCHANGED <<addr, offs, onStack, isLoaded, dumpAddr>>
        /\ \/ pc \in {"aslr", "pie"} /\ pc' \in {"aslr", "pie"}
           \/ pc \notin {"aslr", "pie"} /\ pc' \notin {"aslr", "pie"} /\ codeOffs' = codeOffs
    BY <1>7 DEF HandleAslr, Skip, Gone, Process, Output
  <2> QED
    BY <1>6, <2>1 DEF StackStep
<1>8. CASE HandleStackEnd \/ Input \/ Attach
  <2>1. /\ UNCHANGED <<isLoaded, dumpAddr, codeOffs>>
        /\ pc \notin {"aslr", "pie"} /\ pc' \notin {"aslr", "pie"}
    BY <1>8 DEF HandleStackEnd, Input, Attach, ReadFifo
  <2>2. StackStep
    BY <1>8, StackSteps DEF BaseInv, Input, Attach
  <2> QED
    BY <1>6, <2>1, <2>2
<1>9. CASE Game \/ UNCHANGED vars
  <2>1. UNCHANGED trainerVars
    BY <1>9 DEF Game, LoadLib, GrowHeap, SendStackEnd, GameEnds, vars
  <2> QED
    BY <1>6, <2>1 DEF StackStep, trainerVars
<1> QED
  BY <1>2, <1>4, <1>5, <1>7, <1>8, <1>9 DEF Next, Startup, Round

LEMMA MoveInit ==
    ASSUME Init
    PROVE  MoveInv
<1>1. CodeInv
  BY DEF Init, CodeInv
<1>2. \A i \in Item : CacheOf[i] \in Cache /\ Offs0[CacheOf[i]] \in Nat /\ Addr0[i] \in Nat
                      /\ AreaOf[i] \in Lib \cup {Exe, Stack}
  BY ItemFacts
<1>3. \A a \in Lib \cup {Exe} : Moved(a) = 0
  BY DEF Init, Moved
<1>4. addr = Addr0 /\ offs = Offs0 /\ onStack = [i \in Item |-> AreaOf[i] = Stack]
      /\ dumpAddr = [d \in DOMAIN Dumps |-> Dumps[d].addr]
  BY DEF Init
<1>5. ItemsInv
  BY <1>2, <1>3, <1>4 DEF ItemsInv
<1>6. DumpsInv
  <2>1. \A d \in DOMAIN Dumps : Dumps[d].area \in Lib \cup {Exe} /\ Dumps[d].addr \in Nat
    BY ItemFacts
  <2> QED
    BY <1>3, <1>4, <2>1 DEF DumpsInv
<1>7. StackInv
  BY <1>2, <1>4 DEF StackInv
<1> QED
  BY <1>1, <1>5, <1>6, <1>7 DEF MoveInv

\* Touched: while the trainer is attached, what it considers known is read from
\* and written to its own place, once it has been moved there, whether at the
\* start, with a late library or with the stack end.  The hypotheses are what
\* handle_statmem_pic() and process_stack_end() take for granted of the config.
THEOREM TouchedAlways ==
    ASSUME LibNamesDiffer, DumpsDiffer, StackCaches
    PROVE  Spec => []Touched
<1>1. Init => BaseInv /\ FoundInv /\ MoveInv
  BY BaseInit, FoundInit, MoveInit
<1>2. BaseInv /\ FoundInv /\ MoveInv /\ [Next]_vars => (BaseInv /\ FoundInv /\ MoveInv)'
  BY BaseStep, FoundStep, MoveStep
<1>3. ASSUME BaseInv, FoundInv, MoveInv, pc = "process"
      PROVE  /\ \A i \in Item : Known(i) => Touches(i) = Place(AreaOf[i], Addr0[i])
             /\ \A i \in Value : Known(i) => addr[i] = Place(AreaOf[i], Addr0[i])
             /\ \A d \in DOMAIN Dumps :
                   (Dumps[d].area \in Lib => isLoaded[Dumps[d].area])
                       => dumpAddr[d] = Place(Dumps[d].area, Dumps[d].addr)
  <2> USE <1>3
  <2>1. codeOffs = ExeOffs /\ exeBase \in Nat /\ base \in [Lib -> Nat] /\ StackEnd \in Nat
    BY ExeMapped, LoaderAssumption DEF BaseInv, MapInv, MoveInv, CodeInv
  <2>2. ASSUME NEW a \in Lib \cup {Exe}, a \in Lib => isLoaded[a], NEW n \in Nat
        PROVE  n + Moved(a) = Place(a, n) /\ Moved(a) \in Nat
    BY <2>1, <2>2, ItemFacts DEF Moved, Place, ExeOffs
  <2>3. \A i \in Item : AreaOf[i] \in Lib /\ Known(i) => isLoaded[AreaOf[i]]
    BY DEF Known, FoundInv
  <2>4. ASSUME NEW i \in Item, Known(i)
        PROVE  /\ Touches(i) = Place(AreaOf[i], Addr0[i])
               /\ i \in Value => addr[i] = Place(AreaOf[i], Addr0[i])
    <3> DEFINE c == CacheOf[i]
    <3>1. Offs0[c] \in Nat /\ Addr0[i] \in Nat /\ AreaOf[i] \in Lib \cup {Exe, Stack} /\ ~onStack[i]
      BY <2>4, ItemFacts DEF Known
    <3>2. CASE AreaOf[i] = Stack
      <4>1. /\ offs[c] = StackEnd - Offs0[c] /\ Addr0[i] = Offs0[c]
            /\ i \in Value => addr[i] = StackEnd - Addr0[i]
        BY <3>1, <3>2 DEF MoveInv, StackInv, StackCaches
      <4>2. Place(AreaOf[i], Addr0[i]) = StackEnd - Addr0[i]
        BY <3>2 DEF Place
      <4>3. Touches(i) = offs[c] + (Addr0[i] - Offs0[c])
        BY DEF Touches
      <4> HIDE DEF c
      <4> QED
        BY <2>1, <3>1, <4>1, <4>2, <4>3
    <3>3. CASE AreaOf[i] # Stack
      <4> DEFINE a == AreaOf[i]
      <4>1. a \in Lib \cup {Exe} /\ (a \in Lib => isLoaded[a])
        BY <2>3, <2>4, <3>1, <3>3
      <4>2. Addr0[i] + Moved(a) = Place(a, Addr0[i]) /\ Moved(a) \in Nat
        BY <2>2, <3>1, <4>1
      <4>3. offs[c] = Offs0[c] + Moved(a) /\ (i \in Value => addr[i] = Addr0[i] + Moved(a))
        BY <3>3 DEF MoveInv, ItemsInv
      <4>4. Touches(i) = offs[c] + (Addr0[i] - Offs0[c])
        BY DEF Touches
      <4> HIDE DEF c, a
      <4>5. Touches(i) = Place(a, Addr0[i]) /\ (i \in Value => addr[i] = Place(a, Addr0[i]))
        BY <3>1, <4>2, <4>3, <4>4
      <4> QED
        BY <4>5 DEF a
    <3> QED
      BY <3>2, <3>3
  <2>5. ASSUME NEW d \in DOMAIN Dumps, Dumps[d].area \in Lib => isLoaded[Dumps[d].area]
        PROVE  dumpAddr[d] = Place(Dumps[d].area, Dumps[d].addr)
    BY <2>2, <2>5, ItemFacts DEF MoveInv, DumpsInv
  <2>6. Value \subseteq Item
    BY DEF Value
  <2> QED
    BY <2>4, <2>5, <2>6
<1>4. BaseInv /\ FoundInv /\ MoveInv => Touched
  BY <1>3 DEF Touched
<1> QED
  BY <1>1, <1>2, <1>4, PTL DEF Spec
=============================================================================
