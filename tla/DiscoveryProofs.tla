--------------------------- MODULE DiscoveryProofs ---------------------------
(***************************************************************************)
(* Discovery, for every choice of the user, every game and any number of   *)
(* messages.                                                               *)
(*                                                                         *)
(* FlushRead: the invariant counts lines, pumped <= flushed <= Len(said).  *)
(* An ended game writes nothing any more, its regular end has flushed      *)
(* everything, and a worker that is killed while it watches the FIFO has   *)
(* emptied it.  LiveFirst: malloc() returns free cells only, so no line    *)
(* behind the report of a living object covers a cell of it.  PtrSeen: the *)
(* last value shown is remembered, and what is remembered is the pointer's *)
(* value at the last report.  Filtered: what is in the FIFOs is the        *)
(* question and the answer for the library that has just been mapped.      *)
(***************************************************************************)
EXTENDS Discovery, VecOpsProofs

\* A sequence, of whatever elements.
IsLog(s) == \E S : s \in Seq(S)

\* The output stream, the FIFO and the file.
Counted ==
    /\ IsLog(said)
    /\ pumped \in Nat /\ flushed \in Nat
    /\ pumped <= flushed /\ flushed <= Len(said)

\* The end of the game, and of the worker.
Ended ==
    /\ game = "exited" => flushed = Len(said)
    /\ ug \in {"final", "post"} => game # "run"
    /\ worker = "killed" => ug = "post" /\ pumped = flushed
    /\ ug = "post" => worker \in {"killed", "overslept"}

DiscInv == Counted /\ Ended

-----------------------------------------------------------------------------
LEMMA AppendLog ==
    ASSUME NEW s, IsLog(s), NEW x
    PROVE  IsLog(Append(s, x)) /\ Len(Append(s, x)) = Len(s) + 1
<1>1. PICK S : s \in Seq(S)
  BY DEF IsLog
<1>2. s \in Seq(S \cup {x})
  BY <1>1
<1>3. Append(s, x) \in Seq(S \cup {x}) /\ Len(Append(s, x)) = Len(s) + 1
  BY <1>2
<1> QED
  BY <1>3 DEF IsLog

LEMMA LogLen ==
    ASSUME NEW s, IsLog(s)
    PROVE  Len(s) \in Nat /\ SubSeq(s, 1, Len(s)) = s
<1>1. PICK S : s \in Seq(S)
  BY DEF IsLog
<1> QED
  BY <1>1

\* Lines are added to what has been said; nothing else is touched.
Says(k) == IsLog(said') /\ Len(said') = Len(said) + k

LEMMA MallocSays ==
    ASSUME Counted, NEW a, NEW s, NEW stack, PostprocessMalloc(a, s, stack)
    PROVE  \E k \in Nat : Says(k)
<1>0. said' = said => Says(0)
  BY LogLen DEF Counted, Says
<1>1. ASSUME NEW line, said' = Append(said, line)
      PROVE  Says(1)
  BY <1>1, AppendLog DEF Counted, Says
<1>2. ASSUME NEW line, NEW v, said' = Append(said, line) \o PtrLine(v)
      PROVE  Says(1) \/ Says(2)
  <2>1. PtrLine(v) = <<>> \/ PtrLine(v) = <<[op |-> "p", val |-> v]>>
    BY DEF PtrLine
  <2> DEFINE p == [op |-> "p", val |-> v]
  <2>2. IsLog(Append(said, line)) /\ Len(Append(said, line)) = Len(said) + 1
    BY AppendLog DEF Counted
  <2>3. PICK S : Append(said, line) \in Seq(S)
    BY <2>2 DEF IsLog
  <2>4. Append(said, line) \o <<>> = Append(said, line)
    BY <2>3
  <2>5. Append(said, line) \o <<p>> = Append(Append(said, line), p)
    BY <2>3
  <2>6. IsLog(Append(Append(said, line), p)) /\ Len(Append(Append(said, line), p)) = Len(said) + 2
    BY <2>2, AppendLog, LogLen DEF Counted
  <2> QED
    BY <1>2, <2>1, <2>2, <2>4, <2>5, <2>6 DEF Says
<1> QED
  BY <1>0, <1>1, <1>2 DEF PostprocessMalloc

-----------------------------------------------------------------------------
LEMMA DiscInit == Init => DiscInv
  BY DEF Init, DiscInv, Counted, Ended, IsLog

\* A step that writes at most new lines, while the game runs.
LEMMA RunningKeeps ==
    ASSUME DiscInv, game = "run", game' = "run",
           UNCHANGED <<ug, worker, flushed, pumped>>,
           NEW k \in Nat, Says(k)
    PROVE  DiscInv'
  BY LogLen DEF DiscInv, Counted, Ended, Says

LEMMA SaysNothing ==
    ASSUME Counted, UNCHANGED said
    PROVE  Says(0)
  BY LogLen DEF Counted, Says

LEMMA TrainerKeeps ==
    ASSUME DiscInv, Trainer
    PROVE  DiscInv'
<1>1. UNCHANGED <<game, said, flushed, pumped>>
  BY DEF Trainer, SendConfig, HandleAslr, HandleDiscPic, GameGone, KillWorker, out_vars
<1>2. Counted'
  BY <1>1 DEF DiscInv, Counted, IsLog
<1>3. CASE SendConfig \/ HandleAslr \/ HandleDiscPic \/ GameGone
  BY <1>1, <1>2, <1>3 DEF SendConfig, HandleAslr, HandleDiscPic, GameGone, DiscInv, Ended
<1>4. CASE KillWorker
  BY <1>1, <1>2, <1>4 DEF KillWorker, DiscInv, Ended, Counted
<1> QED
  BY <1>3, <1>4 DEF Trainer

LEMMA WorkerKeeps ==
    ASSUME DiscInv, Worker
    PROVE  DiscInv'
<1>1. UNCHANGED <<ug, game, said, flushed>>
  BY DEF Worker, Pump, PumpNothing, CheckProcess, WakeUp, WorkerStep
<1>2. pumped' \in Nat /\ pumped' <= flushed
  BY LogLen DEF Worker, Pump, PumpNothing, CheckProcess, WakeUp, WorkerStep, DiscInv, Counted
<1>3. worker \in {"wait", "check", "asleep"} /\ worker' \in {"wait", "check", "asleep"}
  BY DEF Worker, Pump, PumpNothing, CheckProcess, WakeUp, WorkerStep
<1> QED
  BY <1>1, <1>2, <1>3 DEF DiscInv, Counted, Ended, IsLog

LEMMA LibraryKeeps ==
    ASSUME DiscInv, Library
    PROVE  DiscInv'
<1>1. game = "run" /\ UNCHANGED <<game, ug, worker, flushed, pumped>>
  BY DEF Library, ReadConfig, ReadConfigFails, ReadBounds, ReadBoundsFails, InitStep
<1>2. UNCHANGED said \/ said' = Append(said, [op |-> "S"])
  BY DEF Library, ReadConfig, ReadConfigFails, ReadBounds, ReadBoundsFails, Activate
<1>3. Says(0) \/ Says(1)
  BY <1>2, AppendLog, SaysNothing DEF DiscInv, Counted, Says
<1> QED
  BY <1>1, <1>3, RunningKeeps

LEMMA GameKeeps ==
    ASSUME DiscInv, Game
    PROVE  DiscInv'
<1>1. ASSUME NEW a \in Cell, NEW s \in Size, NEW st \in Stack, Malloc(a, s, st)
      PROVE  DiscInv'
  <2>1. PICK k \in Nat : Says(k)
    BY <1>1, MallocSays DEF Malloc, DiscInv
  <2> QED
    BY <1>1, <2>1, RunningKeeps DEF Malloc, Runs
<1>2. ASSUME NEW a \in Cell, GameFree(a)
      PROVE  DiscInv'
  <2>1. UNCHANGED said \/ said' = Append(said, [op |-> "f", addr |-> a])
    BY <1>2 DEF GameFree
  <2>2. Says(0) \/ Says(1)
    BY <2>1, AppendLog, SaysNothing DEF DiscInv, Counted, Says
  <2> QED
    BY <1>2, <2>2, RunningKeeps DEF GameFree, Runs
<1>3. ASSUME game = "run", UNCHANGED <<game, ug, worker, said, flushed, pumped>>
      PROVE  DiscInv'
  BY <1>3, SaysNothing, RunningKeeps DEF DiscInv
<1>4. ASSUME NEW c, NEW v, SetPtr(c, v)
      PROVE  DiscInv'
  BY <1>3, <1>4 DEF SetPtr, Runs
<1>5. ASSUME NEW l, Dlopen(l) \/ Dlclose(l)
      PROVE  DiscInv'
  BY <1>3, <1>5 DEF Dlopen, Dlclose, Runs, out_vars
<1>6. CASE LibReply \/ LibGiveUp
  BY <1>3, <1>6 DEF LibReply, LibGiveUp, out_vars
<1>7. CASE Flush
  BY <1>7, LogLen DEF Flush, DiscInv, Counted, Ended, IsLog
<1>8. CASE GameEnds
  BY <1>8, LogLen DEF GameEnds, DiscInv, Counted, Ended, IsLog
<1> QED
  BY <1>1, <1>2, <1>4, <1>5, <1>6, <1>7, <1>8 DEF Game

LEMMA DiscStutter ==
    ASSUME DiscInv, UNCHANGED vars
    PROVE  DiscInv'
  BY DEF vars, DiscInv, Counted, Ended, IsLog

LEMMA DiscInvAlways == Spec => []DiscInv
<1>1. DiscInv /\ [Next]_vars => DiscInv'
  BY TrainerKeeps, WorkerKeeps, LibraryKeeps, GameKeeps, DiscStutter DEF Next
<1> QED
  BY <1>1, DiscInit, PTL DEF Spec

\* If the game has ended regularly, everything it has reported is in the file
\* that is searched, unless the worker was asleep at the wrong time.
THEOREM FlushReadAlways == Spec => []FlushRead
<1>1. DiscInv => FlushRead
  BY LogLen DEF DiscInv, Counted, Ended, FlushRead, File
<1> QED
  BY <1>1, DiscInvAlways, PTL

-----------------------------------------------------------------------------
(***************************************************************************)
(* The search: the line that reports a living object is the last one that  *)
(* covers any address in it, as later objects do not overlap it.           *)
(***************************************************************************)
ReportedAt(a) ==
    /\ rep[a] <= Len(said)
    /\ size[a] # 0
    /\ said[rep[a]].op = "m" /\ said[rep[a]].addr = a /\ said[rep[a]].size = size[a]
    /\ \A j \in DOMAIN said : j > rep[a] /\ said[j].op = "m" =>
          \A x \in Object(a, size[a]) : ~Covers(said[j], x)

Reported ==
    /\ size \in [Cell -> Nat] /\ rep \in [Cell -> Nat]
    /\ \A a \in Cell : rep[a] # 0 => ReportedAt(a)

SearchInv == Counted /\ Reported

\* Lines are only added.
Kept ==
    /\ IsLog(said') /\ Len(said) <= Len(said')
    /\ \A i \in 1..Len(said) : said'[i] = said[i]

LEMMA LogDomain ==
    ASSUME NEW s, IsLog(s)
    PROVE  Len(s) \in Nat /\ DOMAIN s = 1..Len(s)
<1>1. PICK S : s \in Seq(S)
  BY DEF IsLog
<1> QED
  BY <1>1

LEMMA AppendLines ==
    ASSUME NEW s, IsLog(s), NEW x
    PROVE  /\ IsLog(Append(s, x)) /\ Len(Append(s, x)) = Len(s) + 1
           /\ \A i \in 1..Len(s) : Append(s, x)[i] = s[i]
           /\ Append(s, x)[Len(s) + 1] = x
<1>1. PICK S : s \in Seq(S)
  BY DEF IsLog
<1>2. s \in Seq(S \cup {x})
  BY <1>1
<1>3. /\ \A i \in 1..Len(s) : Append(s, x)[i] = s[i]
      /\ Append(s, x)[Len(s) + 1] = x
  BY <1>2
<1> QED
  BY <1>3, AppendLog

LEMMA KeptOne ==
    ASSUME Counted, NEW line, said' = Append(said, line)
    PROVE  Kept /\ Len(said') = Len(said) + 1 /\ said'[Len(said) + 1] = line
  BY AppendLines, LogDomain DEF Counted, Kept

LEMMA KeptPtr ==
    ASSUME Counted, NEW line, NEW v, said' = Append(said, line) \o PtrLine(v)
    PROVE  /\ Kept /\ Len(said) + 1 <= Len(said') /\ said'[Len(said) + 1] = line
           /\ \A j \in DOMAIN said' : j > Len(said) + 1 => said'[j].op = "p"
           /\ IF v \in {0, ptr.old} THEN Len(said') = Len(said) + 1
              ELSE Len(said') = Len(said) + 2 /\ said'[Len(said) + 2] = [op |-> "p", val |-> v]
<1> DEFINE s == Append(said, line)
           p == [op |-> "p", val |-> v]
<1>1. /\ IsLog(said) /\ Len(said) \in Nat
      /\ IsLog(s) /\ Len(s) = Len(said) + 1
      /\ \A i \in 1..Len(said) : s[i] = said[i]
      /\ s[Len(said) + 1] = line
  BY AppendLines, LogDomain DEF Counted
<1>2. \/ PtrLine(v) = <<>> /\ v \in {0, ptr.old}
      \/ PtrLine(v) = <<p>> /\ v \notin {0, ptr.old}
  BY DEF PtrLine
<1> HIDE DEF s
<1>3. PICK S : s \in Seq(S)
  BY <1>1 DEF IsLog
<1>4. CASE PtrLine(v) = <<>> /\ v \in {0, ptr.old}
  <2>1. said' = s
    BY <1>3, <1>4 DEF s
  <2>2. DOMAIN said' = 1..(Len(said) + 1)
    BY <1>1, <2>1, LogDomain
  <2>3. v \in {0, ptr.old} /\ Len(said') = Len(said) + 1
    BY <1>1, <1>4, <2>1
  <2>4. /\ Kept /\ said'[Len(said) + 1] = line
        /\ \A j \in DOMAIN said' : ~(j > Len(said) + 1)
    BY <1>1, <2>1, <2>2, <2>3 DEF Kept
  <2> QED
    BY <1>1, <2>3, <2>4
<1>5. CASE PtrLine(v) = <<p>> /\ v \notin {0, ptr.old}
  <2>1. said' = Append(s, p)
    BY <1>3, <1>5 DEF s
  <2>2. /\ IsLog(said') /\ Len(said') = Len(said) + 2
        /\ \A i \in 1..(Len(said) + 1) : said'[i] = s[i]
        /\ said'[Len(said) + 2] = p
    BY <1>1, <2>1, AppendLines
  <2>3. DOMAIN said' = 1..(Len(said) + 2)
    BY <2>2, LogDomain
  <2>4. p.op = "p"
    OBVIOUS
  <2>5. Len(said') = Len(said) + 2 /\ said'[Len(said) + 2] = [op |-> "p", val |-> v]
    BY <2>2
  <2> HIDE DEF p
  <2> QED
    BY <1>1, <1>5, <2>2, <2>3, <2>4, <2>5 DEF Kept
<1> QED
  BY <1>2, <1>4, <1>5

\* What has been reported stays so while no other object is reported in it.
LEMMA ReportKept ==
    ASSUME Counted, Kept, NEW a \in Cell, rep[a] \in Nat, rep[a] # 0, ReportedAt(a),
           rep'[a] = rep[a], size'[a] = size[a],
           \A j \in DOMAIN said' : j > Len(said) /\ said'[j].op = "m" =>
              \A x \in Object(a, size[a]) : ~Covers(said'[j], x)
    PROVE  ReportedAt(a)'
<1>1. /\ Len(said) \in Nat /\ DOMAIN said = 1..Len(said)
      /\ Len(said') \in Nat /\ DOMAIN said' = 1..Len(said')
  BY LogDomain DEF Counted, Kept
<1>2. said'[rep[a]] = said[rep[a]] /\ rep[a] <= Len(said')
  BY <1>1 DEF ReportedAt, Kept
<1>3. ASSUME NEW j \in DOMAIN said', j > rep[a], said'[j].op = "m",
             NEW x \in Object(a, size[a])
      PROVE  ~Covers(said'[j], x)
  <2>1. CASE j <= Len(said)
    <3>1. j \in DOMAIN said /\ said'[j] = said[j]
      BY <1>1, <2>1 DEF Kept
    <3> QED
      BY <1>3, <3>1 DEF ReportedAt
  <2>2. CASE ~(j <= Len(said))
    BY <1>1, <1>3, <2>2
  <2> QED
    BY <2>1, <2>2
<1> QED
  BY <1>2, <1>3 DEF ReportedAt, Object, Covers

\* No step but malloc() and free() changes objects, or reports one.
LEMMA QuietKeeps ==
    ASSUME SearchInv, Kept, UNCHANGED <<size, rep>>,
           \A j \in DOMAIN said' : j > Len(said) => said'[j].op # "m"
    PROVE  Reported'
<1>1. ASSUME NEW a \in Cell, rep[a] # 0
      PROVE  ReportedAt(a)'
  BY <1>1, ReportKept DEF SearchInv, Reported
<1> QED
  BY <1>1 DEF SearchInv, Reported

LEMMA SameKept ==
    ASSUME SearchInv, UNCHANGED said
    PROVE  Kept /\ \A j \in DOMAIN said' : j > Len(said) => said'[j].op # "m"
  BY LogDomain DEF SearchInv, Counted, Kept, IsLog

LEMMA OneKept ==
    ASSUME SearchInv, NEW line, line.op # "m", said' = Append(said, line)
    PROVE  Kept /\ \A j \in DOMAIN said' : j > Len(said) => said'[j].op # "m"
<1>1. /\ Kept /\ Len(said') = Len(said) + 1 /\ said'[Len(said) + 1] = line
      /\ Len(said) \in Nat /\ DOMAIN said' = 1..Len(said')
  BY KeptOne, LogDomain DEF SearchInv, Counted, Kept
<1> QED
  BY <1>1

\* A new object does not overlap a living one.
LEMMA MallocSearch ==
    ASSUME SearchInv, NEW a \in Cell, NEW s \in Size, NEW stack, Malloc(a, s, stack)
    PROVE  Reported'
<1> DEFINE codes == IF cfg.stage >= 3 THEN FindCodeAddresses(stack) ELSE <<>>
           line  == [op |-> "m", addr |-> a, size |-> s, codes |-> codes]
           quiet == ~Wanted(s) \/ (cfg.stage >= 3 /\ codes = <<>>)
<1>1. /\ {a} \cup Object(a, s) \subseteq Free
      /\ size' = [size EXCEPT ![a] = s]
      /\ PostprocessMalloc(a, s, stack)
  BY DEF Malloc
<1>2. /\ size \in [Cell -> Nat] /\ rep \in [Cell -> Nat]
      /\ \A b \in Cell : rep[b] # 0 => ReportedAt(b)
      /\ Len(said) \in Nat /\ s \in Nat
      /\ IsLog(said) /\ DOMAIN said = 1..Len(said)
  BY DiscoveryAssumption, LogDomain DEF SearchInv, Counted, Reported
<1>3. \/ quiet /\ rep' = [rep EXCEPT ![a] = 0] /\ UNCHANGED said
      \/ /\ ~quiet /\ rep' = [rep EXCEPT ![a] = Len(said) + 1]
         /\ said' = Append(said, line) \/ \E v : said' = Append(said, line) \o PtrLine(v)
  BY <1>1 DEF PostprocessMalloc
<1>4. ASSUME NEW b \in Cell, size[b] # 0, NEW x \in Object(b, size[b])
      PROVE  b # a /\ x \notin Object(a, s)
  <2>1. x \in UNION {Object(c, size[c]) : c \in {d \in Cell : size[d] # 0}}
    BY <1>4
  <2>2. x \notin Free
    BY <2>1 DEF Free
  <2>3. b \in Object(b, size[b])
    BY <1>2, <1>4, DiscoveryAssumption DEF Object
  <2>4. b \notin Free
    BY <1>4, <2>3 DEF Free
  <2> QED
    BY <1>1, <2>2, <2>4
<1>5. size' \in [Cell -> Nat] /\ rep' \in [Cell -> Nat]
  <2>1. rep' = [rep EXCEPT ![a] = 0] \/ rep' = [rep EXCEPT ![a] = Len(said) + 1]
    BY <1>3
  <2> HIDE DEF line, quiet
  <2>2. Len(said) + 1 \in Nat
    BY <1>2
  <2> QED
    BY <1>1, <1>2, <2>1, <2>2
<1>6. CASE quiet
  <2>1. rep' = [rep EXCEPT ![a] = 0] /\ UNCHANGED said
    BY <1>3, <1>6
  <2>2. Kept /\ \A j \in DOMAIN said' : j > Len(said) => said'[j].op # "m"
    BY <2>1, SameKept
  <2>3. ASSUME NEW b \in Cell, rep'[b] # 0
        PROVE  ReportedAt(b)'
    <3>1. b # a /\ rep'[b] = rep[b] /\ rep[b] # 0 /\ size'[b] = size[b]
      BY <1>1, <1>2, <2>1, <2>3
    <3> QED
      BY <1>2, <2>2, <3>1, ReportKept DEF SearchInv
  <2> QED
    BY <1>5, <2>3 DEF Reported
<1>7. CASE ~quiet
  <2>1. rep' = [rep EXCEPT ![a] = Len(said) + 1]
    BY <1>3, <1>7
  <2>2. /\ Kept /\ Len(said) + 1 <= Len(said') /\ said'[Len(said) + 1] = line
        /\ \A j \in DOMAIN said' : j > Len(said) + 1 => said'[j].op = "p"
    <3> HIDE DEF line, quiet
    <3>1. CASE said' = Append(said, line)
      <4>1. Kept /\ Len(said') = Len(said) + 1 /\ said'[Len(said) + 1] = line
        BY <3>1, KeptOne DEF SearchInv
      <4>2. DOMAIN said' = 1..Len(said')
        BY <4>1, LogDomain DEF Kept
      <4> QED
        BY <1>2, <4>1, <4>2
    <3>2. ASSUME NEW v, said' = Append(said, line) \o PtrLine(v)
          PROVE  /\ Kept /\ Len(said) + 1 <= Len(said') /\ said'[Len(said) + 1] = line
                 /\ \A j \in DOMAIN said' : j > Len(said) + 1 => said'[j].op = "p"
      BY <3>2, KeptPtr DEF SearchInv
    <3> QED
      BY <1>3, <1>7, <3>1, <3>2
  <2>3. Len(said') \in Nat /\ DOMAIN said' = 1..Len(said')
    BY <2>2, LogDomain DEF Kept
  <2>4. line.op = "m" /\ line.addr = a /\ line.size = s
    OBVIOUS
  <2> HIDE DEF line, quiet
  <2>5. ASSUME NEW b \in Cell, rep'[b] # 0
        PROVE  ReportedAt(b)'
    <3>1. CASE b = a
      <4>1. rep'[a] = Len(said) + 1 /\ size'[a] = s
        BY <1>1, <1>2, <2>1
      <4>2. s # 0
        BY <1>7 DEF quiet, Wanted
      <4> QED
        BY <1>2, <2>2, <2>3, <2>4, <3>1, <4>1, <4>2 DEF ReportedAt
    <3>2. CASE b # a
      <4>1. rep'[b] = rep[b] /\ rep[b] # 0 /\ size'[b] = size[b] /\ ReportedAt(b)
        BY <1>1, <1>2, <2>1, <2>5, <3>2
      <4>2. ASSUME NEW j \in DOMAIN said', j > Len(said), said'[j].op = "m",
                   NEW x \in Object(b, size[b])
            PROVE  ~Covers(said'[j], x)
        <5>1. j = Len(said) + 1 /\ said'[j] = line
          BY <1>2, <2>2, <2>3, <4>2
        <5>2. x \notin Object(a, s) /\ x \in Int /\ a \in Int
          BY <1>4, <4>1, DiscoveryAssumption DEF ReportedAt, Object
        <5> QED
          BY <1>2, <2>4, <5>1, <5>2 DEF Covers, Object
      <4> QED
        BY <1>2, <2>2, <4>1, <4>2, ReportKept DEF SearchInv
    <3> QED
      BY <3>1, <3>2
  <2> QED
    BY <1>5, <2>5 DEF Reported
<1> QED
  BY <1>6, <1>7

LEMMA FreeSearch ==
    ASSUME SearchInv, NEW a \in Cell, GameFree(a)
    PROVE  Reported'
<1>1. /\ size' = [size EXCEPT ![a] = 0] /\ rep' = [rep EXCEPT ![a] = 0]
      /\ UNCHANGED said \/ said' = Append(said, [op |-> "f", addr |-> a])
  BY DEF GameFree
<1>2. Kept /\ \A j \in DOMAIN said' : j > Len(said) => said'[j].op # "m"
  BY <1>1, SameKept, OneKept
<1>3. ASSUME NEW b \in Cell, rep'[b] # 0
      PROVE  ReportedAt(b)'
  <2>1. b # a /\ rep'[b] = rep[b] /\ rep[b] # 0 /\ size'[b] = size[b] /\ rep[b] \in Nat
    BY <1>1, <1>3 DEF SearchInv, Reported
  <2> QED
    BY <1>2, <2>1, ReportKept DEF SearchInv, Reported
<1> QED
  BY <1>1, <1>3 DEF SearchInv, Reported

LEMMA SearchNext ==
    ASSUME DiscInv, Reported, [Next]_vars
    PROVE  Reported'
<1>0. SearchInv
  BY DEF DiscInv, SearchInv
<1>1. ASSUME UNCHANGED <<size, rep, said>>
      PROVE  Reported'
  BY <1>0, <1>1, SameKept, QuietKeeps
<1>2. CASE Trainer
  BY <1>1, <1>2 DEF Trainer, SendConfig, HandleAslr, HandleDiscPic, GameGone, KillWorker,
                    game_vars, out_vars
<1>3. CASE Worker
  BY <1>1, <1>3 DEF Worker, Pump, PumpNothing, CheckProcess, WakeUp, WorkerStep, game_vars
<1>4. CASE Library
  <2>1. UNCHANGED <<size, rep>>
    BY <1>4 DEF Library, ReadConfig, ReadConfigFails, ReadBounds, ReadBoundsFails, InitStep, game_vars
  <2>2. UNCHANGED said \/ said' = Append(said, [op |-> "S"])
    BY <1>4 DEF Library, ReadConfig, ReadConfigFails, ReadBounds, ReadBoundsFails, Activate
  <2>3. Kept /\ \A j \in DOMAIN said' : j > Len(said) => said'[j].op # "m"
    BY <1>0, <2>2, SameKept, OneKept
  <2> QED
    BY <1>0, <2>1, <2>3, QuietKeeps
<1>5. ASSUME NEW a \in Cell, NEW s \in Size, NEW st \in Stack, Malloc(a, s, st)
      PROVE  Reported'
  BY <1>0, <1>5, MallocSearch
<1>6. ASSUME NEW a \in Cell, GameFree(a)
      PROVE  Reported'
  BY <1>0, <1>6, FreeSearch
<1>7. ASSUME NEW c, NEW v, SetPtr(c, v)
      PROVE  Reported'
  BY <1>1, <1>7 DEF SetPtr
<1>8. ASSUME NEW l, Dlopen(l) \/ Dlclose(l)
      PROVE  Reported'
  BY <1>1, <1>8 DEF Dlopen, Dlclose, out_vars
<1>9. CASE LibReply \/ LibGiveUp \/ Flush \/ GameEnds
  BY <1>1, <1>9 DEF LibReply, LibGiveUp, Flush, GameEnds, game_vars, out_vars
<1>10. CASE UNCHANGED vars
  BY <1>1, <1>10 DEF vars
<1> QED
  BY <1>2, <1>3, <1>4, <1>5, <1>6, <1>7, <1>8, <1>9, <1>10 DEF Next, Game

LEMMA ReportedAlways == Spec => []Reported
<1>1. Init => Reported
  BY DEF Init, Reported
<1>2. DiscInv /\ Reported /\ [Next]_vars => Reported'
  BY SearchNext
<1> QED
  BY <1>1, <1>2, DiscInvAlways, PTL DEF Spec

\* The search from the end of the file shows the report of the living object
\* first, for every address in it, however often its memory was used before.
THEOREM LiveFirstAlways == Spec => []LiveFirst
<1>1. DiscInv /\ Reported => LiveFirst
  <2> SUFFICES ASSUME DiscInv, Reported,
                      NEW a \in Cell, size[a] # 0, rep[a] \in 1..pumped,
                      NEW x \in Object(a, size[a])
               PROVE  Matches(x) # {} /\ FirstMatch(x) = rep[a]
    BY DEF LiveFirst
  <2> DEFINE r == rep[a]
  <2>1. PICK S : said \in Seq(S)
    BY DEF DiscInv, Counted, IsLog
  <2>2. /\ pumped \in Nat /\ pumped <= Len(said) /\ Len(said) \in Nat
        /\ DOMAIN said = 1..Len(said)
    BY <2>1 DEF DiscInv, Counted
  <2>3. DOMAIN File = 1..pumped /\ \A i \in 1..pumped : File[i] = said[i]
    BY <2>1, <2>2 DEF File
  <2>4. r \in 1..pumped /\ ReportedAt(a) /\ size[a] \in Nat /\ a \in Int
    BY DiscoveryAssumption DEF Reported
  <2>5. r \in Matches(x)
    <3>1. Covers(said[r], x)
      BY <2>4 DEF ReportedAt, Covers, Object
    <3> QED
      BY <2>3, <2>4, <3>1 DEF Matches, ReportedAt
  <2>6. \A j \in Matches(x) : j <= r
    <3> SUFFICES ASSUME NEW j \in Matches(x), ~(j <= r) PROVE FALSE
      OBVIOUS
    <3>1. j \in 1..pumped /\ said[j].op = "m" /\ Covers(said[j], x)
      BY <2>3 DEF Matches
    <3> QED
      BY <2>2, <2>4, <3>1 DEF ReportedAt
  <2> HIDE DEF r
  <2>7. \A i \in Matches(x) : i \in 1..pumped
    BY <2>3 DEF Matches
  <2>8. FirstMatch(x) = r
    BY <2>2, <2>5, <2>6, <2>7 DEF FirstMatch
  <2> QED
    BY <2>5, <2>8 DEF r
<1> QED
  BY <1>1, DiscInvAlways, ReportedAlways, PTL

-----------------------------------------------------------------------------
(***************************************************************************)
(* The pointer: until the library is active nothing has happened that a    *)
(* pointer could be taken from, and its configuration is what the user     *)
(* has given.  From then on the library looks for it where the user means  *)
(* it to be, and has shown the value that it remembers last.               *)
(***************************************************************************)
NoPointer == [code |-> 0, offs |-> 0, mem |-> 0, old |-> 0]

\* What is sent when the notification arrives.
Answer == IF DiscLib = Exe THEN Append(Text(ExeOffs), ExeOffs) ELSE LibBounds(DiscLib)

\* Between ugtrain and the library, before the game runs on.
Opening ==
    /\ mh \in {"readcfg", "bounds"} => asking = NoFilter /\ ~gaveup
    /\ mh = "readcfg" =>
         /\ toUg = <<>>
         /\ \/ ug = "start" /\ toLib = <<>>
            \/ ug # "start" /\ toLib = <<<<"cfg">>>> /\ (NeedsAslr => ug = "aslr")
    /\ mh = "bounds" =>
         /\ Notifies /\ cfg.filter # NoFilter
         /\ \/ ug = "aslr" /\ toUg = <<<<"ready">>>> /\ toLib = <<>>
            \/ ug \in {"work", "final", "post"} /\ toUg = <<>> /\ toLib = <<Answer>>

\* No pointer has been seen, and none was set.
Unseen ==
    /\ said = <<>> /\ ptrset = 0
    /\ owner = IF cfg.ptr # NoPtr /\ cfg.ptr.code = 0 THEN Glob ELSE 0

\* The library has the user's configuration.
Configured ==
    /\ ptr.mem = 0 /\ ptr.old = 0
    /\ cfg.ptr # NoPtr => ptr.code = cfg.ptr.code /\ ptr.offs = cfg.ptr.offs

\* The library knows the pointer that the user means.
Follows ==
    IF cfg.ptr.code = 0 THEN ptr.code = 0 /\ ptr.offs = Glob /\ owner = Glob
    ELSE /\ ptr.code = PtrCode(cfg) /\ ptr.offs = cfg.ptr.offs
         /\ owner = IF ptr.mem = 0 THEN 0 ELSE ptr.mem + ptr.offs

\* old_ptr_addr is the last value shown.
LastShown ==
    \/ PtrLines = {} /\ ptr.old = 0
    \/ \E k \in PtrLines : said[k].val = ptr.old /\ \A j \in PtrLines : j <= k

\* Once it was looked at after it was set, it is the last value shown.
Shown ==
    ptrset # 0 =>
        /\ cfg.ptr # NoPtr /\ owner \in Cell \cup {Glob}
        /\ (\E i \in ptrset..Len(said) : said[i].op = "m") /\ mem[owner] # 0
              => ptr.old = mem[owner]

Based ==
    /\ cfg \in Config
    /\ base \in [Lib -> Nat] /\ \A l \in Lib : base[l] \in LoadAddr[l] \cup {0}

Placed ==
    /\ Based
    /\ mem \in [Cell \cup {Glob} -> Cell \cup {0}]
    /\ ptrset \in Nat
    /\ DOMAIN ptr = {"code", "offs", "mem", "old"} /\ ptr.mem \in Nat

Tracked ==
    /\ mh \in {"readcfg", "bounds", "active", "inactive"}
    /\ mh = "readcfg"  => Unseen /\ ptr = NoPointer
    /\ mh = "bounds"   => Unseen /\ Configured
    /\ mh = "active"   => LastShown /\ Shown /\ (cfg.ptr # NoPtr => Follows)
    /\ mh = "inactive" => ptrset = 0

PtrInv == Opening /\ Placed /\ Tracked

LEMMA OpeningNext ==
    ASSUME Opening, [Next]_vars
    PROVE  Opening'
<1>0. DiscLib # NoFilter \/ cfg.filter = NoFilter
  BY CallAssumption DEF DiscLib
<1>1. CASE SendConfig
  <2>1. Append(<<>>, <<"cfg">>) = <<<<"cfg">>>>
    OBVIOUS
  <2>2. UNCHANGED <<mh, asking, gaveup, toUg, cfg>> /\ ug = "start" /\ toLib' = Append(toLib, <<"cfg">>)
    BY <1>1 DEF SendConfig, lib_vars
  <2>3. ug' # "start" /\ (NeedsAslr => ug' = "aslr")
    BY <1>1 DEF SendConfig
  <2> QED
    BY <2>1, <2>2, <2>3 DEF Opening, NeedsAslr
<1>2. CASE HandleAslr
  <2>1. /\ UNCHANGED <<mh, asking, gaveup, cfg, base>> /\ ug = "aslr" /\ ug' = "work"
        /\ toUg # <<>> /\ toUg' = Tail(toUg)
        /\ DiscLib # NoFilter => toLib' = Append(toLib, Answer)
    BY <1>2 DEF HandleAslr, lib_vars, game_vars, Answer
  <2>2. mh # "readcfg"
    BY <2>1 DEF Opening
  <2>3. CASE mh = "bounds"
    <3>0. Tail(<<<<"ready">>>>) = <<>>
      OBVIOUS
    <3>1. toLib = <<>> /\ Tail(toUg) = <<>> /\ Notifies /\ cfg.filter # NoFilter
      <4>1. toUg = <<<<"ready">>>> /\ toLib = <<>> /\ Notifies /\ cfg.filter # NoFilter
        BY <2>1, <2>3 DEF Opening
      <4> QED
        BY <3>0, <4>1
    <3>2. \A x : Append(<<>>, x) = <<x>>
      OBVIOUS
    <3>3. toLib' = <<Answer>>
      BY <1>0, <2>1, <3>1, <3>2
    <3>4. Answer' = Answer /\ Notifies'
      BY <2>1, <3>1 DEF Answer, DiscLib, LibBounds, Notifies
    <3> QED
      BY <2>1, <2>3, <3>1, <3>3, <3>4 DEF Opening
  <2> QED
    BY <2>1, <2>2, <2>3 DEF Opening
<1>3. CASE HandleDiscPic
  BY <1>3 DEF HandleDiscPic, lib_vars, Opening
<1>4. CASE GameGone \/ KillWorker
  <2>1. /\ UNCHANGED <<mh, asking, gaveup, cfg, base, toUg, toLib>>
        /\ ug \in {"work", "final"} /\ ug' \in {"final", "post"}
    BY <1>4 DEF GameGone, KillWorker, lib_vars, game_vars
  <2> QED
    BY <2>1 DEF Opening, Answer, DiscLib, LibBounds, Notifies, NeedsAslr
<1>5. ASSUME UNCHANGED <<mh, asking, gaveup, cfg, base, toUg, toLib, ug>>
      PROVE  Opening'
  BY <1>5 DEF Opening, Answer, DiscLib, LibBounds, Notifies, NeedsAslr
<1>6. CASE Worker
  BY <1>5, <1>6 DEF Worker, Pump, PumpNothing, CheckProcess, WakeUp, WorkerStep, lib_vars, game_vars
<1>7. CASE ReadConfig
  <2>1. /\ UNCHANGED <<asking, gaveup, cfg, ug>> /\ mh = "readcfg" /\ toLib # <<>>
        /\ toLib' = Tail(toLib)
        /\ \/ mh' = "active"
           \/ Notifies /\ cfg.filter # NoFilter /\ mh' = "bounds"
        /\ Notifies => toUg' = Append(toUg, <<"ready">>)
    BY <1>7 DEF ReadConfig, InitStep, Activate
  <2>2. toUg = <<>> /\ toLib = <<<<"cfg">>>> /\ (NeedsAslr => ug = "aslr")
    BY <2>1 DEF Opening
  <2>3. Append(<<>>, <<"ready">>) = <<<<"ready">>>> /\ Tail(<<<<"cfg">>>>) = <<>>
    OBVIOUS
  <2>4. Notifies => NeedsAslr
    BY DEF Notifies, NeedsAslr
  <2> QED
    BY <2>1, <2>2, <2>3, <2>4 DEF Opening, Notifies
<1>8. CASE ReadConfigFails \/ ReadBounds \/ ReadBoundsFails
  BY <1>8 DEF ReadConfigFails, ReadBounds, ReadBoundsFails, Activate, Opening
<1>9. ASSUME Runs, mh' = mh
      PROVE  Opening'
  BY <1>9 DEF Runs, Opening
<1>10. ASSUME NEW a, NEW s, NEW st, Malloc(a, s, st)
       PROVE  Opening'
  BY <1>9, <1>10 DEF Malloc
<1>11. ASSUME NEW a, GameFree(a)
       PROVE  Opening'
  BY <1>9, <1>11 DEF GameFree
<1>12. ASSUME NEW c, NEW v, SetPtr(c, v)
       PROVE  Opening'
  BY <1>9, <1>12 DEF SetPtr
<1>13. ASSUME NEW l, Dlopen(l) \/ Dlclose(l)
       PROVE  Opening'
  BY <1>9, <1>13 DEF Dlopen, Dlclose, lib_vars
<1>14. CASE LibReply \/ LibGiveUp
  BY <1>14 DEF LibReply, LibGiveUp, Opening
<1>15. CASE Flush \/ GameEnds
  BY <1>5, <1>15 DEF Flush, GameEnds, lib_vars, game_vars
<1>16. CASE UNCHANGED vars
  BY <1>5, <1>16 DEF vars
<1> QED
  BY <1>1, <1>2, <1>3, <1>4, <1>6, <1>7, <1>8, <1>10, <1>11, <1>12, <1>13, <1>14, <1>15, <1>16
  DEF Next, Trainer, Library, Game

LEMMA PtrInit == Init => PtrInv
<1> SUFFICES ASSUME Init PROVE PtrInv
  OBVIOUS
<1>1. Opening
  BY DEF Init, Opening
<1>2. Placed
  <2>1. /\ cfg \in Config /\ ptrset = 0 /\ ptr = NoPointer
        /\ base \in [Lib -> {0} \cup UNION {LoadAddr[l] : l \in Lib}]
        /\ \A l \in Lib : base[l] \in LoadAddr[l] \cup {0}
        /\ mem = [c \in Cell \cup {Glob} |-> 0]
    BY DEF Init, NoPointer
  <2>2. \A l \in Lib : base[l] \in Nat
    BY <2>1, DiscoveryAssumption
  <2>3. base \in [Lib -> Nat]
    BY <2>1, <2>2
  <2> QED
    BY <2>1, <2>3 DEF Placed, Based, NoPointer
<1>3. Tracked
  BY DEF Init, Tracked, NoPointer, Unseen
<1> QED
  BY <1>1, <1>2, <1>3 DEF PtrInv

\* A step that has nothing to do with the pointer.
LEMMA TrackedQuiet ==
    ASSUME Placed, Tracked, UNCHANGED <<cfg, mh, base, ptr, said, owner, ptrset, mem>>
    PROVE  Placed' /\ Tracked'
<1>1. Placed'
  BY DEF Placed, Based
<1>2. LastShown => LastShown'
  BY DEF LastShown, PtrLines
<1>3. Shown => Shown'
  BY DEF Shown
<1>4. Follows => Follows'
  BY DEF Follows, PtrCode
<1>5. Unseen => Unseen'
  BY DEF Unseen
<1> HIDE DEF LastShown, Shown, Follows, Unseen
<1>6. Tracked'
  BY <1>2, <1>3, <1>4, <1>5 DEF Tracked, NoPointer, Configured
<1> QED
  BY <1>1, <1>6

\* The library becomes active with the pointer as the user means it.
LEMMA TrackedActive ==
    ASSUME Unseen, Activate, UNCHANGED <<cfg, owner, ptrset>>,
           ptr'.mem = 0, ptr'.old = 0,
           cfg.ptr # NoPtr =>
              IF cfg.ptr.code = 0 THEN ptr'.code = 0 /\ ptr'.offs = Glob
              ELSE ptr'.code = PtrCode(cfg) /\ ptr'.offs = cfg.ptr.offs
    PROVE  Tracked'
<1>1. said' = <<[op |-> "S"]>> /\ mh' = "active"
  BY DEF Unseen, Activate
<1>2. LastShown'
  <2>1. DOMAIN said' = {1} /\ said'[1].op = "S"
    BY <1>1
  <2>2. PtrLines' = {}
    BY <2>1 DEF PtrLines
  <2> QED
    BY <2>2 DEF LastShown
<1>3. Shown'
  BY DEF Shown, Unseen
<1>4. cfg'.ptr # NoPtr => Follows'
  BY DEF Follows, Unseen, PtrCode
<1> QED
  BY <1>1, <1>2, <1>3, <1>4 DEF Tracked

\* With the filter "exe" the answer is three numbers.
LEMMA ExeAnswer ==
    ASSUME cfg.filter = Exe
    PROVE  /\ Answer \in Seq(Nat) /\ Len(Answer) = 3
           /\ <<Answer[1], Answer[2]>> = Text(ExeOffs) /\ Answer[3] = ExeOffs
<1>1. Answer = Append(Text(ExeOffs), ExeOffs)
  BY CallAssumption, DiscoveryAssumption DEF Answer, DiscLib
<1>2. /\ Text(ExeOffs) \in Seq(Nat) /\ Len(Text(ExeOffs)) = 2 /\ ExeOffs \in Nat
      /\ Text(ExeOffs) = <<Text(ExeOffs)[1], Text(ExeOffs)[2]>>
  BY DiscoveryAssumption DEF Text
<1>3. ASSUME NEW s \in Seq(Nat), NEW e \in Nat, Len(s) = 2
      PROVE  /\ Append(s, e) \in Seq(Nat) /\ Len(Append(s, e)) = 3 /\ Append(s, e)[3] = e
             /\ Append(s, e)[1] = s[1] /\ Append(s, e)[2] = s[2]
  <2>1. /\ Append(s, e) \in Seq(Nat) /\ Len(Append(s, e)) = Len(s) + 1
        /\ Append(s, e)[Len(s) + 1] = e
    BY AppendProperties
  <2>2. \A i \in 1..Len(s) : Append(s, e)[i] = s[i]
    BY AppendProperties
  <2> QED
    BY <1>3, <2>1, <2>2
<1> QED
  BY <1>1, <1>2, <1>3

LEMMA LibraryTracked ==
    ASSUME PointersGiven, PtrInv, Library
    PROVE  Placed' /\ Tracked'
<1> DEFINE given == cfg.ptr # NoPtr =>
              IF cfg.ptr.code = 0 THEN ptr'.code = 0 /\ ptr'.offs = Glob
              ELSE ptr'.code = PtrCode(cfg) /\ ptr'.offs = cfg.ptr.offs
           Zero == ptr'.mem = 0 /\ ptr'.old = 0
<1>0. /\ cfg \in Config
      /\ UNCHANGED <<cfg, base, mem, ptrset, owner>>
  BY DEF PtrInv, Placed, Based, Library, ReadConfig, ReadConfigFails, ReadBounds, ReadBoundsFails,
         InitStep, game_vars
<1>1. ASSUME ptr'.mem \in Nat, DOMAIN ptr' = {"code", "offs", "mem", "old"}
      PROVE  Placed'
  BY <1>0, <1>1 DEF PtrInv, Placed, Based
<1>2. cfg.ptr # NoPtr =>
        /\ cfg.ptr.code \in Nat /\ cfg.ptr.offs \in Nat
        /\ cfg.ptr.code = 0 => Glob = IF cfg.filter = Exe /\ cfg.stage >= 3 THEN Add(cfg.ptr.offs, ExeOffs)
                                      ELSE cfg.ptr.offs
        /\ cfg.ptr.code # 0 => PtrCode(cfg) <= UIntPtrMax
  BY <1>0 DEF PointersGiven
<1>3. CASE ReadConfig
  <2>1. mh = "readcfg" /\ ptr = NoPointer /\ Unseen
    BY <1>3 DEF ReadConfig, PtrInv, Tracked
  <2>2. ptr' = IF cfg.ptr = NoPtr THEN ptr
               ELSE [ptr EXCEPT !.code = cfg.ptr.code, !.offs = cfg.ptr.offs]
    BY <1>3 DEF ReadConfig
  <2>3. /\ ptr'.mem = 0 /\ ptr'.old = 0 /\ DOMAIN ptr' = {"code", "offs", "mem", "old"}
        /\ cfg.ptr # NoPtr => ptr'.code = cfg.ptr.code /\ ptr'.offs = cfg.ptr.offs
    BY <2>1, <2>2 DEF NoPointer
  <2>0. Placed' /\ Zero
    BY <1>1, <2>3
  <2>4. CASE Notifies /\ cfg.filter # NoFilter
    <3>1. mh' = "bounds" /\ UNCHANGED said
      BY <1>3, <2>4 DEF ReadConfig
    <3> QED
      BY <1>0, <2>0, <2>1, <2>3, <3>1 DEF Tracked, Unseen, Configured
  <2>5. CASE ~(Notifies /\ cfg.filter # NoFilter)
    <3>1. Activate
      BY <1>3, <2>5 DEF ReadConfig
    <3>2. given
      BY <1>2, <2>3, <2>5, CallAssumption DEF Notifies, PtrCode
    <3> QED
      BY <1>0, <2>0, <2>1, <3>1, <3>2, TrackedActive
  <2> QED
    BY <2>4, <2>5
<1>4. CASE ReadConfigFails
  <2>1. mh = "readcfg" /\ mh' = "inactive" /\ UNCHANGED ptr
    BY <1>4 DEF ReadConfigFails
  <2>2. ptrset' = 0
    BY <1>0, <2>1 DEF PtrInv, Tracked, Unseen
  <2> QED
    BY <1>1, <2>1, <2>2 DEF PtrInv, Placed, Based, Tracked
<1>5. ASSUME mh = "bounds", UNCHANGED ptr, cfg.filter # Exe, Activate
      PROVE  Placed' /\ Tracked'
  <2>1. Unseen /\ Configured
    BY <1>5 DEF PtrInv, Tracked
  <2>2. Placed' /\ Zero
    BY <1>1, <1>5, <2>1 DEF PtrInv, Placed, Based, Configured
  <2>3. given
    BY <1>2, <1>5, <2>1 DEF PtrCode, Configured
  <2> QED
    BY <1>0, <1>5, <2>1, <2>2, <2>3, TrackedActive
<1>6. CASE ReadBounds
  <2>1. mh = "bounds" /\ toLib # <<>>
    BY <1>6 DEF ReadBounds
  <2>2. CASE cfg.filter # Exe
    BY <1>5, <1>6, <2>1, <2>2 DEF ReadBounds
  <2>3. CASE cfg.filter = Exe
    <3>1. toLib = <<Answer>> /\ Notifies
      BY <2>1 DEF PtrInv, Opening
    <3>3. Answer \in Seq(Nat) /\ Len(Answer) = 3 /\ Answer[3] = ExeOffs
      BY <2>3, ExeAnswer
    <3>4. FlattenSeq(toLib) = Answer
      BY <3>1, <3>3, FlattenOne
    <3>6. UpdateCfgForPie(ExeOffs) /\ Activate
      <4>1. ~(Len(FlattenSeq(toLib)) < 3) /\ FlattenSeq(toLib)[3] = ExeOffs
        BY <3>3, <3>4
      <4> QED
        BY <1>6, <2>3, <4>1 DEF ReadBounds
    <3>7. Unseen /\ Configured /\ DOMAIN ptr = {"code", "offs", "mem", "old"}
      BY <2>1 DEF PtrInv, Placed, Based, Tracked
    <3>8. ptr' = IF Fits(ptr.code, ExeOffs) THEN [ptr EXCEPT !.code = Add(ptr.code, ExeOffs)]
                 ELSE [ptr EXCEPT !.offs = Add(ptr.offs, ExeOffs)]
      BY <3>6 DEF UpdateCfgForPie
    <3>9. Placed' /\ Zero
      BY <1>1, <3>7, <3>8 DEF Configured
    <3>10. given
      <4> SUFFICES ASSUME cfg.ptr # NoPtr
                   PROVE  IF cfg.ptr.code = 0 THEN ptr'.code = 0 /\ ptr'.offs = Glob
                          ELSE ptr'.code = PtrCode(cfg) /\ ptr'.offs = cfg.ptr.offs
        OBVIOUS
      <4>1. cfg.ptr.code = 0 => cfg.stage >= 3
        BY <3>1 DEF Notifies
      <4>2. ptr.code = cfg.ptr.code /\ ptr.offs = cfg.ptr.offs
        BY <3>7 DEF Configured
      <4>3. /\ Fits(cfg.ptr.code, ExeOffs) <=> cfg.ptr.code # 0
            /\ cfg.ptr.code # 0 => Add(cfg.ptr.code, ExeOffs) = PtrCode(cfg)
        BY <1>2, <2>3, DiscoveryAssumption DEF Add, Fits, PtrCode
      <4> HIDE DEF Zero, given
      <4> QED
        BY <1>2, <2>3, <3>7, <3>8, <4>1, <4>2, <4>3
    <3> QED
      BY <1>0, <3>6, <3>7, <3>9, <3>10, TrackedActive
  <2> QED
    BY <2>2, <2>3
<1>7. CASE ReadBoundsFails
  <2>1. mh = "bounds" /\ UNCHANGED ptr
    BY <1>7 DEF ReadBoundsFails
  <2>2. CASE cfg.filter = Exe
    <3>1. mh' = "inactive"
      BY <1>7, <2>2 DEF ReadBoundsFails
    <3>2. ptrset' = 0
      BY <1>0, <2>1 DEF PtrInv, Tracked, Unseen
    <3> QED
      BY <1>1, <2>1, <3>1, <3>2 DEF PtrInv, Placed, Based, Tracked
  <2>3. CASE cfg.filter # Exe
    BY <1>5, <1>7, <2>1, <2>3 DEF ReadBoundsFails
  <2> QED
    BY <2>2, <2>3
<1> QED
  BY <1>3, <1>4, <1>6, <1>7 DEF Library

\* Lines that show no value leave the last one shown.
LEMMA LastShownKept ==
    ASSUME Counted, LastShown, Kept, ptr'.old = ptr.old,
           \A j \in DOMAIN said' : j > Len(said) => said'[j].op # "p"
    PROVE  LastShown'
<1>1. /\ Len(said) \in Nat /\ DOMAIN said = 1..Len(said)
      /\ Len(said') \in Nat /\ DOMAIN said' = 1..Len(said')
      /\ Len(said) <= Len(said') /\ \A i \in 1..Len(said) : said'[i] = said[i]
  BY LogDomain DEF Counted, Kept
<1>2. \A i \in DOMAIN said' : i > Len(said) \/ i \in DOMAIN said
  BY <1>1
<1>3. PtrLines' = PtrLines
  BY <1>1, <1>2 DEF PtrLines
<1>4. \A k \in PtrLines : said'[k] = said[k]
  BY <1>1 DEF PtrLines
<1> QED
  BY <1>3, <1>4 DEF LastShown

\* Nor has an allocation been reported by them.
LEMMA ShownKept ==
    ASSUME Counted, Placed, Shown, Kept, UNCHANGED <<cfg, owner, mem, ptrset>>, ptr'.old = ptr.old,
           \A j \in DOMAIN said' : j > Len(said) => said'[j].op # "m"
    PROVE  Shown'
<1>1. /\ Len(said) \in Nat /\ DOMAIN said = 1..Len(said)
      /\ Len(said') \in Nat /\ DOMAIN said' = 1..Len(said')
      /\ Len(said) <= Len(said') /\ \A i \in 1..Len(said) : said'[i] = said[i]
  BY LogDomain DEF Counted, Kept
<1> SUFFICES ASSUME ptrset # 0, NEW i \in ptrset..Len(said'), said'[i].op = "m"
             PROVE  i \in ptrset..Len(said) /\ said[i].op = "m"
  BY DEF Shown
<1>2. ptrset \in Nat /\ i \in DOMAIN said'
  BY <1>1 DEF Placed, Based
<1> QED
  BY <1>1, <1>2

\* The library takes an object for the one that holds the pointer if, and only
\* if, it is the one that the user means.
LEMMA HoldsMeant ==
    ASSUME PointersGiven, Placed, Follows, cfg.ptr # NoPtr, NEW s, NEW stack \in Stack,
           \A i \in DOMAIN stack : BaseOf(stack[i].mod) # 0
    PROVE  Holds(s, stack) <=> Meant(s, stack)
<1>1. CASE cfg.ptr.code = 0
  BY <1>1 DEF Follows, Holds, Meant
<1>2. CASE cfg.ptr.code # 0
  <2> DEFINE k == cfg.ptr.stack + 1
  <2>1. /\ cfg.ptr.code \in Nat /\ PtrCode(cfg) \in Nat /\ ptr.code = PtrCode(cfg) /\ ptr.code # 0
        /\ \A i \in DOMAIN stack : stack[i].mod # Exe =>
             \A b \in LoadAddr[stack[i].mod] : b + stack[i].offs # PtrCode(cfg)
    BY <1>2, DiscoveryAssumption DEF PointersGiven, Placed, Based, Follows, PtrCode
  <2>2. ASSUME k \in DOMAIN stack
        PROVE  Addr(stack[k]) = ptr.code <=>
               /\ stack[k].mod = Exe
               /\ cfg.ptr.code = IF cfg.filter = Exe THEN stack[k].offs ELSE Addr(stack[k])
    <3> HIDE DEF k
    <3>1. stack[k].mod \in Lib \cup {Exe} /\ stack[k].offs \in Nat
      BY <2>2, CallAssumption
    <3>2. CASE stack[k].mod = Exe
      <4>1. Addr(stack[k]) = ExeOffs + stack[k].offs
        BY <3>2 DEF Addr, BaseOf
      <4> QED
        BY <2>1, <3>1, <3>2, <4>1, DiscoveryAssumption DEF PtrCode
    <3>3. CASE stack[k].mod # Exe
      <4>1. stack[k].mod \in Lib /\ Addr(stack[k]) = base[stack[k].mod] + stack[k].offs
        BY <3>1, <3>3 DEF Addr, BaseOf
      <4>2. base[stack[k].mod] # 0
        BY <2>2, <3>3 DEF BaseOf
      <4>3. base[stack[k].mod] \in LoadAddr[stack[k].mod]
        BY <4>1, <4>2 DEF Placed, Based
      <4> QED
        BY <2>1, <2>2, <3>3, <4>1, <4>3
    <3> QED
      BY <3>2, <3>3
  <2> QED
    BY <1>2, <2>1, <2>2 DEF Holds, Meant
<1> QED
  BY <1>1, <1>2

\* A reported allocation: the pointer is looked at.
LEMMA LookTracked ==
    ASSUME PointersGiven, Counted, Placed, LastShown, Shown, Follows, cfg.ptr # NoPtr,
           NEW a \in Cell, NEW s, NEW stack \in Stack, NEW line, line.op = "m",
           \A i \in DOMAIN stack : BaseOf(stack[i].mod) # 0,
           UNCHANGED <<cfg, mem>>,
           NEW holder, holder = IF Holds(s, stack) THEN a ELSE ptr.mem,
           NEW v, v = IF PtrCell(holder) = 0 THEN 0 ELSE mem[PtrCell(holder)],
           Kept, said'[Len(said) + 1] = line,
           \A j \in DOMAIN said' : j > Len(said) + 1 => said'[j].op = "p",
           IF v \in {0, ptr.old} THEN Len(said') = Len(said) + 1
           ELSE Len(said') = Len(said) + 2 /\ said'[Len(said) + 2] = [op |-> "p", val |-> v],
           ptr' = [ptr EXCEPT !.mem = holder, !.old = IF v = 0 THEN @ ELSE v],
           owner' = IF Meant(s, stack) THEN a + cfg.ptr.offs ELSE owner,
           ptrset' = IF Meant(s, stack) THEN 0 ELSE ptrset
    PROVE  /\ LastShown' /\ Shown' /\ Follows'
           /\ ptrset' \in Nat /\ ptr'.mem \in Nat /\ DOMAIN ptr' = {"code", "offs", "mem", "old"}
<1>1. /\ ptr'.mem = holder /\ ptr'.old = (IF v = 0 THEN ptr.old ELSE v)
      /\ ptr'.code = ptr.code /\ ptr'.offs = ptr.offs
      /\ DOMAIN ptr' = {"code", "offs", "mem", "old"}
  BY DEF Placed, Based
<1>2. /\ Len(said) \in Nat /\ DOMAIN said = 1..Len(said)
      /\ Len(said') \in Nat /\ DOMAIN said' = 1..Len(said')
      /\ \A i \in 1..Len(said) : said'[i] = said[i]
  BY LogDomain DEF Counted, Kept
<1>3. Holds(s, stack) <=> Meant(s, stack)
  BY HoldsMeant
<1>4. a \in Nat /\ a # 0 /\ ptr.mem \in Nat /\ holder \in Nat
  BY DiscoveryAssumption DEF Placed, Based
<1>5. Follows'
  <2>1. CASE cfg.ptr.code = 0
    <3>1. ~Meant(s, stack)
      BY <2>1 DEF Meant
    <3> QED
      BY <1>1, <2>1, <3>1 DEF Follows
  <2>2. CASE cfg.ptr.code # 0
    <3>1. owner' = IF holder = 0 THEN 0 ELSE holder + ptr.offs
      BY <1>3, <1>4, <2>2 DEF Follows
    <3> QED
      BY <1>1, <2>2, <3>1 DEF Follows, PtrCode
  <2> QED
    BY <2>1, <2>2
<1>6. PtrCell(holder) = owner'
  BY <1>1, <1>5, DiscoveryAssumption DEF Follows, PtrCell, PtrCode, PointersGiven, Placed, Based
<1>7. LastShown'
  <2>1. CASE v \in {0, ptr.old}
    <3>1. ptr'.old = ptr.old
      BY <1>1, <2>1
    <3>2. Len(said') = Len(said) + 1
      BY <2>1
    <3>3. \A j \in DOMAIN said' : j > Len(said) => said'[j].op # "p"
      BY <1>2, <3>2
    <3> QED
      BY <3>1, <3>3, LastShownKept
  <2>2. CASE v \notin {0, ptr.old}
    <3> DEFINE k == Len(said) + 2
    <3>1. Len(said') = k /\ said'[k] = [op |-> "p", val |-> v] /\ ptr'.old = v
      BY <1>1, <2>2
    <3>2. k \in PtrLines' /\ said'[k].val = ptr'.old
      BY <1>2, <3>1 DEF PtrLines
    <3>3. \A j \in PtrLines' : j <= k
      BY <1>2, <3>1 DEF PtrLines
    <3> QED
      BY <3>2, <3>3 DEF LastShown
  <2> QED
    BY <2>1, <2>2
<1>8. Shown'
  <2> SUFFICES ASSUME ptrset' # 0
               PROVE  owner' \in Cell \cup {Glob} /\ (mem[owner'] # 0 => ptr'.old = mem[owner'])
    BY DEF Shown
  <2>1. owner' = owner /\ ptrset # 0
    OBVIOUS
  <2>2. owner \in Cell \cup {Glob} /\ owner # 0
    BY <2>1, DiscoveryAssumption DEF Shown
  <2>3. v = mem[owner']
    BY <1>6, <2>1, <2>2
  <2> QED
    BY <1>1, <2>1, <2>2, <2>3
<1> QED
  BY <1>1, <1>4, <1>5, <1>7, <1>8 DEF Placed, Based

LEMMA MallocTracked ==
    ASSUME PointersGiven, Counted, PtrInv, NEW a \in Cell, NEW s \in Size, NEW stack \in Stack,
           Malloc(a, s, stack)
    PROVE  Placed' /\ Tracked'
<1> DEFINE codes  == IF cfg.stage >= 3 THEN FindCodeAddresses(stack) ELSE <<>>
           line   == [op |-> "m", addr |-> a, size |-> s, codes |-> codes]
           quiet  == ~Wanted(s) \/ (cfg.stage >= 3 /\ codes = <<>>)
           holder == IF Holds(s, stack) THEN a ELSE ptr.mem
           v      == IF PtrCell(holder) = 0 THEN 0 ELSE mem[PtrCell(holder)]
<1>1. /\ PostprocessMalloc(a, s, stack)
      /\ UNCHANGED <<cfg, mh, base, mem>>
      /\ mh = "active"
      /\ \A i \in DOMAIN stack : BaseOf(stack[i].mod) # 0
  BY DEF Malloc, Runs
<1>2. /\ Placed /\ Tracked /\ LastShown /\ Shown /\ (cfg.ptr # NoPtr => Follows)
      /\ mh' = "active" /\ line.op = "m"
  BY <1>1 DEF PtrInv, Tracked
<1>3. CASE quiet
  <2>1. UNCHANGED <<said, ptr, owner, ptrset>>
    BY <1>1, <1>3 DEF PostprocessMalloc
  <2> QED
    BY <1>1, <1>2, <2>1, TrackedQuiet
<1>4. CASE ~quiet /\ cfg.ptr = NoPtr
  <2>1. said' = Append(said, line) /\ UNCHANGED <<ptr, owner, ptrset>>
    BY <1>1, <1>4 DEF PostprocessMalloc
  <2> HIDE DEF line, quiet
  <2>2. /\ Kept /\ Len(said') = Len(said) + 1 /\ said'[Len(said) + 1] = line
        /\ Len(said) \in Nat /\ DOMAIN said' = 1..Len(said')
    BY <2>1, KeptOne, LogDomain DEF Counted, Kept
  <2>3. \A j \in DOMAIN said' : j > Len(said) => said'[j].op # "p"
    BY <1>2, <2>2
  <2>4. LastShown'
    BY <1>2, <2>1, <2>2, <2>3, LastShownKept
  <2>5. Shown'
    BY <1>2, <1>4, <2>1 DEF Shown
  <2>6. Placed'
    BY <1>1, <1>2, <2>1 DEF Placed, Based
  <2> QED
    BY <1>1, <1>2, <1>4, <2>4, <2>5, <2>6 DEF Tracked
<1>5. CASE ~quiet /\ cfg.ptr # NoPtr
  <2>1. /\ said' = Append(said, line) \o PtrLine(v)
        /\ ptr' = [ptr EXCEPT !.mem = holder, !.old = IF v = 0 THEN @ ELSE v]
        /\ owner' = IF Meant(s, stack) THEN a + cfg.ptr.offs ELSE owner
        /\ ptrset' = IF Meant(s, stack) THEN 0 ELSE ptrset
    BY <1>1, <1>5 DEF PostprocessMalloc
  <2>2. /\ holder = IF Holds(s, stack) THEN a ELSE ptr.mem
        /\ v = IF PtrCell(holder) = 0 THEN 0 ELSE mem[PtrCell(holder)]
    OBVIOUS
  <2> HIDE DEF line, quiet, holder, v
  <2>0. /\ Kept /\ Len(said) + 1 <= Len(said') /\ said'[Len(said) + 1] = line
        /\ \A j \in DOMAIN said' : j > Len(said) + 1 => said'[j].op = "p"
        /\ IF v \in {0, ptr.old} THEN Len(said') = Len(said) + 1
           ELSE Len(said') = Len(said) + 2 /\ said'[Len(said) + 2] = [op |-> "p", val |-> v]
    BY <2>1, KeptPtr
  <2>3. /\ LastShown' /\ Shown' /\ Follows'
        /\ ptrset' \in Nat /\ ptr'.mem \in Nat /\ DOMAIN ptr' = {"code", "offs", "mem", "old"}
    BY ZenonT(60), <1>1, <1>2, <1>5, <2>0, <2>1, <2>2, LookTracked
  <2>4. Placed'
    BY <1>1, <1>2, <2>3 DEF Placed, Based
  <2> QED
    BY <1>2, <2>3, <2>4 DEF Tracked
<1> QED
  BY <1>3, <1>4, <1>5

LEMMA FreeTracked ==
    ASSUME Counted, PtrInv, NEW a, GameFree(a)
    PROVE  Placed' /\ Tracked'
<1>1. /\ mh = "active" /\ UNCHANGED <<cfg, mh, base, mem, ptr, owner, ptrset>>
      /\ UNCHANGED said \/ said' = Append(said, [op |-> "f", addr |-> a])
  BY DEF GameFree, Runs
<1>2. Placed /\ Tracked /\ LastShown /\ Shown /\ (cfg.ptr # NoPtr => Follows)
  BY <1>1 DEF PtrInv, Tracked
<1>3. CASE UNCHANGED said
  BY <1>1, <1>2, <1>3, TrackedQuiet
<1>4. ASSUME NEW line, line.op = "f", said' = Append(said, line)
      PROVE  Placed' /\ Tracked'
  <2>1. /\ Kept /\ Len(said') = Len(said) + 1 /\ said'[Len(said) + 1] = line
        /\ Len(said) \in Nat /\ DOMAIN said' = 1..Len(said')
    BY <1>4, KeptOne, LogDomain DEF Counted, Kept
  <2>2. \A j \in DOMAIN said' : j > Len(said) => said'[j].op \notin {"m", "p"}
    BY <1>4, <2>1
  <2>3. LastShown' /\ Shown'
    BY <1>1, <1>2, <2>1, <2>2, LastShownKept, ShownKept
  <2>4. cfg.ptr # NoPtr => Follows'
    BY <1>1, <1>2 DEF Follows, PtrCode
  <2> QED
    BY <1>1, <1>2, <2>3, <2>4 DEF Placed, Based, Tracked
<1> QED
  BY <1>1, <1>3, <1>4

\* The game sets the pointer, or another one.
LEMMA SetPtrTracked ==
    ASSUME Counted, PtrInv, NEW c \in Cell \cup {Glob}, NEW v \in Cell \cup {0}, SetPtr(c, v)
    PROVE  Placed' /\ Tracked'
<1>1. /\ mh = "active" /\ UNCHANGED <<cfg, mh, base, said, ptr, owner>>
      /\ mem' = [mem EXCEPT ![c] = v]
      /\ ptrset' = IF c = owner THEN Len(said) + 1 ELSE ptrset
      /\ cfg.ptr # NoPtr
  BY DEF SetPtr, PtrCells, Runs
<1>2. Placed /\ Tracked /\ LastShown /\ Shown /\ Follows
  BY <1>1 DEF PtrInv, Tracked
<1>3. Len(said) \in Nat
  BY LogDomain DEF Counted
<1>4. Placed'
  BY <1>1, <1>2, <1>3 DEF Placed, Based
<1>5. LastShown' /\ Follows'
  BY <1>1, <1>2 DEF LastShown, PtrLines, Follows, PtrCode
<1>6. Shown'
  <2>1. CASE c = owner
    BY <1>1, <1>3, <2>1 DEF Shown
  <2>2. CASE c # owner
    <3>1. ptrset # 0 => mem'[owner] = mem[owner]
      BY <1>1, <1>2, <2>2 DEF Shown, Placed, Based
    <3> QED
      BY <1>1, <1>2, <2>2, <3>1 DEF Shown
  <2> QED
    BY <2>1, <2>2
<1> QED
  BY <1>1, <1>4, <1>5, <1>6 DEF Tracked

\* A library is opened or closed.
LEMMA DlTracked ==
    ASSUME PtrInv, NEW l \in Lib, Dlopen(l) \/ Dlclose(l)
    PROVE  Placed' /\ Tracked'
<1>1. UNCHANGED <<cfg, mh, ptr, said, owner, ptrset, mem>>
  BY DEF Dlopen, Dlclose, lib_vars, out_vars
<1>2. PICK b \in LoadAddr[l] \cup {0} : base' = [base EXCEPT ![l] = b]
  BY DEF Dlopen, Dlclose, PtrInv, Placed, Based
<1>3. b \in Nat
  BY DiscoveryAssumption
<1>4. Placed'
  BY <1>1, <1>2, <1>3 DEF PtrInv, Placed, Based
<1>5. Tracked'
  <2>1. /\ LastShown => LastShown'
        /\ Shown => Shown'
        /\ Follows => Follows'
        /\ Unseen => Unseen'
    BY <1>1 DEF LastShown, PtrLines, Shown, Follows, PtrCode, Unseen
  <2> QED
    BY <1>1, <2>1 DEF PtrInv, Tracked, NoPointer, Configured
<1> QED
  BY <1>4, <1>5

LEMMA PtrNext ==
    ASSUME PointersGiven, Counted, PtrInv, [Next]_vars
    PROVE  PtrInv'
<1> SUFFICES Placed' /\ Tracked'
  BY OpeningNext DEF PtrInv
<1>1. ASSUME UNCHANGED <<cfg, mh, base, ptr, said, owner, ptrset, mem>>
      PROVE  Placed' /\ Tracked'
  BY <1>1, TrackedQuiet DEF PtrInv
<1>2. CASE Trainer
  BY <1>1, <1>2 DEF Trainer, SendConfig, HandleAslr, HandleDiscPic, GameGone, KillWorker,
                    lib_vars, game_vars, out_vars
<1>3. CASE Worker
  BY <1>1, <1>3 DEF Worker, Pump, PumpNothing, CheckProcess, WakeUp, WorkerStep, lib_vars, game_vars
<1>4. CASE Library
  BY <1>4, LibraryTracked
<1>5. ASSUME NEW a \in Cell, NEW s \in Size, NEW st \in Stack, Malloc(a, s, st)
      PROVE  Placed' /\ Tracked'
  BY <1>5, MallocTracked
<1>6. ASSUME NEW a \in Cell, GameFree(a)
      PROVE  Placed' /\ Tracked'
  BY <1>6, FreeTracked
<1>7. ASSUME NEW c \in Cell \cup {Glob}, NEW v \in Cell \cup {0}, SetPtr(c, v)
      PROVE  Placed' /\ Tracked'
  BY <1>7, SetPtrTracked
<1>8. ASSUME NEW l \in Lib, Dlopen(l) \/ Dlclose(l)
      PROVE  Placed' /\ Tracked'
  BY <1>8, DlTracked
<1>9. CASE LibReply \/ LibGiveUp \/ Flush \/ GameEnds
  BY <1>1, <1>9 DEF LibReply, LibGiveUp, Flush, GameEnds, lib_vars, game_vars, out_vars
<1>10. CASE UNCHANGED vars
  BY <1>1, <1>10 DEF vars
<1> QED
  BY <1>2, <1>3, <1>4, <1>5, <1>6, <1>7, <1>8, <1>9, <1>10 DEF Next, Game

\* For every pointer that the user can give, and whatever the game does with
\* it: the last "p" line is what it held when an allocation was reported last.
THEOREM PtrSeenAlways ==
    ASSUME PointersGiven
    PROVE  Spec => []PtrSeen
<1>1. DiscInv /\ PtrInv => PtrSeen
  <2> SUFFICES ASSUME Counted, PtrInv, ptrset # 0, mem[owner] # 0,
                      \E i \in ptrset..Len(said) : said[i].op = "m"
               PROVE  PtrLines # {} /\ LastPtr = mem[owner]
    BY DEF PtrSeen, DiscInv
  <2>1. LastShown /\ Shown
    BY DEF PtrInv, Tracked, Unseen
  <2>2. ptr.old = mem[owner]
    BY <2>1 DEF Shown
  <2>3. PICK k \in PtrLines : said[k].val = ptr.old /\ \A j \in PtrLines : j <= k
    BY <2>1, <2>2 DEF LastShown
  <2>4. PtrLines \subseteq Nat
    BY LogDomain DEF Counted, PtrLines
  <2>5. (CHOOSE i \in PtrLines : \A j \in PtrLines : j <= i) = k
    BY <2>3, <2>4
  <2> QED
    BY <2>2, <2>3, <2>5 DEF LastPtr
<1>2. DiscInv /\ PtrInv /\ [Next]_vars => PtrInv'
  BY PtrNext DEF DiscInv
<1> QED
  BY <1>1, <1>2, PtrInit, DiscInvAlways, PTL DEF Spec

-----------------------------------------------------------------------------
(***************************************************************************)
(* The code filter.  The question for a library that has just been opened  *)
(* is either in the FIFO to ugtrain, as the last message, or its answer is *)
(* in the FIFO to the library: as the game waits, the library is still     *)
(* where it was found.  A library that stops waiting while ugtrain owes it *)
(* the answer has given up, and knows no more than that.                   *)
(***************************************************************************)
\* No question for the library of the filter is open.
Unasked == \A i \in DOMAIN toUg : toUg[i] # <<"l", cfg.filter>>

\* It has been asked last.
AskedLast ==
    /\ toUg # <<>> /\ toUg[Len(toUg)] = <<"l", cfg.filter>>
    /\ \A i \in DOMAIN toUg : toUg[i] = <<"l", cfg.filter>> => i = Len(toUg)

\* The code address is looked for where the library is or was.
CodeKnown ==
    IF cfg.code = 0 THEN code.now = 0
    ELSE /\ code.now \in {cfg.code + b : b \in LoadAddr[cfg.filter] \cup {0}}
         /\ code.orig = cfg.code \/ (code.orig = 0 /\ code.now = cfg.code)

Sought(b) == IF cfg.code = 0 THEN 0 ELSE cfg.code + b

LibFiltered ==
    /\ IsLog(toUg) /\ CodeKnown
    /\ IF asking = cfg.filter
       THEN \/ toLib = <<>> /\ AskedLast
            \/ toLib = <<LibBounds(cfg.filter)>> /\ Unasked
       ELSE /\ toLib = <<>> /\ Unasked
            /\ base[cfg.filter] # 0 =>
                 bt = Text(base[cfg.filter]) /\ code.now = Sought(base[cfg.filter])

Filtering ==
    /\ mh = "readcfg" => bt = <<0, 0>> /\ code = [now |-> 0, orig |-> 0]
    /\ mh = "bounds"  => code.now = cfg.code /\ code.orig = 0
    /\ mh = "active"  =>
         /\ cfg.filter = NoFilter => asking = NoFilter /\ bt = IF cfg.code = 0 THEN AllAddr ELSE <<0, 0>>
         /\ cfg.filter # NoFilter => ug \in {"work", "final", "post"}
         /\ cfg.filter = Exe      => toLib = <<>> /\ bt = Text(ExeOffs) /\ code.now = Sought(ExeOffs)
         /\ cfg.filter \in Lib    => LibFiltered
    /\ DOMAIN code = {"now", "orig"}

FilterInv == Opening /\ Based /\ (gaveup \/ Filtering)

LEMMA TailLines ==
    ASSUME NEW s, IsLog(s), s # <<>>
    PROVE  /\ IsLog(Tail(s)) /\ Len(Tail(s)) = Len(s) - 1 /\ Len(s) >= 1
           /\ \A i \in 1..(Len(s) - 1) : Tail(s)[i] = s[i + 1]
           /\ Head(s) = s[1]
<1>1. PICK S : s \in Seq(S)
  BY DEF IsLog
<1>2. Len(s) \in Nat /\ Len(s) >= 1
  BY <1>1
<1>3. Tail(s) \in Seq(S) /\ Len(Tail(s)) = Len(s) - 1 /\ \A i \in 1..(Len(s) - 1) : Tail(s)[i] = s[i + 1]
  BY <1>1, <1>2
<1> QED
  BY <1>1, <1>2, <1>3 DEF IsLog

\* Who has stopped waiting does not take it back.
LEMMA GaveUpStays ==
    ASSUME gaveup, [Next]_vars
    PROVE  gaveup'
<1>1. ASSUME UNCHANGED lib_vars \/ UNCHANGED gaveup PROVE gaveup'
  BY <1>1 DEF lib_vars
<1>2. Trainer \/ Worker => gaveup'
  BY <1>1 DEF Trainer, SendConfig, HandleAslr, HandleDiscPic, GameGone, KillWorker,
              Worker, Pump, PumpNothing, CheckProcess, WakeUp, WorkerStep
<1>3. Library => gaveup'
  BY DEF Library, ReadConfig, ReadConfigFails, ReadBounds, ReadBoundsFails
<1>4. Game => gaveup'
  BY DEF Game, Malloc, GameFree, SetPtr, Dlopen, Dlclose, LibReply, LibGiveUp, Flush, GameEnds, lib_vars
<1> QED
  BY <1>2, <1>3, <1>4 DEF Next, vars

LEMMA BasedNext ==
    ASSUME Based, [Next]_vars
    PROVE  Based'
<1>1. ASSUME UNCHANGED <<cfg, base>> PROVE Based'
  BY <1>1 DEF Based
<1>2. Trainer \/ Worker => Based'
  BY <1>1 DEF Trainer, SendConfig, HandleAslr, HandleDiscPic, GameGone, KillWorker, game_vars,
              Worker, Pump, PumpNothing, CheckProcess, WakeUp, WorkerStep
<1>3. Library => Based'
  BY <1>1 DEF Library, ReadConfig, ReadConfigFails, ReadBounds, ReadBoundsFails, InitStep, game_vars
<1>4. ASSUME NEW l \in Lib, Dlopen(l) \/ Dlclose(l)
      PROVE  Based'
  <2>1. PICK b \in LoadAddr[l] \cup {0} : base' = [base EXCEPT ![l] = b] /\ UNCHANGED cfg
    BY <1>4 DEF Dlopen, Dlclose, Based
  <2>2. b \in Nat
    BY DiscoveryAssumption
  <2> QED
    BY <2>1, <2>2 DEF Based
<1>5. Game => Based'
  BY <1>1, <1>4 DEF Game, Malloc, GameFree, SetPtr, LibReply, LibGiveUp, Flush, GameEnds, game_vars
<1> QED
  BY <1>1, <1>2, <1>3, <1>5 DEF Next, vars

\* The bounds of the library where it is now: the code address follows from
\* the one that the user has given, wherever it was before.
LEMMA BtSet ==
    ASSUME FiltersGiven, Based, cfg.filter \in Lib, CodeKnown, DOMAIN code = {"now", "orig"},
           NEW n, n = LibBounds(cfg.filter), SetBtAddrs(n), UNCHANGED <<cfg, base>>
    PROVE  /\ CodeKnown' /\ DOMAIN code' = {"now", "orig"}
           /\ base[cfg.filter] # 0 =>
                bt' = Text(base[cfg.filter]) /\ code'.now = Sought(base[cfg.filter])
<1> DEFINE L == cfg.filter
           b == n[1]
           A == LoadAddr[L] \cup {0}
<1>1. /\ Len(n) = 2
      /\ b = base[L]
      /\ base[L] # 0 => <<n[1], n[2]>> = Text(base[L])
  <2>1. \/ n = <<0, UIntPtrMax>> /\ base[L] = 0
        \/ n = <<base[L], base[L] + TextSize>> /\ base[L] # 0
    BY DEF LibBounds, AllAddr, Text
  <2> QED
    BY <2>1 DEF Text
<1>2. /\ cfg.code \in Nat /\ UIntPtrMax \in Nat /\ b \in A /\ A \subseteq Nat
      /\ \A x, y \in LoadAddr[L] : cfg.code + x + y <= UIntPtrMax
  BY <1>1, DiscoveryAssumption DEF FiltersGiven, Based
<1>3. /\ bt' = <<n[1], n[2]>>
      /\ code' = IF code.now = 0 \/ code.now > UIntPtrMax - b THEN code
                 ELSE LET orig == IF code.orig = 0 THEN code.now ELSE code.orig
                      IN  [now |-> orig + b, orig |-> orig]
  BY <1>1 DEF SetBtAddrs
<1>4. CASE cfg.code = 0
  <2>1. code' = code /\ code.now = 0
    BY <1>3, <1>4 DEF CodeKnown
  <2> QED
    BY <1>1, <1>3, <1>4, <2>1 DEF CodeKnown, Sought
<1>5. CASE cfg.code # 0
  <2>1. PICK x \in A : code.now = cfg.code + x
    BY <1>5 DEF CodeKnown
  <2>2. code.orig = cfg.code \/ (code.orig = 0 /\ code.now = cfg.code)
    BY <1>5 DEF CodeKnown
  <2>3. code.now \in Nat /\ code.now # 0
    BY <1>2, <1>5, <2>1
  <2>4. b # 0 => ~(code.now > UIntPtrMax - b)
    <3> HIDE DEF b, L
    <3>1. CASE x = 0
      BY <1>2, <2>1, <3>1
    <3>2. CASE x # 0
      BY <1>2, <2>1, <3>2
    <3> QED
      BY <3>1, <3>2
  <2>5. CASE code.now > UIntPtrMax - b
    BY <1>1, <1>3, <1>5, <2>4, <2>5 DEF CodeKnown
  <2>6. CASE ~(code.now > UIntPtrMax - b)
    <3>1. code' = [now |-> cfg.code + b, orig |-> cfg.code]
      BY <1>3, <1>5, <2>2, <2>3, <2>6
    <3>2. CodeKnown'
      BY <1>2, <1>5, <3>1 DEF CodeKnown
    <3> QED
      BY <1>1, <1>3, <1>5, <3>1, <3>2 DEF Sought
  <2> QED
    BY <2>5, <2>6
<1> QED
  BY <1>4, <1>5

LEMMA LibraryFiltered ==
    ASSUME FiltersGiven, Opening, Based, Filtering, Library, ~gaveup'
    PROVE  Filtering'
<1>0. /\ UNCHANGED <<cfg, ug, base, asking>>
      /\ cfg.code \in Nat /\ cfg.filter \in Lib \cup {Exe, NoFilter}
      /\ cfg.filter # NoFilter => cfg.stage >= 3
      /\ cfg.filter = Exe => cfg.code + ExeOffs <= UIntPtrMax
      /\ cfg.filter \in Lib => cfg.filter \notin ExeLike
      /\ Exe \notin Lib /\ NoFilter \notin Lib /\ Exe # NoFilter
  BY CallAssumption DEF FiltersGiven, Based, Library, ReadConfig, ReadConfigFails, ReadBounds, ReadBoundsFails,
     InitStep, game_vars
<1>1. CASE ReadConfig
  <2>1. /\ mh = "readcfg" /\ bt = <<0, 0>> /\ code = [now |-> 0, orig |-> 0] /\ asking = NoFilter
        /\ code' = [code EXCEPT !.now = cfg.code]
        /\ bt' = IF cfg.code = 0 THEN AllAddr ELSE bt
    BY <1>1 DEF ReadConfig, Opening, Filtering
  <2>2. code'.now = cfg.code /\ code'.orig = 0 /\ DOMAIN code' = {"now", "orig"}
    BY <2>1
  <2>3. CASE cfg.filter # NoFilter
    <3>1. mh' = "bounds"
      BY <1>0, <1>1, <2>3 DEF ReadConfig, Notifies
    <3> QED
      BY <1>0, <2>2, <3>1 DEF Filtering
  <2>4. CASE cfg.filter = NoFilter
    <3>1. mh' = "active"
      BY <1>1, <2>4 DEF ReadConfig, Activate
    <3> QED
      BY <1>0, <2>1, <2>2, <2>4, <3>1 DEF Filtering, AllAddr
  <2> QED
    BY <2>3, <2>4
<1>2. CASE ReadBounds
  <2>1. /\ mh = "bounds" /\ toLib = <<Answer>> /\ ug \in {"work", "final", "post"} /\ toUg = <<>>
        /\ cfg.filter # NoFilter /\ asking = NoFilter
        /\ code.now = cfg.code /\ code.orig = 0 /\ DOMAIN code = {"now", "orig"}
        /\ toLib' = <<>> /\ toUg' = <<>>
    BY <1>2 DEF ReadBounds, Opening, Filtering
  <2>2. CASE cfg.filter = Exe
    <3>2. Answer \in Seq(Nat) /\ Len(Answer) = 3 /\ <<Answer[1], Answer[2]>> = Text(ExeOffs) /\ Answer[3] = ExeOffs
      BY <2>2, ExeAnswer
    <3>3. FlattenSeq(toLib) = Answer
      BY <2>1, <3>2, FlattenOne
    <3>4. ~(Len(FlattenSeq(toLib)) < 3)
      <4> HIDE DEF Answer
      <4>1. Len(FlattenSeq(toLib)) = 3
        BY <3>2, <3>3
      <4> QED
        BY <4>1
    <3>5. bt' = <<Answer[1], Answer[2]>> /\ UpdateCfgForPie(Answer[3]) /\ Activate
      BY <1>2, <2>2, <3>3, <3>4 DEF ReadBounds
    <3>6. code' = [code EXCEPT !.now = Add(cfg.code, ExeOffs)]
      BY <2>1, <3>2, <3>5 DEF UpdateCfgForPie
    <3>7. Add(cfg.code, ExeOffs) = Sought(ExeOffs)
      BY <1>0, <2>2, DiscoveryAssumption DEF Add, Fits, Sought
    <3>8. mh' = "active" /\ bt' = Text(ExeOffs) /\ code'.now = Sought(ExeOffs) /\ DOMAIN code' = {"now", "orig"}
      BY <2>1, <3>2, <3>5, <3>6, <3>7 DEF Activate
    <3> QED
      BY <1>0, <2>1, <2>2, <3>8 DEF Filtering, Sought
  <2>3. CASE cfg.filter \in Lib
    <3>1. DiscLib = cfg.filter /\ cfg.filter # Exe /\ Answer = LibBounds(cfg.filter)
      BY <1>0, <2>3 DEF DiscLib, Answer
    <3>2. Answer \in Seq(Nat)
      BY <2>3, <3>1, DiscoveryAssumption DEF LibBounds, AllAddr, Text, Based
    <3>3. FlattenSeq(toLib) = Answer
      BY <2>1, <3>2, FlattenOne
    <3>4. SetBtAddrs(Answer) /\ mh' = "active"
      BY <1>2, <3>1, <3>3 DEF ReadBounds, Activate
    <3>5. CodeKnown
      <4>1. cfg.code = cfg.code + 0
        BY <1>0
      <4>2. code.now \in {cfg.code + b : b \in LoadAddr[cfg.filter] \cup {0}}
        BY <2>1, <4>1
      <4> QED
        BY <2>1, <4>2 DEF CodeKnown
    <3>6. /\ CodeKnown' /\ DOMAIN code' = {"now", "orig"}
          /\ base[cfg.filter] # 0 =>
                bt' = Text(base[cfg.filter]) /\ code'.now = Sought(base[cfg.filter])
      BY <1>0, <2>1, <2>3, <3>1, <3>4, <3>5, BtSet
    <3>7. IsLog(toUg') /\ Unasked'
      BY <2>1 DEF IsLog, Unasked
    <3>8. LibFiltered'
      BY <1>0, <2>1, <2>3, <3>6, <3>7 DEF LibFiltered, Sought
    <3> QED
      BY <1>0, <2>1, <2>3, <3>4, <3>6, <3>8 DEF Filtering
  <2> QED
    BY <1>0, <2>1, <2>2, <2>3
<1>3. CASE ReadConfigFails \/ ReadBoundsFails
  BY <1>3 DEF ReadConfigFails, ReadBoundsFails
<1> QED
  BY <1>1, <1>2, <1>3 DEF Library

LEMMA FilteringQuiet ==
    ASSUME Filtering, UNCHANGED <<cfg, mh, asking, toLib, toUg, bt, code, base>>,
           ug' = ug \/ {ug, ug'} \subseteq {"work", "final", "post"}
    PROVE  Filtering'
<1>1. LibFiltered => LibFiltered'
  BY DEF LibFiltered, CodeKnown, AskedLast, Unasked, LibBounds, Sought
<1> QED
  BY <1>1 DEF Filtering, Sought

LEMMA TrainerFiltered ==
    ASSUME FiltersGiven, Opening, Based, Filtering, Trainer
    PROVE  Filtering'
<1>0. /\ UNCHANGED <<cfg, mh, asking, bt, code, base>>
      /\ cfg.filter \in Lib \cup {Exe, NoFilter}
      /\ cfg.filter \in Lib => cfg.filter \notin ExeLike
      /\ Exe \notin Lib /\ NoFilter \notin Lib /\ Exe # NoFilter
  BY CallAssumption DEF Trainer, SendConfig, HandleAslr, HandleDiscPic, GameGone, KillWorker,
                        lib_vars, game_vars, FiltersGiven, Based
<1>1. CASE GameGone \/ KillWorker
  BY <1>0, <1>1, FilteringQuiet DEF GameGone, KillWorker
<1>2. CASE SendConfig \/ HandleAslr
  <2>1. ug \in {"start", "aslr"} /\ ug' \in {"aslr", "work"}
    BY <1>2 DEF SendConfig, HandleAslr
  <2>2. mh = "active" => cfg.filter = NoFilter
    BY <2>1 DEF Filtering
  <2> QED
    BY <1>0, <2>2 DEF Filtering
<1>3. CASE HandleDiscPic
  <2>1. /\ ug = "work" /\ ug' = ug /\ toUg # <<>> /\ toUg' = Tail(toUg)
        /\ DiscLib \notin {NoFilter, Exe}
        /\ toLib' = IF Head(toUg) = <<"l", DiscLib>> THEN Append(toLib, LibBounds(DiscLib)) ELSE toLib
    BY <1>3 DEF HandleDiscPic, DoesPicWork
  <2>2. mh \notin {"readcfg", "bounds"}
    BY <2>1 DEF Opening
  <2>3. CASE cfg.filter \notin Lib
    <3>1. cfg.filter = NoFilter \/ DiscLib = Exe
      BY <1>0, <2>3, DiscoveryAssumption DEF DiscLib
    <3> QED
      BY <1>0, <2>1, <2>2, <2>3, <3>1 DEF Filtering
  <2>4. CASE cfg.filter \in Lib /\ mh = "active"
    <3>1. DiscLib = cfg.filter /\ LibFiltered
      BY <1>0, <2>4 DEF DiscLib, Filtering
    <3>2. /\ IsLog(toUg) /\ IsLog(toUg') /\ Len(toUg') = Len(toUg) - 1 /\ Len(toUg) \in Nat /\ Len(toUg) >= 1
          /\ \A i \in 1..(Len(toUg) - 1) : toUg'[i] = toUg[i + 1]
          /\ Head(toUg) = toUg[1]
          /\ DOMAIN toUg = 1..Len(toUg) /\ DOMAIN toUg' = 1..(Len(toUg) - 1)
      BY <2>1, <3>1, TailLines, LogDomain DEF LibFiltered
    <3>3. UNCHANGED <<CodeKnown, LibBounds(cfg.filter)>>
      BY <1>0 DEF CodeKnown, LibBounds
    <3>4. ASSUME Unasked
          PROVE  UNCHANGED toLib /\ Unasked'
      BY <1>0, <2>1, <3>1, <3>2, <3>4 DEF Unasked
    <3>5. ASSUME asking = cfg.filter, toLib = <<>>, AskedLast
          PROVE  LibFiltered'
      <4>1. CASE Head(toUg) = <<"l", cfg.filter>>
        <5>1. Len(toUg) = 1
          BY <3>2, <3>5, <4>1 DEF AskedLast
        <5>2. Unasked'
          BY <3>2, <5>1 DEF Unasked
        <5>3. \A x : Append(<<>>, x) = <<x>>
          OBVIOUS
        <5>4. toLib' = <<LibBounds(cfg.filter)'>>
          BY <2>1, <3>1, <3>3, <3>5, <4>1, <5>3
        <5> QED
          BY <1>0, <3>1, <3>2, <3>3, <3>5, <5>2, <5>4 DEF LibFiltered
      <4>2. CASE Head(toUg) # <<"l", cfg.filter>>
        <5>1. toLib' = <<>> /\ Len(toUg) # 1
          BY <2>1, <3>1, <3>2, <3>5, <4>2 DEF AskedLast
        <5>2. toUg' # <<>> /\ Len(toUg') \in 1..(Len(toUg) - 1)
          BY <3>2, <5>1
        <5>3. toUg'[Len(toUg')] = toUg[Len(toUg)]
          BY <3>2, <5>2
        <5>4. AskedLast'
          BY SMTT(30), <1>0, <3>2, <3>5, <5>2, <5>3 DEF AskedLast
        <5> QED
          BY <1>0, <3>1, <3>2, <3>3, <3>5, <5>1, <5>4 DEF LibFiltered
      <4> QED
        BY <4>1, <4>2
    <3>6. LibFiltered'
      <4>1. CASE asking # cfg.filter
        BY <1>0, <3>1, <3>2, <3>3, <3>4, <4>1 DEF LibFiltered, Sought
      <4>2. CASE asking = cfg.filter
        BY <1>0, <3>1, <3>2, <3>3, <3>4, <3>5, <4>2 DEF LibFiltered
      <4> QED
        BY <4>1, <4>2
    <3> QED
      BY <1>0, <2>1, <2>4, <3>6 DEF Filtering
  <2>5. CASE mh # "active"
    BY <1>0, <2>2, <2>5 DEF Filtering
  <2> QED
    BY <2>3, <2>4, <2>5
<1> QED
  BY <1>1, <1>2, <1>3 DEF Trainer

LEMMA DlFiltered ==
    ASSUME FiltersGiven, Based, Filtering, NEW l \in Lib, Dlopen(l) \/ Dlclose(l)
    PROVE  Filtering'
<1>1. /\ mh = "active" /\ asking = NoFilter /\ UNCHANGED <<cfg, ug, mh, toLib, bt, code>>
      /\ base \in [Lib -> Nat] /\ \A k \in Lib \ {l} : base'[k] = base[k]
      /\ \/ Dlclose(l) /\ UNCHANGED <<asking, toUg>> /\ base'[l] = 0
         \/ /\ toUg' = Append(toUg, <<"l", l>>)
            /\ asking' = IF cfg.filter \in Substr[l] THEN l ELSE NoFilter
      /\ NoFilter \notin Lib /\ Exe \notin Lib /\ NoFilter \notin Substr[l]
      /\ cfg.filter \in Lib => cfg.filter \in Substr[cfg.filter]
  BY CallAssumption DEF Dlopen, Dlclose, Runs, Based, lib_vars, out_vars, FiltersGiven
<1>2. CASE cfg.filter \notin Lib
  BY <1>1, <1>2 DEF Filtering, Sought
<1>3. CASE cfg.filter \in Lib
  <2>1. /\ IsLog(toUg) /\ CodeKnown /\ toLib = <<>> /\ Unasked
        /\ base[cfg.filter] # 0 =>
             bt = Text(base[cfg.filter]) /\ code.now = Sought(base[cfg.filter])
    BY <1>1, <1>3 DEF Filtering, LibFiltered
  <2>2. CodeKnown'
    BY <1>1, <2>1 DEF CodeKnown
  <2>3. CASE Dlclose(l) /\ UNCHANGED <<asking, toUg>> /\ base'[l] = 0
    <3>1. Unasked'
      BY <1>1, <2>1, <2>3 DEF Unasked
    <3>2. LibFiltered'
      BY <1>1, <1>3, <2>1, <2>2, <2>3, <3>1 DEF LibFiltered, Sought
    <3> QED
      BY <1>1, <1>3, <3>2 DEF Filtering
  <2>4. CASE toUg' = Append(toUg, <<"l", l>>) /\ asking' = IF cfg.filter \in Substr[l] THEN l ELSE NoFilter
    <3> DEFINE x == <<"l", l>>
    <3>1. /\ IsLog(toUg') /\ Len(toUg') = Len(toUg) + 1 /\ Len(toUg) \in Nat
          /\ \A i \in 1..Len(toUg) : toUg'[i] = toUg[i]
          /\ toUg'[Len(toUg) + 1] = x
          /\ DOMAIN toUg = 1..Len(toUg) /\ DOMAIN toUg' = 1..(Len(toUg) + 1)
      <4> HIDE DEF x
      <4>1. toUg' = Append(toUg, x)
        BY <2>4 DEF x
      <4>2. /\ IsLog(toUg') /\ Len(toUg') = Len(toUg) + 1
            /\ \A i \in 1..Len(toUg) : toUg'[i] = toUg[i]
            /\ toUg'[Len(toUg) + 1] = x
        BY <2>1, <4>1, AppendLines
      <4> QED
        BY <2>1, <4>2, LogDomain
    <3>2. \A i \in 1..Len(toUg) : toUg'[i] # <<"l", cfg.filter>>
      BY <2>1, <3>1 DEF Unasked
    <3>3. CASE l = cfg.filter
      <4>1. asking' = cfg.filter
        BY <1>1, <1>3, <2>4, <3>3
      <4>2. toUg' # <<>>
        BY <3>1
      <4>3. AskedLast'
        BY <1>1, <3>1, <3>2, <3>3, <4>2 DEF AskedLast
      <4>4. LibFiltered'
        BY <1>1, <2>1, <2>2, <3>1, <4>1, <4>3 DEF LibFiltered
      <4> QED
        BY <1>1, <1>3, <4>4 DEF Filtering
    <3>4. CASE l # cfg.filter
      <4>1. asking' # cfg.filter
        BY <1>1, <1>3, <2>4, <3>4
      <4>2. Unasked'
        <5>1. x # <<"l", cfg.filter>>
          BY <3>4
        <5> QED
          BY <1>1, <3>1, <3>2, <5>1 DEF Unasked
      <4>3. base'[cfg.filter] = base[cfg.filter]
        BY <1>1, <1>3, <3>4
      <4>4. LibFiltered'
        BY <1>1, <2>1, <2>2, <3>1, <4>1, <4>2, <4>3 DEF LibFiltered, Sought
      <4> QED
        BY <1>1, <1>3, <4>4 DEF Filtering
    <3> QED
      BY <3>3, <3>4
  <2> QED
    BY <1>1, <2>3, <2>4
<1> QED
  BY <1>2, <1>3

\* The answer has come, or was not waited for any longer.
LEMMA ReplyFiltered ==
    ASSUME FiltersGiven, DiscInv, Opening, Based, Filtering, LibReply \/ LibGiveUp, ~gaveup'
    PROVE  Filtering'
<1>1. /\ game = "run" /\ asking # NoFilter /\ asking' = NoFilter
      /\ UNCHANGED <<cfg, ug, mh, toUg, base>>
      /\ NoFilter \notin Lib /\ Exe \notin Lib /\ Exe # NoFilter
      /\ cfg.filter \in Lib \cup {Exe, NoFilter}
      /\ cfg.filter \in Lib => cfg.filter \notin ExeLike
  BY CallAssumption DEF LibReply, LibGiveUp, Based, game_vars, FiltersGiven
<1>2. mh \notin {"readcfg", "bounds"}
  BY <1>1 DEF Opening
<1>3. CASE mh # "active"
  <2>1. DOMAIN code' = {"now", "orig"}
    BY <1>3 DEF LibReply, LibGiveUp, SetBtAddrs, Filtering
  <2> QED
    BY <1>1, <1>2, <1>3, <2>1 DEF Filtering
<1>4. CASE mh = "active"
  <2>1. cfg.filter # NoFilter /\ ug \in {"work", "final", "post"} /\ DOMAIN code = {"now", "orig"}
    BY <1>1, <1>4 DEF Filtering
  <2>2. CASE cfg.filter = Exe
    <3>1. toLib = <<>>
      BY <1>4, <2>2 DEF Filtering
    <3>2. UNCHANGED <<toLib, bt, code>>
      BY <3>1 DEF LibReply, LibGiveUp
    <3> QED
      BY <1>1, <1>4, <2>1, <2>2, <3>2 DEF Filtering, Sought
  <2>3. CASE cfg.filter \in Lib
    <3>1. LibFiltered
      BY <1>4, <2>3 DEF Filtering
    <3>2. CASE LibReply
      <4>1. toLib # <<>> /\ toLib' = <<>> /\ SetBtAddrs(FlattenSeq(toLib))
        BY <3>2 DEF LibReply
      <4>2. asking = cfg.filter /\ toLib = <<LibBounds(cfg.filter)>> /\ Unasked
        BY <3>1, <4>1 DEF LibFiltered
      <4>3. LibBounds(cfg.filter) \in Seq(Nat)
        BY <2>3, DiscoveryAssumption DEF LibBounds, AllAddr, Text, Based
      <4>4. FlattenSeq(toLib) = LibBounds(cfg.filter)
        BY <4>2, <4>3, FlattenOne
      <4>5. CodeKnown
        BY <3>1 DEF LibFiltered
      <4>6. /\ CodeKnown' /\ DOMAIN code' = {"now", "orig"}
            /\ base[cfg.filter] # 0 =>
                 bt' = Text(base[cfg.filter]) /\ code'.now = Sought(base[cfg.filter])
        BY <1>1, <2>1, <2>3, <4>1, <4>4, <4>5, BtSet
      <4>7. Unasked' /\ IsLog(toUg')
        BY <1>1, <3>1, <4>2 DEF Unasked, LibFiltered
      <4>8. LibFiltered'
        BY <1>1, <2>3, <4>1, <4>6, <4>7 DEF LibFiltered, Sought
      <4> QED
        BY <1>1, <1>4, <2>1, <2>3, <4>6, <4>8 DEF Filtering
    <3>3. CASE LibGiveUp
      <4>1. toLib = <<>> /\ UNCHANGED <<toLib, bt, code>> /\ ~Owes
        BY <3>3 DEF LibGiveUp
      <4>2. DiscLib = cfg.filter
        BY <1>1, <2>3 DEF DiscLib
      <4>3. ug = "work"
        BY <1>1, <2>1 DEF DiscInv, Ended
      <4>4. Unasked
        BY <4>1, <4>2, <4>3 DEF Owes, Unasked
      <4>5. asking # cfg.filter
        <5> SUFFICES ASSUME asking = cfg.filter PROVE FALSE
          OBVIOUS
        <5>1. AskedLast /\ IsLog(toUg)
          BY <3>1, <4>1 DEF LibFiltered
        <5>2. Len(toUg) \in Nat /\ DOMAIN toUg = 1..Len(toUg)
          BY <5>1, LogDomain
        <5>3. Len(toUg) # 0
          <6>1. PICK T : toUg \in Seq(T)
            BY <5>1 DEF IsLog
          <6>2. toUg # <<>>
            BY <5>1 DEF AskedLast
          <6> QED
            BY <6>1, <6>2
        <5> QED
          BY <4>4, <5>1, <5>2, <5>3 DEF AskedLast, Unasked
      <4>6. CodeKnown' /\ Unasked' /\ IsLog(toUg')
        BY <1>1, <3>1, <4>1, <4>4 DEF LibFiltered, CodeKnown, Unasked
      <4>7. LibFiltered'
        BY <1>1, <2>3, <3>1, <4>1, <4>5, <4>6 DEF LibFiltered, Sought
      <4> QED
        BY <1>1, <1>4, <2>1, <2>3, <4>1, <4>7 DEF Filtering
    <3> QED
      BY <3>2, <3>3
  <2> QED
    BY <1>1, <2>1, <2>2, <2>3
<1> QED
  BY <1>3, <1>4

LEMMA FilterInit == Init => FilterInv
  BY PtrInit DEF Init, FilterInv, Filtering, PtrInv, Placed

LEMMA FilterNext ==
    ASSUME FiltersGiven, DiscInv, FilterInv, [Next]_vars
    PROVE  FilterInv'
<1>1. Opening' /\ Based'
  BY OpeningNext, BasedNext DEF FilterInv
<1>2. CASE gaveup
  BY <1>1, <1>2, GaveUpStays DEF FilterInv
<1>3. CASE ~gaveup
  <2> SUFFICES ASSUME ~gaveup' PROVE Filtering'
    BY <1>1 DEF FilterInv
  <2>1. Opening /\ Based /\ Filtering
    BY <1>3 DEF FilterInv
  <2>2. ASSUME UNCHANGED <<cfg, mh, asking, toLib, toUg, bt, code, base, ug>>
        PROVE  Filtering'
    BY <2>1, <2>2, FilteringQuiet
  <2>3. CASE Trainer
    BY <2>1, <2>3, TrainerFiltered
  <2>4. CASE Library
    BY <2>1, <2>4, LibraryFiltered
  <2>5. CASE Worker
    BY <2>2, <2>5 DEF Worker, Pump, PumpNothing, CheckProcess, WakeUp, WorkerStep, lib_vars, game_vars
  <2>6. ASSUME NEW l \in Lib, Dlopen(l) \/ Dlclose(l)
        PROVE  Filtering'
    BY <2>1, <2>6, DlFiltered
  <2>7. CASE LibReply \/ LibGiveUp
    BY <2>1, <2>7, ReplyFiltered
  <2>8. CASE Flush \/ GameEnds
    BY <2>2, <2>8 DEF Flush, GameEnds, lib_vars, game_vars
  <2>9. ASSUME NEW a, NEW s, NEW st, Malloc(a, s, st)
        PROVE  Filtering'
    BY <2>2, <2>9 DEF Malloc
  <2>10. ASSUME NEW a, GameFree(a)
         PROVE  Filtering'
    BY <2>2, <2>10 DEF GameFree
  <2>11. ASSUME NEW c, NEW v, SetPtr(c, v)
         PROVE  Filtering'
    BY <2>2, <2>11 DEF SetPtr
  <2>12. CASE UNCHANGED vars
    BY <2>2, <2>12 DEF vars
  <2> QED
    BY <2>3, <2>4, <2>5, <2>6, <2>7, <2>8, <2>9, <2>10, <2>11, <2>12 DEF Next, Game
<1> QED
  BY <1>2, <1>3

\* Whatever libraries the game opens, closes and opens again elsewhere: while
\* it runs, the code filter is the module that was asked for where it is now,
\* unless an answer that ugtrain owed came too late.
THEOREM FilteredAlways ==
    ASSUME FiltersGiven
    PROVE  Spec => []Filtered
<1>1. FilterInv => Filtered
  <2> SUFFICES ASSUME FilterInv, mh = "active", asking = NoFilter, ~gaveup
               PROVE  /\ cfg.filter = NoFilter => bt = IF cfg.code = 0 THEN AllAddr ELSE <<0, 0>>
                      /\ cfg.filter # NoFilter /\ BaseOf(cfg.filter) # 0 =>
                           /\ bt = Text(BaseOf(cfg.filter))
                           /\ code.now = Sought(BaseOf(cfg.filter))
    BY DEF Filtered, Sought
  <2>1. /\ Filtering /\ cfg.filter \in Lib \cup {Exe, NoFilter}
        /\ Exe \notin Lib /\ NoFilter \notin Lib /\ Exe # NoFilter
    BY CallAssumption DEF FilterInv, Based, FiltersGiven
  <2>2. CASE cfg.filter \in Lib
    BY <2>1, <2>2 DEF Filtering, LibFiltered, BaseOf
  <2>3. CASE cfg.filter \notin Lib
    BY <2>1, <2>3 DEF Filtering, BaseOf
  <2> QED
    BY <2>2, <2>3
<1>2. DiscInv /\ FilterInv /\ [Next]_vars => FilterInv'
  BY FilterNext
<1> QED
  BY <1>1, <1>2, FilterInit, DiscInvAlways, PTL DEF Spec
=============================================================================
