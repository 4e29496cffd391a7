-------------------------- MODULE FifoParserProofs --------------------------
(***************************************************************************)
(* The message parser, for every size of the buffer, every sequence of     *)
(* messages and every file: positions stay in the buffer, and no byte of   *)
(* the FIFO is lost, doubled or reordered as long as every message parses. *)
(***************************************************************************)
EXTENDS FifoParser, VecOpsProofs, SequenceTheorems

-----------------------------------------------------------------------------
(***************************************************************************)
(* The invariant.  Forward, what counts as read is followed by '\0'; after *)
(* a parse error it is not, because parse_err zeroes tmp_ilen bytes and no *)
(* more, but then it ends in the newline of the last message.  Backwards,  *)
(* there is a '\0' at the end of what counts as read at the latest.        *)
(***************************************************************************)
Clean == \A i \in (ilen + 1)..N : ibuf[i] = Nul

Cell == Byte \cup {Nul}
Buf  == [1..N -> Cell]

Typed ==
    /\ reverse \in BOOLEAN /\ err \in BOOLEAN
    /\ stream \in Seq(Byte)
    /\ ibuf \in Buf /\ ibuf[N] = Nul
    /\ ilen \in 0..(N - 1) /\ tmp_ilen \in 0..(N - 1)
    /\ fd_offs \in {ReverseFst, ReverseEof} \cup 0..Len(stream)
    /\ pc \in {"read", "parse", "end"}

Forward ==
    /\ fd_offs = ReverseFst /\ pc # "end"
    /\ todo \in Seq(WholeMessage) /\ out \in Seq(Seq(Byte))
    /\ stream # <<>> => stream[Len(stream)] = NL
    /\ \A i \in 1..ilen : ibuf[i] # Nul
    /\ ~err => Clean
    /\ \/ Clean
       \/ pc = "read" /\ ilen = 0
       \/ pc = "parse" /\ ilen = 0 /\ ibuf[1] = Nul
       \/ pc = "parse" /\ ilen # 0 /\ ibuf[ilen] = NL

Backward == \E v \in 0..ilen : ibuf[v + 1] = Nul /\ (v = ilen => Clean)

ParserInv ==
    \/ reverse /\ err
    \/ Typed /\ IF reverse THEN Backward ELSE Forward

-----------------------------------------------------------------------------
(***************************************************************************)
(* The helpers on positions and on the buffer.                             *)
(***************************************************************************)
\* strlen() of a buffer that holds a '\0' is the position of the first one.
LEMMA StrLenFirst ==
    ASSUME NEW b, NEW k \in 1..N, b[k] = Nul
    PROVE  /\ StrLen(b) \in 0..(k - 1)
           /\ b[StrLen(b) + 1] = Nul
           /\ \A i \in 1..StrLen(b) : b[i] # Nul
<1> DEFINE K == {i \in 1..N : b[i] = Nul}
<1>1. N \in Nat
  BY BufferAssumption
<1>2. PICK j \in K : \A i \in K : j <= i
  <2>1. k \in K
    OBVIOUS
  <2> HIDE DEF K
  <2> QED
    BY <1>1, <2>1, LeastIndex, K \subseteq 1..N DEF K
<1>3. /\ j - 1 \in 0..(N - 1) /\ b[(j - 1) + 1] = Nul /\ j \in 1..N /\ j <= k
      /\ \A i \in 1..(j - 1) : b[i] # Nul
  BY <1>1, <1>2
<1> HIDE DEF K
<1>4. \E n \in 0..(N - 1) : b[n + 1] = Nul /\ \A i \in 1..n : b[i] # Nul
  BY <1>3
<1>5. /\ StrLen(b) \in 0..(N - 1) /\ b[StrLen(b) + 1] = Nul
      /\ \A i \in 1..StrLen(b) : b[i] # Nul
  BY <1>4 DEF StrLen
<1>6. StrLen(b) <= k - 1
  BY <1>1, <1>5
<1> QED
  BY <1>5, <1>6

\* The smallest and the largest of some positions.
LEMMA MinMaxPos ==
    ASSUME NEW n \in Nat, NEW P, P \subseteq 0..(n - 1), P # {}
    PROVE  /\ MinPos(P) \in P /\ \A q \in P : MinPos(P) <= q
           /\ MaxPos(P) \in P /\ \A q \in P : MaxPos(P) >= q
<1>1. \E p \in P : \A q \in P : p <= q
  <2> DEFINE K == {i \in 1..n : i - 1 \in P}
  <2>1. K # {} /\ K \subseteq 1..n
    <3>1. PICK p \in P : TRUE
      OBVIOUS
    <3>2. p + 1 \in 1..n /\ (p + 1) - 1 = p
      BY <3>1
    <3> QED
      BY <3>2
  <2>2. PICK j \in K : \A i \in K : j <= i
    <3> HIDE DEF K
    <3> QED
      BY <2>1, LeastIndex
  <2>3. \A q \in P : q \in Int /\ q + 1 \in 1..n /\ (q + 1) - 1 = q
    OBVIOUS
  <2>4. \A q \in P : q + 1 \in K
    BY <2>3
  <2>5. \A q \in P : j - 1 <= q
    BY <2>2, <2>3, <2>4
  <2> QED
    BY <2>2, <2>5
<1>2. \E p \in P : \A q \in P : p >= q
  <2> DEFINE K == {i \in 1..n : n - i \in P}
  <2>1. K # {} /\ K \subseteq 1..n
    <3>1. PICK p \in P : TRUE
      OBVIOUS
    <3>2. n - p \in 1..n /\ n - (n - p) = p
      BY <3>1
    <3> QED
      BY <3>2
  <2>2. PICK j \in K : \A i \in K : j <= i
    <3> HIDE DEF K
    <3> QED
      BY <2>1, LeastIndex
  <2>3. \A q \in P : q \in Int /\ n - q \in 1..n /\ n - (n - q) = q
    OBVIOUS
  <2>4. \A q \in P : n - q \in K
    BY <2>3
  <2>5. ASSUME NEW q \in P
        PROVE  n - j >= q
    <3>0. q \in Int /\ n - q \in K /\ j \in 1..n
      BY <2>2, <2>3, <2>4
    <3>1. j <= n - q /\ q \in Int /\ j \in Int
      <4> HIDE DEF K
      <4> QED
        BY <2>2, <3>0
    <3> QED
      BY <3>1
  <2> QED
    BY <2>2, <2>5
<1> QED
  BY <1>1, <1>2 DEF MinPos, MaxPos

\* memset() of k bytes.
LEMMA PutZero ==
    ASSUME NEW b \in Buf, NEW p \in Nat, NEW k \in Nat
    PROVE  /\ Put(b, p, Zero(k)) \in Buf
           /\ \A i \in 1..N : Put(b, p, Zero(k))[i] = IF i > p /\ i <= p + k THEN Nul ELSE b[i]
<1>1. N \in Nat
  BY BufferAssumption
<1>2. Len(Zero(k)) = k /\ \A i \in 1..k : Zero(k)[i] = Nul
  BY DEF Zero
<1> DEFINE c == Zero(k)
<1> HIDE DEF c
<1>3. \A i \in 1..N : i > p /\ i <= p + k => i - p \in 1..k /\ c[i - p] = Nul
  BY <1>1, <1>2 DEF c
<1>4. Put(b, p, c) = [i \in 1..N |-> IF i > p /\ i <= p + k THEN c[i - p] ELSE b[i]]
  BY <1>2 DEF c, Put
<1>5. \A i \in 1..N : Put(b, p, c)[i] = IF i > p /\ i <= p + k THEN Nul ELSE b[i]
  BY <1>3, <1>4
<1>6. Put(b, p, c) \in Buf
  BY <1>3, <1>4 DEF Buf, Cell
<1> QED
  BY <1>5, <1>6 DEF c

\* memcpy() and memmove() of the k bytes in d.
LEMMA PutBytes ==
    ASSUME NEW b \in Buf, NEW p \in Nat, NEW d, NEW k \in Nat, Len(d) = k,
           \A i \in 1..k : d[i] \in Cell
    PROVE  /\ Put(b, p, d) \in Buf
           /\ \A i \in 1..N : Put(b, p, d)[i] = IF i > p /\ i <= p + k THEN d[i - p] ELSE b[i]
<1>1. N \in Nat
  BY BufferAssumption
<1>2. Put(b, p, d) = [i \in 1..N |-> IF i > p /\ i <= p + k THEN d[i - p] ELSE b[i]]
  BY DEF Put
<1>3. \A i \in 1..N : i > p /\ i <= p + k => d[i - p] \in Cell
  BY <1>1
<1> QED
  BY <1>2, <1>3 DEF Buf
-----------------------------------------------------------------------------
\* A message lies within what counts as read: it begins behind the newline it
\* needs, and ends with one, in front of any '\0'.
LEMMA MessageRange ==
    ASSUME ibuf \in Buf, NEW v \in 0..(N - 1), ibuf[v + 1] = Nul, Complete
    PROVE  /\ MsgStart \in 0..MsgEnd /\ MsgEnd \in 0..(v - 1)
           /\ (reverse => MsgStart # 0) /\ (~reverse => MsgStart = 0)
           /\ ibuf[MsgEnd + 1] = NL
           /\ \A i \in 1..(MsgEnd + 1) : ibuf[i] \in Byte
           /\ StrLen(ibuf) \in 0..v /\ ibuf[StrLen(ibuf) + 1] = Nul
           /\ \A i \in 1..StrLen(ibuf) : ibuf[i] # Nul
           /\ MsgEnd < StrLen(ibuf)
           /\ \A p \in 0..(StrLen(ibuf) - 1) : ibuf[p + 1] = NL =>
                  IF reverse THEN p <= MsgEnd ELSE p >= MsgEnd
<1> DEFINE L == StrLen(ibuf)
<1>0. N \in Nat
  BY BufferAssumption
<1>1. L \in 0..v /\ ibuf[L + 1] = Nul /\ \A i \in 1..L : ibuf[i] # Nul
  <2>1. v + 1 \in 1..N /\ (v + 1) - 1 = v
    BY <1>0
  <2> QED
    BY <2>1, StrLenFirst
<1> HIDE DEF L
<1>2. NewLines = {p \in 0..(L - 1) : ibuf[p + 1] = NL}
  BY DEF NewLines, At, L
<1>3. L \in Nat /\ NewLines \subseteq 0..(L - 1) /\ NewLines # {}
  <2>1. NewLines # {}
    BY DEF Complete
  <2> QED
    BY <1>1, <1>2, <2>1
<1>4. /\ MinPos(NewLines) \in NewLines /\ \A q \in NewLines : MinPos(NewLines) <= q
      /\ MaxPos(NewLines) \in NewLines /\ \A q \in NewLines : MaxPos(NewLines) >= q
  BY <1>3, MinMaxPos
<1>5. MsgEnd \in NewLines
  BY <1>4 DEF MsgEnd
<1>6. MsgEnd \in 0..(L - 1) /\ ibuf[MsgEnd + 1] = NL
  BY <1>2, <1>5
<1>7. \A i \in 1..(MsgEnd + 1) : ibuf[i] \in Byte
  <2>1. \A i \in 1..(MsgEnd + 1) : i \in 1..L /\ i \in 1..N
    BY <1>0, <1>1, <1>6
  <2> QED
    BY <1>1, <2>1 DEF Buf, Cell
<1>8. \A p \in 0..(L - 1) : ibuf[p + 1] = NL => IF reverse THEN p <= MsgEnd ELSE p >= MsgEnd
  BY <1>2, <1>4 DEF MsgEnd
<1>9. MsgStart \in 0..MsgEnd /\ (reverse => MsgStart # 0) /\ (~reverse => MsgStart = 0)
  <2>1. CASE ~reverse
    BY <1>6, <2>1 DEF MsgStart
  <2>2. CASE reverse
    <3> DEFINE P == NewLines \ {MsgEnd}
    <3>1. P \subseteq 0..(L - 1) /\ P # {}
      BY <1>3, <1>5, <2>2 DEF Complete
    <3>2. MaxPos(P) \in P
      <4> HIDE DEF P
      <4> QED
        BY <1>3, <3>1, MinMaxPos
    <3>3. MaxPos(P) \in 0..(L - 1) /\ MaxPos(P) <= MsgEnd /\ MaxPos(P) # MsgEnd
      BY <1>2, <1>3, <1>4, <2>2, <3>2 DEF MsgEnd
    <3>4. MsgStart = 1 + MaxPos(P)
      BY <2>2 DEF MsgStart
    <3> HIDE DEF P
    <3> QED
      BY <1>6, <2>2, <3>3, <3>4
  <2> QED
    BY <2>1, <2>2
<1> QED
  BY <1>1, <1>6, <1>7, <1>8, <1>9 DEF L

-----------------------------------------------------------------------------
(***************************************************************************)
(* The steps forward.                                                      *)
(***************************************************************************)
\* A read() appends to the buffer; after a parse error it overwrites it, and
\* then the buffer is full or ends in the last newline that was written.
LEMMA ReadForwardInv ==
    ASSUME Typed, ~reverse, Forward, ReadForward
    PROVE  Typed' /\ Forward'
<1> DEFINE n == IF Len(stream) < MaxRead THEN Len(stream) ELSE MaxRead
<1>0. N \in Nat /\ N >= 1 /\ Nul \notin Byte /\ NL \in Byte
  BY BufferAssumption, ByteAssumption
<1>1. /\ n \in Nat /\ n <= Len(stream) /\ n <= N - 1 - ilen
      /\ (n = Len(stream) \/ n = N - 1 - ilen)
      /\ ilen \in Nat /\ ilen <= N - 1 /\ Len(stream) \in Nat
  BY <1>0 DEF Typed, MaxRead
<1>2. UNCHANGED <<reverse, todo, fd_offs, out, err, sent>>
  BY DEF ReadForward
<1>3. CASE n = 0
  <2>1. UNCHANGED vars
    BY <1>2, <1>3 DEF ReadForward, vars
  <2> QED
    BY <2>1 DEF vars, Typed, Forward, Clean
<1>4. CASE n # 0
  <2>1. /\ pc = "read" /\ pc' = "parse"
        /\ ibuf' = Put(ibuf, ilen, SubSeq(stream, 1, n))
        /\ stream' = SubSeq(stream, n + 1, Len(stream))
        /\ ilen' = ilen + n /\ tmp_ilen' = n
    BY <1>4 DEF ReadForward
  <2> HIDE DEF n
  <2>2. stream \in Seq(Byte) /\ ibuf \in Buf /\ ibuf[N] = Nul
    BY DEF Typed
  <2>3. \A i \in 1..n : stream[i] \in Byte
    BY <1>1, <2>2
  <2>4. /\ ibuf' \in Buf
        /\ \A i \in 1..N : ibuf'[i] =
               IF i > ilen /\ i <= ilen + n THEN stream[i - ilen] ELSE ibuf[i]
    <3> DEFINE d == SubSeq(stream, 1, n)
    <3>1. Len(d) = n /\ \A i \in 1..n : d[i] = stream[i] /\ d[i] \in Cell
      BY <1>1, <2>3 DEF Cell
    <3>2. ibuf' = Put(ibuf, ilen, d)
      BY <2>1
    <3> HIDE DEF d
    <3>3. /\ ibuf' \in Buf
          /\ \A i \in 1..N : ibuf'[i] = IF i > ilen /\ i <= ilen + n THEN d[i - ilen] ELSE ibuf[i]
      BY <1>1, <2>2, <3>1, <3>2, PutBytes
    <3>4. \A i \in 1..N : i > ilen /\ i <= ilen + n => d[i - ilen] = stream[i - ilen]
      BY <1>0, <1>1, <3>1
    <3> QED
      BY <3>3, <3>4
  <2>5. /\ stream' \in Seq(Byte)
        /\ stream' # <<>> => n # Len(stream) /\ stream'[Len(stream')] = stream[Len(stream)]
    <3>1. stream' \in Seq(Byte)
      BY <1>1, <2>1, <2>2
    <3>2. Len(stream') = Len(stream) - n
      BY <1>1, <2>1, <2>2
    <3>3. \A i \in 1..(Len(stream) - n) : stream'[i] = stream[i + n]
      BY <1>1, <2>1, <2>2
    <3>4. stream' # <<>> => Len(stream') # 0
      BY <3>1
    <3> QED
      BY <1>1, <3>1, <3>2, <3>3, <3>4
  <2>6. Typed'
    <3>1. ibuf'[N] = Nul
      BY <1>0, <1>1, <2>2, <2>4
    <3>2. ilen' \in 0..(N - 1) /\ tmp_ilen' \in 0..(N - 1)
      BY <1>0, <1>1, <2>1
    <3> QED
      BY <1>2, <2>1, <2>4, <2>5, <3>1, <3>2 DEF Typed, Forward
  <2>7. \A i \in 1..ilen' : ibuf'[i] # Nul
    <3> SUFFICES ASSUME NEW i \in 1..ilen' PROVE ibuf'[i] # Nul
      OBVIOUS
    <3>1. i \in 1..N /\ (i > ilen => i <= ilen + n /\ i - ilen \in 1..n) /\ (i <= ilen => i \in 1..ilen)
      BY <1>0, <1>1, <2>1
    <3>2. i > ilen => ibuf'[i] \in Byte
      BY <2>3, <2>4, <3>1
    <3>3. ~(i > ilen) => i <= ilen /\ ibuf'[i] = ibuf[i]
      BY <1>1, <2>4, <3>1
    <3> QED
      BY <1>0, <3>1, <3>2, <3>3 DEF Forward
  <2>8. Clean => Clean'
    <3> SUFFICES ASSUME Clean, NEW i \in (ilen' + 1)..N PROVE ibuf'[i] = Nul
      BY DEF Clean
    <3>1. i \in 1..N /\ ~(i <= ilen + n) /\ i \in (ilen + 1)..N
      BY <1>0, <1>1, <2>1
    <3> QED
      BY <2>4, <3>1 DEF Clean
  <2>9. Clean' \/ (pc' = "parse" /\ ilen' # 0 /\ ibuf'[ilen'] = NL)
    <3> SUFFICES ASSUME ~Clean PROVE Clean' \/ (pc' = "parse" /\ ilen' # 0 /\ ibuf'[ilen'] = NL)
      BY <2>8
    <3>1. ilen = 0
      BY <2>1 DEF Forward
    <3>2. CASE n = N - 1
      <4>1. \A i \in (ilen' + 1)..N : i = N
        BY <1>0, <2>1, <3>1, <3>2
      <4> QED
        BY <2>6, <4>1 DEF Clean, Typed
    <3>3. CASE n = Len(stream)
      <4>1. n \in 1..N /\ n > 0 /\ n <= 0 + n /\ n - 0 = n
        BY <1>0, <1>1, <1>4
      <4>2. ibuf'[n] = stream[n]
        BY <2>4, <3>1, <4>1
      <4>3. stream # <<>>
        BY <1>4, <3>3
      <4>4. stream[n] = NL
        BY <3>3, <4>3 DEF Forward
      <4>5. ilen' = n /\ n # 0
        BY <1>1, <1>4, <2>1, <3>1
      <4> QED
        BY <2>1, <4>2, <4>4, <4>5
    <3>4. n = N - 1 \/ n = Len(stream)
      BY <1>0, <1>1, <3>1
    <3> QED
      BY <3>2, <3>3, <3>4
  <2>10. stream' # <<>> => stream'[Len(stream')] = NL
    <3>1. stream' # <<>> => stream # <<>>
      BY <1>1, <2>5
    <3> QED
      BY <2>5, <3>1 DEF Forward
  <2> QED
    BY <1>2, <2>1, <2>6, <2>7, <2>8, <2>9, <2>10 DEF Forward
<1> QED
  BY <1>3, <1>4

\* Forward, a message is at the front of what counts as read.
LEMMA ForwardRange ==
    ASSUME Typed, ~reverse, Forward, pc = "parse", Complete
    PROVE  /\ MsgStart = 0 /\ MsgEnd \in 0..(ilen - 1) /\ ibuf[MsgEnd + 1] = NL
           /\ \A i \in 1..(MsgEnd + 1) : ibuf[i] \in Byte
<1>0. /\ N \in Nat /\ N >= 1 /\ ilen \in Nat /\ ilen <= N - 1
      /\ ibuf \in Buf /\ ibuf[N] = Nul /\ Nul \notin Byte /\ NL \in Byte
  BY BufferAssumption, ByteAssumption DEF Typed
<1>1. CASE Clean
  <2>1. ilen \in 0..(N - 1) /\ ibuf[ilen + 1] = Nul
    BY <1>0, <1>1 DEF Clean
  <2> QED
    BY <1>0, <2>1, MessageRange
<1>2. CASE ~Clean /\ ilen = 0
  <2>1. 0 \in 0..(N - 1) /\ ibuf[0 + 1] = Nul
    BY <1>0, <1>2 DEF Forward
  <2>2. MsgEnd \in 0..(0 - 1)
    BY <1>0, <2>1, MessageRange
  <2> QED
    BY <2>2
<1>3. CASE ~Clean /\ ilen # 0
  <2>1. N - 1 \in 0..(N - 1) /\ ibuf[(N - 1) + 1] = Nul
    BY <1>0
  <2> DEFINE L == StrLen(ibuf)
  <2>2. /\ MsgStart = 0 /\ MsgEnd \in Int /\ MsgEnd >= 0 /\ ibuf[MsgEnd + 1] = NL
        /\ \A i \in 1..(MsgEnd + 1) : ibuf[i] \in Byte
        /\ L \in Nat /\ ibuf[L + 1] = Nul
        /\ \A p \in 0..(L - 1) : ibuf[p + 1] = NL => p >= MsgEnd
    BY <1>0, <2>1, MessageRange
  <2> HIDE DEF L
  <2>3. L >= ilen
    <3>1. L + 1 \notin 1..ilen
      BY <2>2 DEF Forward
    <3> QED
      BY <1>0, <2>2, <3>1
  <2>4. ilen - 1 \in 0..(L - 1) /\ (ilen - 1) + 1 = ilen
    BY <1>0, <1>3, <2>2, <2>3
  <2>5. ibuf[ilen] = NL
    BY <1>3 DEF Forward
  <2>6. MsgEnd <= ilen - 1
    BY <2>2, <2>4, <2>5
  <2> QED
    BY <1>0, <2>2, <2>6
<1> QED
  BY <1>1, <1>2, <1>3

\* Forward, the rest moves to the front, and zeroes follow it.
LEMMA RestForward ==
    ASSUME Typed, ~reverse, MsgStart = 0, MsgEnd \in 0..(ilen - 1),
           \A i \in 1..ilen : ibuf[i] \in Cell
    PROVE  /\ Rest \in Buf
           /\ \A i \in 1..N : Rest[i] = IF i <= ilen - (MsgEnd + 1) THEN ibuf[i + (MsgEnd + 1)]
                                        ELSE IF i <= ilen THEN Nul ELSE ibuf[i]
<1> DEFINE n == MsgEnd + 1
           d == SubSeq(ibuf, n + 1, ilen)
           b == Put(ibuf, 0, d)
           k == ilen - n
<1>0. N \in Nat /\ N >= 1 /\ ilen \in Nat /\ ilen <= N - 1 /\ ibuf \in Buf
  BY BufferAssumption DEF Typed
<1>1. n \in Nat /\ n >= 1 /\ n <= ilen /\ n = MsgEnd - MsgStart + 1 /\ k \in Nat
  BY <1>0
<1> HIDE DEF n
<1>2. Len(d) = k /\ \A i \in 1..k : d[i] = ibuf[i + n] /\ d[i] \in Cell
  BY <1>0, <1>1
<1>3. Rest = Put(b, k, Zero(n)) /\ k + n = ilen
  BY <1>0, <1>1 DEF Rest
<1> HIDE DEF d, k
<1>4. /\ b \in Buf
      /\ \A i \in 1..N : b[i] = IF i > 0 /\ i <= 0 + k THEN d[i - 0] ELSE ibuf[i]
  <2>1. \A i \in 1..k : d[i] \in Cell
    BY <1>2
  <2>2. Len(d) = k /\ k \in Nat /\ 0 \in Nat /\ ibuf \in Buf
    BY <1>0, <1>1, <1>2
  <2>3. ASSUME NEW p \in Nat, p = 0
        PROVE  /\ Put(ibuf, p, d) \in Buf
               /\ \A i \in 1..N : Put(ibuf, p, d)[i] = IF i > p /\ i <= p + k THEN d[i - p] ELSE ibuf[i]
    BY <2>1, <2>2, PutBytes
  <2> QED
    BY <2>3
<1>5. \A i \in 1..N : b[i] = IF i <= k THEN ibuf[i + n] ELSE ibuf[i]
  BY <1>0, <1>1, <1>2, <1>4
<1> HIDE DEF b
<1>6. /\ Rest \in Buf
      /\ \A i \in 1..N : Rest[i] = IF i > k /\ i <= k + n THEN Nul ELSE b[i]
  BY <1>0, <1>1, <1>3, <1>4, PutZero
<1>7. \A i \in 1..N : Rest[i] = IF i <= k THEN ibuf[i + n]
                                ELSE IF i <= ilen THEN Nul ELSE ibuf[i]
  BY <1>0, <1>1, <1>3, <1>5, <1>6
<1> QED
  BY <1>6, <1>7 DEF n, k

\* A message that parses leaves the buffer.
LEMMA ParseForwardInv ==
    ASSUME Typed, ~reverse, Forward, ParseMessage
    PROVE  Typed' /\ Forward'
<1> DEFINE n == MsgEnd + 1
<1>0. N \in Nat /\ N >= 1 /\ Nul \notin Byte /\ NL \in Byte
  BY BufferAssumption, ByteAssumption
<1>1. /\ MsgStart = 0 /\ MsgEnd \in 0..(ilen - 1) /\ ibuf[MsgEnd + 1] = NL
      /\ \A i \in 1..(MsgEnd + 1) : ibuf[i] \in Byte
  BY ForwardRange DEF ParseMessage
<1>2. /\ ilen \in Nat /\ ilen <= N - 1 /\ ibuf \in Buf /\ ibuf[N] = Nul
      /\ \A i \in 1..ilen : ibuf[i] \in Cell /\ ibuf[i] # Nul
  BY <1>0 DEF Typed, Forward, Buf
<1>3. /\ n \in Nat /\ n >= 1 /\ n <= ilen /\ n = MsgEnd - MsgStart + 1
  BY <1>1, <1>2
<1>4. /\ ibuf' \in Buf
      /\ \A i \in 1..N : ibuf'[i] = IF i <= ilen - n THEN ibuf[i + n]
                                    ELSE IF i <= ilen THEN Nul ELSE ibuf[i]
  BY <1>1, <1>2, RestForward DEF ParseMessage
<1>5. /\ tmp_ilen' = n /\ ilen' = ilen - n /\ out' = Append(out, Message)
      /\ pc = "parse" /\ UNCHANGED <<reverse, todo, stream, fd_offs, pc, err, sent>>
  BY <1>3 DEF ParseMessage
<1>6. Message \in Seq(Byte)
  <2>1. Message = SubSeq(ibuf, 1, MsgEnd)
    BY <1>1 DEF Message
  <2>2. SubSeq(ibuf, 1, MsgEnd) = [i \in 1..MsgEnd |-> ibuf[i]]
    BY <1>1, <1>2 DEF SubSeq
  <2>3. \A i \in 1..MsgEnd : ibuf[i] \in Byte
    BY <1>1, <1>2
  <2> QED
    BY <1>1, <1>2, <2>1, <2>2, <2>3
<1> HIDE DEF n
<1>7. Typed'
  <2>1. ibuf'[N] = Nul
    BY <1>0, <1>2, <1>3, <1>4
  <2>2. ilen' \in 0..(N - 1) /\ tmp_ilen' \in 0..(N - 1)
    BY <1>0, <1>2, <1>3, <1>5
  <2> QED
    BY <1>4, <1>5, <2>1, <2>2 DEF Typed
<1>8. \A i \in 1..ilen' : ibuf'[i] # Nul
  <2> SUFFICES ASSUME NEW i \in 1..ilen' PROVE ibuf'[i] # Nul
    OBVIOUS
  <2>1. i \in 1..N /\ i <= ilen - n /\ i + n \in 1..ilen
    BY <1>0, <1>2, <1>3, <1>5
  <2> QED
    BY <1>2, <1>4, <2>1
<1>9. Clean => Clean'
  <2> SUFFICES ASSUME Clean, NEW i \in (ilen' + 1)..N PROVE ibuf'[i] = Nul
    BY DEF Clean
  <2>1. i \in 1..N /\ ~(i <= ilen - n) /\ (~(i <= ilen) => i \in (ilen + 1)..N)
    BY <1>0, <1>2, <1>3, <1>5
  <2> QED
    BY <1>4, <2>1 DEF Clean
<1>10. ilen' = 0 => ibuf'[1] = Nul
  BY <1>0, <1>2, <1>3, <1>4, <1>5
<1>11. ilen' # 0 /\ ilen # 0 /\ ibuf[ilen] = NL => ibuf'[ilen'] = NL
  <2>1. ilen' # 0 => ilen' \in 1..N /\ ilen' <= ilen - n /\ ilen' + n = ilen
    BY <1>0, <1>2, <1>3, <1>5
  <2> QED
    BY <1>4, <2>1
<1>12. ilen # 0
  BY <1>3
<1>13. Append(out, Message) \in Seq(Seq(Byte))
  BY <1>6 DEF Forward
<1> QED
  BY <1>5, <1>7, <1>8, <1>9, <1>10, <1>11, <1>12, <1>13 DEF Forward

\* One that does not is forgotten together with what is behind it.
LEMMA ErrForwardInv ==
    ASSUME Typed, ~reverse, Forward, ParseErr
    PROVE  Typed' /\ Forward'
<1>0. N \in Nat /\ N >= 1
  BY BufferAssumption
<1>1. /\ ibuf' = Put(ibuf, 0, Zero(tmp_ilen)) /\ ilen' = 0 /\ err' = TRUE /\ pc' = "read"
      /\ UNCHANGED <<reverse, todo, stream, fd_offs, tmp_ilen, out, sent>>
  BY DEF ParseErr
<1>2. ibuf \in Buf /\ ibuf[N] = Nul /\ tmp_ilen \in Nat
  BY <1>0 DEF Typed
<1>3. /\ ibuf' \in Buf
      /\ \A i \in 1..N : ibuf'[i] = IF i > 0 /\ i <= 0 + tmp_ilen THEN Nul ELSE ibuf[i]
  BY SMTT(30), <1>1, <1>2, PutZero
<1>4. ibuf'[N] = Nul
  BY <1>0, <1>2, <1>3
<1>5. Typed'
  BY <1>0, <1>1, <1>3, <1>4 DEF Typed
<1> QED
  BY <1>1, <1>5 DEF Forward

\* The game writes whole messages.
LEMMA WriteInv ==
    ASSUME Typed, Forward, Write
    PROVE  Typed' /\ Forward' /\ ~reverse
<1>1. /\ ~reverse /\ todo # <<>> /\ stream' = stream \o Head(todo) /\ todo' = Tail(todo)
      /\ UNCHANGED <<reverse, fd_offs, ibuf, ilen, tmp_ilen, pc, out, err, sent>>
  BY DEF Write
<1>2. Head(todo) \in WholeMessage /\ Tail(todo) \in Seq(WholeMessage)
  BY <1>1 DEF Forward
<1> DEFINE h == Head(todo)
<1> HIDE DEF h
<1>3. h \in Seq(Byte) /\ h # <<>> /\ h[Len(h)] = NL /\ stream' = stream \o h
  BY <1>1, <1>2 DEF WholeMessage, h
<1>4. stream \in Seq(Byte)
  BY DEF Typed
<1>5. stream' \in Seq(Byte) /\ stream'[Len(stream')] = NL
  <2>1. Len(h) \in Nat /\ Len(h) >= 1 /\ Len(stream) \in Nat
    BY <1>3, <1>4
  <2>2. Len(stream \o h) = Len(stream) + Len(h)
    BY <1>3, <1>4
  <2>3. (stream \o h)[Len(stream) + Len(h)] = h[Len(h)]
    BY <1>3, <1>4, <2>1
  <2>4. stream \o h \in Seq(Byte)
    BY <1>3, <1>4
  <2> QED
    BY <1>3, <2>2, <2>3, <2>4
<1>6. Typed'
  BY <1>1, <1>5 DEF Typed, Forward
<1>7. Clean' <=> Clean
  BY <1>1 DEF Clean
<1> QED
  BY <1>1, <1>2, <1>5, <1>6, <1>7 DEF Forward

-----------------------------------------------------------------------------
(***************************************************************************)
(* The steps backwards.                                                    *)
(***************************************************************************)
\* The buffer after a read: the bytes of the file, then the rest, then what
\* was behind it.
LEMMA ReadReverseBuf ==
    ASSUME Typed, NEW k \in Nat, NEW from \in Nat, k <= N - 1 - ilen,
           fd_offs \in Nat, from + k = fd_offs,
           ibuf' = Put(Put(ibuf, k, SubSeq(ibuf, 1, ilen)), 0, SubSeq(stream, from + 1, fd_offs))
    PROVE  /\ ibuf' \in Buf
           /\ \A i \in 1..N : ibuf'[i] = IF i <= k THEN stream[from + i]
                                         ELSE IF i <= k + ilen THEN ibuf[i - k] ELSE ibuf[i]
<1> DEFINE d == SubSeq(ibuf, 1, ilen)
           e == SubSeq(stream, from + 1, fd_offs)
           b == Put(ibuf, k, d)
<1>0. /\ N \in Nat /\ N >= 1 /\ ilen \in Nat /\ ilen <= N - 1 /\ ibuf \in Buf
      /\ stream \in Seq(Byte) /\ fd_offs <= Len(stream) /\ Len(stream) \in Nat
  BY BufferAssumption DEF Typed, ReverseFst, ReverseEof
<1>1. Len(d) = ilen /\ \A i \in 1..ilen : d[i] = ibuf[i] /\ d[i] \in Cell
  BY <1>0 DEF Buf
<1>2. Len(e) = k /\ \A i \in 1..k : e[i] = stream[from + i] /\ e[i] \in Cell
  <2>1. \A i \in 1..k : from + i \in 1..Len(stream)
    BY <1>0
  <2>2. \A i \in 1..k : stream[from + i] \in Byte
    BY <1>0, <2>1
  <2>3. e = [i \in 1..k |-> stream[from + i]]
    <3>1. fd_offs - (from + 1) + 1 = k
      BY <1>0
    <3>2. e = [i \in 1..(fd_offs - (from + 1) + 1) |-> stream[i + (from + 1) - 1]]
      BY DEF SubSeq
    <3>3. \A i \in 1..k : i + (from + 1) - 1 = from + i
      OBVIOUS
    <3> QED
      BY <3>1, <3>2, <3>3
  <2>4. Len(e) = k /\ \A i \in 1..k : e[i] = stream[from + i]
    BY <2>3
  <2> QED
    BY <2>2, <2>4 DEF Cell
<1>3. ibuf' = Put(b, 0, e)
  OBVIOUS
<1> HIDE DEF d, e
<1>4. /\ b \in Buf
      /\ \A i \in 1..N : b[i] = IF i > k /\ i <= k + ilen THEN d[i - k] ELSE ibuf[i]
  BY <1>0, <1>1, PutBytes
<1>5. \A i \in 1..N : b[i] = IF i > k /\ i <= k + ilen THEN ibuf[i - k] ELSE ibuf[i]
  <2>1. \A i \in 1..N : i > k /\ i <= k + ilen => d[i - k] = ibuf[i - k]
    BY <1>0, <1>1
  <2> QED
    BY <1>4, <2>1
<1> HIDE DEF b
<1>6. ASSUME NEW p \in Nat, p = 0
      PROVE  /\ Put(b, p, e) \in Buf
             /\ \A i \in 1..N : Put(b, p, e)[i] = IF i > p /\ i <= p + k THEN e[i - p] ELSE b[i]
  <2>1. \A i \in 1..k : e[i] \in Cell
    BY <1>2
  <2> QED
    BY <1>2, <1>4, <2>1, PutBytes
<1>7. /\ ibuf' \in Buf
      /\ \A i \in 1..N : ibuf'[i] = IF i <= k THEN e[i] ELSE b[i]
  BY <1>0, <1>3, <1>6
<1>8. \A i \in 1..N : i <= k => e[i] = stream[from + i]
  BY <1>0, <1>2
<1>9. \A i \in 1..N : ~(i <= k) => b[i] = IF i <= k + ilen THEN ibuf[i - k] ELSE ibuf[i]
  BY <1>0, <1>5
<1> QED
  BY <1>7, <1>8, <1>9

\* Reading in front of the rest moves its '\0' with it.
LEMMA ReadReverseInv ==
    ASSUME Typed, reverse, Backward, ReadReverse
    PROVE  Typed' /\ Backward'
<1> DEFINE k == IF fd_offs > MaxRead THEN MaxRead ELSE fd_offs
           from == fd_offs - k
<1>0. /\ N \in Nat /\ N >= 1 /\ ilen \in Nat /\ ilen <= N - 1 /\ ibuf \in Buf /\ ibuf[N] = Nul
  BY BufferAssumption DEF Typed
<1>1. /\ fd_offs \in Nat /\ fd_offs <= Len(stream)
      /\ UNCHANGED <<reverse, todo, stream, out, err, sent>>
  BY DEF ReadReverse, Typed, ReverseFst, ReverseEof
<1>2. k \in Nat /\ from \in Nat /\ k <= N - 1 - ilen /\ from + k = fd_offs
  BY <1>0, <1>1 DEF MaxRead
<1>3. CASE k = 0
  <2>1. pc' = "end" /\ UNCHANGED <<fd_offs, ibuf, ilen, tmp_ilen>>
    BY <1>3 DEF ReadReverse
  <2> QED
    BY <1>1, <2>1 DEF Typed, Backward, Clean
<1>4. CASE k # 0
  <2>1. /\ ibuf' = Put(Put(ibuf, k, SubSeq(ibuf, 1, ilen)), 0, SubSeq(stream, from + 1, fd_offs))
        /\ fd_offs' = IF fd_offs > MaxRead THEN from ELSE ReverseEof
        /\ ilen' = ilen + k /\ tmp_ilen' = k /\ pc' = "parse"
    BY <1>4 DEF ReadReverse
  <2> HIDE DEF k, from
  <2>2. /\ ibuf' \in Buf
        /\ \A i \in 1..N : ibuf'[i] = IF i <= k THEN stream[from + i]
                                      ELSE IF i <= k + ilen THEN ibuf[i - k] ELSE ibuf[i]
    BY <1>1, <1>2, <2>1, ReadReverseBuf
  <2>3. Typed'
    <3>1. ibuf'[N] = Nul
      BY <1>0, <1>2, <2>2
    <3>2. ilen' \in 0..(N - 1) /\ tmp_ilen' \in 0..(N - 1)
      BY <1>0, <1>2, <2>1
    <3>3. fd_offs' \in {ReverseFst, ReverseEof} \cup 0..Len(stream')
      <4>1. from \in 0..Len(stream')
        BY <1>1, <1>2 DEF Typed
      <4> QED
        BY <2>1, <4>1
    <3> QED
      BY <1>1, <2>1, <2>2, <3>1, <3>2, <3>3 DEF Typed
  <2>4. PICK v \in 0..ilen : ibuf[v + 1] = Nul /\ (v = ilen => Clean)
    BY DEF Backward
  <2> DEFINE w == v + k
  <2>5. w \in 0..ilen' /\ (w = ilen' <=> v = ilen)
    BY <1>0, <1>2, <2>1
  <2>6. v = ilen => Clean'
    <3> SUFFICES ASSUME v = ilen, NEW i \in (ilen' + 1)..N PROVE ibuf'[i] = Nul
      BY DEF Clean
    <3>1. i \in 1..N /\ ~(i <= k) /\ ~(i <= k + ilen) /\ i \in (ilen + 1)..N
      BY <1>0, <1>2, <2>1
    <3> QED
      BY <2>2, <2>4, <3>1 DEF Clean
  <2>7. ibuf'[w + 1] = Nul
    <3>1. w + 1 \in 1..N /\ ~(w + 1 <= k) /\ (w + 1) - k = v + 1
      BY <1>0, <1>2
    <3>2. CASE v = ilen
      <4>1. w + 1 \in (ilen' + 1)..N
        BY <1>0, <1>2, <2>1, <3>1, <3>2
      <4> QED
        BY <2>6, <3>2, <4>1 DEF Clean
    <3>3. CASE v # ilen
      <4>1. w + 1 <= k + ilen
        BY <1>0, <1>2, <3>3
      <4> QED
        BY <2>2, <2>4, <3>1, <4>1
    <3> QED
      BY <3>2, <3>3
  <2> HIDE DEF w
  <2> QED
    BY <2>3, <2>5, <2>6, <2>7 DEF Backward
<1> QED
  BY <1>3, <1>4

\* Backwards, a message is zeroed; what counts as read then ends where it
\* began, or later.
LEMMA ParseReverseInv ==
    ASSUME Typed, reverse, Backward, ParseMessage
    PROVE  Typed' /\ Backward'
<1> DEFINE n == MsgEnd - MsgStart + 1
           p == MsgStart
<1>0. /\ N \in Nat /\ N >= 1 /\ ilen \in Nat /\ ilen <= N - 1 /\ ibuf \in Buf /\ ibuf[N] = Nul
  BY BufferAssumption DEF Typed
<1>1. PICK v \in 0..ilen : ibuf[v + 1] = Nul /\ (v = ilen => Clean)
  BY DEF Backward
<1>2. p \in 0..MsgEnd /\ MsgEnd \in 0..(v - 1)
  <2>1. v \in 0..(N - 1)
    BY <1>0
  <2> QED
    BY <1>0, <1>1, <2>1, MessageRange DEF ParseMessage
<1>3. /\ ibuf' = Put(ibuf, p, Zero(n)) /\ tmp_ilen' = n /\ ilen' = ilen - n
      /\ UNCHANGED <<reverse, todo, stream, fd_offs, pc, err, sent>>
  BY DEF ParseMessage, Rest
<1>4. p \in Nat /\ n \in Nat /\ n >= 1 /\ p + n = MsgEnd + 1 /\ p + n <= v
  BY <1>0, <1>2
<1> HIDE DEF p, n
<1>5. /\ ibuf' \in Buf
      /\ \A i \in 1..N : ibuf'[i] = IF i > p /\ i <= p + n THEN Nul ELSE ibuf[i]
  <2>1. /\ Put(ibuf, p, Zero(n)) \in Buf
        /\ \A i \in 1..N : Put(ibuf, p, Zero(n))[i] = IF i > p /\ i <= p + n THEN Nul ELSE ibuf[i]
    BY <1>0, <1>4, PutZero
  <2> QED
    BY <1>3, <2>1
<1>6. Typed'
  <2>1. ibuf'[N] = Nul
    BY <1>0, <1>4, <1>5
  <2>2. ilen' \in 0..(N - 1) /\ tmp_ilen' \in 0..(N - 1)
    BY <1>0, <1>3, <1>4
  <2> QED
    BY <1>3, <1>5, <2>1, <2>2 DEF Typed
<1>7. p \in 0..ilen' /\ ibuf'[p + 1] = Nul
  <2>1. p \in 0..ilen' /\ p + 1 \in 1..N /\ p + 1 > p /\ p + 1 <= p + n
    BY <1>0, <1>3, <1>4
  <2> QED
    BY <1>5, <2>1
<1>8. p = ilen' => Clean'
  <2> SUFFICES ASSUME p = ilen', NEW i \in (ilen' + 1)..N PROVE ibuf'[i] = Nul
    BY DEF Clean
  <2>1. v = ilen /\ p + n = ilen
    BY <1>0, <1>3, <1>4
  <2>2. i \in 1..N /\ i > p /\ (~(i <= p + n) => i \in (ilen + 1)..N)
    BY <1>0, <1>3, <1>4, <2>1
  <2> QED
    BY <1>1, <1>5, <2>1, <2>2 DEF Clean
<1> QED
  BY <1>6, <1>7, <1>8 DEF Backward

-----------------------------------------------------------------------------
(***************************************************************************)
(* Positions stay in the buffer.                                           *)
(***************************************************************************)
LEMMA ParserInit == Init => ParserInv
<1> SUFFICES ASSUME Init PROVE ParserInv
  OBVIOUS
<1>0. N \in Nat /\ N >= 1 /\ Nul \notin Byte
  BY BufferAssumption, ByteAssumption
<1>1. /\ fd_offs = ReverseFst /\ ibuf = Zero(N) /\ ilen = 0 /\ tmp_ilen = 0 /\ pc = "read"
      /\ out = <<>> /\ err = FALSE /\ reverse \in BOOLEAN
  BY DEF Init
<1>2. ibuf \in Buf /\ \A i \in 1..N : ibuf[i] = Nul
  BY <1>0, <1>1 DEF Zero, Buf, Cell
<1>3. stream \in Seq(Byte) /\ (~reverse => stream = <<>> /\ todo \in Seq(WholeMessage))
  <2>1. CASE reverse
    <3>1. stream \in Files
      BY <2>1 DEF Init
    <3> QED
      BY <2>1, <3>1, InputAssumption
  <2>2. CASE ~reverse
    <3>1. todo \in Sends /\ stream = <<>>
      BY <2>2 DEF Init
    <3>2. <<>> \in Seq(Byte)
      OBVIOUS
    <3> QED
      BY <3>1, <3>2, InputAssumption
  <2> QED
    BY <2>1, <2>2
<1>4. Typed
  <2>1. ibuf[N] = Nul /\ ilen \in 0..(N - 1) /\ tmp_ilen \in 0..(N - 1)
    BY <1>0, <1>1, <1>2
  <2> QED
    BY <1>1, <1>2, <1>3, <2>1 DEF Typed
<1>5. Clean
  BY <1>0, <1>1, <1>2 DEF Clean
<1>6. reverse => Backward
  <2>1. 0 \in 0..ilen /\ ibuf[0 + 1] = Nul
    BY <1>0, <1>1, <1>2
  <2> QED
    BY <1>5, <2>1 DEF Backward
<1>7. ~reverse => Forward
  BY <1>0, <1>1, <1>3, <1>5 DEF Forward
<1> QED
  BY <1>4, <1>6, <1>7 DEF ParserInv

LEMMA ParserNext == ParserInv /\ [Next]_vars => ParserInv'
<1> SUFFICES ASSUME ParserInv, [Next]_vars PROVE ParserInv'
  OBVIOUS
<1>1. CASE reverse /\ err
  BY <1>1 DEF ParserInv, Next, vars, Write, ReadForward, ReadStackEnd, ReadReverse, ReadEof,
              ParseEnd, ParseMessage, ParseErr
<1>2. CASE ~(reverse /\ err)
  <2>0. Typed /\ (reverse => Backward) /\ (~reverse => Forward)
    BY <1>2 DEF ParserInv
  <2>1. CASE Write
    BY <2>0, <2>1, WriteInv DEF ParserInv, Write
  <2>2. CASE ReadForward
    BY <2>0, <2>2, ReadForwardInv DEF ParserInv, ReadForward
  <2>3. CASE ReadStackEnd
    <3>1. Typed' /\ Backward' /\ reverse' = reverse /\ reverse
      BY <2>0, <2>3 DEF ReadStackEnd, Typed, Backward, Clean
    <3> QED
      BY <3>1 DEF ParserInv
  <2>4. CASE ReadReverse
    BY <2>0, <2>4, ReadReverseInv DEF ParserInv, ReadReverse
  <2>5. CASE ReadEof
    <3>1. Typed' /\ Backward' /\ reverse' = reverse /\ reverse
      BY <2>0, <2>5 DEF ReadEof, Typed, Backward, Clean
    <3> QED
      BY <3>1 DEF ParserInv
  <2>6. CASE ParseEnd
    <3>1. /\ pc = "parse" /\ ~Complete /\ pc' = "read"
          /\ UNCHANGED <<reverse, todo, stream, fd_offs, ibuf, ilen, tmp_ilen, out, err, sent>>
      BY <2>6 DEF ParseEnd
    <3>2. Typed' /\ (Clean' <=> Clean)
      BY <2>0, <3>1 DEF Typed, Clean
    <3>3. CASE reverse
      <4>1. Backward'
        BY <2>0, <3>1, <3>2, <3>3 DEF Backward
      <4> QED
        BY <3>1, <3>2, <3>3, <4>1 DEF ParserInv
    <3>4. CASE ~reverse
      <4>1. ilen = 0 \/ Clean
        <5> SUFFICES ASSUME ilen # 0, ibuf[ilen] = NL, ~Clean PROVE FALSE
          BY <2>0, <3>1, <3>4 DEF Forward
        <5> DEFINE L == StrLen(ibuf)
        <5>0. /\ N \in Nat /\ N >= 1 /\ ilen \in Nat /\ ilen <= N - 1 /\ ibuf[N] = Nul
          BY <2>0, BufferAssumption DEF Typed
        <5>1. L \in Nat /\ ibuf[L + 1] = Nul
          <6>1. N \in 1..N
            BY <5>0
          <6> QED
            BY <5>0, <6>1, StrLenFirst
        <5>2. L >= ilen
          <6>1. L + 1 \notin 1..ilen
            <7> HIDE DEF L
            <7> QED
              BY <2>0, <3>4, <5>1 DEF Forward
          <6> HIDE DEF L
          <6> QED
            BY <5>0, <5>1, <6>1
        <5> HIDE DEF L
        <5>3. ilen - 1 \in 0..(L - 1) /\ (ilen - 1) + 1 = ilen
          BY <5>0, <5>1, <5>2
        <5>4. ilen - 1 \in NewLines
          BY <5>3 DEF NewLines, At, L
        <5> QED
          BY <3>1, <3>4, <5>4 DEF Complete
      <4>2. Forward'
        BY <2>0, <3>1, <3>2, <3>4, <4>1 DEF Forward
      <4> QED
        BY <3>1, <3>2, <3>4, <4>2 DEF ParserInv
    <3> QED
      BY <3>3, <3>4
  <2>7. CASE ParseMessage
    <3>1. reverse' = reverse
      BY <2>7 DEF ParseMessage
    <3> QED
      BY <2>0, <2>7, <3>1, ParseForwardInv, ParseReverseInv DEF ParserInv
  <2>8. CASE ParseErr
    <3>1. reverse' = reverse /\ err' = TRUE
      BY <2>8 DEF ParseErr
    <3> QED
      BY <2>0, <2>8, <3>1, ErrForwardInv DEF ParserInv
  <2>9. CASE UNCHANGED vars
    <3>1. Typed' /\ (Clean' <=> Clean) /\ reverse' = reverse
      BY <2>0, <2>9 DEF vars, Typed, Clean
    <3>2. (reverse => Backward') /\ (~reverse => Forward')
      BY <2>0, <2>9, <3>1 DEF vars, Backward, Forward
    <3> QED
      BY <3>1, <3>2 DEF ParserInv
  <2> QED
    BY <2>1, <2>2, <2>3, <2>4, <2>5, <2>6, <2>7, <2>8, <2>9 DEF Next
<1> QED
  BY <1>1, <1>2

LEMMA ParserInvAlways == Spec => []ParserInv
BY ParserInit, ParserNext, PTL DEF Spec

\* Whatever is written, in whatever pieces it is read, and also after parse
\* errors: forward, ilen and tmp_ilen stay in the buffer and its last byte
\* stays 0.  Backwards this holds until a parse error; after one it does not
\* (see the run on malformed files).
THEOREM ParserTypeAlways == Spec => []((reverse => ~err) => ParserTypeOK)
<1>1. ParserInv => ((reverse => ~err) => ParserTypeOK)
  BY BufferAssumption DEF ParserInv, Typed, ParserTypeOK, Buf
<1> QED
  BY <1>1, ParserInvAlways, PTL

\* The same for what "always '\0' at end" says: no read() may fill the last
\* byte, and none is for less than nothing.
THEOREM NulAtEndAlways == Spec => []((reverse => ~err) => AlwaysNulAtEnd)
<1>1. ParserInv => ((reverse => ~err) => AlwaysNulAtEnd)
  BY BufferAssumption DEF ParserInv, Typed, AlwaysNulAtEnd, MaxRead
<1> QED
  BY <1>1, ParserInvAlways, PTL

-----------------------------------------------------------------------------
(***************************************************************************)
(* Nothing is lost between the game and the callbacks.                     *)
(***************************************************************************)
Lined(s) == [i \in DOMAIN s |-> Append(s[i], NL)]
Parsed   == FlattenSeq(Lined(out))
Read     == SubSeq(ibuf, 1, ilen)

Balance   == Cat(Cat(Cat(Parsed, Read), stream), FlattenSeq(todo)) = sent
ConserveInv == ParserInv /\ (~reverse /\ ~err => Balance)

\* A sequence is what is before a position and what is behind it.
LEMMA CatSplit ==
    ASSUME NEW T, NEW s \in Seq(T), NEW n \in 0..Len(s)
    PROVE  /\ SubSeq(s, 1, n) \in Seq(T) /\ SubSeq(s, n + 1, Len(s)) \in Seq(T)
           /\ Cat(SubSeq(s, 1, n), SubSeq(s, n + 1, Len(s))) = s
<1> DEFINE a == SubSeq(s, 1, n)
           b == SubSeq(s, n + 1, Len(s))
           r == Cat(a, b)
<1>1. a \in Seq(T) /\ Len(a) = n /\ \A i \in 1..n : a[i] = s[i]
  OBVIOUS
<1>2. b \in Seq(T) /\ Len(b) = Len(s) - n /\ \A i \in 1..(Len(s) - n) : b[i] = s[i + n]
  OBVIOUS
<1> HIDE DEF a, b
<1>3. /\ r \in Seq(T) /\ Len(r) = Len(s)
      /\ \A i \in 1..Len(s) : r[i] = IF i <= n THEN a[i] ELSE b[i - n]
  BY <1>1, <1>2 DEF Cat
<1> HIDE DEF r
<1>4. \A i \in 1..Len(s) : r[i] = s[i]
  <2> SUFFICES ASSUME NEW i \in 1..Len(s) PROVE r[i] = s[i]
    OBVIOUS
  <2>1. CASE i <= n
    BY <1>1, <1>3, <2>1
  <2>2. CASE ~(i <= n)
    <3>1. i - n \in 1..(Len(s) - n) /\ (i - n) + n = i
      BY <2>2
    <3> QED
      BY <1>2, <1>3, <2>2, <3>1
  <2> QED
    BY <2>1, <2>2
<1>5. r = s
  BY <1>3, <1>4
<1> QED
  BY <1>1, <1>2, <1>5 DEF a, b, r

LEMMA CatShift ==
    ASSUME NEW T, NEW x \in Seq(T), NEW a \in Seq(T), NEW b \in Seq(T), NEW c \in Seq(T)
    PROVE  Cat(Cat(x, Cat(a, b)), c) = Cat(Cat(x, a), Cat(b, c))
<1> DEFINE U == Seq(T)
<1>1. \A p, q, r \in U : Cat(p, q) \in U /\ Cat(Cat(p, q), r) = Cat(p, Cat(q, r))
  BY CatAssociative
<1> HIDE DEF U
<1>2. x \in U /\ a \in U /\ b \in U /\ c \in U
  BY DEF U
<1> QED
  BY <1>1, <1>2

LEMMA ConserveTypes ==
    ASSUME ParserInv, ~reverse
    PROVE  /\ Typed /\ Forward
           /\ Lined(out) \in Seq(Seq(Byte)) /\ Parsed \in Seq(Byte)
           /\ Read \in Seq(Byte) /\ Len(Read) = ilen /\ \A i \in 1..ilen : Read[i] = ibuf[i]
           /\ todo \in Seq(Seq(Byte)) /\ FlattenSeq(todo) \in Seq(Byte)
<1>1. Typed /\ Forward
  BY DEF ParserInv
<1>2. \A s \in Seq(Seq(Byte)) : FlattenSeq(s) \in Seq(Byte)
  <2>1. <<>> \in Seq(Byte)
    OBVIOUS
  <2> QED
    BY <2>1, FlattenAppend
<1>3. Lined(out) \in Seq(Seq(Byte))
  <2>1. out \in Seq(Seq(Byte)) /\ NL \in Byte
    BY <1>1, ByteAssumption DEF Forward
  <2>2. \A i \in 1..Len(out) : Append(out[i], NL) \in Seq(Byte)
    BY <2>1
  <2>3. Lined(out) = [i \in 1..Len(out) |-> Append(out[i], NL)]
    BY <2>1 DEF Lined
  <2> QED
    BY <2>1, <2>2, <2>3
<1>4. todo \in Seq(Seq(Byte))
  <2>1. todo \in Seq(WholeMessage) /\ WholeMessage \subseteq Seq(Byte)
    BY <1>1 DEF Forward, WholeMessage
  <2> QED
    BY <2>1
<1>5. Read \in Seq(Byte) /\ Len(Read) = ilen /\ \A i \in 1..ilen : Read[i] = ibuf[i]
  <2>1. ilen \in Nat /\ ilen <= N /\ \A i \in 1..ilen : ibuf[i] \in Byte
    <3>1. ilen \in Nat /\ ilen <= N - 1 /\ N \in Nat
      BY <1>1, BufferAssumption DEF Typed
    <3>2. \A i \in 1..ilen : i \in 1..N
      BY <3>1
    <3> QED
      BY <1>1, <3>1, <3>2 DEF Typed, Forward, Buf, Cell
  <2>2. Read = [i \in 1..ilen |-> ibuf[i]]
    BY <2>1 DEF Read, SubSeq
  <2> QED
    BY <2>1, <2>2
<1> QED
  BY <1>1, <1>2, <1>3, <1>4, <1>5 DEF Parsed

LEMMA ConserveWrite ==
    ASSUME ParserInv, ~reverse, Balance, Write
    PROVE  Balance'
<1>1. /\ todo # <<>> /\ stream' = stream \o Head(todo) /\ todo' = Tail(todo)
      /\ UNCHANGED <<ibuf, ilen, out, sent>>
  BY DEF Write
<1>2. /\ Parsed \in Seq(Byte) /\ Read \in Seq(Byte) /\ stream \in Seq(Byte)
      /\ todo \in Seq(Seq(Byte))
  BY ConserveTypes DEF Typed
<1>3. /\ Head(todo) \in Seq(Byte) /\ Tail(todo) \in Seq(Seq(Byte))
      /\ FlattenSeq(todo) = Cat(Head(todo), FlattenSeq(todo'))
  BY <1>1, <1>2, FlattenTail
<1>4. FlattenSeq(todo') \in Seq(Byte)
  <2>1. <<>> \in Seq(Byte)
    OBVIOUS
  <2> QED
    BY <1>1, <1>3, <2>1, FlattenAppend
<1>5. Cat(Parsed, Read) \in Seq(Byte)
  BY <1>2, CatAssociative
<1>6. stream' = Cat(stream, Head(todo)) /\ Parsed' = Parsed /\ Read' = Read
  BY <1>1 DEF Cat, Parsed, Read, Lined
<1>7. Cat(Cat(Cat(Parsed, Read), Cat(stream, Head(todo))), FlattenSeq(todo'))
        = Cat(Cat(Cat(Parsed, Read), stream), Cat(Head(todo), FlattenSeq(todo')))
  BY <1>2, <1>3, <1>4, <1>5, CatShift
<1> QED
  BY <1>1, <1>3, <1>6, <1>7 DEF Balance

LEMMA ConserveRead ==
    ASSUME ParserInv, ~reverse, Balance, ReadForward
    PROVE  Balance'
<1> DEFINE n == IF Len(stream) < MaxRead THEN Len(stream) ELSE MaxRead
           a == SubSeq(stream, 1, n)
           b == SubSeq(stream, n + 1, Len(stream))
<1>1. UNCHANGED <<todo, out, sent>>
  BY DEF ReadForward
<1>2. /\ Parsed \in Seq(Byte) /\ Read \in Seq(Byte) /\ stream \in Seq(Byte) /\ ibuf \in Buf
      /\ Len(Read) = ilen /\ \A i \in 1..ilen : Read[i] = ibuf[i]
  BY ConserveTypes DEF Typed
<1>3. /\ n \in Nat /\ n <= Len(stream) /\ n <= N - 1 - ilen /\ N \in Nat
      /\ ilen \in Nat /\ ilen <= N - 1 /\ Len(stream) \in Nat
  BY ConserveTypes, BufferAssumption DEF Typed, MaxRead
<1>4. CASE n = 0
  BY <1>1, <1>4 DEF ReadForward, Balance, Parsed, Read, Lined
<1>5. CASE n # 0
  <2>1. /\ ibuf' = Put(ibuf, ilen, a) /\ stream' = b /\ ilen' = ilen + n
    BY <1>5 DEF ReadForward
  <2> HIDE DEF n
  <2>2. a \in Seq(Byte) /\ b \in Seq(Byte) /\ Cat(a, b) = stream
    BY <1>2, <1>3, CatSplit
  <2>3. Len(a) = n /\ \A i \in 1..n : a[i] \in Cell
    BY <1>2, <1>3, <2>2 DEF Cell
  <2> HIDE DEF a, b
  <2>4. \A i \in 1..N : ibuf'[i] = IF i > ilen /\ i <= ilen + n THEN a[i - ilen] ELSE ibuf[i]
    BY <1>2, <1>3, <2>1, <2>3, PutBytes
  <2>5. Read' = Cat(Read, a)
    <3>1. Read' = [i \in 1..(ilen + n) |-> ibuf'[i]]
      BY <1>3, <2>1 DEF Read, SubSeq
    <3>2. /\ Cat(Read, a) \in Seq(Byte) /\ Len(Cat(Read, a)) = ilen + n
          /\ \A i \in 1..(ilen + n) : Cat(Read, a)[i] = IF i <= ilen THEN Read[i] ELSE a[i - ilen]
      BY <1>2, <2>2, <2>3 DEF Cat
    <3> DEFINE r == Cat(Read, a)
    <3>3. r = [i \in 1..(ilen + n) |-> r[i]]
      <4> HIDE DEF r
      <4> QED
        BY <1>3, <3>2 DEF r
    <3>4. \A i \in 1..(ilen + n) : ibuf'[i] = r[i]
      <4> SUFFICES ASSUME NEW i \in 1..(ilen + n) PROVE ibuf'[i] = r[i]
        OBVIOUS
      <4>1. i \in 1..N /\ (i <= ilen => i \in 1..ilen)
        BY <1>3
      <4>2. r[i] = IF i <= ilen THEN Read[i] ELSE a[i - ilen]
        BY <3>2
      <4> HIDE DEF r
      <4>3. CASE i <= ilen
        <5>1. ~(i > ilen)
          BY <1>3, <4>3
        <5> QED
          BY <1>2, <2>4, <4>1, <4>2, <4>3, <5>1
      <4>4. CASE ~(i <= ilen)
        <5>1. i > ilen /\ i <= ilen + n
          BY <1>3, <4>4
        <5> QED
          BY <2>4, <4>1, <4>2, <4>4, <5>1
      <4> QED
        BY <4>3, <4>4
    <3> HIDE DEF r
    <3> QED
      BY <3>1, <3>3, <3>4 DEF r
  <2>6. Parsed' = Parsed
    BY <1>1 DEF Parsed, Lined
  <2>7. Cat(Cat(Parsed, Cat(Read, a)), b) = Cat(Cat(Parsed, Read), Cat(a, b))
    BY <1>2, <2>2, CatShift
  <2> QED
    BY <1>1, <2>1, <2>2, <2>5, <2>6, <2>7 DEF Balance
<1> QED
  BY <1>4, <1>5

LEMMA ConserveParse ==
    ASSUME ParserInv, ~reverse, Balance, ParseMessage
    PROVE  Balance'
<1> DEFINE n == MsgEnd + 1
           line == Append(Message, NL)
<1>1. /\ Typed /\ Forward /\ Lined(out) \in Seq(Seq(Byte)) /\ Parsed \in Seq(Byte)
      /\ Read \in Seq(Byte) /\ Len(Read) = ilen /\ \A i \in 1..ilen : Read[i] = ibuf[i]
      /\ out \in Seq(Seq(Byte)) /\ NL \in Byte
  BY ConserveTypes, ByteAssumption DEF Forward
<1>2. /\ MsgStart = 0 /\ MsgEnd \in 0..(ilen - 1) /\ ibuf[MsgEnd + 1] = NL
      /\ \A i \in 1..(MsgEnd + 1) : ibuf[i] \in Byte
  BY <1>1, ForwardRange DEF ParseMessage
<1>3. /\ ilen \in Nat /\ ilen <= N - 1 /\ N \in Nat /\ \A i \in 1..ilen : ibuf[i] \in Cell
  <2>1. ilen \in Nat /\ ilen <= N - 1 /\ N \in Nat
    BY <1>1, BufferAssumption DEF Typed
  <2>2. \A i \in 1..ilen : i \in 1..N
    BY <2>1
  <2> QED
    BY <1>1, <2>1, <2>2 DEF Typed, Buf
<1>4. n \in Nat /\ n >= 1 /\ n <= ilen /\ n = MsgEnd - MsgStart + 1 /\ MsgEnd = n - 1
  BY <1>2, <1>3
<1>5. \A i \in 1..N : ibuf'[i] = IF i <= ilen - n THEN ibuf[i + n]
                                 ELSE IF i <= ilen THEN Nul ELSE ibuf[i]
  BY <1>1, <1>2, <1>3, RestForward DEF ParseMessage
<1>6. /\ ilen' = ilen - n /\ out' = Append(out, Message)
      /\ UNCHANGED <<todo, stream, sent>>
  BY <1>4 DEF ParseMessage
<1> HIDE DEF n
<1>7. Read' = SubSeq(Read, n + 1, Len(Read))
  <2>1. Read' = [i \in 1..(ilen - n) |-> ibuf'[i]]
    <3>0. ilen - n \in Nat
      BY <1>3, <1>4
    <3>1. ilen' = ilen - n /\ ilen' \in Nat
      BY <1>6, <3>0
    <3>2. Read' = [i \in 1..ilen' |-> ibuf'[i]]
      BY <3>1 DEF Read, SubSeq
    <3> QED
      BY <3>1, <3>2
  <2>2. SubSeq(Read, n + 1, Len(Read)) = [i \in 1..(ilen - n) |-> Read[i + n]]
    <3>1. ilen - (n + 1) + 1 = ilen - n
      BY <1>3, <1>4
    <3>a. SubSeq(Read, n + 1, ilen) = [i \in 1..(ilen - (n + 1) + 1) |-> Read[i + (n + 1) - 1]]
      BY <1>3, <1>4 DEF SubSeq
    <3>2. SubSeq(Read, n + 1, Len(Read)) = [i \in 1..(ilen - (n + 1) + 1) |-> Read[i + (n + 1) - 1]]
      BY <1>1, <3>a
    <3>3. \A i \in 1..(ilen - n) : i + (n + 1) - 1 = i + n
      BY <1>3, <1>4
    <3> QED
      BY <3>1, <3>2, <3>3
  <2>3. \A i \in 1..(ilen - n) : ibuf'[i] = Read[i + n]
    <3> SUFFICES ASSUME NEW i \in 1..(ilen - n) PROVE ibuf'[i] = Read[i + n]
      OBVIOUS
    <3>1. i \in 1..N /\ i <= ilen - n /\ i + n \in 1..ilen
      BY <1>3, <1>4
    <3> QED
      BY <1>1, <1>5, <3>1
  <2> QED
    BY <2>1, <2>2, <2>3
<1>8. Message \in Seq(Byte) /\ line \in Seq(Byte) /\ line = SubSeq(Read, 1, n)
  <2>1. Message = [i \in 1..(n - 1) |-> ibuf[i]]
    BY <1>2, <1>4 DEF Message, SubSeq
  <2>2. \A i \in 1..n : i \in 1..ilen /\ ibuf[i] \in Byte
    BY <1>2, <1>3, <1>4
  <2>3. Message \in Seq(Byte) /\ Len(Message) = n - 1
    BY <1>4, <2>1, <2>2
  <2>4. line \in Seq(Byte) /\ Len(line) = n
    BY <1>1, <1>4, <2>3
  <2>5. \A i \in 1..n : line[i] = ibuf[i]
    BY <1>2, <1>4, <2>1, <2>3
  <2>6. line = [i \in 1..n |-> ibuf[i]]
    <3> HIDE DEF line
    <3> QED
      BY <1>4, <2>4, <2>5
  <2>7. SubSeq(Read, 1, n) = [i \in 1..n |-> Read[i]]
    BY <1>4 DEF SubSeq
  <2> QED
    BY <1>1, <2>2, <2>3, <2>4, <2>6, <2>7
<1>9. Parsed' = Cat(Parsed, line)
  <2>1. Lined(Append(out, Message)) = Append(Lined(out), line)
    <3> HIDE DEF line
    <3>1. Len(out) \in Nat /\ Append(out, Message) \in Seq(Seq(Byte))
          /\ Len(Append(out, Message)) = Len(out) + 1
          /\ (\A i \in 1..Len(out) : Append(out, Message)[i] = out[i])
          /\ Append(out, Message)[Len(out) + 1] = Message
      BY <1>1, <1>8
    <3> DEFINE o == Append(out, Message)
               l == Lined(out)
    <3>2. l = [i \in 1..Len(out) |-> Append(out[i], NL)] /\ Len(l) = Len(out)
      BY <1>1 DEF Lined
    <3>3. Lined(o) = [i \in 1..(Len(out) + 1) |-> Append(o[i], NL)]
      <4> HIDE DEF o
      <4> QED
        BY <3>1 DEF Lined, o
    <3>4. Append(l, line) = [i \in 1..(Len(out) + 1) |-> IF i <= Len(out) THEN l[i] ELSE line]
      <4> HIDE DEF l
      <4> QED
        BY <1>1, <3>1, <3>2 DEF l
    <3>5. \A i \in 1..(Len(out) + 1) :
              Append(o[i], NL) = IF i <= Len(out) THEN l[i] ELSE line
      <4> SUFFICES ASSUME NEW i \in 1..(Len(out) + 1)
                   PROVE  Append(o[i], NL) = IF i <= Len(out) THEN l[i] ELSE line
        OBVIOUS
      <4>1. CASE i <= Len(out)
        <5>1. i \in 1..Len(out)
          BY <3>1, <4>1
        <5>2. o[i] = out[i]
          BY <3>1, <5>1
        <5>3. l[i] = Append(out[i], NL)
          BY <3>2, <5>1
        <5> HIDE DEF o, l
        <5> QED
          BY <4>1, <5>2, <5>3
      <4>2. CASE ~(i <= Len(out))
        <5>1. i = Len(out) + 1
          BY <3>1, <4>2
        <5>2. o[i] = Message
          BY <3>1, <5>1
        <5> HIDE DEF o, l
        <5> QED
          BY <4>2, <5>2 DEF line
      <4> QED
        BY <4>1, <4>2
    <3> HIDE DEF o, l
    <3>6. Lined(o) = Append(l, line)
      BY <3>3, <3>4, <3>5
    <3> QED
      BY <3>6 DEF o, l
  <2>2. FlattenSeq(Append(Lined(out), line)) = Cat(FlattenSeq(Lined(out)), line)
    BY <1>1, <1>8, FlattenAppend
  <2>3. Parsed' = FlattenSeq(Lined(Append(out, Message)))
    BY <1>6 DEF Parsed, Lined
  <2> QED
    BY <2>1, <2>2, <2>3 DEF Parsed
<1>10. Read' \in Seq(Byte) /\ Cat(line, Read') = Read
  <2>1. n \in 0..Len(Read) /\ Read \in Seq(Byte)
    BY <1>1, <1>3, <1>4
  <2>2. /\ SubSeq(Read, n + 1, Len(Read)) \in Seq(Byte)
        /\ Cat(SubSeq(Read, 1, n), SubSeq(Read, n + 1, Len(Read))) = Read
    BY <2>1, CatSplit
  <2> HIDE DEF line
  <2> QED
    BY <1>7, <1>8, <2>2
<1> HIDE DEF line
<1>11. Cat(Cat(Parsed, line), Read') = Cat(Parsed, Cat(line, Read'))
  <2>1. \A p, q, r \in Seq(Byte) : Cat(Cat(p, q), r) = Cat(p, Cat(q, r))
    BY CatAssociative
  <2> QED
    BY ZenonT(60), <1>1, <1>8, <1>10, <2>1
<1> QED
  BY <1>6, <1>9, <1>10, <1>11 DEF Balance

LEMMA ConserveInit == Init => ConserveInv
<1> SUFFICES ASSUME Init, ~reverse PROVE Balance
  BY ParserInit DEF ConserveInv
<1>1. out = <<>> /\ ilen = 0 /\ stream = <<>> /\ sent = FlattenSeq(todo)
  BY DEF Init
<1>2. Parsed = <<>>
  <2>1. Lined(out) = <<>>
    BY <1>1 DEF Lined
  <2> QED
    BY <2>1 DEF Parsed, FlattenSeq
<1>3. Read = <<>>
  BY <1>1 DEF Read
<1>4. FlattenSeq(todo) \in Seq(Byte)
  BY ParserInit, ConserveTypes
<1>5. <<>> \in Seq(Byte)
  OBVIOUS
<1>6. Cat(<<>>, <<>>) = <<>> /\ Cat(<<>>, FlattenSeq(todo)) = FlattenSeq(todo)
  BY <1>4, <1>5, CatEmpty
<1> QED
  BY <1>1, <1>2, <1>3, <1>6 DEF Balance

LEMMA ConserveNext == ConserveInv /\ [Next]_vars => ConserveInv'
<1> SUFFICES ASSUME ConserveInv, [Next]_vars PROVE ConserveInv'
  OBVIOUS
<1>1. ParserInv /\ ParserInv'
  BY ParserNext DEF ConserveInv
<1> SUFFICES ASSUME ~reverse', ~err' PROVE Balance'
  BY <1>1 DEF ConserveInv
<1>2. ~reverse /\ ~err
  BY DEF Next, vars, Write, ReadForward, ReadStackEnd, ReadReverse, ReadEof, ParseEnd,
         ParseMessage, ParseErr
<1>3. Balance
  BY <1>2 DEF ConserveInv
<1>4. CASE Write
  BY <1>1, <1>2, <1>3, <1>4, ConserveWrite
<1>5. CASE ReadForward
  BY <1>1, <1>2, <1>3, <1>5, ConserveRead
<1>6. CASE ParseMessage
  BY <1>1, <1>2, <1>3, <1>6, ConserveParse
<1>7. CASE ParseEnd
  BY <1>3, <1>7 DEF ParseEnd, Balance, Parsed, Read, Lined
<1>8. CASE UNCHANGED vars
  BY <1>3, <1>8 DEF vars, Balance, Parsed, Read, Lined
<1>9. ~ReadStackEnd /\ ~ReadReverse /\ ~ReadEof /\ ~ParseErr
  BY <1>2 DEF ReadStackEnd, ReadReverse, ReadEof, ParseErr
<1> QED
  BY <1>4, <1>5, <1>6, <1>7, <1>8, <1>9 DEF Next

\* Forward, no byte is lost, doubled or reordered as long as every message
\* parses, whatever the messages are, however the reads cut them and whatever
\* the size of the buffer.
THEOREM ConservedAlways == Spec => []Conserved
<1>1. ConserveInv => Conserved
  <2> SUFFICES ASSUME ConserveInv, ~reverse, ~err PROVE Conserved
    BY DEF Conserved
  <2>1. Balance /\ Clean
    BY DEF ConserveInv, ParserInv, Forward
  <2> QED
    BY <2>1 DEF Conserved, Balance, Cat, Parsed, Read, Lined, Clean
<1> QED
  BY <1>1, ConserveInit, ConserveNext, PTL DEF Spec
=============================================================================
