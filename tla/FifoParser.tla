----------------------------- MODULE FifoParser -----------------------------
(***************************************************************************)
(* read_dynmem_buf() and parse_dynmem_buf(): one buffer of a fixed size,   *)
(* kept between the calls, in which messages are completed.  Forward it    *)
(* reads a FIFO; backwards it reads the output file of a discovery from    *)
(* its end, so that the last allocation is seen first.                     *)
(*                                                                         *)
(* The buffer is modelled byte by byte, because what can go wrong here is  *)
(* arithmetic on its positions: a message is <<kind, number.., NL>>.       *)
(***************************************************************************)
EXTENDS Integers, Sequences, FiniteSets, SequencesExt

CONSTANTS
    N,          \* PIPE_BUF: the size of the buffer; its last byte stays 0
    Files,      \* the files to read backwards: sequences of bytes
    Sends,      \* what is written to the FIFO: sequences of whole messages
    NL,         \* '\n'
    m, f, S,    \* the kinds of messages that are looked at
    Number,     \* numbers, as one byte
    Mask,       \* fields an "m" message must have
    Byte        \* what files and messages consist of: not '\0'

Nul == 0

\* Every message ends with a newline.
WholeMessage == {b \in Seq(Byte) : b # <<>> /\ b[Len(b)] = NL}

ASSUME BufferAssumption == N \in Nat \ {0}
ASSUME ByteAssumption   == NL \in Byte /\ Nul \notin Byte
ASSUME InputAssumption  == Files \subseteq Seq(Byte) /\ Sends \subseteq Seq(WholeMessage)

VARIABLES
    reverse,    \* reading backwards
    todo,       \* messages the game has still to write
    stream,     \* FIFO: bytes written and not read; backwards: the whole file
    fd_offs,    \* backwards: where the rest of the file ends
    ibuf,       \* the buffer: N bytes
    ilen,       \* how many of them count as read
    tmp_ilen,   \* bytes of the last read(), then of the last message
    pc,         \* "read", "parse", or "end": read_dynmem_buf() has returned -1
    out,        \* history: the messages parsed
    err,        \* history: there has been a parse error
    sent        \* history: what is there to read in all

vars == <<reverse, todo, stream, fd_offs, ibuf, ilen, tmp_ilen, pc, out, err, sent>>

Zero(n) == [i \in 1..n |-> Nul]
ReverseFst == -2
ReverseEof == -3

(***************************************************************************)
(* strchr(), strrchr(): the string ends at the first '\0'.  Positions are  *)
(* those of the C code, from 0.                                            *)
(***************************************************************************)
At(p)     == ibuf[p + 1]
StrLen(b) == CHOOSE n \in 0..(N - 1) : b[n + 1] = Nul /\ \A i \in 1..n : b[i] # Nul
NewLines  == {p \in 0..(StrLen(ibuf) - 1) : At(p) = NL}

\* MUTANT of MaxRead: the last byte is read into as well.
MaxReadFull == N - ilen

\* How many bytes a read() may fill.
MaxRead == N - 1 - ilen

MinPos(P) == CHOOSE p \in P : \A q \in P : p <= q
MaxPos(P) == CHOOSE p \in P : \A q \in P : p >= q

\* memcpy() of b to position p.
Put(buf, p, b) == [i \in 1..N |-> IF i > p /\ i <= p + Len(b) THEN b[i - p] ELSE buf[i]]

ParserTypeOK ==
    /\ reverse \in BOOLEAN
    /\ Len(ibuf) = N /\ ibuf[N] = Nul
    /\ ilen \in 0..(N - 1)
    /\ tmp_ilen \in 0..(N - 1)
    /\ fd_offs \in {ReverseFst, ReverseEof} \cup 0..Len(stream)
    /\ pc \in {"read", "parse", "end"}

Init ==
    /\ \/ /\ reverse = TRUE
          /\ stream \in Files /\ todo = <<>> /\ sent = stream
       \/ /\ reverse = FALSE
          /\ todo \in Sends /\ stream = <<>> /\ sent = FlattenSeq(todo)
    /\ fd_offs = ReverseFst
    /\ ibuf = Zero(N) /\ ilen = 0 /\ tmp_ilen = 0
    /\ pc = "read"
    /\ out = <<>> /\ err = FALSE
-----------------------------------------------------------------------------
\* The game writes one message: at most PIPE_BUF bytes, so in one piece.
Write ==
    /\ ~reverse /\ todo # <<>>
    /\ stream' = stream \o Head(todo)
    /\ todo' = Tail(todo)
    /\ UNCHANGED <<reverse, fd_offs, ibuf, ilen, tmp_ilen, pc, out, err, sent>>

\* The next call of read_dynmem_buf(), forward: behind what is there.
ReadForward ==
    /\ pc = "read" /\ ~reverse
    /\ LET n == IF Len(stream) < MaxRead THEN Len(stream) ELSE MaxRead
       IN  IF n = 0
           THEN /\ stream # <<>> => MaxRead = 0
                /\ UNCHANGED <<stream, ibuf, ilen, tmp_ilen, pc>>
           ELSE /\ ibuf' = Put(ibuf, ilen, SubSeq(stream, 1, n))
                /\ stream' = SubSeq(stream, n + 1, Len(stream))
                /\ ilen' = ilen + n
                /\ tmp_ilen' = n
                /\ pc' = "parse"
    /\ UNCHANGED <<reverse, todo, fd_offs, out, err, sent>>

\* The first call backwards takes the stack end from the first bytes, clears
\* the buffer and goes to the end of the file.
ReadStackEnd ==
    /\ pc = "read" /\ reverse /\ fd_offs = ReverseFst
    /\ IF stream = <<>> THEN pc' = "end" /\ UNCHANGED <<fd_offs, out>>
       ELSE /\ out' = IF Head(stream) = S THEN <<SubSeq(stream, 1, 2)>> ELSE <<>>
            /\ fd_offs' = Len(stream)
            /\ UNCHANGED pc
    /\ UNCHANGED <<reverse, todo, stream, ibuf, ilen, tmp_ilen, err, sent>>

\* MUTANT of ReadReverse: the rest of the last read stays in front.
ReadReverseInPlace ==
    /\ pc = "read" /\ reverse /\ fd_offs >= 0
    /\ LET max_read == IF fd_offs > MaxRead THEN MaxRead ELSE fd_offs
           from == fd_offs - max_read
       IN  IF max_read = 0
           THEN pc' = "end" /\ UNCHANGED <<fd_offs, ibuf, ilen, tmp_ilen>>
           ELSE /\ ibuf' = Put(ibuf, ilen, SubSeq(stream, from + 1, fd_offs))
                /\ fd_offs' = IF fd_offs > MaxRead THEN from ELSE ReverseEof
                /\ ilen' = ilen + max_read
                /\ tmp_ilen' = max_read
                /\ pc' = "parse"
    /\ UNCHANGED <<reverse, todo, stream, out, err, sent>>

\* The next call backwards: what is left of the last read moves to the end,
\* and the bytes in front of it in the file are read in front of it.
ReadReverse ==
    /\ pc = "read" /\ reverse /\ fd_offs >= 0
    /\ LET max_read == IF fd_offs > MaxRead THEN MaxRead ELSE fd_offs
           from == fd_offs - max_read
       IN  IF max_read = 0
           THEN pc' = "end" /\ UNCHANGED <<fd_offs, ibuf, ilen, tmp_ilen>>
           ELSE /\ ibuf' = Put(Put(ibuf, max_read, SubSeq(ibuf, 1, ilen)), 0,
                               SubSeq(stream, from + 1, fd_offs))
                /\ fd_offs' = IF fd_offs > MaxRead THEN from ELSE ReverseEof
                /\ ilen' = ilen + max_read
                /\ tmp_ilen' = max_read
                /\ pc' = "parse"
    /\ UNCHANGED <<reverse, todo, stream, out, err, sent>>

\* The file has been read: every further call fails.
ReadEof ==
    /\ pc = "read" /\ reverse /\ fd_offs = ReverseEof
    /\ pc' = "end"
    /\ UNCHANGED <<reverse, todo, stream, fd_offs, ibuf, ilen, tmp_ilen, out, err, sent>>
-----------------------------------------------------------------------------
\* Where the next message begins and where its newline is.  Backwards, a
\* message needs the newline of the one before it.
MsgEnd   == IF reverse THEN MaxPos(NewLines) ELSE MinPos(NewLines)
MsgStart == IF reverse THEN 1 + MaxPos(NewLines \ {MsgEnd}) ELSE 0
Complete == IF reverse THEN \E p, q \in NewLines : p # q ELSE NewLines # {}

\* Nothing complete any more: back to the caller, which calls again.
ParseEnd ==
    /\ pc = "parse" /\ ~Complete
    /\ pc' = "read"
    /\ UNCHANGED <<reverse, todo, stream, fd_offs, ibuf, ilen, tmp_ilen, out, err, sent>>

\* Messages with a callback parse if a number follows the kind, and for an
\* allocation what the mask asks for.  The ';' in front of that is searched
\* for in all of the string: forward also in the messages behind this one.
\* Messages without a callback are skipped.  An empty line is skipped forward
\* (its newline is read as the kind) and an error backwards.
Handled     == IF reverse THEN {m, S} ELSE {m, f, S}
StringEnd   == IF reverse THEN MsgEnd ELSE StrLen(ibuf)
HasField(x) == \E p \in MsgStart..(StringEnd - 1) : At(p) = x
WellFormed(msg) ==
    /\ msg = <<>> => ~reverse
    /\ (msg # <<>> /\ msg[1] \in Handled) =>
            /\ Len(msg) >= 2 /\ msg[2] \in Number
            /\ msg[1] = m => \A x \in Mask : HasField(x)
Message == SubSeq(ibuf, MsgStart + 1, MsgEnd)

\* MUTANT of Rest: the bytes behind the rest are not zeroed.
RestUnzeroed ==
    LET n == MsgEnd - MsgStart + 1
    IN  IF reverse THEN Put(ibuf, MsgStart, Zero(n))
                   ELSE Put(ibuf, 0, SubSeq(ibuf, n + 1, ilen))

\* The buffer without the message: backwards it is zeroed, forward the rest
\* moves to the front and what is behind the rest is zeroed.
Rest ==
    LET n == MsgEnd - MsgStart + 1
    IN  IF reverse THEN Put(ibuf, MsgStart, Zero(n))
                   ELSE Put(Put(ibuf, 0, SubSeq(ibuf, n + 1, ilen)), ilen - n, Zero(n))

ParseMessage ==
    /\ pc = "parse" /\ Complete /\ WellFormed(Message)
    /\ out' = Append(out, Message)
    /\ ibuf' = Rest
    /\ tmp_ilen' = MsgEnd - MsgStart + 1
    /\ ilen' = ilen - tmp_ilen'
    /\ UNCHANGED <<reverse, todo, stream, fd_offs, pc, err, sent>>

\* MUTANT of ParseErr: ilen is not reset.
ParseErrKeepsLen ==
    /\ pc = "parse" /\ Complete /\ ~WellFormed(Message)
    /\ ibuf' = Put(ibuf, 0, Zero(tmp_ilen))
    /\ err' = TRUE
    /\ pc' = "read"
    /\ UNCHANGED <<reverse, todo, stream, fd_offs, ilen, tmp_ilen, out, sent>>

\* parse_err: as many bytes as tmp_ilen says are zeroed, from the front, and
\* all are forgotten.
ParseErr ==
    /\ pc = "parse" /\ Complete /\ ~WellFormed(Message)
    /\ ibuf' = Put(ibuf, 0, Zero(tmp_ilen))
    /\ ilen' = 0
    /\ err' = TRUE
    /\ pc' = "read"
    /\ UNCHANGED <<reverse, todo, stream, fd_offs, tmp_ilen, out, sent>>

Next == \/ Write \/ ReadForward \/ ReadStackEnd \/ ReadReverse \/ ReadEof
        \/ ParseEnd \/ ParseMessage \/ ParseErr

Spec == Init /\ [][Next]_vars /\ WF_vars(Next)
-----------------------------------------------------------------------------
\* Forward, no byte is lost, doubled or reordered by the moves in the buffer,
\* and the buffer is clean behind what counts as read, as long as every
\* message parses: parsed messages, buffer, FIFO and what is still to be
\* written are together what the game writes.
Conserved ==
    ~reverse /\ ~err =>
        /\ FlattenSeq([i \in DOMAIN out |-> Append(out[i], NL)])
             \o SubSeq(ibuf, 1, ilen) \o stream \o FlattenSeq(todo) = sent
        /\ \A i \in (ilen + 1)..N : ibuf[i] = Nul

\* The lines of b that end with a newline.
Ends(b)  == {i \in DOMAIN b : b[i] = NL}
Line(b, e) == LET before == {0} \cup {d \in Ends(b) : d < e}
              IN  SubSeq(b, 1 + (CHOOSE d \in before : \A c \in before : c <= d), e - 1)
Lines(b) == LET nth(k) == CHOOSE e \in Ends(b) : Cardinality({d \in Ends(b) : d <= e}) = k
            IN  [k \in 1..Cardinality(Ends(b)) |-> Line(b, nth(k))]

\* Backwards, every complete line but the first is parsed once, the last one
\* first, wherever the reads cut the file; the first one is the stack end.
ReversedLines ==
    reverse /\ ~err /\ pc = "end" /\ stream # <<>> =>
        LET first == IF Head(stream) = S THEN <<SubSeq(stream, 1, 2)>> ELSE <<>>
        IN  out = first \o Reverse(Tail(Lines(stream)))

\* "always '\0' at end": no read() is for more bytes than are free in front of
\* the last one.
AlwaysNulAtEnd == ibuf[N] = Nul /\ MaxRead \in 0..(N - 1)

\* All that the game writes is read in the end: the buffer never fills up
\* with something that does not end.
Drained == <>(reverse \/ (todo = <<>> /\ stream = <<>> /\ ilen = 0))
=============================================================================
