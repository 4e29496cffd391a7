--------------------------- MODULE MCFifoParser ---------------------------
(***************************************************************************)
(* The parser with a buffer of a few messages, every mix of message kinds  *)
(* and lengths, and files that end in the middle of a line.                *)
(***************************************************************************)
EXTENDS FifoParser

CONSTANTS x, size, MaxMsgs

F(i)   == <<f, i, NL>>
M(i)   == <<m, i, size, 9, NL>>
X(i)   == <<x, NL>>
Bad(i) == <<m, i, f, i, NL>>      \* a cut message in front of another

Good(i) == {F(i), M(i), X(i)}
All(i)  == Good(i) \cup {Bad(i)}
Mixes(Msgs(_)) == UNION {{s \in [1..n -> UNION {Msgs(i) : i \in 1..n}] : \A i \in 1..n : s[i] \in Msgs(i)} :
                           n \in 0..MaxMsgs}

MCSends == Mixes(All)

\* A discovery writes the stack end first; a killed game leaves a part of a
\* line behind.
Cut     == {<<>>, <<m>>, <<m, 7, size>>}
Disc(s) == {<<S, 8, NL>> \o FlattenSeq(s) \o c : c \in Cut}
MCFiles == {<<>>} \cup UNION {Disc(s) : s \in Mixes(Good)}

\* Files in which a line is malformed, for the run about parse errors.
MCBadFiles == UNION {Disc(s) : s \in Mixes(All)}
=============================================================================
