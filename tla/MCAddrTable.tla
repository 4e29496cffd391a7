---------------------------- MODULE MCAddrTable -----------------------------
(***************************************************************************)
(* Small instances of AddrTable: enough addresses for the table to double  *)
(* twice, and up to two threads that free objects at the same time.        *)
(***************************************************************************)
EXTENDS AddrTable, TLC

CONSTANT MaxSlots

MCSymmetry == Permutations(Addr) \cup Permutations(Callers)

\* Racing threads can make the table grow for ever: bound its size.
MCSlots == max_obj <= MaxSlots
=============================================================================
