------------------------------ MODULE GameLink ------------------------------
(***************************************************************************)
(* What the trainer process (ugtrain) and the game process (with           *)
(* libmemhack preloaded) share: the FIFO /tmp/memhack_out that carries the *)
(* library's messages, whether the game still runs, and whether the        *)
(* trainer has attached to it with ptrace().                               *)
(***************************************************************************)
EXTENDS Naturals, Sequences, FiniteSets

CONSTANTS
    Addr,        \* heap addresses libc can hand out
    Null,        \* the NULL pointer
    Class,       \* configured classes of memory objects (dynmemstart..dynmemend)
    ClassSize    \* ClassSize[c]: the malloc sizes the config accepts for c
                 \*   (one size, or several for a growing class)

ASSUME NullAssumption == Null \notin Addr
ASSUME SizeAssumption == ClassSize \in [Class -> SUBSET Nat]

VARIABLES
    fifo,        \* messages written by the library and not yet read
    alive,       \* the game process exists
    attached     \* ptrace() attached: the game's main thread is stopped

linkVars == <<fifo, alive, attached>>

(***************************************************************************)
(* "m<addr>;s<size>;c<code_addr>" and "f<addr>".  The code address is what *)
(* tells the classes apart, so the class stands for it.  A failed          *)
(* allocation is reported like any other, with the address 0.              *)
(***************************************************************************)
MallocMsg == [op : {"m"}, addr : Addr \cup {Null}, size : Nat, class : Class]
FreeMsg   == [op : {"f"}, addr : Addr]
Msg       == MallocMsg \cup FreeMsg

(***************************************************************************)
(* What two threads leave in the FIFO when the second formats its message  *)
(* between the sprintf() and the write() of the first: the first bytes of  *)
(* a "m" message without its newline, or the bytes behind a "f" message,   *)
(* which begin with the '\0' that ended it.                                *)
(***************************************************************************)
Cut == [op |-> "cut"]
Nul == [op |-> "nul"]

MMsg(a, s, c) == [op |-> "m", addr |-> a, size |-> s, class |-> c]
FMsg(a)       == [op |-> "f", addr |-> a]

LinkTypeOK ==
    /\ fifo \in Seq(Msg \cup {Cut, Nul})
    /\ alive \in BOOLEAN
    /\ attached \in BOOLEAN

LinkInit ==
    /\ fifo = <<>>
    /\ alive = TRUE
    /\ attached = FALSE
=============================================================================
