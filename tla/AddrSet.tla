------------------------------ MODULE AddrSet -------------------------------
(***************************************************************************)
(* What libmemhack's table of memory addresses of one class promises: it   *)
(* is the set of addresses reported by a malloc() and not yet by a free(). *)
(* When the table cannot grow, it is lost, and with it every address.      *)
(***************************************************************************)
CONSTANT Addr

VARIABLES
    known,       \* the addresses a free() would report
    lost         \* the library ran out of memory

vars == <<known, lost>>

Init == known = {} /\ lost = FALSE

Add(a) ==
    /\ ~lost
    /\ a \notin known
    /\ known' = known \cup {a}
    /\ UNCHANGED lost

Remove(a) ==
    /\ a \in known
    /\ known' = known \ {a}
    /\ UNCHANGED lost

Lose ==
    /\ known' = {}
    /\ lost' = TRUE

Next == Lose \/ \E a \in Addr : Add(a) \/ Remove(a)

Spec == Init /\ [][Next]_vars
=============================================================================
