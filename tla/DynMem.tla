------------------------------- MODULE DynMem -------------------------------
(***************************************************************************)
(* Dynamic memory hacking as a whole: the game's threads with libmemhack   *)
(* (Hooks) and the trainer's main loop (Trainer) over the FIFO between     *)
(* them.  ptrace() stops one thread only: memattach() attaches to the      *)
(* process id, which is the id of the main thread.                         *)
(***************************************************************************)
EXTENDS Hooks, Trainer

CONSTANT Main    \* the game's main thread

ASSUME MainAssumption == Main \in Threads

vars == <<linkVars, hookVars, trainerVars>>

Init == LinkInit /\ HookInit /\ TrainerInit

Running(t) == alive /\ ~(attached /\ t = Main)

GameStep(t) == Running(t) /\ HookStep(t) /\ UNCHANGED trainerVars

\* The game ends, or is killed, at any time.
GameExit ==
    /\ alive
    /\ alive' = FALSE
    /\ UNCHANGED <<fifo, attached, hookVars, trainerVars>>

Terminated == phase = "done" /\ UNCHANGED vars

Next ==
    \/ \E t \in Threads : GameStep(t)
    \/ GameExit
    \/ TrainerStep /\ UNCHANGED hookVars
    \/ Terminated

Spec == Init /\ [][Next]_vars

\* The trainer's loop and the game's threads are scheduled; nothing is assumed
\* of the user, of when the game ends or of when it allocates.  A hook that was
\* entered goes on whenever its thread is neither stopped nor blocked again and
\* again: the trainer sleeps in every round.  check_process() does not fail for
\* ever on a game that is gone.
Fairness ==
    /\ WF_vars(TrainerStep /\ UNCHANGED hookVars)
    /\ SF_vars(CheckProcess /\ phase' = "done" /\ UNCHANGED hookVars)
    /\ \A t \in Threads : SF_vars(call[t].at # "run" /\ GameStep(t))

FairSpec == Spec /\ Fairness

TypeOK == LinkTypeOK /\ HookTypeOK /\ TrainerTypeOK

-----------------------------------------------------------------------------
\* The trainer reads and writes an object (process_dynmem_cfg_act) only while
\* the game still has an object of that class and of that size at the address:
\* "R/W to invalid heap addresses crashes the game".
SafeAccess ==
    (Accessing /\ alive) =>
        LET c == EntryClass[cfg_act[pos[1]]]
        IN  heap[v_maddr[c][pos[2]]] = Object(c, v_msize[c][pos[2]])

\* The address is queued by the trainer or belongs to an object of its vectors.
Tracked(a, c, s) ==
    \/ \E i \in DOMAIN mq : mq[i] = MMsg(a, s, c)
    \/ \E i \in DOMAIN v_maddr[c] : v_maddr[c][i] = a /\ v_msize[c][i] = s

\* An object the trainer holds is either still allocated as what it was
\* reported, or the library's "f" message for it waits in the FIFO: no free()
\* of a reported object goes unreported.
Accounted ==
    \A a \in Addr, c \in Class : \A s \in ClassSize[c] :
        Tracked(a, c, s) =>
            \/ heap[a] = Object(c, s)
            \/ \E i \in DOMAIN fifo : fifo[i] = FMsg(a)

\* The trainer holds no address twice, in the queue or in any class; a "f"
\* message clears one place only (clear_dynmem_addr).
NoDuplicates ==
    /\ \A i, j \in DOMAIN mq : mq[i].addr = mq[j].addr /\ mq[i].addr # Null => i = j
    /\ \A c, d \in Class : \A i \in LiveIdx(c), j \in LiveIdx(d) :
          v_maddr[c][i] = v_maddr[d][j] => c = d /\ i = j
    /\ \A i \in DOMAIN mq : \A c \in Class : \A j \in LiveIdx(c) :
          mq[i].addr # v_maddr[c][j]

\* An object the library reported and still tracks is known to the trainer:
\* its message waits in the FIFO or in the queue, or the object has its slot.
NoObjectLost ==
    \A c \in Class : \A a \in mem_addrs[c] :
        \/ \E i \in DOMAIN fifo : fifo[i].op = "m" /\ fifo[i].addr = a
        \/ \E i \in DOMAIN mq : mq[i].addr = a
        \/ \E i \in DOMAIN v_maddr[c] : v_maddr[c][i] = a

-----------------------------------------------------------------------------
\* The trainer does not hold on to a freed object: once the game has given up
\* the object, the trainer forgets it (or the address is such an object again).
FreedForgotten ==
    \A a \in Addr, c \in Class : \A s \in ClassSize[c] :
        (Tracked(a, c, s) /\ heap[a] # Object(c, s)) ~>
            (~Tracked(a, c, s) \/ heap[a] = Object(c, s) \/ ~alive)

\* "If the buffer fills, the game process hangs": it does not hang for ever,
\* in no phase of the trainer.
WriterUnblocked ==
    \A t \in Threads :
        call[t].at \in {"write_m", "write_f"} ~>
            (call[t].at \notin {"write_m", "write_f"} \/ ~alive)

\* ugtrain ends after the game has ended.
TrainerEnds == ~alive ~> phase = "done"
=============================================================================
