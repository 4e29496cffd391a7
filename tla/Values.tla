------------------------------- MODULE Values --------------------------------
(***************************************************************************)
(* What the trainer does to the values of the stopped game: the part of    *)
(* the main loop that Trainer.tla names "process" (process_act_cfg() and   *)
(* all it calls), and what the rest of a round does to its data.  Values   *)
(* are read and written through the caches of CacheLayout.tla.             *)
(*                                                                         *)
(* A memory cell stands for a value: a value of the config is one cell,    *)
(* and its unsigned arithmetic wraps at MaxVal + 1.  The vectors v_oldval, *)
(* v_value of an entry in static memory (old_val and value in the code)    *)
(* have the one index 1; indices start at 1, where the code's start at 0.  *)
(*                                                                         *)
(* The record w is what the functions below process_act_cfg() change: the  *)
(* game's memory mem, the caches, v_maddr, and per entry or pointee the    *)
(* vectors of the code; obj_idx[c] is the index of the object in work.     *)
(* Its last fields are history: direct is the memory of a trainer without  *)
(* caches that writes the same values; reads, refs, follows say what the   *)
(* last step read, took from another entry and followed; visited are the   *)
(* entries read for the current object; lastptr is the last pointer that   *)
(* was read from the object at an address, top the largest value.          *)
(***************************************************************************)
EXTENDS CacheLayout, Integers, VecOps, SequencesExt

CONSTANTS
    Configs,     \* the config files considered, see Config below
    Class,       \* classes of memory objects, a subset of Area
    Pointee,     \* memory that pointers lead to (ptrmemstart..), a subset of Area
    Static,      \* the static memory, an Area
    MemSize,     \* cells of the game's memory: 1..MemSize are mapped
    MaxVal,      \* the largest value of a cell
    NoEntry,     \* no reference or no target
    MaxMoves     \* bound on what the game and the user do

(***************************************************************************)
(* A config: its entries, which of them are active at the start, the keys, *)
(* where the game can put objects and how large they are, and what the     *)
(* game writes into its memory (pairs of cell and value).                  *)
(*   owner[p]   the class with the pointers to p, or Static; the pointers  *)
(*              to p are all there: process_ptrmem() takes the object from *)
(*              ptrtgt->dynmem, which is the class of the last pointer     *)
(* An entry: the area and offset of the value, the comparison (cmp) that   *)
(* must hold before it is overwritten, how the wish value is found         *)
(* (dynval), the wish value (want), the entry it refers to (ref, add) or   *)
(* the address it is read from (vaddr), the memory a pointer leads to      *)
(* (target), and the checks.                                               *)
(***************************************************************************)
VARIABLES
    conf,        \* the config file
    cfg_act,     \* cfg_act: active entries outside of pointees
    area_act,    \* area_act[a]: dynmem->cfg_act or ptrmem->cfg_act
    value,       \* value[e]: cfg_en->value, the wish value of new objects
    pr_idx,      \* pr_idx[c]: index of the object on display
    v_msize,     \* v_msize[c]: sizes of the objects
    w,           \* see above
    phase,       \* where main() is
    pos,         \* [k, i, j, old]: process_act_cfg() is at cfg_act[k], object i
                 \* and entry area_act[old][j] of the class old
    moves        \* what the game and the user have done so far

vars == <<layoutVars, conf, cfg_act, area_act, value, pr_idx, v_msize,
          w, phase, pos, moves>>

Entry    == DOMAIN conf.entries
Cfg(e)   == conf.entries[e]
Val      == 0..MaxVal
Cell     == 1..MemSize
Listed(e, j) == [id |-> 10 * e + j,
                 area |-> Cfg(e).area,
                 addr |-> IF j = 0 THEN Cfg(e).addr ELSE Cfg(e).checks[j].addr,
                 size |-> Cfg(e).size]

\* The elements of a config, see CacheLayout.tla.
Elements(c) ==
    UNION {{[id |-> 10 * e + j, area |-> c.entries[e].area, size |-> c.entries[e].size,
             addr |-> IF j = 0 THEN c.entries[e].addr ELSE c.entries[e].checks[j].addr] :
               j \in {0} \cup {n \in DOMAIN c.entries[e].checks :
                                  c.entries[e].checks[n].kind # "ref"}} :
           e \in DOMAIN c.entries}

ASSUME MemAssumption == MemSize \in Nat /\ MaxVal \in Nat

ASSUME AreaAssumption ==
    /\ Class \subseteq Area /\ Pointee \subseteq Area /\ Static \in Area
    /\ Class \cap Pointee = {} /\ Static \notin Class \cup Pointee
    /\ NoEntry \notin Pointee

ASSUME ConfigAssumption ==
    \A c \in Configs :
        LET E      == DOMAIN c.entries
            In(as) == {e \in E : c.entries[e].area \in as}
        IN  /\ Elements(c) \in Layouts /\ IsFiniteSet(E)
            /\ c.cfg_act \in Seq(In(Area \ Pointee))
            /\ c.area_act \in [Area -> Seq(E)]
            /\ \A a \in Area : c.area_act[a] \in Seq(In({a}))
            /\ c.owner \in [Pointee -> Class \cup {Static}]
            /\ \A p \in Pointee : c.owner[p] \in Class => \E e \in E : c.entries[e].target = p
            /\ c.bases \in [Class -> SUBSET Cell]
            /\ c.keys \subseteq E
            /\ \A e \in E : /\ c.entries[e].area \in Area
                            /\ c.entries[e].target \in Pointee \cup {NoEntry}
                            /\ c.entries[e].target # NoEntry =>
                                  c.entries[e].area = c.owner[c.entries[e].target]
                            /\ c.entries[e].checks \in Seq([kind : {"mem", "ref", "num"}, addr : Nat,
                                   ref : E \cup {NoEntry}, isobj : BOOLEAN,
                                   alts : SUBSET ({"lt", "gt", "eq", "off"} \X Val)])

-----------------------------------------------------------------------------
(* Caches. *)
Key(x)     == place[x]
Slot(u, x) == u.cache[x.area][Key(x)]
CacheOffs(x) == cache_list[x.area][Key(x)]

\* _read_memory() of a whole chunk.
Readable(a) == 1 <= a /\ a + Chunk - 1 <= MemSize

CanFill(u, x, offs) == Slot(u, x).start # PtrMax \/ Readable(offs + CacheOffs(x))

\* FILL_CACHE_AND_BUF, first half: read the chunk unless the cache is valid.
FillCache(u, x, offs) ==
    LET a == offs + CacheOffs(x)
    IN  IF Slot(u, x).start # PtrMax THEN u
        ELSE [u EXCEPT !.cache[x.area][Key(x)] =
                 [start |-> a, dirty |-> @.dirty,
                  data |-> [n \in 1..Chunk |-> u.mem[a + n - 1]]]]

\* FILL_CACHE_AND_BUF, second half: the copy of the value in the cache.
Cached(u, x) == Slot(u, x).data[x.addr - CacheOffs(x) + 1]

\* The cache is read; the history compares with the memory without caches.
Read(u, x, offs) ==
    LET f == FillCache(u, x, offs)
    IN  [f EXCEPT !.reads = @ \cup {<<Cached(f, x), f.direct[offs + x.addr]>>}]

\* change_mem_val(): the new value goes into the cache.
Write(u, x, offs, v) ==
    [u EXCEPT !.cache[x.area][Key(x)].data[x.addr - CacheOffs(x) + 1] = v,
              !.cache[x.area][Key(x)].dirty = TRUE,
              !.direct[offs + x.addr] = v]

\* INVALIDATE_CACHES
Invalidate(u, a) ==
    [u EXCEPT !.cache[a] = [k \in DOMAIN @ |-> [@[k] EXCEPT !.start = PtrMax]]]

\* WRITE_CACHES: whole chunks, in the order of the list.
WriteCaches(u, a) ==
    LET Flush(m, c) == IF ~c.dirty THEN m
                       ELSE [n \in Cell |-> IF n \in c.start..(c.start + Chunk - 1)
                                            THEN c.data[n - c.start + 1] ELSE m[n]]
    IN  [u EXCEPT !.mem = FoldLeft(Flush, @, u.cache[a]),
                  !.cache[a] = [k \in DOMAIN @ |-> [@[k] EXCEPT !.dirty = FALSE]]]

-----------------------------------------------------------------------------
(* Values of other entries and checks. *)

\* The class whose objects the values of area a belong to, or no class.
AreaClass(a) == IF a \in Pointee THEN conf.owner[a] ELSE a

\* The class whose object in work an entry's vectors are indexed with.
IndexClass(e) == AreaClass(Cfg(e).area)
Index(u, e)   == IF IndexClass(e) \in Class THEN u.obj_idx[IndexClass(e)] ELSE 1

\* Where the value of entry e is for the object i.
Offs(u, e, i) == IF Cfg(e).area \in Class THEN u.v_maddr[Cfg(e).area][i]
                 ELSE IF Cfg(e).area \in Pointee THEN u.v_offs[Cfg(e).area][i]
                 ELSE 0

\* handle_cfg_ref(): what was written, or else what was read.
RefVector(u, r) == IF u.val_set[r] THEN u.v_value[r] ELSE u.v_oldval[r]

\* handle_cfg_ref(): no object yet, or the pointer was not followed yet.
RefFails(u, r) ==
    \/ IndexClass(r) \in Class /\ RefVector(u, r) = <<>>
    \/ /\ Cfg(r).area \in Pointee /\ IndexClass(r) \in Class
       /\ u.v_state[Cfg(r).area][Index(u, r)] = "init"

Ref(u, r) == RefVector(u, r)[Index(u, r)]

\* The history of a reference: an entry visited before must be up to date.
LogRef(u, r) ==
    IF r \in u.visited
    THEN [u EXCEPT !.refs = @ \cup
             {<<Ref(u, r), u.direct[Offs(u, r, Index(u, r)) + Cfg(r).addr]>>}]
    ELSE u

\* check_mem_val()
Passes(cmp, x, y) == CASE cmp = "lt" -> x < y
                       [] cmp = "gt" -> x > y
                       [] cmp = "eq" -> x = y
                       [] cmp = "off" -> TRUE

\* or_check_memory(); a failed object check marks the object to be erased.
Judge(u, e, chk, x) ==
    IF \E alt \in chk.alts : Passes(alt[1], x, alt[2]) THEN [u |-> u, ok |-> TRUE]
    ELSE [u |-> IF chk.isobj THEN [u EXCEPT !.v_maddr[Cfg(e).area][Index(u, e)] = 0]
                ELSE u,
          ok |-> FALSE]

\* One round of the loop in process_checks().
Check(u, e, j, offs) ==
    LET chk == Cfg(e).checks[j]
        x   == Listed(e, j)
    IN  CASE chk.kind = "ref" ->
               IF RefFails(u, chk.ref) THEN [u |-> u, ok |-> FALSE]
               ELSE Judge(LogRef(u, chk.ref), e, chk, Ref(u, chk.ref))
          [] chk.kind = "num" ->
               IF Cfg(e).area \notin Class THEN [u |-> u, ok |-> TRUE]
               ELSE Judge(u, e, chk, Index(u, e) - 1)
          [] chk.kind = "mem" ->
               IF ~CanFill(u, x, offs) THEN [u |-> u, ok |-> FALSE]
               ELSE Judge(Read(u, x, offs), e, chk, Cached(Read(u, x, offs), x))

\* process_checks(): the first check that fails ends it.
ProcessChecks(u, e, offs) ==
    LET Step(acc, j) == IF acc.ok THEN Check(acc.u, e, j, offs) ELSE acc
    IN  FoldLeft(Step, [u |-> u, ok |-> TRUE], [j \in DOMAIN Cfg(e).checks |-> j])

-----------------------------------------------------------------------------
(* One value. *)

\* handle_dynval(): the wish value v_value[e][i] before it is used.
HandleDynval(u, e, i, read, offs) ==
    LET old == u.v_value[e][i]
        r   == Cfg(e).ref
        a   == offs + Cfg(e).vaddr
        Wish(x, v) == [x EXCEPT !.v_value[e][i] = v]
    IN  CASE Cfg(e).dynval = "max" -> Wish(u, IF read > old THEN read ELSE old)
          [] Cfg(e).dynval = "min" -> Wish(u, IF read < old THEN read ELSE old)
          [] Cfg(e).dynval = "ref" ->
               IF RefFails(u, r) THEN Wish(u, 0)
               ELSE Wish(LogRef(u, r), (Ref(u, r) + Cfg(e).add) % (MaxVal + 1))
          [] Cfg(e).dynval = "addr" ->
               IF a \in Cell
               THEN Wish([u EXCEPT !.reads = @ \cup {<<u.mem[a], u.direct[a]>>}], u.mem[a])
               ELSE u
          [] OTHER -> u

\* change_mem_val()
ChangeMemVal(u, e, i, read, offs) ==
    LET checked == ProcessChecks(u, e, offs)
        wish    == u.v_value[e][i]
    IN  IF Cfg(e).dynval = "watch" THEN u
        ELSE IF \/ ~checked.ok
                \/ ~Passes(Cfg(e).cmp, read, wish)
                \/ Cfg(e).ref # NoEntry /\ wish = 0
             THEN checked.u
             ELSE [Write(checked.u, Listed(e, 0), offs, wish) EXCEPT !.val_set[e] = TRUE]

\* MUTANT of ChangeMemory: val_set is not reset.
ChangeMemoryStaysSet(u, e, i, read, offs) ==
    LET u1 == [u EXCEPT !.v_oldval[e][i] = read]
        u2 == ChangeMemVal(HandleDynval(u1, e, i, read, offs), e, i, read, offs)
    IN  [u2 EXCEPT !.visited = @ \cup {e}]

\* change_memory()
ChangeMemory(u, e, i, read, offs) ==
    LET u1 == [u EXCEPT !.val_set[e] = FALSE, !.v_oldval[e][i] = read]
        u2 == ChangeMemVal(HandleDynval(u1, e, i, read, offs), e, i, read, offs)
    IN  [u2 EXCEPT !.visited = @ \cup {e},
                 !.top[e][offs] = IF read > @ THEN read ELSE @]

\* FILL_CACHE_AND_BUF(.., continue) and change_memory() for an active entry.
VisitPointee(u, e, i) ==
    LET x    == Listed(e, 0)
        offs == u.v_offs[Cfg(e).area][i]
        f    == Read(u, x, offs)
    IN  IF CanFill(u, x, offs) THEN ChangeMemory(f, e, i, Cached(f, x), offs) ELSE u

\* process_ptrmem(), the pointer has the value of the last time.
FollowPointer(u, e, i, read, offs) ==
    LET p       == Cfg(e).target
        checked == ProcessChecks(u, e, offs)
        u1      == [checked.u EXCEPT
                      !.v_state[p][i] = IF Cfg(e).dynval = "once" THEN "done" ELSE "settled",
                      !.v_offs[p][i] = read,
                      !.follows = @ \cup {<<read, u.lastptr[e][offs]>>},
                      !.visited = @ \ {q \in Entry : Cfg(q).area = p}]
        Visit(x, q) == VisitPointee(x, q, i)
    IN  IF ~checked.ok THEN checked.u
        ELSE WriteCaches(FoldLeft(Visit, Invalidate(u1, p), area_act[p]), p)

\* MUTANT of ProcessPtrmem: the pointer is followed at once.
ProcessPtrmemAtOnce(u, e, i, read, offs) ==
    IF read = 0 \/ u.v_state[Cfg(e).target][i] = "done" THEN u
    ELSE FollowPointer(u, e, i, read, offs)

\* process_ptrmem()
ProcessPtrmem(u, e, i, read, offs) ==
    IF read = 0 \/ u.v_state[Cfg(e).target][i] = "done" THEN u
    ELSE LET known == read = u.v_oldval[e][i]
             u1    == [u EXCEPT !.lastptr[e][offs] = read]
         IN  IF known THEN [FollowPointer(u, e, i, read, offs) EXCEPT !.lastptr[e][offs] = read]
             ELSE [u1 EXCEPT !.v_oldval[e][i] = read]

\* What process_act_cfg() and process_dynmem_cfg_act() do with one entry.
VisitEntry(u, e, i, offs) ==
    LET x == Listed(e, 0)
        f == Read(u, x, offs)
    IN  IF ~CanFill(u, x, offs) THEN u
        ELSE IF Cfg(e).target # NoEntry THEN ProcessPtrmem(f, e, i, Cached(f, x), offs)
        ELSE ChangeMemory(f, e, i, Cached(f, x), offs)

-----------------------------------------------------------------------------
(* One pass over the active entries, the game is stopped. *)

NoLog(u) == [u EXCEPT !.reads = {}, !.refs = {}, !.follows = {}]

\* MUTANT of StartObject: the caches of the last object stay valid.
StartObjectStale(u, c) ==
    [u EXCEPT !.visited = {e \in @ : IndexClass(e) \notin Class}]

\* process_dynmem_cfg_act(): the next object of class c.
StartObject(u, c) ==
    [Invalidate(u, c) EXCEPT !.visited = {e \in @ : IndexClass(e) \notin Class}]

\* process_act_cfg(): a static entry.
VisitStatic ==
    /\ phase = "process" /\ pos.i = 0 /\ pos.k <= Len(cfg_act)
    /\ LET e == cfg_act[pos.k] IN
          /\ Cfg(e).area \notin Class
          /\ w' = VisitEntry(NoLog(w), e, 1, 0)
    /\ pos' = [pos EXCEPT !.k = @ + 1]
    /\ UNCHANGED <<layoutVars, conf, cfg_act, area_act, value, pr_idx, v_msize, phase, moves>>

\* process_act_cfg(): an entry of a class, which is visited unless the dynamic
\* entry before was of the same class.
EnterClass ==
    /\ phase = "process" /\ pos.i = 0 /\ pos.k <= Len(cfg_act)
    /\ LET c == Cfg(cfg_act[pos.k]).area IN
          /\ c \in Class
          /\ \/ /\ c = pos.old \/ w.v_maddr[c] = <<>>
                /\ pos' = [pos EXCEPT !.k = @ + 1, !.old = c]
                /\ w' = NoLog(w)
             \/ /\ c # pos.old /\ w.v_maddr[c] # <<>>
                /\ pos' = [pos EXCEPT !.old = c, !.i = 1, !.j = 1]
                /\ w' = StartObject(NoLog(w), c)
    /\ UNCHANGED <<layoutVars, conf, cfg_act, area_act, value, pr_idx, v_msize, phase, moves>>

\* process_dynmem_cfg_act(): one entry of one object.  A marked object and a
\* value behind the end of the object are left alone.
VisitObject ==
    /\ phase = "process" /\ pos.i > 0 /\ pos.j <= Len(area_act[pos.old])
    /\ LET c == pos.old
           e == area_act[c][pos.j]
           a == w.v_maddr[c][pos.i]
       IN  w' = IF a = 0 \/ Cfg(e).addr + Cfg(e).size > v_msize[c][pos.i] THEN NoLog(w)
                ELSE VisitEntry([NoLog(w) EXCEPT !.obj_idx[c] = pos.i], e, pos.i, a)
    /\ pos' = [pos EXCEPT !.j = @ + 1]
    /\ UNCHANGED <<layoutVars, conf, cfg_act, area_act, value, pr_idx, v_msize, phase, moves>>

\* process_dynmem_cfg_act(): the object's caches are written back.
EndObject ==
    /\ phase = "process" /\ pos.i > 0 /\ pos.j > Len(area_act[pos.old])
    /\ LET c == pos.old
           u == WriteCaches(NoLog(w), c)
       IN  \/ /\ pos.i < Len(w.v_maddr[c])
             /\ pos' = [pos EXCEPT !.i = @ + 1, !.j = 1]
             /\ w' = StartObject(u, c)
          \/ /\ pos.i = Len(w.v_maddr[c])
             /\ pos' = [pos EXCEPT !.i = 0, !.k = @ + 1]
             /\ w' = u
    /\ UNCHANGED <<layoutVars, conf, cfg_act, area_act, value, pr_idx, v_msize, phase, moves>>

\* The end of process_act_cfg(): the static caches are written back.
EndPass ==
    /\ phase = "process" /\ pos.i = 0 /\ pos.k > Len(cfg_act)
    /\ w' = WriteCaches(NoLog(w), Static)
    /\ phase' = "output"
    /\ UNCHANGED <<layoutVars, conf, cfg_act, area_act, value, pr_idx, v_msize, pos, moves>>

-----------------------------------------------------------------------------
(* The rest of a round: objects and values come, go and are displayed. *)

LiveObj(u, c) == {i \in DOMAIN u.v_maddr[c] : u.v_maddr[c][i] # 0}

\* How often the vectors of area a grow and shrink for one object: those behind
\* pointers do so once for each entry that is a pointer to them.
Pointers(p) == {e \in Entry : Cfg(e).target = p}
Copies(a)   == IF a \in Pointee THEN Cardinality(Pointers(a)) ELSE 1

Dead(u, c) == DOMAIN u.v_maddr[c] \ LiveObj(u, c)

\* A vector of area a without the elements of the marked objects.
Erased(u, a, s) == IF AreaClass(a) \in Class
                   THEN WithoutTimes(s, Dead(u, AreaClass(a)), Copies(a)) ELSE s

\* MUTANT of Erase: one pass is made over what is behind pointers.
EraseOnce(u) ==
    LET Once(a, s) == IF AreaClass(a) \in Class THEN Without(s, Dead(u, AreaClass(a))) ELSE s
    IN  [u EXCEPT !.v_oldval = [e \in Entry |-> Once(Cfg(e).area, @[e])],
                  !.v_value  = [e \in Entry |-> Once(Cfg(e).area, @[e])],
                  !.v_state  = [p \in Pointee |-> Once(p, @[p])],
                  !.v_offs   = [p \in Pointee |-> Once(p, @[p])],
                  !.v_maddr  = [c \in Class |-> Keep(@[c], LiveObj(u, c))]]

\* free_dynmem() and free_ptrmem(): marked objects and all their values.
Erase(u) ==
    [u EXCEPT !.v_oldval = [e \in Entry |-> Erased(u, Cfg(e).area, @[e])],
              !.v_value  = [e \in Entry |-> Erased(u, Cfg(e).area, @[e])],
              !.v_state  = [p \in Pointee |-> Erased(u, p, @[p])],
              !.v_offs   = [p \in Pointee |-> Erased(u, p, @[p])],
              !.v_maddr  = [c \in Class |-> Keep(@[c], LiveObj(u, c))]]

FreeDynmem ==
    /\ w' = Erase(NoLog(w))
    /\ v_msize' = [c \in Class |-> Keep(v_msize[c], LiveObj(w, c))]

\* toggle_cfg() for one list: out if it is in, else behind the last.
ToggleIn(list, e) == IF Contains(list, e) THEN Keep(list, {i \in DOMAIN list : list[i] # e})
                     ELSE Append(list, e)

ToggleCfg(e) ==
    /\ cfg_act' = IF Cfg(e).area \in Pointee THEN cfg_act ELSE ToggleIn(cfg_act, e)
    /\ area_act' = IF Cfg(e).area = Static THEN area_act
                   ELSE [area_act EXCEPT ![Cfg(e).area] = ToggleIn(@, e)]

\* change_mvec_pridx()
ChangePridx ==
    \/ pr_idx' = [c \in Class |-> pr_idx[c] + 1]
    \/ pr_idx' = [c \in Class |-> IF pr_idx[c] > 1 THEN pr_idx[c] - 1 ELSE 1]

\* main(): a key, then free_dynmem() unless nothing is active.
StartRound ==
    /\ phase = "idle" /\ LayoutDone
    /\ \/ UNCHANGED <<cfg_act, area_act, pr_idx, moves>>
       \/ /\ moves < MaxMoves /\ moves' = moves + 1
          /\ \/ \E e \in conf.keys : ToggleCfg(e) /\ UNCHANGED pr_idx
             \/ ChangePridx /\ UNCHANGED <<cfg_act, area_act>>
    /\ \/ cfg_act' = <<>> /\ UNCHANGED <<w, v_msize, phase>>
       \/ cfg_act' # <<>> /\ FreeDynmem /\ phase' = "attach"
    /\ UNCHANGED <<layoutVars, conf, value, pos>>

\* memattach() and the start of process_act_cfg().
StartPass ==
    /\ phase = "attach"
    /\ w' = [Invalidate(NoLog(w), Static) EXCEPT !.visited = {}]
    /\ pos' = [k |-> 1, i |-> 0, j |-> 1, old |-> Static]
    /\ phase' = "process"
    /\ UNCHANGED <<layoutVars, conf, cfg_act, area_act, value, pr_idx, v_msize, moves>>

\* output_mem_values(): the object on display exists.
Clamped(u) ==
    [c \in Class |->
        LET n == Len(u.v_maddr[c]) IN
        IF n > 0 /\ pr_idx[c] > n
           /\ \E k \in DOMAIN cfg_act : Cfg(cfg_act[k]).area = c
        THEN n ELSE pr_idx[c]]

\* output_mem_values() and output_ptrmem_values() show an entry by copying its
\* values for the object on display into cfg_en->old_val and cfg_en->value.
Shown(u, idx, e) ==
    \/ /\ Cfg(e).area \in Class /\ Contains(cfg_act, e)
       /\ u.v_maddr[Cfg(e).area] # <<>>
    \/ /\ Cfg(e).area \in Pointee /\ IndexClass(e) \in Class
       /\ Contains(area_act[Cfg(e).area], e)
       /\ \E k \in DOMAIN cfg_act : Cfg(cfg_act[k]).target = Cfg(e).area
       /\ u.v_maddr[IndexClass(e)] # <<>>
       /\ u.v_offs[Cfg(e).area][idx[IndexClass(e)]] # 0
       /\ u.v_state[Cfg(e).area][idx[IndexClass(e)]] # "init"

\* memdetach(), free_dynmem() and output_mem_values().
Output ==
    /\ phase = "output"
    /\ FreeDynmem
    /\ pr_idx' = Clamped(w')
    /\ value' = [e \in Entry |-> IF Shown(w', pr_idx', e)
                                 THEN w'.v_value[e][pr_idx'[IndexClass(e)]] ELSE value[e]]
    /\ phase' = "alloc"
    /\ UNCHANGED <<layoutVars, conf, cfg_act, area_act, pos, moves>>

\* alloc_dynmem() and alloc_ptrmem(): the values of a new object of class c.
Allocate(u, c, a) ==
    LET New(area, x) == IF AreaClass(area) = c THEN [k \in 1..Copies(area) |-> x] ELSE <<>>
        Grow(vec, v) == [e \in Entry |-> vec[e] \o New(Cfg(e).area, v[e])]
        GrowPtr(vec, x) == [p \in Pointee |-> vec[p] \o New(p, x)]
        Forget(hist) == [e \in Entry |-> IF Cfg(e).area = c THEN [hist[e] EXCEPT ![a] = 0]
                                         ELSE hist[e]]
    IN  [u EXCEPT !.v_maddr[c] = Append(@, a),
                  !.v_oldval   = Grow(@, [e \in Entry |-> 0]),
                  !.v_value    = Grow(@, value),
                  !.v_state    = GrowPtr(@, "init"),
                  !.v_offs     = GrowPtr(@, 0),
                  !.lastptr    = Forget(@),
                  !.top        = Forget(@)]

\* process_mallocs() and alloc_dynmem().
Mallocs ==
    /\ phase = "alloc" /\ phase' = "idle"
    /\ \/ w' = NoLog(w) /\ UNCHANGED <<v_msize, moves>>
       \/ \E c \in Class : \E a \in conf.bases[c], n \in conf.sizes[c] :
             /\ moves < MaxMoves /\ moves' = moves + 1
             /\ ~Contains(w.v_maddr[c], a)
             /\ w' = Allocate(NoLog(w), c, a)
             /\ v_msize' = [v_msize EXCEPT ![c] = Append(@, n)]
    /\ UNCHANGED <<layoutVars, conf, cfg_act, area_act, value, pr_idx, pos>>

\* The game frees an object: clear_dynmem_addr().
GameFrees ==
    /\ phase \in {"idle", "attach"} /\ moves < MaxMoves /\ moves' = moves + 1
    /\ \E c \in Class : \E i \in LiveObj(w, c) :
          /\ w' = [NoLog(w) EXCEPT !.v_maddr[c][i] = 0]
          /\ v_msize' = [v_msize EXCEPT ![c][i] = 0]
    /\ UNCHANGED <<layoutVars, conf, cfg_act, area_act, value, pr_idx, phase, pos>>

\* The game changes one of its values.
GameWrites ==
    /\ phase = "idle" /\ LayoutDone /\ moves < MaxMoves /\ moves' = moves + 1
    /\ \E ch \in conf.changes :
          /\ w.mem[ch[1]] # ch[2]
          /\ w' = [NoLog(w) EXCEPT !.mem[ch[1]] = ch[2], !.direct[ch[1]] = ch[2]]
    /\ UNCHANGED <<layoutVars, conf, cfg_act, area_act, value, pr_idx, v_msize, phase, pos>>

-----------------------------------------------------------------------------
\* read_config() adds an element per pointer in static memory.
InitialPtr(x) ==
    [p \in Pointee |-> IF conf.owner[p] \in Class THEN <<>> ELSE [k \in 1..Copies(p) |-> x]]

Initial(e) == IF IndexClass(e) \in Class THEN <<>> ELSE <<Cfg(e).want>>

\* read_config() and build_caches() come first, see CacheLayout.tla.
Init ==
    /\ conf \in Configs
    /\ LayoutInit /\ unread = Elements(conf)
    /\ cfg_act = conf.cfg_act
    /\ area_act = conf.area_act
    /\ value = [e \in Entry |-> Cfg(e).want]
    /\ pr_idx = [c \in Class |-> 1]
    /\ v_msize = [c \in Class |-> <<>>]
    /\ w = [mem      |-> [n \in Cell |-> 0],
            direct   |-> [n \in Cell |-> 0],
            cache    |-> [a \in Area |-> <<>>],
            v_maddr  |-> [c \in Class |-> <<>>],
            obj_idx  |-> [c \in Class |-> 1],
            val_set  |-> [e \in Entry |-> FALSE],
            v_oldval |-> [e \in Entry |-> IF Initial(e) = <<>> THEN <<>> ELSE <<0>>],
            v_value  |-> [e \in Entry |-> Initial(e)],
            v_state  |-> InitialPtr("init"),
            v_offs   |-> InitialPtr(0),
            reads    |-> {}, refs |-> {}, follows |-> {}, visited |-> {},
            lastptr  |-> [e \in Entry |-> [a \in 0..MemSize |-> 0]],
            top      |-> [e \in Entry |-> [a \in 0..MemSize |-> 0]]]
    /\ phase = "config"
    /\ pos = [k |-> 1, i |-> 0, j |-> 1, old |-> Static]
    /\ moves = 0

ReadConfig ==
    /\ phase = "config" /\ LayoutNext
    /\ UNCHANGED <<conf, cfg_act, area_act, value, pr_idx, v_msize, w, phase, pos, moves>>

\* init_cache() of every cache of the layout.
StartTrainer ==
    /\ phase = "config" /\ LayoutDone /\ phase' = "idle"
    /\ w' = [w EXCEPT !.cache = [a \in Area |-> [k \in DOMAIN cache_list[a] |->
                                    [start |-> PtrMax, dirty |-> FALSE, data |-> <<>>]]]]
    /\ UNCHANGED <<layoutVars, conf, cfg_act, area_act, value, pr_idx, v_msize, pos, moves>>

Next ==
    \/ ReadConfig \/ StartTrainer
    \/ StartRound \/ StartPass
    \/ VisitStatic \/ EnterClass \/ VisitObject \/ EndObject \/ EndPass
    \/ Output \/ Mallocs
    \/ GameFrees \/ GameWrites

Spec == Init /\ [][Next]_vars
-----------------------------------------------------------------------------
Objects(a) == IF AreaClass(a) \in Class THEN Len(w.v_maddr[AreaClass(a)]) ELSE 1

(* Types: lists of entries, a memory of values, counters that start at 1,   *)
(* caches that are empty or begin at a cell.                               *)
ValuesTypeOK ==
    /\ cfg_act \in Seq(Entry) /\ value \in [Entry -> Val]
    /\ \A a \in Area : area_act[a] \in Seq(Entry)
    /\ \A c \in Class : pr_idx[c] >= 1 /\ w.obj_idx[c] >= 1
    /\ w.mem \in [Cell -> Val] /\ w.direct \in [Cell -> Val]
    /\ w.val_set \in [Entry -> BOOLEAN]
    /\ \A a \in Area : \A k \in DOMAIN w.cache[a] :
          /\ w.cache[a][k].start \in Cell \cup {PtrMax}
          /\ w.cache[a][k].dirty \in BOOLEAN
    /\ phase \in {"config", "idle", "attach", "process", "output", "alloc"}

(* The vectors of every entry have one element per object, those behind    *)
(* pointers one per object and pointer to them (memmgmt.cpp): erasing an   *)
(* object takes as many elements out of each vector as allocating it added *)
(* (alloc_ptrmem(), free_ptrmem() are called for each pointer).            *)
VectorsAligned ==
    /\ \A c \in Class : Len(v_msize[c]) = Len(w.v_maddr[c])
    /\ \A e \in Entry :
          LET a == Cfg(e).area
              n == IF AreaClass(a) \in Class THEN Copies(a) * Objects(a) ELSE 1
          IN  Len(w.v_oldval[e]) = n /\ Len(w.v_value[e]) = n
    /\ \A p \in Pointee : /\ Len(w.v_state[p]) = Copies(p) * Objects(p)
                          /\ Len(w.v_offs[p]) = Copies(p) * Objects(p)

(* Nobody can tell that there are caches: every value read from a cache is *)
(* the one the memory would hold without them, and after a pass the game   *)
(* sees the memory it would see without them (FILL_CACHE_AND_BUF,          *)
(* WRITE_CACHES, INVALIDATE_CACHES).                                       *)
Transparent ==
    /\ \A r \in w.reads : r[1] = r[2]
    /\ phase \in {"output", "alloc", "idle"} => w.mem = w.direct

(* "Made value-from-reference reliable": the value taken from an entry     *)
(* that was visited before for the same object is the value that entry     *)
(* has in memory now, read or written (handle_cfg_ref(), val_set).         *)
RefFresh == \A r \in w.refs : r[1] = r[2]

(* A pointer is followed only if this very object, not an object that had  *)
(* its index or its address before, held the same pointer the last time it *)
(* was read and was not NULL (process_ptrmem(), free_ptrmem()).            *)
FollowSeen == \A f \in w.follows : f[1] = f[2]

(* ChangeLog: "implemented a wish value per memory object for 'min' and    *)
(* 'max'".  The wish value of an object is the largest of the configured   *)
(* one and those that were read from that object.                          *)
WishOwn ==
    \A e \in Entry : Cfg(e).dynval = "max" /\ Cfg(e).area \in Class =>
        \A i \in LiveObj(w, Cfg(e).area) : LET a == w.v_maddr[Cfg(e).area][i] IN
            w.v_value[e][i] = IF w.top[e][a] > Cfg(e).want THEN w.top[e][a] ELSE Cfg(e).want

(* cfgentry.h, val_set: "Value has been written this cycle?"  After the    *)
(* pass, an entry visited for its last object whose val_set is true has    *)
(* its wish value in the game's memory.                                    *)
SetIsInMemory ==
    phase = "output" =>
        \A e \in w.visited : w.val_set[e] /\ Offs(w, e, Index(w, e)) # 0 =>
            w.mem[Offs(w, e, Index(w, e)) + Cfg(e).addr] = w.v_value[e][Index(w, e)]
=============================================================================
