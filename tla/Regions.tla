------------------------------- MODULE Regions -------------------------------
(***************************************************************************)
(* How /proc/$pid/maps becomes the list of regions (rlist): read_maps()    *)
(* calls process_map() for every line.  process_map() keeps what it knows  *)
(* of the ELF file it is in the middle of in static variables, which are   *)
(* never reset: they also carry over to the next reading.                  *)
(*                                                                         *)
(* A line is a record [start, end, r, x, w, file] and not empty.           *)
(***************************************************************************)
EXTENDS Naturals, Sequences, SequencesExt

CONSTANTS
    ExePath,      \* what /proc/$pid/exe points to
    NoFile,       \* an anonymous mapping: file_path[0] is '\0'
    HeapPath,     \* "[heap]"
    StackPath,    \* "[stack]"
    StaticLoad    \* the load addresses of an executable without PIE

(***************************************************************************)
(* The static variables of process_map().                                  *)
(***************************************************************************)
InitScan == [codePath |-> NoFile, codeRegions |-> 0, exeRegions |-> 0, isExe |-> FALSE,
             prevEnd |-> 0, loadAddr |-> 0, exeLoad |-> 0]

\* The line does not belong to the ELF file of the lines before it.
LeavesFile(s, map) ==
    \/ map.x
    \/ /\ map.file # s.codePath
       /\ map.file # NoFile \/ map.start # s.prevEnd
    \/ s.codeRegions >= 4

\* MUTANT of Continue: the count of the executable's regions is not reset.
ContinueNoReset(s, map) ==
    IF s.codeRegions = 0 THEN s
    ELSE IF LeavesFile(s, map) THEN [s EXCEPT !.codeRegions = 0, !.isExe = FALSE]
         ELSE [s EXCEPT !.codeRegions = @ + 1,
                        !.exeRegions = IF s.isExe THEN @ + 1 ELSE @]

\* First part: further regions of the same ELF file and its end.
Continue(s, map) ==
    IF s.codeRegions = 0 THEN s
    ELSE IF LeavesFile(s, map)
         THEN [s EXCEPT !.codeRegions = 0, !.isExe = FALSE,
                        !.exeRegions = IF @ > 1 THEN 0 ELSE @]
         ELSE [s EXCEPT !.codeRegions = @ + 1,
                        !.exeRegions = IF s.isExe THEN @ + 1 ELSE @]

\* Second part: the first region of an ELF file, or the second one of the
\* executable after skipping what the loader has put into its gap.
Open(s, map) ==
    LET text  == map.x /\ map.file # NoFile
        again == ~text /\ s.exeRegions = 1 /\ map.file = ExePath
        o     == IF text
                 THEN [s EXCEPT !.codeRegions = 1, !.codePath = map.file,
                                !.exeRegions = IF map.file = ExePath THEN 1 ELSE @,
                                !.exeLoad = IF map.file = ExePath THEN map.start ELSE @,
                                !.isExe = @ \/ map.file = ExePath]
                 ELSE IF again
                 THEN [s EXCEPT !.codeRegions = s.exeRegions + 1, !.exeRegions = @ + 1,
                                !.loadAddr = s.exeLoad, !.isExe = TRUE, !.codePath = map.file]
                 ELSE s
    IN  IF s.codeRegions > 0 THEN s
        ELSE IF o.exeRegions < 2 THEN [o EXCEPT !.loadAddr = map.start] ELSE o

RegionType(s, map) ==
    IF s.isExe THEN "exe"
    ELSE IF s.codeRegions > 0 THEN "code"
    ELSE IF map.file = HeapPath THEN "heap"
    ELSE IF map.file = StackPath THEN "stack"
    ELSE "misc"

\* Regions that can be read and written or executed are listed.
IsListed(map) == map.r /\ (map.w \/ map.x)

\* process_map(): also lines that are not listed are regions of their file.
ProcessMap(acc, map) ==
    LET s == [Open(Continue(acc.scan, map), map) EXCEPT !.prevEnd = map.end]
        r == [start |-> map.start, end |-> map.end, x |-> map.x, file |-> map.file,
              type |-> RegionType(s, map), load |-> s.loadAddr]
    IN  [scan |-> s, rlist |-> IF IsListed(map) THEN Append(acc.rlist, r) ELSE acc.rlist]

\* read_regions(): rlist_clear(), then read_maps() with process_map().
ReadRegions(scan, maps) == FoldLeft(ProcessMap, [scan |-> scan, rlist |-> <<>>], maps)

-----------------------------------------------------------------------------
\* find_exe_region() and calc_exe_offs(): the start of the first executable
\* region of the executable; without one the caller's 0 stays.
ExeOffsOf(rlist) ==
    LET exe == {k \in DOMAIN rlist : rlist[k].type = "exe" /\ rlist[k].x}
    IN  IF exe = {} \/ rlist[Min(exe)].start \in StaticLoad THEN 0 ELSE rlist[Min(exe)].start

\* MUTANT of BoundsOf: the end is one byte behind the region.
BoundsOfWide(rlist, type, old) ==
    LET hits == {k \in DOMAIN rlist : rlist[k].type = type}
    IN  IF hits = {} THEN old ELSE <<rlist[Min(hits)].start, rlist[Min(hits)].end + 1>>

\* find_heap_region(), find_stack_bounds(): the caller's values if there is none.
BoundsOf(rlist, type, old) ==
    LET hits == {k \in DOMAIN rlist : rlist[k].type = type}
    IN  IF hits = {} THEN old ELSE <<rlist[Min(hits)].start, rlist[Min(hits)].end>>

(***************************************************************************)
(* find_lib_regions(): every executable region of a library, in this       *)
(* order, gives its start to the first entry of opt->lib_list that has no  *)
(* start and whose name is a part of the path.                             *)
(***************************************************************************)
\* MUTANT of FindLib: also the data regions count, and a start is overwritten.
FindLibAnyRegion(libs, start, r, fits) ==
    LET hits == {k \in DOMAIN libs : r.file \in fits[libs[k]]}
    IN  IF r.type = "code" /\ hits # {} THEN [start EXCEPT ![libs[Min(hits)]] = r.start] ELSE start

FindLib(libs, start, r, fits) ==
    LET hits == {k \in DOMAIN libs : start[libs[k]] = 0 /\ r.file \in fits[libs[k]]}
    IN  IF r.type = "code" /\ r.x /\ hits # {}
        THEN [start EXCEPT ![libs[Min(hits)]] = r.start]
        ELSE start

FindLibRegions(libs, start, rlist, fits) ==
    FoldLeft(LAMBDA st, r : FindLib(libs, st, r, fits), start, rlist)
=============================================================================
