------------------------------ MODULE Contention ------------------------------
(***************************************************************************)
(* scripts/runcontention.sh and fs_benchmarks/contention.cpp.  The script  *)
(* makes one file per wave; wave w starts readers 1..w in the background,  *)
(* reader r of each wave on file r, sleeps a quarter of a second and goes  *)
(* on, so that the readers of several waves may run at the same time.  At  *)
(* the end it removes the files.  A reader drops all page caches, opens    *)
(* its file, advises the kernel to drop the file's pages, reads the file   *)
(* block by block and appends the average to a file of its number.         *)
(***************************************************************************)
EXTENDS Naturals, FiniteSets

CONSTANTS Waves,        \* 8 in the script
          FileBlocks,   \* blocks of a file made by the script: 64 * 10^6 bytes
          Turns         \* blocks the program reads and counts: 64 * 2^20 bytes

ASSUME ContentionAssumption == /\ Waves \in Nat \ {0}
                               /\ FileBlocks \in Nat \ {0} /\ Turns \in Nat \ {0}
                               /\ FileBlocks <= Turns

Files == 1..Waves
Blocks == 0..(FileBlocks - 1)

\* A reader process, named by its wave and its number.
Readers == {p \in Files \X Files : p[2] <= p[1]}
File(p) == p[2]

VARIABLES
  spc, wave,    \* the script: make, launch, sleep, clean, end; its wave
  exists,       \* files that have a name
  pc,           \* a reader: none, drop, open, advise, read, append, gone
  opened,       \* readers whose open() succeeded
  turn,         \* a reader's turn of its loop
  hits,         \* readers that hit the cache
  met,          \* readers that read at the same time as another one of their file
  cache         \* a file's blocks in the page cache

vars == <<spc, wave, exists, pc, opened, turn, hits, met, cache>>

script == <<spc, wave, exists>>
seen == <<hits, met>>

Init == /\ spc = "make" /\ wave = 1
        /\ exists = {}
        /\ pc = [p \in Readers |-> "none"]
        /\ opened = {} /\ turn = [p \in Readers |-> 0]
        /\ hits = {} /\ met = {}
        /\ cache = [f \in Files |-> {}]

-----------------------------------------------------------------------------
(* The script.                                                             *)

\* cat writes the wave's file, whose pages are then in the cache.
MakeFile == /\ spc = "make"
            /\ spc' = "launch"
            /\ exists' = exists \union {wave}
            /\ cache' = [cache EXCEPT ![wave] = Blocks]
            /\ UNCHANGED <<wave, pc, opened, turn, seen>>

\* COMMAND has grown by one reader per wave, all of them are started again.
Launch == /\ spc = "launch"
          /\ spc' = "sleep"
          /\ pc' = [p \in Readers |-> IF p[1] = wave THEN "drop" ELSE pc[p]]
          /\ UNCHANGED <<wave, exists, opened, turn, seen, cache>>

Sleep_NoLastWave == /\ spc = "sleep"
                    /\ spc' = "make" /\ wave' = wave + 1
                    /\ UNCHANGED <<exists, pc, opened, turn, seen, cache>>

\* The sleep ends, whether or not the readers have.
Sleep == /\ spc = "sleep"
         /\ IF wave < Waves THEN spc' = "make" /\ wave' = wave + 1
                            ELSE spc' = "clean" /\ UNCHANGED wave
         /\ UNCHANGED <<exists, pc, opened, turn, seen, cache>>

\* rm takes one file's name away; those who opened it keep it.
Remove == /\ spc = "clean"
          /\ \E f \in exists :
               /\ \A g \in exists : f <= g
               /\ exists' = exists \ {f}
          /\ spc' = IF exists' = {} THEN "end" ELSE "clean"
          /\ UNCHANGED <<wave, pc, opened, turn, seen, cache>>

-----------------------------------------------------------------------------
(* A reader.                                                               *)

\* sync and drop_caches empty the page cache of every file.
DropCaches(p) == /\ pc[p] = "drop"
                 /\ pc' = [pc EXCEPT ![p] = "open"]
                 /\ cache' = [f \in Files |-> {}]
                 /\ UNCHANGED <<script, opened, turn, seen>>

\* system() fails: the reader returns without a result.
DropFails(p) == /\ pc[p] = "drop"
                /\ pc' = [pc EXCEPT ![p] = "gone"]
                /\ UNCHANGED <<script, opened, turn, seen, cache>>

\* open() of a file that is already removed fails, which goes unnoticed.
Open(p) == /\ pc[p] = "open"
           /\ pc' = [pc EXCEPT ![p] = "advise"]
           /\ opened' = IF File(p) \in exists THEN opened \union {p} ELSE opened
           /\ UNCHANGED <<script, turn, seen, cache>>

\* The other readers of p's file that are reading it now.
Others(p) == {q \in Readers \ {p} : File(q) = File(p) /\ pc[q] = "read"}

Advise_Not(p) == /\ pc[p] = "advise"
                 /\ p \in opened
                 /\ pc' = [pc EXCEPT ![p] = "read"]
                 /\ met' = IF Others(p) = {} THEN met ELSE met \union {p} \union Others(p)
                 /\ UNCHANGED <<script, opened, turn, hits, cache>>

\* Seek to the beginning and advise the kernel to drop the file's pages.
Advise(p) == /\ pc[p] = "advise"
             /\ p \in opened
             /\ pc' = [pc EXCEPT ![p] = "read"]
             /\ cache' = [cache EXCEPT ![File(p)] = {}]
             /\ met' = IF Others(p) = {} THEN met ELSE met \union {p} \union Others(p)
             /\ UNCHANGED <<script, opened, turn, hits>>

\* The advice fails, always without a descriptor: (uint64_t)-1 is the result.
AdviceFails(p) == /\ pc[p] = "advise"
                  /\ pc' = [pc EXCEPT ![p] = "append"]
                  /\ UNCHANGED <<script, opened, turn, seen, cache>>

ReadBlock_UntilBytes(p) ==
                /\ pc[p] = "read"
                /\ turn[p] < FileBlocks
                /\ turn' = [turn EXCEPT ![p] = @ + 1]
                /\ pc' = [pc EXCEPT ![p] = IF turn[p] + 1 = Turns THEN "append" ELSE "read"]
                /\ UNCHANGED <<script, opened, seen, cache>>

\* One turn of the loop reads the next block, or nothing at the end of the file.
ReadBlock(p) == /\ pc[p] = "read"
                /\ IF turn[p] < FileBlocks
                     THEN /\ hits' = IF turn[p] \in cache[File(p)]
                                       THEN hits \union {p} ELSE hits
                          /\ cache' = [cache EXCEPT ![File(p)] = @ \union {turn[p]}]
                     ELSE UNCHANGED <<hits, cache>>
                /\ turn' = [turn EXCEPT ![p] = @ + 1]
                /\ pc' = [pc EXCEPT ![p] = IF turn[p] + 1 = Turns THEN "append" ELSE "read"]
                /\ UNCHANGED <<script, opened, met>>

\* The result is appended, the reader exits.
Append(p) == /\ pc[p] = "append"
             /\ pc' = [pc EXCEPT ![p] = "gone"]
             /\ UNCHANGED <<script, opened, turn, seen, cache>>

-----------------------------------------------------------------------------
Script == MakeFile \/ Launch \/ Sleep \/ Remove
Reader(p) == \/ DropCaches(p) \/ DropFails(p) \/ Open(p) \/ Advise(p)
             \/ AdviceFails(p) \/ ReadBlock(p) \/ Append(p)

Next == Script \/ \E p \in Readers : Reader(p)

\* The script and each reader are scheduled while they can run.
Spec == Init /\ [][Next]_vars /\ WF_vars(Script) /\ \A p \in Readers : WF_vars(Reader(p))

-----------------------------------------------------------------------------
(* Properties.                                                             *)

TypeOK == /\ spc \in {"make", "launch", "sleep", "clean", "end"}
          /\ wave \in Files /\ exists \subseteq Files
          /\ pc \in [Readers -> {"none", "drop", "open", "advise", "read",
                                 "append", "gone"}]
          /\ opened \subseteq Readers
          /\ turn \in [Readers -> 0..Turns]
          /\ hits \subseteq Readers /\ met \subseteq Readers
          /\ cache \in [Files -> SUBSET Blocks]

\* A reader whose file nobody else was reading meanwhile never hits the page
\* cache: neither the script's cat, nor a reader of an earlier wave that came
\* between its drop of the caches and its advice leaves a page behind.
ColdAlone == hits \subseteq met

\* The run ends: all readers exit and the files are gone.
RunEnds == <>[](spc = "end" /\ exists = {} /\ \A p \in Readers : pc[p] = "gone")
=============================================================================
