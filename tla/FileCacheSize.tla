---------------------------- MODULE FileCacheSize ----------------------------
(***************************************************************************)
(* fs_benchmarks/filecache_size.cpp: for each size, the beginning of one   *)
(* large file is read twice and only the second pass is timed, to see from *)
(* which size on it no longer fits into the page cache.                    *)
(*                                                                         *)
(* The page cache is the kernel's, modelled as the program's method takes  *)
(* it to be: it holds Capacity blocks and reclaims the one that was used   *)
(* longest ago.  Everything is counted in blocks of BUF_SIZE bytes.        *)
(***************************************************************************)
EXTENDS Naturals, Sequences, SequencesExt

CONSTANTS FileBlocks,    \* blocks of temp_file
          Sizes,         \* the sizes measured
          Samples,
          Capacity       \* blocks that the page cache holds

ASSUME CacheAssumption ==
  /\ FileBlocks \in Nat \ {0} /\ Samples \in Nat \ {0} /\ Capacity \in Nat \ {0}
  /\ Sizes \in Seq(Nat \ {0}) /\ Sizes # <<>>

VARIABLES
  pc,        \* start, seek, read, done, failed
  opened,    \* open() succeeded
  k, j,      \* size and sample
  timed,     \* the pass is the second one
  i,         \* blocks asked for in this pass
  pos,       \* the file offset
  cache,     \* the blocks in the page cache, the last one used most recently
  misses,    \* reads of this pass that went to the disk
  empty      \* reads of this pass that returned no data

vars == <<pc, opened, k, j, timed, i, pos, cache, misses, empty>>

Blocks == 0..(FileBlocks - 1)
Size == Sizes[k]
Cached == ToSet(cache)

Init == /\ pc = "start" /\ opened = FALSE
        /\ k = 1 /\ j = 0 /\ timed = FALSE
        /\ i = 0 /\ pos = 0 /\ misses = 0 /\ empty = 0
        /\ cache = <<>>

-----------------------------------------------------------------------------
\* The page caches are dropped; open() may fail unnoticed.
Start == /\ pc = "start"
         /\ pc' = "seek"
         /\ opened' \in BOOLEAN
         /\ cache' = <<>>
         /\ UNCHANGED <<k, j, timed, i, pos, misses, empty>>

DropFails == /\ pc = "start"
             /\ pc' = "failed"
             /\ UNCHANGED <<opened, k, j, timed, i, pos, cache, misses, empty>>

Rewind_Not == /\ pc = "seek"
              /\ pc' = "read"
              /\ i' = 0 /\ misses' = 0 /\ empty' = 0
              /\ UNCHANGED <<opened, k, j, timed, pos, cache>>

\* A pass begins at the beginning of the file.
Rewind == /\ pc = "seek"
          /\ pc' = "read"
          /\ pos' = 0
          /\ i' = 0 /\ misses' = 0 /\ empty' = 0
          /\ UNCHANGED <<opened, k, j, timed, cache>>

\* The cache after block b has been used.
Use(b) == LET rest == RemoveFirst(cache, b)
          IN  IF Len(rest) < Capacity THEN Append(rest, b) ELSE Append(Tail(rest), b)

\* One turn of the loop; at the end of the file read() returns nothing.
Read == /\ pc = "read"
        /\ i < Size
        /\ i' = i + 1
        /\ IF opened /\ pos < FileBlocks
             THEN /\ pos' = pos + 1
                  /\ cache' = Use(pos)
                  /\ misses' = IF pos \in Cached THEN misses ELSE misses + 1
                  /\ UNCHANGED empty
             ELSE empty' = empty + 1 /\ UNCHANGED <<pos, cache, misses>>
        /\ UNCHANGED <<pc, opened, k, j, timed>>

PassOver == pc = "read" /\ i >= Size

\* The second pass follows the first.
SecondPass == /\ PassOver /\ ~timed
              /\ timed' = TRUE
              /\ pc' = "seek"
              /\ UNCHANGED <<opened, k, j, i, pos, cache, misses, empty>>

NextSample_PastEnd ==
  /\ PassOver /\ timed
  /\ timed' = FALSE
  /\ pc' = "seek"
  /\ \/ j + 1 < Samples /\ j' = j + 1 /\ UNCHANGED k
     \/ j + 1 = Samples /\ k <= Len(Sizes) /\ j' = 0 /\ k' = k + 1
  /\ UNCHANGED <<opened, i, pos, cache, misses, empty>>

\* The time of the second pass is the sample; sizes follow samples.
NextSample == /\ PassOver /\ timed
              /\ timed' = FALSE
              /\ \/ j + 1 < Samples /\ j' = j + 1 /\ pc' = "seek" /\ UNCHANGED k
                 \/ j + 1 = Samples /\ k < Len(Sizes) /\ j' = 0 /\ k' = k + 1 /\ pc' = "seek"
                 \/ j + 1 = Samples /\ k = Len(Sizes) /\ pc' = "done" /\ UNCHANGED <<j, k>>
              /\ UNCHANGED <<opened, i, pos, cache, misses, empty>>

\* Another process has a block of the file read into the cache, or back again.
Disturb == /\ pc = "seek" /\ ~timed
           /\ \E b \in Blocks : cache' = Use(b)
           /\ UNCHANGED <<pc, opened, k, j, timed, i, pos, misses, empty>>

Next == Start \/ DropFails \/ Rewind \/ Read \/ SecondPass \/ NextSample \/ Disturb

Spec == Init /\ [][Next]_vars

-----------------------------------------------------------------------------
(* Properties.                                                             *)

TypeOK == /\ pc \in {"start", "seek", "read", "done", "failed"}
          /\ opened \in BOOLEAN /\ timed \in BOOLEAN
          /\ k \in 1..Len(Sizes) /\ j \in 0..(Samples - 1)
          /\ i \in Nat /\ pos \in 0..FileBlocks
          /\ cache \in Seq(Blocks) /\ Len(cache) <= Capacity
          /\ IsInjective(cache)
          /\ misses \in Nat /\ empty \in Nat

\* A timed pass over a size that fits reads nothing from the disk, and one that
\* does not fit reads everything, although most of it is in the cache: that is
\* the step in the times that the program looks for (lines 64-68), and it does
\* not depend on what earlier sizes and samples left in the cache.
StepAtCapacity ==
  opened /\ Size <= FileBlocks /\ timed /\ pc = "read" =>
    misses = IF Size <= Capacity THEN 0 ELSE i
=============================================================================
