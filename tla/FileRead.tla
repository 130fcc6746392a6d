------------------------------- MODULE FileRead -------------------------------
(***************************************************************************)
(* fs_benchmarks/fileread.cpp: timed reads of one large file, of which the *)
(* last Sizes[k] blocks stand for a file of that size.  A sequential pass  *)
(* reads backwards, a random pass at random distances from the end; each   *)
(* sample first advises the kernel to drop cached pages and each size is   *)
(* averaged over Samples samples without the first.                        *)
(*                                                                         *)
(* fs_benchmarks/remote_fileread.cpp is a copy for a mounted file in which *)
(* the call of the sequential pass and the read() of the random pass are   *)
(* commented out: it times seeks.                                          *)
(*                                                                         *)
(* Everything is counted in blocks of BUF_SIZE bytes.  The random distance *)
(* is multiplied by BUF_SIZE as an int, which holds -Half * BUF_SIZE but   *)
(* nothing below (Half = 2^31 / BUF_SIZE); the compiled product wraps.     *)
(***************************************************************************)
EXTENDS Naturals, Sequences

CONSTANTS FileBlocks,    \* blocks of temp_file
          Sizes,         \* the sizes measured, in blocks
          Samples,       \* samples for each size
          Half

ASSUME FileAssumption ==
  /\ FileBlocks \in Nat \ {0} /\ Half \in Nat \ {0}
  /\ Samples \in Nat \ {0}
  /\ Sizes \in Seq(Nat \ {0}) /\ Sizes # <<>>
  /\ \A k \in 1..Len(Sizes) : Sizes[k] <= FileBlocks /\ Sizes[k] <= 2 * Half

VARIABLES
  program,   \* local (fileread) or remote (remote_fileread)
  pc,        \* start, begin, loop, done, failed
  phase,     \* seq, rand
  opened,    \* open() succeeded
  k, j, i,   \* size, sample, and turn of the read loop
  pos,       \* the file offset; at or beyond FileBlocks read() returns 0
  cache,     \* the file's blocks in the page cache
  touched,   \* blocks the sample has read
  hits,      \* blocks of which the page cache answered the sample's first read
  eofs,      \* reads of the sample that returned 0
  earlier    \* no variable of the code: blocks read by the phase's earlier samples

vars == <<program, pc, phase, opened, k, j, i, pos, cache, touched, hits, eofs, earlier>>

reads == <<touched, hits, eofs>>
sample == <<reads, earlier>>
Blocks == 0..(FileBlocks - 1)

\* fileSize / BUF_SIZE of the current sample.
N == Sizes[k]

Draw_FromZero(n) == 0..n

\* generate_random_number
Draw(n) == 1..n

Target_Unsigned(n) == FileBlocks + 2 * Half - n

\* Where lseek(fd, -n * BUF_SIZE, SEEK_END) leads, the product being an int.
Target(n) == IF n <= Half THEN FileBlocks - n ELSE FileBlocks + 2 * Half - n

Init == /\ program \in {"local", "remote"}
        /\ pc = "start" /\ phase = "seq" /\ opened = FALSE
        /\ k = 1 /\ j = 0 /\ i = 2 /\ pos = 0
        /\ cache \in SUBSET Blocks
        /\ touched = {} /\ hits = {} /\ eofs = 0 /\ earlier = {}

-----------------------------------------------------------------------------
StartPhase_DropOnce ==
              /\ pc = "start"
              /\ pc' = "begin"
              /\ cache' = IF phase = "seq" THEN {} ELSE cache
              /\ earlier' = {}
              /\ opened' \in BOOLEAN
              /\ pos' = 0
              /\ UNCHANGED <<program, phase, k, j, i, reads>>

\* The page caches are dropped and the file is opened, which may fail unnoticed.
StartPhase == /\ pc = "start"
              /\ pc' = "begin"
              /\ cache' = {} /\ earlier' = {}
              /\ opened' \in BOOLEAN
              /\ pos' = 0
              /\ UNCHANGED <<program, phase, k, j, i, reads>>

\* system() fails and the program returns -1.
DropFails == /\ pc = "start"
             /\ pc' = "failed"
             /\ UNCHANGED <<program, phase, opened, k, j, i, pos, cache, sample>>

\* Where a pass is called at all.
BeginPass == pc = "begin" /\ (program = "remote" => phase = "rand")

\* Seek to one block before the end and advise the kernel to drop the pages of
\* the first N blocks.
BeginSample == /\ BeginPass /\ opened
               /\ pc' = "loop"
               /\ pos' = FileBlocks - 1
               /\ cache' = cache \ (0..(N - 1))
               /\ i' = 2
               /\ touched' = {} /\ hits' = {} /\ eofs' = 0
               /\ UNCHANGED <<program, phase, opened, k, j, earlier>>

\* The advice fails: the sample is (uint64_t)-1 and the program goes on.
AdviceFails == /\ BeginPass
               /\ pc' = "loop"
               /\ i' = N
               /\ touched' = {} /\ hits' = {} /\ eofs' = 0
               /\ pos' = IF opened THEN FileBlocks - 1 ELSE pos
               /\ UNCHANGED <<program, phase, opened, k, j, cache, earlier>>

\* The sample of a sequential pass that is not called: its time is 0.
SkipSample == /\ pc = "begin" /\ ~BeginPass
              /\ pc' = "loop"
              /\ i' = N
              /\ UNCHANGED <<program, phase, opened, k, j, pos, cache, sample>>

\* read() of a block at the file offset.
ReadBlock == IF pos < FileBlocks
               THEN /\ touched' = touched \union {pos}
                    /\ hits' = IF pos \in cache \ touched THEN hits \cup {pos} ELSE hits
                    /\ cache' = cache \union {pos}
                    /\ UNCHANGED eofs
               ELSE /\ eofs' = eofs + 1
                    /\ UNCHANGED <<touched, hits, cache>>

SeqRead_SkipOne ==
           /\ pc = "loop" /\ phase = "seq" /\ i < N
           /\ ReadBlock
           /\ pos' = FileBlocks - (i + 1)
           /\ i' = i + 1
           /\ UNCHANGED <<program, pc, phase, opened, k, j, earlier>>

\* A turn of sequential_reads: i is a long double, its product does not wrap.
SeqRead == /\ pc = "loop" /\ phase = "seq" /\ i < N
           /\ ReadBlock
           /\ pos' = FileBlocks - i
           /\ i' = i + 1
           /\ UNCHANGED <<program, pc, phase, opened, k, j, earlier>>

\* A turn of random_reads.
RandRead == /\ program = "local"
            /\ pc = "loop" /\ phase = "rand" /\ i < N
            /\ ReadBlock
            /\ \E n \in Draw(N) : pos' = Target(n)
            /\ i' = i + 1
            /\ UNCHANGED <<program, pc, phase, opened, k, j, earlier>>

\* The same without the read.
RandSeek == /\ program = "remote"
            /\ pc = "loop" /\ phase = "rand" /\ i < N
            /\ \E n \in Draw(N) : pos' = Target(n)
            /\ i' = i + 1
            /\ UNCHANGED <<program, pc, phase, opened, k, j, cache, sample>>

\* The sample is over: take the next one, the next size or the next phase.
SampleOver == pc = "loop" /\ i >= N

NextSample == /\ SampleOver
              /\ j + 1 < Samples
              /\ j' = j + 1
              /\ pc' = "begin"
              /\ earlier' = earlier \cup touched
              /\ UNCHANGED <<program, phase, opened, k, i, pos, cache, reads>>

NextSize == /\ SampleOver
            /\ j + 1 = Samples
            /\ k < Len(Sizes)
            /\ j' = 0
            /\ k' = k + 1
            /\ pc' = "begin"
            /\ earlier' = earlier \cup touched
            /\ UNCHANGED <<program, phase, opened, i, pos, cache, reads>>

\* After the sequential passes the file is closed and opened again.
NextPhase == /\ SampleOver
             /\ j + 1 = Samples
             /\ k = Len(Sizes)
             /\ IF phase = "seq"
                  THEN phase' = "rand" /\ pc' = "start" /\ j' = 0 /\ k' = 1
                  ELSE pc' = "done" /\ UNCHANGED <<program, phase, j, k>>
             /\ UNCHANGED <<program, opened, i, pos, cache, sample>>

\* The kernel reclaims a cached page.
Evict == /\ pc \notin {"done", "failed"}
         /\ \E b \in cache : cache' = cache \ {b}
         /\ UNCHANGED <<program, pc, phase, opened, k, j, i, pos, sample>>

Next == \/ StartPhase \/ DropFails \/ BeginSample \/ AdviceFails \/ SkipSample
        \/ SeqRead \/ RandRead \/ RandSeek \/ NextSample \/ NextSize \/ NextPhase \/ Evict

Spec == Init /\ [][Next]_vars

-----------------------------------------------------------------------------
(* Properties.                                                             *)

\* A sample that is being read, or has been, without an error.
Measured == pc = "loop" /\ i <= N /\ (touched # {} \/ eofs > 0)

TypeOK == /\ program \in {"local", "remote"}
          /\ pc \in {"start", "begin", "loop", "done", "failed"}
          /\ phase \in {"seq", "rand"} /\ opened \in BOOLEAN
          /\ k \in 1..Len(Sizes) /\ j \in 0..(Samples - 1)
          /\ i \in Nat
          /\ pos \in 0..(FileBlocks + Half)
          /\ cache \subseteq Blocks /\ touched \subseteq Blocks
          /\ hits \subseteq Blocks /\ eofs \in Nat
          /\ earlier \subseteq Blocks

\* A sequential pass reads backwards from the last block without a gap, and
\* never at the end of the file: after i - 2 reads it has read i - 2 blocks.
SeqCovers == Measured /\ phase = "seq" =>
               /\ touched = (FileBlocks - (i - 2))..(FileBlocks - 1)
               /\ eofs = 0

\* Whatever the page cache held when the program began, and whatever the other
\* phase left in it: a sample, sequential or random, finds no block there but those
\* that an earlier sample of its own phase has read, and none of these that the
\* advice covers. So the first sample of a phase is cold, whatever its size, and
\* every sample is whose size is the whole file. (Where file and size differ, the
\* advice is about the file's beginning and the reads are at its end: the blocks of
\* earlier samples that it misses are the only ones left to be found.)
HitsAreOwn == pc = "loop" => hits \subseteq earlier \ (0..(N - 1))

\* A random pass reads and seeks only to blocks of the tail that stands for the
\* file, and never reads at the end of the file, if its distances fit an int.
\* That is so for every size of remote_fileread, and for fileread up to 2 GB: its
\* 4 GB wrap, and many of its reads return nothing.
RandomInTail == pc = "loop" /\ phase = "rand" /\ opened /\ N <= Half =>
                  /\ touched \cup {pos} \subseteq (FileBlocks - N)..(FileBlocks - 1)
                  /\ eofs = 0
=============================================================================
