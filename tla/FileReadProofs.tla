---------------------------- MODULE FileReadProofs ----------------------------
(***************************************************************************)
(* Proofs about FileRead: for a file, a list of sizes, a number of samples *)
(* and an int of any size, sequential passes read the blocks they are      *)
(* meant to read, random passes stay in their tail of the file, and the    *)
(* page cache answers for no block but those of earlier samples of the     *)
(* same phase that the advice misses.                                      *)
(***************************************************************************)
EXTENDS FileRead, SequenceTheorems, TLAPS

\* What a pass has read after turn i of its loop: the blocks behind the offset.
SeqState == /\ i >= 2 /\ (i > 2 => i <= N)
            /\ pos = FileBlocks - (i - 1)
            /\ touched = (FileBlocks - (i - 2))..(FileBlocks - 1)
            /\ eofs = 0

\* A sample that was skipped or whose advice failed has read nothing.
NoRead == touched = {} /\ hits = {} /\ eofs = 0

SeqOK == pc = "loop" /\ phase = "seq" =>
           (program = "local" /\ SeqState) \/ (i >= N /\ NoRead)

\* The remote program never reads.
RemoteOK == program = "remote" => NoRead

\* The blocks of earlier samples that the advice of this one misses.
Leftover == earlier \ (0..(N - 1))

\* What is in the cache was read in this phase; and while a sample has reads ahead
\* of it, so that its advice was taken, by itself or it is left over.
CacheOK == /\ pc = "begin" => cache \subseteq earlier
           /\ pc = "loop" => /\ cache \subseteq earlier \cup touched
                             /\ i < N => cache \subseteq Leftover \cup touched

IInv == TypeOK /\ SeqOK /\ RemoteOK /\ RandomInTail /\ CacheOK /\ HitsAreOwn

-----------------------------------------------------------------------------
\* A size is a positive number of blocks of the file.
LEMMA SizeType == ASSUME k \in 1..Len(Sizes)
                  PROVE  N \in 1..FileBlocks /\ N <= 2 * Half
BY FileAssumption DEF N

\* A random distance leads into the tail of the file if it fits an int, and
\* otherwise to the end of the file or behind it.
LEMMA TargetType ==
  ASSUME k \in 1..Len(Sizes), NEW n \in Draw(N)
  PROVE  /\ Target(n) \in 0..(FileBlocks + Half)
         /\ N <= Half => Target(n) \in (FileBlocks - N)..(FileBlocks - 1)
BY SizeType, FileAssumption DEF Target, Draw

\* A read at the offset keeps the types.
LEMMA ReadType == ASSUME TypeOK, ReadBlock
                  PROVE  /\ cache' \subseteq Blocks /\ touched' \subseteq Blocks
                         /\ hits' \subseteq Blocks /\ eofs' \in Nat
<1>1. CASE pos < FileBlocks
  <2>1. pos \in Blocks BY <1>1, FileAssumption DEF TypeOK, Blocks
  <2>2. /\ touched' = touched \cup {pos} /\ cache' = cache \cup {pos}
        /\ hits' \in {hits, hits \cup {pos}} /\ eofs' = eofs
    BY <1>1 DEF ReadBlock
  <2> QED BY <2>1, <2>2 DEF TypeOK
<1>2. CASE ~(pos < FileBlocks)
  BY <1>2 DEF ReadBlock, TypeOK
<1> QED BY <1>1, <1>2

\* A read of a sample whose advice was taken keeps what is said of the cache: a
\* block that is found there and that the sample has not read is left over.
LEMMA ReadCache ==
  ASSUME CacheOK, HitsAreOwn, pc = "loop", i < N, ReadBlock,
         UNCHANGED <<pc, k, earlier>>
  PROVE  CacheOK' /\ HitsAreOwn'
<1>1. Leftover' = Leftover /\ N' = N /\ Leftover \subseteq earlier
  BY DEF Leftover, N
<1>2. cache \subseteq Leftover \cup touched /\ hits \subseteq Leftover
  BY DEF CacheOK, HitsAreOwn, Leftover
<1>3. /\ cache' \subseteq Leftover \cup touched'
      /\ hits' \subseteq Leftover
  <2>1. CASE pos < FileBlocks
    <3>1. /\ touched' = touched \cup {pos} /\ cache' = cache \cup {pos}
          /\ hits' = IF pos \in cache \ touched THEN hits \cup {pos} ELSE hits
      BY <2>1 DEF ReadBlock
    <3> QED BY <1>2, <3>1
  <2>2. CASE ~(pos < FileBlocks) BY <1>2, <2>2 DEF ReadBlock
  <2> QED BY <2>1, <2>2
<1>4. CacheOK' BY <1>1, <1>3 DEF CacheOK
<1> QED BY <1>1, <1>3, <1>4 DEF HitsAreOwn, Leftover

-----------------------------------------------------------------------------
\* The initial state satisfies the inductive invariant.
LEMMA InitIInv == Init => IInv
<1>1. 1 \in 1..Len(Sizes) BY FileAssumption, EmptySeq
<1>2. Init => TypeOK
  <2> SUFFICES ASSUME Init PROVE TypeOK
    OBVIOUS
  <2>1. 0 \in 0..(Samples - 1) /\ 0 \in 0..(FileBlocks + Half) BY FileAssumption
  <2>2. {} \subseteq Blocks /\ cache \subseteq Blocks BY DEF Init
  <2> QED BY <1>1, <2>1, <2>2 DEF Init, TypeOK
<1>3. Init => SeqOK /\ RemoteOK /\ RandomInTail /\ CacheOK /\ HitsAreOwn
  BY DEF Init, SeqOK, RemoteOK, NoRead, RandomInTail, CacheOK, HitsAreOwn
<1> QED BY <1>2, <1>3 DEF IInv

\* Starting a phase preserves it.
LEMMA StartIInv == ASSUME IInv, StartPhase \/ DropFails PROVE IInv'
<1> USE DEF IInv, SeqOK, RemoteOK, NoRead, RandomInTail, CacheOK, HitsAreOwn,
            sample, reads
<1>1. CASE StartPhase BY <1>1, FileAssumption DEF StartPhase, TypeOK
<1>2. CASE DropFails BY <1>2 DEF DropFails, TypeOK
<1> QED BY <1>1, <1>2

\* Beginning a sample preserves it: nothing is read yet, and the advice, if it is
\* taken, drops the blocks it covers.
LEMMA BeginIInv == ASSUME IInv, BeginSample \/ AdviceFails \/ SkipSample PROVE IInv'
<1> USE DEF IInv, RemoteOK, NoRead, RandomInTail, BeginPass, sample, reads
<1>1. N \in 1..FileBlocks /\ N' = N
  BY SizeType DEF TypeOK, N, BeginSample, AdviceFails, SkipSample
<1>2. CASE BeginSample
  <2>1. TypeOK' BY <1>2, FileAssumption DEF BeginSample, TypeOK
  <2>2. SeqState'
    <3>1. /\ i' = 2 /\ pos' = FileBlocks - 1 /\ touched' = {}
          /\ eofs' = 0
      BY <1>2 DEF BeginSample
    <3>2. (FileBlocks - (i' - 2))..(FileBlocks - 1) = {}
      BY <3>1, FileAssumption
    <3> QED BY <1>1, <3>1, <3>2, FileAssumption DEF SeqState
  <2>3. RandomInTail' BY <1>1, <1>2, FileAssumption DEF BeginSample
  <2>4. SeqOK'
    <3>1. phase' = "seq" => program' = "local" BY <1>2 DEF BeginSample, TypeOK
    <3> QED BY <2>2, <3>1 DEF SeqOK
  <2>5. RemoteOK' BY <1>2 DEF BeginSample
  <2>6. CacheOK'
    <3>1. /\ pc = "begin" /\ pc' = "loop" /\ cache' = cache \ (0..(N - 1))
          /\ touched' = {} /\ earlier' = earlier /\ cache \subseteq earlier
      BY <1>2 DEF BeginSample, CacheOK
    <3> QED BY <1>1, <3>1 DEF CacheOK, Leftover
  <2>7. HitsAreOwn' BY <1>2 DEF BeginSample, HitsAreOwn
  <2> QED BY <2>1, <2>3, <2>4, <2>5, <2>6, <2>7
<1>3. CASE AdviceFails
  <2>1. TypeOK' BY <1>1, <1>3, FileAssumption DEF AdviceFails, TypeOK
  <2>2. RandomInTail' BY <1>1, <1>3, FileAssumption DEF AdviceFails
  <2>3. CacheOK' /\ HitsAreOwn'
    BY <1>1, <1>3 DEF AdviceFails, CacheOK, HitsAreOwn
  <2> QED BY <1>1, <1>3, <2>1, <2>2, <2>3 DEF AdviceFails, SeqOK
<1>4. CASE SkipSample
  <2>1. program = "remote" /\ phase = "seq" BY <1>4 DEF SkipSample, TypeOK
  <2>2. TypeOK' BY <1>1, <1>4 DEF SkipSample, TypeOK
  <2>3. CacheOK' /\ HitsAreOwn'
    BY <1>1, <1>4, <2>1 DEF SkipSample, CacheOK, HitsAreOwn
  <2> QED BY <1>1, <1>4, <2>1, <2>2, <2>3 DEF SkipSample, SeqOK
<1> QED BY <1>2, <1>3, <1>4

\* A sequential read preserves it: it reads the block before those read so far,
\* which is inside the file.
LEMMA SeqReadIInv == ASSUME IInv, SeqRead PROVE IInv'
<1>1. /\ pc = "loop" /\ phase = "seq" /\ i < N /\ i' = i + 1
      /\ pos' = FileBlocks - i
      /\ UNCHANGED <<program, pc, phase, opened, k, j, earlier>> /\ ReadBlock
  BY DEF SeqRead
<1>2. N \in 1..FileBlocks /\ N' = N BY <1>1, SizeType DEF IInv, TypeOK, N
<1>3. program = "local" /\ SeqState BY <1>1, <1>2 DEF IInv, SeqOK, TypeOK
<1>4. i \in 2..(N - 1) /\ pos = FileBlocks - (i - 1) /\ pos \in 1..(FileBlocks - 1)
  BY <1>1, <1>2, <1>3, FileAssumption DEF SeqState, IInv, TypeOK
<1>5. touched' = touched \cup {pos} /\ eofs' = eofs
  BY <1>1, <1>4, FileAssumption DEF ReadBlock
<1>6. TypeOK'
  BY <1>1, <1>4, ReadType, FileAssumption DEF IInv, TypeOK
<1>7. SeqState'
  <2>1. touched' = (FileBlocks - (i' - 2))..(FileBlocks - 1)
    BY <1>1, <1>3, <1>4, <1>5, FileAssumption DEF SeqState
  <2> QED BY <1>1, <1>2, <1>3, <1>4, <1>5, <2>1, FileAssumption DEF SeqState
<1>8. CacheOK' /\ HitsAreOwn' BY <1>1, ReadCache DEF IInv
<1> QED BY <1>1, <1>3, <1>6, <1>7, <1>8 DEF IInv, SeqOK, RemoteOK, RandomInTail

\* A random read or seek preserves it.
LEMMA RandIInv == ASSUME IInv, RandRead \/ RandSeek PROVE IInv'
<1>1. PICK n \in Draw(N) : pos' = Target(n)
  BY DEF RandRead, RandSeek
<1>2. /\ phase = "rand" /\ pc = "loop" /\ i < N /\ i' = i + 1
      /\ UNCHANGED <<program, pc, phase, opened, k, j, earlier>>
  BY DEF RandRead, RandSeek, sample
<1>3. N \in 1..FileBlocks /\ N' = N
  BY <1>2, SizeType DEF IInv, TypeOK, N
<1>4. /\ pos' \in 0..(FileBlocks + Half)
      /\ N <= Half => pos' \in (FileBlocks - N)..(FileBlocks - 1)
  BY <1>1, TargetType DEF IInv, TypeOK
<1>5. CASE RandRead
  <2>1. ReadBlock /\ program = "local" BY <1>5 DEF RandRead
  <2>2. TypeOK' BY <1>2, <1>4, <2>1, ReadType DEF IInv, TypeOK
  <2>3. RandomInTail'
    <3>1. SUFFICES ASSUME pc = "loop", opened, N <= Half
                   PROVE  /\ touched' \subseteq (FileBlocks - N)..(FileBlocks - 1)
                          /\ eofs' = 0
      BY <1>2, <1>3, <1>4 DEF RandomInTail
    <3>2. /\ touched \subseteq (FileBlocks - N)..(FileBlocks - 1)
          /\ pos \in (FileBlocks - N)..(FileBlocks - 1) /\ eofs = 0
      BY <1>2, <3>1 DEF IInv, RandomInTail
    <3>3. pos < FileBlocks BY <1>3, <3>2, FileAssumption
    <3> QED BY <2>1, <3>2, <3>3 DEF ReadBlock
  <2>4. CacheOK' /\ HitsAreOwn' BY <1>2, <2>1, ReadCache DEF IInv
  <2> QED BY <1>2, <2>1, <2>2, <2>3, <2>4 DEF IInv, SeqOK, RemoteOK
<1>6. CASE RandSeek
  <2>1. UNCHANGED <<cache, touched, hits, eofs>>
    BY <1>6 DEF RandSeek, sample, reads
  <2>2. TypeOK' BY <1>2, <1>4, <2>1 DEF IInv, TypeOK
  <2>3. RandomInTail' BY <1>2, <1>3, <1>4, <2>1 DEF IInv, RandomInTail
  <2>4. CacheOK'
    <3>1. i' < N => i < N BY <1>2
    <3> QED BY <1>2, <1>3, <2>1, <3>1 DEF IInv, CacheOK, Leftover
  <2>5. HitsAreOwn' BY <1>2, <1>3, <2>1 DEF IInv, HitsAreOwn
  <2> QED BY <1>2, <2>1, <2>2, <2>3, <2>4, <2>5 DEF IInv, SeqOK, RemoteOK, NoRead
<1> QED BY <1>5, <1>6

\* The end of a sample preserves it: what the sample has read is read earlier from
\* now on, and outside the loop nothing else but the types matters.
LEMMA OverIInv == ASSUME IInv, NextSample \/ NextSize \/ NextPhase PROVE IInv'
<1>1. /\ pc' \in {"begin", "start", "done"} /\ phase' \in {"seq", "rand"}
      /\ UNCHANGED <<program, opened, i, pos, cache, touched, hits, eofs>>
  BY DEF NextSample, NextSize, NextPhase, IInv, TypeOK, sample, reads
<1>2. k' \in 1..Len(Sizes) /\ j' \in 0..(Samples - 1)
  <2> USE FileAssumption DEF IInv, TypeOK
  <2>1. Len(Sizes) \in Nat /\ 1 \in 1..Len(Sizes) BY EmptySeq
  <2>2. CASE NextSample BY <2>2 DEF NextSample
  <2>3. CASE NextSize BY <2>1, <2>3 DEF NextSize
  <2>4. CASE NextPhase BY <2>1, <2>4 DEF NextPhase
  <2> QED BY <2>2, <2>3, <2>4
<1>3. /\ pc = "loop" /\ earlier' \subseteq earlier \cup touched
      /\ pc' = "begin" => earlier' = earlier \cup touched
  BY DEF NextSample, NextSize, NextPhase, SampleOver, sample
<1>4. TypeOK' BY <1>1, <1>2, <1>3 DEF IInv, TypeOK
<1>5. CacheOK' /\ HitsAreOwn' BY <1>1, <1>3 DEF IInv, CacheOK, HitsAreOwn
<1> QED BY <1>1, <1>4, <1>5 DEF IInv, SeqOK, RemoteOK, NoRead, RandomInTail

\* Reclaiming a page preserves it.
LEMMA EvictIInv == ASSUME IInv, Evict \/ UNCHANGED vars PROVE IInv'
<1>1. /\ cache' \subseteq cache
      /\ UNCHANGED <<program, pc, phase, opened, k, j, i, pos, touched, hits, eofs,
                     earlier>>
  BY DEF Evict, vars, sample, reads
<1>2. SeqState => SeqState' BY <1>1 DEF SeqState, N
<1>3. TypeOK' BY <1>1 DEF IInv, TypeOK
<1>4. SeqOK' BY <1>1, <1>2 DEF IInv, SeqOK, NoRead, N
<1>5. RemoteOK' /\ RandomInTail' BY <1>1 DEF IInv, RemoteOK, NoRead, RandomInTail, N
<1>6. CacheOK' /\ HitsAreOwn' BY <1>1 DEF IInv, CacheOK, HitsAreOwn, Leftover, N
<1> QED BY <1>3, <1>4, <1>5, <1>6 DEF IInv

\* The inductive invariant holds in every reachable state.
THEOREM Invariance == Spec => []IInv
<1>1. IInv /\ [Next]_vars => IInv'
  BY StartIInv, BeginIInv, SeqReadIInv, RandIInv, OverIInv, EvictIInv DEF Next
<1> QED BY InitIInv, <1>1, PTL DEF Spec

-----------------------------------------------------------------------------
\* The variables keep their types; in particular the offset never leaves
\* 0..FileBlocks + Half, although it is the product of two ints.
THEOREM TypeCorrect == Spec => []TypeOK
BY Invariance, PTL DEF IInv

\* A sequential pass reads the last blocks backwards and without a gap.
THEOREM Covers == Spec => []SeqCovers
<1>1. IInv => SeqCovers
  BY DEF IInv, SeqOK, SeqState, NoRead, SeqCovers, Measured
<1> QED BY <1>1, Invariance, PTL

\* The page cache answers a sample's reads with nothing but what earlier samples of
\* the same phase have read and its advice misses, whatever the cache held when the
\* program began and whatever the kernel reclaims: of a file of 16 GB as of one of
\* which a size is the whole, and in the sequential as in the random phase.
THEOREM OnlyOwnHits == Spec => []HitsAreOwn
BY Invariance, PTL DEF IInv

\* A random pass whose distances fit an int stays in the tail of the file.
THEOREM RandomStaysInTail == Spec => []RandomInTail
BY Invariance, PTL DEF IInv
=============================================================================
