------------------------------- MODULE Sampling -------------------------------
(***************************************************************************)
(* The benchmarks that fill a table of samples and print its means:        *)
(*   timing     cpu_benchmarks/timingoverhead.cpp                          *)
(*   syscall    cpu_benchmarks/syscalloverhead.cpp                         *)
(*   procedure  cpu_benchmarks/procedurecalloverhead.cpp                   *)
(*   loop       cpu_benchmarks/loopoverhead.cpp                            *)
(*   process    cpu_benchmarks/processcreationoverhead.cpp                 *)
(*   thread     cpu_benchmarks/threadcreation.cpp                          *)
(*   bandwidth  mem_benchmarks/mem_bandwidth.cpp                           *)
(* A sample is a number of cycles. An int holds -IntHalf..IntHalf - 1, a   *)
(* uint64_t wraps at ULong. A double holds every number of this module.    *)
(***************************************************************************)
EXTENDS Integers

CONSTANTS LoopIter, EnsembleSize,
          Procedures,   \* number of procedures that are timed (8 in the code)
          Unit,         \* MEASUREMENT_LOOP_ITER of loopoverhead.cpp
          IntHalf, ULong,
          MaxTicks,     \* bound on the cycles of a sample
          MaxOverhead   \* bound on the overhead read from a result file

ASSUME SamplingAssumption ==
  /\ LoopIter \in Nat \ {0} /\ EnsembleSize \in Nat \ {0}
  /\ Procedures \in Nat \ {0} /\ Unit \in Nat \ {0}
  /\ IntHalf \in Nat \ {0} /\ ULong \in Nat \ {0}
  /\ MaxTicks \in Nat /\ MaxOverhead \in Nat
  /\ EnsembleSize * IntHalf < ULong
  /\ EnsembleSize * (MaxTicks + MaxOverhead) < ULong

VARIABLES
  program,
  phase,     \* which of the program's tables is being filled
  pc,        \* tic, create, toc, collect, store, report, reported, done, failed, crashed
  child,     \* the process or thread of the round: none, run, ended
  age,       \* cycles since tic
  cycles,    \* end_time - start_time of the round
  row,       \* index (j) of the row of the sample
  column,    \* index (i) of the sample in its row
  times,     \* the table, which every phase overwrites
  overhead,  \* timing_overhead of bandwidth, loopOverhead of loop
  means,     \* "Mean:" of each row, the result of cycles_read or cycles_write
  overall,   \* the sum that "Overall Mean:" divides
  popMean,   \* pop_mean
  taken      \* no variable of the code: the cycles of this phase's samples

index == <<row, column>>
report == <<means, overall, popMean>>
program_vars == <<program, phase, overhead>>
svars == <<program_vars, pc, child, age, cycles, index, times, report, taken>>

Creates == {"process", "thread"}
Benchmarks == Creates \cup {"timing", "syscall", "procedure", "loop", "bandwidth"}

Any == -1    \* a result that is undefined

Height == IF program = "bandwidth" THEN 1 ELSE LoopIter
Rows == 1..Height
Columns == 1..EnsembleSize

\* What a loop adds up: f[1] + ... + f[n].
Sum(f, n) == LET upTo[k \in 0..n] == IF k = 0 THEN 0 ELSE upTo[k - 1] + f[k]
             IN  upTo[n]

\* One table per procedure; bandwidth reads, then writes.
Phases == CASE program = "procedure" -> Procedures
            [] program = "bandwidth" -> 2
            [] OTHER -> 1

Overheads == IF program \in {"loop", "bandwidth"} THEN 0..MaxOverhead ELSE {0}

Table(x) == [r \in 1..LoopIter |-> [c \in Columns |-> x]]
NoReport == [r \in 1..LoopIter |-> 0]

SInit == /\ program \in Benchmarks /\ phase = 1 /\ overhead \in Overheads
         /\ pc = "tic" /\ child = "none"
         /\ age = 0 /\ cycles = 0 /\ row = 1 /\ column = 1
         /\ times = Table(0) /\ taken = Table(0)
         /\ means = NoReport /\ overall = 0 /\ popMean = 0

-----------------------------------------------------------------------------
Tic == /\ pc = "tic"
       /\ pc' = IF program \in Creates THEN "create" ELSE "toc"
       /\ age' = 0
       /\ UNCHANGED <<program_vars, child, cycles, index, times, report, taken>>

\* The process is waited for before toc, the thread is joined after it.
Create == /\ pc = "create"
          /\ child' = "run"
          /\ pc' = IF program = "process" THEN "collect" ELSE "toc"
          /\ UNCHANGED <<program_vars, age, cycles, index, times, report, taken>>

\* A failed fork() ends the program with nothing printed; a failed
\* pthread_create() is not noticed.
CreateFails ==
  /\ pc = "create"
  /\ pc' = IF program = "process" THEN "failed" ELSE "toc"
  /\ UNCHANGED <<program_vars, child, age, cycles, index, times, report, taken>>

Toc == /\ pc = "toc"
       /\ cycles' = age
       /\ pc' = IF program = "thread" THEN "collect" ELSE "store"
       /\ UNCHANGED <<program_vars, child, age, index, times, report, taken>>

Collect_NoWait ==
  /\ pc = "collect"
  /\ pc' = IF program = "process" THEN "toc" ELSE "store"
  /\ UNCHANGED <<program_vars, child, age, cycles, index, times, report, taken>>

\* wait() or pthread_join().
Collect == /\ pc = "collect"
           /\ child = "ended"
           /\ child' = "none"
           /\ pc' = IF program = "process" THEN "toc" ELSE "store"
           /\ UNCHANGED <<program_vars, age, cycles, index, times, report, taken>>

\* Joining a thread that was never created is undefined: it returns, crashes or
\* waits forever (no step).
CollectNothing ==
  /\ pc = "collect"
  /\ child = "none"
  /\ pc' \in {"store", "crashed"}
  /\ UNCHANGED <<program_vars, child, age, cycles, index, times, report, taken>>

\* The conversion of a cycle count to what the table holds: an int, or with
\* doubles the count itself, or for bandwidth an unsigned difference.
ToInt(c) == IF c < IntHalf THEN c ELSE c - 2 * IntHalf
Net(c) == (c - overhead) % ULong
Sample(c) == CASE program = "loop" -> c
               [] program = "bandwidth" -> Net(c)
               [] OTHER -> ToInt(c)

Store_SameRow ==
  /\ pc = "store"
  /\ times' = [times EXCEPT ![row][column] = Sample(cycles)]
  /\ taken' = [taken EXCEPT ![row][column] = cycles]
  /\ column' = IF column < EnsembleSize THEN column + 1 ELSE 1
  /\ pc' = "tic"
  /\ UNCHANGED <<program_vars, child, age, cycles, row, report>>

\* The sample is stored and the two loops go on.
Store == /\ pc = "store"
         /\ times' = [times EXCEPT ![row][column] = Sample(cycles)]
         /\ taken' = [taken EXCEPT ![row][column] = cycles]
         /\ \/ /\ column < EnsembleSize
               /\ column' = column + 1 /\ pc' = "tic" /\ UNCHANGED row
            \/ /\ column = EnsembleSize /\ row + 1 \in Rows
               /\ column' = 1 /\ row' = row + 1 /\ pc' = "tic"
            \/ /\ column = EnsembleSize /\ row + 1 \notin Rows
               /\ pc' = "report" /\ UNCHANGED index
         /\ UNCHANGED <<program_vars, child, age, cycles, report>>

\* loopoverhead.cpp adds a quotient to an unsigned integer: what they make together
\* is cut off towards zero, and undefined if that is below zero.
AddQuotient(s, d) ==
  IF s = Any \/ s * Unit + d <= -Unit THEN Any
  ELSE IF s * Unit + d < 0 THEN 0 ELSE s + d \div Unit

LoopRowSum(r) ==
  LET upTo[c \in 0..EnsembleSize] ==
        IF c = 0 THEN 0 ELSE AddQuotient(upTo[c - 1], times[r][c] - overhead)
  IN  upTo[EnsembleSize]

RowSum_Signed(r) ==
  IF program = "loop" THEN LoopRowSum(r) ELSE Sum(times[r], EnsembleSize)

\* The sum of a row, in an unsigned integer.
RowSum(r) ==
  IF program = "loop" THEN LoopRowSum(r) ELSE Sum(times[r], EnsembleSize) % ULong

\* The mean of a row: a division of integers, whatever the type it goes to.
RowMean(r) == IF RowSum(r) = Any THEN Any ELSE RowSum(r) \div EnsembleSize

\* The mean of the row means, which accumulate() adds up in an int: more than an
\* int holds is undefined. Bandwidth has no rows and does not compute it.
PopMean == LET s == Sum([r \in Rows |-> RowMean(r)], Height)
           IN  CASE program = "bandwidth" -> 0
                 [] \E r \in Rows : RowMean(r) = Any -> Any
                 [] s >= IntHalf -> Any
                 [] OTHER -> s \div LoopIter

\* measure_time, or its text inside main.
MeasureTime ==
  /\ pc = "report"
  /\ means' = [r \in 1..LoopIter |-> IF r \in Rows THEN RowMean(r) ELSE 0]
  /\ overall' = IF \E r \in Rows : RowSum(r) = Any THEN Any
                ELSE Sum([r \in Rows |-> RowSum(r)], Height)
  /\ popMean' = PopMean
  /\ pc' = IF phase < Phases THEN "reported" ELSE "done"
  /\ UNCHANGED <<program_vars, child, age, cycles, index, times, taken>>

NextPhase_LastRow ==
  /\ pc = "reported"
  /\ pc' = "tic" /\ phase' = phase + 1
  /\ overhead' \in Overheads
  /\ column' = 1
  /\ means' = NoReport /\ overall' = 0 /\ popMean' = 0
  /\ taken' = Table(0)
  /\ UNCHANGED <<program, child, age, cycles, row, times>>

\* The loops start again, over the same table; bandwidth reads the overhead anew.
NextPhase == /\ pc = "reported"
             /\ pc' = "tic" /\ phase' = phase + 1
             /\ overhead' \in Overheads
             /\ row' = 1 /\ column' = 1
             /\ means' = NoReport /\ overall' = 0 /\ popMean' = 0
             /\ taken' = Table(0)
             /\ UNCHANGED <<program, child, age, cycles, times>>

-----------------------------------------------------------------------------
\* The child exits, or the thread function returns.
ChildEnds ==
  /\ child = "run"
  /\ child' = "ended"
  /\ UNCHANGED <<program_vars, pc, age, cycles, index, times, report, taken>>

Tick == /\ pc \in {"create", "toc", "collect"}
        /\ age < MaxTicks
        /\ age' = age + 1
        /\ UNCHANGED <<program_vars, pc, child, cycles, index, times, report, taken>>

Parent == Tic \/ Create \/ Toc \/ Collect \/ Store \/ MeasureTime \/ NextPhase

SNext == Parent \/ CreateFails \/ CollectNothing \/ ChildEnds \/ Tick

\* Both processes or threads are scheduled while they can run.
SSpec == SInit /\ [][SNext]_svars /\ WF_svars(Parent) /\ WF_svars(ChildEnds)

-----------------------------------------------------------------------------
(* Properties.                                                             *)

STypeOK ==
  /\ program \in Benchmarks /\ phase \in 1..Phases /\ overhead \in Overheads
  /\ pc \in {"tic", "create", "toc", "collect", "store", "report", "reported",
             "done", "failed", "crashed"}
  /\ child \in {"none", "run", "ended"}
  /\ age \in 0..MaxTicks /\ cycles \in 0..MaxTicks
  /\ row \in Rows /\ column \in Columns
  /\ times \in [1..LoopIter -> [Columns -> (-IntHalf)..(ULong - 1)]]
  /\ taken \in [1..LoopIter -> [Columns -> 0..MaxTicks]]
  /\ means \in [1..LoopIter -> Any..(ULong - 1)]
  /\ overall \in Nat \cup {Any} /\ popMean \in Nat \cup {Any}

\* No process or thread of an earlier round is left to compete with the one that
\* is being timed, in either order of waiting and timing.
OneAtATime == pc \in {"tic", "create", "report"} => child = "none"

\* What the cycles of row r add up to beyond the overhead.
True(r) == Sum(taken[r], EnsembleSize) - EnsembleSize * overhead

\* The samples of row r fit what they are stored in or added to. Bandwidth
\* subtracts in unsigned integers: only the sum has to be positive, the samples
\* below the overhead wrap and wrap back.
Fits(r) == CASE program = "bandwidth" -> True(r) >= 0
             [] program = "loop" -> \A c \in Columns : taken[r][c] >= overhead
             [] OTHER -> \A c \in Columns : taken[r][c] < IntHalf

\* What is printed is about the samples of this phase, whatever the table held
\* before, and is rounded down and no more: where the samples of a row fit, its
\* mean is less than one unit below the true mean, the mean of loop, which also
\* rounds each sample, less than two. Where all of them fit, the overall sum is
\* exact (for loop: no more than a unit per sample below), and where the means
\* together fit an int, the mean that the variance is taken from is less than
\* two units (loop: three) below the true one.
ReportRoundsDown ==
  pc \in {"reported", "done"} =>
    LET unit == EnsembleSize * (IF program = "loop" THEN Unit ELSE 1)
        slack == IF program = "loop" THEN 1 ELSE 0
        all == Sum([r \in Rows |-> True(r)], Height)
        down(x, n, exact, loss) == x * n <= exact /\ exact < (x + loss) * n
    IN  /\ \A r \in Rows : Fits(r) => down(means[r], unit, True(r), 1 + slack)
        /\ (\A r \in Rows : Fits(r)) =>
             /\ IF program = "loop"
                  THEN down(overall, Unit, all, LoopIter * EnsembleSize)
                  ELSE overall = all
             /\ program # "bandwidth" /\ Sum(means, LoopIter) < IntHalf =>
                  down(popMean, LoopIter * unit, all, 2 + slack)

\* Every program ends: no wait() or join waits forever for a process or thread
\* that was created.
Ends == <>(\/ pc \in {"done", "failed", "crashed"}
           \/ pc = "collect" /\ child = "none")
=============================================================================
