# linux-pulse in TLA+

linux-pulse is a set of stand-alone Linux benchmarks in C++ (`cpu_benchmarks/`,
`mem_benchmarks/`, `fs_benchmarks/`, `nw_benchmarks/`) with scripts that run some
of them and plot the results. Each program measures one cost of the operating
system with the processor's time stamp counter. There is no common engine: what
the programs share is `utils.hpp` and a way of doing things. What can go wrong is
therefore local to each program and to its partners: the child, the thread, the
peer on the network, the other processes, and the page cache. A benchmark does
its job if it *ends*, and if *what it reports is what it says it measured*; most
properties here are one or the other.

## Inventory

| component | state it keeps | operations | partners | what is hard | what makes it correct |
|---|---|---|---|---|---|
| peak bandwidth client, server (`nw_benchmarks/peak_bandwidth_*.cpp`) | two totals, a 128 KB buffer on each side, the connection | connect, send, recv, deadline; accept, read, write back, close | each other, the kernels in between | partial sends, short receives, full directions, resets, SIGPIPE, a deadline that is looked at only between calls | bytes balance; nobody waits for nothing; the test ends |
| thread switch (`cpu_benchmarks/thread_contextswitch.cpp`) | the pipe `fd`, the ensemble, two stamps | pipe, create, stamp, join, read, filter | a thread per sample | either thread may run first; unsigned difference; descriptors run out | a kept sample is the true distance of two stamps of this round |
| process switch (`cpu_benchmarks/process_contextswitch.cpp`) | a pipe per ensemble, the output buffer | fork, stamp, wait, read, print | a child per sample | failed fork, stamps left in the pipe, output buffers copied by fork and flushed by `exit(1)` | stamps belong to their round, means are printed |
| process and thread creation (`processcreationoverhead.cpp`, `threadcreation.cpp`) | a table of samples | create, wait or join, average | a child or thread per sample | failed creation, conversion to int, divisions of integers | one child at a time, the report is the mean |
| file reads (`fs_benchmarks/fileread.cpp`) | file offset, samples | seek, advise, read backwards or at random | page cache | what the advice covers, int offsets, end of file | the blocks meant are read, and from the disk |
| file cache size (`filecache_size.cpp`) | file offset, samples | two passes over the beginning of the file | page cache | what earlier sizes leave behind | a step at the size of the cache |
| contention (`contention.cpp`, `scripts/runcontention.sh`) | files, result files, a command that grows | make a file, launch a wave, sleep, remove; drop caches, open, advise, read, append | up to 36 readers in eight waves, page cache | waves overlap; caches are dropped and files removed under readers | a reader that has its file for itself reads from the disk; the run ends |
| memory access time (`mem_access_time.cpp`, `runmemaccess.sh`) | a linked array | link, chase | - | wrap, strides larger than the array | the chase stays inside and repeats nothing early |
| overheads (`timingoverhead`, `loopoverhead`, `syscalloverhead`, `procedurecalloverhead`) | a table of samples, filled once for each thing timed | measure, average, print | results files | sums cut to int, negative numbers made unsigned, a table used again | the report is about its own samples |
| results files (`utils.hpp`, `results/*`) | first lines of files | redirect or write down, read and parse | every program that subtracts an overhead | no file or no number throws after all the measuring; `loopoverhead` reads the file its own output is for; redirecting empties a file another program is about to read | a prepared run prints its means; it is known what a number rests on |
| memory bandwidth (`mem_bandwidth.cpp`) | samples | read, then write an array, subtracting an overhead read before each | results files | an int subtracted from an unsigned number | the report is the mean |
| page fault time (`pagefault_time.cpp`, `runpagefault.py`) | a mapped file | map, touch every page | the makes and cleans of `temp_file` | the file is too short, emptied or removed during the run | the run is not killed |
| TCP connection parameters (`tcp_conn_params.cpp`, `scripts/nw_results.py`) | one connection, the lists of the script | connect, one exchange, close; a thousand runs | an echo server outside the repository | a failed exchange is a sample; one failed run loses all | few samples are void; the script ends |
| remote file reads (`remote_fileread.cpp`) | as file reads | seek | a mounted file | sequential part and `read()` commented out | it stays in the part of the file it is about |
| builds (`*/Makefile`) | binaries, objects, `bin/temp_file` | all, clean | mem and fs make the same file in two sizes, all share `bin` | stale objects, stale file, cleans that undo the makes of others | what is run is what was built |
| cycle time, random numbers, plots | - | sleep and count; print; draw tables pasted into the scripts | - | - | - |

`PROJECT.json` lists the same components with their status, and every hazard at
its line with the properties that would catch it.

## Modules

Everything is modelled at the level of system calls: an action is what a process
does up to and including one call that another process, the kernel or time may
interfere with. Sizes, cycle counts and numbers of samples are small constants.

| module | models | extends / used by |
|---|---|---|
| `EchoStream` | abstract: a byte stream that comes back, with a bound on what is outstanding | instantiated by `PeakBandwidth` |
| `PeakBandwidth` | client, server, both directions of the connection | proofs in `PeakBandwidthProofs` |
| `SwitchRounds` | abstract: rounds of two stamps, which ones count, and means of so many | instantiated by `ThreadSwitch` and `ProcessSwitch` |
| `ThreadSwitch` | main thread, spawned thread, pipes, the counter | proofs in `ThreadSwitchProofs` |
| `ProcessSwitch` | parent, child, pipe, output buffers | proofs in `ProcessSwitchProofs` |
| `Sampling` | the seven programs that fill a table of samples, with their arithmetic | proofs in the second half of `ResultsProofs` |
| `Results` | result files, shells, and the programs that read them | proofs in `ResultsProofs` |
| `FileRead` (`MCFileRead`) | sequential and random reads, local and remote, page cache | proofs in `FileReadProofs` |
| `FileCacheSize` (`MCFileCacheSize`) | two passes over an LRU page cache | proofs in `FileCacheSizeProofs` |
| `Contention` | script, readers, names of files, page cache | proofs in `ContentionProofs` |
| `MemAccess` (`MCMemAccess`) | linked array and chase | proofs in the second half of `FileCacheSizeProofs` |
| `TcpConn` | the client under its script, and an echo server that comes and goes | proofs at the end of `PeakBandwidthProofs` |
| `Build` | Makefiles, the shared `bin`, `temp_file` and the program that maps it | proofs in `BuildProofs` |

`MemAccess`, `TcpConn` and `Sampling` are proved about in a module that extends a
second component, with which they share nothing but the names of a few constants;
their specifications, types and whatever else the two would both define have a
prefix (`MASpec`, `TCSpec`, `SSpec`, `MATypeOK` and so on).

The MC modules only give a sequence of sizes, which a configuration cannot write.
Operators named `X_Something` directly before `X` are faulty variants of `X`;
nothing refers to them. They serve to see that each property notices a plausible
bug of the code: with `X` replaced by its variant the property named in
`PROJECT.json` is violated.

### PeakBandwidth

`cpc` and `spc` are where the two programs are, `left` and `hand` what is left of
a `send()` and of a `write()`, `up` and `down` the bytes inside the connection,
`sent` and `rcvd` the client's totals. `send()` and `write()` are broken into
steps because the kernel copies as much as fits and blocks for the rest; `recv()`
and `read()` return any positive number of bytes up to what has arrived. `Reset`
is the kernel's answer to bytes for a closed end; the action after it depends on
where the other side is (`SendCut`, `SendFails` with ECONNRESET or SIGPIPE,
`RecvFails`, `WriteFails`, whose result the server does not look at). `Deadline`
may happen anywhere, but only `StartRound` and `Finish` look at it.

* `EchoBalance`: handed over = received + inside the connection + in the server's
  hand, and never less, whatever is lost.
* `RecvIsOwed`: although `recv()` ignores how much it received before, there is
  always at least a buffer on its way when the client waits.
* `StandoffBacklog`, `EndsOrStandsOff`: the client hands over a
  buffer and receives once, so the backlog grows by what each `recv()` is short
  of. The recorded runs in `peak_bandwidth_server.cpp:12-13` and `23-24` end with
  such a backlog. Once both directions are full, client and server block on each
  other for good. This is the only way in which the client can fail to end.
* `ServerFollows`: the server ends after a client that left in whatever way.
* `ServerDrains`: and not before. A server that leaves its loop without a reset
  leaves to a client that has ended, has nothing of what it was sent unread, and has
  written back all of it, however far behind it was.
* `StreamSpec`: the module implements `EchoStream` with `out` the bytes handed
  over, `back` the client's total and `over` the end of the client; the window is
  two directions and a server's buffer.

### ThreadSwitch

`base` and `age` are the time: the counter at the start of the round and the
ticks since. `At` and `Sub` wrap at `Width` as the 64 bit counter does. `OpenPipe`
never closes and, when no descriptors are left, leaves `fd` as it was, as
`pipe()` does whose failure nobody looks at. `stAge` and `ttAge` are ghosts: when
the stamps were really taken. `FreshStamp` says that pipes never carry a stamp
from one round to another even when they are reused; `AcceptSound` that the filter
`res > 0 && res < 20000` keeps only samples whose end was after their start, and
exactly their distance, for which it is essential that the limit is small
compared to the counter's period (`ThreadAssumption`). The comment at line 59, the
counter started here "will be ended inside the thread function", is therefore not
always true, and the filter is what repairs it. What follows a failed
`pthread_create()` is undefined (`JoinNothing`).

`RoundsSpec`: the module implements `SwitchRounds`, with `left` and `entered` the
true times (`stAge`, `ttAge`) of the round's two stamps, once taken and until the
sample is judged. A round counts if *and only if* the switch came between its
stamps and was shorter than the limit, and exactly `EnsembleSize` such rounds make
a mean. `AcceptSound` has no such converse: a filter that drops good samples, or a
mean of too few, satisfies it. A round without a thread never counts, because what
`read()` returns would have to come from somewhere.

### ProcessSwitch

`outbuf` and `cbuf` are the means in the standard output buffer and in the copy
that fork gives the child, `seen` how often the mean of each ensemble was written
(from `MaxSeen` on it stays). `tty` is chosen at the start. `MeansPrinted`: every
mean is written; to a terminal once; to a file or pipe possibly again by every
child that was forked while it was in the buffer. `ForkFails` continues as the
parent, as the code does with -1; `RoundEnds` says, besides that rounds with a
child end, that a round without one waits forever. The comment at line 46 says
of that branch that the parent will wait for the child to respond.

`RoundsSpec`: the module implements the same `SwitchRounds`, with a limit that no
switch reaches: a round is repeated if and only if the child ran first. Printing
and the children's exits are steps that `SwitchRounds` does not see; the mean is
complete with its last sample.

### Sampling

One module for seven programs, `program` telling them apart, because they are one
text copied: two loops fill a table, a third averages it. They differ in what a
round does (processes are waited for before the end stamp, threads joined after
it, the others create nothing), in the type a sample is stored in (`Sample`), in
what is subtracted and when, and in `phase`: `procedurecalloverhead` fills its
table eight times, `mem_bandwidth` reads and then writes. `RowSum`, `RowMean`,
`PopMean` and `MeasureTime` are `measure_time` with its types: sums in unsigned
integers, divisions of integers whatever the type of the mean, `accumulate()` in
an int because it starts from `0`. `Any` is a result that C++ leaves undefined,
about which nothing is claimed.

* `OneAtATime`: no earlier child or thread competes with the one being timed.
* `ReportRoundsDown`: what is printed is about the samples of its phase (`taken`, a
  ghost), and it is clear by how much it is less than the truth: the mean of a row
  is rounded down once and `pop_mean` twice, once more in `loopoverhead`, which
  divides every sample first. For `mem_bandwidth` single samples may be below the
  overhead and wrap; the sum brings them back, unless it is below zero itself.
* `Ends` leaves out the join of a thread that was never created.

### Results

The programs know two files, `results/timingoverhead` and `results/loopoverhead`,
whose first line must be a number. None of them writes these files, and what they
print begins with words. So `Run` lets a user start any program in a shell, with
its output going to the terminal or over one of the files, which the shell
empties; `WriteDown` copies a mean that was printed, `Guess` writes any other
number. Users and shells are external; when a program reads what (`Steps`) is the
code's. `Dies` is `stod()` throwing.

* `Founded`: `loopoverhead` measures and then subtracts the loop overhead that it is
  there to find. The first one, and with it every system call overhead, rests on a
  number that no run has printed. `README.md:51-57` of the repository describes how
  the programs are run, not this.
* `PreparedRunsReport`: a run whose files were numbers when it began prints its
  means unless another shell overwrites one of them. `prepared` is a ghost that
  says which runs these are; a run whose output goes over a file that it reads is
  not among them.

### FileRead

Offsets and sizes are in blocks of 64 KB. `program` tells `fileread` from
`remote_fileread`, a copy in which the sequential pass is not called
(`SkipSample`) and the random pass only seeks (`RandSeek`). `Target` is the offset
of a random read: `-n * BUF_SIZE` is an int, and beyond 2 GB (`Half` blocks) it
wraps to behind the end of the file. `Init` starts from any content of the page
cache; `Evict` may reclaim pages at any time.

* `SeqCovers`: reads are adjacent, backwards and never at the end of the file. It
  also shows that a pass makes two reads less than the size (the loop starts at
  2), where docs/report.pdf 6.2 counts all of them.
* `HitsAreOwn`: whatever the page cache held before, a sample finds no block there
  but those that earlier samples of its own phase have read (`earlier`, a ghost) and
  that its advice misses. The advice covers the beginning of the file and the reads
  are at its end. So in the program's own set-up (sizes up to 4 GB, a file of 16 GB)
  the first sample of each phase is cold and later ones may find what was read
  before, by smaller sizes too, and by the random phase nothing of the sequential
  one; where the size is the whole file every sample is cold.
* `RandomInTail`: the offset is in the part of the file that stands for the size,
  for sizes up to 2 GB, which are all sizes of `remote_fileread`. At the 4 GB of
  `fileread` offsets wrap and reads return nothing.

### FileCacheSize

The page cache is the LRU list that the method presupposes, not Linux' actual
reclaim. `StepAtCapacity`: the timed pass misses never or always, by the size
alone, in spite of what earlier samples and other processes (`Disturb`) left.

### Contention

Wave w starts readers `<<w, 1>>` to `<<w, w>>`, because `COMMAND` grows. `Sleep`
may end at any time relative to the readers: a quarter of a second says nothing.
`DropCaches` empties every file's pages, the files' names disappear one after the
other. `ColdAlone`: the hits of a reader come from readers of the same file that
read at the same time, never from the script's `cat` or from readers before. That
such readers exist is a fact of the script (reader 1 of two waves), although
docs/report.pdf 6.4 has each program access a separate file. The program reads
64 MiB, the file has 64 MB: its last turns read nothing (`FileBlocks <= Turns`).
Only the first reader of a wave runs under `sudo`; `DropFails` is what happens to
the others unless the script itself is run as root.

### MemAccess

Sizes and strides in ints. `FullLap` is about an arithmetic fact that the
benchmark rests on: the accesses of a measurement are pairwise different until
the stride has come round (`Lap`, defined without reference to the links). With a
stride that is a multiple of the size the lap has length 1, so such a measurement,
11 of 18 with a stride of 4 MB, accesses a single element.

### TcpConn

`nw_results.py` runs the client `Runs` times; each run connects, sends, receives
and closes, looks at the result of `connect()` only, and prints its three times,
or nothing when `socket()` or `connect()` fails, on which the script's `int()`
throws (`lost`). `connect()` needs a server that is up, but both calls may fail
whatever the server does: no property says why the samples of a script are lost.
The echo server is not in the repository; `ServerStops` cuts its connection and
`ServerStarts` may follow. `OneVoidPerStop`: although a `recv()` that returned
nothing becomes a sample like any other, there are no more of them than stops,
because the next client cannot connect before the server is back; and the means, if
they are printed, are of `Runs` samples and no fewer. `ScriptEnds`: the script ends.

### Build

One object for each folder: `pagefault_time.o` of mem and `filecache_size.o` of fs,
whose rules write `bin/temp_file` before they compile, and the clients of nw, which
include `netconfig.h`. `header` is the version of that file, `object` and `binary`
the versions that were compiled and linked. `make` is broken into the start and
the end of `head`, the compiler and the linker; other makes and cleans come in
between. The compiler and the linker are one step each, which reads and writes: a
clean or an edit in the middle of one of them, on the same folder, is not covered.
`Map`, then `AdviceFails`, `Touch` or `TouchFails` are a run of `pagefault`; a mapped
file that is removed lives on (`orphan`).

* `FreshSinceClean`: objects do not depend on headers, and nw's are in the
  repository. A make after an edit of `netconfig.h`, which `README.md:84` of the
  repository asks for "before building", therefore changes nothing, but after the
  `clean` of its folder, and no other, an older address does not come back.
* `EnoughFile`: a folder that was built has its whole `temp_file` unless it was
  `spoiled`: by the smaller file of the other folder, by a full disk, or by the
  clean of another folder, which removes everything in `bin` while the folder's
  object stays and keeps its make from writing the file again. A run of
  `pagefault` that began on an unspoiled file is not killed, even if the file is
  removed under it, unless a make writes it meanwhile (`disturbed`).

## Runs

| run | states | bounds | why they are enough |
|---|---|---|---|
| `peak_bandwidth` | 6467 | buffer 2, direction 3, 16 bytes | calls block in the middle of a buffer; a standoff takes a backlog of 8 and needs seven rounds of 2 bytes, so 14 is the least bound that reaches it |
| `peak_bandwidth_ends` | | same | violated: the deadline passed and nobody moves |
| `thread_switch` | 44886 | 2 pipes, 4 samples, limit 3, width 6, 3 ticks | pipes run out after two samples; the counter wraps in every position of a round |
| `process_switch` | 18660 | 3 ensembles of 2, 3 ticks, lines seen up to 2 | two means can wait in the buffer while children exit; rejected samples are repeated |
| `sampling` | 520239 | 2 x 3 samples, 2 procedures, 3 ticks, overhead up to 2, int up to 2, unit 2 | the longest round does not fit the int, samples are below the overhead by less than a unit and by one, means and divided samples are not whole, tables are filled twice |
| `results` | 268484 | 2 shells | every program against every other, in any number of runs |
| `file_read` | 169373 | file of 6, sizes 3, 5, 6, 3 samples, int up to 5 blocks | the advice misses the reads of size 3 (as it does for every size of `fileread` on the file of 16 GB), overlaps those of 5, and covers those of 6; sizes at and above the int's range; a second averaged sample |
| `file_cache_size` | 12218 | cache 3, sizes 2 to 6, file of 5, 2 samples | below, at and above the cache, and beyond the file |
| `contention` | 28278 | 2 waves, files of 2 blocks, 3 turns | two readers of one file, one of another, a turn at the end of the file, files removed at any moment; 3 waves are out of reach |
| `mem_access` | 490 | sizes 2, 4, 7, 8, strides 0 to 12, 10 accesses | strides that divide the size, are prime to it, are multiples of it and exceed it; more than a lap |
| `tcp_conn` | 595 | 4 runs, 3 stops | more runs than stops, and stops in each state of a run |
| `build` | 3366840 | files of 2 and 3, 2 mapped, 1 edit | all orders of the makes, cleans and edits of three folders; the mem file is as large as what is mapped, and no larger |

`peak_bandwidth_ends` is expected to fail: it checks what a comment says of the
code and the code does not keep; `PROJECT.json` quotes the comment under
`findings`.

Bounds that the code does not have: `MaxBytes` (the test is limited in time
only), `MaxDelay`, `MaxTicks` (length of a round), `MaxOverhead`, `MaxSeen`,
`MaxStops`, `MaxEdits`. `Procedures`, `Unit` and `Runs` are 8, a loop's length and
1000 in the code. `MaxBytes` only
keeps the client from starting another round, which the deadline does too.
Deadlock is checked in `Results` and `Build`, whose users always have something to
do, and nowhere else, because the other programs end, and some may hang in ways
the properties name.

## Fairness

Weak fairness of each process or thread as a whole: it is scheduled as long as it
can run, which Linux does for every runnable process; `taskset -c 1` puts them on
one processor but does not change that. Time passes (`Deadline`) and the kernel
delivers resets. There is no fairness of failures, of `ServerKilled`, of `Tick`,
or of either order of parent and child: hence no property claims that an ensemble
is ever full, which needs the scheduler to run the right one first often enough.
Nor is there fairness of joining a thread that was not created. In `TcpConn` the
script with its clients runs, and an echo server that is up answers what it was
sent; that it stops or comes back is not assumed. `Results` and `Build` have no
liveness: what a user starts is up to the user.

## Proofs

Every safety property and action property that a run checks is proved by TLAPS,
for all values of the constants under the named assumption of the module. Each
proof goes through an inductive invariant (`IInv`, `RInv`, `MemInv`, `SIInv`, or
`TCTypeOK /\ VoidOK`); its parts were checked by TLC on the bounds of the module's
run before they were proved. A theorem `...Invariance` states it, one lemma or step
per action proves it. The type invariant of every module is part of it and a
theorem of its own; those of `ThreadSwitch` and `ProcessSwitch` are not checked by
their runs any more, which check `RoundsSpec`.

* `PeakBandwidthProofs`, from `PeakAssumption` (positive sizes). The invariant
  `IInv` adds to `TypeOK` and `EchoBalance`: a call has bytes left exactly while
  it goes on (`CallsOK`); the client has not received ahead of its rounds, and by
  a whole buffer when it waits (`RoundsOK`); what is outstanding fits the
  directions and the server's hand (`WindowOK`). `RoundsOK` is what `RecvIsOwed`
  needs: `EchoBalance` alone does not say that a round is finished before the next
  begins. `WindowOK` bounds what is outstanding after a reset, when the balance is
  gone, for the refinement. Theorems: `Balanced`, `Owed`,
  `BacklogBeforeStandoff`, `ServerLeavesNothing`, and `Refinement`: `Spec` implements
  `EchoStream`, each step being an `Emit`, a `Return`, a `Stop` or a stutter.
  Its second part proves `VoidHasItsStop` of `TcpConn`, from `TcpConnAssumption`, for
  any numbers of runs and stops: a sample that is about to be void because the
  connection was cut must be counted before it is stored (`VoidOK`).
* `ThreadSwitchProofs`, from `ThreadAssumption` (a round and the limit fit the
  counter's period). `IInv` says where stamps are in each phase (`PipeOK`), that
  they were taken when the ghosts say (`StartOK`, `EndOK`, `ReadOK`) and that a
  thread exists only when it will be joined (`PhaseOK`). The arithmetic is lemma
  `SubAt`: a difference modulo the width that is in range is the true one.
  Theorems: `Fresh`, `AcceptedIsTrue`, and `Refinement`: `Spec` implements
  `SwitchRounds`. `RInv` adds that no stamp is later than now and that the program
  ends with its last mean; lemma `ShortInRange` is the converse of `SubAt`: a short
  switch is in range wherever the counter wraps between its stamps, again because
  limit and round fit the counter's period.
* `ProcessSwitchProofs`, from `ProcessAssumption`. For `Fresh` the invariant says
  when the pipe holds the child's stamp and nothing else (`StampInv`). For
  `AllMeansPrinted` it splits (`OutputInv`): on a terminal the buffers are empty and
  just the means so far are printed; elsewhere they are all in the parent's
  buffer, the child has none that is not there, and later means were printed by
  nobody, without which the last mean could be printed twice. `Refinement` is
  proved as that of `ThreadSwitch`, to the same abstract specification.
* `FileReadProofs`, from `FileAssumption` (sizes are not larger than the file).
  `SeqOK` ties loop counter, offset and what was read together, which `Covers`
  needs. `OnlyOwnHits` needs to know what is in the cache (`CacheOK`): between two
  samples nothing that the phase has not read, and while a sample has reads ahead of
  it nothing but what it has read itself and what is left over from earlier samples
  by the advice. `RandomStaysInTail` is inductive by itself
  with the lemma `TargetType`.
* `FileCacheSizeProofs`, from `CacheAssumption`. `StepAtCapacity` rests on the LRU
  order: the last m elements of the cache are the m blocks used last (`Recent`), as
  far back as cache, sample and size go, across the boundary of the two passes.
  Lemmas say what the library's `RemoveAt` and `RemoveFirst` return and what `Use`
  makes of an injective cache. Theorem: `NeverOrAlways`. The second half proves
  `ChaseIsFullLap` of `MemAccess`, from `MemAssumption`: the
  h-th access is at element h times the stride, modulo the size (`ChaseOK`), and
  within a lap no place repeats, behind it none is new (`PlaceOfChase`).
  Its lemmas are elementary number theory from the well-ordering of the naturals
  (`Least`), since `Lap` is the least number of strides that come round.
* `ContentionProofs`, from `ContentionAssumption`. A reader that met nobody has in
  the cache of its file no block that it has not read itself (`ColdOK`); that
  needs that two who read one file have met (`MetOK`) and that a file that is being
  written has no readers (`LaunchOK`). Theorem: `AloneIsCold`.
* `ResultsProofs`, about `Results` with no assumption: for any set of shells. `Founded` becomes
  inductive with what files hold and running programs have read (`NumbersOK`,
  `ReadOK`), `PreparedRunsReport` with the files of prepared runs (`PreparedOK`).
  Theorems: `ResultsAreFounded`, `PreparedReport`.
  The second half is about `Sampling`, from `SamplingAssumption`: tables of any size,
  samples and overheads of any range, ints of any width, an unsigned integer that
  holds a row of the longest samples and overheads. `OneChildAtATime`: a child exists
  only in the phases that wait for it (`ChildOK`). `ReportsRoundDown` needs that the
  places of the table that this phase has filled hold what was taken (`TimesOK`),
  and then arithmetic: what a sum of samples is, given what each sample is.
  `Sum` is a recursive function, and lemma `Induction`, over sets of numbers, follows
  from the well-ordering of the naturals; `SumBound` and `SumLinear` carry bounds and
  equations from the elements to the sums, `Quotient` through a division. So
  `RowSumType` finds the sum of a row (with the multiples of 2^64 that the samples of
  `mem_bandwidth` have wrapped by, which the remainder takes away again),
  `RowMeanRoundsDown`, `OverallRoundsDown` and `PopMeanRoundsDown` what is printed.
* `BuildProofs`, from `BuildAssumption` (what is mapped is not larger than what mem
  writes). `AgeOK` is about objects as well as binaries: a make links what was
  compiled before. `SizeOK` counts the makes that are still writing the file, and
  `RunOK` carries it over to a run of `pagefault`. Theorems: `Fresh`, `FileIsEnough`.

`Use` of `FileCacheSize` is written with `RemoveFirst`, because a selection from a
sequence is defined by recursion, about which nothing can be proved here.

Only model-checked: liveness (`EndsOrStandsOff`, `ServerFollows`, `RoundEnds`,
`RunEnds`, `Ends`, `ScriptEnds`), which is beyond this prover.

## Not modelled

The values of the measurements, their means and deviations (except in `Sampling`,
where the integer types matter), the wording of the output, priorities and
`taskset`. `mem_bandwidth.cpp:71` and `132` assign the squared errors instead of
adding them up, in every execution: arithmetic without a state for a property to be
about. The page cache has no read-ahead. TCP is a pair of bounded byte queues with
a reset, or in `TcpConn` one packet there and back.

`cycletime.cpp` sleeps ten times and has no state but a sum; no Makefile builds it.
`randomnumbergen.cpp` is an experiment that prints random numbers. The plot scripts
draw tables that were pasted into them. The trimming of the means in
`nw_results.py` is left out. Of the builds, `Build` leaves out the cpu folder (the
same rules, nothing shared but `bin`), the targets `contention` and
`remote_fileread` that `all` does not make, edits of `utils.hpp`, errors of the
compiler and two makes of one folder at the same time. Result files of contention
runs keep the lines of earlier runs, in the order in which readers end; one run of
the script is modelled, without the lines.

## Plan

Done: the modules above and the proofs of all their safety properties. What could
follow:

1. The result files of several contention runs, with the lines that earlier runs
   leave in them (`contention.cpp:68`).
2. The page caches of `FileRead`, `FileCacheSize` and `Contention` are three: any
   eviction, least recently used, and one that only the script empties. Each is the
   one its benchmark presupposes; an abstract specification of all three would say no
   more than that what was read may be found again.
