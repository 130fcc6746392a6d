---------------------------- MODULE ThreadSwitch ----------------------------
(***************************************************************************)
(* cpu_benchmarks/thread_contextswitch.cpp: the main thread opens a pipe,  *)
(* creates a thread, reads the time stamp counter, joins the thread and    *)
(* reads from the pipe the stamp that the thread took first thing.  The    *)
(* difference is a sample if it lies between 0 and Limit; an ensemble is   *)
(* EnsembleSize samples, the program is LoopIter ensembles.                *)
(*                                                                         *)
(* The pipes are never closed: when the descriptors run out pipe() fails,  *)
(* the program does not notice, and fd keeps naming the last pipe.         *)
(*                                                                         *)
(* Stamps are unsigned integers that wrap at Width.  Time advances by      *)
(* ticks between any two steps; a round starts at stamp base and has       *)
(* lasted age ticks, so that the counter reads At(base, age).              *)
(***************************************************************************)
EXTENDS Naturals, Sequences

CONSTANTS Pipes,         \* how many pipes the process may have open
          EnsembleSize, LoopIter,
          Limit,         \* samples of Limit cycles or more are dropped
          Width,         \* the counter wraps here
          MaxDelay       \* bound on the length of a round, in ticks

ASSUME ThreadAssumption ==
  /\ Pipes \in Nat \ {0}
  /\ EnsembleSize \in Nat \ {0} /\ LoopIter \in Nat \ {0}
  /\ Limit \in Nat /\ Width \in Nat /\ MaxDelay \in Nat
  /\ MaxDelay + Limit <= Width   \* a round is much shorter than the counter's period

VARIABLES
  mpc,            \* the main thread: pipe, create, stamp, join, read, filter, done, crashed
  tpc,            \* the thread: none, stamp, write, exited
  opened, cur,    \* pipes opened so far; the pipe that fd names
  pipe,           \* the stamps inside each pipe
  base, age,      \* the time: stamp at the start of the round, ticks since
  threadSt, tt, threadEd,  \* stamps of the main thread, of the thread, and as read
  stAge, ttAge,   \* when the first two were really taken
  i, ensemble     \* samples in this ensemble, ensembles finished

vars == <<mpc, tpc, opened, cur, pipe, base, age, threadSt, tt, threadEd,
          stAge, ttAge, i, ensemble>>

time == <<base, age>>
stamps == <<threadSt, tt, threadEd, stAge, ttAge>>
fds == <<opened, cur>>
count == <<i, ensemble>>

Stamps == 0..(Width - 1)

\* The counter d ticks after it read b.
At(b, d) == IF b + d < Width THEN b + d ELSE b + d - Width

\* Subtraction of unsigned integers.
Sub(a, b) == IF a >= b THEN a - b ELSE a + Width - b

\* The sample that a round returns, and whether it is kept (line 81).
res == Sub(threadEd, threadSt)

InRange_NoLimit(r) == r > 0
InRange_NotOne(r) == r > 1 /\ r < Limit

InRange(r) == r > 0 /\ r < Limit

Init == /\ mpc = "pipe" /\ tpc = "none"
        /\ opened = 0 /\ cur = 1
        /\ pipe = [p \in 1..Pipes |-> <<>>]
        /\ base \in Stamps /\ age = 0
        /\ threadSt = 0 /\ tt = 0 /\ threadEd = 0
        /\ stAge = 0 /\ ttAge = 0
        /\ i = 0 /\ ensemble = 0

-----------------------------------------------------------------------------
(* The main thread.                                                        *)

\* pipe(fd), or fd stays what it was when no descriptors are left.
OpenPipe == /\ mpc = "pipe"
            /\ mpc' = "create"
            /\ \/ /\ opened < Pipes
                  /\ opened' = opened + 1
                  /\ cur' = opened + 1
               \/ /\ opened = Pipes
                  /\ UNCHANGED fds
            /\ UNCHANGED <<tpc, pipe, time, stamps, count>>

CreateThread == /\ mpc = "create"
                /\ mpc' = "stamp"
                /\ tpc' = "stamp"
                /\ UNCHANGED <<fds, pipe, time, stamps, count>>

\* pthread_create() fails; its result is not looked at.
CreateFails == /\ mpc = "create"
               /\ mpc' = "stamp"
               /\ UNCHANGED <<tpc, fds, pipe, time, stamps, count>>

\* The start is taken only now: the new thread may have run already.
StampStart == /\ mpc = "stamp"
              /\ mpc' = "join"
              /\ threadSt' = At(base, age)
              /\ stAge' = age
              /\ UNCHANGED <<tpc, fds, pipe, time, tt, threadEd, ttAge, count>>

Join == /\ mpc = "join"
        /\ tpc = "exited"
        /\ mpc' = "read"
        /\ tpc' = "none"
        /\ UNCHANGED <<fds, pipe, time, stamps, count>>

\* Joining a thread that was never created is undefined: it crashes, returns,
\* or waits forever (no step).
JoinNothing == /\ mpc = "join"
               /\ tpc = "none"
               /\ mpc' \in {"read", "crashed"}
               /\ UNCHANGED <<tpc, fds, pipe, time, stamps, count>>

\* read() blocks until the pipe holds a stamp.
ReadStamp == /\ mpc = "read"
             /\ pipe[cur] # <<>>
             /\ mpc' = "filter"
             /\ threadEd' = Head(pipe[cur])
             /\ pipe' = [pipe EXCEPT ![cur] = Tail(@)]
             /\ UNCHANGED <<tpc, fds, time, threadSt, tt, stAge, ttAge, count>>

\* The next round starts from wherever the counter is by now.
NextRound == base' = At(base, age) /\ age' = 0

\* main prints the mean of a full ensemble and takes the next one.
EnsembleOver == /\ ensemble' = ensemble + 1
                /\ mpc' = IF ensemble + 1 = LoopIter THEN "done" ELSE "pipe"

\* A sample in range is kept; a full ensemble is averaged.
Accept == /\ mpc = "filter"
          /\ InRange(res)
          /\ \/ /\ i + 1 < EnsembleSize
                /\ i' = i + 1
                /\ mpc' = "pipe"
                /\ UNCHANGED ensemble
             \/ /\ i + 1 = EnsembleSize
                /\ i' = 0
                /\ EnsembleOver
          /\ NextRound
          /\ UNCHANGED <<tpc, fds, pipe, stamps>>

\* Any other sample is dropped and the round is repeated.
Reject == /\ mpc = "filter"
          /\ ~InRange(res)
          /\ mpc' = "pipe"
          /\ NextRound
          /\ UNCHANGED <<tpc, fds, pipe, stamps, count>>

-----------------------------------------------------------------------------
(* The thread (foo).                                                       *)

StampEnd == /\ tpc = "stamp"
            /\ tpc' = "write"
            /\ tt' = At(base, age)
            /\ ttAge' = age
            /\ UNCHANGED <<mpc, fds, pipe, time, threadSt, threadEd, stAge, count>>

WriteStamp_FirstPipe == /\ tpc = "write"
                        /\ tpc' = "exited"
                        /\ pipe' = [pipe EXCEPT ![1] = Append(@, tt)]
                        /\ UNCHANGED <<mpc, fds, time, stamps, count>>

\* write() to fd[1] as it is by now, then pthread_exit().
WriteStamp == /\ tpc = "write"
              /\ tpc' = "exited"
              /\ pipe' = [pipe EXCEPT ![cur] = Append(@, tt)]
              /\ UNCHANGED <<mpc, fds, time, stamps, count>>

-----------------------------------------------------------------------------
Tick == /\ mpc \notin {"done", "crashed"}
        /\ age < MaxDelay
        /\ age' = age + 1
        /\ UNCHANGED <<mpc, tpc, fds, pipe, base, stamps, count>>

Main == \/ OpenPipe \/ CreateThread \/ StampStart \/ Join
        \/ ReadStamp \/ Accept \/ Reject
Thread == StampEnd \/ WriteStamp

Next == Main \/ Thread \/ CreateFails \/ JoinNothing \/ Tick

\* Both threads are scheduled while they can run.
Spec == Init /\ [][Next]_vars /\ WF_vars(Main) /\ WF_vars(Thread)

-----------------------------------------------------------------------------
(* Properties.                                                             *)

TypeOK == /\ mpc \in {"pipe", "create", "stamp", "join", "read", "filter",
                      "done", "crashed"}
          /\ tpc \in {"none", "stamp", "write", "exited"}
          /\ opened \in 0..Pipes /\ cur \in 1..Pipes
          /\ pipe \in [1..Pipes -> Seq(Stamps)]
          /\ base \in Stamps /\ age \in 0..MaxDelay
          /\ threadSt \in Stamps /\ tt \in Stamps /\ threadEd \in Stamps
          /\ stAge \in 0..MaxDelay /\ ttAge \in 0..MaxDelay
          /\ i \in 0..(EnsembleSize - 1) /\ ensemble \in 0..LoopIter

\* The stamps of a pipe never outlive their round, whether the pipe is new or
\* reused after the descriptors ran out: before the thread writes every pipe is
\* empty, and what the main thread reads after the join is this round's stamp.
FreshStamp ==
  /\ mpc \in {"pipe", "create"} \/ tpc \in {"stamp", "write"} =>
       \A p \in 1..Pipes : pipe[p] = <<>>
  /\ tpc = "exited" =>
       \A p \in 1..Pipes : pipe[p] = IF p = cur THEN <<tt>> ELSE <<>>
  /\ mpc = "filter" => threadEd = tt

\* A sample is kept only if the thread's stamp was really taken after the main
\* thread's, and then it is the true distance of the two, whichever thread ran
\* first and wherever the counter wrapped between them (lines 67 and 81).
AcceptSound == [][Accept => stAge < ttAge /\ res = ttAge - stAge]_vars

\* The two stamps of the round, from when they are taken until they are judged.
Left == IF mpc \in {"join", "read", "filter", "crashed"} THEN {stAge} ELSE {}
Entered == IF \/ tpc \in {"write", "exited"} \/ mpc = "filter"
              \/ mpc = "read" /\ pipe[cur] # <<>>
             THEN {ttAge} ELSE {}

Rounds == INSTANCE SwitchRounds WITH left <- Left, entered <- Entered, means <- ensemble

\* The program implements SwitchRounds: beyond AcceptSound, it drops no sample that
\* is a short switch, and each mean is that of EnsembleSize samples, in spite of
\* descriptors that ran out, threads that run first and a counter that wraps.
RoundsSpec == Rounds!Spec

\* A round whose thread was created comes to an end.
RoundEnds == mpc = "join" /\ tpc # "none" ~> mpc = "filter"
=============================================================================
