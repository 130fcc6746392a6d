---------------------------- MODULE ProcessSwitch ----------------------------
(***************************************************************************)
(* cpu_benchmarks/process_contextswitch.cpp: the parent forks a child,     *)
(* reads the time stamp counter, waits for the child and reads from a pipe *)
(* the stamp that the child took first thing.  A positive difference is a  *)
(* sample.  Each of LoopIter ensembles opens one pipe, collects            *)
(* EnsembleSize samples and prints its mean.                               *)
(*                                                                         *)
(* The child leaves with exit(), which also flushes the standard output    *)
(* buffer it inherited.  On a terminal that buffer is empty after each     *)
(* line; otherwise it holds every line until the program ends, since all   *)
(* lines together are shorter than the buffer.                             *)
(*                                                                         *)
(* Stamps are the ticks since the round began.                             *)
(***************************************************************************)
EXTENDS Naturals, Sequences

CONSTANTS EnsembleSize, LoopIter,
          MaxDelay,      \* bound on the length of a round, in ticks
          MaxSeen        \* a line printed this often or more counts as so often

ASSUME ProcessAssumption ==
  /\ EnsembleSize \in Nat \ {0} /\ LoopIter \in Nat \ {0}
  /\ MaxDelay \in Nat
  /\ MaxSeen \in Nat /\ MaxSeen >= 2

VARIABLES
  ppc,            \* the parent: pipe, fork, stamp, wait, read, filter, print, done
  cpc,            \* the child: none, stamp, write, exit, zombie
  pipe,           \* the stamps inside the ensemble's pipe
  age,            \* the time
  start, end,     \* the parent's stamp, and the stamp it read
  cend,           \* the child's stamp
  i, ensemble,    \* samples in this ensemble; number of the ensemble
  tty,            \* standard output is a terminal
  outbuf, cbuf,   \* means in the standard output buffer, and in the child's copy
  seen            \* how often each ensemble's mean was written to the output

vars == <<ppc, cpc, pipe, age, start, end, cend, i, ensemble, tty, outbuf, cbuf, seen>>

output == <<tty, outbuf, cbuf, seen>>
count == <<i, ensemble>>

Ensembles == 1..LoopIter

\* The means in the set b are written to the output.
Written(b) == [e \in Ensembles |->
                 IF e \in b /\ seen[e] < MaxSeen THEN seen[e] + 1 ELSE seen[e]]

Init == /\ ppc = "pipe" /\ cpc = "none"
        /\ pipe = <<>>
        /\ age = 0 /\ start = 0 /\ end = 0 /\ cend = 0
        /\ i = 0 /\ ensemble = 1
        /\ tty \in BOOLEAN
        /\ outbuf = {} /\ cbuf = {}
        /\ seen = [e \in Ensembles |-> 0]

-----------------------------------------------------------------------------
(* The parent.                                                             *)

\* One pipe per ensemble: they are never closed, but a hundred of them fit.
OpenPipe == /\ ppc = "pipe"
            /\ ppc' = "fork"
            /\ pipe' = <<>>
            /\ UNCHANGED <<cpc, age, start, end, cend, count, output>>

\* The child gets a copy of what is in the output buffer.
Fork == /\ ppc = "fork"
        /\ ppc' = "stamp"
        /\ cpc' = "stamp"
        /\ cbuf' = outbuf
        /\ UNCHANGED <<pipe, age, start, end, cend, count, tty, outbuf, seen>>

\* fork() returns -1, which is not 0: the parent goes on as if it had a child.
ForkFails == /\ ppc = "fork"
             /\ ppc' = "stamp"
             /\ UNCHANGED <<cpc, pipe, age, start, end, cend, count, output>>

StampStart == /\ ppc = "stamp"
              /\ ppc' = "wait"
              /\ start' = age
              /\ UNCHANGED <<cpc, pipe, age, end, cend, count, output>>

Wait_NotForChild == /\ ppc = "wait"
                    /\ ppc' = "read"
                    /\ UNCHANGED <<cpc, pipe, age, start, end, cend, count, output>>

\* wait() reaps the child, or returns at once when there is none.
Wait == /\ ppc = "wait"
        /\ cpc \in {"zombie", "none"}
        /\ ppc' = "read"
        /\ cpc' = "none"
        /\ UNCHANGED <<pipe, age, start, end, cend, count, output>>

\* read() blocks until the pipe holds a stamp.
ReadStamp == /\ ppc = "read"
             /\ pipe # <<>>
             /\ ppc' = "filter"
             /\ end' = Head(pipe)
             /\ pipe' = Tail(pipe)
             /\ UNCHANGED <<cpc, age, start, cend, count, output>>

\* A child that stamped after the parent gives a sample.
Accept == /\ ppc = "filter"
          /\ end > start
          /\ i' = i + 1
          /\ ppc' = IF i + 1 = EnsembleSize THEN "print" ELSE "fork"
          /\ age' = 0
          /\ UNCHANGED <<cpc, pipe, start, end, cend, ensemble, output>>

\* A child that stamped first gives 0, and the round is repeated.
Reject == /\ ppc = "filter"
          /\ end <= start
          /\ ppc' = "fork"
          /\ age' = 0
          /\ UNCHANGED <<cpc, pipe, start, end, cend, count, output>>

Flushed_AtEnd == ensemble = LoopIter

\* A terminal gets each line at once; returning from main flushes the buffer.
Flushed == tty \/ ensemble = LoopIter

PrintMean_KeepCount ==
  /\ ppc = "print"
  /\ IF Flushed THEN outbuf' = {} /\ seen' = Written(outbuf \union {ensemble})
                ELSE outbuf' = outbuf \union {ensemble} /\ UNCHANGED seen
  /\ IF ensemble = LoopIter THEN ppc' = "done" /\ UNCHANGED ensemble
                            ELSE ppc' = "pipe" /\ ensemble' = ensemble + 1
  /\ UNCHANGED <<cpc, pipe, age, start, end, cend, i, tty, cbuf>>

\* The mean goes to the output, or into the buffer; the next ensemble begins.
PrintMean ==
  /\ ppc = "print"
  /\ i' = 0
  /\ IF Flushed THEN outbuf' = {} /\ seen' = Written(outbuf \union {ensemble})
                ELSE outbuf' = outbuf \union {ensemble} /\ UNCHANGED seen
  /\ IF ensemble = LoopIter THEN ppc' = "done" /\ UNCHANGED ensemble
                            ELSE ppc' = "pipe" /\ ensemble' = ensemble + 1
  /\ UNCHANGED <<cpc, pipe, age, start, end, cend, tty, cbuf>>

-----------------------------------------------------------------------------
(* The child.                                                              *)

StampEnd == /\ cpc = "stamp"
            /\ cpc' = "write"
            /\ cend' = age
            /\ UNCHANGED <<ppc, pipe, age, start, end, count, output>>

WriteStamp_Not == /\ cpc = "write"
                  /\ cpc' = "exit"
                  /\ UNCHANGED <<ppc, pipe, age, start, end, cend, count, output>>

WriteStamp == /\ cpc = "write"
              /\ cpc' = "exit"
              /\ pipe' = Append(pipe, cend)
              /\ UNCHANGED <<ppc, age, start, end, cend, count, output>>

\* exit(1) flushes the child's copy of the output buffer.
Exit == /\ cpc = "exit"
        /\ cpc' = "zombie"
        /\ seen' = Written(cbuf)
        /\ cbuf' = {}
        /\ UNCHANGED <<ppc, pipe, age, start, end, cend, count, tty, outbuf>>

-----------------------------------------------------------------------------
Tick == /\ ppc # "done"
        /\ age < MaxDelay
        /\ age' = age + 1
        /\ UNCHANGED <<ppc, cpc, pipe, start, end, cend, count, output>>

Parent == \/ OpenPipe \/ Fork \/ StampStart \/ Wait \/ ReadStamp
          \/ Accept \/ Reject \/ PrintMean
Child == StampEnd \/ WriteStamp \/ Exit

Next == Parent \/ Child \/ ForkFails \/ Tick

\* Both processes are scheduled while they can run.
Spec == Init /\ [][Next]_vars /\ WF_vars(Parent) /\ WF_vars(Child)

-----------------------------------------------------------------------------
(* Properties.                                                             *)

TypeOK == /\ ppc \in {"pipe", "fork", "stamp", "wait", "read", "filter",
                      "print", "done"}
          /\ cpc \in {"none", "stamp", "write", "exit", "zombie"}
          /\ pipe \in Seq(0..MaxDelay)
          /\ age \in 0..MaxDelay /\ start \in 0..MaxDelay
          /\ end \in 0..MaxDelay /\ cend \in 0..MaxDelay
          /\ i \in 0..EnsembleSize /\ ensemble \in Ensembles
          /\ tty \in BOOLEAN
          /\ outbuf \subseteq Ensembles /\ cbuf \subseteq Ensembles
          /\ seen \in [Ensembles -> 0..MaxSeen]

\* The one pipe of an ensemble carries no stamp from round to round: it is empty
\* when a child is forked, and the stamp that is read is this round's child's.
FreshStamp == /\ ppc \in {"pipe", "fork"} => pipe = <<>> /\ cpc = "none"
              /\ ppc = "filter" => end = cend

\* Every mean reaches the output.  On a terminal it does so once; otherwise only
\* the last one is sure not to be repeated, since every child forked while a
\* mean waits in the buffer prints it as well (lines 59 and 134).
MeansPrinted ==
  ppc = "done" =>
    \A e \in Ensembles : /\ seen[e] >= 1
                         /\ tty \/ e = LoopIter => seen[e] = 1

\* The two stamps of the round, from when they are taken until they are judged.
Left == IF ppc \in {"wait", "read", "filter"} THEN {start} ELSE {}
Entered == IF \/ cpc \in {"write", "exit", "zombie"} \/ ppc = "filter"
              \/ ppc = "read" /\ pipe # <<>>
             THEN {cend} ELSE {}

Rounds == INSTANCE SwitchRounds
            WITH left <- Left, entered <- Entered, Limit <- MaxDelay + 1,
                 i <- IF ppc = "print" THEN 0 ELSE i,
                 means <- IF ppc \in {"print", "done"} THEN ensemble ELSE ensemble - 1

\* The program implements SwitchRounds, for switches of any length: a round is
\* repeated if and only if the child ran first, and each mean that is printed is that
\* of EnsembleSize rounds, although all of them share a pipe.
RoundsSpec == Rounds!Spec

\* A round whose child was forked comes to an end. Where fork() failed, which the
\* code takes for the parent's branch, the parent waits for a stamp forever: not a
\* lost round, but the end of the benchmark.
RoundEnds == /\ ppc = "wait" /\ cpc # "none" ~> ppc = "filter"
             /\ ppc = "wait" /\ cpc = "none" ~> [](ppc = "read")
=============================================================================
