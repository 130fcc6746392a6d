-------------------------- MODULE ProcessSwitchProofs --------------------------
(***************************************************************************)
(* Proofs about ProcessSwitch: for ensembles of any number and size, the   *)
(* stamp that is read is that of the round's child, and every mean is      *)
(* printed, whatever the children that exit print as well.                 *)
(***************************************************************************)
EXTENDS ProcessSwitch, TLAPS

\* Only the last sample of an ensemble leads to its mean.
CountOK == IF ppc = "print" THEN i = EnsembleSize ELSE i < EnsembleSize

\* The child exists until the parent has waited for it.
PhaseOK == cpc # "none" => ppc \in {"stamp", "wait"}

\* The stamp is in the pipe from the child's write() to the parent's read().
PipeOK == pipe = IF \/ cpc \in {"exit", "zombie"}
                    \/ ppc = "read" /\ pipe # <<>>
                   THEN <<cend>> ELSE <<>>
ReadOK == ppc = "filter" => end = cend

\* On a terminal, buffers are empty and the means so far were printed once.
TerminalOK == tty => /\ outbuf = {} /\ cbuf = {}
                     /\ \A e \in Ensembles :
                          seen[e] = IF ppc = "done" \/ e < ensemble THEN 1 ELSE 0

\* Elsewhere the means so far are all in the buffer, a child has none that is
\* not there, and means to come were printed by nobody.
BufferOK == ~tty /\ ppc # "done" =>
              /\ outbuf = 1..(ensemble - 1) /\ cbuf \subseteq outbuf
              /\ \A e \in Ensembles : e >= ensemble => seen[e] = 0
FlushOK == ~tty /\ ppc = "done" =>
             /\ \A e \in Ensembles : seen[e] >= 1
             /\ seen[LoopIter] = 1

StampInv == CountOK /\ PhaseOK /\ PipeOK /\ ReadOK
OutputInv == TerminalOK /\ BufferOK /\ FlushOK
IInv == TypeOK /\ StampInv /\ OutputInv

-----------------------------------------------------------------------------
\* Writing means counts each of them once more, up to MaxSeen.
LEMMA WrittenSeen ==
  ASSUME TypeOK, NEW b \in SUBSET Ensembles
  PROVE  /\ Written(b) \in [Ensembles -> 0..MaxSeen]
         /\ \A e \in b : /\ Written(b)[e] >= 1
                         /\ seen[e] = 0 => Written(b)[e] = 1
         /\ \A e \in Ensembles \ b : Written(b)[e] = seen[e]
BY ProcessAssumption DEF Written, TypeOK

-----------------------------------------------------------------------------
\* The initial state satisfies the inductive invariant.
LEMMA InitIInv == Init => IInv
<1> SUFFICES ASSUME Init PROVE IInv
  OBVIOUS
<1> USE ProcessAssumption DEF Init, Ensembles
<1>1. TypeOK BY DEF TypeOK
<1>2. StampInv BY DEF StampInv, CountOK, PhaseOK, PipeOK, ReadOK
<1>3. OutputInv BY DEF OutputInv, TerminalOK, BufferOK, FlushOK
<1> QED BY <1>1, <1>2, <1>3 DEF IInv

\* Steps that leave the output alone preserve what the invariant says of it.
LEMMA OutputUnchanged ==
  ASSUME OutputInv, UNCHANGED <<output, ensemble>>, ppc' = "done" <=> ppc = "done"
  PROVE  OutputInv'
BY DEF OutputInv, TerminalOK, BufferOK, FlushOK, output

\* The steps of the parent up to wait() preserve it.
LEMMA ForkIInv == ASSUME IInv, OpenPipe \/ Fork \/ ForkFails \/ StampStart \/ Wait
                  PROVE  IInv'
<1> USE DEF IInv, StampInv, CountOK, PhaseOK, PipeOK, ReadOK, count
<1>1. CASE OpenPipe
  BY <1>1, OutputUnchanged DEF OpenPipe, TypeOK, output
<1>2. CASE Fork
  <2>1. OutputInv'
    BY <1>2 DEF Fork, OutputInv, TerminalOK, BufferOK, FlushOK
  <2> QED BY <1>2, <2>1 DEF Fork, TypeOK
<1>3. CASE ForkFails
  BY <1>3, OutputUnchanged DEF ForkFails, TypeOK, output
<1>4. CASE StampStart
  BY <1>4, OutputUnchanged DEF StampStart, TypeOK, output
<1>5. CASE Wait
  BY <1>5, OutputUnchanged DEF Wait, TypeOK, output
<1> QED BY <1>1, <1>2, <1>3, <1>4, <1>5

\* Reading the stamp and judging the sample preserve it: the pipe is empty again.
LEMMA SampleIInv == ASSUME IInv, ReadStamp \/ Accept \/ Reject PROVE IInv'
<1> USE DEF IInv, StampInv, CountOK, PhaseOK, PipeOK, ReadOK, count
<1>1. CASE ReadStamp
  <2>1. cpc = "none" /\ pipe = <<cend>> BY <1>1 DEF ReadStamp
  <2>2. end' = cend /\ pipe' = <<>> /\ cend \in 0..MaxDelay
    BY <1>1, <2>1 DEF ReadStamp, TypeOK
  <2>3. TypeOK' BY <1>1, <2>2 DEF ReadStamp, TypeOK, output
  <2>4. OutputInv' BY <1>1, OutputUnchanged DEF ReadStamp
  <2> QED BY <1>1, <2>1, <2>2, <2>3, <2>4 DEF ReadStamp
<1>2. CASE Accept
  <2>1. OutputInv' BY <1>2, OutputUnchanged DEF Accept
  <2> QED BY <1>2, <2>1, ProcessAssumption DEF Accept, TypeOK, output
<1>3. CASE Reject
  <2>1. OutputInv' BY <1>3, OutputUnchanged DEF Reject
  <2> QED BY <1>3, <2>1, ProcessAssumption DEF Reject, TypeOK, output
<1> QED BY <1>1, <1>2, <1>3

\* Printing the mean preserves it.
LEMMA PrintIInv == ASSUME IInv, PrintMean PROVE IInv'
<1> DEFINE b == outbuf \cup {ensemble}
<1>1. /\ ppc = "print" /\ i' = 0 /\ cpc = "none"
      /\ UNCHANGED <<cpc, pipe, age, start, end, cend, tty, cbuf>>
  BY DEF PrintMean, IInv, StampInv, PhaseOK
<1>2. b \subseteq Ensembles /\ ensemble \in Ensembles BY DEF IInv, TypeOK
<1>3. \/ /\ ensemble = LoopIter /\ ppc' = "done" /\ ensemble' = ensemble
      \/ /\ ensemble < LoopIter /\ ppc' = "pipe" /\ ensemble' = ensemble + 1
  BY <1>2, ProcessAssumption DEF PrintMean, Ensembles
<1>4. /\ Flushed => outbuf' = {} /\ seen' = Written(b)
      /\ ~Flushed => outbuf' = b /\ seen' = seen
  BY DEF PrintMean
<1>5. TypeOK'
  <2>1. seen' \in [Ensembles -> 0..MaxSeen] /\ outbuf' \subseteq Ensembles
    BY <1>2, <1>4, WrittenSeen DEF IInv, TypeOK
  <2>2. ensemble' \in Ensembles BY <1>2, <1>3, ProcessAssumption DEF Ensembles
  <2> QED BY <1>1, <1>3, <2>1, <2>2, ProcessAssumption DEF IInv, TypeOK
<1>6. StampInv'
  BY <1>1, <1>3, ProcessAssumption DEF IInv, StampInv, CountOK, PhaseOK, PipeOK, ReadOK
<1>7. TerminalOK'
  <2> SUFFICES ASSUME tty, NEW e \in Ensembles
               PROVE  seen'[e] = IF ppc' = "done" \/ e < ensemble' THEN 1 ELSE 0
    BY <1>1, <1>4 DEF TerminalOK, Flushed, IInv, OutputInv
  <2>1. /\ b = {ensemble} /\ seen' = Written(b)
        /\ seen[e] = IF e < ensemble THEN 1 ELSE 0
    BY <1>1, <1>4 DEF Flushed, IInv, OutputInv, TerminalOK
  <2>2. /\ e \in b /\ seen[e] = 0 => seen'[e] = 1
        /\ e \notin b => seen'[e] = seen[e]
    <3>1. /\ \A d \in b : seen[d] = 0 => Written(b)[d] = 1
          /\ \A d \in Ensembles \ b : Written(b)[d] = seen[d]
      BY <1>2, WrittenSeen DEF IInv
    <3> QED BY <2>1, <3>1
  <2>3. seen'[e] = IF e < ensemble \/ e = ensemble THEN 1 ELSE 0
    <3>1. CASE e = ensemble
      <4>1. e \in b /\ ~(e < ensemble)
        BY <1>2, <2>1, <3>1, ProcessAssumption DEF Ensembles
      <4> QED BY <2>1, <2>2, <3>1, <4>1
    <3>2. CASE e # ensemble
      <4>1. e \notin b BY <2>1, <3>2
      <4> QED BY <2>1, <2>2, <3>2, <4>1
    <3> QED BY <3>1, <3>2
  <2>4. ppc' = "done" \/ e < ensemble' <=> e < ensemble \/ e = ensemble
    BY <1>1, <1>2, <1>3, ProcessAssumption DEF Ensembles
  <2> QED BY <2>3, <2>4
<1>8. BufferOK'
  <2> SUFFICES ASSUME ~tty, ensemble < LoopIter
               PROVE  BufferOK'
    BY <1>1, <1>3 DEF BufferOK
  <2>1. outbuf' = b /\ seen' = seen BY <1>2, <1>4, ProcessAssumption DEF Flushed, Ensembles
  <2>2. /\ outbuf = 1..(ensemble - 1) /\ cbuf \subseteq outbuf
        /\ \A e \in Ensembles : e >= ensemble => seen[e] = 0
    BY <1>1 DEF IInv, OutputInv, BufferOK
  <2> QED BY <1>1, <1>2, <1>3, <2>1, <2>2, ProcessAssumption DEF BufferOK, Ensembles
<1>9. FlushOK'
  <2> SUFFICES ASSUME ~tty, ensemble = LoopIter
               PROVE  FlushOK'
    BY <1>1, <1>3, <1>2, ProcessAssumption DEF FlushOK, Ensembles
  <2>1. seen' = Written(b) BY <1>4 DEF Flushed
  <2>2. b = Ensembles /\ seen[LoopIter] = 0
    BY <1>1, <1>2, ProcessAssumption DEF IInv, OutputInv, BufferOK, Ensembles
  <2> QED BY <1>2, <2>1, <2>2, WrittenSeen DEF IInv, FlushOK
<1> QED BY <1>5, <1>6, <1>7, <1>8, <1>9 DEF IInv, OutputInv

\* The steps of the child preserve it: it writes its stamp into an empty pipe, and
\* what it prints when it exits are means that the parent prints later.
LEMMA ChildIInv == ASSUME IInv, Child PROVE IInv'
<1> USE DEF IInv, StampInv, CountOK, PhaseOK, PipeOK, ReadOK, count
<1>1. CASE StampEnd
  BY <1>1, OutputUnchanged DEF StampEnd, TypeOK, output
<1>2. CASE WriteStamp
  <2>1. pipe' = <<cend>> /\ cend \in 0..MaxDelay
    <3>1. pipe = <<>> /\ cend \in 0..MaxDelay BY <1>2 DEF WriteStamp, TypeOK
    <3>2. pipe' = Append(pipe, cend) BY <1>2 DEF WriteStamp
    <3> QED BY <3>1, <3>2
  <2>2. TypeOK' BY <1>2, <2>1 DEF WriteStamp, TypeOK, output
  <2>3. OutputInv' BY <1>2, OutputUnchanged DEF WriteStamp
  <2> QED BY <1>2, <2>1, <2>2, <2>3 DEF WriteStamp
<1>3. CASE Exit
  <2>1. /\ seen' = Written(cbuf) /\ cbuf' = {} /\ cpc = "exit" /\ cpc' = "zombie"
        /\ UNCHANGED <<ppc, pipe, age, start, end, cend, i, ensemble, tty, outbuf>>
    BY <1>3 DEF Exit
  <2>2. cbuf \subseteq Ensembles /\ ppc # "done" BY <2>1 DEF TypeOK
  <2>3. TypeOK' BY <2>1, <2>2, WrittenSeen DEF TypeOK
  <2>4. TerminalOK'
    <3> SUFFICES ASSUME tty PROVE \A e \in Ensembles : seen'[e] = seen[e]
      BY <2>1 DEF OutputInv, TerminalOK
    <3>1. cbuf = {} BY DEF OutputInv, TerminalOK
    <3> QED BY <2>1, <3>1, WrittenSeen
  <2>5. BufferOK'
    <3> SUFFICES ASSUME ~tty, NEW e \in Ensembles, e >= ensemble
                 PROVE  seen'[e] = 0
      BY <2>1, <2>2 DEF OutputInv, BufferOK
    <3>1. e \notin cbuf /\ seen[e] = 0
      BY <2>2, ProcessAssumption DEF OutputInv, BufferOK, Ensembles, TypeOK
    <3> QED BY <2>1, <2>2, <3>1, WrittenSeen
  <2>6. FlushOK' BY <2>1, <2>2 DEF FlushOK
  <2> QED BY <2>1, <2>3, <2>4, <2>5, <2>6 DEF OutputInv
<1> QED BY <1>1, <1>2, <1>3 DEF Child

\* The passing of time preserves it.
LEMMA TickIInv == ASSUME IInv, Tick \/ UNCHANGED vars PROVE IInv'
<1> USE DEF IInv, StampInv, CountOK, PhaseOK, PipeOK, ReadOK, count
<1>1. CASE Tick
  BY <1>1, OutputUnchanged, ProcessAssumption DEF Tick, TypeOK, output
<1>2. CASE UNCHANGED vars
  BY <1>2, OutputUnchanged DEF vars, TypeOK, output
<1> QED BY <1>1, <1>2

\* So does every step.
LEMMA NextIInv == ASSUME IInv, [Next]_vars PROVE IInv'
BY ForkIInv, SampleIInv, PrintIInv, ChildIInv, TickIInv DEF Next, Parent

\* The inductive invariant holds in every reachable state.
THEOREM Invariance == Spec => []IInv
BY InitIInv, NextIInv, PTL DEF Spec

-----------------------------------------------------------------------------
\* The variables keep their types: no ensemble gets a sample too many.
THEOREM TypeCorrect == Spec => []TypeOK
BY Invariance, PTL DEF IInv

\* The one pipe of an ensemble carries no stamp from round to round.
THEOREM Fresh == Spec => []FreshStamp
<1>1. IInv => FreshStamp
  BY DEF IInv, StampInv, PhaseOK, PipeOK, ReadOK, FreshStamp
<1> QED BY <1>1, Invariance, PTL

\* Every mean is printed, and on a terminal once, for any number of ensembles.
THEOREM AllMeansPrinted == Spec => []MeansPrinted
<1>1. IInv => MeansPrinted
  <2> SUFFICES ASSUME IInv, ppc = "done", NEW e \in Ensembles
               PROVE  seen[e] >= 1 /\ (tty \/ e = LoopIter => seen[e] = 1)
    BY DEF MeansPrinted
  <2>1. CASE tty BY <2>1 DEF IInv, OutputInv, TerminalOK
  <2>2. CASE ~tty BY <2>2 DEF IInv, OutputInv, FlushOK
  <2> QED BY <2>1, <2>2
<1> QED BY <1>1, Invariance, PTL

-----------------------------------------------------------------------------
(* ProcessSwitch implements SwitchRounds.                                  *)

\* The rounds that have counted, and the means, as SwitchRounds counts them.
Counted == IF ppc = "print" THEN 0 ELSE i
Means == IF ppc \in {"print", "done"} THEN ensemble ELSE ensemble - 1

\* No stamp is later than now.
ClockOK == /\ \A t \in Left : t <= age
           /\ \A t \in Entered : t <= age

RInv == IInv /\ ClockOK

\* Steps that take no stamp and judge no round: printing is one of them.
LEMMA QuietStep ==
  ASSUME IInv,
         \/ OpenPipe \/ Fork \/ ForkFails \/ Wait \/ ReadStamp \/ PrintMean
         \/ WriteStamp \/ Exit \/ Tick \/ UNCHANGED vars
  PROVE  UNCHANGED <<Left, Entered, Counted, Means>> /\ (age' = age \/ age' = age + 1)
<1> USE DEF Left, Entered, Counted, Means, IInv, StampInv, PhaseOK, PipeOK, count
<1>1. CASE OpenPipe \/ Fork \/ ForkFails BY <1>1 DEF OpenPipe, Fork, ForkFails
<1>2. CASE Wait BY <1>2 DEF Wait
<1>3. CASE ReadStamp BY <1>3 DEF ReadStamp
<1>4. CASE PrintMean
  <2>1. /\ ppc = "print" /\ ppc' \in {"done", "pipe"} /\ i' = 0
        /\ UNCHANGED <<cpc, pipe, age, start, cend>>
        /\ Means' = ensemble
    BY <1>4, ProcessAssumption DEF PrintMean, TypeOK, Ensembles
  <2> QED BY <2>1
<1>5. CASE WriteStamp
  <2>1. UNCHANGED <<ppc, age, start, cend, i, ensemble>> /\ ppc # "read"
    BY <1>5 DEF WriteStamp
  <2> QED BY <1>5, <2>1 DEF WriteStamp
<1>6. CASE Exit BY <1>6 DEF Exit
<1>7. CASE Tick BY <1>7 DEF Tick
<1>8. CASE UNCHANGED vars BY <1>8 DEF vars
<1> QED BY <1>1, <1>2, <1>3, <1>4, <1>5, <1>6, <1>7, <1>8

\* A stamp is taken at this moment, and only while there are means to come.
LEMMA LeftStep ==
  ASSUME IInv, StampStart
  PROVE  /\ Left = {} /\ Left' = {age} /\ Means < LoopIter
         /\ UNCHANGED <<Entered, Counted, Means, age>>
BY ProcessAssumption
DEF StampStart, Left, Entered, Counted, Means, IInv, TypeOK, Ensembles, count

LEMMA EnteredStep ==
  ASSUME IInv, StampEnd
  PROVE  /\ Entered = {} /\ Entered' = {age} /\ Means < LoopIter
         /\ UNCHANGED <<Left, Counted, Means, age>>
BY ProcessAssumption
DEF StampEnd, Left, Entered, Counted, Means, IInv, StampInv, PhaseOK, TypeOK, Ensembles,
    count

\* A round that is judged has both stamps, and leaves none.
LEMMA FilterStep ==
  ASSUME IInv, Accept \/ Reject
  PROVE  /\ Rounds!NextRound /\ Left' = {} /\ Entered' = {}
         /\ end > start <=> Rounds!Switched
<1>1. ppc = "filter" /\ ppc' \in {"print", "fork"} /\ cpc = "none" /\ cpc' = "none"
  BY DEF Accept, Reject, IInv, StampInv, PhaseOK
<1>2. Left = {start} /\ Entered = {cend} /\ Left' = {} /\ Entered' = {}
  BY <1>1 DEF Left, Entered
<1>3. end = cend /\ start \in 0..MaxDelay /\ cend \in 0..MaxDelay
  BY <1>1 DEF IInv, StampInv, ReadOK, TypeOK
<1>4. end > start <=> start < cend /\ cend - start < MaxDelay + 1
  BY <1>3, ProcessAssumption
<1> QED BY <1>2, <1>4 DEF Rounds!NextRound, Rounds!Switched

\* The clock goes on while stamps are kept.
LEMMA ClockStep == ASSUME RInv, [Next]_vars PROVE ClockOK'
<1> USE DEF RInv, ClockOK
<1>1. /\ age \in 0..MaxDelay /\ MaxDelay \in Nat
      /\ \A t \in Left \cup Entered : t \in 0..MaxDelay
  BY ProcessAssumption DEF IInv, TypeOK, Left, Entered
<1>2. CASE StampStart BY <1>1, <1>2, LeftStep
<1>3. CASE StampEnd BY <1>1, <1>3, EnteredStep
<1>4. CASE Accept \/ Reject BY <1>4, FilterStep
<1>5. CASE UNCHANGED <<Left, Entered>> /\ (age' = age \/ age' = age + 1)
  BY <1>1, <1>5
<1> QED BY <1>2, <1>3, <1>4, <1>5, QuietStep DEF Next, Parent, Child

\* A step of the two processes is a step of SwitchRounds, or none.
LEMMA RoundsStep ==
  ASSUME RInv, [Next]_vars
  PROVE  \/ Rounds!Leave \/ Rounds!Enter \/ Rounds!Count \/ Rounds!Drop
         \/ UNCHANGED Rounds!vars
<1> USE DEF RInv, Counted, Means
<1>1. CASE StampStart
  <2>1. age \in Rounds!Now(Entered)
    BY DEF IInv, TypeOK, ClockOK, Rounds!Now
  <2> QED BY <1>1, <2>1, LeftStep DEF Rounds!Leave
<1>2. CASE StampEnd
  <2>1. age \in Rounds!Now(Left)
    BY DEF IInv, TypeOK, ClockOK, Rounds!Now
  <2> QED BY <1>2, <2>1, EnteredStep DEF Rounds!Enter
<1>3. CASE Accept
  <2>1. Rounds!NextRound /\ Rounds!Switched BY <1>3, FilterStep DEF Accept
  <2>2. IF Counted + 1 < EnsembleSize
          THEN Counted' = Counted + 1 /\ Means' = Means
          ELSE Counted' = 0 /\ Means' = Means + 1
    BY <1>3, ProcessAssumption
    DEF Accept, IInv, TypeOK, StampInv, CountOK, Ensembles
  <2> QED BY <2>1, <2>2 DEF Rounds!Count
<1>4. CASE Reject
  <2>1. Rounds!NextRound /\ ~Rounds!Switched
    BY <1>4, FilterStep DEF Reject, IInv, TypeOK
  <2>2. UNCHANGED <<Counted, Means>> BY <1>4 DEF Reject, count
  <2> QED BY <2>1, <2>2 DEF Rounds!Drop
<1>5. CASE UNCHANGED <<Left, Entered, Counted, Means>> BY <1>5 DEF Rounds!vars
<1> QED BY <1>1, <1>2, <1>3, <1>4, <1>5, QuietStep DEF Next, Parent, Child

\* The program implements SwitchRounds: a round counts if and only if the child was
\* entered after the parent's stamp, and each mean that is printed is that of
\* EnsembleSize of them.
THEOREM Refinement == Spec => RoundsSpec
<1>1. Init => RInv /\ Rounds!Init
  BY InitIInv, ProcessAssumption
  DEF Init, RInv, ClockOK, Left, Entered, Rounds!Init
<1>2. RInv /\ [Next]_vars => RInv'
  BY NextIInv, ClockStep DEF RInv
<1>3. RInv /\ [Next]_vars
        => [Rounds!Leave \/ Rounds!Enter \/ Rounds!Count \/ Rounds!Drop]_(Rounds!vars)
  BY RoundsStep
<1> QED BY <1>1, <1>2, <1>3, PTL DEF Spec, RoundsSpec, Rounds!Spec
=============================================================================
