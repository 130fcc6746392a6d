-------------------------- MODULE ThreadSwitchProofs --------------------------
(***************************************************************************)
(* Proofs about ThreadSwitch: for any number of pipes, any sample limit,   *)
(* any counter width and any length of a round, a sample is always this    *)
(* round's and, if it is kept, the true distance of the two stamps.        *)
(***************************************************************************)
EXTENDS ThreadSwitch, TLAPS

\* No stamp is inside any pipe; the thread's stamp is in fd's pipe and nowhere else.
Empty == \A p \in 1..Pipes : pipe[p] = <<>>
OneStamp == \A p \in 1..Pipes : pipe[p] = IF p = cur THEN <<tt>> ELSE <<>>

\* The time and the pipe that fd names.
TimeOK == /\ base \in Stamps /\ age \in 0..MaxDelay
          /\ opened \in 0..Pipes /\ cur \in 1..Pipes
          /\ pipe \in [1..Pipes -> Seq(Stamps)]
          /\ i \in Nat /\ ensemble \in Nat

\* The thread exists only while the main thread is about to join it.
PhaseOK == /\ mpc \in {"pipe", "create", "stamp", "join", "read", "filter",
                       "done", "crashed"}
           /\ tpc \in {"none", "stamp", "write", "exited"}
           /\ tpc # "none" => mpc \in {"stamp", "join"}

\* Where the stamps are: in the pipe from the thread's write() to the read().
PipeOK == /\ tpc = "exited" => OneStamp
          /\ mpc = "read" => Empty \/ OneStamp
          /\ mpc # "read" /\ tpc # "exited" => Empty

\* Both stamps were taken in this round, when stAge and ttAge say.
StartOK == mpc \in {"join", "read", "filter"} =>
             /\ stAge \in 0..MaxDelay
             /\ threadSt = At(base, stAge)
EndOK == \/ tpc \in {"write", "exited"}
         \/ mpc = "read" /\ pipe[cur] # <<>>
         \/ mpc = "filter"
         => /\ ttAge \in 0..MaxDelay
            /\ tt = At(base, ttAge)
ReadOK == mpc = "filter" => threadEd = tt

IInv == TimeOK /\ PhaseOK /\ PipeOK /\ StartOK /\ EndOK /\ ReadOK

-----------------------------------------------------------------------------
\* The counter reads an unsigned integer of its width.
LEMMA AtType == ASSUME NEW b \in Stamps, NEW d \in 0..MaxDelay
                PROVE  At(b, d) \in Stamps
BY ThreadAssumption DEF At, Stamps

\* The difference of two readings of one round, taken modulo the width, is their
\* true distance as soon as it is in range: a negative one wraps beyond Limit.
LEMMA SubAt == ASSUME NEW b \in Stamps, NEW d \in 0..MaxDelay, NEW e \in 0..MaxDelay,
                      InRange(Sub(At(b, e), At(b, d)))
               PROVE  d < e /\ Sub(At(b, e), At(b, d)) = e - d
<1> USE ThreadAssumption DEF Stamps
<1>1. CASE b + d < Width /\ b + e < Width
  BY <1>1 DEF At, Sub, InRange
<1>2. CASE b + d < Width /\ ~(b + e < Width)
  BY <1>2 DEF At, Sub, InRange
<1>3. CASE ~(b + d < Width) /\ b + e < Width
  BY <1>3 DEF At, Sub, InRange
<1>4. CASE ~(b + d < Width) /\ ~(b + e < Width)
  BY <1>4 DEF At, Sub, InRange
<1> QED BY <1>1, <1>2, <1>3, <1>4

\* The stamps and their ages are readings of the counter; the last ensemble is the
\* end of the program, so that neither count runs past its limit.
StampOK == /\ threadSt \in Stamps /\ tt \in Stamps /\ threadEd \in Stamps
           /\ stAge \in 0..MaxDelay /\ ttAge \in 0..MaxDelay
CountOK == /\ i \in 0..(EnsembleSize - 1) /\ ensemble \in 0..LoopIter
           /\ mpc # "done" => ensemble < LoopIter

-----------------------------------------------------------------------------
\* The initial state satisfies the inductive invariant.
LEMMA InitIInv == Init => IInv
<1> SUFFICES ASSUME Init PROVE IInv
  OBVIOUS
<1>1. pipe \in [1..Pipes -> Seq(Stamps)] /\ Empty
  BY DEF Init, Empty
<1>2. TimeOK BY <1>1, ThreadAssumption DEF Init, TimeOK
<1>3. PhaseOK /\ PipeOK /\ StartOK /\ EndOK /\ ReadOK
  BY <1>1 DEF Init, PhaseOK, PipeOK, StartOK, EndOK, ReadOK
<1> QED BY <1>2, <1>3 DEF IInv

\* The steps of the main thread up to the join preserve it.
LEMMA RoundIInv == ASSUME IInv,
                          OpenPipe \/ CreateThread \/ CreateFails \/ StampStart
                   PROVE  IInv'
<1> USE DEF IInv, TimeOK, PhaseOK, PipeOK, StartOK, EndOK, ReadOK, Empty, OneStamp,
            fds, time, stamps, count, At
<1>1. CASE OpenPipe BY <1>1, ThreadAssumption DEF OpenPipe
<1>2. CASE CreateThread BY <1>2 DEF CreateThread
<1>3. CASE CreateFails BY <1>3 DEF CreateFails
<1>4. CASE StampStart BY <1>4, AtType DEF StampStart
<1> QED BY <1>1, <1>2, <1>3, <1>4

\* The join and the read preserve it: the one stamp leaves the pipe.
LEMMA ReadIInv == ASSUME IInv, Join \/ JoinNothing \/ ReadStamp PROVE IInv'
<1> USE DEF IInv, TimeOK, PhaseOK, PipeOK, StartOK, EndOK, ReadOK,
            fds, time, stamps, count
<1>1. CASE Join
  <2>1. OneStamp /\ UNCHANGED OneStamp BY <1>1 DEF Join, OneStamp
  <2> QED BY <1>1, <2>1 DEF Join, At
<1>2. CASE JoinNothing
  <2>1. Empty /\ UNCHANGED Empty BY <1>2 DEF JoinNothing, Empty
  <2> QED BY <1>2, <2>1 DEF JoinNothing, At, Empty
<1>3. CASE ReadStamp
  <2>1. OneStamp BY <1>3 DEF ReadStamp, Empty
  <2>2. pipe[cur] = <<tt>> BY <2>1 DEF OneStamp
  <2>3. tt \in Stamps BY <1>3, <2>2, AtType DEF ReadStamp
  <2>4. threadEd' = tt /\ Tail(pipe[cur]) = <<>>
    BY <1>3, <2>2 DEF ReadStamp
  <2>5. pipe' = [pipe EXCEPT ![cur] = <<>>] BY <1>3, <2>4 DEF ReadStamp
  <2>6. Empty' BY <2>1, <2>5 DEF OneStamp, Empty
  <2>7. pipe' \in [1..Pipes -> Seq(Stamps)] BY <2>5
  <2>8. mpc' = "filter" /\ tpc = "none"
        /\ UNCHANGED <<tpc, fds, time, threadSt, tt, stAge, ttAge, count>>
    BY <1>3 DEF ReadStamp
  <2>9. TimeOK' BY <2>7, <2>8
  <2>10. StartOK' BY <1>3, <2>8 DEF At, ReadStamp
  <2>11. EndOK' BY <1>3, <2>2, <2>8 DEF At, ReadStamp
  <2> QED BY <2>4, <2>6, <2>8, <2>9, <2>10, <2>11
<1> QED BY <1>1, <1>2, <1>3

\* Keeping or dropping the sample preserves it: the next round starts afresh.
LEMMA FilterIInv == ASSUME IInv, Accept \/ Reject PROVE IInv'
<1>1. At(base, age) \in Stamps BY AtType DEF IInv, TimeOK
<1>2. /\ mpc = "filter" /\ mpc' \in {"pipe", "done"}
      /\ base' \in Stamps /\ age' = 0
      /\ UNCHANGED <<tpc, opened, cur, pipe, threadSt, tt, threadEd, stAge, ttAge>>
  BY <1>1 DEF Accept, EnsembleOver, Reject, NextRound, fds, stamps
<1>3. i' \in Nat /\ ensemble' \in Nat
  BY DEF Accept, EnsembleOver, Reject, count, IInv, TimeOK
<1>4. tpc = "none" /\ Empty
  BY <1>2 DEF IInv, PhaseOK, PipeOK
<1>5. Empty' BY <1>2, <1>4 DEF Empty
<1>6. TimeOK' BY <1>2, <1>3, ThreadAssumption DEF IInv, TimeOK
<1>7. PhaseOK' /\ PipeOK' /\ StartOK' /\ EndOK' /\ ReadOK'
  BY <1>2, <1>4, <1>5 DEF PhaseOK, PipeOK, StartOK, EndOK, ReadOK
<1> QED BY <1>6, <1>7 DEF IInv

\* The steps of the thread preserve it.
LEMMA ThreadIInv == ASSUME IInv, Thread PROVE IInv'
<1> USE DEF IInv, TimeOK, PhaseOK, PipeOK, StartOK, EndOK, ReadOK,
            fds, time, stamps, count
<1>1. CASE StampEnd
  <2>1. Empty /\ UNCHANGED Empty BY <1>1 DEF StampEnd, Empty
  <2> QED BY <1>1, <2>1 DEF StampEnd, At
<1>2. CASE WriteStamp
  <2>1. Empty /\ tt \in Stamps BY <1>2, AtType DEF WriteStamp
  <2>2. pipe' = [pipe EXCEPT ![cur] = <<tt>>]
    <3>1. pipe[cur] = <<>> BY <2>1 DEF Empty
    <3>2. Append(pipe[cur], tt) = <<tt>> BY <2>1, <3>1
    <3> QED BY <1>2, <3>2 DEF WriteStamp
  <2>3. OneStamp' /\ pipe' \in [1..Pipes -> Seq(Stamps)]
    <3>1. tt' = tt /\ cur' = cur BY <1>2 DEF WriteStamp
    <3>2. <<tt>> \in Seq(Stamps) BY <2>1
    <3>3. pipe' \in [1..Pipes -> Seq(Stamps)] BY <2>2, <3>2
    <3>4. OneStamp' BY <2>1, <2>2, <3>1 DEF OneStamp, Empty
    <3> QED BY <3>3, <3>4
  <2> QED BY <1>2, <2>3 DEF WriteStamp, At
<1> QED BY <1>1, <1>2 DEF Thread

\* The passing of time preserves it.
LEMMA TickIInv == ASSUME IInv, Tick \/ UNCHANGED vars PROVE IInv'
<1> USE DEF IInv, TimeOK, PhaseOK, PipeOK, StartOK, EndOK, ReadOK, Empty, OneStamp,
            At, fds, stamps, count
<1>1. CASE Tick BY <1>1, ThreadAssumption DEF Tick
<1>2. CASE UNCHANGED vars BY <1>2 DEF vars
<1> QED BY <1>1, <1>2

\* So does every step.
LEMMA NextIInv == ASSUME IInv, [Next]_vars PROVE IInv'
BY RoundIInv, ReadIInv, FilterIInv, ThreadIInv, TickIInv DEF Next, Main

\* The inductive invariant holds in every reachable state.
THEOREM Invariance == Spec => []IInv
BY InitIInv, NextIInv, PTL DEF Spec

-----------------------------------------------------------------------------
\* A stamp never outlives its round, whether or not pipes are left.
THEOREM Fresh == Spec => []FreshStamp
<1>1. IInv => FreshStamp
  BY DEF IInv, PhaseOK, PipeOK, ReadOK, FreshStamp, Empty, OneStamp
<1> QED BY <1>1, Invariance, PTL

\* No count runs past its limit.
LEMMA CountStep == ASSUME IInv, CountOK, [Next]_vars PROVE CountOK'
<1>1. CASE Accept BY <1>1, ThreadAssumption DEF Accept, EnsembleOver, CountOK
<1>2. CASE UNCHANGED count /\ mpc # "done" BY <1>2 DEF count, CountOK
<1>3. CASE UNCHANGED <<count, mpc>> BY <1>3 DEF count, CountOK
<1> QED
  BY <1>1, <1>2, <1>3
  DEF Next, Main, Thread, OpenPipe, CreateThread, StampStart, CreateFails, Join,
      JoinNothing, ReadStamp, Reject, StampEnd, WriteStamp, Tick, vars, count

\* Every variable has its type: no stamp leaves the counter's width, and the counts
\* of samples and ensembles stay within theirs.
THEOREM TypeCorrect == Spec => []TypeOK
<1>1. Init => StampOK /\ CountOK
  BY ThreadAssumption DEF Init, StampOK, CountOK, Stamps
<1>2. ASSUME IInv, StampOK, [Next]_vars PROVE StampOK'
  <2>1. At(base, age) \in Stamps /\ age \in 0..MaxDelay
    BY <1>2, AtType DEF IInv, TimeOK
  <2>2. CASE ReadStamp
    <3>1. pipe[cur] \in Seq(Stamps) /\ pipe[cur] # <<>>
      BY <1>2, <2>2 DEF IInv, TimeOK, ReadStamp
    <3>2. Head(pipe[cur]) \in Stamps BY <3>1
    <3> QED BY <1>2, <2>2, <3>2 DEF ReadStamp, StampOK
  <2>3. CASE StampStart BY <1>2, <2>1, <2>3 DEF StampStart, StampOK
  <2>4. CASE StampEnd BY <1>2, <2>1, <2>4 DEF StampEnd, StampOK
  <2>5. CASE UNCHANGED stamps BY <1>2, <2>5 DEF stamps, StampOK
  <2> QED
    BY <1>2, <2>2, <2>3, <2>4, <2>5
    DEF Next, Main, Thread, OpenPipe, CreateThread, CreateFails, Join, JoinNothing,
        Accept, EnsembleOver, Reject, WriteStamp, Tick, vars, stamps
<1>4. IInv /\ StampOK /\ CountOK => TypeOK
  BY DEF IInv, TimeOK, PhaseOK, StampOK, CountOK, TypeOK
<1>5. IInv /\ StampOK /\ CountOK /\ [Next]_vars => (StampOK /\ CountOK)'
  BY <1>2, CountStep
<1> QED BY <1>1, <1>4, <1>5, Invariance, PTL DEF Spec

\* A kept sample is the true distance between the two stamps.
THEOREM AcceptedIsTrue == Spec => AcceptSound
<1>1. ASSUME IInv, Accept PROVE stAge < ttAge /\ res = ttAge - stAge
  <2>1. mpc = "filter" /\ InRange(res) BY <1>1 DEF Accept
  <2>2. /\ base \in Stamps /\ stAge \in 0..MaxDelay /\ ttAge \in 0..MaxDelay
        /\ threadSt = At(base, stAge) /\ threadEd = At(base, ttAge)
    BY <1>1, <2>1 DEF IInv, TimeOK, StartOK, EndOK, ReadOK
  <2> QED BY <2>1, <2>2, SubAt DEF res
<1>2. IInv /\ [Next]_vars => [Accept => stAge < ttAge /\ res = ttAge - stAge]_vars
  BY <1>1
<1> QED BY <1>2, Invariance, PTL DEF Spec, AcceptSound

-----------------------------------------------------------------------------
(* ThreadSwitch implements SwitchRounds.                                   *)

\* No stamp is later than now.
ClockOK == /\ \A t \in Left : t \in 0..MaxDelay /\ t <= age
           /\ \A t \in Entered : t \in 0..MaxDelay /\ t <= age

RInv == IInv /\ CountOK /\ ClockOK

\* A short switch is in range, wherever the counter wraps.
LEMMA ShortInRange ==
  ASSUME NEW b \in Stamps, NEW d \in 0..MaxDelay, NEW e \in 0..MaxDelay
  PROVE  InRange(Sub(At(b, e), At(b, d))) <=> d < e /\ e - d < Limit
<1> USE ThreadAssumption DEF Stamps
<1>1. ASSUME d < e, e - d < Limit PROVE Sub(At(b, e), At(b, d)) = e - d
  <2>1. CASE b + e < Width BY <1>1, <2>1 DEF At, Sub
  <2>2. CASE ~(b + e < Width) BY <1>1, <2>2 DEF At, Sub
  <2> QED BY <2>1, <2>2
<1>2. ASSUME d < e, e - d < Limit PROVE InRange(Sub(At(b, e), At(b, d)))
  BY <1>1, <1>2 DEF InRange
<1>3. ASSUME InRange(Sub(At(b, e), At(b, d))) PROVE d < e /\ e - d < Limit
  BY <1>3, SubAt DEF InRange
<1> QED BY <1>2, <1>3

\* Steps that take no stamp and judge no sample.
LEMMA QuietStep ==
  ASSUME IInv,
         \/ OpenPipe \/ CreateThread \/ CreateFails \/ Join \/ JoinNothing \/ ReadStamp
         \/ WriteStamp \/ Tick \/ UNCHANGED vars
  PROVE  UNCHANGED <<Left, Entered, i, ensemble>> /\ (age' = age \/ age' = age + 1)
<1> USE DEF Left, Entered, IInv, PhaseOK, PipeOK, TimeOK, fds, time, stamps, count
<1>1. CASE OpenPipe \/ CreateThread \/ CreateFails
  BY <1>1 DEF OpenPipe, CreateThread, CreateFails
<1>2. CASE Join
  <2>1. pipe[cur] = <<tt>> BY <1>2 DEF Join, OneStamp
  <2> QED BY <1>2, <2>1 DEF Join
<1>3. CASE JoinNothing
  <2>1. pipe[cur] = <<>> BY <1>3 DEF JoinNothing, Empty
  <2> QED BY <1>3, <2>1 DEF JoinNothing
<1>4. CASE ReadStamp BY <1>4 DEF ReadStamp
<1>5. CASE WriteStamp BY <1>5 DEF WriteStamp
<1>6. CASE Tick BY <1>6 DEF Tick
<1>7. CASE UNCHANGED vars BY <1>7 DEF vars
<1> QED BY <1>1, <1>2, <1>3, <1>4, <1>5, <1>6, <1>7

\* The stamps are taken one by one, at this moment.
LEMMA LeftStep ==
  ASSUME IInv, StampStart
  PROVE  Left = {} /\ Left' = {age} /\ UNCHANGED <<Entered, i, ensemble, age>>
BY DEF StampStart, Left, Entered, fds, time, count

LEMMA EnteredStep ==
  ASSUME IInv, StampEnd
  PROVE  /\ Entered = {} /\ Entered' = {age} /\ mpc # "done"
         /\ UNCHANGED <<Left, i, ensemble, age>>
BY DEF StampEnd, Left, Entered, IInv, PhaseOK, fds, time, stamps, count

\* A sample that is judged has both stamps, and leaves none.
LEMMA FilterStep ==
  ASSUME IInv, Accept \/ Reject
  PROVE  /\ Left = {stAge} /\ Entered = {ttAge} /\ Left' = {} /\ Entered' = {}
         /\ InRange(res) <=> Rounds!Switched
<1>1. mpc = "filter" /\ mpc' \in {"pipe", "done"} /\ tpc = "none" /\ tpc' = "none"
  BY DEF Accept, EnsembleOver, Reject, IInv, PhaseOK
<1>2. Left = {stAge} /\ Entered = {ttAge} /\ Left' = {} /\ Entered' = {}
  BY <1>1 DEF Left, Entered
<1>3. /\ base \in Stamps /\ stAge \in 0..MaxDelay /\ ttAge \in 0..MaxDelay
      /\ threadSt = At(base, stAge) /\ threadEd = At(base, ttAge)
  BY <1>1 DEF IInv, TimeOK, StartOK, EndOK, ReadOK
<1>4. InRange(res) <=> stAge < ttAge /\ ttAge - stAge < Limit
  BY <1>3, ShortInRange DEF res
<1> QED BY <1>2, <1>4 DEF Rounds!Switched

\* The clock goes on while stamps are kept.
LEMMA ClockStep == ASSUME RInv, [Next]_vars PROVE ClockOK'
<1> USE DEF RInv, ClockOK
<1>1. age \in 0..MaxDelay /\ MaxDelay \in Nat BY ThreadAssumption DEF IInv, TimeOK
<1>2. CASE StampStart BY <1>1, <1>2, LeftStep
<1>3. CASE StampEnd BY <1>1, <1>3, EnteredStep
<1>4. CASE Accept \/ Reject BY <1>4, FilterStep
<1>5. CASE UNCHANGED <<Left, Entered>> /\ (age' = age \/ age' = age + 1)
  BY <1>1, <1>5
<1> QED BY <1>2, <1>3, <1>4, <1>5, QuietStep DEF Next, Main, Thread

\* A step of the program is a step of SwitchRounds, or none.
LEMMA RoundsStep ==
  ASSUME RInv, [Next]_vars
  PROVE  \/ Rounds!Leave \/ Rounds!Enter \/ Rounds!Count \/ Rounds!Drop
         \/ UNCHANGED Rounds!vars
<1> USE DEF RInv
<1>1. CASE StampStart
  <2>1. ensemble < LoopIter BY <1>1 DEF StampStart, CountOK
  <2>2. age \in Rounds!Now(Entered)
    BY ThreadAssumption DEF IInv, TimeOK, ClockOK, Rounds!Now
  <2> QED BY <1>1, <2>1, <2>2, LeftStep DEF Rounds!Leave
<1>2. CASE StampEnd
  <2>1. ensemble < LoopIter BY <1>2, EnteredStep DEF CountOK
  <2>2. age \in Rounds!Now(Left)
    BY ThreadAssumption DEF IInv, TimeOK, ClockOK, Rounds!Now
  <2> QED BY <1>2, <2>1, <2>2, EnteredStep DEF Rounds!Enter
<1>3. CASE Accept
  <2>1. Rounds!NextRound /\ Rounds!Switched
    BY <1>3, FilterStep DEF Accept, EnsembleOver, Rounds!NextRound
  <2>2. IF i + 1 < EnsembleSize THEN i' = i + 1 /\ ensemble' = ensemble
                                ELSE i' = 0 /\ ensemble' = ensemble + 1
    BY <1>3, ThreadAssumption DEF Accept, EnsembleOver
  <2> QED BY <2>1, <2>2 DEF Rounds!Count
<1>4. CASE Reject
  <2>1. Rounds!NextRound /\ ~Rounds!Switched
    BY <1>4, FilterStep DEF Reject, Rounds!NextRound
  <2> QED BY <1>4, <2>1 DEF Reject, count, Rounds!Drop
<1>5. CASE UNCHANGED <<Left, Entered, i, ensemble>> BY <1>5 DEF Rounds!vars
<1> QED BY <1>1, <1>2, <1>3, <1>4, <1>5, QuietStep DEF Next, Main, Thread

\* The program implements SwitchRounds: a sample is kept if and only if it is a short
\* switch from the main thread to the other, and each mean is that of EnsembleSize of
\* them, for any number of descriptors and any width of the counter.
THEOREM Refinement == Spec => RoundsSpec
<1>1. Init => RInv /\ Rounds!Init
  BY InitIInv, ThreadAssumption
  DEF Init, RInv, CountOK, ClockOK, Left, Entered, Rounds!Init
<1>2. RInv /\ [Next]_vars => RInv'
  BY NextIInv, CountStep, ClockStep DEF RInv
<1>3. RInv /\ [Next]_vars
        => [Rounds!Leave \/ Rounds!Enter \/ Rounds!Count \/ Rounds!Drop]_(Rounds!vars)
  BY RoundsStep
<1> QED BY <1>1, <1>2, <1>3, PTL DEF Spec, RoundsSpec, Rounds!Spec
=============================================================================
