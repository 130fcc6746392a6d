-------------------------- MODULE PeakBandwidthProofs --------------------------
(***************************************************************************)
(* Proofs about PeakBandwidth, for every buffer size, every capacity of    *)
(* the connection and every bound on the total.                            *)
(***************************************************************************)
EXTENDS PeakBandwidth, TcpConn, TLAPS

\* What is left of a call is positive exactly while the call goes on.
CallsOK == /\ IF cpc = "send" THEN left \in 1..Chunk ELSE left = 0
           /\ IF spc = "write" THEN hand \in 1..Chunk ELSE hand = 0

\* The client never receives ahead of the rounds it finished sending.
RoundsOK == /\ cpc = "send" => rcvd <= sent
            /\ cpc = "recv" /\ ~reset => rcvd + Chunk <= sent

\* All that can be outstanding is in the two directions and the server's hand;
\* a server that dies drops its hand, a reset drops the directions, but after
\* either of them the client hands over no more than fits.
WindowOK == /\ ~reset => Out <= rcvd + up + down + Chunk
            /\ Out <= rcvd + (2 * PipeCap + Chunk)

IInv == TypeOK /\ CallsOK /\ EchoBalance /\ RoundsOK /\ WindowOK /\ ServerDrains

-----------------------------------------------------------------------------
\* The initial state satisfies the inductive invariant.
LEMMA InitIInv == Init => IInv
<1> SUFFICES ASSUME Init PROVE IInv
  OBVIOUS
<1>1. Out = 0 BY DEF Init, Out
<1>2. TypeOK
  <2>1. expired \in BOOLEAN /\ reset \in BOOLEAN BY Zenon DEF Init
  <2>2. left \in 0..Chunk /\ hand \in 0..Chunk BY PeakAssumption DEF Init
  <2>3. up \in 0..PipeCap /\ down \in 0..PipeCap BY PeakAssumption DEF Init
  <2>4. sent \in Nat /\ rcvd \in Nat BY DEF Init
  <2>5. cpc \in ClientStates /\ spc \in ServerStates
    BY DEF Init, ClientStates, ServerStates
  <2> QED BY <2>1, <2>2, <2>3, <2>4, <2>5 DEF TypeOK
<1>3. CallsOK /\ EchoBalance /\ RoundsOK /\ WindowOK /\ ServerDrains
  BY <1>1, PeakAssumption
  DEF Init, CallsOK, EchoBalance, RoundsOK, WindowOK, ServerDrains
<1> QED BY <1>2, <1>3 DEF IInv

\* Every step of the client preserves it.
LEMMA ClientIInv == ASSUME IInv, Client PROVE IInv'
<1> USE PeakAssumption
    DEF IInv, TypeOK, CallsOK, EchoBalance, RoundsOK, WindowOK, ServerDrains, Out,
        ClientGone, ServerGone, ClientStates, ServerStates
<1>1. CASE Connect BY <1>1 DEF Connect
<1>2. CASE ClientFails BY <1>2 DEF ClientFails
<1>3. CASE StartRound BY <1>3 DEF StartRound
<1>4. CASE Finish BY <1>4 DEF Finish
<1>5. CASE Push
  <2>1. PICK k \in 1..left :
          /\ up + k <= PipeCap /\ up' = up + k /\ left' = left - k
          /\ IF k = left THEN cpc' = "recv" /\ sent' = sent + Chunk
                         ELSE UNCHANGED <<cpc, sent>>
    BY <1>5 DEF Push, Fits
  <2>2. /\ cpc = "send" /\ ~reset
        /\ UNCHANGED <<spc, hand, down, rcvd, expired, reset>>
    BY <1>5 DEF Push
  <2>3. CASE k = left BY <2>1, <2>2, <2>3
  <2>4. CASE k # left BY <2>1, <2>2, <2>4
  <2> QED BY <2>3, <2>4
<1>6. CASE SendCut BY <1>6 DEF SendCut
<1>7. CASE SendFails BY <1>7 DEF SendFails
<1>8. CASE Recv BY <1>8 DEF Recv
<1>9. CASE RecvEof BY <1>9 DEF RecvEof
<1>10. CASE RecvFails BY <1>10 DEF RecvFails
<1> QED BY <1>1, <1>2, <1>3, <1>4, <1>5, <1>6, <1>7, <1>8, <1>9, <1>10 DEF Client

\* Every step of the server preserves it.
LEMMA ServerIInv == ASSUME IInv, Server \/ ServerKilled PROVE IInv'
<1> USE PeakAssumption
    DEF IInv, TypeOK, CallsOK, EchoBalance, RoundsOK, WindowOK, ServerDrains, Out,
        ClientGone, ServerGone, ClientStates, ServerStates
<1>1. CASE ServerListens BY <1>1 DEF ServerListens
<1>2. CASE ServerFails BY <1>2 DEF ServerFails
<1>3. CASE Accept BY <1>3 DEF Accept
<1>4. CASE Read BY <1>4 DEF Read, WriteLength
<1>5. CASE ReadEnds BY <1>5 DEF ReadEnds
<1>6. CASE Write
  <2>1. PICK k \in 1..hand :
          /\ down + k <= PipeCap /\ down' = down + k /\ hand' = hand - k
          /\ spc' = IF k = hand THEN "read" ELSE "write"
    BY <1>6 DEF Write, Fits
  <2>2. /\ spc = "write" /\ ~reset
        /\ UNCHANGED <<cpc, left, up, sent, rcvd, expired, reset>>
    BY <1>6 DEF Write
  <2> QED BY <2>1, <2>2
<1>7. CASE WriteFails BY <1>7 DEF WriteFails
<1>8. CASE ServerKilled BY <1>8 DEF ServerKilled
<1> QED BY <1>1, <1>2, <1>3, <1>4, <1>5, <1>6, <1>7, <1>8 DEF Server

\* Every step of the clock and of the kernels preserves it.
LEMMA KernelIInv == ASSUME IInv, Deadline \/ Reset PROVE IInv'
<1> USE PeakAssumption
    DEF IInv, TypeOK, CallsOK, EchoBalance, RoundsOK, WindowOK, ServerDrains, Out,
        ClientGone, ServerGone, ClientStates, ServerStates
<1>1. CASE Deadline BY <1>1 DEF Deadline
<1>2. CASE Reset BY <1>2 DEF Reset
<1> QED BY <1>1, <1>2

\* A step of the specification preserves the inductive invariant.
LEMMA NextIInv == IInv /\ [Next]_vars => IInv'
<1> SUFFICES ASSUME IInv, [Next]_vars PROVE IInv'
  OBVIOUS
<1>1. CASE Next
  BY <1>1, ClientIInv, ServerIInv, KernelIInv DEF Next
<1>2. CASE UNCHANGED vars
  BY <1>2 DEF vars, IInv, TypeOK, CallsOK, EchoBalance, RoundsOK, WindowOK,
              ServerDrains, Out, ClientGone, ServerGone
<1> QED BY <1>1, <1>2

\* The inductive invariant holds in every reachable state.
THEOREM Invariance == Spec => []IInv
BY InitIInv, NextIInv, PTL DEF Spec

-----------------------------------------------------------------------------
\* Type correctness: no direction is ever overfilled, no call overruns.
THEOREM TypeCorrect == Spec => []TypeOK
<1>1. IInv => TypeOK BY DEF IInv
<1> QED BY <1>1, Invariance, PTL

\* The echo neither invents nor, while both ends are up, loses bytes.
THEOREM Balanced == Spec => []EchoBalance
<1>1. IInv => EchoBalance BY DEF IInv
<1> QED BY <1>1, Invariance, PTL

\* The client's recv() is always owed at least one buffer.
THEOREM Owed == Spec => []RecvIsOwed
<1>1. IInv => RecvIsOwed
  <2> SUFFICES ASSUME IInv, cpc = "recv", ~reset, ~ServerGone
               PROVE  up + hand + down >= Chunk
    BY DEF RecvIsOwed
  <2>1. rcvd + up + hand + down = sent /\ rcvd + Chunk <= sent
    BY PeakAssumption DEF IInv, TypeOK, EchoBalance, RoundsOK, Out
  <2> QED BY <2>1, PeakAssumption DEF IInv, TypeOK
<1> QED BY <1>1, Invariance, PTL

\* A standoff needs a backlog of two full directions.
THEOREM BacklogBeforeStandoff == Spec => []StandoffBacklog
<1>1. IInv => StandoffBacklog
  <2> SUFFICES ASSUME IInv, Standoff
               PROVE  sent + Chunk >= rcvd + 2 * PipeCap + 2
    BY DEF StandoffBacklog
  <2>1. rcvd + up + hand + down = sent + (Chunk - left)
    BY DEF IInv, EchoBalance, Standoff, Out, ServerGone
  <2>2. left \in 1..Chunk /\ hand \in 1..Chunk /\ up = PipeCap /\ down = PipeCap
    BY DEF IInv, CallsOK, Standoff
  <2> QED BY <2>1, <2>2, PeakAssumption DEF IInv, TypeOK
<1> QED BY <1>1, Invariance, PTL

\* A server that leaves its loop by itself has echoed all it was sent.
THEOREM ServerLeavesNothing == Spec => []ServerDrains
<1>1. IInv => ServerDrains BY DEF IInv
<1> QED BY <1>1, Invariance, PTL

-----------------------------------------------------------------------------
\* The initial state is the initial state of the abstract stream.
LEMMA StreamInit == Init => Stream!Init
BY DEF Init, Stream!Init, Out, ClientEnded, ClientGone

\* Every step moves the abstract stream, or leaves it alone.
LEMMA StreamStep == ASSUME IInv, IInv', [Next]_vars
                    PROVE  [Stream!Next]_(Stream!vars)
<1> USE DEF Stream!vars, Out, ClientEnded, ClientGone
<1>1. CASE Push
  <2>1. PICK k \in 1..left :
          IF k = left THEN cpc' = "recv" /\ sent' = sent + Chunk /\ left' = left - k
                      ELSE UNCHANGED <<cpc, sent>> /\ left' = left - k
    BY <1>1 DEF Push
  <2>2. cpc = "send" /\ UNCHANGED rcvd BY <1>1 DEF Push
  <2>3. k \in 1..Chunk /\ left \in 1..Chunk
    BY <2>2, PeakAssumption DEF IInv, CallsOK
  <2>4. Out' = Out + k
    <3>1. sent \in Nat BY DEF IInv, TypeOK
    <3>2. CASE k = left
      <4>1. Out' = sent + Chunk BY <2>1, <3>1, <3>2, PeakAssumption
      <4> QED BY <2>2, <2>3, <3>1, <3>2, <4>1, PeakAssumption
    <3>3. CASE k # left BY <2>1, <2>2, <2>3, <3>1, <3>3, PeakAssumption
    <3> QED BY <3>2, <3>3
  <2>5. Out + k <= rcvd + (2 * PipeCap + Chunk)
    BY <2>2, <2>4 DEF IInv, WindowOK
  <2>6. ~ClientEnded /\ ~ClientEnded' BY <2>1, <2>2
  <2>7. Stream!Emit
    BY <2>2, <2>3, <2>4, <2>5, <2>6 DEF Stream!Emit
  <2> QED BY <2>7 DEF Stream!Next
<1>2. CASE Recv
  <2>1. PICK n \in 1..Chunk : n <= down /\ rcvd' = rcvd + n
    BY <1>2 DEF Recv
  <2>2. cpc = "recv" /\ cpc' = "check" /\ UNCHANGED sent BY <1>2 DEF Recv
  <2>3. rcvd + n <= Out
    BY <2>1, <2>2, PeakAssumption DEF IInv, TypeOK, EchoBalance
  <2>4. Stream!Return BY <2>1, <2>2, <2>3 DEF Stream!Return
  <2> QED BY <2>4 DEF Stream!Next
<1>3. CASE ClientFails \/ Finish \/ SendFails \/ RecvFails
  <2>1. ~ClientEnded /\ ClientEnded' /\ UNCHANGED <<sent, rcvd>>
    BY <1>3 DEF ClientFails, Finish, SendFails, RecvFails
  <2>2. Out = sent /\ Out' = sent'
    <3>1. sent \in Nat /\ sent' = sent BY <2>1 DEF IInv, TypeOK
    <3>2. cpc # "send" \/ left = Chunk
      BY <1>3 DEF ClientFails, Finish, SendFails, RecvFails
    <3>3. cpc' # "send" BY <2>1
    <3> QED BY <3>1, <3>2, <3>3, PeakAssumption
  <2>3. Stream!Stop BY <2>1, <2>2 DEF Stream!Stop
  <2> QED BY <2>3 DEF Stream!Next
<1>4. CASE Connect \/ StartRound \/ SendCut \/ RecvEof
  <2>1. sent \in Nat /\ left \in Nat BY PeakAssumption DEF IInv, TypeOK
  <2>2. CASE Connect \/ RecvEof
    BY <2>2 DEF Connect, RecvEof
  <2>3. CASE StartRound
    BY <2>1, <2>3, PeakAssumption DEF StartRound
  <2>4. CASE SendCut
    BY <2>1, <2>4, PeakAssumption DEF SendCut
  <2> QED BY <1>4, <2>2, <2>3, <2>4
<1>5. CASE Server \/ Deadline \/ Reset \/ ServerKilled
  BY <1>5 DEF Server, ServerListens, ServerFails, Accept, Read, ReadEnds, Write,
              WriteFails, Deadline, Reset, ServerKilled
<1>6. CASE UNCHANGED vars BY <1>6 DEF vars
<1> QED BY <1>1, <1>2, <1>3, <1>4, <1>5, <1>6 DEF Next, Client

\* The two programs implement the stream that comes back.
THEOREM Refinement == Spec => StreamSpec
<1>1. Spec => Stream!Init BY StreamInit DEF Spec
<1>2. IInv /\ IInv' /\ [Next]_vars => [Stream!Next]_(Stream!vars)
  BY StreamStep
<1> QED BY <1>1, <1>2, Invariance, PTL DEF Spec, StreamSpec, Stream!Spec

-----------------------------------------------------------------------------
(* The other network benchmark, whose proof is short: TcpConn, for any     *)
(* number of runs and of stops of its server.                              *)

\* Every sample that timed no echo, and the one that will not if the connection was
\* cut, has a stop of the server of its own; no client runs beyond the last one.
VoidOK == /\ void + (IF conn = "cut" THEN 1 ELSE 0) <= stops
          /\ pc = "close" /\ ~timed => conn = "cut"
          /\ pc \in {"connect", "send", "recv", "close"} => samples < Runs
          /\ pc = "done" => samples = Runs

\* Every step of the script, its clients, the network and the server preserves it.
LEMMA ConnStep ==
  ASSUME TCTypeOK, VoidOK, TCNext
  PROVE  TCTypeOK' /\ VoidOK'
<1>1. timed \in BOOLEAN /\ samples \in 0..Runs /\ void \in 0..samples
      /\ stops \in 0..MaxStops
  BY DEF TCTypeOK
<1>2. timed' \in BOOLEAN
  BY <1>1, Zenon
  DEF TCNext, Script, Launch, Handshake, SendPacket,
      RecvEcho, Close, Echo, ServerStops, ServerStarts
<1> USE <1>1, <1>2, TcpConnAssumption DEF VoidOK, world, TCTypeOK
<1>3. CASE Launch BY <1>3 DEF Launch
<1>4. CASE Handshake BY <1>4 DEF Handshake
<1>5. CASE SendPacket BY <1>5 DEF SendPacket
<1>6. CASE RecvEcho BY <1>6 DEF RecvEcho
<1>7. CASE Close BY <1>7 DEF Close
<1>8. CASE Echo BY <1>8 DEF Echo
<1>9. CASE ServerStops BY <1>9 DEF ServerStops
<1>10. CASE ServerStarts BY <1>10 DEF ServerStarts
<1> QED
  BY <1>3, <1>4, <1>5, <1>6, <1>7, <1>8, <1>9, <1>10 DEF TCNext, Script

\* The inductive invariant holds in every reachable state.
THEOREM ConnInvariance == TCSpec => [](TCTypeOK /\ VoidOK)
<1>1. TCInit => TCTypeOK /\ VoidOK
  <2> SUFFICES ASSUME TCInit PROVE TCTypeOK /\ VoidOK
    OBVIOUS
  <2>1. timed \in BOOLEAN BY Zenon DEF TCInit
  <2> QED BY <2>1, TcpConnAssumption DEF TCInit, TCTypeOK, VoidOK
<1>2. TCTypeOK /\ VoidOK /\ UNCHANGED tcvars => (TCTypeOK /\ VoidOK)'
  BY DEF TCTypeOK, VoidOK, tcvars
<1>3. TCTypeOK /\ VoidOK /\ [TCNext]_tcvars => (TCTypeOK /\ VoidOK)'
  BY <1>2, ConnStep
<1> QED BY <1>1, <1>3, PTL DEF TCSpec

\* No run of the client is beyond the script's last one.
THEOREM ConnTypeCorrect == TCSpec => []TCTypeOK
BY ConnInvariance, PTL

\* No more round trip times are spoiled than the server has stopped, though no result
\* of send() or recv() is looked at, and the means are of as many samples as asked.
THEOREM VoidHasItsStop == TCSpec => []OneVoidPerStop
<1>1. TCTypeOK /\ VoidOK => OneVoidPerStop
  BY DEF TCTypeOK, VoidOK, OneVoidPerStop
<1> QED BY <1>1, ConnInvariance, PTL
=============================================================================
