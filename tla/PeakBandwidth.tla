---------------------------- MODULE PeakBandwidth ----------------------------
(***************************************************************************)
(* nw_benchmarks/peak_bandwidth_client.cpp and peak_bandwidth_server.cpp:  *)
(* a client that, until its deadline passes, sends one buffer and then     *)
(* receives once, and a server that serves one connection by writing back  *)
(* whatever it read.  Both use blocking sockets and a single thread.       *)
(*                                                                         *)
(* The two directions of the TCP connection are byte counts: a direction   *)
(* holds at most PipeCap bytes, its sender's buffer, the wire and its      *)
(* receiver's buffer together.  A blocking call that moves bytes piece by  *)
(* piece is one action per piece, because the other process, the kernel    *)
(* and the clock all act in between.                                       *)
(***************************************************************************)
EXTENDS Naturals

CONSTANTS Chunk,      \* BUFFER_SIZE, the size of both programs' buffer
          PipeCap,    \* what one direction of the connection can hold
          MaxBytes    \* bound on the client's total, for TLC

ASSUME PeakAssumption == /\ Chunk \in Nat \ {0}
                         /\ PipeCap \in Nat \ {0}
                         /\ MaxBytes \in Nat

VARIABLES
  cpc,       \* the client: start, then check, send, recv; done, failed, killed
  spc,       \* the server: start, accept, then read, write; closed, failed, killed
  left,      \* bytes of the client's current send() not yet in the connection
  hand,      \* bytes the server has read and not yet written back
  up, down,  \* bytes inside the connection, towards the server and back
  sent,      \* total_bytes_sent
  rcvd,      \* total_bytes_received
  expired,   \* time(NULL) has reached end_time
  reset      \* the connection was reset

vars == <<cpc, spc, left, hand, up, down, sent, rcvd, expired, reset>>

ClientStates == {"start", "check", "send", "recv", "done", "failed", "killed"}
ServerStates == {"start", "accept", "read", "write", "closed", "failed", "killed"}

\* The client's or the server's end of the connection is closed.
ClientGone == cpc \in {"done", "killed"}
ServerGone == spc \in {"closed", "killed"}

\* The client process has ended, one way or another.
ClientEnded == ClientGone \/ cpc = "failed"

Init == /\ cpc = "start" /\ spc = "start"
        /\ left = 0 /\ hand = 0
        /\ up = 0 /\ down = 0
        /\ sent = 0 /\ rcvd = 0
        /\ expired = FALSE /\ reset = FALSE

-----------------------------------------------------------------------------
\* A direction that holds n bytes has room for k more.
Fits(n, k) == n + k <= PipeCap

WriteLength_WholeBuffer(n) == Chunk
WriteLength_OneByte(n) == 1

\* The server writes back as many bytes as it read.
WriteLength(n) == n

-----------------------------------------------------------------------------
(* The client.                                                             *)

\* connect() succeeds as soon as the server listens, before it accepts.
Connect == /\ cpc = "start"
           /\ spc = "accept"
           /\ cpc' = "check"
           /\ UNCHANGED <<spc, left, hand, up, down, sent, rcvd, expired, reset>>

\* socket(), inet_pton() or connect() fails and main returns -1.
ClientFails == /\ cpc = "start"
               /\ cpc' = "failed"
               /\ UNCHANGED <<spc, left, hand, up, down, sent, rcvd, expired, reset>>

\* The deadline has not passed: the loop goes round once more.
StartRound == /\ cpc = "check"
              /\ ~expired
              /\ sent + Chunk <= MaxBytes
              /\ cpc' = "send"
              /\ left' = Chunk
              /\ UNCHANGED <<spc, hand, up, down, sent, rcvd, expired, reset>>

\* The deadline has passed: print the totals and close the socket.
Finish == /\ cpc = "check"
          /\ expired
          /\ cpc' = "done"
          /\ UNCHANGED <<spc, left, hand, up, down, sent, rcvd, expired, reset>>

\* send() moves what fits into the connection; it returns when all has moved.
Push == /\ cpc = "send"
        /\ ~reset
        /\ \E k \in 1..left :
             /\ Fits(up, k)
             /\ up' = up + k
             /\ left' = left - k
             /\ IF k = left THEN cpc' = "recv" /\ sent' = sent + Chunk
                            ELSE UNCHANGED <<cpc, sent>>
        /\ UNCHANGED <<spc, hand, down, rcvd, expired, reset>>

\* A reset cuts a send() that moved some bytes: it returns their number.
SendCut == /\ cpc = "send"
           /\ reset
           /\ left < Chunk
           /\ cpc' = "recv"
           /\ sent' = sent + (Chunk - left)
           /\ left' = 0
           /\ UNCHANGED <<spc, hand, up, down, rcvd, expired, reset>>

\* A reset fails a send() that moved none: ECONNRESET breaks the loop, EPIPE
\* comes with SIGPIPE, which neither program handles.
SendFails == /\ cpc = "send"
             /\ reset
             /\ left = Chunk
             /\ cpc' \in {"done", "killed"}
             /\ left' = 0
             /\ UNCHANGED <<spc, hand, up, down, sent, rcvd, expired, reset>>

Recv_CountsBuffer ==
        /\ cpc = "recv"
        /\ \E n \in 1..Chunk : n <= down /\ down' = down - n
        /\ rcvd' = rcvd + Chunk
        /\ cpc' = "check"
        /\ UNCHANGED <<spc, left, hand, up, sent, expired, reset>>

\* recv() returns what has arrived, at most a buffer and possibly less.
Recv == /\ cpc = "recv"
        /\ \E n \in 1..Chunk :
             /\ n <= down
             /\ down' = down - n
             /\ rcvd' = rcvd + n
        /\ cpc' = "check"
        /\ UNCHANGED <<spc, left, hand, up, sent, expired, reset>>

RecvEof_Retry == cpc = "recv" /\ down = 0 /\ ServerGone /\ UNCHANGED vars

\* The server closed and all it wrote was received: recv() returns 0, which
\* the loop does not tell from data.
RecvEof == /\ cpc = "recv"
           /\ down = 0
           /\ ServerGone
           /\ cpc' = "check"
           /\ UNCHANGED <<spc, left, hand, up, down, sent, rcvd, expired, reset>>

RecvFails_Counted == /\ cpc = "recv" /\ down = 0 /\ reset
                     /\ cpc' = "check"
                     /\ rcvd' = rcvd - 1
                     /\ UNCHANGED <<spc, left, hand, up, down, sent, expired, reset>>

\* recv() fails with ECONNRESET and the loop breaks.
RecvFails == /\ cpc = "recv"
             /\ down = 0
             /\ reset
             /\ cpc' = "done"
             /\ UNCHANGED <<spc, left, hand, up, down, sent, rcvd, expired, reset>>

\* The wall clock passes end_time, whatever the client is doing.
Deadline == /\ cpc \in {"check", "send", "recv"}
            /\ ~expired
            /\ expired' = TRUE
            /\ UNCHANGED <<cpc, spc, left, hand, up, down, sent, rcvd, reset>>

-----------------------------------------------------------------------------
(* The server.                                                             *)

ServerListens == /\ spc = "start"
                 /\ spc' = "accept"
                 /\ UNCHANGED <<cpc, left, hand, up, down, sent, rcvd, expired, reset>>

\* socket(), setsockopt(), bind() or listen() fails and the program exits.
ServerFails == /\ spc = "start"
               /\ spc' = "failed"
               /\ UNCHANGED <<cpc, left, hand, up, down, sent, rcvd, expired, reset>>

\* accept() takes the connection, even one its client has already left.
Accept == /\ spc = "accept"
          /\ cpc \notin {"start", "failed"}
          /\ spc' = "read"
          /\ UNCHANGED <<cpc, left, hand, up, down, sent, rcvd, expired, reset>>

Read_EndsShort ==
        /\ spc = "read"
        /\ \E n \in 1..Chunk :
             /\ n <= up
             /\ up' = up - n
             /\ IF n < Chunk THEN spc' = "closed" /\ UNCHANGED hand
                             ELSE spc' = "write" /\ hand' = WriteLength(n)
        /\ UNCHANGED <<cpc, left, down, sent, rcvd, expired, reset>>

\* read() returns what has arrived, at most a buffer.
Read == /\ spc = "read"
        /\ \E n \in 1..Chunk :
             /\ n <= up
             /\ up' = up - n
             /\ hand' = WriteLength(n)
        /\ spc' = "write"
        /\ UNCHANGED <<cpc, left, down, sent, rcvd, expired, reset>>

ReadEnds_OnlyOnError ==
            /\ spc = "read" /\ up = 0 /\ reset
            /\ spc' = "closed"
            /\ UNCHANGED <<cpc, left, hand, up, down, sent, rcvd, expired, reset>>

\* read() returns 0 or an error: the server closes both sockets and returns.
ReadEnds == /\ spc = "read"
            /\ up = 0
            /\ ClientGone \/ reset
            /\ spc' = "closed"
            /\ UNCHANGED <<cpc, left, hand, up, down, sent, rcvd, expired, reset>>

\* write() moves what fits back into the connection; it returns when all has.
Write == /\ spc = "write"
         /\ ~reset
         /\ \E k \in 1..hand :
              /\ Fits(down, k)
              /\ down' = down + k
              /\ hand' = hand - k
              /\ spc' = IF k = hand THEN "read" ELSE "write"
         /\ UNCHANGED <<cpc, left, up, sent, rcvd, expired, reset>>

\* write() fails: its result is ignored and the rest of the bytes is lost, or
\* SIGPIPE ends the process.
WriteFails == /\ spc = "write"
              /\ reset
              /\ hand' = 0
              /\ spc' \in {"read", "killed"}
              /\ UNCHANGED <<cpc, left, up, down, sent, rcvd, expired, reset>>

\* The operator stops the server, or accept() fails: the kernel closes its
\* sockets.  A connection nobody accepted yet is reset.
ServerKilled == /\ spc \in {"accept", "read", "write"}
                /\ spc' = "killed"
                /\ hand' = 0
                /\ reset' = (reset \/ (spc = "accept" /\ cpc # "start"))
                /\ UNCHANGED <<cpc, left, up, down, sent, rcvd, expired>>

-----------------------------------------------------------------------------
(* The kernels.                                                            *)

\* Bytes for an end that is closed are answered with RST.  The end that is
\* left reads what it had received by then; the rest of the bytes is lost.
Reset == /\ ~reset
         /\ \/ /\ ClientGone /\ down > 0
               /\ down' = 0
               /\ up' \in 0..up
            \/ /\ ServerGone /\ up > 0
               /\ up' = 0
               /\ down' \in 0..down
         /\ reset' = TRUE
         /\ UNCHANGED <<cpc, spc, left, hand, sent, rcvd, expired>>

-----------------------------------------------------------------------------

Client == \/ Connect \/ ClientFails \/ StartRound \/ Finish
          \/ Push \/ SendCut \/ SendFails
          \/ Recv \/ RecvEof \/ RecvFails

Server == \/ ServerListens \/ ServerFails \/ Accept
          \/ Read \/ ReadEnds \/ Write \/ WriteFails

Next == Client \/ Server \/ Deadline \/ Reset \/ ServerKilled

\* Each process is scheduled while it can run, time passes, and the kernels
\* deliver.  Nobody has to stop the server.
Fairness == /\ WF_vars(Client)
            /\ WF_vars(Server)
            /\ WF_vars(Deadline)
            /\ WF_vars(Reset)

Spec == Init /\ [][Next]_vars /\ Fairness

-----------------------------------------------------------------------------
(* Properties.                                                             *)

\* Bytes handed to the network, those of an unfinished send() included.
Out == sent + (IF cpc = "send" THEN Chunk - left ELSE 0)

\* Both processes wait for room in a full direction that only the other one
\* would empty.
Standoff == /\ cpc = "send" /\ up = PipeCap
            /\ spc = "write" /\ down = PipeCap
            /\ ~reset

\* The variables stay in their ranges: no direction ever holds more than
\* PipeCap, no call has more left than the buffer, and the totals, which are
\* unsigned, never have the -1 of a failed call added to them.
TypeOK == /\ cpc \in ClientStates
          /\ spc \in ServerStates
          /\ left \in 0..Chunk
          /\ hand \in 0..Chunk
          /\ up \in 0..PipeCap
          /\ down \in 0..PipeCap
          /\ sent \in Nat
          /\ rcvd \in Nat
          /\ expired \in BOOLEAN
          /\ reset \in BOOLEAN

\* The echo neither invents nor loses bytes: every byte the client handed over
\* has come back, is inside the connection or is in the server's hand, until a
\* reset or the end of the server may drop some (server loop, lines 72-79).
EchoBalance == /\ rcvd + up + hand + down <= Out
               /\ ~reset /\ ~ServerGone => rcvd + up + hand + down = Out

\* The client's blocking recv() never waits for bytes nobody owes it: at least
\* one buffer is on its way back as long as the server serves (client loop,
\* lines 49-63, which receives once per buffer sent, however little came).
RecvIsOwed == cpc = "recv" /\ ~reset /\ ~ServerGone => up + hand + down >= Chunk

\* Both programs can only block on each other once the client has fallen two
\* full directions behind: one short recv() per full send() lets the backlog
\* grow to that (the recorded runs of peak_bandwidth_server.cpp:12-13, 23-24).
StandoffBacklog == Standoff => sent + Chunk >= rcvd + 2 * PipeCap + 2

\* A server that leaves its loop without a reset leaves to a client that has ended,
\* and has written back every byte it was sent, in however many reads they came
\* and however late it was with them (server loop, lines 72-79).
ServerDrains == spc = "closed" /\ ~reset =>
                  ClientGone /\ up = 0 /\ hand = 0 /\ rcvd + down = Out

\* The client's user sees a byte stream that comes back (EchoStream).
Stream == INSTANCE EchoStream WITH Burst <- Chunk,
                                   Window <- 2 * PipeCap + Chunk,
                                   out <- Out,
                                   back <- rcvd,
                                   over <- ClientEnded
StreamSpec == Stream!Spec

\* The client ends, or ends up in a standoff: there is no other way to hang
\* (a server that vanishes, a short receive, a late deadline are all survived).
EndsOrStandsOff == <>[](ClientEnded \/ Standoff)

\* Once the client has left, the server leaves its loop and exits.
ServerFollows == ClientGone ~> ServerGone

\* peak_bandwidth_client.cpp:10 calls TEST_DURATION the test duration in
\* seconds: the test is over some time after the deadline.
TestEnds == <>ClientEnded

=============================================================================
