------------------------------- MODULE TcpConn -------------------------------
(***************************************************************************)
(* nw_benchmarks/tcp_conn_params.cpp under scripts/nw_results.py, which    *)
(* runs it Runs times and averages what it prints: the time to connect, to *)
(* get a packet echoed, and to close. The echo server is not part of the   *)
(* repository; it may stop, which cuts its connections, and start again.   *)
(***************************************************************************)
EXTENDS Naturals

CONSTANTS Runs,      \* 1000 in the script
          MaxStops   \* bound on the stops of the server

ASSUME TcpConnAssumption == Runs \in Nat /\ MaxStops \in Nat

VARIABLES
  pc,        \* the script: run, done, lost; the client: connect, send, recv, close
  samples,   \* length of the lists setup, rtt and teardown
  timed,     \* did the recv() of this run return a part of the echo
  server,    \* up or down
  conn,      \* none, open, asked (the packet is sent), echoed, cut
  void,      \* no variable of the code: samples of rtt that timed no echo
  stops      \* how often the server has stopped

tcvars == <<pc, samples, timed, server, conn, void, stops>>
world == <<server, stops>>

TCInit == /\ pc = "run" /\ samples = 0 /\ timed = FALSE
          /\ server \in {"up", "down"} /\ conn = "none"
          /\ void = 0 /\ stops = 0

-----------------------------------------------------------------------------
Launch_OneMore == /\ pc = "run"
                  /\ pc' = IF samples <= Runs THEN "connect" ELSE "done"
                  /\ UNCHANGED <<samples, timed, conn, void, world>>

\* The script starts the next client, or prints its three means.
Launch == /\ pc = "run"
          /\ pc' = IF samples < Runs THEN "connect" ELSE "done"
          /\ UNCHANGED <<samples, timed, conn, void, world>>

Handshake_Unchecked == /\ pc = "connect"
                       /\ pc' = "send"
                       /\ conn' = IF server = "up" THEN "open" ELSE "cut"
                       /\ UNCHANGED <<samples, timed, void, world>>

\* connect() needs a server that is up; it and socket() may fail whatever the server
\* does. The client then prints nothing to its output; int('') throws in the script,
\* which ends and has printed no mean.
Handshake == /\ pc = "connect"
             /\ \/ server = "up" /\ pc' = "send" /\ conn' = "open"
                \/ pc' = "lost" /\ UNCHANGED conn
             /\ UNCHANGED <<samples, timed, void, world>>

\* The result of send() is ignored.
SendPacket == /\ pc = "send"
              /\ pc' = "recv"
              /\ conn' = IF conn = "open" THEN "asked" ELSE conn
              /\ UNCHANGED <<samples, timed, void, world>>

RecvEcho_Whole == /\ pc = "recv"
                  /\ conn = "echoed"
                  /\ pc' = "close"
                  /\ timed' = TRUE
                  /\ UNCHANGED <<samples, conn, void, world>>

\* recv() returns whatever has come, or 0 or -1 on a connection that was cut; its
\* result is ignored.
RecvEcho == /\ pc = "recv"
            /\ conn \in {"echoed", "cut"}
            /\ pc' = "close"
            /\ timed' = (conn = "echoed")
            /\ UNCHANGED <<samples, conn, void, world>>

\* The client closes and prints, the script appends the three times.
Close == /\ pc = "close"
         /\ pc' = "run"
         /\ conn' = "none"
         /\ samples' = samples + 1
         /\ void' = IF timed THEN void ELSE void + 1
         /\ UNCHANGED <<timed, world>>

-----------------------------------------------------------------------------
Echo == /\ server = "up" /\ conn = "asked"
        /\ conn' = "echoed"
        /\ UNCHANGED <<pc, samples, timed, void, world>>

\* What was echoed before still arrives.
ServerStops == /\ server = "up" /\ stops < MaxStops
               /\ server' = "down" /\ stops' = stops + 1
               /\ conn' = IF conn \in {"open", "asked"} THEN "cut" ELSE conn
               /\ UNCHANGED <<pc, samples, timed, void>>

ServerStarts == /\ server = "down"
                /\ server' = "up"
                /\ UNCHANGED <<pc, samples, timed, conn, void, stops>>

Script == Launch \/ Handshake \/ SendPacket \/ RecvEcho \/ Close
TCNext == Script \/ Echo \/ ServerStops \/ ServerStarts

\* The script and its clients run, and a server that is up answers.
TCSpec == TCInit /\ [][TCNext]_tcvars /\ WF_tcvars(Script) /\ WF_tcvars(Echo)

-----------------------------------------------------------------------------
(* Properties.                                                             *)

TCTypeOK == /\ pc \in {"run", "done", "lost", "connect", "send", "recv", "close"}
            /\ samples \in 0..Runs /\ void \in 0..samples
            /\ timed \in BOOLEAN
            /\ server \in {"up", "down"} /\ stops \in 0..MaxStops
            /\ conn \in {"none", "open", "asked", "echoed", "cut"}

\* Although no result of send() or recv() is looked at, a server that stops
\* spoils one round trip time at most, whenever it stops and however long it
\* stays away: the means of a script that gets to print them are of Runs samples,
\* of which no more are void than the server has stopped.
OneVoidPerStop == /\ void <= stops
                  /\ pc = "done" => samples = Runs

\* The script ends, with its means or without: no client waits for an echo that
\* does not come.
ScriptEnds == <>(pc \in {"done", "lost"})
=============================================================================
