----------------------------- MODULE EchoStream -----------------------------
(***************************************************************************)
(* What the user of the peak-bandwidth client may rely on: a byte stream   *)
(* that comes back.  Nothing comes back that was not handed to the network *)
(* first, what is still outstanding is bounded by the buffers along the    *)
(* way, and once the test is over both totals are final.                   *)
(*                                                                         *)
(* This is the abstract specification that PeakBandwidth implements; it    *)
(* says nothing of servers, buffers or resets.                             *)
(***************************************************************************)
EXTENDS Naturals

CONSTANTS Burst,      \* the most bytes one system call hands over or returns
          Window      \* the most bytes that can be outstanding

VARIABLES out,        \* bytes handed to the network so far
          back,       \* bytes that came back so far
          over        \* the test has ended: out and back are its result

vars == <<out, back, over>>

Init == /\ out = 0
        /\ back = 0
        /\ over = FALSE

Emit == /\ ~over
        /\ \E k \in 1..Burst : /\ out + k <= back + Window
                               /\ out' = out + k
        /\ UNCHANGED <<back, over>>

Return == /\ ~over
          /\ \E k \in 1..Burst : /\ back + k <= out
                                 /\ back' = back + k
          /\ UNCHANGED <<out, over>>

Stop == /\ ~over
        /\ over' = TRUE
        /\ UNCHANGED <<out, back>>

Next == Emit \/ Return \/ Stop

Spec == Init /\ [][Next]_vars
=============================================================================
