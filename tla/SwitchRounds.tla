---------------------------- MODULE SwitchRounds ----------------------------
(***************************************************************************)
(* What a context switch benchmark promises.  In each round one thread or  *)
(* process stamps that it is about to be left and the other one that it    *)
(* has been entered, in either order.  The round counts if and only if the *)
(* switch came between the two and was short; so many rounds that count    *)
(* make a mean, and after the last mean no stamp is taken any more.        *)
(*                                                                         *)
(* This is the abstract specification that ThreadSwitch and ProcessSwitch  *)
(* implement; it says nothing of pipes, descriptors or a counter's width.  *)
(***************************************************************************)
EXTENDS Naturals

CONSTANTS EnsembleSize, LoopIter,
          Limit,      \* a short switch takes less than this
          MaxDelay    \* bound on the length of a round

VARIABLES left, entered,  \* the two stamps of the round: no or one moment each
          i,              \* rounds of this ensemble that have counted
          means           \* means that are complete

vars == <<left, entered, i, means>>

Init == left = {} /\ entered = {} /\ i = 0 /\ means = 0

\* The moments that are not before the other stamp.
Now(other) == {t \in 0..MaxDelay : \A o \in other : o <= t}

Leave == /\ means < LoopIter /\ left = {}
         /\ \E t \in Now(entered) : left' = {t}
         /\ UNCHANGED <<entered, i, means>>

Enter == /\ means < LoopIter /\ entered = {}
         /\ \E t \in Now(left) : entered' = {t}
         /\ UNCHANGED <<left, i, means>>

Switched == \E s \in left, e \in entered : s < e /\ e - s < Limit

NextRound == left # {} /\ entered # {} /\ left' = {} /\ entered' = {}

Count == /\ NextRound
         /\ Switched
         /\ IF i + 1 < EnsembleSize THEN i' = i + 1 /\ UNCHANGED means
                                    ELSE i' = 0 /\ means' = means + 1

Drop == NextRound /\ ~Switched /\ UNCHANGED <<i, means>>

Spec == Init /\ [][Leave \/ Enter \/ Count \/ Drop]_vars
=============================================================================
