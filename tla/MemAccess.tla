------------------------------- MODULE MemAccess -------------------------------
(***************************************************************************)
(* mem_benchmarks/mem_access_time.cpp: an array whose elements are linked  *)
(* at a fixed stride is chased for a fixed number of accesses, for each    *)
(* array size; scripts/runmemaccess.sh runs the program once per stride.   *)
(*                                                                         *)
(* Sizes and strides are counted in ints, as in num and length of the      *)
(* code; the cycles of the timed loop are left out, what the loop accesses *)
(* is kept.                                                                *)
(***************************************************************************)
EXTENDS Naturals, FiniteSets, Sequences

CONSTANTS SizeList,      \* the array sizes, in order
          StrideList,    \* the strides that the program is started with
          EnsembleSize   \* accesses of one measurement

ASSUME MemAssumption ==
  /\ SizeList \in Seq(Nat \ {0}) /\ SizeList # <<>>
  /\ StrideList \subseteq Nat
  /\ EnsembleSize \in Nat \ {0}

VARIABLES
  mpc,       \* fill, chase, done
  stride,    \* the stride (length)
  at,        \* position in SizeList
  array,     \* the elements of the array (A) that have been written
  count,     \* the loop variable (i) of the current loop
  next,      \* the element (x) to access next
  touched    \* elements that the timed loop has accessed

mavars == <<mpc, stride, at, array, count, next, touched>>

num == SizeList[at]
Elements == 0..(num - 1)

MAInit == /\ mpc = "fill" /\ at = 1
          /\ stride \in StrideList
          /\ array = <<>> /\ count = 0 /\ next = 0 /\ touched = {}

-----------------------------------------------------------------------------
Link_ToFirst(e) == IF e + stride >= num THEN 0 ELSE e + stride
Link_LateWrap(e) == IF e + stride > num THEN (e + stride) % num ELSE e + stride

\* The element that follows e.
Link(e) == IF e + stride >= num THEN (e + stride) % num ELSE e + stride

Fill == /\ mpc = "fill"
        /\ count < num
        /\ array' = [e \in DOMAIN array \cup {count} |->
                       IF e = count THEN Link(count) ELSE array[e]]
        /\ count' = count + 1
        /\ UNCHANGED <<mpc, stride, at, next, touched>>

FillOver == /\ mpc = "fill"
            /\ count >= num
            /\ mpc' = "chase" /\ count' = 0 /\ next' = 0
            /\ UNCHANGED <<stride, at, array, touched>>

Chase == /\ mpc = "chase"
         /\ count < EnsembleSize
         /\ touched' = touched \cup {next}
         /\ next' = array[next]
         /\ count' = count + 1
         /\ UNCHANGED <<mpc, stride, at, array>>

\* The array is deleted and the next size is measured.
NextSize == /\ mpc = "chase"
            /\ count >= EnsembleSize
            /\ array' = <<>> /\ count' = 0 /\ next' = 0 /\ touched' = {}
            /\ \/ at < Len(SizeList) /\ at' = at + 1 /\ mpc' = "fill"
               \/ at = Len(SizeList) /\ mpc' = "done" /\ UNCHANGED at
            /\ UNCHANGED stride

MANext == Fill \/ FillOver \/ Chase \/ NextSize

MASpec == MAInit /\ [][MANext]_mavars

-----------------------------------------------------------------------------
(* Properties.                                                             *)

\* Only written elements are chased, and no link leaves the array.
MATypeOK == /\ mpc \in {"fill", "chase", "done"}
            /\ stride \in StrideList /\ at \in DOMAIN SizeList
            /\ count \in Nat
            /\ DOMAIN array = CASE mpc = "fill" -> 0..(count - 1)
                              [] mpc = "chase" -> Elements
                              [] mpc = "done" -> {}
            /\ \A e \in DOMAIN array : array[e] \in Elements
            /\ next \in Elements
            /\ touched \subseteq Elements

Divides(d, n) == n % d = 0

\* Accesses after which a chase at stride n is back where it started.
Lap(n) == CHOOSE l \in 1..num : /\ Divides(num, l * n)
                                /\ \A h \in 1..(l - 1) : ~Divides(num, h * n)

\* No element is accessed a second time before the stride has come round to the
\* first one again: the accesses of a measurement are as spread out as the size
\* and the stride allow. (Nothing is said of the processor's caches, through which
\* the fill loop has just written the whole array.)
FullLap == mpc = "chase" =>
             Cardinality(touched) = IF count < Lap(stride) THEN count ELSE Lap(stride)
=============================================================================
