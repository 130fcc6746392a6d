------------------------------- MODULE Results -------------------------------
(***************************************************************************)
(* The result files through which the programs pass overheads to each      *)
(* other. readTimingOverhead() and readLoopOverhead() of utils.hpp parse   *)
(* the first line of results/timingoverhead and results/loopoverhead as a  *)
(* number, and throw (which ends the program) where there is none. No      *)
(* program writes these files: a user redirects the output of a run there, *)
(* or writes a number by hand. Output begins with words, never a number.   *)
(*                                                                         *)
(* Programs run from several shells in the same directory. A program that  *)
(* dies loses its samples: nothing of its output has been flushed.         *)
(***************************************************************************)
EXTENDS Sequences, FiniteSets

CONSTANT Shells

Programs == {"timing", "loop", "syscall", "bandwidth"}
Files == {"timingoverhead", "loopoverhead"}
NoFile == "terminal"

VARIABLES
  job,       \* the program that runs in a shell, or idle
  todo,      \* what the program has still to do
  out,       \* where its output goes: a result file, or the terminal
  numbers,   \* the result files whose first line is a number
  reported,  \* the programs that have printed their means
  guessed,   \* the result files that got a number that no run reported
  prepared   \* no variable of the code: the runs whose files were all numbers
             \* when they began, and have not been overwritten since

vars == <<job, todo, out, numbers, reported, guessed, prepared>>

Steps_NoSelf == [timing    |-> <<"measure", "report">>,
                 loop      |-> <<"measure", "timingoverhead", "report">>,
                 syscall   |-> <<"measure", "timingoverhead", "loopoverhead", "report">>,
                 bandwidth |-> <<"timingoverhead", "measure", "timingoverhead",
                                 "measure", "report">>]

\* When each program reads which file. loopoverhead.cpp reads its own result.
Steps == [timing    |-> <<"measure", "report">>,
          loop      |-> <<"measure", "loopoverhead", "report">>,
          syscall   |-> <<"measure", "timingoverhead", "loopoverhead", "report">>,
          bandwidth |-> <<"timingoverhead", "measure", "timingoverhead",
                          "measure", "report">>]

Reads(p) == {Steps[p][k] : k \in DOMAIN Steps[p]} \cap Files

Init == /\ job = [s \in Shells |-> "idle"]
        /\ todo = [s \in Shells |-> <<>>]
        /\ out = [s \in Shells |-> NoFile]
        /\ numbers = {} /\ reported = {} /\ guessed = {} /\ prepared = {}

-----------------------------------------------------------------------------
\* The shell empties the file that the output goes to before the program starts.
Run(s, p, o) ==
  /\ job[s] = "idle"
  /\ job' = [job EXCEPT ![s] = p]
  /\ todo' = [todo EXCEPT ![s] = Steps[p]]
  /\ out' = [out EXCEPT ![s] = o]
  /\ numbers' = numbers \ {o}
  /\ prepared' = {t \in prepared : o \notin Reads(job[t])}
                   \cup {t \in {s} : Reads(p) \subseteq numbers'}
  /\ UNCHANGED <<reported, guessed>>

Doing(s, step) == job[s] # "idle" /\ Head(todo[s]) = step

Measure_SkipsReport(s) ==
  /\ Doing(s, "measure")
  /\ todo' = [todo EXCEPT ![s] = Tail(Tail(@))]
  /\ UNCHANGED <<job, out, numbers, reported, guessed, prepared>>

Measure(s) == /\ Doing(s, "measure")
              /\ todo' = [todo EXCEPT ![s] = Tail(@)]
              /\ UNCHANGED <<job, out, numbers, reported, guessed, prepared>>

Read_Truncates(s, f) ==
  /\ Doing(s, f)
  /\ f \in numbers
  /\ numbers' = numbers \ {f}
  /\ todo' = [todo EXCEPT ![s] = Tail(@)]
  /\ UNCHANGED <<job, out, reported, guessed, prepared>>

\* Opening the file, reading its first line and parsing it are one step, far shorter
\* than any run.
Read(s, f) == /\ Doing(s, f)
              /\ f \in numbers
              /\ todo' = [todo EXCEPT ![s] = Tail(@)]
              /\ UNCHANGED <<job, out, numbers, reported, guessed, prepared>>

Ended(s) == /\ job' = [job EXCEPT ![s] = "idle"]
            /\ todo' = [todo EXCEPT ![s] = <<>>]
            /\ out' = [out EXCEPT ![s] = NoFile]

\* stod() throws.
Dies(s, f) == /\ Doing(s, f)
              /\ f \notin numbers
              /\ Ended(s)
              /\ prepared' = prepared \ {s}
              /\ UNCHANGED <<numbers, reported, guessed>>

\* The output replaces what was written into the file meanwhile, unless it was
\* replaced by a new one.
Report(s) == /\ Doing(s, "report")
             /\ reported' = reported \cup {job[s]}
             /\ numbers' \in {numbers, numbers \ {out[s]}}
             /\ prepared' = {t \in prepared \ {s} :
                               Reads(job[t]) \cap numbers \subseteq numbers'}
             /\ Ended(s)
             /\ UNCHANGED guessed

\* The user writes the mean of a finished run into the file named for it.
Source == [timingoverhead |-> "timing", loopoverhead |-> "loop"]

WriteDown(f) == /\ Source[f] \in reported
                /\ numbers' = numbers \cup {f}
                /\ UNCHANGED <<job, todo, out, reported, guessed, prepared>>

\* ... or a number of another origin.
Guess(f) == /\ numbers' = numbers \cup {f}
            /\ guessed' = guessed \cup {f}
            /\ UNCHANGED <<job, todo, out, reported, prepared>>

Next == \/ \E s \in Shells :
             \/ \E p \in Programs, o \in Files \cup {NoFile} : Run(s, p, o)
             \/ Measure(s) \/ Report(s)
             \/ \E f \in Files : Read(s, f) \/ Dies(s, f)
        \/ \E f \in Files : WriteDown(f) \/ Guess(f)

Spec == Init /\ [][Next]_vars

-----------------------------------------------------------------------------
(* Properties.                                                             *)

TypeOK == /\ job \in [Shells -> Programs \cup {"idle"}]
          /\ \A s \in Shells :
               IF job[s] = "idle" THEN todo[s] = <<>>
               ELSE \E k \in DOMAIN Steps[job[s]] :
                      todo[s] = SubSeq(Steps[job[s]], k, Len(Steps[job[s]]))
          /\ out \in [Shells -> Files \cup {NoFile}]
          /\ numbers \subseteq Files /\ reported \subseteq Programs
          /\ guessed \subseteq Files
          /\ prepared \subseteq {s \in Shells : job[s] # "idle"}

\* Which results rest on which: a bandwidth needs a timing overhead that was
\* measured or guessed, but no loop overhead, and with it no system call
\* overhead, is ever printed unless a loop overhead was guessed first.
Founded == /\ reported \cap {"bandwidth", "syscall"} # {} =>
                "timing" \in reported \/ "timingoverhead" \in guessed
           /\ reported \cap {"loop", "syscall"} # {} => "loopoverhead" \in guessed

\* A run whose files were all there when it began, and that no other run's output
\* has overwritten, prints its means: dying is the fault of the start or of
\* another shell, and a redirection of the run's own output counts as the start.
PreparedRunsReport ==
  [][\A s \in prepared : job'[s] = "idle" => job[s] \in reported']_vars
=============================================================================
