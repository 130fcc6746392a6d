---------------------------- MODULE ResultsProofs ----------------------------
(***************************************************************************)
(* Proofs about Results: for any number of shells, whatever the programs'  *)
(* outputs overwrite, no result is printed without the numbers it rests    *)
(* on, and a run that was prepared does not die.                           *)
(* Proofs about Sampling: for tables of any size, samples and overheads of *)
(* any range and integers of any width, no child of an earlier round is    *)
(* left, and the means and sums that are printed are rounded down and no   *)
(* more.                                                                   *)
(***************************************************************************)
EXTENDS Results, Sampling, SequenceTheorems, WellFoundedInduction, TLAPS

\* Every shell has something to do, or nothing.
TodoOK == DOMAIN todo = Shells

\* The number in a file is that of a run, or was guessed.
RestsOn(f) == Source[f] \in reported \/ f \in guessed

\* What a run has still to do, the files that it will read among it.
Elements(t) == {t[k] : k \in DOMAIN t}

\* Whatever a file holds, or a run has read and keeps, has an origin.
NumbersOK == \A f \in numbers : RestsOn(f)
ReadOK == \A s \in Shells : job[s] # "idle" =>
            \A f \in Reads(job[s]) : f \in Elements(todo[s]) \/ RestsOn(f)

\* The files of a prepared run are still numbers.
PreparedOK == \A s \in prepared : Reads(job[s]) \subseteq numbers

IInv == TypeOK /\ TodoOK /\ Founded /\ NumbersOK /\ ReadOK /\ PreparedOK

-----------------------------------------------------------------------------
\* The programs: what each of them reads, and that it reports when all is done.
LEMMA StepsType ==
  ASSUME NEW p \in Programs
  PROVE  /\ Steps[p] \in Seq({"measure", "report"} \cup Files)
         /\ Len(Steps[p]) \in Nat \ {0} /\ DOMAIN Steps[p] = 1..Len(Steps[p])
         /\ \A k \in DOMAIN Steps[p] : Steps[p][k] = "report" <=> k = Len(Steps[p])
<1> USE DEF Files
<1>1. CASE p = "timing" BY <1>1 DEF Steps
<1>2. CASE p = "loop" BY <1>2 DEF Steps
<1>3. CASE p = "syscall" BY <1>3 DEF Steps
<1>4. CASE p = "bandwidth" BY <1>4 DEF Steps
<1> QED BY <1>1, <1>2, <1>3, <1>4 DEF Programs

LEMMA ReadsType == /\ \A p \in Programs : Reads(p) \subseteq Files
                   /\ Reads("loop") = {"loopoverhead"}
                   /\ Reads("syscall") = {"timingoverhead", "loopoverhead"}
                   /\ Reads("bandwidth") = {"timingoverhead"}
<1>1. Reads("loop") = {"loopoverhead"} BY DEF Reads, Steps, Files
<1>2. Reads("syscall") = {"timingoverhead", "loopoverhead"}
  BY DEF Reads, Steps, Files
<1>3. Reads("bandwidth") = {"timingoverhead"} BY DEF Reads, Steps, Files
<1> QED BY <1>1, <1>2, <1>3 DEF Reads

\* What is left of a program begins with its next step; without it, it is what is
\* left after that step; and nothing is left after a report.
LEMMA Rest ==
  ASSUME NEW p \in Programs, NEW k \in DOMAIN Steps[p], NEW t,
         t = SubSeq(Steps[p], k, Len(Steps[p]))
  PROVE  /\ Head(t) = Steps[p][k]
         /\ Head(t) = "report" => Elements(t) = {"report"}
         /\ Head(t) # "report" => /\ k + 1 \in DOMAIN Steps[p]
                                  /\ Tail(t) = SubSeq(Steps[p], k + 1, Len(Steps[p]))
                                  /\ Elements(t) = {Head(t)} \cup Elements(Tail(t))
<1> DEFINE T == {"measure", "report"} \cup Files
           n == Len(Steps[p])
<1>1. /\ Steps[p] \in Seq(T) /\ n \in Nat \ {0} /\ DOMAIN Steps[p] = 1..n
      /\ \A j \in 1..n : Steps[p][j] = "report" <=> j = n
      /\ \A j \in 1..n : Steps[p][j] \in T
  BY StepsType
<1> HIDE DEF T, n
<1>2. k \in 1..n BY <1>1
<1>3. Head(t) = Steps[p][k] /\ Tail(t) = SubSeq(Steps[p], k + 1, n)
  <2>1. n \in k..n BY <1>1, <1>2
  <2>2. k \in 1..Len(Steps[p]) /\ n \in k..Len(Steps[p]) BY <1>2, <2>1 DEF n
  <2>3. /\ Head(SubSeq(Steps[p], k, n)) = Steps[p][k]
        /\ Tail(SubSeq(Steps[p], k, n)) = SubSeq(Steps[p], k + 1, n)
    BY <1>1, <2>2, HeadTailOfSubSeq
  <2> QED BY <2>3 DEF n
<1>4. \A m \in 1..n : Elements(SubSeq(Steps[p], m, n)) = {Steps[p][j] : j \in m..n}
  <2> SUFFICES ASSUME NEW m \in 1..n
               PROVE  Elements(SubSeq(Steps[p], m, n)) = {Steps[p][j] : j \in m..n}
    OBVIOUS
  <2> DEFINE r == SubSeq(Steps[p], m, n)
  <2>1. r \in Seq(T) /\ Len(r) = n - m + 1 
        /\ \A j \in 1..(n - m + 1) : r[j] = Steps[p][m + j - 1]
    <3>1. Steps[p] \in Seq(T) BY <1>1
    <3>2. m \in 1..(Len(Steps[p]) + 1) /\ n \in (m - 1)..Len(Steps[p])
      BY <1>1 DEF n
    <3> QED BY <3>1, <3>2, SubSeqProperties
  <2>2. DOMAIN r = 1..(n - m + 1) BY <2>1
  <2> HIDE DEF r
  <2>3. \A j \in m..n : j - m + 1 \in DOMAIN r /\ r[j - m + 1] = Steps[p][j]
    BY <1>1, <2>1, <2>2
  <2>4. \A j \in DOMAIN r : m + j - 1 \in m..n /\ r[j] = Steps[p][m + j - 1]
    BY <1>1, <2>1, <2>2
  <2>5. Elements(r) \subseteq {Steps[p][j] : j \in m..n} BY <2>4 DEF Elements
  <2>6. {Steps[p][j] : j \in m..n} \subseteq Elements(r)
    <3> SUFFICES ASSUME NEW j \in m..n PROVE Steps[p][j] \in Elements(r)
      OBVIOUS
    <3> QED BY <2>3 DEF Elements
  <2> QED BY <2>5, <2>6 DEF r
<1>5. Elements(t) = {Steps[p][j] : j \in k..n} BY <1>2, <1>4 DEF n
<1>6. CASE Head(t) = "report"
  <2>1. k = n BY <1>1, <1>2, <1>3, <1>6
  <2> QED BY <1>1, <1>3, <1>5, <1>6, <2>1
<1>7. CASE Head(t) # "report"
  <2>1. k + 1 \in 1..n BY <1>1, <1>2, <1>3, <1>7
  <2>2. Elements(Tail(t)) = {Steps[p][j] : j \in (k + 1)..n} BY <1>3, <1>4, <2>1
  <2>3. k..n = {k} \cup (k + 1)..n BY <1>1, <1>2
  <2> QED BY <1>1, <1>3, <1>5, <1>7, <2>1, <2>2, <2>3 DEF n
<1> QED BY <1>3, <1>6, <1>7 DEF n

\* The same of a program that runs.
LEMMA Running ==
  ASSUME TypeOK, NEW s \in Shells, job[s] # "idle"
  PROVE  /\ \E k \in DOMAIN Steps[job[s]] : Head(todo[s]) = Steps[job[s]][k]
         /\ Head(todo[s]) = "report" => Elements(todo[s]) = {"report"}
         /\ Head(todo[s]) # "report" =>
              /\ \E k \in DOMAIN Steps[job[s]] :
                   Tail(todo[s]) = SubSeq(Steps[job[s]], k, Len(Steps[job[s]]))
              /\ Elements(todo[s]) = {Head(todo[s])} \cup Elements(Tail(todo[s]))
<1> DEFINE p == job[s]
           t == todo[s]
<1>1. p \in Programs BY DEF TypeOK
<1>2. PICK k \in DOMAIN Steps[p] : t = SubSeq(Steps[p], k, Len(Steps[p])) BY DEF TypeOK
<1> HIDE DEF p, t
<1>3. /\ Head(t) = Steps[p][k]
      /\ Head(t) = "report" => Elements(t) = {"report"}
      /\ Head(t) # "report" => /\ k + 1 \in DOMAIN Steps[p]
                               /\ Tail(t) = SubSeq(Steps[p], k + 1, Len(Steps[p]))
                               /\ Elements(t) = {Head(t)} \cup Elements(Tail(t))
  BY <1>1, <1>2, Rest
<1> QED BY <1>3, Zenon DEF p, t

-----------------------------------------------------------------------------
\* The initial state satisfies the inductive invariant.
LEMMA InitIInv == Init => IInv
BY DEF Init, IInv, TypeOK, TodoOK, Founded, NumbersOK, ReadOK, PreparedOK

\* Starting a program preserves it: the program has all of its files to read, and
\* the file that is emptied belongs to no run that stays prepared.
LEMMA RunIInv ==
  ASSUME IInv, NEW s \in Shells, NEW p \in Programs, NEW o \in Files \cup {NoFile},
         Run(s, p, o)
  PROVE  IInv'
<1> USE DEF IInv
<1>1. /\ job[s] = "idle" /\ s \notin prepared
      /\ job' = [job EXCEPT ![s] = p] /\ todo' = [todo EXCEPT ![s] = Steps[p]]
      /\ out' = [out EXCEPT ![s] = o] /\ numbers' = numbers \ {o}
      /\ prepared' = {t \in prepared : o \notin Reads(job[t])}
                       \cup {t \in {s} : Reads(p) \subseteq numbers'}
      /\ UNCHANGED <<reported, guessed>>
  BY DEF Run, TypeOK
<1>2. /\ job'[s] = p /\ todo'[s] = Steps[p] /\ p # "idle"
      /\ \A t \in Shells \ {s} : job'[t] = job[t] /\ todo'[t] = todo[t]
  BY <1>1 DEF Programs, TypeOK, TodoOK
<1>3. TypeOK'
  <2>1. /\ job' \in [Shells -> Programs \cup {"idle"}]
        /\ out' \in [Shells -> Files \cup {NoFile}]
        /\ numbers' \subseteq Files /\ reported' \subseteq Programs
        /\ guessed' \subseteq Files
    BY <1>1 DEF TypeOK
  <2>2. prepared' \subseteq {t \in Shells : job'[t] # "idle"}
    BY <1>1, <1>2 DEF TypeOK
  <2>3. \E k \in DOMAIN Steps[p] : Steps[p] = SubSeq(Steps[p], k, Len(Steps[p]))
    <3>1. Steps[p] = SubSeq(Steps[p], 1, Len(Steps[p]))
      BY StepsType, SubSeqFull
    <3> QED BY <3>1, StepsType
  <2>4. ASSUME NEW t \in Shells
        PROVE  IF job'[t] = "idle" THEN todo'[t] = <<>>
               ELSE \E k \in DOMAIN Steps[job'[t]] :
                      todo'[t] = SubSeq(Steps[job'[t]], k, Len(Steps[job'[t]]))
    <3>1. CASE t = s BY <1>2, <2>3, <3>1
    <3>2. CASE t # s BY <1>2, <3>2 DEF TypeOK
    <3> QED BY <3>1, <3>2
  <2> QED BY <2>1, <2>2, <2>4 DEF TypeOK
<1>4. ReadOK'
  <2>1. Reads(p) \subseteq Elements(todo'[s]) BY <1>2 DEF Reads, Elements
  <2> QED BY <1>1, <1>2, <2>1 DEF ReadOK, RestsOn
<1>5. PreparedOK'
  <2> SUFFICES ASSUME NEW t \in prepared' PROVE Reads(job'[t]) \subseteq numbers'
    BY DEF PreparedOK
  <2>1. CASE t = s BY <1>1, <1>2, <2>1
  <2>2. CASE t # s
    <3>1. t \in prepared /\ o \notin Reads(job[t]) BY <1>1, <2>2
    <3>2. job'[t] = job[t] BY <1>2, <2>2, <3>1 DEF TypeOK
    <3> QED BY <1>1, <3>1, <3>2 DEF PreparedOK
  <2> QED BY <2>1, <2>2
<1>6. TodoOK' /\ Founded' /\ NumbersOK'
  BY <1>1 DEF TodoOK, Founded, NumbersOK, RestsOn
<1> QED BY <1>3, <1>4, <1>5, <1>6

\* A step that is not the last preserves it, if what it has read has an origin.
LEMMA StepIInv ==
  ASSUME IInv, NEW s \in Shells,
         Measure(s) \/ \E f \in Files : Read(s, f)
  PROVE  IInv'
<1> USE DEF IInv
<1> DEFINE head == Head(todo[s])
<1>1. /\ job[s] # "idle" /\ head # "report"
      /\ todo' = [todo EXCEPT ![s] = Tail(@)]
      /\ head \in Files => RestsOn(head)
      /\ UNCHANGED <<job, out, numbers, reported, guessed, prepared>>
  BY DEF Measure, Read, Doing, Files, NumbersOK
<1>2. /\ todo'[s] = Tail(todo[s])
      /\ \A t \in Shells \ {s} : todo'[t] = todo[t]
  BY <1>1 DEF TodoOK
<1>3. /\ \E k \in DOMAIN Steps[job[s]] :
           Tail(todo[s]) = SubSeq(Steps[job[s]], k, Len(Steps[job[s]]))
      /\ Elements(todo[s]) = {head} \cup Elements(Tail(todo[s]))
  BY <1>1, Running, Zenon
<1>4. TypeOK' BY <1>1, <1>2, <1>3 DEF TypeOK
<1>5. ReadOK'
  <2> SUFFICES ASSUME NEW t \in Shells, job[t] # "idle", NEW f \in Reads(job[t])
               PROVE  f \in Elements(todo'[t]) \/ RestsOn(f)
    BY <1>1 DEF ReadOK, RestsOn
  <2>1. f \in Elements(todo[t]) \/ RestsOn(f) BY DEF ReadOK
  <2>2. CASE t # s BY <1>2, <2>1, <2>2
  <2>3. CASE t = s
    <3>1. f \in Files BY DEF Reads
    <3> QED BY <1>1, <1>2, <1>3, <2>1, <2>3, <3>1
  <2> QED BY <2>2, <2>3
<1>6. TodoOK' /\ Founded' /\ NumbersOK' /\ PreparedOK'
  BY <1>1 DEF TodoOK, Founded, NumbersOK, RestsOn, PreparedOK
<1> QED BY <1>4, <1>5, <1>6

\* The end of a run preserves what is said of the others.
LEMMA EndedType ==
  ASSUME IInv, NEW s \in Shells, Ended(s), prepared' \subseteq prepared \ {s},
         numbers' \subseteq Files, reported' \subseteq Programs, guessed' = guessed
  PROVE  TypeOK' /\ TodoOK' /\ \A t \in Shells : job'[t] # "idle" =>
                                 t # s /\ job'[t] = job[t] /\ todo'[t] = todo[t]
<1>1. /\ job' = [job EXCEPT ![s] = "idle"] /\ todo' = [todo EXCEPT ![s] = <<>>]
      /\ out' = [out EXCEPT ![s] = NoFile]
  BY DEF Ended
<1>2. /\ job'[s] = "idle" /\ todo'[s] = <<>>
      /\ \A t \in Shells \ {s} : job'[t] = job[t] /\ todo'[t] = todo[t]
  BY <1>1 DEF IInv, TypeOK, TodoOK
<1>3. job' \in [Shells -> Programs \cup {"idle"}] /\ out' \in [Shells -> Files \cup {NoFile}]
  BY <1>1 DEF IInv, TypeOK
<1>4. prepared' \subseteq {t \in Shells : job'[t] # "idle"} BY <1>2 DEF IInv, TypeOK
<1>5. TypeOK' BY <1>2, <1>3, <1>4 DEF IInv, TypeOK
<1> QED BY <1>1, <1>2, <1>5 DEF IInv, TodoOK

\* A run that dies preserves it.
LEMMA DiesIInv == ASSUME IInv, NEW s \in Shells, NEW f \in Files, Dies(s, f) PROVE IInv'
<1>1. Ended(s) /\ prepared' = prepared \ {s} /\ UNCHANGED <<numbers, reported, guessed>>
  BY DEF Dies
<1>2. TypeOK' /\ TodoOK' /\ \A t \in Shells : job'[t] # "idle" =>
                              t # s /\ job'[t] = job[t] /\ todo'[t] = todo[t]
  BY <1>1, EndedType DEF IInv, TypeOK
<1>3. ReadOK' BY <1>1, <1>2 DEF IInv, ReadOK, RestsOn
<1>4. PreparedOK' BY <1>1, <1>2 DEF IInv, TypeOK, PreparedOK
<1>5. Founded' /\ NumbersOK' BY <1>1 DEF IInv, Founded, NumbersOK, RestsOn
<1> QED BY <1>2, <1>3, <1>4, <1>5 DEF IInv

\* A run that reports has read all of its files, so what it prints is founded; its
\* output takes a number from no run that stays prepared.
LEMMA ReportIInv == ASSUME IInv, NEW s \in Shells, Report(s) PROVE IInv'
<1>1. /\ job[s] \in Programs /\ Head(todo[s]) = "report"
      /\ reported' = reported \cup {job[s]}
      /\ numbers' \in {numbers, numbers \ {out[s]}}
      /\ prepared' = {t \in prepared \ {s} : Reads(job[t]) \cap numbers \subseteq numbers'}
      /\ Ended(s) /\ guessed' = guessed
  BY DEF Report, Doing, IInv, TypeOK
<1>2. TypeOK' /\ TodoOK' /\ \A t \in Shells : job'[t] # "idle" =>
                              t # s /\ job'[t] = job[t] /\ todo'[t] = todo[t]
  <2>1. numbers' \subseteq Files /\ reported' \subseteq Programs
    BY <1>1 DEF IInv, TypeOK
  <2> QED BY <1>1, <2>1, EndedType
<1>3. \A f \in Reads(job[s]) : RestsOn(f)
  <2>1. job[s] # "idle" BY <1>1 DEF Programs
  <2>2. Elements(todo[s]) = {"report"} BY <1>1, <2>1, Running DEF IInv
  <2>3. "report" \notin Reads(job[s]) BY DEF Reads, Files
  <2> QED BY <2>1, <2>2, <2>3 DEF IInv, ReadOK
<1>4. Founded'
  <2>1. "timingoverhead" \in Reads(job[s]) =>
          "timing" \in reported \/ "timingoverhead" \in guessed
    BY <1>3 DEF RestsOn, Source
  <2>2. "loopoverhead" \in Reads(job[s]) => "loopoverhead" \in guessed
    BY <1>3 DEF RestsOn, Source, IInv, Founded
  <2>3. /\ job[s] \in {"bandwidth", "syscall"} => "timingoverhead" \in Reads(job[s])
        /\ job[s] \in {"loop", "syscall"} => "loopoverhead" \in Reads(job[s])
    BY ReadsType
  <2> QED BY <1>1, <2>1, <2>2, <2>3 DEF IInv, Founded
<1>5. NumbersOK' BY <1>1 DEF IInv, NumbersOK, RestsOn
<1>6. ReadOK' BY <1>1, <1>2 DEF IInv, ReadOK, RestsOn
<1>7. PreparedOK' BY <1>1, <1>2 DEF IInv, TypeOK, PreparedOK
<1> QED BY <1>2, <1>4, <1>5, <1>6, <1>7 DEF IInv

\* Writing a number down preserves it: the number is a finished run's, or a guess.
LEMMA UserIInv == ASSUME IInv, NEW f \in Files, WriteDown(f) \/ Guess(f) PROVE IInv'
<1>1. /\ numbers' = numbers \cup {f}
      /\ \/ Source[f] \in reported /\ guessed' = guessed
         \/ guessed' = guessed \cup {f}
      /\ UNCHANGED <<job, todo, out, reported, prepared>>
  BY DEF WriteDown, Guess
<1>2. NumbersOK' BY <1>1 DEF IInv, NumbersOK, RestsOn
<1>3. ReadOK' BY <1>1 DEF IInv, ReadOK, RestsOn
<1>4. TypeOK' /\ TodoOK' /\ Founded' /\ PreparedOK'
  BY <1>1 DEF IInv, TypeOK, TodoOK, Founded, PreparedOK
<1> QED BY <1>2, <1>3, <1>4 DEF IInv

\* The inductive invariant holds in every reachable state.
THEOREM Invariance == Spec => []IInv
<1>1. IInv /\ UNCHANGED vars => IInv'
  BY DEF IInv, vars, TypeOK, TodoOK, Founded, NumbersOK, ReadOK, PreparedOK, RestsOn
<1>2. IInv /\ [Next]_vars => IInv'
  BY <1>1, RunIInv, StepIInv, DiesIInv, ReportIInv, UserIInv DEF Next
<1> QED BY InitIInv, <1>2, PTL DEF Spec

-----------------------------------------------------------------------------
\* What a run has still to do is always the rest of its program, and only a run can
\* be prepared.
THEOREM TypeCorrect == Spec => []TypeOK
BY Invariance, PTL DEF IInv

\* No result is printed without the numbers it rests on, whatever is run, written
\* down or overwritten in whatever order.
THEOREM ResultsAreFounded == Spec => []Founded
BY Invariance, PTL DEF IInv

\* A run that was prepared ends by printing its means: every file that it reads is
\* a number until then.
THEOREM PreparedReport == Spec => PreparedRunsReport
<1>1. ASSUME IInv, Next, NEW s \in prepared, job'[s] = "idle"
      PROVE  job[s] \in reported'
  <2>1. s \in Shells /\ job[s] \in Programs /\ job[s] # "idle"
    BY <1>1 DEF IInv, TypeOK
  <2>2. \E k \in DOMAIN Steps[job[s]] : Head(todo[s]) = Steps[job[s]][k]
    BY <1>1, <2>1, Running DEF IInv
  <2>3. ASSUME NEW f \in Files, Dies(s, f) PROVE FALSE
    <3>1. Head(todo[s]) = f /\ f \notin numbers BY <2>3 DEF Dies, Doing
    <3>2. f \in Reads(job[s]) BY <2>2, <3>1 DEF Reads
    <3> QED BY <1>1, <3>1, <3>2 DEF IInv, PreparedOK
  <2>4. ASSUME NEW t \in Shells, job' = [job EXCEPT ![t] = "idle"] PROVE t = s
    BY <1>1, <2>1, <2>4 DEF IInv, TypeOK
  <2>5. ASSUME NEW t \in Shells, NEW p \in Programs, job' = [job EXCEPT ![t] = p]
        PROVE  FALSE
    BY <1>1, <2>1, <2>5 DEF IInv, TypeOK, Programs
  <2>6. job' # job BY <1>1, <2>1
  <2> QED
    BY <1>1, <2>3, <2>4, <2>5, <2>6
    DEF Next, Run, Measure, Read, Dies, Report, Ended, WriteDown, Guess
<1>2. IInv /\ [Next]_vars =>
        [\A s \in prepared : job'[s] = "idle" => job[s] \in reported']_vars
  BY <1>1
<1> QED BY <1>2, Invariance, PTL DEF Spec, PreparedRunsReport

-----------------------------------------------------------------------------
(* The programs that measure what is passed on: Sampling, of any size.     *)

\* A child is there only while it is waited for.
ChildOK == /\ pc = "create" => program \in Creates
           /\ child # "none" => pc = "collect" \/ (pc = "toc" /\ program = "thread")

\* A report that is not the last is followed by another phase.
PhaseOK == pc = "reported" => phase < Phases

\* The samples of this phase that are in the table are those that were taken.
Stored(r, c) == \/ pc \in {"report", "reported", "done"}
                \/ r < row \/ (r = row /\ c < column)
TimesOK == \A r \in Rows, c \in Columns :
             Stored(r, c) => times[r][c] = Sample(taken[r][c])

SIInv == STypeOK /\ ChildOK /\ PhaseOK /\ TimesOK /\ ReportRoundsDown

-----------------------------------------------------------------------------
\* What is added up. What holds of nothing, and from each number on to the next, holds of
\* every number.
LEMMA Induction ==
  ASSUME NEW n \in Nat, NEW T, 0 \in T, \A k \in 1..n : k - 1 \in T => k \in T
  PROVE  \A k \in 0..n : k \in T
<1> DEFINE U == {k \in 0..n : k \notin T}
           R == OpToRel(<, Nat)
<1>1. ASSUME U # {} PROVE \E k \in U : \A h \in U : <<h, k>> \notin R
  <2>1. IsWellFoundedOn(R, Nat) BY NatLessThanWellFounded
  <2>2. U \subseteq Nat OBVIOUS
  <2> HIDE DEF R, U
  <2> QED BY <1>1, <2>1, <2>2, WFMin
<1>2. \A h, k \in Nat : h < k => <<h, k>> \in R BY DEF OpToRel
<1> HIDE DEF R
<1>3. SUFFICES ASSUME NEW k \in U, \A h \in U : <<h, k>> \notin R PROVE FALSE
  BY <1>1
<1>4. k \in 1..n /\ k - 1 \in 0..n /\ k - 1 < k OBVIOUS
<1>5. k - 1 \notin T BY <1>4
<1>6. k - 1 \in U /\ k - 1 \in Nat /\ k \in Nat BY <1>4, <1>5
<1>7. <<k - 1, k>> \in R BY <1>2, <1>4, <1>6
<1> HIDE DEF U
<1> QED BY <1>3, <1>6, <1>7

\* The function that the sum is defined by exists.
LEMMA UpToExists ==
  ASSUME NEW n \in Nat, NEW f
  PROVE  \E s : s = [k \in 0..n |-> IF k = 0 THEN 0 ELSE s[k - 1] + f[k]]
<1> DEFINE IsUpTo(s, m) == s = [k \in 0..m |-> IF k = 0 THEN 0 ELSE s[k - 1] + f[k]]
           T == {m \in 0..n : \E s : IsUpTo(s, m)}
<1>1. \E s : IsUpTo(s, 0)
  <2> DEFINE s == [k \in 0..0 |-> 0]
  <2>1. IsUpTo(s, 0) OBVIOUS
  <2> HIDE DEF IsUpTo
  <2> QED BY <2>1
<1>2. ASSUME NEW m \in 1..n, NEW s, IsUpTo(s, m - 1) PROVE \E t : IsUpTo(t, m)
  <2> DEFINE t == [k \in 0..m |-> IF k = m THEN s[m - 1] + f[m] ELSE s[k]]
  <2>2. ASSUME NEW k \in 0..m PROVE t[k] = IF k = 0 THEN 0 ELSE t[k - 1] + f[k]
    <3>1. CASE k = 0 BY <1>2, <3>1
    <3>2. CASE k = m BY <3>2
    <3>3. CASE k # 0 /\ k # m
      <4>1. k \in 0..(m - 1) /\ k - 1 \in 0..m /\ k - 1 # m BY <3>3
      <4>2. s[k] = s[k - 1] + f[k] BY <1>2, <3>3, <4>1
      <4> QED BY <3>3, <4>1, <4>2
    <3> QED BY <3>1, <3>2, <3>3
  <2>3. IsUpTo(t, m) BY <2>2
  <2> HIDE DEF IsUpTo
  <2> QED BY <2>3
<1>3. \A m \in 0..n : m \in T
  <2> HIDE DEF IsUpTo
  <2>1. 0 \in T BY <1>1
  <2>2. \A m \in 1..n : m - 1 \in T => m \in T BY <1>2
  <2> HIDE DEF T
  <2> QED BY <2>1, <2>2, Induction
<1>4. \E s : IsUpTo(s, n)
  <2> HIDE DEF IsUpTo
  <2> QED BY <1>3
<1> QED BY <1>4

\* It starts with nothing and adds one element after the other.
LEMMA SumSteps ==
  ASSUME NEW n \in Nat, NEW f
  PROVE  \E s : /\ s[0] = 0 /\ s[n] = Sum(f, n)
                /\ \A k \in 1..n : s[k] = s[k - 1] + f[k]
<1> DEFINE s == CHOOSE t : t = [k \in 0..n |-> IF k = 0 THEN 0 ELSE t[k - 1] + f[k]]
<1>1. s = [k \in 0..n |-> IF k = 0 THEN 0 ELSE s[k - 1] + f[k]]
  BY UpToExists
<1>2. Sum(f, n) = s[n] BY DEF Sum
<1> HIDE DEF s
<1>3. s[0] = 0 BY <1>1
<1>4. \A k \in 1..n : s[k] = s[k - 1] + f[k] BY <1>1
<1> QED BY <1>2, <1>3, <1>4

\* The sum of integers is one.
LEMMA SumType ==
  ASSUME NEW n \in Nat, NEW f, \A k \in 1..n : f[k] \in Int
  PROVE  Sum(f, n) \in Int
<1>1. PICK s : /\ s[0] = 0 /\ s[n] = Sum(f, n)
               /\ \A k \in 1..n : s[k] = s[k - 1] + f[k]
  BY SumSteps
<1> DEFINE T == {k \in 0..n : s[k] \in Int}
<1>2. 0 \in T BY <1>1
<1>3. \A k \in 1..n : k - 1 \in T => k \in T BY <1>1
<1>4. n \in T
  <2> HIDE DEF T
  <2>1. \A k \in 0..n : k \in T BY <1>2, <1>3, Induction
  <2> QED BY <2>1
<1> QED BY <1>1, <1>4

\* Sums keep a bound that every element keeps.
LEMMA SumBound ==
  ASSUME NEW n \in Nat, NEW a \in Int, NEW b \in Int, NEW c \in Int,
         NEW f, NEW g,
         \A k \in 1..n : f[k] \in Int /\ g[k] \in Int /\ a * f[k] <= c * g[k] + b
  PROVE  a * Sum(f, n) <= c * Sum(g, n) + n * b
<1>1. PICK s : /\ s[0] = 0 /\ s[n] = Sum(f, n)
               /\ \A k \in 1..n : s[k] = s[k - 1] + f[k]
  BY SumSteps
<1>2. PICK t : /\ t[0] = 0 /\ t[n] = Sum(g, n)
               /\ \A k \in 1..n : t[k] = t[k - 1] + g[k]
  BY SumSteps
<1> DEFINE T == {k \in 0..n : /\ s[k] \in Int /\ t[k] \in Int
                              /\ a * s[k] <= c * t[k] + k * b}
<1>3. 0 \in T BY <1>1, <1>2
<1>4. ASSUME NEW k \in 1..n, k - 1 \in T PROVE k \in T
  <2> DEFINE x == s[k - 1]
             y == t[k - 1]
  <2>1. x \in Int /\ y \in Int /\ a * x <= c * y + (k - 1) * b BY <1>4
  <2>2. s[k] = x + f[k] /\ t[k] = y + g[k] BY <1>1, <1>2
  <2>3. f[k] \in Int /\ g[k] \in Int /\ a * f[k] <= c * g[k] + b OBVIOUS
  <2> HIDE DEF x, y
  <2>4. /\ a * (x + f[k]) = a * x + a * f[k] /\ c * (y + g[k]) = c * y + c * g[k]
        /\ (k - 1) * b + b = k * b
    BY <2>1, <2>3
  <2>5. /\ a * x \in Int /\ a * f[k] \in Int /\ c * y \in Int /\ c * g[k] \in Int
        /\ (k - 1) * b \in Int /\ k * b \in Int
    BY <2>1, <2>3
  <2>6. a * (x + f[k]) <= c * (y + g[k]) + k * b BY <2>1, <2>3, <2>4, <2>5
  <2>7. s[k] \in Int /\ t[k] \in Int BY <2>1, <2>2, <2>3
  <2>8. a * s[k] <= c * t[k] + k * b BY <2>2, <2>6
  <2> HIDE DEF T
  <2>9. k \in 0..n OBVIOUS
  <2> QED BY <2>7, <2>8, <2>9 DEF T
<1>5. n \in T
  <2> HIDE DEF T
  <2>1. \A k \in 1..n : k - 1 \in T => k \in T BY <1>4
  <2>2. \A k \in 0..n : k \in T BY <1>3, <2>1, Induction
  <2>3. n \in 0..n OBVIOUS
  <2> QED BY <2>2, <2>3
<1> QED BY <1>1, <1>2, <1>5

\* The sum of sums and multiples.
LEMMA SumLinear ==
  ASSUME NEW n \in Nat, NEW a \in Int, NEW b \in Int, NEW f, NEW g, NEW h,
         \A k \in 1..n : /\ f[k] \in Int /\ g[k] \in Int
                         /\ h[k] = f[k] + a * g[k] + b
  PROVE  Sum(h, n) = Sum(f, n) + a * Sum(g, n) + n * b
<1>1. PICK s : /\ s[0] = 0 /\ s[n] = Sum(f, n)
               /\ \A k \in 1..n : s[k] = s[k - 1] + f[k]
  BY SumSteps
<1>2. PICK t : /\ t[0] = 0 /\ t[n] = Sum(g, n)
               /\ \A k \in 1..n : t[k] = t[k - 1] + g[k]
  BY SumSteps
<1>3. PICK u : /\ u[0] = 0 /\ u[n] = Sum(h, n)
               /\ \A k \in 1..n : u[k] = u[k - 1] + h[k]
  BY SumSteps
<1> DEFINE T == {k \in 0..n : /\ s[k] \in Int /\ t[k] \in Int
                              /\ u[k] = s[k] + a * t[k] + k * b}
<1>4. 0 \in T BY <1>1, <1>2, <1>3
<1>5. ASSUME NEW k \in 1..n, k - 1 \in T PROVE k \in T
  <2> DEFINE x == s[k - 1]
             y == t[k - 1]
  <2>1. x \in Int /\ y \in Int /\ u[k - 1] = x + a * y + (k - 1) * b BY <1>5
  <2>2. s[k] = x + f[k] /\ t[k] = y + g[k] /\ u[k] = u[k - 1] + h[k]
    BY <1>1, <1>2, <1>3
  <2>3. f[k] \in Int /\ g[k] \in Int /\ h[k] = f[k] + a * g[k] + b OBVIOUS
  <2> HIDE DEF x, y
  <2>4. a * (y + g[k]) = a * y + a * g[k] /\ (k - 1) * b + b = k * b BY <2>1, <2>3
  <2>5. a * y \in Int /\ a * g[k] \in Int /\ (k - 1) * b \in Int /\ k * b \in Int
    BY <2>1, <2>3
  <2>6. u[k] = (x + f[k]) + a * (y + g[k]) + k * b
    BY <2>1, <2>2, <2>3, <2>4, <2>5
  <2>7. s[k] \in Int /\ t[k] \in Int BY <2>1, <2>2, <2>3
  <2>8. u[k] = s[k] + a * t[k] + k * b BY <2>2, <2>6
  <2> HIDE DEF T
  <2>9. k \in 0..n OBVIOUS
  <2> QED BY <2>7, <2>8, <2>9 DEF T
<1>6. n \in T
  <2> HIDE DEF T
  <2>1. \A k \in 1..n : k - 1 \in T => k \in T BY <1>5
  <2>2. \A k \in 0..n : k \in T BY <1>4, <2>1, Induction
  <2>3. n \in 0..n OBVIOUS
  <2> QED BY <2>2, <2>3
<1> QED BY <1>1, <1>2, <1>3, <1>6

\* A sum of nothing, and the bounds of one of numbers up to m.
LEMMA SumWithin ==
  ASSUME NEW n \in Nat, NEW m \in Nat, NEW f, \A k \in 1..n : f[k] \in 0..m
  PROVE  Sum(f, n) \in 0..(n * m)
<1> DEFINE z == [k \in 1..n |-> 0]
<1>1. \A k \in 1..n : f[k] \in Int /\ z[k] \in Int OBVIOUS
<1>2. Sum(f, n) \in Int /\ Sum(z, n) \in Int BY <1>1, SumType
<1>3. 0 * Sum(z, n) <= 1 * Sum(f, n) + n * 0
  <2>1. \A k \in 1..n : 0 * z[k] <= 1 * f[k] + 0 OBVIOUS
  <2> HIDE DEF z
  <2> QED BY <1>1, <2>1, SumBound
<1>4. 1 * Sum(f, n) <= 0 * Sum(z, n) + n * m
  <2>1. \A k \in 1..n : 1 * f[k] <= 0 * z[k] + m OBVIOUS
  <2> HIDE DEF z
  <2> QED BY <1>1, <2>1, SumBound
<1>5. n * m \in Int OBVIOUS
<1> HIDE DEF z
<1> QED BY <1>2, <1>3, <1>4, <1>5

\* A number is its quotient, times the divisor, and its remainder.
LEMMA Division ==
  ASSUME NEW a \in Int, NEW n \in Nat \ {0}
  PROVE  /\ a % n \in 0..(n - 1) /\ a \div n \in Int
         /\ a = (a \div n) * n + (a % n)
OBVIOUS

\* A larger multiple is larger by n or more.
LEMMA MulLess ==
  ASSUME NEW n \in Nat \ {0}, NEW p \in Int, NEW q \in Int, p < q
  PROVE  p * n + n <= q * n
<1>1. q * n = p * n + n + (q - p - 1) * n OBVIOUS
<1>2. (q - p - 1) * n >= 0 OBVIOUS
<1>3. p * n \in Int /\ q * n \in Int OBVIOUS
<1> QED BY <1>1, <1>2, <1>3

\* There is only one quotient and one remainder.
LEMMA Remainder ==
  ASSUME NEW n \in Nat \ {0}, NEW q \in Int, NEW r \in 0..(n - 1)
  PROVE  (q * n + r) % n = r /\ (q * n + r) \div n = q
<1> DEFINE a == q * n + r
           d == a \div n
           m == a % n
<1>1. q * n \in Int OBVIOUS
<1>2. a \in Int BY <1>1
<1> HIDE DEF a
<1>3. d \in Int /\ m \in 0..(n - 1) /\ a = d * n + m BY <1>2, Division
<1> HIDE DEF d, m
<1>4. q * n + r = d * n + m /\ d * n \in Int BY <1>3 DEF a
<1>5. ~(q < d)
  <2>1. q < d => q * n + n <= d * n BY <1>3, MulLess
  <2> QED BY <1>1, <1>3, <1>4, <2>1
<1>6. ~(d < q)
  <2>1. d < q => d * n + n <= q * n BY <1>3, MulLess
  <2> QED BY <1>1, <1>3, <1>4, <2>1
<1>7. q = d BY <1>3, <1>5, <1>6
<1> QED BY <1>1, <1>3, <1>4, <1>7 DEF a, m, d

\* Sums that are close element by element.
LEMMA SumBounds ==
  ASSUME NEW n \in Nat, NEW a \in Int, NEW b \in Int, NEW f, NEW g,
         \A k \in 1..n : /\ f[k] \in Int /\ g[k] \in Int
                         /\ a * f[k] <= g[k] /\ g[k] <= a * f[k] + b
  PROVE  /\ Sum(f, n) \in Int /\ Sum(g, n) \in Int
         /\ a * Sum(f, n) <= Sum(g, n) /\ Sum(g, n) <= a * Sum(f, n) + n * b
<1>1. Sum(f, n) \in Int /\ Sum(g, n) \in Int BY SumType
<1>2. a * Sum(f, n) <= 1 * Sum(g, n) + n * 0
  <2>1. \A k \in 1..n : f[k] \in Int /\ g[k] \in Int /\ a * f[k] <= 1 * g[k] + 0
    OBVIOUS
  <2> QED BY <2>1, SumBound
<1>3. 1 * Sum(g, n) <= a * Sum(f, n) + n * b
  <2>1. \A k \in 1..n : g[k] \in Int /\ f[k] \in Int /\ 1 * g[k] <= a * f[k] + b
    OBVIOUS
  <2>2. 1 \in Int OBVIOUS
  <2> QED BY <2>1, <2>2, SumBound
<1>4. a * Sum(f, n) \in Int BY <1>1
<1> QED BY <1>1, <1>2, <1>3, <1>4

\* The sum of numbers from zero on is one.
LEMMA SumNat ==
  ASSUME NEW n \in Nat, NEW f, \A k \in 1..n : f[k] \in Nat
  PROVE  Sum(f, n) \in Nat
<1>1. PICK s : /\ s[0] = 0 /\ s[n] = Sum(f, n)
               /\ \A k \in 1..n : s[k] = s[k - 1] + f[k]
  BY SumSteps
<1> DEFINE T == {k \in 0..n : s[k] \in Nat}
<1>2. 0 \in T BY <1>1
<1>3. \A k \in 1..n : k - 1 \in T => k \in T BY <1>1
<1>4. n \in T
  <2> HIDE DEF T
  <2>1. \A k \in 0..n : k \in T BY <1>2, <1>3, Induction
  <2> QED BY <2>1
<1> QED BY <1>1, <1>4

\* A quotient loses less than one unit, and what was lost before.
LEMMA Quotient ==
  ASSUME NEW n \in Nat \ {0}, NEW a \in Nat \ {0}, NEW x \in Int, NEW t \in Int,
         NEW b \in Int, NEW l \in Nat,
         a * x <= t, t <= a * x + b, b < l * (n * a) + a
  PROVE  /\ (x \div n) * (n * a) <= t
         /\ t < (x \div n + (1 + l)) * (n * a)
<1> DEFINE q == x \div n
           m == x % n
           N == n * a
<1>1. q \in Int /\ m \in 0..(n - 1) /\ x = q * n + m BY Division
<1> HIDE DEF q, m
<1>2. N \in Int /\ q * N \in Int /\ l * N \in Int
  <2>1. N \in Int OBVIOUS
  <2> HIDE DEF N
  <2> QED BY <1>1, <2>1
<1>3. a * x = q * N + a * m
  <2>1. a * (q * n + m) = q * (n * a) + a * m BY <1>1
  <2> QED BY <1>1, <2>1
<1>4. a * m \in Nat /\ a * m <= N - a
  <2>1. n * a = a * m + a + a * (n - 1 - m) BY <1>1
  <2>2. n - 1 - m \in Nat /\ m \in Nat BY <1>1
  <2>3. a * (n - 1 - m) \in Nat /\ a * m \in Nat BY <2>2
  <2> QED BY <2>1, <2>3
<1>5. (q + (1 + l)) * N = q * N + N + l * N
  <2> HIDE DEF N
  <2> QED BY <1>1, <1>2
<1> HIDE DEF N
<1>6. q * N <= t /\ t < (q + (1 + l)) * N
  <2>1. b < l * N + a BY DEF N
  <2>2. a * x \in Int OBVIOUS
  <2> QED BY <1>2, <1>3, <1>4, <1>5, <2>1, <2>2
<1> QED BY <1>6 DEF q, N

-----------------------------------------------------------------------------
\* What the bounds of a sample and an int mean for a row.
LEMMA RowFits ==
  /\ EnsembleSize * MaxTicks \in Nat /\ EnsembleSize * MaxTicks < ULong
  /\ EnsembleSize * MaxOverhead \in Nat
  /\ MaxTicks < ULong /\ MaxOverhead < ULong
<1> DEFINE n == EnsembleSize
           t == MaxTicks
           o == MaxOverhead
<1>1. n \in Nat \ {0} /\ t \in Nat /\ o \in Nat /\ n * (t + o) < ULong /\ ULong \in Nat
  BY SamplingAssumption
<1> HIDE DEF n, t, o
<1>2. n * (t + o) = n * t + n * o /\ n * t \in Nat /\ n * o \in Nat BY <1>1
<1>3. n * t = t + (n - 1) * t /\ n * o = o + (n - 1) * o BY <1>1
<1>4. (n - 1) * t \in Nat /\ (n - 1) * o \in Nat BY <1>1
<1> QED BY <1>1, <1>2, <1>3, <1>4 DEF n, t, o

\* What a sample is stored as.
LEMMA SampleType ==
  ASSUME STypeOK, NEW c \in 0..MaxTicks
  PROVE  /\ Sample(c) \in (-IntHalf)..(ULong - 1)
         /\ program = "loop" => Sample(c) = c
         /\ program = "bandwidth" =>
              Sample(c) = c + ULong * (IF c < overhead THEN 1 ELSE 0) - overhead
         /\ program \notin {"loop", "bandwidth"} /\ c < IntHalf => Sample(c) = c
<1>1. /\ overhead \in 0..MaxOverhead /\ ULong \in Nat \ {0} /\ IntHalf \in Nat \ {0}
      /\ MaxTicks \in Nat /\ MaxOverhead \in Nat
      /\ program \in Benchmarks
  BY SamplingAssumption DEF STypeOK, Overheads
<1>2. CASE program = "bandwidth"
  <2>1. CASE c < overhead
    <3>1. c - overhead = (-1) * ULong + (c - overhead + ULong) BY <1>1
    <3>2. c - overhead + ULong \in 0..(ULong - 1) BY <1>1, <2>1, RowFits
    <3>3. (c - overhead) % ULong = c - overhead + ULong
      BY <1>1, <3>1, <3>2, Remainder
    <3> QED BY <1>1, <1>2, <2>1, <3>2, <3>3 DEF Sample, Net
  <2>2. CASE ~(c < overhead)
    <3>1. c - overhead = 0 * ULong + (c - overhead) BY <1>1
    <3>2. c - overhead \in 0..(ULong - 1) BY <1>1, <2>2, RowFits
    <3>3. (c - overhead) % ULong = c - overhead BY <1>1, <3>1, <3>2, Remainder
    <3> QED BY <1>1, <1>2, <2>2, <3>2, <3>3 DEF Sample, Net
  <2> QED BY <2>1, <2>2
<1>3. CASE program # "bandwidth"
  BY <1>1, <1>3, RowFits DEF Sample, ToInt
<1> QED BY <1>2, <1>3

\* What was taken in a row.
LEMMA TakenType ==
  ASSUME STypeOK, NEW r \in Rows
  PROVE  /\ r \in 1..LoopIter
         /\ Sum(taken[r], EnsembleSize) \in 0..(ULong - 1)
         /\ \A c \in 1..EnsembleSize : taken[r][c] \in 0..MaxTicks
         /\ overhead \in 0..MaxOverhead /\ EnsembleSize * overhead \in Nat
         /\ True(r) \in Int /\ True(r) < ULong
<1>1. r \in 1..LoopIter /\ overhead \in 0..MaxOverhead /\ EnsembleSize \in Nat \ {0}
      /\ MaxTicks \in Nat /\ MaxOverhead \in Nat
  BY SamplingAssumption DEF STypeOK, Overheads, Rows, Height
<1>2. \A c \in 1..EnsembleSize : taken[r][c] \in 0..MaxTicks
  BY <1>1 DEF STypeOK, Columns
<1>3. Sum(taken[r], EnsembleSize) \in 0..(EnsembleSize * MaxTicks)
  BY <1>1, <1>2, SumWithin
<1>4. EnsembleSize * overhead \in Nat BY <1>1
<1> QED BY <1>1, <1>2, <1>3, <1>4, RowFits, SamplingAssumption DEF True

\* The function that loopoverhead's sum is defined by exists.
LEMMA LoopUpToExists ==
  ASSUME NEW n \in Nat, NEW d
  PROVE  \E s : s = [k \in 0..n |-> IF k = 0 THEN 0 ELSE AddQuotient(s[k - 1], d[k])]
<1> DEFINE IsUpTo(s, m) ==
             s = [k \in 0..m |-> IF k = 0 THEN 0 ELSE AddQuotient(s[k - 1], d[k])]
           T == {m \in 0..n : \E s : IsUpTo(s, m)}
<1>1. \E s : IsUpTo(s, 0)
  <2> DEFINE s == [k \in 0..0 |-> 0]
  <2>1. IsUpTo(s, 0) OBVIOUS
  <2> HIDE DEF IsUpTo
  <2> QED BY <2>1
<1>2. ASSUME NEW m \in 1..n, NEW s, IsUpTo(s, m - 1) PROVE \E t : IsUpTo(t, m)
  <2> DEFINE t == [k \in 0..m |-> IF k = m THEN AddQuotient(s[m - 1], d[m]) ELSE s[k]]
  <2>2. ASSUME NEW k \in 0..m
        PROVE  t[k] = IF k = 0 THEN 0 ELSE AddQuotient(t[k - 1], d[k])
    <3>1. CASE k = 0 BY <1>2, <3>1
    <3>2. CASE k = m BY <3>2
    <3>3. CASE k # 0 /\ k # m
      <4>1. k \in 0..(m - 1) /\ k - 1 \in 0..m /\ k - 1 # m BY <3>3
      <4>2. s[k] = AddQuotient(s[k - 1], d[k]) BY <1>2, <3>3, <4>1
      <4> QED BY <3>3, <4>1, <4>2
    <3> QED BY <3>1, <3>2, <3>3
  <2>3. IsUpTo(t, m) BY <2>2
  <2> HIDE DEF IsUpTo
  <2> QED BY <2>3
<1>3. \A m \in 0..n : m \in T
  <2> HIDE DEF IsUpTo
  <2>1. 0 \in T BY <1>1
  <2>2. \A m \in 1..n : m - 1 \in T => m \in T BY <1>2
  <2> HIDE DEF T
  <2> QED BY <2>1, <2>2, Induction
<1>4. \E s : IsUpTo(s, n)
  <2> HIDE DEF IsUpTo
  <2> QED BY <1>3
<1> QED BY <1>4

\* It starts with nothing and adds one quotient after the other.
LEMMA LoopSteps ==
  ASSUME EnsembleSize \in Nat, NEW r
  PROVE  \E s : /\ s[0] = 0 /\ s[EnsembleSize] = LoopRowSum(r)
                /\ \A k \in 1..EnsembleSize :
                     s[k] = AddQuotient(s[k - 1], times[r][k] - overhead)
<1> DEFINE s == CHOOSE t : t = [c \in 0..EnsembleSize |->
                  IF c = 0 THEN 0 ELSE AddQuotient(t[c - 1], times[r][c] - overhead)]
<1>1. s = [c \in 0..EnsembleSize |->
             IF c = 0 THEN 0 ELSE AddQuotient(s[c - 1], times[r][c] - overhead)]
  <2> DEFINE d == [c \in 1..EnsembleSize |-> times[r][c] - overhead]
  <2>1. PICK t : t = [c \in 0..EnsembleSize |->
                        IF c = 0 THEN 0 ELSE AddQuotient(t[c - 1], d[c])]
    BY LoopUpToExists
  <2>2. \A c \in 0..EnsembleSize : c # 0 => d[c] = times[r][c] - overhead
    OBVIOUS
  <2> HIDE DEF d
  <2>3. t = [c \in 0..EnsembleSize |->
               IF c = 0 THEN 0 ELSE AddQuotient(t[c - 1], times[r][c] - overhead)]
    BY <2>1, <2>2
  <2> QED BY <2>3
<1>2. LoopRowSum(r) = s[EnsembleSize] BY DEF LoopRowSum
<1> HIDE DEF s
<1>3. s[0] = 0 BY <1>1
<1>4. \A k \in 1..EnsembleSize : s[k] = AddQuotient(s[k - 1], times[r][k] - overhead)
  BY <1>1
<1> QED BY <1>2, <1>3, <1>4

\* A quotient that is not negative is added to the sum as it is.
LEMMA AddExact ==
  ASSUME NEW s \in Nat, NEW d \in Nat
  PROVE  AddQuotient(s, d) = s + d \div Unit
<1>1. Unit \in Nat \ {0} /\ s * Unit \in Nat BY SamplingAssumption
<1>2. s # Any /\ ~(s * Unit + d <= -Unit) /\ ~(s * Unit + d < 0) BY <1>1 DEF Any
<1> QED BY <1>2 DEF AddQuotient

\* A sum grows by no more than the largest sample, or is undefined.
LEMMA AddType ==
  ASSUME NEW m \in Nat, NEW a \in Nat, NEW s \in (0..a) \cup {Any},
         NEW d \in Int, d <= m
  PROVE  AddQuotient(s, d) \in (0..(a + m)) \cup {Any}
<1> DEFINE q == d \div Unit
           x == d % Unit
<1>1. Unit \in Nat \ {0} BY SamplingAssumption
<1>2. q \in Int /\ x \in 0..(Unit - 1) /\ d = q * Unit + x BY <1>1, Division
<1> HIDE DEF q, x
<1>3. CASE s = Any BY <1>3 DEF AddQuotient
<1>4. CASE s # Any
  <2>1. s \in 0..a /\ s * Unit \in Nat BY <1>1, <1>4
  <2>2. q <= m
    <3>1. q > 0 => q <= q * Unit
      <4>1. q > 0 => (Unit - 1) * q \in Nat BY <1>1, <1>2
      <4>2. q * Unit = q + (Unit - 1) * q BY <1>1, <1>2
      <4> QED BY <1>1, <1>2, <4>1, <4>2
    <3>2. q * Unit \in Int BY <1>1, <1>2
    <3> QED BY <1>1, <1>2, <3>1, <3>2
  <2>3. s * Unit + d >= 0 => s + q >= 0
    <3>1. s * Unit + d = (s + q) * Unit + x BY <1>1, <1>2, <2>1
    <3>2. s + q < 0 => (s + q) * Unit + Unit <= 0 * Unit BY <1>1, <1>2, <2>1, MulLess
    <3>3. (s + q) * Unit \in Int BY <1>1, <1>2, <2>1
    <3> QED BY <1>1, <1>2, <2>1, <3>1, <3>2, <3>3
  <2>4. AddQuotient(s, d) \in {Any, 0} \/ (s * Unit + d >= 0 /\ AddQuotient(s, d) = s + q)
    BY <1>4, <2>1 DEF AddQuotient, q
  <2> QED BY <1>2, <2>1, <2>2, <2>3, <2>4
<1> QED BY <1>3, <1>4

\* The divisor of a sample.
Divisor == IF program = "loop" THEN Unit ELSE 1

\* The sum of a row that fits, and the type of any.
LEMMA RowSumType ==
  ASSUME STypeOK, TimesOK, pc = "report", NEW r \in Rows
  PROVE  /\ RowSum(r) \in 0..(ULong - 1) \/ RowSum(r) = Any
         /\ Fits(r) => /\ RowSum(r) \in 0..(ULong - 1)
                       /\ Divisor * RowSum(r) <= True(r)
                       /\ True(r) <= Divisor * RowSum(r) + EnsembleSize * (Divisor - 1)
<1> DEFINE n == EnsembleSize
           t == taken[r]
           f == times[r]
           o == overhead
<1>1. /\ n \in Nat \ {0} /\ o \in 0..MaxOverhead /\ MaxOverhead \in Nat
      /\ MaxTicks \in Nat /\ ULong \in Nat \ {0}
      /\ \A c \in 1..n : t[c] \in 0..MaxTicks
      /\ Sum(t, n) \in 0..(ULong - 1) /\ n * o \in Nat
      /\ True(r) = Sum(t, n) - n * o
  BY TakenType, SamplingAssumption DEF True
<1>2. \A c \in 1..n : f[c] = Sample(t[c]) /\ f[c] \in Int
  BY <1>1, SampleType, SamplingAssumption DEF TimesOK, Stored, Columns
<1>3. CASE program = "loop"
  <2> DEFINE g == [c \in Columns |-> (f[c] - o) \div Unit]
  <2>1. \A c \in 1..n : f[c] = t[c] BY <1>1, <1>2, <1>3, SampleType
  <2>4. PICK s : /\ s[0] = 0 /\ s[n] = LoopRowSum(r)
                 /\ \A h \in 1..n : s[h] = AddQuotient(s[h - 1], f[h] - o)
    BY <1>1, LoopSteps
  <2>5. \A h \in 1..n : f[h] - o \in Int /\ f[h] - o <= MaxTicks
    BY <1>1, <2>1
  <2>6. RowSum(r) \in 0..(ULong - 1) \/ RowSum(r) = Any
    <3> DEFINE T == {h \in 0..n : s[h] \in (0..(h * MaxTicks)) \cup {Any}}
    <3>1. 0 \in T BY <1>1, <2>4
    <3>2. ASSUME NEW h \in 1..n, h - 1 \in T PROVE h \in T
      <4>1. (h - 1) * MaxTicks \in Nat /\ (h - 1) * MaxTicks + MaxTicks = h * MaxTicks
        BY <1>1
      <4>2. s[h - 1] \in (0..((h - 1) * MaxTicks)) \cup {Any} BY <3>2
      <4>3. AddQuotient(s[h - 1], f[h] - o)
              \in (0..((h - 1) * MaxTicks + MaxTicks)) \cup {Any}
        BY <1>1, <2>5, <4>1, <4>2, AddType
      <4>4. h \in 0..n /\ s[h] = AddQuotient(s[h - 1], f[h] - o) BY <1>1, <2>4
      <4> HIDE DEF f, o, n
      <4> QED BY <4>1, <4>3, <4>4
    <3>3. n \in T
      <4> HIDE DEF T
      <4>1. \A h \in 0..n : h \in T BY <1>1, <3>1, <3>2, Induction
      <4> QED BY <1>1, <4>1
    <3>4. LoopRowSum(r) \in (0..(n * MaxTicks)) \cup {Any} BY <2>4, <3>3
    <3> QED BY <1>1, <1>3, <3>4, RowFits DEF RowSum
  <2>2. CASE \E c \in Columns : f[c] < o
    <3>2. PICK c \in 1..n : f[c] < o BY <2>2 DEF Columns
    <3>3. ~(t[c] >= o) BY <1>1, <2>1, <3>2
    <3>4. ~Fits(r) BY <1>3, <3>3 DEF Fits, Columns
    <3> QED BY <2>6, <3>4
  <2>3. CASE ~\E c \in Columns : f[c] < o
    <3>1. RowSum(r) = Sum(g, n)
      <4>1. PICK u : /\ u[0] = 0 /\ u[n] = Sum(g, n)
                     /\ \A h \in 1..n : u[h] = u[h - 1] + g[h]
        BY <1>1, SumSteps
      <4> DEFINE T == {h \in 0..n : s[h] = u[h] /\ s[h] \in Nat}
      <4>2. 0 \in T BY <1>1, <2>4, <4>1
      <4>3. ASSUME NEW h \in 1..n, h - 1 \in T PROVE h \in T
        <5>1. s[h - 1] = u[h - 1] /\ s[h - 1] \in Nat BY <4>3
        <5>2. f[h] - o \in Int /\ f[h] - o >= 0 /\ f[h] - o <= MaxTicks
          BY <1>1, <1>2, <2>3, <2>5 DEF Columns
        <5>4. AddQuotient(s[h - 1], f[h] - o) = s[h - 1] + (f[h] - o) \div Unit
          <6> DEFINE x == s[h - 1]
                     d == f[h] - o
          <6>1. x \in Nat /\ d \in Nat BY <5>1, <5>2
          <6> HIDE DEF x, d
          <6>2. AddQuotient(x, d) = x + d \div Unit BY <6>1, AddExact
          <6> QED BY <6>2 DEF x, d
        <5>5. s[h] = s[h - 1] + (f[h] - o) \div Unit BY <2>4, <5>4
        <5>6. (f[h] - o) \div Unit \in Int /\ (f[h] - o) \div Unit >= 0
          <6> DEFINE d == f[h] - o
                     q == d \div Unit
                     m == d % Unit
          <6>1. Unit \in Nat \ {0} BY SamplingAssumption
          <6>2. d \in Nat BY <5>2
          <6> HIDE DEF d
          <6>3. q \in Int /\ m \in 0..(Unit - 1) /\ d = q * Unit + m
            BY <6>1, <6>2, Division
          <6> HIDE DEF q, m
          <6>4. q < 0 => q * Unit + Unit <= 0 * Unit BY <6>1, <6>3, MulLess
          <6>5. q >= 0 BY <6>1, <6>2, <6>3, <6>4
          <6> QED BY <6>3, <6>5 DEF q, d
        <5>7. g[h] = (f[h] - o) \div Unit BY DEF Columns
        <5>8. u[h] = u[h - 1] + g[h] /\ h \in 0..n BY <1>1, <4>1
        <5> HIDE DEF f, o, n, g
        <5> QED BY <5>1, <5>5, <5>6, <5>7, <5>8
      <4>4. n \in T
        <5> HIDE DEF T
        <5>1. \A h \in 0..n : h \in T BY <1>1, <4>2, <4>3, Induction
        <5> QED BY <1>1, <5>1
      <4> QED BY <1>3, <2>4, <4>1, <4>4 DEF RowSum
    <3>2. \A c \in 1..n : /\ g[c] \in 0..MaxTicks /\ Unit * g[c] <= t[c] - o
                          /\ t[c] - o <= Unit * g[c] + (Unit - 1)
      <4> SUFFICES ASSUME NEW c \in 1..n
                   PROVE  /\ g[c] \in 0..MaxTicks /\ Unit * g[c] <= t[c] - o
                          /\ t[c] - o <= Unit * g[c] + (Unit - 1)
        OBVIOUS
      <4> DEFINE d == t[c] - o
                 q == d \div Unit
                 m == d % Unit
      <4>1. d \in 0..MaxTicks /\ Unit \in Nat \ {0} /\ g[c] = q
        BY <1>1, <2>1, <2>3, SamplingAssumption DEF Columns
      <4> HIDE DEF d, g
      <4>2. q \in Int /\ m \in 0..(Unit - 1) /\ d = q * Unit + m
        <5>1. d \in Int /\ Unit \in Nat \ {0} BY <1>1, <4>1
        <5> QED BY <5>1, Division
      <4> HIDE DEF q, m
      <4>3. q * Unit = Unit * q /\ Unit * q \in Int BY <4>1, <4>2
      <4>4. q >= 0
        <5>1. q < 0 => q * Unit + Unit <= 0 * Unit BY <4>1, <4>2, MulLess
        <5> QED BY <4>1, <4>2, <4>3, <5>1
      <4>5. q <= Unit * q
        <5>1. Unit * q = q + (Unit - 1) * q BY <4>1, <4>2
        <5>2. Unit - 1 \in Nat /\ q \in Nat BY <4>1, <4>2, <4>4
        <5>3. (Unit - 1) * q \in Nat BY <5>2
        <5> QED BY <4>2, <5>1, <5>3
      <4>6. q \in 0..MaxTicks /\ Unit * q <= d /\ d <= Unit * q + (Unit - 1)
        BY <1>1, <4>1, <4>2, <4>3, <4>4, <4>5
      <4> QED BY <4>1, <4>6 DEF d
    <3> HIDE DEF g
    <3>3. Sum(g, n) \in 0..(n * MaxTicks) BY <1>1, <3>2, SumWithin
    <3>4. Unit * Sum(g, n) <= 1 * Sum(t, n) + n * (-o)
      <4>1. \A c \in 1..n : /\ g[c] \in Int /\ t[c] \in Int
                            /\ Unit * g[c] <= 1 * t[c] + (-o)
        BY <1>1, <3>2
      <4> HIDE DEF t, f, o, n
      <4> QED BY <1>1, <4>1, SumBound, SamplingAssumption
    <3>5. 1 * Sum(t, n) <= Unit * Sum(g, n) + n * (Unit - 1 + o)
      <4>1. \A c \in 1..n : /\ g[c] \in Int /\ t[c] \in Int
                            /\ 1 * t[c] <= Unit * g[c] + (Unit - 1 + o)
        <5>1. \A c \in 1..n : Unit * g[c] \in Int BY <3>2, SamplingAssumption
        <5> QED BY <1>1, <3>2, <5>1, SamplingAssumption
      <4> HIDE DEF t, f, o, n
      <4> QED BY <1>1, <4>1, SumBound, SamplingAssumption
    <3>6. n * (-o) = -(n * o) /\ n * (Unit - 1 + o) = n * (Unit - 1) + n * o
      BY <1>1, SamplingAssumption
    <3>7. Unit * Sum(g, n) \in Int /\ n * (Unit - 1) \in Int
      BY <1>1, <3>3, SamplingAssumption, RowFits
    <3>8. /\ Unit * Sum(g, n) <= True(r)
          /\ True(r) <= Unit * Sum(g, n) + n * (Unit - 1)
      BY <1>1, <3>4, <3>5, <3>6, <3>7
    <3>9. Sum(g, n) \in 0..(ULong - 1) BY <3>3, RowFits, <1>1
    <3> QED BY <1>3, <3>1, <3>8, <3>9 DEF Divisor
  <2> QED BY <2>2, <2>3
<1>4. ASSUME program # "loop" PROVE /\ RowSum(r) = Sum(f, n) % ULong
                                    /\ RowSum(r) \in 0..(ULong - 1)
  <2>1. Sum(f, n) \in Int BY <1>1, <1>2, SumType
  <2> HIDE DEF f, n
  <2>2. Sum(f, n) % ULong \in 0..(ULong - 1) BY <1>1, <2>1, Division
  <2> QED BY <1>4, <2>2 DEF RowSum, f, n
<1>5. ASSUME program = "bandwidth", Fits(r) PROVE RowSum(r) = True(r)
  <2> DEFINE w == [c \in Columns |-> IF t[c] < o THEN 1 ELSE 0]
  <2>1. \A c \in 1..n : /\ t[c] \in Int /\ w[c] \in 0..1
                        /\ f[c] = t[c] + ULong * w[c] + (-o)
    <3> SUFFICES ASSUME NEW c \in 1..n
                 PROVE  /\ t[c] \in Int /\ w[c] \in 0..1
                        /\ f[c] = t[c] + ULong * w[c] + (-o)
      OBVIOUS
    <3>1. f[c] = t[c] + ULong * w[c] - o
      BY <1>1, <1>2, <1>5, SampleType DEF Columns
    <3>2. w[c] \in 0..1 /\ t[c] \in Int BY <1>1 DEF Columns
    <3> QED BY <1>1, <3>1, <3>2
  <2> HIDE DEF w
  <2>2. Sum(f, n) = Sum(t, n) + ULong * Sum(w, n) + n * (-o)
    <3>1. \A c \in 1..n : /\ t[c] \in Int /\ w[c] \in Int
                          /\ f[c] = t[c] + ULong * w[c] + (-o)
      BY <2>1
    <3> HIDE DEF t, f, o, n
    <3> QED BY <1>1, <3>1, SumLinear
  <2>3. Sum(w, n) \in Int
    <3>1. \A c \in 1..n : w[c] \in Int BY <2>1
    <3> HIDE DEF n
    <3> QED BY <1>1, <3>1, SumType
  <2>4. True(r) \in 0..(ULong - 1)
    BY <1>5, TakenType, SamplingAssumption DEF Fits
  <2>5. Sum(f, n) = Sum(w, n) * ULong + True(r)
    <3>1. n * (-o) = -(n * o) /\ ULong * Sum(w, n) = Sum(w, n) * ULong
      BY <1>1, <2>3
    <3>2. Sum(w, n) * ULong \in Int BY <1>1, <2>3
    <3> QED BY <1>1, <2>2, <3>1, <3>2
  <2>6. Sum(f, n) % ULong = True(r) BY <1>1, <2>3, <2>4, <2>5, Remainder
  <2> QED BY <1>4, <1>5, <2>6
<1>6. ASSUME program \notin {"loop", "bandwidth"}, Fits(r) PROVE RowSum(r) = True(r)
  <2>1. \A c \in 1..n : f[c] = t[c]
    BY <1>1, <1>2, <1>6, SampleType DEF Fits, Columns
  <2>2. o = 0 BY <1>6 DEF STypeOK, Overheads
  <2>3. Sum(f, n) = Sum(t, n) + 0 * Sum(t, n) + n * 0
    <3>1. \A c \in 1..n : t[c] \in Int /\ f[c] = t[c] + 0 * t[c] + 0 BY <1>1, <2>1
    <3> HIDE DEF t, f, o, n
    <3> QED BY <1>1, <3>1, SumLinear
  <2>4. Sum(f, n) = True(r) /\ True(r) \in 0..(ULong - 1) BY <1>1, <2>2, <2>3
  <2>5. Sum(f, n) = 0 * ULong + True(r) BY <1>1, <2>4
  <2>6. Sum(f, n) % ULong = True(r) BY <1>1, <2>4, <2>5, Remainder
  <2> QED BY <1>4, <1>6, <2>6
<1>7. ASSUME program # "loop", Fits(r) PROVE RowSum(r) = True(r)
  BY <1>5, <1>6, <1>7
<1>8. CASE program # "loop"
  BY <1>1, <1>4, <1>7, <1>8 DEF Divisor
<1> QED BY <1>3, <1>8

\* Whether the samples are rounded too, and what a mean is the quotient by.
Slack == IF program = "loop" THEN 1 ELSE 0
Whole == EnsembleSize * Divisor

\* The numbers that the sums are taken over and divided by.
LEMMA Sizes ==
  /\ EnsembleSize \in Nat \ {0} /\ LoopIter \in Nat \ {0} /\ ULong \in Nat \ {0}
  /\ Divisor \in Nat \ {0} /\ Slack \in Nat
  /\ Whole \in Nat \ {0} /\ LoopIter * Whole \in Nat \ {0}
  /\ EnsembleSize * (Divisor - 1) \in Nat
  /\ EnsembleSize * (Divisor - 1) < Slack * Whole + Divisor
  /\ Rows = 1..Height /\ Height \in Nat \ {0}
<1> DEFINE n == EnsembleSize
           u == Divisor
<1>1. /\ n \in Nat \ {0} /\ LoopIter \in Nat \ {0} /\ ULong \in Nat \ {0}
      /\ u \in Nat \ {0} /\ Slack \in Nat
      /\ (u = 1 /\ Slack = 0) \/ Slack = 1
      /\ Rows = 1..Height /\ Height \in Nat \ {0}
  BY SamplingAssumption DEF Divisor, Slack, Rows, Height
<1> HIDE DEF n, u
<1>2. n * u \in Nat \ {0} /\ n * (u - 1) = n * u - n /\ n * (u - 1) \in Nat BY <1>1
<1>3. LoopIter * (n * u) \in Nat \ {0}
  <2> DEFINE w == n * u
  <2>1. w \in Nat \ {0} BY <1>2
  <2> HIDE DEF w
  <2> QED BY <1>1, <2>1 DEF w
<1>4. n * (u - 1) < Slack * (n * u) + u
  <2>1. CASE u = 1 /\ Slack = 0 BY <1>1, <2>1
  <2>2. CASE Slack = 1 BY <1>1, <1>2, <2>2
  <2> QED BY <1>1, <2>1, <2>2
<1> QED BY <1>1, <1>2, <1>3, <1>4 DEF n, u, Whole

\* The mean of a row is a number, or undefined; it is rounded down and no more.
LEMMA RowMeanRoundsDown ==
  ASSUME STypeOK, TimesOK, pc = "report", NEW r \in Rows
  PROVE  /\ RowMean(r) \in Any..(ULong - 1)
         /\ Fits(r) => /\ RowMean(r) \in Nat
                       /\ RowMean(r) * Whole <= True(r)
                       /\ True(r) < (RowMean(r) + (1 + Slack)) * Whole
<1> DEFINE n == EnsembleSize
           s == RowSum(r)
<1>1. ASSUME s \in 0..(ULong - 1)
      PROVE  /\ RowMean(r) = s \div n /\ RowMean(r) \in 0..(ULong - 1)
  <2>1. RowMean(r) = s \div n BY <1>1 DEF RowMean, Any
  <2> HIDE DEF n, s
  <2>2. n \in Nat \ {0} /\ ULong \in Nat \ {0} BY Sizes DEF n
  <2> DEFINE q == s \div n
             m == s % n
  <2>3. q \in Int /\ m \in 0..(n - 1) /\ s = q * n + m BY <1>1, <2>2, Division
  <2> HIDE DEF q, m
  <2>4. q * n \in Int BY <2>2, <2>3
  <2>5. q >= 0
    <3>1. q < 0 => q * n + n <= 0 * n BY <2>2, <2>3, MulLess
    <3> QED BY <1>1, <2>2, <2>3, <2>4, <3>1
  <2>6. q <= q * n
    <3>1. q * n = q + q * (n - 1) BY <2>2, <2>3
    <3>2. n - 1 \in Nat /\ q \in Nat BY <2>2, <2>3, <2>5
    <3>3. q * (n - 1) \in Nat BY <3>2
    <3> QED BY <2>3, <3>1, <3>3
  <2>7. q \in 0..(ULong - 1) BY <1>1, <2>2, <2>3, <2>4, <2>5, <2>6
  <2> QED BY <2>1, <2>7 DEF q
<1>2. RowMean(r) \in Any..(ULong - 1)
  BY <1>1, RowSumType, Sizes DEF RowMean, Any
<1>3. ASSUME Fits(r)
      PROVE  /\ RowMean(r) \in Nat
             /\ RowMean(r) * Whole <= True(r)
             /\ True(r) < (RowMean(r) + (1 + Slack)) * Whole
  <2> DEFINE u == Divisor
             b == n * (u - 1)
  <2>1. s \in 0..(ULong - 1) /\ u * s <= True(r) /\ True(r) <= u * s + b
    BY <1>3, RowSumType
  <2>2. True(r) \in Int BY TakenType
  <2>3. n \in Nat \ {0} /\ u \in Nat \ {0} /\ b \in Int /\ Slack \in Nat /\ ULong \in Nat
        /\ b < Slack * (n * u) + u
    BY Sizes DEF Whole
  <2> HIDE DEF n, u, b, s
  <2>4. s \in Int BY <2>1, <2>3
  <2>5. /\ (s \div n) * (n * u) <= True(r)
        /\ True(r) < (s \div n + (1 + Slack)) * (n * u)
    BY <2>1, <2>2, <2>3, <2>4, Quotient
  <2> QED BY <1>1, <2>1, <2>5, Sizes DEF n, u, Whole
<1> QED BY <1>2, <1>3

\* What was taken in all rows.
All == Sum([r \in Rows |-> True(r)], Height)

\* The overall sum of rows that fit is rounded down as the samples are, and no more.
LEMMA OverallRoundsDown ==
  ASSUME STypeOK, TimesOK, pc = "report", \A r \in Rows : Fits(r),
         NEW s, s = Sum([r \in Rows |-> RowSum(r)], Height)
  PROVE  /\ s \in Int /\ All \in Int
         /\ Divisor * s <= All
         /\ All <= Divisor * s + Height * (EnsembleSize * (Divisor - 1))
<1> DEFINE f == [r \in Rows |-> RowSum(r)]
           g == [r \in Rows |-> True(r)]
           u == Divisor
           b == EnsembleSize * (Divisor - 1)
<1>1. u \in Nat \ {0} /\ b \in Nat /\ Rows = 1..Height /\ Height \in Nat /\ ULong \in Nat
  BY Sizes
<1>2. \A r \in 1..Height : /\ f[r] \in Int /\ g[r] \in Int
                           /\ u * f[r] <= g[r] /\ g[r] <= u * f[r] + b
  <2> SUFFICES ASSUME NEW r \in Rows
               PROVE  /\ RowSum(r) \in Int /\ True(r) \in Int
                      /\ u * RowSum(r) <= True(r) /\ True(r) <= u * RowSum(r) + b
    BY <1>1
  <2> QED BY <1>1, RowSumType, TakenType
<1> HIDE DEF f, g, u, b
<1>3. /\ Sum(f, Height) \in Int /\ Sum(g, Height) \in Int
      /\ u * Sum(f, Height) <= Sum(g, Height)
      /\ Sum(g, Height) <= u * Sum(f, Height) + Height * b
  <2>1. u \in Int /\ b \in Int BY <1>1
  <2> QED BY <1>1, <1>2, <2>1, SumBounds
<1> QED BY <1>3 DEF f, g, u, b, All

\* The mean of means that fit an int is rounded down once more.
LEMMA PopMeanRoundsDown ==
  ASSUME STypeOK, TimesOK, pc = "report", \A r \in Rows : Fits(r),
         program # "bandwidth",
         NEW s, s = Sum([r \in Rows |-> RowMean(r)], Height), s < IntHalf
  PROVE  /\ PopMean * (LoopIter * Whole) <= All
         /\ All < (PopMean + (2 + Slack)) * (LoopIter * Whole)
<1> DEFINE f == [r \in Rows |-> RowMean(r)]
           g == [r \in Rows |-> True(r)]
           w == Whole
           b == w * (1 + Slack) - 1
           L == LoopIter
<1>1. /\ w \in Nat \ {0} /\ Rows = 1..Height /\ Height = L /\ L \in Nat \ {0}
      /\ Slack \in Nat
  BY Sizes DEF Height
<1>2. b \in Int BY <1>1
<1>3. \A r \in 1..L : /\ f[r] \in Int /\ g[r] \in Int
                      /\ w * f[r] <= g[r] /\ g[r] <= w * f[r] + b
  <2> SUFFICES ASSUME NEW r \in Rows
               PROVE  /\ RowMean(r) \in Int /\ True(r) \in Int
                      /\ w * RowMean(r) <= True(r)
                      /\ True(r) <= w * RowMean(r) + w * (1 + Slack) - 1
    BY <1>1
  <2> DEFINE m == RowMean(r)
  <2>1. m \in Int /\ True(r) \in Int
        /\ m * w <= True(r) /\ True(r) < (m + (1 + Slack)) * w
    BY RowMeanRoundsDown, TakenType
  <2> HIDE DEF m, w
  <2>2. (m + (1 + Slack)) * w = w * m + w * (1 + Slack) /\ m * w = w * m
        /\ w * m \in Int /\ w * (1 + Slack) \in Int
    BY <1>1, <2>1
  <2> QED BY <2>1, <2>2 DEF m
<1>4. PopMean = s \div L
  <2>1. \A r \in Rows : RowMean(r) # Any BY RowMeanRoundsDown DEF Any
  <2>2. ~(s >= IntHalf)
    <3>1. s \in Int /\ IntHalf \in Int
      <4> HIDE DEF f
      <4>1. Sum(f, L) \in Int BY <1>1, <1>3, SumType
      <4> QED BY <1>1, <4>1, SamplingAssumption DEF f
    <3> QED BY <3>1
  <2> QED BY <2>1, <2>2 DEF PopMean
<1>5. s = Sum(f, L) /\ All = Sum(g, L) BY <1>1 DEF All
<1> HIDE DEF f, g, b, w, L
<1>6. /\ s \in Int /\ All \in Int
      /\ w * s <= All /\ All <= w * s + L * b
  <2>1. w \in Int /\ L \in Nat BY <1>1
  <2> QED BY <1>2, <1>3, <1>5, <2>1, SumBounds
<1>9. L * b \in Int /\ L * b < (1 + Slack) * (L * w) + w
  <2>1. L * (w * (1 + Slack) - 1) = (1 + Slack) * (L * w) - L BY <1>1
  <2>2. L * w \in Int BY <1>1
  <2>3. (1 + Slack) * (L * w) \in Int
    <3> DEFINE v == L * w
    <3> HIDE DEF v
    <3> QED BY <1>1, <2>2 DEF v
  <2> QED BY <1>1, <2>1, <2>3 DEF b
<1>10. /\ (s \div L) * (L * w) <= All
       /\ All < (s \div L + (1 + (1 + Slack))) * (L * w)
  <2>1. 1 + Slack \in Nat BY <1>1
  <2> QED BY <1>1, <1>6, <1>9, <2>1, Quotient
<1>11. 1 + (1 + Slack) = 2 + Slack BY <1>1
<1> QED BY <1>4, <1>10, <1>11 DEF L, w

-----------------------------------------------------------------------------
\* The initial state satisfies the inductive invariant.
LEMMA SInitInv == SInit => SIInv
<1> SUFFICES ASSUME SInit PROVE SIInv OBVIOUS
<1> USE SamplingAssumption
<1>1. STypeOK
  <2>1. Table(0) \in [1..LoopIter -> [Columns -> 0..0]] BY DEF Table
  <2>2. NoReport \in [1..LoopIter -> 0..0] BY DEF NoReport
  <2>3. 1 \in 1..Phases
    <3>1. Phases \in Nat \ {0} BY DEF Phases
    <3> QED BY <3>1
  <2>4. 1 \in Rows /\ 1 \in Columns BY DEF Rows, Height, Columns
  <2> QED BY <2>1, <2>2, <2>3, <2>4 DEF SInit, STypeOK, Any
<1>2. ChildOK /\ PhaseOK /\ ReportRoundsDown
  BY DEF SInit, ChildOK, PhaseOK, ReportRoundsDown
<1>3. TimesOK
  <2>1. \A r \in Rows, c \in Columns : ~Stored(r, c)
    BY DEF SInit, Stored, Rows, Columns, Height
  <2> QED BY <2>1 DEF TimesOK
<1> QED BY <1>1, <1>2, <1>3 DEF SIInv

\* A step of the parent before the sample is stored, or one of the child, preserves it.
LEMMA RoundInv ==
  ASSUME SIInv,
         Tic \/ Create \/ CreateFails \/ Toc \/ Collect \/ CollectNothing
           \/ ChildEnds \/ Tick \/ UNCHANGED svars
  PROVE  SIInv'
<1> USE DEF SIInv
<1>1. UNCHANGED <<program, phase, overhead, row, column, times, means, overall,
                  popMean, taken>>
  BY DEF Tic, Create, CreateFails, Toc, Collect, CollectNothing, ChildEnds, Tick,
         svars, program_vars, index, report
<1>2. pc' = pc \/ pc' \notin {"report", "reported", "done"}
  BY DEF Tic, Create, CreateFails, Toc, Collect, CollectNothing, ChildEnds, Tick, svars
<1>3. STypeOK'
  <2>1. age' \in 0..MaxTicks /\ cycles' \in 0..MaxTicks
    BY SamplingAssumption
    DEF STypeOK, Tic, Create, CreateFails, Toc, Collect, CollectNothing, ChildEnds,
        Tick, svars
  <2>2. /\ pc' \in {"tic", "create", "toc", "collect", "store", "report", "reported",
                    "done", "failed", "crashed"}
        /\ child' \in {"none", "run", "ended"}
    BY DEF STypeOK, Tic, Create, CreateFails, Toc, Collect, CollectNothing, ChildEnds,
           Tick, svars
  <2>3. Phases' = Phases /\ Overheads' = Overheads /\ Rows' = Rows
    BY <1>1 DEF Phases, Overheads, Rows, Height
  <2> QED BY <1>1, <2>1, <2>2, <2>3 DEF STypeOK
<1>4. ChildOK'
  <2> USE DEF ChildOK, Creates, program_vars
  <2>1. CASE Tic BY <2>1 DEF Tic
  <2>2. CASE Create BY <2>2 DEF Create
  <2>3. CASE CreateFails BY <2>3 DEF CreateFails
  <2>4. CASE Toc BY <2>4 DEF Toc
  <2>5. CASE Collect \/ CollectNothing BY <2>5 DEF Collect, CollectNothing
  <2>6. CASE ChildEnds \/ Tick BY <2>6 DEF ChildEnds, Tick
  <2>7. CASE UNCHANGED svars BY <2>7 DEF svars
  <2> QED BY <2>1, <2>2, <2>3, <2>4, <2>5, <2>6, <2>7
<1>5. PhaseOK' BY <1>1, <1>2 DEF PhaseOK, Phases
<1>6. TimesOK'
  <2>1. \A r, c : Stored(r, c)' => Stored(r, c) BY <1>1, <1>2 DEF Stored
  <2>2. \A x : Sample(x)' = Sample(x) BY <1>1 DEF Sample, Net
  <2> QED BY <1>1, <2>1, <2>2 DEF TimesOK, Rows, Height
<1>7. ReportRoundsDown'
  <2>1. \A r \in Rows : Fits(r)' <=> Fits(r) BY <1>1 DEF Fits, True
  <2>2. \A r : True(r)' = True(r) BY <1>1 DEF True
  <2>3. Rows' = Rows /\ Height' = Height BY <1>1 DEF Rows, Height
  <2> QED BY <1>1, <1>2, <2>1, <2>2, <2>3 DEF ReportRoundsDown
<1> QED BY <1>3, <1>4, <1>5, <1>6, <1>7

\* Storing a sample preserves it: the sample is the one that was taken, and it comes
\* next in the table.
LEMMA StoreInv == ASSUME SIInv, Store PROVE SIInv'
<1> USE DEF SIInv
<1> USE SamplingAssumption
<1>1. /\ pc = "store"
      /\ times' = [times EXCEPT ![row][column] = Sample(cycles)]
      /\ taken' = [taken EXCEPT ![row][column] = cycles]
      /\ pc' \in {"tic", "report"}
      /\ UNCHANGED <<program, phase, overhead, child, age, cycles, means, overall, popMean>>
  BY DEF Store, program_vars, report
<1>2. /\ \/ /\ column < EnsembleSize /\ column' = column + 1 /\ pc' = "tic"
            /\ row' = row
         \/ /\ column = EnsembleSize /\ row + 1 \in Rows /\ column' = 1
            /\ row' = row + 1 /\ pc' = "tic"
         \/ /\ column = EnsembleSize /\ row + 1 \notin Rows /\ pc' = "report"
            /\ row' = row /\ column' = column
  BY DEF Store, index
<1>3. /\ row \in Rows /\ row \in 1..LoopIter /\ column \in Columns
      /\ cycles \in 0..MaxTicks
      /\ Phases' = Phases /\ Overheads' = Overheads /\ Rows' = Rows /\ Rows = 1..Height
      /\ Height \in Nat
  BY <1>1 DEF STypeOK, Rows, Height, Phases, Overheads
<1>4. STypeOK'
  <2>1. row' \in Rows /\ column' \in Columns BY <1>2, <1>3 DEF Columns
  <2>2. times' \in [1..LoopIter -> [Columns -> (-IntHalf)..(ULong - 1)]]
    <3>1. Sample(cycles) \in (-IntHalf)..(ULong - 1) BY <1>3, SampleType
    <3> QED BY <1>1, <1>3, <3>1 DEF STypeOK
  <2>3. taken' \in [1..LoopIter -> [Columns -> 0..MaxTicks]]
    BY <1>1, <1>3 DEF STypeOK
  <2> QED BY <1>1, <1>3, <2>1, <2>2, <2>3 DEF STypeOK
<1>5. TimesOK'
  <2> SUFFICES ASSUME NEW r \in Rows, NEW c \in Columns, Stored(r, c)'
               PROVE  times'[r][c] = Sample(taken'[r][c])
    <3>1. \A x : Sample(x)' = Sample(x) BY <1>1 DEF Sample, Net
    <3> QED BY <1>3, <3>1 DEF TimesOK
  <2>1. r \in 1..LoopIter BY <1>3 DEF Rows, Height
  <2>2. CASE r = row /\ c = column
    BY <1>1, <1>3, <2>2 DEF STypeOK
  <2>3. CASE ~(r = row /\ c = column)
    <3>1. times'[r][c] = times[r][c] /\ taken'[r][c] = taken[r][c]
      BY <1>1, <1>3, <2>1, <2>3 DEF STypeOK
    <3>2. r < row \/ (r = row /\ c < column)
      <4>1. r \in Nat /\ r <= Height /\ c \in Nat /\ c <= EnsembleSize
            /\ row \in Nat /\ column \in Nat
        BY <1>3 DEF Columns
      <4>2. CASE pc' = "report"
        BY <1>2, <1>3, <2>3, <4>1, <4>2
      <4>3. CASE pc' = "tic"
        <5>1. r < row' \/ (r = row' /\ c < column') BY <4>3 DEF Stored
        <5> QED BY <1>2, <1>3, <2>3, <4>1, <4>3, <5>1 DEF Columns
      <4> QED BY <1>1, <4>2, <4>3
    <3> QED BY <3>1, <3>2 DEF TimesOK, Stored
  <2> QED BY <2>2, <2>3
<1>6. ChildOK' /\ PhaseOK' /\ ReportRoundsDown'
  BY <1>1 DEF ChildOK, PhaseOK, ReportRoundsDown
<1> QED BY <1>4, <1>5, <1>6

\* The next phase preserves it: nothing that is in the table counts any more.
LEMMA NextPhaseInv == ASSUME SIInv, NextPhase PROVE SIInv'
<1> USE DEF SIInv
<1> USE SamplingAssumption
<1>1. /\ pc = "reported" /\ pc' = "tic" /\ phase' = phase + 1 /\ overhead' \in Overheads
      /\ row' = 1 /\ column' = 1 /\ means' = NoReport /\ overall' = 0 /\ popMean' = 0
      /\ taken' = Table(0)
      /\ UNCHANGED <<program, child, age, cycles, times>>
  BY DEF NextPhase
<1>2. /\ Phases' = Phases /\ Overheads' = Overheads /\ Rows' = Rows
      /\ Phases \in Nat /\ 1 \in Rows /\ 1 \in Columns
  BY <1>1 DEF Phases, Overheads, Rows, Height, Columns
<1>3. STypeOK'
  <2>1. Table(0) \in [1..LoopIter -> [Columns -> 0..0]] BY DEF Table
  <2>2. NoReport \in [1..LoopIter -> 0..0] BY DEF NoReport
  <2>3. phase' \in 1..Phases BY <1>1, <1>2 DEF STypeOK, PhaseOK
  <2>4. /\ means' \in [1..LoopIter -> Any..(ULong - 1)]
        /\ taken' \in [1..LoopIter -> [Columns -> 0..MaxTicks]]
    BY <1>1, <2>1, <2>2 DEF Any
  <2>5. overall' \in Nat \cup {Any} /\ popMean' \in Nat \cup {Any} BY <1>1
  <2> QED BY <1>1, <1>2, <2>3, <2>4, <2>5 DEF STypeOK
<1>4. TimesOK'
  <2>1. \A r \in Rows', c \in Columns : ~Stored(r, c)'
    BY <1>1 DEF Stored, Rows, Height, Columns
  <2> QED BY <2>1 DEF TimesOK
<1>5. ChildOK' /\ PhaseOK' /\ ReportRoundsDown'
  BY <1>1 DEF ChildOK, PhaseOK, ReportRoundsDown
<1> QED BY <1>3, <1>4, <1>5

\* The report preserves it: the whole table is that of this phase.
LEMMA MeasureTimeInv == ASSUME SIInv, MeasureTime PROVE SIInv'
<1> USE DEF SIInv
<1> DEFINE s == Sum([r \in Rows |-> RowSum(r)], Height)
           m == Sum([r \in Rows |-> RowMean(r)], Height)
<1>1. /\ pc = "report"
      /\ means' = [r \in 1..LoopIter |-> IF r \in Rows THEN RowMean(r) ELSE 0]
      /\ overall' = IF \E r \in Rows : RowSum(r) = Any THEN Any ELSE s
      /\ popMean' = PopMean
      /\ pc' = IF phase < Phases THEN "reported" ELSE "done"
      /\ UNCHANGED <<program, phase, overhead, child, age, cycles, row, column, times,
                     taken>>
  BY DEF MeasureTime, program_vars, index
<1>2. /\ Phases' = Phases /\ Overheads' = Overheads /\ Rows' = Rows /\ Height' = Height
      /\ \A r : True(r)' = True(r)
      /\ \A r : Fits(r)' = Fits(r)
  BY <1>1 DEF Phases, Overheads, Rows, Height, Fits, True
<1>3. \A r \in Rows : /\ RowSum(r) \in Nat \cup {Any}
                      /\ RowMean(r) \in Any..(ULong - 1) /\ RowMean(r) \in Nat \cup {Any}
  BY <1>1, RowSumType, RowMeanRoundsDown, Sizes DEF Any
<1>4. STypeOK'
  <2>1. means' \in [1..LoopIter -> Any..(ULong - 1)] BY <1>1, <1>3, Sizes DEF Any
  <2>2. overall' \in Nat \cup {Any}
    <3>1. ASSUME ~\E r \in Rows : RowSum(r) = Any PROVE s \in Nat
      <4> DEFINE f == [r \in Rows |-> RowSum(r)]
      <4>1. \A r \in 1..Height : f[r] \in Nat BY <1>3, <3>1, Sizes
      <4> HIDE DEF f
      <4>2. Sum(f, Height) \in Nat BY <4>1, SumNat, Sizes
      <4> QED BY <4>2 DEF f
    <3> HIDE DEF s
    <3> QED BY <1>1, <3>1
  <2>3. popMean' \in Nat \cup {Any}
    <3>1. ASSUME ~\E r \in Rows : RowMean(r) = Any PROVE m \div LoopIter \in Nat
      <4> DEFINE f == [r \in Rows |-> RowMean(r)]
      <4>1. \A r \in 1..Height : f[r] \in Nat BY <1>3, <3>1, Sizes
      <4> HIDE DEF f
      <4>2. Sum(f, Height) \in Nat BY <4>1, SumNat, Sizes
      <4> HIDE DEF m
      <4> QED BY <4>2, Sizes DEF f, m
    <3> HIDE DEF m
    <3> QED BY <1>1, <3>1 DEF PopMean, m
  <2>4. pc' \in {"reported", "done"} BY <1>1
  <2> QED BY <1>1, <1>2, <2>1, <2>2, <2>3, <2>4 DEF STypeOK
<1>5. ChildOK' /\ PhaseOK' BY <1>1, <1>2 DEF ChildOK, PhaseOK
<1>6. TimesOK'
  <2>1. \A x : Sample(x)' = Sample(x) BY <1>1 DEF Sample, Net
  <2> QED BY <1>1, <1>2, <2>1 DEF TimesOK, Stored
<1>7. \A r \in Rows : Fits(r) => /\ means'[r] * Whole <= True(r)
                                 /\ True(r) < (means'[r] + (1 + Slack)) * Whole
  <2>1. \A r \in Rows : r \in 1..LoopIter BY Sizes DEF Rows, Height
  <2>2. \A r \in Rows : means'[r] = RowMean(r) BY <1>1, <2>1
  <2> QED BY <1>1, <2>2, RowMeanRoundsDown
<1>8. ASSUME \A r \in Rows : Fits(r)
      PROVE  IF program = "loop"
               THEN /\ overall' * Unit <= All
                    /\ All < (overall' + LoopIter * EnsembleSize) * Unit
               ELSE overall' = All
  <2>1. overall' = s
    <3>1. \A r \in Rows : RowSum(r) # Any BY <1>1, <1>8, RowSumType, Sizes DEF Any
    <3> QED BY <1>1, <3>1
  <2>2. /\ s \in Int /\ All \in Int
        /\ Divisor * s <= All
        /\ All <= Divisor * s + Height * (EnsembleSize * (Divisor - 1))
    BY <1>1, <1>8, OverallRoundsDown
  <2> HIDE DEF s
  <2>3. CASE program = "loop"
    <3> DEFINE L == LoopIter
               n == EnsembleSize
               u == Unit
    <3>1. L \in Nat \ {0} /\ n \in Nat \ {0} /\ u \in Nat \ {0} BY SamplingAssumption
    <3>2. Divisor = u /\ Height = L BY <2>3 DEF Divisor, Height
    <3> HIDE DEF L, n, u
    <3>3. /\ (s + L * n) * u = u * s + L * (n * u) /\ s * u = u * s
          /\ L * (n * (u - 1)) = L * (n * u) - L * n
      BY <2>2, <3>1
    <3>4. L * n \in Nat \ {0} /\ u * s \in Int BY <2>2, <3>1
    <3>5. L * (n * u) \in Int
      <4>1. n * u \in Int BY <3>1
      <4> HIDE DEF L
      <4> QED BY <3>1, <4>1
    <3>6. s * u <= All /\ All < (s + L * n) * u
      <4>1. u * s <= All /\ All <= u * s + L * (n * (u - 1)) BY <2>2, <3>2 DEF n
      <4> QED BY <2>2, <3>3, <3>4, <3>5, <4>1
    <3> QED BY <2>1, <2>3, <3>6 DEF L, n, u
  <2>4. CASE program # "loop"
    <3>1. Divisor = 1 BY <2>4 DEF Divisor
    <3> QED BY <2>1, <2>2, <2>4, <3>1, Sizes
  <2> QED BY <2>3, <2>4
<1>9. ASSUME \A r \in Rows : Fits(r), program # "bandwidth", Sum(means', LoopIter) < IntHalf
      PROVE  /\ popMean' * (LoopIter * Whole) <= All
             /\ All < (popMean' + (2 + Slack)) * (LoopIter * Whole)
  <2>1. means' = [r \in Rows |-> RowMean(r)] /\ Height = LoopIter
    BY <1>1, <1>9 DEF Rows, Height
  <2>2. m < IntHalf BY <1>9, <2>1
  <2> HIDE DEF m
  <2>3. /\ PopMean * (LoopIter * Whole) <= All
        /\ All < (PopMean + (2 + Slack)) * (LoopIter * Whole)
    BY <1>1, <1>9, <2>2, PopMeanRoundsDown DEF m
  <2> QED BY <1>1, <2>3
<1>10. ReportRoundsDown'
  <2>1. All = Sum([r \in Rows' |-> True(r)'], Height') BY <1>2 DEF All
  <2> QED BY <1>1, <1>2, <1>7, <1>8, <1>9, <2>1, Zenon
          DEF ReportRoundsDown, Whole, Divisor, Slack
<1> QED BY <1>4, <1>5, <1>6, <1>10

\* The inductive invariant of Sampling holds in every reachable state.
THEOREM SamplingInvariance == SSpec => []SIInv
<1>1. SIInv /\ [SNext]_svars => SIInv'
  BY RoundInv, StoreInv, NextPhaseInv, MeasureTimeInv DEF SNext, Parent
<1> QED BY SInitInv, <1>1, PTL DEF SSpec

\* Every variable of the benchmarks has its type: a sample fits the table, whatever its
\* conversion makes of it, and a mean its unsigned integer.
THEOREM SamplingTypeCorrect == SSpec => []STypeOK
BY SamplingInvariance, PTL DEF SIInv

\* No child of an earlier round competes with the one that is timed, nor is one
\* left when the means are computed.
THEOREM OneChildAtATime == SSpec => []OneAtATime
<1>1. SIInv => OneAtATime BY DEF SIInv, ChildOK, OneAtATime
<1> QED BY <1>1, SamplingInvariance, PTL

\* The means, the overall sum and the mean of the means that are printed are about this
\* phase's samples, and rounded down by no more than their divisions lose.
THEOREM ReportsRoundDown == SSpec => []ReportRoundsDown
BY SamplingInvariance, PTL DEF SIInv
=============================================================================
