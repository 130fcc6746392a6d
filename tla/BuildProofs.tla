------------------------------ MODULE BuildProofs ------------------------------
(***************************************************************************)
(* Proofs about Build: for files of any size and any number of edits, no   *)
(* order of makes, cleans, edits and failures brings an older address back *)
(* after a clean, or leaves a folder with a short temp_file unless it was  *)
(* spoiled.                                                                *)
(***************************************************************************)
EXTENDS Build, TLAPS

\* What was compiled or linked is no older than the folder's last clean, and no
\* newer than the header.
AgeOK == \A f \in Folders :
           /\ cleaned[f] <= header
           /\ object[f] # None => object[f] >= cleaned[f]
           /\ binary[f] # None => binary[f] >= cleaned[f]

\* The folder has come past its head, and has not been cleaned since.
Built(f) == object[f] # None \/ binary[f] # None \/ pc[f] = "compile"

\* The file is large enough for a folder that was built, or will be when a make
\* that is writing it ends.
SizeOK == \A f \in Heads : Built(f) /\ f \notin spoiled =>
            temp >= Size[f] \/ \E g \in writers : Size[g] >= Size[f]

\* A run of pagefault that nothing has disturbed is covered.
RunOK == pagefault # "nothing" /\ ~disturbed => writers = {} /\ Covered

IInv == TypeOK /\ AgeOK /\ SizeOK /\ RunOK

-----------------------------------------------------------------------------
\* What the heads write.
LEMMA SizeType == /\ Size["mem"] = MemSize
                  /\ \A f \in Heads : Size[f] \in {MemSize, FsSize} /\ Size[f] \in Nat
BY BuildAssumption DEF Size, Heads

\* The larger of two sizes.
LEMMA MaxOfTwo == ASSUME NEW a \in Int, NEW b \in Int
                  PROVE  Max({a, b}) \in {a, b} /\ Max({a, b}) >= a /\ Max({a, b}) >= b
<1>1. \E x \in {a, b} : \A y \in {a, b} : x >= y
  <2>1. CASE a >= b BY <2>1
  <2>2. CASE b >= a BY <2>2
  <2> QED BY <2>1, <2>2
<1> QED BY <1>1 DEF Max

\* The sizes of files and the ages of objects are numbers.
LEMMA Numbers == ASSUME TypeOK
                 PROVE  /\ temp \in Int /\ orphan \in Int /\ header \in 0..MaxEdits
                        /\ \A f \in Folders : /\ object[f] \in None..MaxEdits
                                              /\ binary[f] \in None..MaxEdits
                                              /\ cleaned[f] \in 0..MaxEdits
BY BuildAssumption DEF TypeOK, None

-----------------------------------------------------------------------------
\* The initial state satisfies the inductive invariant.
LEMMA InitIInv == Init => IInv
<1> SUFFICES ASSUME Init PROVE IInv
  OBVIOUS
<1> USE BuildAssumption DEF Init, Folders, Heads, None
<1>1. TypeOK
  <2>1. edited \subseteq Folders BY DEF Folders
  <2>2. /\ object \in [Folders -> None..MaxEdits]
        /\ binary \in [Folders -> None..MaxEdits]
        /\ cleaned \in [Folders -> 0..MaxEdits] /\ header \in 0..MaxEdits
    OBVIOUS
  <2>3. pc \in [Folders -> {"idle", "head", "writing", "compile", "link"}]
    OBVIOUS
  <2> QED BY <2>1, <2>2, <2>3 DEF TypeOK
<1>2. AgeOK BY DEF AgeOK
<1>3. SizeOK BY DEF SizeOK, Built
<1>4. RunOK BY DEF RunOK
<1> QED BY <1>1, <1>2, <1>3, <1>4 DEF IInv

\* The steps of a make that do not touch temp_file preserve it.
LEMMA MakeIInv == ASSUME IInv, NEW f \in Folders, Make(f) \/ Compile(f) \/ Link(f)
                  PROVE  IInv'
<1> USE Numbers DEF IInv, sources, history, run, Goto
<1>1. CASE Make(f)
  <2>1. /\ \E l \in {"link", "head", "compile"} :
              pc' = [pc EXCEPT ![f] = l] /\ (l = "compile" => f \notin Heads)
        /\ UNCHANGED <<header, edited, object, binary, temp, writers, pagefault,
                       orphan, cleaned, spoiled, disturbed>>
    BY <1>1 DEF Make
  <2>2. TypeOK' BY <2>1 DEF TypeOK
  <2>3. AgeOK' BY <2>1 DEF AgeOK
  <2>4. SizeOK' BY <2>1 DEF SizeOK, Built, TypeOK, Heads, Folders
  <2>5. RunOK' BY <2>1 DEF RunOK, Covered
  <2> QED BY <2>2, <2>3, <2>4, <2>5
<1>2. CASE Compile(f)
  <2>1. /\ pc[f] = "compile" /\ pc' = [pc EXCEPT ![f] = "link"]
        /\ object' = [object EXCEPT ![f] = header] /\ edited' = edited \ {f}
        /\ UNCHANGED <<header, binary, temp, writers, pagefault, orphan, cleaned,
                       spoiled, disturbed>>
    BY <1>2 DEF Compile
  <2>2. TypeOK' BY <2>1, BuildAssumption DEF TypeOK, None
  <2>3. AgeOK' BY <2>1 DEF AgeOK, TypeOK
  <2>4. SizeOK' BY <2>1 DEF SizeOK, Built, TypeOK, Heads, Folders
  <2>5. RunOK' BY <2>1 DEF RunOK, Covered
  <2> QED BY <2>2, <2>3, <2>4, <2>5
<1>3. CASE Link(f)
  <2>1. /\ pc[f] = "link" /\ pc' = [pc EXCEPT ![f] = "idle"]
        /\ binary' = IF object[f] = None THEN binary
                     ELSE [binary EXCEPT ![f] = object[f]]
        /\ UNCHANGED <<header, edited, object, temp, writers, pagefault, orphan,
                       cleaned, spoiled, disturbed>>
    BY <1>3 DEF Link
  <2>2. TypeOK' BY <2>1 DEF TypeOK
  <2>3. AgeOK' BY <2>1 DEF AgeOK, TypeOK
  <2>4. SizeOK' BY <2>1 DEF SizeOK, Built, TypeOK, Heads, Folders
  <2>5. RunOK' BY <2>1 DEF RunOK, Covered
  <2> QED BY <2>2, <2>3, <2>4, <2>5
<1> QED BY <1>1, <1>2, <1>3

\* A head preserves it: it spoils the file of a folder that needs more, and what
\* others wait for is written, or spoiled when it fails.
LEMMA HeadIInv == ASSUME IInv, NEW f \in Heads,
                         HeadStarts(f) \/ HeadEnds(f) \/ HeadFails(f)
                  PROVE  IInv'
<1> USE Numbers, SizeType DEF IInv, run, Goto
<1>0. f \in Folders BY DEF Heads, Folders
<1>1. CASE HeadStarts(f)
  <2>1. /\ pc[f] = "head" /\ pc' = [pc EXCEPT ![f] = "writing"]
        /\ temp' = 0 /\ writers' = writers \cup {f}
        /\ spoiled' = spoiled \cup {g \in Heads : Size[f] < Size[g]}
        /\ disturbed' = TRUE
        /\ UNCHANGED <<header, edited, object, binary, pagefault, orphan, cleaned>>
    BY <1>1 DEF HeadStarts, sources
  <2>2. TypeOK' BY <1>0, <2>1 DEF TypeOK
  <2>3. AgeOK' BY <2>1 DEF AgeOK
  <2>4. SizeOK'
    <3> SUFFICES ASSUME NEW g \in Heads, g \notin spoiled'
                 PROVE  \E h \in writers' : Size[h] >= Size[g]
      BY DEF SizeOK
    <3> QED BY <2>1
  <2>5. RunOK' BY <2>1 DEF RunOK
  <2> QED BY <2>2, <2>3, <2>4, <2>5
<1>2. CASE HeadEnds(f)
  <2>1. /\ pc[f] = "writing" /\ pc' = [pc EXCEPT ![f] = "compile"]
        /\ temp' = IF f \in writers THEN Max({temp, Size[f]}) ELSE temp
        /\ spoiled' = IF f \in writers THEN spoiled \ {f} ELSE spoiled \cup {f}
        /\ writers' = writers \ {f}
        /\ UNCHANGED <<header, edited, object, binary, pagefault, orphan, cleaned,
                       disturbed>>
    BY <1>2 DEF HeadEnds, sources
  <2>2. /\ temp' \in {temp, Size[f]} /\ temp' >= temp
        /\ f \in writers => temp' >= Size[f]
    <3>1. temp \in Int /\ Size[f] \in Int OBVIOUS
    <3>2. LET m == Max({temp, Size[f]})
          IN  m \in {temp, Size[f]} /\ m >= temp /\ m >= Size[f]
      BY <3>1, MaxOfTwo
    <3>3. CASE f \in writers BY <2>1, <3>2, <3>3
    <3>4. CASE f \notin writers BY <2>1, <3>1, <3>4
    <3> QED BY <3>3, <3>4
  <2>3. TypeOK' BY <1>0, <2>1, <2>2 DEF TypeOK
  <2>4. AgeOK' BY <2>1 DEF AgeOK
  <2>5. SizeOK'
    <3> SUFFICES ASSUME NEW g \in Heads, Built(g)', g \notin spoiled'
                 PROVE  temp' >= Size[g] \/ \E h \in writers' : Size[h] >= Size[g]
      BY DEF SizeOK
    <3>1. CASE g = f BY <2>1, <2>2, <3>1
    <3>2. CASE g # f
      <4>1. Built(g) /\ g \notin spoiled
        BY <1>0, <2>1, <3>2 DEF Built, TypeOK
      <4>2. CASE temp >= Size[g] BY <2>2, <2>3, <4>2
      <4>3. CASE \E h \in writers : Size[h] >= Size[g]
        <5> PICK h \in writers : Size[h] >= Size[g] BY <4>3
        <5>1. CASE h = f BY <2>2, <2>3, <5>1
        <5>2. CASE h # f BY <2>1, <5>2
        <5> QED BY <5>1, <5>2
      <4> QED BY <4>1, <4>2, <4>3 DEF SizeOK
    <3> QED BY <3>1, <3>2
  <2>6. RunOK'
    <3> SUFFICES ASSUME pagefault' # "nothing", ~disturbed'
                 PROVE  writers' = {} /\ Covered'
      BY DEF RunOK
    <3>1. pagefault # "nothing" /\ ~disturbed BY <2>1
    <3>2. writers = {} /\ Covered BY <3>1 DEF RunOK
    <3>3. temp' = temp /\ writers' = {} BY <2>1, <3>2
    <3> QED BY <2>1, <3>2, <3>3 DEF Covered
  <2> QED BY <2>3, <2>4, <2>5, <2>6
<1>3. CASE HeadFails(f)
  <2>1. /\ pc[f] = "writing" /\ pc' = [pc EXCEPT ![f] = "idle"]
        /\ writers' = writers \ {f}
        /\ spoiled' = IF f \in writers THEN Heads ELSE spoiled
        /\ UNCHANGED <<header, edited, object, binary, temp, pagefault, orphan,
                       cleaned, disturbed>>
    BY <1>3 DEF HeadFails, sources
  <2>2. TypeOK' BY <1>0, <2>1 DEF TypeOK
  <2>3. AgeOK' BY <2>1 DEF AgeOK
  <2>4. SizeOK'
    <3> SUFFICES ASSUME NEW g \in Heads, Built(g)', g \notin spoiled'
                 PROVE  temp' >= Size[g] \/ \E h \in writers' : Size[h] >= Size[g]
      BY DEF SizeOK
    <3>1. f \notin writers /\ writers' = writers /\ g \notin spoiled BY <2>1
    <3>2. Built(g) BY <1>0, <2>1 DEF Built, TypeOK
    <3> QED BY <2>1, <3>1, <3>2 DEF SizeOK
  <2>5. RunOK' BY <2>1 DEF RunOK, Covered
  <2> QED BY <2>2, <2>3, <2>4, <2>5
<1> QED BY <1>1, <1>2, <1>3

\* A clean preserves it: it takes every program away, and the file from all the
\* folders that do not write it again. What is mapped keeps its size.
LEMMA CleanIInv == ASSUME IInv, NEW f \in Folders, Clean(f) PROVE IInv'
<1> USE Numbers, SizeType DEF IInv
<1>1. /\ object' = [object EXCEPT ![f] = None] /\ binary' = [g \in Folders |-> None]
      /\ temp' = None /\ writers' = {}
      /\ cleaned' = [cleaned EXCEPT ![f] = header]
      /\ spoiled' = spoiled \cup {g \in Heads : g # f \/ pc[g] # "idle"}
      /\ UNCHANGED <<pc, header, edited, disturbed>>
  BY DEF Clean, Removed, sources
<1>2. \/ /\ pagefault = "present" /\ pagefault' = "removed"
         /\ orphan' \in {temp} \cup {Size[g] : g \in writers}
      \/ pagefault # "present" /\ UNCHANGED <<pagefault, orphan>>
  BY DEF Clean, Removed, run
<1>3. TypeOK'
  <2>1. orphan' \in {None, 0, MemSize, FsSize} BY <1>2 DEF TypeOK
  <2>2. /\ object' \in [Folders -> None..MaxEdits]
        /\ binary' \in [Folders -> None..MaxEdits]
        /\ cleaned' \in [Folders -> 0..MaxEdits]
    BY <1>1, BuildAssumption DEF TypeOK, None
  <2> QED BY <1>1, <1>2, <2>1, <2>2 DEF TypeOK
<1>4. AgeOK' BY <1>1 DEF AgeOK, TypeOK
<1>5. SizeOK'
  <2> SUFFICES ASSUME NEW g \in Heads, g \notin spoiled' PROVE ~Built(g)'
    BY DEF SizeOK
  <2>1. g = f /\ pc[g] = "idle" BY <1>1
  <2> QED BY <1>1, <2>1 DEF Built, TypeOK
<1>6. RunOK' BY <1>1, <1>2 DEF RunOK, Covered
<1> QED BY <1>3, <1>4, <1>5, <1>6

\* Edits preserve it: the header only gets newer.
LEMMA EditIInv == ASSUME IInv, EditHeader \/ (\E f \in Folders : EditSource(f)) PROVE IInv'
<1> USE Numbers DEF IInv, run, history
<1>1. /\ header' \in {header, header + 1} /\ header' \in 0..MaxEdits
      /\ edited' \subseteq Folders
      /\ UNCHANGED <<pc, object, binary, temp, writers, pagefault, orphan, cleaned,
                     spoiled, disturbed>>
  BY BuildAssumption DEF EditHeader, EditSource, TypeOK
<1>2. TypeOK' BY <1>1 DEF TypeOK
<1>3. AgeOK' BY <1>1 DEF AgeOK
<1>4. SizeOK' BY <1>1 DEF SizeOK, Built
<1>5. RunOK' BY <1>1 DEF RunOK, Covered
<1> QED BY <1>2, <1>3, <1>4, <1>5

\* A run of pagefault preserves it: a program that is there was built, and its
\* folder's file is at least as large as what it maps.
LEMMA RunIInv == ASSUME IInv, Map \/ AdviceFails \/ Touch \/ TouchFails PROVE IInv'
<1> USE Numbers DEF IInv, sources
<1>1. UNCHANGED <<pc, header, edited, object, binary, temp, writers, cleaned, spoiled>>
  BY DEF Map, AdviceFails, Touch, TouchFails, TouchEnds
<1>2. TypeOK' BY <1>1 DEF Map, AdviceFails, Touch, TouchFails, TouchEnds, TypeOK
<1>3. AgeOK' BY <1>1 DEF AgeOK
<1>4. SizeOK' BY <1>1 DEF SizeOK, Built
<1>5. RunOK'
  <2>1. CASE Map
    <3> SUFFICES ASSUME "mem" \notin spoiled, writers = {} PROVE temp >= Mapped
      BY <1>1, <2>1, BuildAssumption DEF Map, RunOK, Covered
    <3>1. "mem" \in Heads /\ Built("mem") BY <2>1 DEF Map, Built, Heads
    <3>2. temp >= MemSize BY <3>1, SizeType DEF SizeOK
    <3> QED BY <3>2, BuildAssumption
  <2>2. CASE AdviceFails \/ Touch \/ TouchFails
    BY <2>2 DEF AdviceFails, Touch, TouchFails, TouchEnds, RunOK
  <2> QED BY <2>1, <2>2
<1> QED BY <1>2, <1>3, <1>4, <1>5

\* The inductive invariant holds in every reachable state.
THEOREM Invariance == Spec => []IInv
<1>1. IInv /\ UNCHANGED vars => IInv'
  BY DEF IInv, TypeOK, AgeOK, SizeOK, Built, RunOK, Covered,
         vars, sources, history, run
<1>2. IInv /\ [Next]_vars => IInv'
  BY <1>1, MakeIInv, HeadIInv, CleanIInv, EditIInv, RunIInv DEF Next
<1> QED BY InitIInv, <1>2, PTL DEF Spec

-----------------------------------------------------------------------------
\* The variables keep their types: temp_file never has a size nobody wrote.
THEOREM TypeCorrect == Spec => []TypeOK
BY Invariance, PTL DEF IInv

\* After a clean of its folder no program has an older address.
THEOREM Fresh == Spec => []FreshSinceClean
<1>1. IInv => FreshSinceClean BY DEF IInv, AgeOK, FreshSinceClean
<1> QED BY <1>1, Invariance, PTL

\* A built folder has its file unless it was spoiled, and an undisturbed run of
\* pagefault is not killed.
THEOREM FileIsEnough == Spec => []EnoughFile
<1>1. IInv => EnoughFile BY DEF IInv, SizeOK, Built, RunOK, EnoughFile
<1> QED BY <1>1, Invariance, PTL
=============================================================================
