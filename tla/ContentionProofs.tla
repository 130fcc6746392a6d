---------------------------- MODULE ContentionProofs ----------------------------
(***************************************************************************)
(* Proofs about Contention: for any number of waves and files of any size, *)
(* only a reader that met another one of its file hits the page cache.     *)
(***************************************************************************)
EXTENDS Contention, TLAPS

\* A wave has no readers before it is launched: the file that cat writes is
\* nobody's.
LaunchOK == \A p \in Readers :
              pc[p] # "none" => \/ p[1] < wave
                                \/ p[1] = wave /\ spc \notin {"make", "launch"}

\* Turns are counted from the first read() to the last.
TurnOK == \A p \in Readers : /\ pc[p] \in {"none", "drop", "open", "advise"} => turn[p] = 0
                             /\ pc[p] = "read" => turn[p] < Turns

\* Two readers that read one file at the same time have met.
MetOK == \A p, q \in Readers :
           p # q /\ File(p) = File(q) /\ pc[p] = "read" /\ pc[q] = "read" => p \in met

\* A reader that has met nobody finds no block in the cache that it has not read.
ColdOK == \A p \in Readers :
            pc[p] = "read" /\ p \notin met => \A b \in cache[File(p)] : b < turn[p]

IInv == TypeOK /\ LaunchOK /\ TurnOK /\ MetOK /\ ColdOK /\ ColdAlone

-----------------------------------------------------------------------------
\* A reader's file is one of the script's.
LEMMA FileType == \A p \in Readers : File(p) \in Files /\ p[1] \in Files /\ p[2] <= p[1]
BY ContentionAssumption DEF Readers, File, Files

\* Steps that start no reading, fill no cache and take nobody's meeting back
\* preserve that readers who met nobody have cold files.
LEMMA ColdPreserved ==
  ASSUME IInv, UNCHANGED <<turn, hits>>, met \subseteq met',
         \A p \in Readers : pc'[p] = "read" => pc[p] = "read",
         \A p \in Readers : pc[p] = "read" => cache'[File(p)] \subseteq cache[File(p)]
  PROVE  MetOK' /\ ColdOK' /\ ColdAlone'
BY DEF IInv, MetOK, ColdOK, ColdAlone, File

-----------------------------------------------------------------------------
\* The initial state satisfies the inductive invariant.
LEMMA InitIInv == Init => IInv
<1> SUFFICES ASSUME Init PROVE IInv
  OBVIOUS
<1>1. TypeOK BY ContentionAssumption DEF Init, TypeOK, Files
<1> QED BY <1>1, ContentionAssumption
        DEF Init, IInv, LaunchOK, TurnOK, MetOK, ColdOK, ColdAlone

\* The steps of the script preserve it.
LEMMA ScriptIInv == ASSUME IInv, Script PROVE IInv'
<1> USE DEF IInv, seen, script
<1>1. CASE MakeFile
  <2>1. /\ spc = "make" /\ spc' = "launch" /\ cache' = [cache EXCEPT ![wave] = Blocks]
        /\ exists' = exists \cup {wave}
        /\ UNCHANGED <<wave, pc, opened, turn, hits, met>>
    BY <1>1 DEF MakeFile
  <2>2. TypeOK' BY <2>1 DEF TypeOK
  <2>3. ASSUME NEW p \in Readers, pc[p] = "read"
        PROVE  cache'[File(p)] = cache[File(p)]
    <3>1. p[1] < wave BY <2>1, <2>3 DEF LaunchOK
    <3>2. File(p) # wave
      BY <3>1, FileType DEF File, TypeOK, Files
    <3> QED BY <2>1, <3>2, FileType DEF TypeOK
  <2>4. MetOK' /\ ColdOK' /\ ColdAlone' BY <2>1, <2>3, ColdPreserved
  <2> QED BY <2>1, <2>2, <2>4 DEF LaunchOK, TurnOK
<1>2. CASE Launch
  <2>1. /\ spc = "launch" /\ spc' = "sleep"
        /\ pc' = [p \in Readers |-> IF p[1] = wave THEN "drop" ELSE pc[p]]
        /\ UNCHANGED <<wave, exists, opened, turn, hits, met, cache>>
    BY <1>2 DEF Launch
  <2>2. TypeOK' BY <2>1 DEF TypeOK
  <2>3. MetOK' /\ ColdOK' /\ ColdAlone' BY <2>1, ColdPreserved
  <2>4. TurnOK'
    <3>1. \A p \in Readers : p[1] = wave => pc[p] = "none"
      BY <2>1, FileType, ContentionAssumption DEF LaunchOK, TypeOK, Files
    <3> QED BY <2>1, <3>1 DEF TurnOK
  <2> QED BY <2>1, <2>2, <2>3, <2>4 DEF LaunchOK
<1>3. CASE Sleep
  <2>1. /\ spc = "sleep" /\ UNCHANGED <<exists, pc, opened, turn, hits, met, cache>>
        /\ \/ wave < Waves /\ spc' = "make" /\ wave' = wave + 1
           \/ spc' = "clean" /\ wave' = wave
    BY <1>3 DEF Sleep
  <2>2. TypeOK' BY <2>1, ContentionAssumption DEF TypeOK, Files
  <2>3. MetOK' /\ ColdOK' /\ ColdAlone' BY <2>1, ColdPreserved
  <2>4. LaunchOK'
    BY <2>1, FileType, ContentionAssumption DEF LaunchOK, TypeOK, Files
  <2> QED BY <2>1, <2>2, <2>3, <2>4 DEF TurnOK
<1>4. CASE Remove
  <2>1. /\ spc = "clean" /\ spc' \in {"end", "clean"} /\ exists' \subseteq exists
        /\ UNCHANGED <<wave, pc, opened, turn, hits, met, cache>>
    BY <1>4 DEF Remove
  <2>2. TypeOK' BY <2>1 DEF TypeOK
  <2>3. MetOK' /\ ColdOK' /\ ColdAlone' BY <2>1, ColdPreserved
  <2> QED BY <2>1, <2>2, <2>3 DEF LaunchOK, TurnOK
<1> QED BY <1>1, <1>2, <1>3, <1>4 DEF Script

\* The steps of a reader before and after its reading preserve it.
LEMMA OutsideIInv ==
  ASSUME IInv, NEW p \in Readers,
         DropCaches(p) \/ DropFails(p) \/ Open(p) \/ AdviceFails(p) \/ Append(p)
  PROVE  IInv'
<1>1. /\ pc[p] \in {"drop", "open", "advise", "append"}
      /\ \E l \in {"open", "gone", "advise", "append"} :
           /\ pc' = [pc EXCEPT ![p] = l]
           /\ l \in {"open", "advise"} => pc[p] \in {"drop", "open"}
      /\ opened' \in {opened, opened \cup {p}}
      /\ cache' \in {cache, [f \in Files |-> {}]}
      /\ UNCHANGED <<spc, wave, exists, turn, hits, met>>
  BY DEF DropCaches, DropFails, Open, AdviceFails, Append, script, seen
<1>2. TypeOK' BY <1>1 DEF IInv, TypeOK
<1>3. LaunchOK' /\ TurnOK' BY <1>1 DEF IInv, LaunchOK, TurnOK, TypeOK
<1>4. MetOK' /\ ColdOK' /\ ColdAlone'
  <2>1. \A q \in Readers : pc'[q] = "read" => pc[q] = "read"
    BY <1>1 DEF IInv, TypeOK
  <2>2. \A q \in Readers : cache'[File(q)] \subseteq cache[File(q)]
    BY <1>1, FileType DEF IInv, TypeOK
  <2> QED BY <1>1, <2>1, <2>2, ColdPreserved
<1> QED BY <1>2, <1>3, <1>4 DEF IInv

\* The advice preserves it: the reader begins with a cold file, and whoever reads
\* the file already has met it.
LEMMA AdviseIInv == ASSUME IInv, NEW p \in Readers, Advise(p) PROVE IInv'
<1>1. /\ pc[p] = "advise" /\ pc' = [pc EXCEPT ![p] = "read"]
      /\ cache' = [cache EXCEPT ![File(p)] = {}]
      /\ met' = IF Others(p) = {} THEN met ELSE met \cup {p} \cup Others(p)
      /\ UNCHANGED <<spc, wave, exists, opened, turn, hits>>
  BY DEF Advise, script
<1>2. Others(p) \subseteq Readers BY DEF Others
<1>3. TypeOK' BY <1>1, <1>2, FileType DEF IInv, TypeOK
<1>4. LaunchOK' BY <1>1 DEF IInv, LaunchOK, TypeOK
<1>5. TurnOK' BY <1>1, ContentionAssumption DEF IInv, TurnOK, TypeOK
<1>6. MetOK'
  <2> SUFFICES ASSUME NEW q \in Readers, NEW r \in Readers, q # r, File(q) = File(r),
                      pc'[q] = "read", pc'[r] = "read"
               PROVE  q \in met'
    BY DEF MetOK, File
  <2>1. CASE q = p
    <3>1. r \in Others(p) BY <1>1, <2>1 DEF IInv, TypeOK, Others
    <3> QED BY <1>1, <2>1, <3>1
  <2>2. CASE r = p
    <3>1. q \in Others(p) BY <1>1, <2>2 DEF IInv, TypeOK, Others
    <3> QED BY <1>1, <3>1
  <2>3. CASE q # p /\ r # p
    BY <1>1, <2>3 DEF IInv, TypeOK, MetOK
  <2> QED BY <2>1, <2>2, <2>3
<1>7. ColdOK'
  <2> SUFFICES ASSUME NEW q \in Readers, pc'[q] = "read", q \notin met',
                      NEW b \in cache'[File(q)]
               PROVE  b < turn'[q]
    BY DEF ColdOK, File
  <2>1. File(q) # File(p) BY <1>1, FileType DEF IInv, TypeOK
  <2>2. q # p /\ b \in cache[File(q)] /\ pc[q] = "read" /\ q \notin met
    BY <1>1, <2>1, FileType DEF IInv, TypeOK
  <2> QED BY <1>1, <2>2 DEF IInv, ColdOK
<1>8. ColdAlone' BY <1>1 DEF IInv, ColdAlone
<1> QED BY <1>3, <1>4, <1>5, <1>6, <1>7, <1>8 DEF IInv

\* A read preserves it: a reader that met nobody misses, and leaves only blocks
\* behind that it has read.
LEMMA ReadIInv == ASSUME IInv, NEW p \in Readers, ReadBlock(p) PROVE IInv'
<1> DEFINE t == turn[p]
<1>1. /\ pc[p] = "read" /\ turn' = [turn EXCEPT ![p] = t + 1]
      /\ pc' = [pc EXCEPT ![p] = IF t + 1 = Turns THEN "append" ELSE "read"]
      /\ UNCHANGED <<spc, wave, exists, opened, met>>
  BY DEF ReadBlock, script
<1>2. \/ /\ t \in Blocks /\ cache' = [cache EXCEPT ![File(p)] = @ \cup {t}]
         /\ hits' = IF t \in cache[File(p)] THEN hits \cup {p} ELSE hits
      \/ UNCHANGED <<hits, cache>>
  BY ContentionAssumption DEF ReadBlock, Blocks, IInv, TypeOK
<1>3. t \in 0..(Turns - 1) BY <1>1, ContentionAssumption DEF IInv, TypeOK, TurnOK
<1>4. TypeOK'
  <2>1. turn' \in [Readers -> 0..Turns] BY <1>1, <1>3, ContentionAssumption DEF IInv, TypeOK
  <2>2. cache' \in [Files -> SUBSET Blocks] /\ hits' \subseteq Readers
    BY <1>2, FileType DEF IInv, TypeOK
  <2> QED BY <1>1, <2>1, <2>2 DEF IInv, TypeOK
<1>5. LaunchOK' BY <1>1 DEF IInv, LaunchOK, TypeOK
<1>6. TurnOK'
  <2> SUFFICES ASSUME NEW q \in Readers
               PROVE  /\ pc'[q] \in {"none", "drop", "open", "advise"} => turn'[q] = 0
                      /\ pc'[q] = "read" => turn'[q] < Turns
    BY DEF TurnOK
  <2>1. CASE q = p BY <1>1, <1>3, <2>1, ContentionAssumption DEF IInv, TypeOK
  <2>2. CASE q # p BY <1>1, <2>2 DEF IInv, TypeOK, TurnOK
  <2> QED BY <2>1, <2>2
<1>7. MetOK' BY <1>1 DEF IInv, TypeOK, MetOK, File
<1>8. ASSUME NEW q \in Readers, pc[q] = "read", q \notin met, q # p
      PROVE  cache'[File(q)] = cache[File(q)] /\ turn'[q] = turn[q]
  <2>1. File(q) # File(p) BY <1>1, <1>8 DEF IInv, MetOK
  <2> QED BY <1>1, <1>2, <1>8, <2>1, FileType DEF IInv, TypeOK
<1>9. ColdOK'
  <2> SUFFICES ASSUME NEW q \in Readers, pc'[q] = "read", q \notin met',
                      NEW b \in cache'[File(q)]
               PROVE  b < turn'[q]
    BY DEF ColdOK, File
  <2>1. pc[q] = "read" /\ q \notin met BY <1>1 DEF IInv, TypeOK
  <2>2. CASE q = p
    <3>1. b \in cache[File(p)] \cup {t} BY <1>2, <2>2, FileType DEF IInv, TypeOK
    <3>2. b \in cache[File(p)] => b < t BY <2>1, <2>2 DEF IInv, ColdOK
    <3>3. cache[File(p)] \subseteq Blocks BY FileType DEF IInv, TypeOK
    <3>4. turn'[p] = t + 1 BY <1>1 DEF IInv, TypeOK
    <3> QED BY <1>3, <2>2, <3>1, <3>2, <3>3, <3>4, ContentionAssumption DEF Blocks
  <2>3. CASE q # p BY <1>8, <2>1, <2>3 DEF IInv, ColdOK
  <2> QED BY <2>2, <2>3
<1>10. ColdAlone'
  <2>1. t \in cache[File(p)] => p \in met
    BY <1>1, <1>3 DEF IInv, ColdOK
  <2> QED BY <1>1, <1>2, <2>1 DEF IInv, ColdAlone
<1> QED BY <1>4, <1>5, <1>6, <1>7, <1>9, <1>10 DEF IInv

\* The inductive invariant holds in every reachable state.
THEOREM Invariance == Spec => []IInv
<1>1. IInv /\ UNCHANGED vars => IInv'
  BY DEF IInv, TypeOK, LaunchOK, TurnOK, MetOK, ColdOK, ColdAlone, File, vars
<1>2. IInv /\ [Next]_vars => IInv'
  BY <1>1, ScriptIInv, OutsideIInv, AdviseIInv, ReadIInv DEF Next, Reader
<1> QED BY InitIInv, <1>2, PTL DEF Spec

-----------------------------------------------------------------------------
\* The variables keep their types: no reader takes a turn too many.
THEOREM TypeCorrect == Spec => []TypeOK
BY Invariance, PTL DEF IInv

\* A reader that is alone on its file reads all of it from the disk, however many
\* waves overtake each other.
THEOREM AloneIsCold == Spec => []ColdAlone
BY Invariance, PTL DEF IInv
=============================================================================
