------------------------- MODULE FileCacheSizeProofs -------------------------
(***************************************************************************)
(* Proofs about FileCacheSize: for any capacity, any sizes and any number  *)
(* of samples, and whatever other processes have read into the cache, a    *)
(* timed pass misses never or always.  The second half is about the other  *)
(* benchmark whose subject is a cache, MemAccess: for any array sizes and  *)
(* strides, its chase reaches as many elements as it can.                  *)
(***************************************************************************)
EXTENDS FileCacheSize, MemAccess, SequenceTheorems, FiniteSetTheorems, WellFoundedInduction, TLAPS

\* How many blocks this sample has used so far, in its two passes.
Used == (IF timed THEN Size ELSE 0) + (IF pc = "read" THEN i ELSE 0)

\* The block that was used after v others.
Block(v) == IF v < Size THEN v ELSE v - Size

\* The offset is where the pass is, which ends with the size.
PassOK == /\ pc = "read" => i <= Size
          /\ pc = "start" => ~timed

\* The last element but m - 1 is the block used m uses ago, as far back as the
\* sample, the cache and the size go.
Recent == \A m \in 1..Used : m <= Capacity /\ m <= Size =>
            m <= Len(cache) /\ cache[Len(cache) - m + 1] = Block(Used - m)

LRU == opened /\ Size <= FileBlocks /\ pc \in {"seek", "read"} =>
         /\ pc = "read" => pos = i
         /\ Recent

IInv == TypeOK /\ PassOK /\ LRU /\ StepAtCapacity

-----------------------------------------------------------------------------
\* A sequence without its n-th element.
LEMMA RemoveAtProperties ==
  ASSUME NEW S, NEW s \in Seq(S), NEW n \in 1..Len(s)
  PROVE  /\ RemoveAt(s, n) \in Seq(S) /\ Len(RemoveAt(s, n)) = Len(s) - 1
         /\ \A m \in 1..(Len(s) - 1) :
              RemoveAt(s, n)[m] = IF m < n THEN s[m] ELSE s[m + 1]
<1> DEFINE front == SubSeq(s, 1, n - 1)
           back == SubSeq(s, n + 1, Len(s))
<1>1. Len(s) \in Nat /\ n \in Int /\ \A m \in 1..Len(s) : s[m] \in S
  OBVIOUS
<1>2. /\ front \in Seq(S) /\ Len(front) = n - 1
      /\ \A m \in 1..(n - 1) : front[m] = s[m]
  <2>1. /\ front \in Seq(S)
        /\ Len(front) = IF 1 <= n - 1 THEN (n - 1) - 1 + 1 ELSE 0
        /\ \A m \in 1..((n - 1) - 1 + 1) : front[m] = s[1 + m - 1]
    BY <1>1, SubSeqProperties
  <2> QED BY <1>1, <2>1
<1>3. /\ back \in Seq(S) /\ Len(back) = Len(s) - n
      /\ \A m \in 1..(Len(s) - n) : back[m] = s[n + m]
  <2>1. /\ back \in Seq(S)
        /\ Len(back) = IF n + 1 <= Len(s) THEN Len(s) - (n + 1) + 1 ELSE 0
        /\ \A m \in 1..(Len(s) - (n + 1) + 1) : back[m] = s[(n + 1) + m - 1]
    BY <1>1, SubSeqProperties
  <2> QED BY <1>1, <2>1
<1>4. RemoveAt(s, n) = front \o back BY DEF RemoveAt
<1> HIDE DEF front, back
<1>5. /\ front \o back \in Seq(S) /\ Len(front \o back) = Len(front) + Len(back)
      /\ \A m \in 1..(Len(front) + Len(back)) :
           (front \o back)[m] = IF m <= Len(front) THEN front[m] ELSE back[m - Len(front)]
  BY <1>2, <1>3, ConcatProperties
<1> QED BY <1>1, <1>2, <1>3, <1>4, <1>5

\* Removing from a sequence without repetitions.
LEMMA RemoveFirstProperties ==
  ASSUME NEW S, NEW s \in Seq(S), IsInjective(s), NEW b
  PROVE  \/ RemoveFirst(s, b) = s /\ \A n \in 1..Len(s) : s[n] # b
         \/ \E n \in 1..Len(s) : s[n] = b /\ RemoveFirst(s, b) = RemoveAt(s, n)
<1>1. CASE \A n \in 1..Len(s) : s[n] # b BY <1>1 DEF RemoveFirst
<1>2. ASSUME NEW n \in 1..Len(s), s[n] = b
      PROVE  RemoveFirst(s, b) = RemoveAt(s, n)
  <2>1. {m \in 1..Len(s) : s[m] = b} = {n} BY <1>2 DEF IsInjective
  <2>2. Min({n}) = n BY DEF Min
  <2>3. SelectInSeq(s, LAMBDA v : v = b) = n BY <2>1, <2>2 DEF SelectInSeq
  <2> QED BY <1>2, <2>3 DEF RemoveFirst
<1> QED BY <1>1, <1>2

\* A block is used: it becomes the cache's last, and the blocks after its old place
\* stay where they are, counted from the end.
LEMMA UseProperties ==
  ASSUME cache \in Seq(Blocks), IsInjective(cache), Len(cache) <= Capacity,
         NEW b \in Blocks
  PROVE  /\ Use(b) \in Seq(Blocks) /\ IsInjective(Use(b))
         /\ Len(Use(b)) \in 1..Capacity /\ Use(b)[Len(Use(b))] = b
         /\ \A m \in 1..Len(cache) :
              m < Capacity /\ (\A h \in 1..m : cache[Len(cache) - h + 1] # b) =>
                /\ m + 1 <= Len(Use(b))
                /\ Use(b)[Len(Use(b)) - m] = cache[Len(cache) - m + 1]
<1> DEFINE L == Len(cache)
           rest == RemoveFirst(cache, b)
           used == Use(b)
<1>1. L \in 0..Capacity /\ Capacity \in Nat \ {0}
  BY CacheAssumption
<1>2. \A n \in 1..L : cache[n] \in Blocks
  OBVIOUS
<1>3. \A n, m \in 1..L : cache[n] = cache[m] => n = m
  BY DEF IsInjective
<1>4. CASE rest = cache /\ (\A n \in 1..L : cache[n] # b) /\ L < Capacity
  <2>1. used = Append(cache, b) BY <1>4 DEF Use
  <2> HIDE DEF L, used
  <2>2. /\ used \in Seq(Blocks) /\ Len(used) = L + 1
        /\ used[L + 1] = b /\ \A n \in 1..L : used[n] = cache[n]
    BY <2>1, AppendProperties DEF L
  <2>3. IsInjective(used) BY <1>1, <1>3, <1>4, <2>2 DEF IsInjective
  <2> QED BY <1>1, <1>4, <2>2, <2>3 DEF L, used
<1>5. CASE rest = cache /\ (\A n \in 1..L : cache[n] # b) /\ L = Capacity
  <2>1. used = Append(Tail(cache), b) BY <1>5 DEF Use
  <2>2. cache # <<>> BY <1>1, <1>5
  <2>3. /\ Tail(cache) \in Seq(Blocks) /\ Len(Tail(cache)) = L - 1
        /\ \A n \in 1..(L - 1) : Tail(cache)[n] = cache[n + 1]
    BY <2>2, HeadTailProperties
  <2> HIDE DEF L, used
  <2>4. /\ used \in Seq(Blocks) /\ Len(used) = L
        /\ used[L] = b /\ \A n \in 1..(L - 1) : used[n] = cache[n + 1]
    BY <1>1, <2>1, <2>3, AppendProperties
  <2>5. IsInjective(used)
    <3> SUFFICES ASSUME NEW x \in 1..L, NEW y \in 1..L, used[x] = used[y] PROVE x = y
      BY <2>4 DEF IsInjective
    <3>1. \A m \in 1..L : m < L => m + 1 \in 1..L /\ used[m] = cache[m + 1]
      BY <1>1, <2>4
    <3>2. CASE x = L \/ y = L BY <1>1, <1>5, <2>4, <3>1, <3>2
    <3>3. CASE x < L /\ y < L
      <4>1. x + 1 = y + 1 BY <1>3, <3>1, <3>3
      <4> QED BY <1>1, <4>1
    <3> QED BY <1>1, <3>2, <3>3
  <2> QED BY <1>1, <1>5, <2>4, <2>5 DEF L, used
<1>6. ASSUME NEW n \in 1..L, cache[n] = b, rest = RemoveAt(cache, n)
      PROVE  /\ used \in Seq(Blocks) /\ IsInjective(used)
             /\ Len(used) \in 1..Capacity /\ used[Len(used)] = b
             /\ \A m \in 1..L :
                  m < Capacity /\ (\A h \in 1..m : cache[L - h + 1] # b) =>
                    m + 1 <= Len(used) /\ used[Len(used) - m] = cache[L - m + 1]
  <2>1. /\ rest \in Seq(Blocks) /\ Len(rest) = L - 1
        /\ \A m \in 1..(L - 1) : rest[m] = IF m < n THEN cache[m] ELSE cache[m + 1]
    BY <1>6, RemoveAtProperties
  <2>2. used = Append(rest, b) BY <1>1, <2>1 DEF Use
  <2> HIDE DEF L, used, rest
  <2>3. /\ used \in Seq(Blocks) /\ Len(used) = L /\ used[L] = b
        /\ \A m \in 1..(L - 1) : used[m] = IF m < n THEN cache[m] ELSE cache[m + 1]
    BY <1>1, <2>1, <2>2, AppendProperties
  <2>4. IsInjective(used)
    <3> SUFFICES ASSUME NEW x \in 1..L, NEW y \in 1..L, used[x] = used[y] PROVE x = y
      BY <2>3 DEF IsInjective
    <3> DEFINE old(m) == IF m = L THEN n ELSE IF m < n THEN m ELSE m + 1
    <3>1. \A m \in 1..L : old(m) \in 1..L /\ used[m] = cache[old(m)]
      BY <1>1, <1>6, <2>3
    <3>2. old(x) = old(y) BY <1>3, <3>1
    <3> QED BY <1>1, <3>2
  <2>5. ASSUME NEW m \in 1..L, \A h \in 1..m : cache[L - h + 1] # b
        PROVE  m + 1 <= L /\ used[L - m] = cache[L - m + 1]
    <3>1. n <= L - m
      <4> SUFFICES ASSUME n > L - m PROVE FALSE
        BY <1>1
      <4>1. L - n + 1 \in 1..m /\ cache[L - (L - n + 1) + 1] = b BY <1>1, <1>6
      <4> QED BY <2>5, <4>1
    <3> QED BY <1>1, <2>3, <3>1
  <2> QED BY <1>1, <2>3, <2>4, <2>5
<1> QED
  <2>1. CASE rest = cache /\ \A n \in 1..L : cache[n] # b
    BY <1>1, <1>4, <1>5, <2>1
  <2>2. CASE \E n \in 1..L : cache[n] = b /\ rest = RemoveAt(cache, n)
    BY <1>6, <2>2
  <2> QED BY <2>1, <2>2, RemoveFirstProperties

-----------------------------------------------------------------------------
\* The sizes are numbers of blocks, and the sample and its size are within range.
LEMMA SizeType == ASSUME TypeOK PROVE Size \in Nat \ {0} /\ Len(Sizes) \in Nat
BY CacheAssumption DEF TypeOK, Size

\* The initial state satisfies the inductive invariant.
LEMMA InitIInv == Init => IInv
<1> SUFFICES ASSUME Init PROVE IInv
  OBVIOUS
<1>1. <<>> \in Seq(Blocks) /\ Len(<<>>) = 0 /\ DOMAIN <<>> = {}
  OBVIOUS
<1>2. IsInjective(<<>>) BY <1>1 DEF IsInjective
<1>3. Len(Sizes) \in Nat \ {0} BY CacheAssumption
<1>4. TypeOK
  <2>1. cache \in Seq(Blocks) /\ Len(cache) = 0 /\ IsInjective(cache)
    BY <1>1, <1>2 DEF Init
  <2>2. opened \in BOOLEAN /\ timed \in BOOLEAN BY Zenon DEF Init
  <2>3. 1 \in 1..Len(Sizes) /\ 0 \in 0..(Samples - 1) BY <1>3, CacheAssumption
  <2>4. /\ pc = "start" /\ k \in 1..Len(Sizes) /\ j \in 0..(Samples - 1)
        /\ i = 0 /\ pos = 0 /\ misses = 0 /\ empty = 0
    BY <2>3, Zenon DEF Init
  <2> QED BY <2>1, <2>2, <2>4, CacheAssumption DEF TypeOK
<1> QED BY <1>4 DEF Init, IInv, PassOK, LRU, StepAtCapacity

\* The steps between the passes preserve it: what the first pass has used is what
\* the second one finds, and nothing is said of the cache before the first.
LEMMA PassIInv == ASSUME IInv, Start \/ DropFails \/ Rewind \/ SecondPass \/ NextSample
                  PROVE  IInv'
<1> USE SizeType DEF IInv
<1>1. CASE Start
  <2>1. <<>> \in Seq(Blocks) /\ Len(<<>>) = 0 /\ IsInjective(<<>>)
    BY DEF IsInjective
  <2>2. TypeOK' BY <1>1, <2>1, CacheAssumption DEF Start, TypeOK
  <2>3. Used' = 0 /\ ~timed' /\ pc' = "seek" BY <1>1 DEF Start, PassOK, Used
  <2> QED BY <2>2, <2>3 DEF PassOK, LRU, Recent, StepAtCapacity
<1>2. CASE DropFails
  <2>1. TypeOK' BY <1>2 DEF DropFails, TypeOK
  <2> QED BY <1>2, <2>1 DEF DropFails, PassOK, LRU, StepAtCapacity
<1>3. CASE Rewind
  <2>1. /\ pc = "seek" /\ pc' = "read"
        /\ pos' = 0 /\ i' = 0 /\ misses' = 0 /\ empty' = 0
        /\ UNCHANGED <<opened, k, j, timed, cache, Size>>
    BY <1>3 DEF Rewind, Size
  <2>2. TypeOK' BY <2>1, CacheAssumption DEF TypeOK
  <2>3. PassOK' BY <2>1 DEF PassOK
  <2>4. Used' = Used BY <2>1 DEF Used
  <2>5. LRU' BY <2>1, <2>4 DEF LRU, Recent, Block
  <2>6. StepAtCapacity' BY <2>1 DEF StepAtCapacity
  <2> QED BY <2>2, <2>3, <2>5, <2>6
<1>4. CASE SecondPass
  <2>1. /\ pc = "read" /\ i >= Size /\ ~timed /\ timed' = TRUE /\ pc' = "seek"
        /\ UNCHANGED <<opened, k, j, i, pos, cache, misses, empty, Size>>
    BY <1>4 DEF SecondPass, PassOver, Size
  <2>2. TypeOK' BY <2>1 DEF TypeOK
  <2>3. PassOK' BY <2>1 DEF PassOK
  <2>4. Used' = Used BY <2>1 DEF Used, PassOK, TypeOK
  <2>5. LRU' BY <2>1, <2>4 DEF LRU, Recent, Block
  <2>6. StepAtCapacity' BY <2>1 DEF StepAtCapacity
  <2> QED BY <2>2, <2>3, <2>5, <2>6
<1>5. CASE NextSample
  <2>1. /\ timed' = FALSE /\ pc' \in {"seek", "done"}
        /\ k' \in 1..Len(Sizes) /\ j' \in 0..(Samples - 1)
        /\ UNCHANGED <<opened, i, pos, cache, misses, empty>>
    BY <1>5, CacheAssumption DEF NextSample, TypeOK
  <2>2. TypeOK' BY <2>1 DEF TypeOK
  <2>3. Used' = 0 BY <2>1 DEF Used
  <2> QED BY <2>1, <2>2, <2>3 DEF PassOK, LRU, Recent, StepAtCapacity
<1> QED BY <1>1, <1>2, <1>3, <1>4, <1>5

\* Others disturb the cache only before the first pass.
LEMMA DisturbIInv == ASSUME IInv, Disturb PROVE IInv'
<1>1. PICK b \in Blocks : cache' = Use(b) BY DEF Disturb
<1>2. /\ pc = "seek" /\ ~timed
      /\ UNCHANGED <<pc, opened, k, j, timed, i, pos, misses, empty>>
  BY DEF Disturb
<1>3. cache' \in Seq(Blocks) /\ Len(cache') <= Capacity /\ IsInjective(cache')
  BY <1>1, UseProperties, CacheAssumption DEF IInv, TypeOK
<1>4. TypeOK' BY <1>2, <1>3 DEF IInv, TypeOK
<1>5. Used' = 0 BY <1>2 DEF Used
<1> QED BY <1>2, <1>4, <1>5 DEF IInv, PassOK, LRU, Recent, StepAtCapacity

\* A read preserves it. The block that it uses is not among the Size - 1 used last;
\* in the second pass it is the one before these if the cache is that large, and
\* otherwise the cache holds only others of these.
LEMMA ReadIInv == ASSUME IInv, Read PROVE IInv'
<1> USE SizeType DEF IInv
<1>1. /\ pc = "read" /\ i < Size /\ i' = i + 1 /\ i \in Nat
      /\ UNCHANGED <<pc, opened, k, j, timed, Size>>
  BY DEF Read, Size, TypeOK
<1>2. PassOK' BY <1>1 DEF PassOK
<1>3. CASE opened /\ pos < FileBlocks
  <2>1. /\ pos' = pos + 1 /\ cache' = Use(pos)
        /\ misses' = IF pos \in Cached THEN misses ELSE misses + 1
        /\ UNCHANGED empty
    BY <1>3 DEF Read
  <2>2. pos \in Blocks BY <1>3, CacheAssumption DEF Blocks, TypeOK
  <2> DEFINE L == Len(cache)
             used == Use(pos)
  <2>3. L \in Nat /\ L <= Capacity /\ Capacity \in Nat \ {0}
    BY CacheAssumption DEF TypeOK
  <2>4. /\ used \in Seq(Blocks) /\ IsInjective(used)
        /\ Len(used) \in 1..Capacity /\ used[Len(used)] = pos
        /\ \A m \in 1..L : m < Capacity /\ (\A h \in 1..m : cache[L - h + 1] # pos) =>
             m + 1 <= Len(used) /\ used[Len(used) - m] = cache[L - m + 1]
    BY <2>2, UseProperties DEF TypeOK
  <2> HIDE DEF used
  <2>5. TypeOK' BY <1>1, <1>3, <2>1, <2>3, <2>4, CacheAssumption DEF TypeOK, used
  <2>6. ASSUME opened, Size <= FileBlocks
        PROVE  /\ pos = i /\ Used \in Nat /\ Used' = Used + 1 /\ Recent
               /\ Used = (IF timed THEN Size ELSE 0) + i
               /\ Block(Used) = pos
               /\ \A h \in 1..Used : h < Size => Block(Used - h) # pos
    <3>1. pos = i /\ Recent BY <1>1, <2>6 DEF LRU
    <3>2. Used = (IF timed THEN Size ELSE 0) + i /\ Used \in Nat /\ Used' = Used + 1
      BY <1>1 DEF Used
    <3>3. Block(Used) = i BY <1>1, <3>2 DEF Block
    <3>4. \A h \in 1..Used : h < Size => Block(Used - h) # i
      BY <1>1, <3>2 DEF Block
    <3> QED BY <3>1, <3>2, <3>3, <3>4
  <2>7. LRU'
    <3> SUFFICES ASSUME opened, Size <= FileBlocks
                 PROVE  pos' = i' /\ Recent'
      BY <1>1 DEF LRU
    <3>1. pos' = i' BY <1>1, <2>1, <2>6
    <3>2. Recent'
      <4> SUFFICES ASSUME NEW m \in 1..Used', m <= Capacity, m <= Size
                   PROVE  /\ m <= Len(used)
                          /\ used[Len(used) - m + 1] = Block(Used' - m)
        BY <1>1, <2>1 DEF Recent, used, Block
      <4>1. CASE m = 1 BY <2>4, <2>6, <4>1
      <4>2. CASE m > 1
        <5> DEFINE d == m - 1
        <5>1. d \in 1..Used /\ d < Capacity /\ d < Size BY <2>3, <2>6, <4>2
        <5>2. Len(used) - d = Len(used) - m + 1 /\ Used - d = Used' - m /\ m = d + 1
          BY <2>4, <2>6
        <5> HIDE DEF d
        <5>3. ASSUME NEW h \in 1..d
              PROVE  h <= L /\ cache[L - h + 1] = Block(Used - h) /\ Block(Used - h) # pos
          <6>1. h \in 1..Used /\ h <= Capacity /\ h <= Size /\ h < Size
            BY <2>3, <2>6, <5>1
          <6>2. h <= L /\ cache[L - h + 1] = Block(Used - h)
            BY <2>6, <6>1 DEF Recent
          <6> QED BY <2>6, <6>1, <6>2
        <5>4. d \in 1..L BY <2>3, <5>1, <5>3
        <5>5. d + 1 <= Len(used) /\ used[Len(used) - d] = cache[L - d + 1]
          <6>1. \A h \in 1..d : cache[L - h + 1] # pos BY <5>3
          <6> QED BY <2>4, <5>1, <5>4, <6>1
        <5>6. used[Len(used) - d] = Block(Used - d) BY <5>1, <5>3, <5>5
        <5> QED BY <5>2, <5>5, <5>6
      <4> QED BY <2>6, <4>1, <4>2
    <3> QED BY <3>1, <3>2
  <2>8. StepAtCapacity'
    <3> SUFFICES ASSUME opened, Size <= FileBlocks, timed
                 PROVE  misses' = IF Size <= Capacity THEN 0 ELSE i'
      BY <1>1 DEF StepAtCapacity
    <3>1. misses = IF Size <= Capacity THEN 0 ELSE i BY <1>1 DEF StepAtCapacity
    <3>2. Used = Size + i BY <2>6
    <3>3. CASE Size <= Capacity
      <4>1. Size <= L /\ cache[L - Size + 1] = Block(Used - Size)
        BY <1>1, <2>6, <3>2, <3>3 DEF Recent
      <4>2. Block(Used - Size) = pos BY <1>1, <2>6, <3>2 DEF Block
      <4>3. L - Size + 1 \in DOMAIN cache BY <2>3, <4>1 DEF TypeOK
      <4>4. pos \in Cached BY <4>1, <4>2, <4>3 DEF Cached, ToSet
      <4> QED BY <2>1, <3>1, <3>3, <4>4
    <3>4. CASE ~(Size <= Capacity)
      <4>1. pos \notin Cached
        <5> SUFFICES ASSUME NEW n \in 1..L PROVE cache[n] # pos
          BY DEF Cached, ToSet, TypeOK
        <5> DEFINE h == L - n + 1
        <5>1. h \in 1..Used /\ h <= Capacity /\ h < Size /\ n = L - h + 1
          BY <1>1, <2>3, <3>2, <3>4
        <5>2. cache[n] = Block(Used - h) BY <2>6, <5>1 DEF Recent
        <5> QED BY <2>6, <5>1, <5>2
      <4> QED BY <1>1, <2>1, <3>1, <3>4, <4>1
    <3> QED BY <3>3, <3>4
  <2> QED BY <1>2, <2>5, <2>7, <2>8
<1>4. CASE ~(opened /\ pos < FileBlocks)
  <2>1. empty' = empty + 1 /\ UNCHANGED <<pos, cache, misses>> BY <1>4 DEF Read
  <2>2. TypeOK' BY <1>1, <2>1 DEF TypeOK
  <2>3. ~(opened /\ Size <= FileBlocks) BY <1>1, <1>4, CacheAssumption DEF LRU, TypeOK
  <2> QED BY <1>1, <1>2, <2>2, <2>3 DEF LRU, StepAtCapacity
<1> QED BY <1>3, <1>4

\* The inductive invariant holds in every reachable state.
THEOREM Invariance == Spec => []IInv
<1>1. IInv /\ UNCHANGED vars => IInv'
  BY DEF IInv, vars, TypeOK, PassOK, LRU, Recent, Used, Block, Size, StepAtCapacity
<1>2. IInv /\ [Next]_vars => IInv'
  BY <1>1, PassIInv, DisturbIInv, ReadIInv DEF Next
<1> QED BY InitIInv, <1>2, PTL DEF Spec

-----------------------------------------------------------------------------
\* The cache never holds more than it can, or a block twice.
THEOREM TypeCorrect == Spec => []TypeOK
BY Invariance, PTL DEF IInv

\* A timed pass reads nothing from the disk if its size fits the cache, and
\* everything otherwise, whatever the cache held before the sample.
THEOREM NeverOrAlways == Spec => []StepAtCapacity
BY Invariance, PTL DEF IInv

-----------------------------------------------------------------------------
(* MemAccess.  First, arithmetic: remainders of products.                  *)

\* The remainder and the quotient.
LEMMA Division ==
  ASSUME NEW a \in Nat, NEW n \in Nat \ {0}
  PROVE  /\ a % n \in 0..(n - 1) /\ a \div n \in Nat
         /\ (a \div n) * n \in Nat /\ a = (a \div n) * n + (a % n)
OBVIOUS

\* More multiples by one are larger by one n.
LEMMA MulLess ==
  ASSUME NEW n \in Nat \ {0}, NEW p \in Nat, NEW q \in Nat, p < q
  PROVE  p * n + n <= q * n
<1>1. q * n = p * n + n + (q - p - 1) * n OBVIOUS
<1>2. (q - p - 1) * n >= 0 OBVIOUS
<1>3. p * n \in Nat /\ q * n \in Nat OBVIOUS
<1> QED BY <1>1, <1>2, <1>3

\* There is only one remainder below n, and one quotient.
LEMMA Remainder ==
  ASSUME NEW n \in Nat \ {0}, NEW q \in Nat, NEW r \in 0..(n - 1)
  PROVE  (q * n + r) % n = r /\ (q * n + r) \div n = q
<1> DEFINE a == q * n + r
           d == a \div n
           m == a % n
<1>1. q * n \in Nat OBVIOUS
<1>2. a \in Nat BY <1>1
<1> HIDE DEF a
<1>3. d \in Nat /\ d * n \in Nat /\ m \in 0..(n - 1) /\ a = d * n + m BY <1>2, Division
<1> HIDE DEF d, m
<1>4. q * n + r = d * n + m BY <1>3 DEF a
<1>5. ~(q < d)
  <2>1. q < d => q * n + n <= d * n BY <1>3, MulLess
  <2> QED BY <1>1, <1>3, <1>4, <2>1
<1>6. ~(d < q)
  <2>1. d < q => d * n + n <= q * n BY <1>3, MulLess
  <2> QED BY <1>1, <1>3, <1>4, <2>1
<1>7. q = d BY <1>3, <1>5, <1>6
<1> QED BY <1>1, <1>3, <1>4, <1>7 DEF a, m, d

\* Remainders may be taken before an addition as well as after it.
LEMMA AddRemainder ==
  ASSUME NEW n \in Nat \ {0}, NEW a \in Nat, NEW b \in Nat
  PROVE  ((a % n) + b) % n = (a + b) % n
<1> DEFINE p == a \div n
           c == (a % n) + b
           q == c \div n
           r == c % n
<1>1. p \in Nat /\ p * n \in Nat /\ a % n \in Nat /\ a = p * n + (a % n) BY Division
<1>2. c \in Nat BY <1>1
<1> HIDE DEF c
<1>3. q \in Nat /\ q * n \in Nat /\ r \in 0..(n - 1) /\ c = q * n + r BY <1>2, Division
<1> HIDE DEF p, q, r
<1>4. a + b = p * n + q * n + r BY <1>1, <1>3 DEF c
<1>5. p * n + q * n = (p + q) * n /\ p + q \in Nat BY <1>1, <1>3
<1>6. ((p + q) * n + r) % n = r BY <1>3, <1>5, Remainder
<1> QED BY <1>4, <1>5, <1>6 DEF c, r

\* What leaves the remainder as it is is a multiple.
LEMMA SameRemainder ==
  ASSUME NEW n \in Nat \ {0}, NEW a \in Nat, NEW b \in Nat, (a + b) % n = a % n
  PROVE  b % n = 0
<1> DEFINE p == a \div n
           q == (a + b) \div n
           r == a % n
<1>1. p \in Nat /\ p * n \in Nat /\ r \in 0..(n - 1) /\ a = p * n + r BY Division
<1>2. q \in Nat /\ q * n \in Nat /\ a + b = q * n + r
  <2>1. a + b \in Nat OBVIOUS
  <2> QED BY <2>1, Division
<1> HIDE DEF p, q, r
<1>3. ~(q < p)
  <2>1. q < p => q * n + n <= p * n BY <1>1, <1>2, MulLess
  <2> QED BY <1>1, <1>2, <2>1
<1>4. q - p \in Nat BY <1>1, <1>2, <1>3
<1>5. b = (q - p) * n + 0
  <2>1. (q - p) * n = q * n - p * n BY <1>1, <1>2
  <2> QED BY <1>1, <1>2, <2>1
<1>6. ((q - p) * n + 0) % n = 0 BY <1>4, Remainder
<1> QED BY <1>5, <1>6

\* A set of natural numbers has a least one.
LEMMA Least ==
  ASSUME NEW T \in SUBSET Nat, T # {}
  PROVE  \E x \in T : \A y \in T : x <= y
<1> DEFINE R == OpToRel(<, Nat)
<1>1. \E x \in T : \A y \in T : <<y, x>> \notin R
  <2>1. IsWellFoundedOn(R, Nat) BY NatLessThanWellFounded
  <2> HIDE DEF R
  <2> QED BY <2>1, WFMin
<1>2. \A x, y \in Nat : y < x => <<y, x>> \in R BY DEF OpToRel
<1> HIDE DEF R
<1>3. PICK x \in T : \A y \in T : <<y, x>> \notin R BY <1>1
<1>4. \A y \in T : ~(y < x) BY <1>2, <1>3
<1> QED BY <1>4

-----------------------------------------------------------------------------
(* The ring that the program chases.                                       *)

\* The element that the h-th access reaches: the array is a ring.
Place(h) == (h * stride) % num

\* What is written links each element to the one a stride on, and the chase is where
\* its count of accesses has brought it.
ChaseOK == /\ \A e \in DOMAIN array : array[e] = (e + stride) % num
           /\ mpc = "fill" => count <= num /\ next = 0 /\ touched = {}
           /\ mpc = "chase" => /\ next = Place(count)
                               /\ touched = {Place(h) : h \in 0..(count - 1)}

MemInv == MATypeOK /\ ChaseOK /\ FullLap

\* The numbers of the current measurement.
LEMMA MemType ==
  ASSUME MATypeOK
  PROVE  num \in Nat \ {0} /\ stride \in Nat /\ count \in Nat
BY MemAssumption DEF MATypeOK, num

\* A link goes a stride on, around the ring.
LEMMA LinkType ==
  ASSUME MATypeOK, NEW e \in Elements
  PROVE  Link(e) = (e + stride) % num /\ Link(e) \in Elements
<1> DEFINE n == num
<1>1. n \in Nat \ {0} /\ stride \in Nat /\ e \in 0..(n - 1)
  BY MemType DEF Elements
<1> HIDE DEF n
<1>2. (e + stride) % n \in 0..(n - 1)
  <2>1. e + stride \in Nat BY <1>1
  <2> QED BY <1>1, <2>1, Division
<1>3. CASE e + stride >= n BY <1>2, <1>3 DEF Link, Elements, n
<1>4. CASE ~(e + stride >= n)
  <2>1. e + stride \in 0..(n - 1) BY <1>1, <1>4
  <2>2. (0 * n + (e + stride)) % n = e + stride BY <1>1, <2>1, Remainder
  <2>3. 0 * n + (e + stride) = e + stride BY <1>1
  <2>4. (e + stride) % n = e + stride BY <2>2, <2>3
  <2> QED BY <1>4, <2>1, <2>4 DEF Link, Elements, n
<1> QED BY <1>3, <1>4

\* The chase comes back after the least number of strides that is a multiple of the
\* size. There is one: as many strides as the array has elements.
LEMMA LapType ==
  ASSUME MATypeOK
  PROVE  /\ Lap(stride) \in 1..num
         /\ (Lap(stride) * stride) % num = 0
         /\ \A h \in 1..(Lap(stride) - 1) : (h * stride) % num # 0
<1> DEFINE n == num
           T == {l \in 1..n : (l * stride) % n = 0}
<1>1. n \in Nat \ {0} /\ stride \in Nat BY MemType
<1> HIDE DEF n
<1>2. n \in T
  <2>1. n * stride = stride * n + 0 BY <1>1
  <2>2. (stride * n + 0) % n = 0 BY <1>1, Remainder
  <2> QED BY <1>1, <2>1, <2>2
<1>3. PICK l \in T : \A h \in T : l <= h
  <2>1. T \subseteq 1..n /\ 1..n \subseteq Nat BY <1>1
  <2>2. T # {} BY <1>2
  <2> HIDE DEF T
  <2> QED BY <2>1, <2>2, Least
<1>4. l \in 1..n /\ (l * stride) % n = 0 /\ \A h \in 1..(l - 1) : (h * stride) % n # 0
  <2>1. l \in 1..n /\ (l * stride) % n = 0 BY <1>3
  <2>2. ASSUME NEW h \in 1..(l - 1) PROVE (h * stride) % n # 0
    <3>1. h \in 1..n /\ ~(l <= h) BY <1>1, <2>1
    <3> QED BY <1>3, <3>1
  <2> QED BY <2>1, <2>2
<1>5. \E m \in 1..n : /\ Divides(n, m * stride)
                      /\ \A h \in 1..(m - 1) : ~Divides(n, h * stride)
  BY <1>4 DEF Divides
<1> QED BY <1>5 DEF Lap, Divides, n

\* Within a lap no place is reached twice, and after it none is new.
LEMMA PlaceOfChase ==
  ASSUME MATypeOK, mpc = "chase"
  PROVE  /\ Place(0) = 0
         /\ (Place(count) + stride) % num = Place(count + 1)
         /\ count < Lap(stride) => \A h \in 0..(count - 1) : Place(h) # Place(count)
         /\ count >= Lap(stride) => \E h \in 0..(count - 1) : Place(h) = Place(count)
<1> DEFINE n == num
           l == Lap(stride)
<1>1. n \in Nat \ {0} /\ stride \in Nat /\ count \in Nat BY MemType
<1>2. /\ l \in 1..n /\ (l * stride) % n = 0
      /\ \A h \in 1..(l - 1) : (h * stride) % n # 0
  BY LapType
<1> HIDE DEF n, l
<1>3. \A h \in Nat : h * stride \in Nat BY <1>1
<1>4. Place(0) = 0
  <2>1. 0 * stride = 0 * n + 0 BY <1>1
  <2>2. (0 * n + 0) % n = 0 BY <1>1, Remainder
  <2> QED BY <2>1, <2>2 DEF Place, n
<1>5. (Place(count) + stride) % n = Place(count + 1)
  <2>1. (((count * stride) % n) + stride) % n = ((count * stride) + stride) % n
    BY <1>1, <1>3, AddRemainder
  <2>2. (count * stride) + stride = (count + 1) * stride BY <1>1
  <2> QED BY <2>1, <2>2 DEF Place, n
<1>6. ASSUME count < l, NEW h \in 0..(count - 1), Place(h) = Place(count) PROVE FALSE
  <2>1. h \in Nat /\ count - h \in 1..(l - 1) BY <1>1, <1>2, <1>6
  <2>2. h * stride \in Nat /\ (count - h) * stride \in Nat BY <1>3, <2>1
  <2>3. h * stride + (count - h) * stride = count * stride BY <1>1, <2>1
  <2>4. (h * stride + (count - h) * stride) % n = (h * stride) % n
    BY <1>6, <2>3 DEF Place, n
  <2>5. ((count - h) * stride) % n = 0 BY <1>1, <2>2, <2>4, SameRemainder
  <2> QED BY <1>2, <2>1, <2>5
<1>7. ASSUME count >= l PROVE \E h \in 0..(count - 1) : Place(h) = Place(count)
  <2> DEFINE h == count - l
  <2>1. h \in 0..(count - 1) BY <1>1, <1>2, <1>7
  <2>2. h * stride \in Nat /\ l * stride \in Nat BY <1>1, <1>2, <1>3, <2>1
  <2>3. l * stride + h * stride = count * stride BY <1>1, <1>2
  <2>4. (((l * stride) % n) + h * stride) % n = (l * stride + h * stride) % n
    BY <1>1, <2>2, AddRemainder
  <2>5. (h * stride) % n = (count * stride) % n BY <1>2, <2>2, <2>3, <2>4
  <2> QED BY <2>1, <2>5 DEF Place, n
<1> QED BY <1>4, <1>5, <1>6, <1>7 DEF n, l

\* Writing the links preserves it, and so does the start of the chase.
LEMMA FillStep ==
  ASSUME MemInv, Fill \/ FillOver
  PROVE  MemInv'
<1>1. num \in Nat \ {0} /\ stride \in Nat /\ count \in Nat
  BY MemType DEF MemInv
<1>2. /\ mpc = "fill" /\ count <= num /\ next = 0 /\ touched = {}
      /\ DOMAIN array = 0..(count - 1)
      /\ UNCHANGED <<stride, at, touched, num>>
  BY DEF MemInv, MATypeOK, ChaseOK, Fill, FillOver, num
<1>3. CASE Fill
  <2>1. /\ mpc' = "fill" /\ count < num /\ count' = count + 1 /\ next' = next
        /\ array' = [e \in DOMAIN array \cup {count} |->
                       IF e = count THEN Link(count) ELSE array[e]]
    BY <1>3 DEF Fill
  <2>2. /\ count \in Elements
        /\ Link(count) = (count + stride) % num
        /\ Link(count) \in Elements
    <3>1. count \in Elements BY <1>1, <2>1 DEF Elements
    <3> QED BY <3>1, LinkType DEF MemInv
  <2>3. DOMAIN array' = 0..(count' - 1) BY <1>1, <1>2, <2>1
  <2>4. /\ \A e \in DOMAIN array' : array'[e] \in Elements
        /\ \A e \in DOMAIN array' : array'[e] = (e + stride) % num
    BY <2>1, <2>2 DEF MemInv, MATypeOK, ChaseOK
  <2>5. Elements' = Elements /\ num' = num
    BY <1>2 DEF Elements
  <2>6. MATypeOK'
    <3>1. /\ stride' \in StrideList /\ at' \in DOMAIN SizeList /\ count' \in Nat
          /\ next' \in Elements /\ touched' \subseteq Elements
      BY <1>1, <1>2, <2>1 DEF MemInv, MATypeOK
    <3> QED BY <2>1, <2>3, <2>4, <2>5, <3>1 DEF MATypeOK
  <2>7. ChaseOK'
    <3>1. count' <= num' /\ next' = 0 /\ touched' = {}
      BY <1>1, <1>2, <2>1
    <3>2. \A e \in DOMAIN array' : array'[e] = (e + stride') % num'
      BY <1>2, <2>4, <2>5
    <3> QED BY <2>1, <3>1, <3>2 DEF ChaseOK
  <2> QED BY <2>1, <2>6, <2>7 DEF MemInv, FullLap
<1>4. CASE FillOver
  <2>1. /\ mpc' = "chase" /\ count >= num /\ count' = 0 /\ next' = 0
        /\ array' = array
    BY <1>4 DEF FillOver
  <2>2. DOMAIN array = Elements BY <1>1, <1>2, <2>1 DEF Elements
  <2>3. MATypeOK'
    BY <1>1, <1>2, <2>1, <2>2 DEF MemInv, MATypeOK, Elements
  <2>4. num' \in Nat \ {0} /\ Lap(stride)' \in 1..num'
    <3>1. Lap(stride)' = Lap(stride) BY <1>2 DEF Lap
    <3> QED BY <1>1, <1>2, <3>1, LapType DEF MemInv
  <2>5. ChaseOK'
    <3>1. Place(0)' = 0
      <4>1. 0 * stride = 0 * num + 0 BY <1>1
      <4>2. (0 * num + 0) % num = 0 BY <1>1, Remainder
      <4> QED BY <1>2, <4>1, <4>2 DEF Place
    <3>2. {Place(h)' : h \in 0..(count' - 1)} = {} BY <2>1
    <3> QED BY <1>2, <2>1, <3>1, <3>2 DEF ChaseOK, MemInv
  <2>6. Cardinality(touched') = 0 BY <1>2, FS_EmptySet
  <2>7. FullLap' BY <2>1, <2>4, <2>6 DEF FullLap
  <2> QED BY <2>3, <2>5, <2>7 DEF MemInv
<1> QED BY <1>3, <1>4

\* An access preserves it: it reaches a new element exactly within the first lap.
LEMMA ChaseStep ==
  ASSUME MemInv, Chase
  PROVE  MemInv'
<1> DEFINE n == num
           l == Lap(stride)
<1>1. n \in Nat \ {0} /\ stride \in Nat /\ count \in Nat /\ l \in 1..n
  BY MemType, LapType DEF MemInv
<1>2. /\ mpc = "chase" /\ mpc' = "chase"
      /\ touched' = touched \cup {next} /\ next' = array[next] /\ count' = count + 1
      /\ UNCHANGED <<stride, at, array>>
  BY DEF Chase
<1>3. n' = n /\ Lap(stride)' = l /\ \A h : Place(h)' = Place(h)
  BY <1>2 DEF num, Lap, Place
<1>4. /\ DOMAIN array = Elements /\ next \in Elements
      /\ touched \subseteq Elements /\ array[next] \in Elements
      /\ array[next] = (next + stride) % n
      /\ next = Place(count) /\ touched = {Place(h) : h \in 0..(count - 1)}
  BY <1>2 DEF MemInv, MATypeOK, ChaseOK
<1>5. /\ next' = Place(count + 1)
      /\ count < l => next \notin touched
      /\ count >= l => next \in touched
  <2>1. /\ (Place(count) + stride) % n = Place(count + 1)
        /\ count < l => \A h \in 0..(count - 1) : Place(h) # Place(count)
        /\ count >= l => \E h \in 0..(count - 1) : Place(h) = Place(count)
    BY <1>2, PlaceOfChase DEF MemInv
  <2> QED BY <1>2, <1>4, <2>1
<1>6. MATypeOK'
  BY <1>1, <1>2, <1>3, <1>4 DEF MemInv, MATypeOK, Elements
<1>7. ChaseOK'
  <2>1. touched' = {Place(h) : h \in 0..count}
    <3>1. 0..count = 0..(count - 1) \cup {count} BY <1>1
    <3> QED BY <1>2, <1>4, <3>1
  <2>2. count' - 1 = count BY <1>1, <1>2
  <2> QED BY <1>2, <1>3, <1>5, <2>1, <2>2 DEF ChaseOK, MemInv
<1>8. FullLap'
  <2>1. IsFiniteSet(touched)
    <3>1. IsFiniteSet(Elements)
      <4>1. n - 1 \in Int BY <1>1
      <4> QED BY <4>1, FS_Interval DEF Elements
    <3> QED BY <1>4, <3>1, FS_Subset
  <2>2. Cardinality(touched') =
          IF next \in touched THEN Cardinality(touched) ELSE Cardinality(touched) + 1
    BY <1>2, <2>1, FS_AddElement
  <2>3. Cardinality(touched) = IF count < l THEN count ELSE l
    BY <1>2 DEF MemInv, FullLap
  <2> HIDE DEF l
  <2>4. Cardinality(touched') = IF count + 1 < l THEN count + 1 ELSE l
    BY <1>1, <1>5, <2>2, <2>3
  <2> QED BY <1>2, <1>3, <2>4 DEF FullLap, l
<1> QED BY <1>6, <1>7, <1>8 DEF MemInv

\* The next size preserves it: a new array, of which nothing is written.
LEMMA NextSizeStep ==
  ASSUME MemInv, NextSize
  PROVE  MemInv'
<1>1. /\ array' = <<>> /\ count' = 0 /\ next' = 0 /\ touched' = {} /\ stride' = stride
      /\ mpc' \in {"fill", "done"} /\ at' \in DOMAIN SizeList
  <2>1. SizeList \in Seq(Nat \ {0}) /\ at \in DOMAIN SizeList
    BY MemAssumption DEF MemInv, MATypeOK
  <2> QED BY <2>1 DEF NextSize
<1>2. num' \in Nat \ {0} BY <1>1, MemAssumption DEF num
<1>3. DOMAIN array' = {} /\ 0..(count' - 1) = {} BY <1>1
<1>4. MATypeOK' BY <1>1, <1>2, <1>3 DEF MemInv, MATypeOK, Elements
<1>5. ChaseOK' BY <1>1, <1>2, <1>3 DEF ChaseOK
<1> QED BY <1>1, <1>4, <1>5 DEF MemInv, FullLap

\* The inductive invariant holds in every reachable state.
THEOREM MemInvariance == MASpec => []MemInv
<1>1. MAInit => MemInv
  <2> SUFFICES ASSUME MAInit PROVE MemInv
    OBVIOUS
  <2>1. mpc = "fill" /\ at = 1 /\ stride \in StrideList /\ array = <<>>
        /\ count = 0 /\ next = 0 /\ touched = {}
    BY DEF MAInit
  <2>2. at \in DOMAIN SizeList /\ num \in Nat \ {0}
    BY <2>1, MemAssumption DEF num
  <2>3. DOMAIN array = {} /\ 0..(count - 1) = {} BY <2>1
  <2>4. MATypeOK BY <2>1, <2>2, <2>3 DEF MATypeOK, Elements
  <2> QED BY <2>1, <2>2, <2>3, <2>4 DEF MemInv, ChaseOK, FullLap
<1>2. MemInv /\ UNCHANGED mavars => MemInv'
  BY DEF MemInv, mavars, MATypeOK, Elements, ChaseOK, Place, FullLap,
         Lap, num
<1>3. MemInv /\ [MANext]_(mavars) => MemInv'
  BY <1>2, FillStep, ChaseStep, NextSizeStep DEF MANext
<1> QED BY <1>1, <1>3, PTL DEF MASpec

\* No link leaves the array and only written elements are chased.
THEOREM MemTypeCorrect == MASpec => []MATypeOK
BY MemInvariance, PTL DEF MemInv

\* For any size and any stride, the chase reaches a new element with every access
\* until it has come round to the first one.
THEOREM ChaseIsFullLap == MASpec => []FullLap
BY MemInvariance, PTL DEF MemInv
=============================================================================
